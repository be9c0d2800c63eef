\* Any three of two launches and two destroys, killed anywhere.
CONSTANTS
    Launchers = {l1, l2}
    Destroyers = {d1, d2}
    Options <- OneFull
    Crashes = TRUE
    MaxStarted = 3
    Reread = FALSE
    None = None
    Torn = Torn
SPECIFICATION Spec
SYMMETRY Symmetry
INVARIANTS
    TypeOK
    ReadyServes
    DockerIsListed
    DestroyLeavesNothing
CHECK_DEADLOCK FALSE

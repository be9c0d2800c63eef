\* Two launches and nothing that fails.
CONSTANTS
    Launchers = {l1, l2}
    Destroyers = {}
    Options <- AllBare
    Crashes = FALSE
    MaxStarted = 2
    Reread = FALSE
    None = None
    Torn = Torn
SPECIFICATION Spec
INVARIANTS
    OneLocalSession
CHECK_DEADLOCK FALSE

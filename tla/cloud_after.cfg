\* Destroys start once the launch has ended, in whatever way it did.
CONSTANTS
    Launcher = launcher
    Destroyers = {d1, d2}
    Options <- LaunchKinds
    Overlap = FALSE
    Faults <- ButTornAndRedial
    None = None
    Torn = Torn
SPECIFICATION Spec
SYMMETRY Symmetry
INVARIANTS
    LockExclusive
    BilledIsListed
    KeyRevoked
    KeyIsListed
    LaunchFailureRecorded
PROPERTIES
    FollowsLifecycle

\* A window of two seconds and goroutines that wait for one.
CONSTANTS
    Keys = {k1}
    Handlers = {h1, h2}
    Sweeper = sweeper
    Burst = 2
    Window = 2
    Skew = 1
    Horizon = 8
    None = None
SPECIFICATION Spec
SYMMETRY Symmetry
INVARIANTS
    TypeOK
    RateBound
PROPERTIES
    RefusalsAreEarned
    FollowsMeter
CHECK_DEADLOCK FALSE

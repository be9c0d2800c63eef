\* A destroy that is run again and again, under every fault.
CONSTANTS
    Launcher = launcher
    Destroyers = {d1}
    Options <- FullLaunch
    Overlap = TRUE
    Faults <- AnyFault
    None = None
    Torn = Torn
SPECIFICATION FairSpec
INVARIANTS
    TypeOK
    LockExclusive
    ReadyComplete
    SuccessMeansGone
PROPERTIES
    DestroyConverges
    BillingEnds

\* A launch that may be interrupted anywhere, over a VM that may change.
CONSTANTS
    Rekeys = 1
    Full = TRUE
    None = None
    Empty = Empty
SPECIFICATION FairSpec
INVARIANTS
    TypeOK
    NoChildLeft
    InterruptIsObeyed
    NothingCutShort
    OneHost
    RowsStay
PROPERTIES
    PinStays
    InterruptEnds
    BudgetsHold
CHECK_DEADLOCK FALSE

\* Two gateways that come and go with changing setups, one browser.
CONSTANTS
    Gateways = {g1, g2}
    Browsers = {b1}
    Setups <- MCSetups
    Words <- MCWords
    right = right
    wrong = wrong
    Ttl = 2
    Horizon = 3
    MaxKeys = 2
    None = None
SPECIFICATION Spec
SYMMETRY Symmetry
INVARIANTS
    TypeOK
    AdmittedInTime
    RestartRevokes
    CookiesSurvive
CHECK_DEADLOCK FALSE

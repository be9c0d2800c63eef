\* The launch is killed while it rewrites metadata.json.
CONSTANTS
    Launcher = launcher
    Destroyers = {d1}
    Options <- AILaunch
    Overlap = FALSE
    Faults <- CrashAndTorn
    None = None
    Torn = Torn
SPECIFICATION Spec
INVARIANTS
    BilledIsListed

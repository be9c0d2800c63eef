\* A destroy whose prompt was open while the launch ran.
CONSTANTS
    Launcher = launcher
    Destroyers = {d1}
    Options <- AILaunch
    Overlap = TRUE
    Faults <- NoFaults
    None = None
    Torn = Torn
SPECIFICATION Spec
INVARIANTS
    KeyRevoked

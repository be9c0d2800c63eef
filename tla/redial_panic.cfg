\* The second dial of a launch fails.
CONSTANTS
    Launcher = launcher
    Destroyers = {d1}
    Options <- AILaunch
    Overlap = FALSE
    Faults <- RedialOnly
    None = None
    Torn = Torn
SPECIFICATION Spec
INVARIANTS
    LaunchFailureRecorded

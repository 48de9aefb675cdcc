SPECIFICATION Spec
CONSTANTS
    Ifaces = {}
    Snaps = {}
    OptimizeMemory = TRUE
    UsedDevices = {}
INVARIANTS BalloonConfiguredAtBoot
CHECK_DEADLOCK TRUE

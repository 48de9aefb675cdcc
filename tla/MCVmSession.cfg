SPECIFICATION MCSpec
CONSTANTS
    Ifaces = {eth0}
    Snaps = {base}
    OptimizeMemory = TRUE
    UsedDevices = {"vsock", eth0}
INVARIANTS TypeOK StateAgreement  CacheIsTruthful ManifestMatchesImage
PROPERTIES RunLeavesNothing RunReturns ExitIsNoticed
CHECK_DEADLOCK TRUE

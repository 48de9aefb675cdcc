SPECIFICATION Spec
CONSTANTS
    j1 = j1
    j2 = j2
    i1 = i1
    i2 = i2
    Jailers = {j1, j2}
    Jails = {i1, i2}
    IdOf <- DistinctIds
    Binaries = {b1, b2}
    CleanupOnExit = TRUE
INVARIANTS TypeOK VmIsGivenBack JailIsComplete
 
CHECK_DEADLOCK TRUE

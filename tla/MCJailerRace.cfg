SPECIFICATION Spec
CONSTANTS
    j1 = j1
    j2 = j2
    i1 = i1
    i2 = i2
    Jailers = {j1, j2}
    Jails = {i1}
    IdOf <- SameId
    Binaries = {b1}
    CleanupOnExit = TRUE
INVARIANTS OneOwner
CHECK_DEADLOCK TRUE

SPECIFICATION Spec
CONSTANTS
    j1 = j1
    j2 = j2
    i1 = i1
    i2 = i2
    Jailers = {j1}
    Jails = {i1}
    IdOf <- OneId
    Binaries = {b1}
    CleanupOnExit = TRUE
INVARIANTS StartsInJail
CHECK_DEADLOCK TRUE

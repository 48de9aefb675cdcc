SPECIFICATION Spec
CONSTANTS
    Headroom = 1
    DefaultMin = 1
    MemSize = 7
    GivenPolicy <- SmallPolicy
    AskedInitial = {0, 8}
    UserAmounts = {0, 4}
    Available = {0, 1, 3}
    Timeout = 1
    MaxFailures = 2
INVARIANTS TypeOK GuestKeepsHeadroom
PROPERTIES CooldownHolds Settles
CHECK_DEADLOCK TRUE

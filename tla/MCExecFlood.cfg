SPECIFICATION Spec
CONSTANTS
    c1 = c1
    Clients = {c1}
    None = None
    PipeSize = 1
    MaxWrites = 1
    Fifos = FALSE
    Endless = TRUE
PROPERTIES TimeoutIsEnforced
CHECK_DEADLOCK TRUE

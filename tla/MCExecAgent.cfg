SPECIFICATION Spec
CONSTANTS
    c1 = c1
    c2 = c2
    Clients = {c1, c2}
    None = None
    PipeSize = 1
    MaxWrites = 2
    Fifos = TRUE
    Endless = FALSE
INVARIANTS TypeOK OutputIsComplete ScriptIsOver
PROPERTIES AgentComesBack
\* an agent blocked on a FIFO nobody opens serves nobody
CHECK_DEADLOCK FALSE

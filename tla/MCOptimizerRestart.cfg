SPECIFICATION Spec
CONSTANTS
    Callers = {c1}
    Workers = {w1, w2}
    None = None
    MaxFailures = 3
INVARIANTS RunningVmHasWorker
CHECK_DEADLOCK TRUE

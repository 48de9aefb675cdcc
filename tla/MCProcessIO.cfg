SPECIFICATION Spec
CONSTANTS
    Callers = {c1, c2}
    Streams = {out}
    MaxStarts = 2
    MaxChunks = 1
INVARIANTS TypeOK FailureHasACause OutputIsComplete
PROPERTIES StopKills StopReturns
CHECK_DEADLOCK TRUE

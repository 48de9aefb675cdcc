SPECIFICATION Spec
CONSTANTS
    Callers = {c1, c2}
    Workers = {w1, w2}
    None = None
    MaxFailures = 1
INVARIANTS TypeOK OneWorker
PROPERTIES StopIsNotLost StopTakesEffect NoWorkerOutlivesTheVm ImplementsJob
CHECK_DEADLOCK TRUE

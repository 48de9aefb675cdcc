SPECIFICATION Spec
CONSTANTS
    Conns = {c1, c2}
    None = None
    HostTimeout = 3
    JobTimeout = 2
INVARIANTS TypeOK DiesOnlyWhenAbandoned AnswerIsOwn
PROPERTIES HostComesBack AgentComesBack
\* main() returns, and the guest is gone
CHECK_DEADLOCK FALSE

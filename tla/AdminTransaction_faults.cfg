SPECIFICATION FairSpec
CONSTANTS
    Requests = {r1, r2}
    Ops = {o1, o2}
    Marked = {o1}
    HistoryKeep = 1
    NoOp = NoOp
    NoRequest = NoRequest
    Kinds = {"mutate", "read", "service_stop", "service_start", "service_restart"}
    Faults = {"stop_refused", "slow_stop", "start_failed", "io_error", "killed", "web_timeout", "svc_crash"}
    MaxConnections = 2
    MaxTicks = 1
INVARIANTS
    LockDiscipline
    AppliedAtMostOnce
PROPERTIES
    EveryRequestAnswered
    EveryHelperEnds
\* Every request is sent once: the system stops when all are answered.
CHECK_DEADLOCK FALSE

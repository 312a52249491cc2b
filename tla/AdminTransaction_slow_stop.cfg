SPECIFICATION Spec
CONSTANTS
    Requests = {r1, r2}
    Ops = {o1, o2}
    Marked = {o1}
    HistoryKeep = 1
    NoOp = NoOp
    NoRequest = NoRequest
    Kinds = {"mutate"}
    Faults = {"slow_stop"}
    MaxConnections = 2
    MaxTicks = 1
INVARIANTS
    ReplacedOnlyWhileStopped
\* Every request is sent once: the system stops when all are answered.
CHECK_DEADLOCK FALSE

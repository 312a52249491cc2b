SPECIFICATION Spec
CONSTANTS
    Requests = {r1, r2, r3}
    Ops = {o1, o2, o3}
    Marked = {o1, o2}
    HistoryKeep = 1
    NoOp = NoOp
    NoRequest = NoRequest
    Kinds = {"mutate", "read", "service_stop", "service_start", "service_restart"}
    Faults = {"stop_refused", "io_error", "web_timeout"}
    MaxConnections = 2
    MaxTicks = 1
SYMMETRY Symmetry
INVARIANTS
    ReplacedOnlyWhileStopped
    BackupCoversReplacement
    ServiceRunsCommitted
    ServiceRestored
PROPERTIES
    DurableCommits
    StoreSpec
\* Every request is sent once: the system stops when all are answered.
CHECK_DEADLOCK FALSE

SPECIFICATION Spec
CONSTANTS
    Versions = {v1, v2}
    MaxKeep = 1
    DefaultKeep = 1
    KeepAutomatic = 1
    MaxTraffic = 1
    MaxRequests = 2
    MaxFaults = 1
    MaxMade = 3
SYMMETRY Symmetry
INVARIANTS
    ReplacedIsCopied
CHECK_DEADLOCK FALSE

SPECIFICATION Spec
CONSTANTS
    Threads = {t1, t2}
    Keys = {k1}
    Limit = 2
    Window = 2
    Lifetime = 2
    MaxSessions = 2
    MaxChanges = 2
    Hashes = {h1, h2, h3}
    LibraryLimit = 2
    CallLimit = 2
    Accounts = {u1}
    KeepDays = 0
    MaxBytes = 2
    MaxTotal = 2
    MaxDay = 1
    People = {p1, p2}
    Labels = {a, b}
    MaxOperations = 2
    Admins = {a1, a2}
    Tokens = {b1, b2}
    MaxConfigured = 3
    Renewals = {r1, r2}
INVARIANTS
    PartsTypeOK
    AttemptsBounded
    OldSessionsEnd
    NoByteTwice
    LabelsKept
    VerifiedMeansRunning
    TelegramApplied
    NginxReturns
PROPERTIES
    ClosedKeysOpen
    AdditionsKept
    TotalsNeverBack
CHECK_DEADLOCK FALSE

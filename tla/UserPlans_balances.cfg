SPECIFICATION FairSpec
CONSTANTS
    Users = {u1}
    Ids = {i1, i2}
    FreshId = FreshId
    Amounts = {0, 1}
    HistoryKeep = 2
    Month = 1
    MonthCounts = {1}
    MaxTime = 3
    MaxTerm = 2
    MaxPackage = 2
    MaxCounter = 2
INVARIANTS
    SessionsEntitled
    NoOperationTwice
PROPERTIES
    RenewalOpensAccess
    AccountsSpec
    RestrictedDisconnected

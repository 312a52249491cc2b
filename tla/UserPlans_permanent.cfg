SPECIFICATION Spec
CONSTANTS
    Users = {u1}
    Ids = {i1}
    FreshId = FreshId
    Amounts = {1, 2}
    HistoryKeep = 1
    Month = 1
    MonthCounts = {1}
    MaxTime = 3
    MaxTerm = 2
    MaxPackage = 2
    MaxCounter = 2
PROPERTIES
    RenewalKeepsActiveBalance

SPECIFICATION Spec
CONSTANTS
    Users = {u1, u2}
    Ids = {i1}
    FreshId = FreshId
    Amounts = {1}
    HistoryKeep = 1
    Month = 1
    MonthCounts = {1}
    MaxTime = 1
    MaxTerm = 2
    MaxPackage = 1
    MaxCounter = 1
SYMMETRY Symmetry
PROPERTIES
    AccountsSpec

\* One invocation of each function, two failures, one row or item that goes.
SPECIFICATION FairSpec
CONSTANTS
    Users = {1, 2}
    Paths = {1, 3}
    SarIds = {2}
    Names = {"app", "dvla"}
    AppNames = {"app"}
    Workers = {w1}
    Signers = {"s1"}
    Handlers = {}
    InitialTable <- TwoUserTable
    InitialRows <- TwoUserRows
    SlowItems <- SlowSarRecord
    SlowRows <- SlowDvlaRow
    MaxTries = 2
    MaxPuts = 3
    MaxFailures = 2
    MaxWrites = 1
PROPERTIES RecordsFollow RequestsSettle AnswersWhenNothingFails
CHECK_DEADLOCK FALSE

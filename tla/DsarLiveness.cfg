\* One user, PageSize records, one failure: at most two batches an attempt.
SPECIFICATION FairSpec
CONSTANTS
    Users = {1, 2}
    Paths = {1, 2}
    Names = {"app", "new"}
    AppNames = {"app", "new"}
    Requests = {"r1"}
    RequestWorkers = {"q1"}
    DeleteWorkers = {"d1"}
    Handlers = {}
    InitialData <- SmallData
    InitialRows <- SmallRows
    PageSize = 2
    MaxReceive = 2
    MaxBatches = 4
    MaxFailures = 1
    MaxWrites = 0
    SlowRecords <- SmallSlowRecords
    SlowRows <- SlowAppRow
PROPERTIES BatchesSettle RequestsSettle ErasesWhenNothingFails
CHECK_DEADLOCK FALSE

\* Two users, two delete invocations at once, one failure, one API write.
SPECIFICATION Spec
CONSTANTS
    Users = {1, 2}
    Paths = {1, 2}
    Names = {"app", "dvla"}
    AppNames = {"app"}
    Requests = {"r1"}
    RequestWorkers = {"q1"}
    DeleteWorkers = {d1, d2}
    Handlers = {"h1"}
    InitialData <- TwoUserData
    InitialRows <- TwoUserRows
    PageSize = 2
    MaxReceive = 2
    MaxBatches = 2
    MaxFailures = 1
    MaxWrites = 1
    SlowRecords <- TwoUserSlowRecords
    SlowRows <- SlowAppRow
INVARIANTS TypeOK ErasureOwed OneUserPerBatch
PROPERTY ImplementsErasure
SYMMETRY WorkerSymmetry
CHECK_DEADLOCK FALSE

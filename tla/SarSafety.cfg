\* Two users, overlapping deliveries, two failures, two API calls.
SPECIFICATION Spec
CONSTANTS
    Users = {1, 2}
    Paths = {1, 3}
    SarIds = {2}
    Names = {"app", "dvla"}
    AppNames = {"app"}
    Workers = {w1, w2}
    Signers = {"s1"}
    Handlers = {"h1"}
    InitialTable <- TwoUserTable
    InitialRows <- TwoUserRows
    SlowItems <- SlowPost
    SlowRows <- SlowAppRow
    MaxTries = 2
    MaxPuts = 2
    MaxFailures = 2
    MaxWrites = 2
INVARIANTS TypeOK 
PROPERTIES ImplementsAtLeastOnce CompleteFiles GoneStaysGone
SYMMETRY WorkerSymmetry
CHECK_DEADLOCK FALSE

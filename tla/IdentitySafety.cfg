\* Two overlapping handlers, three requests, a purge, one second.
SPECIFICATION Spec
CONSTANTS
    Users = {1, 2, 3}
    ServiceNames = {"app", "dvla", "DVLA"}
    Lower <- LowerName
    Ids = {1, 2}
    Calls <- ClientCalls
    Handlers = {h1, h2}
    InitialRows <- OneUserRows
    BATCH_SIZE = 1
    MaxTime = 2
    MaxRequests = 3
    MaxPurges = 1
INVARIANTS TypeOK OneUserPerName SettledAnswers PurgeComplete AnswersDeclared
SYMMETRY HandlerSymmetry
CHECK_DEADLOCK FALSE

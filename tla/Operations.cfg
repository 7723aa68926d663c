SPECIFICATION Spec

CONSTANTS
    a1 = a1
    x1 = x1
    m1 = m1
    m2 = m2
    r1 = r1
    r2 = r2
    Migrations = {m1, m2}
    Extractors = {x1}
    Arns = {a1, a2, bad}
    ValidArns = {a1, a2}
    ArnOf <- MCArnOf
    MappedBefore = {bad, a2}
    MAX_ATTEMPTS = 2
    MaxAge = 1
    ServerAge = 3
    MaxTime = 3
    MaxClients = 2
    MaxFaults = 1
    MaxUses = 1
    Runs = {r1, r2}
    RestoredTable = restored
    NewBuckets = {fresh, foreign}
    Foreign = {foreign}
    SourceBucket = source
    Nobody = nobody
    MAX_POLLS = 2
    Releases = {l1, l2, l3}
    LambdaNames = {f1, p1}
    TableNames = {t1}
    PrNames = {p1}
    DeveloperNames = {}
    Operator = operator

CHECK_DEADLOCK FALSE

INVARIANT OperationsTypeOK
INVARIANT StatementsOnce
INVARIANT ConnectionSound
INVARIANT MigrationHolds
INVARIANT RestoredIsOwn
INVARIANT NothingDenied
INVARIANT MonitoringCurrent
PROPERTY RunsEnd
PROPERTY MessagesConsumed

\* Two shards race for the versions of one topic; one invocation may fail.
SPECIFICATION FairSpec
CONSTANTS
    Users = {"u1", "u2"}
    Topics = {"t1"}
    Fields = {"a"}
    Payloads <- AnyData
    InitialRows <- NoRows
    Shards = {"s1", "s2"}
    ShardOf <- OwnShards
    Encrypted = FALSE
    BatchSize = 2
    MaxEvolveAttempts = 2
    RetryAttempts = 1
    MaxWrites = 3
    MaxFailures = 1
INVARIANTS TypeOK StampSound VersionsWiden
PROPERTY EvaluationSettles
CHECK_DEADLOCK FALSE

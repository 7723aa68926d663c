\* One shard, two topics and two users: batches that fail in part.
SPECIFICATION Spec
CONSTANTS
    Users = {u1, u2}
    Topics = {t1, t2}
    Fields = {"a"}
    Payloads <- AnyData
    InitialRows <- NoRows
    Shards = {"s1"}
    ShardOf <- OneShard
    Encrypted = TRUE
    BatchSize = 2
    MaxEvolveAttempts = 2
    RetryAttempts = 1
    MaxWrites = 3
    MaxFailures = 2
INVARIANTS NoLostEvaluation FootprintInSchema FootprintIsLatest
SYMMETRY UserTopicSymmetry
CHECK_DEADLOCK FALSE

\* A topic's ninetieth version, 10.0, and the write after it; no failure.
SPECIFICATION Spec
CONSTANTS
    Users = {"u1", "u2"}
    Topics = {"t1"}
    Fields <- ManyFields
    Payloads <- NewFields
    InitialRows <- GrownTo99
    Shards = {"s1"}
    ShardOf <- OneShard
    Encrypted = FALSE
    BatchSize = 1
    MaxEvolveAttempts = 3
    RetryAttempts = 2
    MaxWrites = 2
    MaxFailures = 0
PROPERTY EvolvesLatest
CHECK_DEADLOCK FALSE

\* A patch and a save of one record at the same time.
SPECIFICATION Spec
CONSTANTS
    Records = {r1}
    Fields = {"f", "g"}
    Scalars = {s1, s2, s3}
    s1 = s1
    s2 = s2
    s3 = s3
    Bodies <- NestedAndFlat
    Expiries = {"soon"}
    Encrypted = FALSE
    MaxCalls = 2
PROPERTY PatchMergesExisting
CHECK_DEADLOCK FALSE

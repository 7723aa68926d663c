\* Up to three overlapping calls on two records, with encryption.
SPECIFICATION Spec
CONSTANTS
    Records = {r1, r2}
    Fields = {"f", "g"}
    Scalars = {s1, s2, s3}
    s1 = s1
    s2 = s2
    s3 = s3
    Bodies <- NestedAndFlat
    Expiries = {"soon"}
    Encrypted = TRUE
    MaxCalls = 3
INVARIANTS TypeOK AlwaysReadable
PROPERTIES OnlySavesGiveLife UndisturbedPatchMerges
SYMMETRY RecordSymmetry
CHECK_DEADLOCK FALSE

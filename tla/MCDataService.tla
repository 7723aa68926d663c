--------------------------- MODULE MCDataService ---------------------------
(* Finite instances of DataService.                                        *)
EXTENDS DataService, TLC

CONSTANTS s1, s2, s3

\* Two objects under one field, a scalar in their place, and another field.
NestedAndFlat ==
    {"f" :> ("f" :> s1), "f" :> ("g" :> s2), "f" :> s3, "g" :> s1}

RecordSymmetry == Permutations(Records)
=============================================================================

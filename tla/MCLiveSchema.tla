---------------------------- MODULE MCLiveSchema ----------------------------
(* Finite instances of LiveSchema.                                         *)
EXTENDS LiveSchema, TLC

\* Each user's records in a shard of their own, or all in one.
OwnShards == "u1" :> "s1" @@ "u2" :> "s2"
OneShard == [u \in Users |-> "s1"]

\* With one shard users and topics are interchangeable.
UserTopicSymmetry == Permutations(Users) \cup Permutations(Topics)

\* Any data can be written; no schema yet.
AnyData == SUBSET Fields
NoRows == {}

\* A topic whose schema has grown by one field a version up to 9.9, and data
\* that lack none of its fields and bring one or two new ones.
ManyFields == 1..101
GrownTo99 ==
    {[topic |-> "t1", version |-> v, schema |-> [props |-> 1..v, required |-> {1}]] :
        v \in 11..99}
NewFields == {1..100, 1..101}
=============================================================================

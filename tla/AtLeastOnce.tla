----------------------------- MODULE AtLeastOnce -----------------------------
(***************************************************************************)
(* What the queues promise a caller who got a 202: a job that was accepted *)
(* stays queued until it has an outcome, and an outcome is never undone.   *)
(* A job may be worked on any number of times.                             *)
(***************************************************************************)
CONSTANT Jobs

VARIABLES
    queued,     \* the jobs accepted and not yet taken off the queue
    outcome     \* the jobs that have an outcome, good or bad

vars == <<queued, outcome>>

TypeOK == queued \subseteq Jobs /\ outcome \subseteq Jobs

Init == queued = {} /\ outcome = {}

(* A new job has no outcome yet.                                           *)
Accept(j) ==
    /\ j \notin queued \cup outcome
    /\ queued' = queued \cup {j}
    /\ UNCHANGED outcome

(* Only a job that is queued gets its outcome, or one whose earlier        *)
(* delivery outlived it: that one has an outcome already.                  *)
Work(j) ==
    /\ j \in queued
    /\ outcome' = outcome \cup {j}
    /\ UNCHANGED queued

Remove(j) ==
    /\ j \in queued \cap outcome
    /\ queued' = queued \ {j}
    /\ UNCHANGED outcome

Next == \E j \in Jobs : Accept(j) \/ Work(j) \/ Remove(j)

Spec == Init /\ [][Next]_vars

=============================================================================

--------------------------- MODULE MCDsarPipeline ---------------------------
(* Finite instances of DsarPipeline.                                       *)
EXTENDS DsarPipeline, TLC

\* A user with two records and a user without any.
SmallData == {<<1, 1>>, <<1, 2>>}
SmallRows == {<<"app", 1>>, <<"new", 2>>}

\* Two users, one known by the app name and the other by a linked service.
TwoUserData == {<<1, 1>>, <<1, 2>>, <<2, 1>>}
TwoUserRows == {<<"app", 1>>, <<"dvla", 2>>}

\* What may lag where one user is erased, and where either may be: a record
\* there from the start, one put later, and the row the request is made under.
SmallSlowRecords == {<<1, 1>>}
SlowAppRow == {<<"app", 1>>}
TwoUserSlowRecords == {<<1, 2>>, <<2, 2>>}

\* The delete invocations are interchangeable.
WorkerSymmetry == Permutations(DeleteWorkers)
=============================================================================

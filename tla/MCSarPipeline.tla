---------------------------- MODULE MCSarPipeline ----------------------------
(* Finite instances of SarPipeline.                                        *)
EXTENDS SarPipeline, TLC

\* Two users, one without data; each name can be linked to the other user too.
\* Path 3 sorts after the SAR record of sarID 2, path 1 before it.
TwoUserTable == {<<1, 1>>, <<1, 3>>}
TwoUserRows == {<<"dvla", 1>>, <<"app", 2>>}

\* What may lag: the row of the user without data, and an item put for him; or,
\* where one request is followed to its answer, its SAR record and a row.
SlowAppRow == {<<"app", 2>>}
SlowPost == {<<2, 1>>}
SlowDvlaRow == {<<"dvla", 1>>}
SlowSarRecord == {<<1, 2>>, <<2, 2>>}

WorkerSymmetry == Permutations(Workers)
=============================================================================

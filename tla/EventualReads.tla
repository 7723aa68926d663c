---------------------------- MODULE EventualReads ----------------------------
(***************************************************************************)
(* A DynamoDB table as a query without ConsistentRead sees it.  A key that *)
(* a write made appear or disappear lags until every copy of the table,    *)
(* its indexes included, has the write.  Each query may be answered by     *)
(* another copy, so it finds or misses each lagging key on its own account *)
(* and is right about all others.                                          *)
(***************************************************************************)

(* What a query may find in a table of which some keys lag.                *)
Views(table, lagging) == {(table \ lagging) \cup seen : seen \in SUBSET lagging}

(* The keys that lag once a write has turned old into new, of those whose  *)
(* writes may take time at all.                                            *)
LaggingAfter(old, new, lagging, slow) ==
    lagging \cup (slow \cap ((old \ new) \cup (new \ old)))

=============================================================================

------------------------------- MODULE Erasure -------------------------------
(***************************************************************************)
(* What an erasure promises, without queues and functions.  Records come   *)
(* and go; some are doomed, that is, listed for deletion; and records that *)
(* an acknowledged request found are owed: they stay doomed until they are *)
(* gone.  No record is owed that was never doomed, and none is doomed but  *)
(* those of the subjects, whose erasure has been asked for.  A record is a *)
(* pair of a user and a path.                                              *)
(***************************************************************************)
CONSTANTS
    Records,
    InitialData

VARIABLES
    present,    \* the records there are
    subjects,   \* users whose erasure has been asked for
    doomed,     \* keys listed for deletion, of records or of none
    owed        \* records that an acknowledged request has promised away

vars == <<present, subjects, doomed, owed>>

Init ==
    /\ present = InitialData
    /\ subjects = {}
    /\ doomed = {}
    /\ owed = {}

Write(r) ==
    /\ present' = present \cup {r}
    /\ UNCHANGED <<subjects, doomed, owed>>

(* Deleted, by the erasure or by anybody else.                             *)
Remove(r) ==
    /\ present' = present \ {r}
    /\ owed' = owed \ {r}
    /\ UNCHANGED <<subjects, doomed>>

(* A request is made under a name of theirs.                               *)
Ask ==
    /\ subjects \subseteq subjects'
    /\ UNCHANGED <<present, doomed, owed>>

(* Keys of subjects are listed.                                            *)
Doom ==
    /\ doomed \subseteq doomed'
    /\ \A r \in doomed' \ doomed : r[1] \in subjects
    /\ UNCHANGED <<present, subjects, owed>>

(* A request is acknowledged: what it found is listed by now.              *)
Owe ==
    /\ owed \subseteq owed'
    /\ owed' \ owed \subseteq present \cap doomed
    /\ UNCHANGED <<present, subjects, doomed>>

(* A list is worked off: nothing that is owed was left on it.              *)
Spare ==
    /\ doomed' \subseteq doomed
    /\ (doomed \ doomed') \cap owed = {}
    /\ UNCHANGED <<present, subjects, owed>>

Next == Ask \/ Doom \/ Owe \/ Spare \/ \E r \in Records : Write(r) \/ Remove(r)

Spec == Init /\ [][Next]_vars

=============================================================================

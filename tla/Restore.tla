------------------------------- MODULE Restore -------------------------------
(***************************************************************************)
(* The operators' restore scripts, dynamo-restore.ts and s3-restore.ts:    *)
(* check the target, start the restore, poll until AWS reports an end or   *)
(* an hour is over, verify, report.  Each run is a process of its own; two *)
(* operators may restore at once, delete a restored table meanwhile, or    *)
(* repeat a run that has timed out while its restore went on.              *)
(*                                                                         *)
(* What AWS does with a request is modelled from how the scripts use it:   *)
(* it makes no table or bucket under a name that is taken, and its jobs    *)
(* take any time and may fail.                                             *)
(***************************************************************************)
EXTENDS Naturals

CONSTANTS
    Runs,           \* runs of the two scripts
    RestoredTable,  \* `${table}-restored`: every table restore has this target
    NewBuckets,     \* names an operator may give as --new-bucket
    Foreign,        \* those that belong to another account
    SourceBucket,   \* restored in place
    Nobody,
    MAX_POLLS       \* MAX_WAIT_MS / POLL_INTERVAL_MS

Targets == {RestoredTable, SourceBucket} \cup NewBuckets

ASSUME RestoreAssumption ==
    /\ Foreign \subseteq NewBuckets
    /\ RestoredTable \notin NewBuckets \cup {SourceBucket}
    /\ SourceBucket \notin NewBuckets
    /\ Nobody \notin Runs
    /\ MAX_POLLS \in Nat \ {0}

VARIABLES
    target,     \* each table's or bucket's status, and the run it is from
    restoreJob, \* each run's AWS Backup job
    script,     \* what each run is doing
    deleted     \* history: the run's target was deleted since it started

restoreVars == <<target, restoreJob, script, deleted>>

\* What an operator may ask for; "given" is whether the restore time or the
\* recovery point is among the options.
Configs ==
    [mode : {"pitr", "backup"}, target : {RestoredTable}, given : BOOLEAN]
        \cup [mode : {"s3"}, target : NewBuckets \cup {SourceBucket}, given : BOOLEAN]

NotRun == [pc |-> "notRun"]
Reported == {[pc |-> "failed"]} \cup [pc : {"complete"}, config : Configs]
ScriptStates ==
    [pc : {"check", "checkPitr", "start", "waitJob", "waitTable", "verify"},
     config : Configs, elapsed : 0..(MAX_POLLS - 1)]

TargetStates == [status : {"NOT_FOUND", "CREATING", "ACTIVE"}, by : Runs \cup {Nobody}]
NotFound == [status |-> "NOT_FOUND", by |-> Nobody]

\* A restored table may be there from an earlier restore.
RestoreInit ==
    /\ target \in [Targets -> {NotFound, [status |-> "ACTIVE", by |-> Nobody]}]
    /\ \A b \in Foreign \cup {SourceBucket} : target[b].status = "ACTIVE"
    /\ restoreJob = [r \in Runs |-> "none"]
    /\ script = [r \in Runs |-> NotRun]
    /\ deleted = [r \in Runs |-> FALSE]

At(r, pc) == script[r].pc = pc
Running(r) == script[r].pc \notin {"notRun", "failed", "complete"}
Target(r) == script[r].config.target
Goto(r, pc) == script' = [script EXCEPT ![r] = [@ EXCEPT !.pc = pc, !.elapsed = 0]]
Fails(r) == script' = [script EXCEPT ![r] = [pc |-> "failed"]]

\* parseConfig
Begin(r, config) ==
    /\ script[r] = NotRun
    /\ script' = [script EXCEPT ![r] =
            IF config.given THEN [pc |-> "check", config |-> config, elapsed |-> 0]
            ELSE [pc |-> "failed"]]
    /\ UNCHANGED <<target, restoreJob, deleted>>

\* An in-place restore checks nothing.  Of a new bucket only one that is found
\* ends the run: any other answer, as the 403 for a bucket of another account
\* or a call that fails, goes for not found.
CheckTarget(r) ==
    /\ At(r, "check")
    /\ LET t == Target(r)
           next == IF script[r].config.mode = "pitr" THEN "checkPitr" ELSE "start"
       IN  \/ t # SourceBucket /\ target[t].status # "NOT_FOUND" /\ Fails(r)
           \/ t = RestoredTable /\ target[t].status = "NOT_FOUND" /\ Goto(r, next)
           \/ t # RestoredTable /\ Goto(r, next)
    /\ UNCHANGED <<target, restoreJob, deleted>>

\* restorePitr's question whether point-in-time recovery is enabled
CheckPitr(r) ==
    /\ At(r, "checkPitr")
    /\ Goto(r, "start") \/ Fails(r)
    /\ UNCHANGED <<target, restoreJob, deleted>>

Restores(r, t) == target' = [target EXCEPT ![t] = [status |-> "CREATING", by |-> r]]

\* RestoreTableToPointInTime, which refuses a name that is taken
StartPitr(r) ==
    /\ At(r, "start") /\ script[r].config.mode = "pitr"
    /\ IF target[RestoredTable].status = "NOT_FOUND"
       THEN Restores(r, RestoredTable) /\ Goto(r, "waitTable")
       ELSE UNCHANGED target /\ Fails(r)
    /\ UNCHANGED <<restoreJob, deleted>>

\* StartRestoreJob accepts the request; what becomes of it the job will tell.
StartJob(r) ==
    /\ At(r, "start") /\ script[r].config.mode # "pitr"
    /\ restoreJob' = [restoreJob EXCEPT ![r] = "PENDING"]
    /\ Goto(r, "waitJob")
    /\ UNCHANGED <<target, deleted>>

\* Fault: the loop does not count.
PollsForEver(r) == UNCHANGED script

\* Fault: one poll too many.
PollsOnceMore(r) ==
    IF script[r].elapsed + 1 <= MAX_POLLS
    THEN script' = [script EXCEPT ![r].elapsed = @ + 1]
    ELSE Fails(r)

\* The step of a polling loop that has not seen the end
PollsOn(r) ==
    IF script[r].elapsed + 1 < MAX_POLLS
    THEN script' = [script EXCEPT ![r].elapsed = @ + 1]
    ELSE Fails(r)

\* Fault: a job that has ended is a job that has succeeded.
EndIsSuccess(r) ==
    /\ At(r, "waitJob")
    /\ IF restoreJob[r] \in {"COMPLETED", "FAILED", "ABORTED"}
       THEN Goto(r, IF Target(r) = RestoredTable THEN "waitTable" ELSE "verify")
       ELSE PollsOn(r)
    /\ UNCHANGED <<target, restoreJob, deleted>>

PollJob(r) ==
    /\ At(r, "waitJob")
    /\ CASE restoreJob[r] = "COMPLETED" ->
                Goto(r, IF Target(r) = RestoredTable THEN "waitTable" ELSE "verify")
         [] restoreJob[r] \in {"FAILED", "ABORTED"} -> Fails(r)
         [] OTHER -> PollsOn(r)
    /\ UNCHANGED <<target, restoreJob, deleted>>

PollTable(r) ==
    /\ At(r, "waitTable")
    /\ IF target[RestoredTable].status = "ACTIVE" THEN Goto(r, "verify") ELSE PollsOn(r)
    /\ UNCHANGED <<target, restoreJob, deleted>>

\* The verification prints what it finds and fails over none of it.
Verify(r) ==
    /\ At(r, "verify")
    /\ script' = [script EXCEPT ![r] = [pc |-> "complete", config |-> @.config]]
    /\ UNCHANGED <<target, restoreJob, deleted>>

\* A call of AWS throws, or the operator interrupts the run: the restore that
\* was started goes on.
CallFails(r) ==
    /\ Running(r)
    /\ Fails(r)
    /\ UNCHANGED <<target, restoreJob, deleted>>

ScriptStep(r) ==
    \/ CheckTarget(r) \/ CheckPitr(r) \/ StartPitr(r) \/ StartJob(r)
    \/ PollJob(r) \/ PollTable(r) \/ Verify(r)

-----------------------------------------------------------------------------
(* AWS, and whoever deletes a restored table.                              *)

\* A job makes its target under a name that is not taken, or writes in place.
\* Jobs of runs that no longer wait are left where they are.
JobMakes(r) ==
    /\ restoreJob[r] = "PENDING" /\ At(r, "waitJob")
    /\ IF Target(r) = SourceBucket
       THEN target' = [target EXCEPT ![SourceBucket].by = r]
       ELSE target[Target(r)].status = "NOT_FOUND" /\ Restores(r, Target(r))
    /\ restoreJob' = [restoreJob EXCEPT ![r] = "RUNNING"]
    /\ UNCHANGED <<script, deleted>>

JobCompletes(r) ==
    /\ restoreJob[r] = "RUNNING" /\ At(r, "waitJob")
    /\ target[Target(r)] # [status |-> "CREATING", by |-> r]
    /\ restoreJob' = [restoreJob EXCEPT ![r] = "COMPLETED"]
    /\ UNCHANGED <<target, script, deleted>>

JobFails(r) ==
    /\ restoreJob[r] \in {"PENDING", "RUNNING"} /\ At(r, "waitJob")
    /\ \E status \in {"FAILED", "ABORTED"} : restoreJob' = [restoreJob EXCEPT ![r] = status]
    /\ UNCHANGED <<target, script, deleted>>

BecomesActive(t) ==
    /\ target[t].status = "CREATING"
    /\ target' = [target EXCEPT ![t].status = "ACTIVE"]
    /\ UNCHANGED <<restoreJob, script, deleted>>

\* "Delete it first": a run loses what its restore has made.
DeleteTarget(t) ==
    /\ t \notin {SourceBucket} \cup Foreign
    /\ target[t].status = "ACTIVE"
    /\ target' = [target EXCEPT ![t] = NotFound]
    /\ deleted' = [r \in Runs |-> deleted[r] \/ target[t].by = r]
    /\ UNCHANGED <<restoreJob, script>>

RestoreNext ==
    \/ \E r \in Runs :
        \/ \E config \in Configs : Begin(r, config)
        \/ ScriptStep(r) \/ CallFails(r)
        \/ JobMakes(r) \/ JobCompletes(r) \/ JobFails(r)
    \/ \E t \in Targets : BecomesActive(t) \/ DeleteTarget(t)

RestoreSpec == RestoreInit /\ [][RestoreNext]_restoreVars

\* A script polls on by itself; AWS owes no end to a job.
RestoreFairness == \A r \in Runs : WF_restoreVars(ScriptStep(r))

-----------------------------------------------------------------------------

JobStates == {"none", "PENDING", "RUNNING", "COMPLETED", "FAILED", "ABORTED"}

RestoreTypeOK ==
    /\ target \in [Targets -> TargetStates]
    /\ restoreJob \in [Runs -> JobStates]
    /\ script \in [Runs -> {NotRun} \cup Reported \cup ScriptStates]
    /\ deleted \in [Runs -> BOOLEAN]

(***************************************************************************)
(* "Restore complete" is true of the run that prints it: the polls go by   *)
(* name, yet what is there under the name is what the run restored, not a  *)
(* table from before or of a concurrent run, unless somebody has deleted   *)
(* the run's own.  In place a later run may have overwritten it.           *)
(***************************************************************************)
RestoredIsOwn ==
    \A r \in Runs : At(r, "complete") =>
        \/ deleted[r]
        \/ target[Target(r)] = [status |-> "ACTIVE", by |-> r]
        \/ Target(r) = SourceBucket /\ target[SourceBucket].by \in Runs

(***************************************************************************)
(* Every run reports: no job that stays pending, table that never becomes  *)
(* active or name that is taken meanwhile makes a script wait for ever.    *)
(***************************************************************************)
RunsEnd == \A r \in Runs : Running(r) ~> At(r, "failed") \/ At(r, "complete")
=============================================================================

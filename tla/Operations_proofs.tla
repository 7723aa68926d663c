--------------------------- MODULE Operations_proofs ---------------------------
(***************************************************************************)
(* A restore that reports success has restored what it says; the stack of  *)
(* a release that followed all changes is current; no statement takes      *)
(* effect twice and connections stay sound; a migration keeps what it      *)
(* promises the extractor - for any number of runs, releases and faults;   *)
(* and no function of any environment is denied what its handler asks for. *)
(***************************************************************************)
EXTENDS MCOperations, TLAPS

-----------------------------------------------------------------------------
(* Restores.  A run owns its target from the moment AWS makes it, or has   *)
(* had it deleted; the polls only ever see what the run owns.              *)

Own(r) ==
    \/ deleted[r]
    \/ target[Target(r)].by = r /\ target[Target(r)].status \in {"CREATING", "ACTIVE"}
    \/ Target(r) = SourceBucket /\ target[SourceBucket].by \in Runs

OwnActive(r) ==
    \/ deleted[r]
    \/ target[Target(r)] = [status |-> "ACTIVE", by |-> r]
    \/ Target(r) = SourceBucket /\ target[SourceBucket].by \in Runs

TablesAwaited == \A r \in Runs : At(r, "waitTable") => Target(r) = RestoredTable /\ Own(r)
JobsOwn ==
    \A r \in Runs : At(r, "waitJob") =>
        /\ restoreJob[r] = "RUNNING" => Own(r)
        /\ restoreJob[r] = "COMPLETED" => OwnActive(r)
ReportsOwn == \A r \in Runs : At(r, "verify") \/ At(r, "complete") => OwnActive(r)

RestoreInv == RestoreTypeOK /\ TablesAwaited /\ JobsOwn /\ ReportsOwn

LEMMA RestoreInitially == RestoreInit => RestoreInv
<1> SUFFICES ASSUME RestoreInit PROVE RestoreInv
    OBVIOUS
<1> USE DEF RestoreInit
<1>1. RestoreTypeOK
    BY DEF RestoreTypeOK, TargetStates, NotFound, JobStates, NotRun
<1>2. TablesAwaited /\ JobsOwn /\ ReportsOwn
    BY DEF TablesAwaited, JobsOwn, ReportsOwn, At, NotRun
<1>3. QED
    BY <1>1, <1>2 DEF RestoreInv

\* What a run at a step of the script is.
LEMMA AtStep ==
    ASSUME RestoreTypeOK, NEW r \in Runs, NEW pc \in {"check", "checkPitr", "start", "waitJob",
           "waitTable", "verify"}, At(r, pc)
    PROVE  /\ script[r] \in ScriptStates /\ script[r].config \in Configs
           /\ Target(r) \in Targets
    BY RestoreAssumption DEF RestoreTypeOK, At, NotRun, Reported, ScriptStates, Configs, Target, Targets

LEMMA GotoType ==
    ASSUME RestoreTypeOK, NEW r \in Runs, script[r] \in ScriptStates,
           NEW pc \in {"check", "checkPitr", "start", "waitJob", "waitTable", "verify"}, Goto(r, pc)
    PROVE  /\ script' \in [Runs -> {NotRun} \cup Reported \cup ScriptStates]
           /\ script'[r].pc = pc /\ script'[r].config = script[r].config
           /\ \A q \in Runs \ {r} : script'[q] = script[q]
<1> DEFINE next == [script[r] EXCEPT !.pc = pc, !.elapsed = 0]
<1>0. 0 \in 0..(MAX_POLLS - 1)
    BY RestoreAssumption
<1>1. next \in ScriptStates /\ next.pc = pc /\ next.config = script[r].config
    BY <1>0 DEF ScriptStates
<1>2. script' = [script EXCEPT ![r] = next]
    BY DEF Goto
<1> HIDE DEF next
<1>3. QED
    BY <1>1, <1>2 DEF RestoreTypeOK

LEMMA FailsType ==
    ASSUME RestoreTypeOK, NEW r \in Runs, Fails(r)
    PROVE  /\ script' \in [Runs -> {NotRun} \cup Reported \cup ScriptStates]
           /\ script'[r].pc = "failed"
           /\ \A q \in Runs \ {r} : script'[q] = script[q]
    BY DEF RestoreTypeOK, Fails, Reported

\* A step of a script that leaves the targets alone.
LEMMA ScriptMoves ==
    ASSUME RestoreInv, NEW r \in Runs,
           script' \in [Runs -> {NotRun} \cup Reported \cup ScriptStates],
           \A q \in Runs \ {r} : script'[q] = script[q],
           UNCHANGED <<target, deleted>>, restoreJob' \in [Runs -> JobStates],
           \A q \in Runs \ {r} : restoreJob'[q] = restoreJob[q],
           At(r, "waitTable")' => Target(r)' = RestoredTable /\ Own(r)',
           At(r, "waitJob")' => 
                /\ restoreJob'[r] = "RUNNING" => Own(r)'
                /\ restoreJob'[r] = "COMPLETED" => OwnActive(r)',
           At(r, "verify")' \/ At(r, "complete")' => OwnActive(r)'
    PROVE  RestoreInv'
<1> USE DEF RestoreInv
<1>1. \A q \in Runs \ {r} : Own(q) = Own(q)' /\ OwnActive(q) = OwnActive(q)'
    BY DEF Own, OwnActive, Target
<1>2. RestoreTypeOK'
    BY DEF RestoreTypeOK
<1>3. TablesAwaited'
    BY <1>1 DEF TablesAwaited, At, Target
<1>5. JobsOwn'
    BY <1>1 DEF JobsOwn, At
<1>6. ReportsOwn'
    BY <1>1 DEF ReportsOwn, At
<1>7. QED
    BY <1>2, <1>3, <1>5, <1>6

\* A step that leaves the scripts alone.
LEMMA TargetsMove ==
    ASSUME RestoreInv, UNCHANGED script, target' \in [Targets -> TargetStates],
           restoreJob' \in [Runs -> JobStates], deleted' \in [Runs -> BOOLEAN],
           \A q \in Runs :
                /\ Target(q) \in Targets /\ Own(q) => Own(q)'
                /\ Target(q) \in Targets /\ OwnActive(q) => OwnActive(q)'
                /\ \/ restoreJob'[q] = restoreJob[q]
                   \/ At(q, "waitJob") /\ restoreJob'[q] = "RUNNING" /\ Own(q)'
                   \/ At(q, "waitJob") /\ restoreJob'[q] = "COMPLETED" /\ OwnActive(q)'
                   \/ restoreJob'[q] \in {"PENDING", "FAILED", "ABORTED"}
    PROVE  RestoreInv'
<1> USE DEF RestoreInv
<1>1. \A q \in Runs : Target(q)' = Target(q) /\ \A pc : At(q, pc)' = At(q, pc)
    BY DEF At, Target
<1>2. RestoreTypeOK'
    BY DEF RestoreTypeOK
<1>3. \A q \in Runs : At(q, "complete") => Target(q) \in Targets
    BY RestoreAssumption DEF RestoreTypeOK, At, NotRun, Reported, ScriptStates, Configs, Target, Targets
<1>4. TablesAwaited'
    BY <1>1, AtStep DEF TablesAwaited
<1>5. JobsOwn'
    BY <1>1, AtStep DEF JobsOwn
<1>6. ReportsOwn'
    BY <1>1, <1>3, AtStep DEF ReportsOwn
<1>7. QED
    BY <1>2, <1>4, <1>5, <1>6

LEMMA CheckTargetKeeps ==
    ASSUME RestoreInv, NEW r \in Runs, CheckTarget(r)
    PROVE  RestoreInv'
<1> USE DEF RestoreInv
<1>1. RestoreTypeOK /\ restoreJob' = restoreJob /\ UNCHANGED <<target, deleted>> /\ restoreJob \in [Runs -> JobStates]
    BY DEF CheckTarget, RestoreTypeOK
<1>2. script[r] \in ScriptStates
    BY AtStep DEF CheckTarget
<1>3. Fails(r) \/ Goto(r, "checkPitr") \/ Goto(r, "start")
    BY DEF CheckTarget
<1>4. CASE Fails(r)
    BY <1>1, <1>4, FailsType, ScriptMoves DEF At
<1>5. CASE Goto(r, "checkPitr")
    BY <1>1, <1>2, <1>5, GotoType, ScriptMoves DEF At
<1>6. CASE Goto(r, "start")
    BY <1>1, <1>2, <1>6, GotoType, ScriptMoves DEF At
<1>7. QED
    BY <1>3, <1>4, <1>5, <1>6

LEMMA BeginKeeps ==
    ASSUME RestoreInv, NEW r \in Runs, NEW config \in Configs, Begin(r, config)
    PROVE  RestoreInv'
<1> USE DEF RestoreInv
<1>1. 0 \in 0..(MAX_POLLS - 1)
    BY RestoreAssumption
<1>2. /\ script' \in [Runs -> {NotRun} \cup Reported \cup ScriptStates]
      /\ script'[r].pc \in {"check", "failed"}
      /\ \A q \in Runs \ {r} : script'[q] = script[q]
    BY <1>1 DEF Begin, RestoreTypeOK, ScriptStates, Reported
<1>3. QED
    BY <1>2, ScriptMoves DEF Begin, At, RestoreTypeOK

LEMMA CheckPitrKeeps ==
    ASSUME RestoreInv, NEW r \in Runs, CheckPitr(r)
    PROVE  RestoreInv'
<1> USE DEF RestoreInv
<1>1. /\ UNCHANGED <<target, restoreJob, deleted>> /\ restoreJob \in [Runs -> JobStates]
      /\ script[r] \in ScriptStates
    BY AtStep DEF CheckPitr, RestoreTypeOK
<1>2. CASE Fails(r)
    BY <1>1, <1>2, FailsType, ScriptMoves DEF At
<1>3. CASE Goto(r, "start")
    BY <1>1, <1>3, GotoType, ScriptMoves DEF At
<1>4. QED
    BY <1>2, <1>3 DEF CheckPitr

\* A run that polls for its table has one target only.
LEMMA PitrTarget ==
    ASSUME RestoreTypeOK, NEW r \in Runs, script[r] \in ScriptStates, script[r].config.mode = "pitr"
    PROVE  Target(r) = RestoredTable
    BY DEF ScriptStates, Configs, Target

LEMMA StartPitrKeeps ==
    ASSUME RestoreInv, NEW r \in Runs, StartPitr(r)
    PROVE  RestoreInv'
<1> USE DEF RestoreInv
<1>1. script[r] \in ScriptStates /\ Target(r) = RestoredTable
    BY AtStep, PitrTarget DEF StartPitr
<1>2. CASE target[RestoredTable].status = "NOT_FOUND"
    <2>1. Restores(r, RestoredTable) /\ Goto(r, "waitTable") /\ UNCHANGED <<restoreJob, deleted>>
        BY <1>2 DEF StartPitr
    <2>2. /\ target' \in [Targets -> TargetStates]
          /\ target'[RestoredTable] = [status |-> "CREATING", by |-> r]
          /\ \A t \in Targets \ {RestoredTable} : target'[t] = target[t]
        BY <2>1 DEF Restores, RestoreTypeOK, Targets, TargetStates
    <2>3. /\ script' \in [Runs -> {NotRun} \cup Reported \cup ScriptStates]
          /\ script'[r].pc = "waitTable" /\ script'[r].config = script[r].config
          /\ \A q \in Runs \ {r} : script'[q] = script[q]
        BY <1>1, <2>1, GotoType
    <2>4. RestoreTypeOK'
        BY <2>1, <2>2, <2>3 DEF RestoreTypeOK
    <2>5. RestoredTable # SourceBucket
        BY RestoreAssumption
    <2>6. \A q \in Runs \ {r} : Target(q) \in Targets =>
            (Own(q) => Own(q)') /\ (OwnActive(q) => OwnActive(q)')
        BY <1>2, <2>1, <2>2, <2>3, <2>5 DEF Own, OwnActive, Target
    <2>7. Target(r)' = RestoredTable /\ Own(r)'
        BY <1>1, <2>1, <2>2, <2>3 DEF Own, Target
    <2>8. \A q \in Runs \ {r} : At(q, "complete") => Target(q) \in Targets
        BY RestoreAssumption DEF RestoreTypeOK, At, NotRun, Reported, ScriptStates, Configs, Target, Targets
    <2>9. \A q \in Runs \ {r} : Target(q)' = Target(q) /\ \A pc : At(q, pc)' = At(q, pc)
        BY <2>3 DEF Target, At
    <2>10. TablesAwaited'
        BY <2>6, <2>7, <2>9, AtStep DEF TablesAwaited
    <2>11. ~At(r, "waitJob")' /\ ~At(r, "verify")' /\ ~At(r, "complete")'
        BY <2>3 DEF At
    <2>12. JobsOwn'
        BY <2>1, <2>6, <2>9, <2>11, AtStep DEF JobsOwn
    <2>13. ReportsOwn'
        BY <2>6, <2>8, <2>9, <2>11, AtStep DEF ReportsOwn
    <2>14. QED
        BY <2>4, <2>10, <2>12, <2>13
<1>3. CASE target[RestoredTable].status # "NOT_FOUND"
    <2>1. Fails(r) /\ UNCHANGED <<target, restoreJob, deleted>> /\ restoreJob \in [Runs -> JobStates]
        BY <1>3 DEF StartPitr, RestoreTypeOK
    <2>2. QED
        BY <2>1, FailsType, ScriptMoves DEF At
<1>4. QED
    BY <1>2, <1>3

LEMMA StartJobKeeps ==
    ASSUME RestoreInv, NEW r \in Runs, StartJob(r)
    PROVE  RestoreInv'
<1> USE DEF RestoreInv
<1>1. script[r] \in ScriptStates /\ Goto(r, "waitJob") /\ UNCHANGED <<target, deleted>>
    BY AtStep DEF StartJob
<1>2. /\ restoreJob' \in [Runs -> JobStates] /\ restoreJob'[r] = "PENDING"
      /\ \A q \in Runs \ {r} : restoreJob'[q] = restoreJob[q]
    BY DEF StartJob, RestoreTypeOK, JobStates
<1>3. QED
    BY <1>1, <1>2, GotoType, ScriptMoves DEF At

LEMMA PollsOnType ==
    ASSUME RestoreInv, NEW r \in Runs, script[r] \in ScriptStates, PollsOn(r)
    PROVE  /\ script' \in [Runs -> {NotRun} \cup Reported \cup ScriptStates]
           /\ \A q \in Runs \ {r} : script'[q] = script[q]
           /\ \/ script'[r].pc = "failed"
              \/ script'[r].pc = script[r].pc /\ script'[r].config = script[r].config
<1> USE DEF RestoreInv
<1>1. CASE script[r].elapsed + 1 < MAX_POLLS
    <2> DEFINE next == [script[r] EXCEPT !.elapsed = @ + 1]
    <2>1. script[r].elapsed + 1 \in 0..(MAX_POLLS - 1)
        BY <1>1, RestoreAssumption DEF ScriptStates
    <2>2. next \in ScriptStates /\ next.pc = script[r].pc /\ next.config = script[r].config
        BY <2>1 DEF ScriptStates
    <2>3. script' = [script EXCEPT ![r] = next]
        BY <1>1 DEF PollsOn
    <2> HIDE DEF next
    <2>4. QED
        BY <2>2, <2>3 DEF RestoreTypeOK
<1>2. CASE ~(script[r].elapsed + 1 < MAX_POLLS)
    BY <1>2, FailsType DEF PollsOn
<1>3. QED
    BY <1>1, <1>2

LEMMA PollJobKeeps ==
    ASSUME RestoreInv, NEW r \in Runs, PollJob(r)
    PROVE  RestoreInv'
<1> USE DEF RestoreInv
<1>1. /\ script[r] \in ScriptStates /\ At(r, "waitJob")
      /\ UNCHANGED <<target, restoreJob, deleted>> /\ restoreJob \in [Runs -> JobStates]
    BY AtStep DEF PollJob, RestoreTypeOK
<1>2. Own(r) /\ Target(r)' = Target(r) => Own(r)'
    BY <1>1 DEF Own
<1>3. OwnActive(r) /\ Target(r)' = Target(r) => OwnActive(r)' /\ Own(r)'
    BY <1>1 DEF Own, OwnActive
<1>4. CASE restoreJob[r] = "COMPLETED" /\ Target(r) = RestoredTable
    <2>1. Goto(r, "waitTable") /\ OwnActive(r)
        BY <1>1, <1>4 DEF PollJob, JobsOwn
    <2>2. Target(r)' = Target(r) /\ script'[r].pc = "waitTable"
        BY <1>1, <2>1, GotoType DEF Target
    <2>3. QED
        BY <1>1, <1>3, <1>4, <2>1, <2>2, GotoType, ScriptMoves DEF At
<1>5. CASE restoreJob[r] = "COMPLETED" /\ Target(r) # RestoredTable
    <2>1. Goto(r, "verify") /\ OwnActive(r)
        BY <1>1, <1>5 DEF PollJob, JobsOwn
    <2>2. Target(r)' = Target(r) /\ script'[r].pc = "verify"
        BY <1>1, <2>1, GotoType DEF Target
    <2>3. QED
        BY <1>1, <1>3, <2>1, <2>2, GotoType, ScriptMoves DEF At
<1>6. CASE restoreJob[r] \in {"FAILED", "ABORTED"}
    <2>1. Fails(r)
        BY <1>6 DEF PollJob
    <2>2. QED
        BY <1>1, <2>1, FailsType, ScriptMoves DEF At
<1>7. CASE restoreJob[r] \notin {"COMPLETED", "FAILED", "ABORTED"}
    <2>1. PollsOn(r)
        BY <1>7 DEF PollJob
    <2>2. restoreJob[r] = "RUNNING" => Own(r)
        BY <1>1 DEF JobsOwn
    <2>3. CASE script'[r].pc = "failed"
        BY <1>1, <2>1, <2>3, PollsOnType, ScriptMoves DEF At
    <2>4. CASE script'[r].pc = script[r].pc /\ script'[r].config = script[r].config
        <3>1. Target(r)' = Target(r) /\ At(r, "waitJob")'
            BY <1>1, <2>4 DEF Target, At
        <3>2. QED
            BY <1>1, <1>2, <1>7, <2>1, <2>2, <3>1, PollsOnType, ScriptMoves DEF At
    <2>5. QED
        BY <1>1, <2>1, <2>3, <2>4, PollsOnType
<1>8. QED
    BY <1>4, <1>5, <1>6, <1>7

LEMMA PollTableKeeps ==
    ASSUME RestoreInv, NEW r \in Runs, PollTable(r)
    PROVE  RestoreInv'
<1> USE DEF RestoreInv
<1>1. /\ script[r] \in ScriptStates /\ At(r, "waitTable")
      /\ Target(r) = RestoredTable /\ Own(r)
      /\ UNCHANGED <<target, restoreJob, deleted>> /\ restoreJob \in [Runs -> JobStates]
    BY AtStep DEF PollTable, RestoreTypeOK, TablesAwaited
<1>2. CASE target[RestoredTable].status = "ACTIVE"
    <2>1. Goto(r, "verify")
        BY <1>2 DEF PollTable
    <2>2. Target(r)' = Target(r) /\ script'[r].pc = "verify"
        BY <1>1, <2>1, GotoType DEF Target
    <2>3. target[RestoredTable] = [status |-> "ACTIVE", by |-> target[RestoredTable].by]
        BY <1>2 DEF RestoreTypeOK, TargetStates, Targets
    <2>4. OwnActive(r)'
        BY <1>1, <2>2, <2>3 DEF Own, OwnActive
    <2>5. QED
        BY <1>1, <2>1, <2>2, <2>4, GotoType, ScriptMoves DEF At
<1>3. CASE target[RestoredTable].status # "ACTIVE"
    <2>1. PollsOn(r)
        BY <1>3 DEF PollTable
    <2>2. CASE script'[r].pc = "failed"
        BY <1>1, <2>1, <2>2, PollsOnType, ScriptMoves DEF At
    <2>3. CASE script'[r].pc = script[r].pc /\ script'[r].config = script[r].config
        <3>1. Target(r)' = Target(r) /\ At(r, "waitTable")' /\ Own(r)'
            BY <1>1, <2>3 DEF Target, At, Own
        <3>2. QED
            BY <1>1, <2>1, <3>1, PollsOnType, ScriptMoves DEF At
    <2>4. QED
        BY <1>1, <2>1, <2>2, <2>3, PollsOnType
<1>4. QED
    BY <1>2, <1>3

LEMMA VerifyKeeps ==
    ASSUME RestoreInv, NEW r \in Runs, Verify(r)
    PROVE  RestoreInv'
<1> USE DEF RestoreInv
<1>1. /\ script[r] \in ScriptStates /\ script[r].config \in Configs /\ OwnActive(r)
      /\ UNCHANGED <<target, restoreJob, deleted>> /\ restoreJob \in [Runs -> JobStates]
    BY AtStep DEF Verify, RestoreTypeOK, ReportsOwn
<1>2. /\ script' \in [Runs -> {NotRun} \cup Reported \cup ScriptStates]
      /\ script'[r].pc = "complete" /\ script'[r].config = script[r].config
      /\ \A q \in Runs \ {r} : script'[q] = script[q]
    BY <1>1 DEF Verify, RestoreTypeOK, Reported
<1>3. OwnActive(r)'
    BY <1>1, <1>2 DEF OwnActive, Target
<1>4. QED
    BY <1>1, <1>2, <1>3, ScriptMoves DEF At

LEMMA CallFailsKeeps ==
    ASSUME RestoreInv, NEW r \in Runs, CallFails(r)
    PROVE  RestoreInv'
<1> USE DEF RestoreInv
<1>1. Fails(r) /\ UNCHANGED <<target, restoreJob, deleted>> /\ restoreJob \in [Runs -> JobStates]
    BY DEF CallFails, RestoreTypeOK
<1>2. QED
    BY <1>1, FailsType, ScriptMoves DEF At

LEMMA JobMakesKeeps ==
    ASSUME RestoreInv, NEW r \in Runs, JobMakes(r)
    PROVE  RestoreInv'
<1> USE DEF RestoreInv
<1>1. /\ At(r, "waitJob") /\ Target(r) \in Targets /\ UNCHANGED <<script, deleted>>
      /\ restoreJob' \in [Runs -> JobStates] /\ restoreJob'[r] = "RUNNING"
      /\ \A q \in Runs \ {r} : restoreJob'[q] = restoreJob[q]
      /\ \A q \in Runs : Target(q)' = Target(q)
    BY AtStep DEF JobMakes, RestoreTypeOK, JobStates, Target
<1>2. deleted' \in [Runs -> BOOLEAN]
    BY <1>1 DEF RestoreTypeOK
<1>3. CASE Target(r) = SourceBucket
    <2>1. /\ target' \in [Targets -> TargetStates] /\ target'[SourceBucket].by = r
          /\ \A t \in Targets \ {SourceBucket} : target'[t] = target[t]
        BY <1>1, <1>3 DEF JobMakes, RestoreTypeOK, TargetStates, Targets
    <2>2. Own(r)'
        BY <1>1, <1>3, <2>1 DEF Own
    <2>3. \A q \in Runs : Target(q) \in Targets =>
            (Own(q) => Own(q)') /\ (OwnActive(q) => OwnActive(q)')
        BY <1>1, <2>1 DEF Own, OwnActive
    <2>4. QED
        BY <1>1, <1>2, <2>1, <2>2, <2>3, TargetsMove
<1>4. CASE Target(r) # SourceBucket
    <2>1. target[Target(r)].status = "NOT_FOUND" /\ Restores(r, Target(r))
        BY <1>4 DEF JobMakes
    <2>2. /\ target' \in [Targets -> TargetStates]
          /\ target'[Target(r)] = [status |-> "CREATING", by |-> r]
          /\ \A t \in Targets \ {Target(r)} : target'[t] = target[t]
        BY <1>1, <2>1 DEF Restores, RestoreTypeOK, TargetStates
    <2>3. Own(r)'
        BY <1>1, <2>2 DEF Own
    <2>4. \A q \in Runs : Target(q) \in Targets =>
            (Own(q) => Own(q)') /\ (OwnActive(q) => OwnActive(q)')
        <3> SUFFICES ASSUME NEW q \in Runs, Target(q) \in Targets
                     PROVE  (Own(q) => Own(q)') /\ (OwnActive(q) => OwnActive(q)')
            OBVIOUS
        <3>1. CASE Target(q) = Target(r)
            BY <1>1, <1>4, <2>1, <3>1 DEF Own, OwnActive
        <3>2. CASE Target(q) # Target(r)
            BY <1>1, <1>4, <2>2, <3>2 DEF Own, OwnActive
        <3>3. QED
            BY <3>1, <3>2
    <2>5. QED
        BY <1>1, <1>2, <2>2, <2>3, <2>4, TargetsMove
<1>5. QED
    BY <1>3, <1>4

LEMMA JobCompletesKeeps ==
    ASSUME RestoreInv, NEW r \in Runs, JobCompletes(r)
    PROVE  RestoreInv'
<1> USE DEF RestoreInv
<1>1. /\ At(r, "waitJob") /\ Target(r) \in Targets /\ UNCHANGED <<target, script, deleted>>
      /\ target \in [Targets -> TargetStates] /\ deleted \in [Runs -> BOOLEAN]
      /\ restoreJob' \in [Runs -> JobStates] /\ restoreJob'[r] = "COMPLETED"
      /\ \A q \in Runs \ {r} : restoreJob'[q] = restoreJob[q]
      /\ \A q \in Runs : Target(q)' = Target(q)
    BY AtStep DEF JobCompletes, RestoreTypeOK, JobStates, Target
<1>2. \A q \in Runs : (Own(q) => Own(q)') /\ (OwnActive(q) => OwnActive(q)')
    BY <1>1 DEF Own, OwnActive
<1>3. Own(r) /\ target[Target(r)] # [status |-> "CREATING", by |-> r]
    BY <1>1 DEF JobsOwn, JobCompletes
<1>4. target[Target(r)] = [status |-> target[Target(r)].status, by |-> target[Target(r)].by]
    BY <1>1 DEF TargetStates
<1>5. OwnActive(r)
    BY <1>3, <1>4 DEF Own, OwnActive
<1>6. QED
    BY <1>1, <1>2, <1>5, TargetsMove

LEMMA JobFailsKeeps ==
    ASSUME RestoreInv, NEW r \in Runs, JobFails(r)
    PROVE  RestoreInv'
<1> USE DEF RestoreInv
<1>1. PICK status \in {"FAILED", "ABORTED"} : restoreJob' = [restoreJob EXCEPT ![r] = status]
    BY DEF JobFails
<1>2. /\ UNCHANGED <<target, script, deleted>>
      /\ target \in [Targets -> TargetStates] /\ deleted \in [Runs -> BOOLEAN]
      /\ restoreJob' \in [Runs -> JobStates] /\ restoreJob'[r] \in {"FAILED", "ABORTED"}
      /\ \A q \in Runs \ {r} : restoreJob'[q] = restoreJob[q]
      /\ \A q \in Runs : Target(q)' = Target(q)
    BY <1>1 DEF JobFails, RestoreTypeOK, JobStates, Target
<1>3. \A q \in Runs : (Own(q) => Own(q)') /\ (OwnActive(q) => OwnActive(q)')
    BY <1>2 DEF Own, OwnActive
<1>4. QED
    BY <1>2, <1>3, TargetsMove

LEMMA BecomesActiveKeeps ==
    ASSUME RestoreInv, NEW t \in Targets, BecomesActive(t)
    PROVE  RestoreInv'
<1> USE DEF RestoreInv
<1>1. /\ UNCHANGED <<restoreJob, script, deleted>>
      /\ restoreJob \in [Runs -> JobStates] /\ deleted \in [Runs -> BOOLEAN]
      /\ \A q \in Runs : Target(q)' = Target(q)
    BY DEF BecomesActive, RestoreTypeOK, Target
<1>2. /\ target' \in [Targets -> TargetStates]
      /\ target[t].status = "CREATING"
      /\ target'[t] = [status |-> "ACTIVE", by |-> target[t].by]
      /\ \A u \in Targets \ {t} : target'[u] = target[u]
    BY DEF BecomesActive, RestoreTypeOK, TargetStates
<1>3. \A q \in Runs : Target(q) \in Targets =>
        (Own(q) => Own(q)') /\ (OwnActive(q) => OwnActive(q)')
    <2> SUFFICES ASSUME NEW q \in Runs, Target(q) \in Targets
                 PROVE  (Own(q) => Own(q)') /\ (OwnActive(q) => OwnActive(q)')
        OBVIOUS
    <2>1. SourceBucket \in Targets
        BY DEF Targets
    <2>2. \A u \in Targets : target'[u].by = target[u].by
        BY <1>2
    <2>3. QED
        BY <1>1, <1>2, <2>1, <2>2 DEF Own, OwnActive
<1>4. QED
    BY <1>1, <1>2, <1>3, TargetsMove

LEMMA DeleteTargetKeeps ==
    ASSUME RestoreInv, NEW t \in Targets, DeleteTarget(t)
    PROVE  RestoreInv'
<1> USE DEF RestoreInv
<1>1. /\ UNCHANGED <<restoreJob, script>> /\ t # SourceBucket
      /\ restoreJob \in [Runs -> JobStates] /\ deleted' \in [Runs -> BOOLEAN]
      /\ \A q \in Runs : Target(q)' = Target(q)
      /\ \A q \in Runs : deleted[q] \/ target[t].by = q => deleted'[q]
    BY DEF DeleteTarget, RestoreTypeOK, Target
<1>2. /\ target' \in [Targets -> TargetStates]
      /\ \A u \in Targets \ {t} : target'[u] = target[u]
    BY RestoreAssumption DEF DeleteTarget, RestoreTypeOK, TargetStates, NotFound
<1>3. \A q \in Runs : Target(q) \in Targets =>
        (Own(q) => Own(q)') /\ (OwnActive(q) => OwnActive(q)')
    <2> SUFFICES ASSUME NEW q \in Runs, Target(q) \in Targets
                 PROVE  (Own(q) => Own(q)') /\ (OwnActive(q) => OwnActive(q)')
        OBVIOUS
    <2>1. SourceBucket \in Targets
        BY DEF Targets
    <2>2. CASE Target(q) = t
        BY <1>1, <2>2 DEF Own, OwnActive
    <2>3. CASE Target(q) # t
        BY <1>1, <1>2, <2>1, <2>3 DEF Own, OwnActive
    <2>4. QED
        BY <2>2, <2>3
<1>4. QED
    BY <1>1, <1>2, <1>3, TargetsMove

LEMMA RestoreStutters == ASSUME RestoreInv, UNCHANGED restoreVars PROVE RestoreInv'
    BY DEF RestoreInv, RestoreTypeOK, TablesAwaited, JobsOwn, ReportsOwn, Own, OwnActive, At,
           Target, restoreVars

\* The restore scripts' named parts hold in every reachable state.
THEOREM RestoreInvariance == RestoreSpec => []RestoreInv
<1>1. RestoreInit => RestoreInv
    BY RestoreInitially
<1>2. RestoreInv /\ [RestoreNext]_restoreVars => RestoreInv'
    BY BeginKeeps, CheckTargetKeeps, CheckPitrKeeps, StartPitrKeeps, StartJobKeeps, PollJobKeeps,
       PollTableKeeps, VerifyKeeps, CallFailsKeeps, JobMakesKeeps, JobCompletesKeeps, JobFailsKeeps,
       BecomesActiveKeeps, DeleteTargetKeeps, RestoreStutters DEF RestoreNext, ScriptStep
<1>3. QED
    BY <1>1, <1>2, PTL DEF RestoreSpec

\* dynamo-restore.ts and s3-restore.ts print "Restore complete" only for what
\* the run itself has restored.
THEOREM RestoresAreOwn == RestoreSpec => []RestoredIsOwn
<1>1. RestoreInv => RestoredIsOwn
    BY DEF RestoreInv, ReportsOwn, OwnActive, RestoredIsOwn
<1>2. QED
    BY RestoreInvariance, <1>1, PTL

-----------------------------------------------------------------------------
(* Monitoring.  One job runs at a time; the hash, where nothing says that  *)
(* it is behind, is the stack's; and where every change has been followed, *)
(* the job under way has the template of what there is, or the stack is    *)
(* that already.                                                           *)

Inventory == MonitoringStack(discoverMonitoredResources(tagged))

OneJob == \A q, r \in Releases : Doing(q) \in JobSteps /\ Doing(r) \in JobSteps => q = r

HashTells ==
    unsaved = {} /\ monitoring.exists /\ savedHash # {} => savedHash = monitoring.holds

SavesTell ==
    \A r \in Releases : Doing(r) = "save" =>
        \/ unsaved = {r} /\ monitoring.holds = release[r].template
        \/ unsaved = {Operator}
        \/ unsaved = {} /\ ~monitoring.exists /\ unfollowed

Settled == \A r \in Releases : Doing(r) \notin {"deploying", "queued", "discover"}

Followed ==
    ~unfollowed /\ Settled =>
        IF \E r \in Releases : Doing(r) \in {"compare", "deploy", "save"}
        THEN \A r \in Releases :
                Doing(r) \in {"compare", "deploy", "save"} => release[r].template = Inventory
        ELSE unsaved = {} => monitoring.holds = Inventory

MonitoringInv ==
    MonitoringTypeOK /\ TableNames \subseteq tagged /\ OneJob /\ HashTells /\ SavesTell /\ Followed

ReleasePcs == Over \cup JobSteps \cup {"deploying", "queued"}

LEMMA InventoryType ==
    ASSUME tagged \subseteq Names, TableNames \subseteq tagged
    PROVE  Inventory \in Templates
<1> DEFINE names == tagged \cap LambdaNames
<1>1. tagged = names \cup TableNames /\ names \in SUBSET LambdaNames
    BY DEF Names
<1> HIDE DEF names
<1>2. QED
    BY <1>1 DEF Inventory, Templates

\* discover-monitored-resources.ts leaves out what pull requests deploy.
LEMMA PrUnseen ==
    ASSUME NEW lambdas \in SUBSET PrNames
    PROVE  discoverMonitoredResources((tagged \ PrNames) \cup lambdas) = discoverMonitoredResources(tagged)
    BY DEF discoverMonitoredResources, matchesEnv

LEMMA ProceedType ==
    ASSUME MonitoringTypeOK, NEW r \in Releases, NEW pc \in ReleasePcs, Proceed(r, pc)
    PROVE  /\ release' \in [Releases -> [pc : ReleasePcs, template : Templates \cup {{}}]]
           /\ release'[r].pc = pc
           /\ pc \notin Over => release'[r].template = release[r].template
           /\ \A q \in Releases \ {r} : release'[q] = release[q]
<1> DEFINE next == IF pc \in Over THEN Waiting(pc) ELSE [release[r] EXCEPT !.pc = pc]
<1>1. /\ next \in [pc : ReleasePcs, template : Templates \cup {{}}]
      /\ next.pc = pc /\ (pc \notin Over => next.template = release[r].template)
    BY DEF MonitoringTypeOK, Waiting, ReleasePcs
<1>2. release' = [release EXCEPT ![r] = next]
    BY DEF Proceed
<1> HIDE DEF next
<1>3. QED
    BY <1>1, <1>2 DEF MonitoringTypeOK, ReleasePcs

LEMMA MonitoringInitially == MonitoringInit => MonitoringInv
<1> SUFFICES ASSUME MonitoringInit PROVE MonitoringInv
    OBVIOUS
<1> USE DEF MonitoringInit
<1>1. MonitoringTypeOK /\ TableNames \subseteq tagged
    BY DEF MonitoringTypeOK, Names, SharedLambdas, Absent, Waiting, Over
<1>2. OneJob /\ HashTells /\ SavesTell /\ Followed
    BY DEF OneJob, HashTells, SavesTell, Followed, Doing, Waiting, JobSteps, Absent
<1>3. QED
    BY <1>1, <1>2 DEF MonitoringInv

LEMMA BeginReleaseKeeps ==
    ASSUME MonitoringInv, NEW r \in Releases, BeginRelease(r)
    PROVE  MonitoringInv'
<1> USE DEF MonitoringInv
<1>1. /\ release' \in [Releases -> [pc : ReleasePcs, template : Templates \cup {{}}]]
      /\ release'[r].pc = "deploying"
      /\ \A q \in Releases \ {r} : release'[q] = release[q]
      /\ UNCHANGED <<tagged, monitoring, savedHash, unfollowed, unsaved>>
    BY ProceedType DEF BeginRelease, ReleasePcs
<1>2. MonitoringTypeOK'
    BY <1>1 DEF MonitoringTypeOK, ReleasePcs
<1>3. OneJob' /\ HashTells' /\ SavesTell' /\ ~Settled'
    BY <1>1 DEF OneJob, HashTells, SavesTell, Settled, Doing, JobSteps
<1>4. QED
    BY <1>1, <1>2, <1>3 DEF Followed

LEMMA RedeployKeeps ==
    ASSUME MonitoringInv, NEW r \in Releases, NEW lambdas \in SUBSET SharedLambdas,
           Redeploy(r, lambdas)
    PROVE  MonitoringInv'
<1> USE DEF MonitoringInv
<1>1. /\ UNCHANGED <<monitoring, savedHash, release, unfollowed, unsaved>>
      /\ Doing(r) = "deploying"
      /\ tagged' \subseteq Names /\ TableNames \subseteq tagged'
    BY MonitoringAssumption DEF Redeploy, Names, SharedLambdas, MonitoringTypeOK
<1>2. MonitoringTypeOK' /\ OneJob' /\ HashTells' /\ SavesTell' /\ ~Settled'
    BY <1>1 DEF MonitoringTypeOK, OneJob, HashTells, SavesTell, Settled, Doing
<1>3. QED
    BY <1>1, <1>2 DEF Followed

LEMMA DeploymentFailsKeeps ==
    ASSUME MonitoringInv, NEW r \in Releases, DeploymentFails(r)
    PROVE  MonitoringInv'
<1> USE DEF MonitoringInv
<1>1. /\ release' \in [Releases -> [pc : ReleasePcs, template : Templates \cup {{}}]]
      /\ release'[r].pc = "failed"
      /\ \A q \in Releases \ {r} : release'[q] = release[q]
      /\ UNCHANGED <<tagged, monitoring, savedHash, unsaved>> /\ unfollowed' = TRUE
    BY ProceedType DEF DeploymentFails, ReleasePcs, Over
<1>2. MonitoringTypeOK'
    BY <1>1 DEF MonitoringTypeOK, ReleasePcs
<1>3. OneJob' /\ HashTells' /\ SavesTell' /\ Followed'
    BY <1>1 DEF OneJob, HashTells, SavesTell, Followed, Doing, JobSteps
<1>4. QED
    BY <1>1, <1>2, <1>3

LEMMA EnqueueKeeps ==
    ASSUME MonitoringInv, NEW r \in Releases, Enqueue(r)
    PROVE  MonitoringInv'
<1> USE DEF MonitoringInv
<1>1. /\ release' \in [Releases -> [pc : ReleasePcs, template : Templates \cup {{}}]]
      /\ release'[r].pc = "queued"
      /\ \A q \in Releases \ {r} :
            release'[q] = release[q] \/ release'[q].pc = "cancelled"
      /\ UNCHANGED <<tagged, monitoring, savedHash, unfollowed, unsaved>>
    BY DEF Enqueue, ReleasePcs, Over, MonitoringTypeOK
<1>2. MonitoringTypeOK'
    BY <1>1 DEF MonitoringTypeOK, ReleasePcs
<1>3. OneJob' /\ HashTells' /\ SavesTell' /\ ~Settled'
    BY <1>1 DEF OneJob, HashTells, SavesTell, Settled, Doing, JobSteps
<1>4. QED
    BY <1>1, <1>2, <1>3 DEF Followed

LEMMA BeginJobKeeps ==
    ASSUME MonitoringInv, NEW r \in Releases, BeginJob(r)
    PROVE  MonitoringInv'
<1> USE DEF MonitoringInv
<1>1. /\ release' \in [Releases -> [pc : ReleasePcs, template : Templates \cup {{}}]]
      /\ release'[r].pc = "discover"
      /\ \A q \in Releases \ {r} : release'[q] = release[q]
      /\ \A q \in Releases : Doing(q) \notin JobSteps
      /\ UNCHANGED <<tagged, monitoring, savedHash, unfollowed, unsaved>>
    BY ProceedType DEF BeginJob, ReleasePcs, JobSteps
<1>2. MonitoringTypeOK'
    BY <1>1 DEF MonitoringTypeOK, ReleasePcs
<1>3. OneJob' /\ HashTells' /\ SavesTell' /\ ~Settled'
    BY <1>1 DEF OneJob, HashTells, SavesTell, Settled, Doing, JobSteps
<1>4. QED
    BY <1>1, <1>2, <1>3 DEF Followed

LEMMA DiscoverKeeps ==
    ASSUME MonitoringInv, NEW r \in Releases, Discover(r)
    PROVE  MonitoringInv'
<1> USE DEF MonitoringInv
<1>1. Inventory \in Templates
    BY InventoryType DEF MonitoringTypeOK
<1>2. /\ release' = [release EXCEPT ![r] = [pc |-> "compare", template |-> Inventory]]
      /\ UNCHANGED <<tagged, monitoring, savedHash, unsaved>> /\ unfollowed' = FALSE
      /\ Doing(r) = "discover"
    BY DEF Discover, Inventory
<1>3. Inventory' = Inventory
    BY <1>2 DEF Inventory
<1> HIDE DEF Inventory
<1>4. /\ release' \in [Releases -> [pc : ReleasePcs, template : Templates \cup {{}}]]
      /\ release'[r].pc = "compare" /\ release'[r].template = Inventory
      /\ \A q \in Releases \ {r} : release'[q] = release[q]
    BY <1>1, <1>2 DEF MonitoringTypeOK, ReleasePcs, JobSteps
<1>5. MonitoringTypeOK'
    BY <1>2, <1>4 DEF MonitoringTypeOK, ReleasePcs
<1>6. OneJob' /\ HashTells'
    BY <1>2, <1>4 DEF OneJob, HashTells, Doing, JobSteps
<1>7. \A q \in Releases \ {r} : Doing(q) \notin {"compare", "deploy", "save"}
    BY <1>2 DEF OneJob, Doing, JobSteps
<1>8. SavesTell' /\ Followed'
    BY <1>2, <1>3, <1>4, <1>7 DEF SavesTell, Followed, Doing
<1>9. QED
    BY <1>2, <1>5, <1>6, <1>8

LEMMA CompareKeeps ==
    ASSUME MonitoringInv, NEW r \in Releases, Compare(r)
    PROVE  MonitoringInv'
<1> USE DEF MonitoringInv
<1>1. /\ UNCHANGED <<tagged, monitoring, savedHash, unfollowed, unsaved>>
      /\ Doing(r) = "compare" /\ Inventory' = Inventory
      /\ \A q \in Releases \ {r} : Doing(q) \notin JobSteps
    BY DEF Compare, Inventory, OneJob, Doing, JobSteps
<1> DEFINE next == IF deployRequired(release[r].template) THEN "deploy" ELSE "done"
<1>2. next \in ReleasePcs /\ Proceed(r, next)
    BY DEF Compare, ReleasePcs, Over, JobSteps
<1>3. /\ release' \in [Releases -> [pc : ReleasePcs, template : Templates \cup {{}}]]
      /\ release'[r].pc = next
      /\ next \notin Over => release'[r].template = release[r].template
      /\ \A q \in Releases \ {r} : release'[q] = release[q]
    BY <1>2, ProceedType
<1>4. MonitoringTypeOK'
    BY <1>1, <1>3 DEF MonitoringTypeOK, ReleasePcs
<1>5. OneJob' /\ HashTells' /\ SavesTell'
    BY <1>1, <1>3 DEF OneJob, HashTells, SavesTell, Doing, JobSteps
<1>6. CASE deployRequired(release[r].template)
    <2>1. release'[r].pc = "deploy" /\ release'[r].template = release[r].template
        BY <1>3, <1>6 DEF Over
    <2>2. Settled' => Settled
        BY <1>1, <1>3 DEF Settled, Doing
    <2>3. Followed'
        BY <1>1, <1>3, <2>1, <2>2 DEF Followed, Doing
    <2>4. QED
        BY <1>1, <1>4, <1>5, <2>3
<1>7. CASE ~deployRequired(release[r].template)
    <2>1. release'[r].pc = "done" /\ release[r].template = savedHash
          /\ savedHash # {} /\ monitoring.exists
        BY <1>3, <1>7 DEF deployRequired, MonitoringTypeOK
    <2>2. Settled' => Settled
        BY <1>1, <1>3 DEF Settled, Doing
    <2>3. unsaved = {} => monitoring.holds = release[r].template
        BY <2>1 DEF HashTells
    <2>4. \A q \in Releases : Doing(q)' \notin {"compare", "deploy", "save"}
        BY <1>1, <1>3, <2>1 DEF Doing, JobSteps
    <2>5. ~unfollowed /\ Settled => release[r].template = Inventory
        BY <1>1 DEF Followed
    <2>6. Followed'
        BY <1>1, <2>2, <2>3, <2>4, <2>5 DEF Followed
    <2>7. QED
        BY <1>1, <1>4, <1>5, <2>6
<1>8. QED
    BY <1>6, <1>7

LEMMA DeployMonitoringKeeps ==
    ASSUME MonitoringInv, NEW r \in Releases, DeployMonitoring(r)
    PROVE  MonitoringInv'
<1> USE DEF MonitoringInv
<1>1. /\ UNCHANGED <<tagged, savedHash, unfollowed>> /\ unsaved' = {r}
      /\ monitoring' = [exists |-> TRUE, holds |-> release[r].template]
      /\ Doing(r) = "deploy" /\ Inventory' = Inventory
      /\ \A q \in Releases \ {r} : Doing(q) \notin JobSteps
    BY DEF DeployMonitoring, Inventory, OneJob, Doing, JobSteps
<1>2. /\ release' \in [Releases -> [pc : ReleasePcs, template : Templates \cup {{}}]]
      /\ release'[r].pc = "save" /\ release'[r].template = release[r].template
      /\ \A q \in Releases \ {r} : release'[q] = release[q]
    BY ProceedType DEF DeployMonitoring, ReleasePcs, JobSteps, Over
<1>3. MonitoringTypeOK'
    BY <1>1, <1>2 DEF MonitoringTypeOK, ReleasePcs
<1>4. OneJob' /\ HashTells' /\ SavesTell'
    BY <1>1, <1>2 DEF OneJob, HashTells, SavesTell, Doing, JobSteps
<1>5. Followed'
    BY <1>1, <1>2 DEF Followed, Doing, Settled
<1>6. QED
    BY <1>1, <1>3, <1>4, <1>5

LEMMA SaveHashKeeps ==
    ASSUME MonitoringInv, NEW r \in Releases, SaveHash(r)
    PROVE  MonitoringInv'
<1> USE DEF MonitoringInv
<1>1. /\ UNCHANGED <<tagged, monitoring, unfollowed>> /\ unsaved' = unsaved \ {r}
      /\ savedHash' = release[r].template
      /\ Doing(r) = "save" /\ Inventory' = Inventory
      /\ \A q \in Releases \ {r} : Doing(q) \notin JobSteps
    BY DEF SaveHash, Inventory, OneJob, Doing, JobSteps
<1>2. /\ release' \in [Releases -> [pc : ReleasePcs, template : Templates \cup {{}}]]
      /\ release'[r].pc = "done"
      /\ \A q \in Releases \ {r} : release'[q] = release[q]
    BY ProceedType DEF SaveHash, ReleasePcs, Over
<1>3. MonitoringTypeOK'
    BY <1>1, <1>2 DEF MonitoringTypeOK, ReleasePcs
<1>4. OneJob' /\ SavesTell'
    BY <1>1, <1>2 DEF OneJob, SavesTell, Doing, JobSteps
<1>5. \/ unsaved = {r} /\ monitoring.holds = release[r].template
      \/ unsaved = {Operator} /\ Operator # r
      \/ unsaved = {} /\ ~monitoring.exists /\ unfollowed
    BY <1>1, MonitoringAssumption DEF SavesTell
<1>6. HashTells'
    BY <1>1, <1>5 DEF HashTells
<1>7. Settled' => Settled
    BY <1>1, <1>2 DEF Settled, Doing
<1>8. \A q \in Releases : Doing(q)' \notin {"compare", "deploy", "save"}
    BY <1>1, <1>2 DEF Doing, JobSteps
<1>9. Followed'
    <2> SUFFICES ASSUME ~unfollowed, Settled, unsaved' = {} PROVE monitoring.holds = Inventory
        BY <1>1, <1>7, <1>8 DEF Followed
    <2>1. unsaved = {r} /\ monitoring.holds = release[r].template
        BY <1>1, <1>5
    <2>2. QED
        BY <1>1, <2>1 DEF Followed
<1>10. QED
    BY <1>1, <1>3, <1>4, <1>6, <1>9

LEMMA MonitoringFailsKeeps ==
    ASSUME MonitoringInv, NEW r \in Releases, MonitoringFails(r)
    PROVE  MonitoringInv'
<1> USE DEF MonitoringInv
<1>1. /\ UNCHANGED <<tagged, savedHash>> /\ unfollowed' = TRUE
      /\ Doing(r) \in JobSteps
      /\ \A q \in Releases \ {r} : Doing(q) \notin JobSteps
    BY DEF MonitoringFails, OneJob
<1>2. /\ release' \in [Releases -> [pc : ReleasePcs, template : Templates \cup {{}}]]
      /\ release'[r].pc = "failed"
      /\ \A q \in Releases \ {r} : release'[q] = release[q]
    BY ProceedType DEF MonitoringFails, ReleasePcs, Over
<1>3. \/ UNCHANGED <<monitoring, unsaved>>
      \/ monitoring' = [exists |-> TRUE, holds |-> {}] /\ unsaved' = {r}
    BY DEF MonitoringFails
<1>4. MonitoringTypeOK'
    <2>1. monitoring' \in [exists : BOOLEAN, holds : Templates \cup {{}}]
        <3>1. CASE monitoring' = [exists |-> TRUE, holds |-> {}]
            BY <3>1
        <3>2. CASE monitoring' = monitoring
            BY <3>2 DEF MonitoringTypeOK
        <3>3. QED
            BY <1>3, <3>1, <3>2
    <2>2. unsaved' \subseteq Releases \cup {Operator}
        BY <1>3 DEF MonitoringTypeOK
    <2>3. QED
        BY <1>1, <1>2, <2>1, <2>2 DEF MonitoringTypeOK, ReleasePcs
<1>5. OneJob' /\ HashTells' /\ SavesTell' /\ Followed'
    BY <1>1, <1>2, <1>3 DEF OneJob, HashTells, SavesTell, Followed, Doing, JobSteps
<1>6. QED
    BY <1>1, <1>4, <1>5

LEMMA PrDeploysKeeps ==
    ASSUME MonitoringInv, NEW lambdas \in SUBSET PrNames, PrDeploys(lambdas)
    PROVE  MonitoringInv'
<1> USE DEF MonitoringInv
<1>1. /\ UNCHANGED <<monitoring, savedHash, release, unfollowed, unsaved>>
      /\ tagged' \subseteq Names /\ TableNames \subseteq tagged'
    BY MonitoringAssumption DEF PrDeploys, Names, MonitoringTypeOK
<1>2. Inventory' = Inventory
    BY PrUnseen DEF PrDeploys, Inventory
<1>3. MonitoringTypeOK' /\ OneJob' /\ HashTells' /\ SavesTell'
    BY <1>1 DEF MonitoringTypeOK, OneJob, HashTells, SavesTell, Doing
<1>4. Followed'
    BY <1>1, <1>2 DEF Followed, Settled, Doing
<1>5. QED
    BY <1>1, <1>3, <1>4

LEMMA DeveloperDeploysKeeps ==
    ASSUME MonitoringInv, NEW lambdas \in SUBSET DeveloperNames, DeveloperDeploys(lambdas)
    PROVE  MonitoringInv'
<1> USE DEF MonitoringInv
<1>1. /\ UNCHANGED <<monitoring, savedHash, release, unsaved>> /\ unfollowed' = TRUE
      /\ tagged' \subseteq Names /\ TableNames \subseteq tagged'
    BY MonitoringAssumption DEF DeveloperDeploys, Names, MonitoringTypeOK
<1>2. MonitoringTypeOK' /\ OneJob' /\ HashTells' /\ SavesTell' /\ Followed'
    BY <1>1 DEF MonitoringTypeOK, OneJob, HashTells, SavesTell, Followed, Doing
<1>3. QED
    BY <1>1, <1>2

LEMMA ByHandKeeps ==
    ASSUME MonitoringInv, UNCHANGED <<tagged, savedHash, release>>, unfollowed' = TRUE,
           \/ unsaved' = {Operator}
           \/ unsaved' = {} /\ ~monitoring'.exists,
           monitoring' \in [exists : BOOLEAN, holds : Templates \cup {{}}]
    PROVE  MonitoringInv'
<1> USE DEF MonitoringInv
<1>1. MonitoringTypeOK'
    BY DEF MonitoringTypeOK
<1>2. OneJob' /\ SavesTell' /\ Followed'
    BY DEF OneJob, SavesTell, Followed, Doing
<1>3. HashTells'
    BY DEF HashTells
<1>4. QED
    BY <1>1, <1>2, <1>3

LEMMA DeployByHandKeeps ==
    ASSUME MonitoringInv, NEW template \in Templates, DeployByHand(template)
    PROVE  MonitoringInv'
<1>1. monitoring' = [exists |-> TRUE, holds |-> template]
    BY DEF DeployByHand
<1>2. monitoring' \in [exists : BOOLEAN, holds : Templates \cup {{}}]
    BY <1>1
<1>3. QED
    BY <1>2, ByHandKeeps DEF DeployByHand

LEMMA DestroyByHandKeeps ==
    ASSUME MonitoringInv, DestroyByHand
    PROVE  MonitoringInv'
<1>1. monitoring' = [exists |-> FALSE, holds |-> {}]
    BY DEF DestroyByHand, Absent
<1>2. monitoring' \in [exists : BOOLEAN, holds : Templates \cup {{}}] /\ ~monitoring'.exists
    BY <1>1
<1>3. QED
    BY <1>2, ByHandKeeps DEF DestroyByHand

LEMMA MonitoringStutters ==
    ASSUME MonitoringInv, UNCHANGED monitoringVars PROVE MonitoringInv'
    BY DEF MonitoringInv, MonitoringTypeOK, OneJob, HashTells, SavesTell, Followed, Settled, Doing,
           Inventory, monitoringVars

\* The monitoring jobs' named parts hold in every reachable state.
THEOREM MonitoringInvariance == MonitoringSpec => []MonitoringInv
<1>1. MonitoringInit => MonitoringInv
    BY MonitoringInitially
<1>2. MonitoringInv /\ [MonitoringNext]_monitoringVars => MonitoringInv'
    BY BeginReleaseKeeps, RedeployKeeps, DeploymentFailsKeeps, EnqueueKeeps, BeginJobKeeps,
       DiscoverKeeps, CompareKeeps, DeployMonitoringKeeps, SaveHashKeeps, MonitoringFailsKeeps,
       PrDeploysKeeps, DeveloperDeploysKeeps, DeployByHandKeeps, DestroyByHandKeeps,
       MonitoringStutters
       DEF MonitoringNext, ReleaseStep
<1>3. QED
    BY <1>1, <1>2, PTL DEF MonitoringSpec

\* __deploy-monitoring.yml: when all releases are over and every change was
\* followed and saved, the alarms are those of the tagged resources.
THEOREM MonitoringIsCurrent == MonitoringSpec => []MonitoringCurrent
<1>1. MonitoringInv => MonitoringCurrent
    BY DEF MonitoringInv, Followed, Settled, MonitoringCurrent, Inventory, Over
<1>2. QED
    BY MonitoringInvariance, <1>1, PTL

-----------------------------------------------------------------------------
(* DsqlConnection.  What a session has open is the client it would use     *)
(* next; a statement is sent on a young one and sees one tick at most; and *)
(* one that ran unanswered has lost its connection.                        *)

CallStates == [attempt : Nat, sent : BOOLEAN, on : Nat, at : Nat, ran : {0, 1}]

ConnectionTypes ==
    /\ job = [s \in Sessions |-> job[s]]
    /\ call \in [Sessions -> CallStates]
    /\ client \in [Sessions -> Nat]
    /\ clients \in [Sessions -> Seq(Nat)]
    /\ open \in [Sessions -> SUBSET Nat]
    /\ pending \in [Sessions -> SUBSET Nat]
    /\ clock \in Nat

RanOnce(s) == call[s].ran = 1 => call[s].sent /\ call[s].on \notin open[s]

OneOpen(s) ==
    /\ open[s] \subseteq {client[s]} \/ job[s] \in Ended
    /\ open[s] \subseteq 1..Len(clients[s]) /\ pending[s] \subseteq 1..Len(clients[s])
    /\ open[s] \cap pending[s] = {}
    /\ client[s] \in 0..Len(clients[s])

SentYoung(s) ==
    call[s].sent =>
        /\ Working(s)
        /\ call[s].on \in 1..Len(clients[s])
        /\ call[s].at <= clients[s][call[s].on] + MaxAge
        /\ call[s].at <= clock /\ clock <= call[s].at + 1

ConnectionInv == ConnectionTypes /\ \A s \in Sessions : RanOnce(s) /\ OneOpen(s) /\ SentYoung(s)

LEMMA ConnectionInitially == MigrationInit => ConnectionInv
<1> SUFFICES ASSUME MigrationInit PROVE ConnectionInv
    OBVIOUS
<1> USE DEF MigrationInit
<1>1. \A s \in Sessions : call[s] = NoCall /\ NoCall \in CallStates
    BY DEF NoCall, CallStates
<1>2. ConnectionTypes
    BY <1>1 DEF ConnectionTypes
<1>3. \A s \in Sessions : RanOnce(s) /\ SentYoung(s)
    BY <1>1 DEF RanOnce, SentYoung, NoCall
<1>4. \A s \in Sessions : OneOpen(s)
    BY DEF OneOpen
<1>5. QED
    BY <1>2, <1>3, <1>4 DEF ConnectionInv

\* What a step of one session may change.
OnlyOf(s) ==
    /\ job' = [job EXCEPT ![s] = job'[s]] /\ call' = [call EXCEPT ![s] = call'[s]]
    /\ client' = [client EXCEPT ![s] = client'[s]] /\ clients' = [clients EXCEPT ![s] = clients'[s]]
    /\ open' = [open EXCEPT ![s] = open'[s]] /\ pending' = [pending EXCEPT ![s] = pending'[s]]
    /\ clock' = clock

LEMMA OneSession ==
    ASSUME ConnectionInv, NEW s \in Sessions, OnlyOf(s),
           call'[s] \in CallStates, client'[s] \in Nat, clients'[s] \in Seq(Nat),
           open'[s] \in SUBSET Nat, pending'[s] \in SUBSET Nat,
           RanOnce(s)', OneOpen(s)', SentYoung(s)'
    PROVE  ConnectionInv'
<1> USE DEF ConnectionInv, OnlyOf
<1>1. ConnectionTypes'
    BY DEF ConnectionTypes
<1>2. \A t \in Sessions \ {s} :
            /\ job'[t] = job[t] /\ call'[t] = call[t] /\ client'[t] = client[t]
            /\ clients'[t] = clients[t] /\ open'[t] = open[t] /\ pending'[t] = pending[t]
    BY DEF ConnectionTypes
<1>3. \A t \in Sessions \ {s} : RanOnce(t)' /\ OneOpen(t)' /\ SentYoung(t)'
    BY <1>2 DEF RanOnce, OneOpen, SentYoung, Working
<1>4. QED
    BY <1>1, <1>3

\* What a session's values are before its step.
LEMMA Before ==
    ASSUME ConnectionInv, NEW s \in Sessions
    PROVE  /\ call[s] \in CallStates /\ client[s] \in Nat /\ clients[s] \in Seq(Nat)
           /\ open[s] \in SUBSET Nat /\ pending[s] \in SUBSET Nat /\ clock \in Nat
           /\ RanOnce(s) /\ OneOpen(s) /\ SentYoung(s)
           /\ NoCall \in CallStates /\ NoCall.ran = 0 /\ ~NoCall.sent
    BY DEF ConnectionInv, ConnectionTypes, NoCall, CallStates

\* A variable that a session's step leaves, or changes for the session alone.
LEMMA Frame ==
    ASSUME NEW f, NEW g, NEW s \in Sessions, f = [t \in Sessions |-> f[t]],
           g = f \/ \E v : g = [f EXCEPT ![s] = v]
    PROVE  g = [f EXCEPT ![s] = g[s]]
    OBVIOUS

LEMMA Frames ==
    ASSUME ConnectionInv, NEW s \in Sessions, UNCHANGED clock,
           UNCHANGED job \/ \E v : job' = [job EXCEPT ![s] = v],
           UNCHANGED call \/ \E v : call' = [call EXCEPT ![s] = v],
           UNCHANGED client \/ \E v : client' = [client EXCEPT ![s] = v],
           UNCHANGED clients \/ \E v : clients' = [clients EXCEPT ![s] = v],
           UNCHANGED open \/ \E v : open' = [open EXCEPT ![s] = v],
           UNCHANGED pending \/ \E v : pending' = [pending EXCEPT ![s] = v]
    PROVE  OnlyOf(s)
<1>1. /\ job = [t \in Sessions |-> job[t]] /\ call = [t \in Sessions |-> call[t]]
      /\ client = [t \in Sessions |-> client[t]] /\ clients = [t \in Sessions |-> clients[t]]
      /\ open = [t \in Sessions |-> open[t]] /\ pending = [t \in Sessions |-> pending[t]]
    BY DEF ConnectionInv, ConnectionTypes
<1>2. job' = [job EXCEPT ![s] = job'[s]] /\ call' = [call EXCEPT ![s] = call'[s]]
    BY <1>1, Frame
<1>3. client' = [client EXCEPT ![s] = client'[s]] /\ clients' = [clients EXCEPT ![s] = clients'[s]]
    BY <1>1, Frame
<1>4. open' = [open EXCEPT ![s] = open'[s]] /\ pending' = [pending EXCEPT ![s] = pending'[s]]
    BY <1>1, Frame
<1>5. QED
    BY <1>2, <1>3, <1>4 DEF OnlyOf

LEMMA Updated ==
    ASSUME ConnectionInv, NEW s \in Sessions, NEW v
    PROVE  /\ [job EXCEPT ![s] = v][s] = v /\ [call EXCEPT ![s] = v][s] = v
           /\ [client EXCEPT ![s] = v][s] = v /\ [clients EXCEPT ![s] = v][s] = v
           /\ [open EXCEPT ![s] = v][s] = v /\ [pending EXCEPT ![s] = v][s] = v
    BY DEF ConnectionInv, ConnectionTypes

LEMMA StartConnections ==
    ASSUME ConnectionInv, NEW m \in Migrations, NEW arn \in Arns, StartMigration(m, arn)
    PROVE  ConnectionInv'
<1>1. m \in Sessions /\ job[m] \notin Ended /\ ~Working(m)
    BY DEF Sessions, StartMigration, Idle, Ended, Working
<1>2. UNCHANGED <<call, client, clients, open, pending, clock>>
    BY DEF StartMigration, connVars
<1>3. \E j : job' = [job EXCEPT ![m] = j]
    BY DEF StartMigration
<1>4. OnlyOf(m)
    BY <1>1, <1>2, <1>3, Frames
<1>5. RanOnce(m)' /\ OneOpen(m)' /\ SentYoung(m)'
    BY <1>1, <1>2, Before DEF RanOnce, OneOpen, SentYoung
<1>6. QED
    BY <1>1, <1>2, <1>4, <1>5, Before, OneSession

LEMMA UseConnections ==
    ASSUME ConnectionInv, NEW x \in Extractors, NEW t \in DOMAIN Tables, Use(x, t)
    PROVE  ConnectionInv'
<1>1. x \in Sessions /\ job[x] \notin Ended /\ ~Working(x)
    BY DEF Sessions, Use, Idle, Ended, Working
<1>2. UNCHANGED <<call, client, clients, open, pending, clock>>
    BY DEF Use, connVars
<1>3. \E j : job' = [job EXCEPT ![x] = j]
    BY DEF Use
<1>4. OnlyOf(x)
    BY <1>1, <1>2, <1>3, Frames
<1>5. RanOnce(x)' /\ OneOpen(x)' /\ SentYoung(x)'
    BY <1>1, <1>2, Before DEF RanOnce, OneOpen, SentYoung
<1>6. QED
    BY <1>1, <1>2, <1>4, <1>5, Before, OneSession

LEMMA SendOnClientKeeps ==
    ASSUME ConnectionInv, NEW s \in Sessions, SendOnClient(s)
    PROVE  ConnectionInv'
<1> DEFINE a == [attempt |-> call[s].attempt + 1, sent |-> TRUE, on |-> client[s],
                 at |-> clock, ran |-> call[s].ran]
<1>1. /\ UNCHANGED <<job, client, clients, open, pending, clock>> /\ ~call[s].sent /\ Working(s)
      /\ client[s] # 0 /\ clock - clients[s][client[s]] <= MaxAge
    BY DEF SendOnClient, connVars, Young
<1>2. call' = [call EXCEPT ![s] = a]
    BY DEF SendOnClient, Sent
<1>3. a \in CallStates /\ a.ran = 0 /\ a.on = client[s] /\ a.at = clock /\ a.sent
    BY <1>1, Before DEF CallStates, RanOnce
<1>4. a.on \in 1..Len(clients[s]) /\ a.at <= clients[s][a.on] + MaxAge
    <2>1. client[s] \in 1..Len(clients[s])
        BY <1>1, Before DEF OneOpen
    <2>2. clients[s][client[s]] \in Nat
        BY <2>1, Before
    <2>3. QED
        BY <1>1, <1>3, <2>1, <2>2, Before, AgeAssumption
<1> HIDE DEF a
<1>5. call'[s] = a
    BY <1>2, Updated
<1>6. OnlyOf(s)
    BY <1>1, <1>2, Frames
<1>7. RanOnce(s)' /\ OneOpen(s)' /\ SentYoung(s)'
    BY <1>1, <1>3, <1>4, <1>5, Before DEF RanOnce, OneOpen, SentYoung, Working
<1>8. QED
    BY <1>1, <1>3, <1>5, <1>6, <1>7, Before, OneSession

LEMMA ConnectKeeps ==
    ASSUME ConnectionInv, NEW s \in Sessions, Connect(s)
    PROVE  ConnectionInv'
<1> DEFINE c == Len(clients[s]) + 1
           cs == Append(clients[s], clock)
           a == [attempt |-> call[s].attempt + 1, sent |-> TRUE, on |-> c,
                 at |-> clock, ran |-> call[s].ran]
           o == (open[s] \ {client[s]}) \cup {c}
<1>1. /\ UNCHANGED <<job, pending, clock>> /\ ~call[s].sent /\ Working(s) /\ Working(s)'
      /\ client' = [client EXCEPT ![s] = c] /\ clients' = [clients EXCEPT ![s] = cs]
      /\ open' = [open EXCEPT ![s] = o] /\ call' = [call EXCEPT ![s] = a]
    BY DEF Connect, Working, Sent, Ended
<1>2. c \in Nat /\ c # 0 /\ cs \in Seq(Nat) /\ Len(cs) = c /\ cs[c] = clock
    BY Before
<1>3. a \in CallStates /\ a.ran = 0 /\ a.on = c /\ a.at = clock /\ a.sent
    BY <1>1, <1>2, Before DEF CallStates, RanOnce
<1>4. o = {c} /\ pending[s] \subseteq 1..Len(clients[s])
    BY <1>1, Before DEF OneOpen, Working
<1>5. pending[s] \subseteq 1..c /\ {c} \cap pending[s] = {}
    BY <1>4, Before
<1> HIDE DEF a, c, cs, o
<1>6. client'[s] = c /\ clients'[s] = cs /\ open'[s] = o /\ call'[s] = a
    BY <1>1, Updated
<1>7. OnlyOf(s)
    BY <1>1, Frames
<1>8. RanOnce(s)' /\ OneOpen(s)' /\ SentYoung(s)'
    BY <1>1, <1>2, <1>3, <1>4, <1>5, <1>6, Before, AgeAssumption DEF RanOnce, OneOpen, SentYoung
<1>9. QED
    BY <1>1, <1>2, <1>3, <1>4, <1>6, <1>7, <1>8, Before, OneSession

\* A statement that ends leaves the clients, or closes the present one.
LEMMA EndsKeeps ==
    ASSUME ConnectionInv, NEW s \in Sessions, NEW next, Ends(s, next),
           UNCHANGED <<clients, pending, clock>>,
           Closed(s) \/ UNCHANGED <<client, open>>,
           job[s] \notin Ended \/ next \in Ended
    PROVE  ConnectionInv'
<1>1. job' = [job EXCEPT ![s] = next] /\ call' = [call EXCEPT ![s] = NoCall]
    BY DEF Ends
<1>2. job'[s] = next /\ call'[s] = NoCall
    BY <1>1, Updated
<1> DEFINE o == open[s] \ {client[s]}
<1>3. \/ UNCHANGED <<client, open>>
      \/ client' = [client EXCEPT ![s] = 0] /\ open' = [open EXCEPT ![s] = o]
    BY DEF Closed
<1>4. \/ client'[s] = client[s] /\ open'[s] = open[s]
      \/ client'[s] = 0 /\ open'[s] = o
    <2> HIDE DEF o
    <2>1. QED
        BY <1>3, Updated
<1>5. OnlyOf(s)
    <2> HIDE DEF o
    <2>1. (UNCHANGED client \/ \E v : client' = [client EXCEPT ![s] = v])
          /\ (UNCHANGED open \/ \E v : open' = [open EXCEPT ![s] = v])
        BY <1>3
    <2>2. (\E v : job' = [job EXCEPT ![s] = v]) /\ (\E v : call' = [call EXCEPT ![s] = v])
        BY <1>1
    <2>3. QED
        BY <2>1, <2>2, Frames
<1>6. OneOpen(s)' /\ client'[s] \in Nat /\ open'[s] \in SUBSET Nat
    BY <1>2, <1>4, Before DEF OneOpen
<1>7. RanOnce(s)' /\ SentYoung(s)'
    BY <1>2, Before DEF RanOnce, SentYoung
<1>8. QED
    BY <1>2, <1>5, <1>6, <1>7, Before, OneSession

LEMMA ThrowsKeeps ==
    ASSUME ConnectionInv, NEW s \in Sessions, Working(s), Throws(s),
           UNCHANGED <<clients, pending, clock>>,
           Closed(s) \/ UNCHANGED <<client, open>>
    PROVE  ConnectionInv'
<1>1. PICK next : Ends(s, next)
    BY DEF Throws
<1>2. job[s] \notin Ended
    BY DEF Working
<1>3. QED
    BY <1>1, <1>2, EndsKeeps

LEMMA AnswerableWorks ==
    ASSUME ConnectionInv, NEW s \in Sessions, call[s].sent
    PROVE  Working(s) /\ job[s] \notin Ended
    BY Before DEF SentYoung, Working

LEMMA ConnectThrowsKeeps ==
    ASSUME ConnectionInv, NEW s \in Sessions, ConnectThrows(s)
    PROVE  ConnectionInv'
    BY ThrowsKeeps DEF ConnectThrows

LEMMA SucceedsConnections ==
    ASSUME ConnectionInv, NEW s \in Sessions, Succeeds(s)
    PROVE  ConnectionInv'
<1>1. /\ Ends(s, After(job[s])) /\ UNCHANGED <<clients, pending, clock>> /\ call[s].sent
      /\ Closed(s) \/ UNCHANGED <<client, open>>
    BY DEF Succeeds, Answerable
<1>2. job[s] \notin Ended
    BY <1>1, AnswerableWorks
<1>3. QED
    BY <1>1, <1>2, EndsKeeps

LEMMA RefusesKeeps ==
    ASSUME ConnectionInv, NEW s \in Sessions, Refuses(s)
    PROVE  ConnectionInv'
<1>1. /\ Throws(s) /\ UNCHANGED <<clients, pending, clock>> /\ call[s].sent
      /\ Closed(s) \/ UNCHANGED <<client, open>>
    BY DEF Refuses, Answerable
<1>2. QED
    BY <1>1, AnswerableWorks, ThrowsKeeps

LEMMA LostAnswerKeeps ==
    ASSUME ConnectionInv, NEW s \in Sessions, LostAnswer(s)
    PROVE  ConnectionInv'
<1>1. /\ Throws(s) /\ UNCHANGED <<clients, pending, clock>> /\ call[s].sent
      /\ Closed(s) \/ UNCHANGED <<client, open>>
    BY DEF LostAnswer
<1>2. QED
    BY <1>1, AnswerableWorks, ThrowsKeeps

\* A statement on an open connection has not run yet.
LEMMA ConflictsKeeps ==
    ASSUME ConnectionInv, NEW s \in Sessions, Conflicts(s)
    PROVE  ConnectionInv'
<1>1. /\ UNCHANGED <<clients, pending, clock>> /\ call[s].sent /\ call[s].on \in open[s]
      /\ \/ call' = [call EXCEPT ![s] = [call[s] EXCEPT !.sent = FALSE]]
            /\ UNCHANGED <<job, client, open>>
         \/ Throws(s) /\ (Closed(s) \/ UNCHANGED <<client, open>>)
    BY DEF Conflicts, Answerable
<1>2. CASE Throws(s) /\ (Closed(s) \/ UNCHANGED <<client, open>>)
    BY <1>1, <1>2, AnswerableWorks, ThrowsKeeps
<1>3. CASE call' = [call EXCEPT ![s] = [call[s] EXCEPT !.sent = FALSE]] /\ UNCHANGED <<job, client, open>>
    <2> DEFINE a == [call[s] EXCEPT !.sent = FALSE]
    <2>1. a \in CallStates /\ a.ran = 0 /\ ~a.sent
        BY <1>1, Before DEF CallStates, RanOnce
    <2>2. call' = [call EXCEPT ![s] = a]
        BY <1>3
    <2> HIDE DEF a
    <2>3. call'[s] = a
        BY <2>2, Updated
    <2>4. OnlyOf(s)
        BY <1>1, <1>3, <2>2, Frames
    <2>5. RanOnce(s)' /\ OneOpen(s)' /\ SentYoung(s)'
        BY <1>1, <1>3, <2>1, <2>3, Before DEF RanOnce, OneOpen, SentYoung
    <2>6. QED
        BY <1>1, <1>3, <2>1, <2>3, <2>4, <2>5, Before, OneSession
<1>4. QED
    BY <1>1, <1>2, <1>3

LEMMA ExecutesConnections ==
    ASSUME ConnectionInv, NEW s \in Sessions, Executes(s)
    PROVE  ConnectionInv'
<1> DEFINE a == [call[s] EXCEPT !.ran = @ + 1]
           o == open[s] \ {call[s].on}
           p == pending[s] \cup {call[s].on}
<1>1. /\ UNCHANGED <<job, client, clients, clock>> /\ call[s].sent /\ call[s].on \in open[s]
      /\ call' = [call EXCEPT ![s] = a] /\ open' = [open EXCEPT ![s] = o]
      /\ pending' = [pending EXCEPT ![s] = p]
    BY DEF Executes, Answerable
<1>2. a \in CallStates /\ a.on = call[s].on /\ a.at = call[s].at /\ a.sent
    BY <1>1, Before DEF CallStates, RanOnce
<1>3. /\ o \in SUBSET Nat /\ p \in SUBSET Nat /\ a.on \notin o
      /\ o \subseteq open[s] /\ o \cap p = {}
      /\ p \subseteq 1..Len(clients[s])
    BY <1>1, <1>2, Before DEF CallStates, OneOpen
<1> HIDE DEF a, o, p
<1>4. OnlyOf(s)
    BY <1>1, Frames
<1>5. call'[s] = a /\ open'[s] = o /\ pending'[s] = p
    BY <1>1, Updated
<1>6. RanOnce(s)' /\ OneOpen(s)'
    BY <1>1, <1>2, <1>3, <1>5, Before DEF RanOnce, OneOpen
<1>7. SentYoung(s)'
    BY <1>1, <1>2, <1>5, Before DEF SentYoung, Working
<1>8. QED
    BY <1>1, <1>2, <1>3, <1>4, <1>5, <1>6, <1>7, Before, OneSession

LEMMA ServerClosesKeeps ==
    ASSUME ConnectionInv, NEW s \in Sessions, NEW c \in DOMAIN clients[s], ServerCloses(s, c)
    PROVE  ConnectionInv'
<1> DEFINE o == open[s] \ {c}
           p == pending[s] \cup {c}
<1>1. /\ UNCHANGED <<job, call, client, clients, clock>> /\ c \in open[s]
      /\ open' = [open EXCEPT ![s] = o] /\ pending' = [pending EXCEPT ![s] = p]
    BY DEF ServerCloses
<1>2. /\ o \in SUBSET Nat /\ p \in SUBSET Nat /\ o \subseteq open[s] /\ o \cap p = {}
      /\ p \subseteq 1..Len(clients[s])
    BY <1>1, Before DEF OneOpen
<1> HIDE DEF o, p
<1>3. OnlyOf(s)
    BY <1>1, Frames
<1>4. open'[s] = o /\ pending'[s] = p
    BY <1>1, Updated
<1>5. RanOnce(s)' /\ OneOpen(s)'
    BY <1>1, <1>2, <1>4, Before DEF RanOnce, OneOpen
<1>6. SentYoung(s)'
    BY <1>1, Before DEF SentYoung, Working
<1>7. QED
    BY <1>1, <1>2, <1>3, <1>4, <1>5, <1>6, Before, OneSession

\* The event of a client whose connection is lost: the one in use, if it is
\* another, stays.
LEMMA ErrorEventKeeps ==
    ASSUME ConnectionInv, NEW s \in Sessions, NEW c \in DOMAIN clients[s], ErrorEvent(s, c)
    PROVE  ConnectionInv'
<1> DEFINE k == IF client[s] = c THEN 0 ELSE client[s]
           p == pending[s] \ {c}
<1>1. /\ UNCHANGED <<job, call, clients, open, clock>> /\ c \in pending[s]
      /\ client' = [client EXCEPT ![s] = k] /\ pending' = [pending EXCEPT ![s] = p]
    BY DEF ErrorEvent
<1>2. /\ k \in Nat /\ p \in SUBSET Nat /\ p \subseteq pending[s] /\ k \in 0..Len(clients[s])
      /\ open[s] \subseteq {k} \/ job[s] \in Ended
    BY <1>1, Before DEF OneOpen
<1> HIDE DEF k, p
<1>3. OnlyOf(s)
    BY <1>1, Frames
<1>4. client'[s] = k /\ pending'[s] = p
    BY <1>1, Updated
<1>5. RanOnce(s)' /\ OneOpen(s)'
    BY <1>1, <1>2, <1>4, Before DEF RanOnce, OneOpen
<1>6. SentYoung(s)'
    BY <1>1, Before DEF SentYoung, Working
<1>7. QED
    BY <1>1, <1>2, <1>3, <1>4, <1>5, <1>6, Before, OneSession

LEMMA TimesOutKeeps ==
    ASSUME ConnectionInv, NEW m \in Migrations, TimesOut(m)
    PROVE  ConnectionInv'
<1>1. /\ m \in Sessions /\ Ends(m, [pc |-> "failed"]) /\ UNCHANGED <<client, clients, open, pending, clock>>
    BY DEF TimesOut, Sessions, connVars
<1>2. [pc |-> "failed"] \in Ended
    BY DEF Ended
<1>3. QED
    BY <1>1, <1>2, EndsKeeps

LEMMA TickKeeps ==
    ASSUME ConnectionInv, Tick
    PROVE  ConnectionInv'
<1>1. /\ UNCHANGED <<job, call, client, clients, open, pending>> /\ clock' = clock + 1
      /\ \A s \in Sessions : call[s].sent => call[s].at = clock
    BY DEF Tick, connVars
<1>2. ConnectionTypes'
    BY <1>1 DEF ConnectionInv, ConnectionTypes
<1>3. ASSUME NEW s \in Sessions PROVE RanOnce(s)' /\ OneOpen(s)'
    BY <1>1, Before DEF RanOnce, OneOpen
<1>4. ASSUME NEW s \in Sessions PROVE SentYoung(s)'
    BY <1>1, Before DEF SentYoung, Working, CallStates
<1>5. QED
    BY <1>2, <1>3, <1>4 DEF ConnectionInv

LEMMA ConnectionStutters == ASSUME ConnectionInv, UNCHANGED migrationVars PROVE ConnectionInv'
    BY DEF ConnectionInv, ConnectionTypes, RanOnce, OneOpen, SentYoung, Working, migrationVars

\* DsqlConnection's named parts hold in every reachable state.
THEOREM ConnectionInvariance == MigrationSpec => []ConnectionInv
<1>1. MigrationInit => ConnectionInv
    BY ConnectionInitially
<1>2. ConnectionInv /\ [MigrationNext]_migrationVars => ConnectionInv'
    BY StartConnections, UseConnections, SendOnClientKeeps, ConnectKeeps, ConnectThrowsKeeps,
       SucceedsConnections, RefusesKeeps, ConflictsKeeps, ExecutesConnections, LostAnswerKeeps,
       ServerClosesKeeps, ErrorEventKeeps, TimesOutKeeps, TickKeeps, ConnectionStutters
       DEF MigrationNext, SessionStep
<1>3. QED
    BY <1>1, <1>2, PTL DEF MigrationSpec

\* attemptQuery retries no statement that may have taken effect.
THEOREM StatementsRunOnce == MigrationSpec => []StatementsOnce
<1>1. ConnectionInv => StatementsOnce
    BY Before DEF StatementsOnce, RanOnce, CallStates
<1>2. QED
    BY ConnectionInvariance, <1>1, PTL

LEMMA YoungEnough ==
    ASSUME NEW made \in Nat, NEW at \in Nat, NEW now \in Nat,
           at <= made + MaxAge, now <= at + 1
    PROVE  now - made < ServerAge
    BY AgeAssumption

\* getClient never leaves a second connection open, nor uses one so old that
\* the cluster may close it during a statement.
THEOREM ConnectionsAreSound == MigrationSpec => []ConnectionSound
<1>1. ConnectionInv => ConnectionSound
    <2> SUFFICES ASSUME ConnectionInv, NEW s \in Sessions
                 PROVE  /\ open[s] \subseteq {client[s]} \/ job[s] \in Ended
                        /\ call[s].sent => clock - clients[s][call[s].on] < ServerAge
        BY DEF ConnectionSound
    <2>1. open[s] \subseteq {client[s]} \/ job[s] \in Ended
        BY Before DEF OneOpen
    <2>2. ASSUME call[s].sent PROVE clock - clients[s][call[s].on] < ServerAge
        <3>1. /\ call[s].on \in 1..Len(clients[s]) /\ call[s].at <= clients[s][call[s].on] + MaxAge
              /\ clock <= call[s].at + 1 /\ call[s].at \in Nat /\ clock \in Nat
            BY <2>2, Before DEF SentYoung, CallStates
        <3>2. clients[s][call[s].on] \in Nat
            BY <3>1, Before
        <3>3. QED
            BY <3>1, <3>2, YoungEnough
    <2>3. QED
        BY <2>1, <2>2
<1>2. QED
    BY ConnectionInvariance, <1>1, PTL

-----------------------------------------------------------------------------
(* The migration.  What a run has come past is there and stays; what it    *)
(* holds for stale is not its own; and while it meets no run for another   *)
(* ARN, nobody maps a valid one but its own.                               *)

DbStates ==
    [tables : SUBSET DOMAIN Tables, role : BOOLEAN, grants : SUBSET DOMAIN Tables,
     mapped : SUBSET Arns]

MigrationTypes ==
    /\ db \in DbStates
    /\ job = [s \in Sessions |-> job[s]]
    /\ \A m \in Migrations : job[m] \in {Idle} \cup Ended \cup MigrationJobs
    /\ \A x \in Extractors : job[x] \in {Idle} \cup ExtractorJobs
    /\ ready \subseteq ValidArns
    /\ alone = [m \in Migrations |-> alone[m]]

Progress(j, d) ==
    /\ IF j.pc = "ddl" THEN j.i = 2 => 1 \in d.tables ELSE d.tables = {1, 2}
    /\ j.pc \in {"grant", "selectMapping", "iamGrant", "iamRevoke"} => d.role
    /\ j.pc \in {"selectMapping", "iamGrant", "iamRevoke"} => j.i \in d.grants
    /\ j.pc # "ddl" /\ j.i = 2 => d.role /\ 1 \in d.grants

StaleSound(j) ==
    j.stale \subseteq ValidArns \ {j.arn} /\ (j.pc = "iamRevoke" => j.stale # {})

Seen(j, d) ==
    /\ j.pc \in {"iamGrant", "iamRevoke"} => d.mapped \cap ValidArns \subseteq {j.arn} \cup j.stale
    /\ j.pc = "iamRevoke" => j.arn \in d.mapped

ExactIn(arn, d) ==
    /\ d.tables = {1, 2} /\ d.role /\ d.grants = {1, 2}
    /\ d.mapped \cap ValidArns = {arn}

Steady ==
    \A m \in Migrations : job[m] \in MigrationJobs => Progress(job[m], db) /\ StaleSound(job[m])

AloneSees ==
    \A m \in Migrations : alone[m] /\ job[m] \in MigrationJobs =>
        /\ Seen(job[m], db)
        /\ \A n \in Migrations : job[n] \in MigrationJobs => job[n].arn = job[m].arn

ReadyHolds ==
    \A arn \in ready :
        /\ ExactIn(arn, db)
        /\ \A n \in Migrations : job[n] \in MigrationJobs => job[n].arn = arn

MigrationInv == MigrationTypes /\ Steady /\ AloneSees /\ ReadyHolds

LEMMA TwoTables == DOMAIN Tables = {1, 2} /\ Len(Tables) = 2
    BY DEF Tables

LEMMA JobKinds ==
    /\ \A j \in MigrationJobs : j # Idle /\ j \notin Ended /\ j \notin ExtractorJobs
    /\ Idle \notin Ended /\ \A j \in Ended : j \notin MigrationJobs /\ j \notin ExtractorJobs
    /\ Idle \notin MigrationJobs /\ Idle \notin ExtractorJobs
    BY DEF MigrationJobs, MigrationPcs, ExtractorJobs, Idle, Ended

\* Each statement leaves what other runs rely on.
LEMMA Moves ==
    ASSUME db \in DbStates, NEW j \in MigrationJobs, StaleSound(j), NEW k \in MigrationJobs
    PROVE  /\ Applied(j) \in DbStates
           /\ Progress(k, db) => Progress(k, Applied(j))
           /\ k.arn = j.arn /\ StaleSound(k) /\ Seen(k, db) => Seen(k, Applied(j))
           /\ ExactIn(j.arn, db) => ExactIn(j.arn, Applied(j))
<1> DEFINE d == Applied(j)
<1>1. j.pc \in MigrationPcs /\ j.i \in {1, 2} /\ j.arn \in ValidArns /\ j.arn \in Arns
    BY TwoTables, ArnsAssumption DEF MigrationJobs
<1>2. j.pc = "iamRevoke" => NextStale(j) \in j.stale /\ NextStale(j) # j.arn
    BY DEF NextStale, StaleSound
<1>3. /\ d \in DbStates
      /\ db.tables \subseteq d.tables /\ d.tables \subseteq {1, 2}
      /\ db.role => d.role
      /\ db.grants \subseteq d.grants /\ d.grants \subseteq {1, 2}
      /\ \/ d.mapped = db.mapped
         \/ d.mapped = db.mapped \cup {j.arn}
         \/ j.pc = "iamRevoke" /\ d.mapped = db.mapped \ {NextStale(j)}
    <2>1. CASE j.pc = "ddl"
        BY <1>1, <2>1, TwoTables DEF Applied, DbStates
    <2>2. CASE j.pc = "createRole"
        BY <1>1, <2>2, TwoTables DEF Applied, DbStates
    <2>3. CASE j.pc = "grant"
        BY <1>1, <2>3, TwoTables DEF Applied, DbStates
    <2>4. CASE j.pc = "iamGrant"
        BY <1>1, <2>4, TwoTables DEF Applied, DbStates
    <2>5. CASE j.pc = "iamRevoke"
        BY <1>1, <2>5, TwoTables DEF Applied, DbStates
    <2>6. CASE j.pc \in {"selectRole", "selectMapping"}
        BY <1>1, <2>6, TwoTables DEF Applied, DbStates
    <2>7. QED
        BY <1>1, <2>1, <2>2, <2>3, <2>4, <2>5, <2>6 DEF MigrationPcs
<1> HIDE DEF d
<1>4. Progress(k, db) => Progress(k, d)
    BY <1>3 DEF Progress
<1>5. k.arn = j.arn /\ StaleSound(k) /\ Seen(k, db) => Seen(k, d)
    BY <1>2, <1>3 DEF Seen
<1>6. ExactIn(j.arn, db) => ExactIn(j.arn, d)
    BY <1>1, <1>2, <1>3 DEF ExactIn
<1>7. QED
    BY <1>3, <1>4, <1>5, <1>6 DEF d

\* A run that has revoked for a table goes on with the next, or is complete.
LEMMA RevokingGoesOn ==
    ASSUME NEW j \in MigrationJobs, NEW d \in DbStates,
           j.pc \in {"selectMapping", "iamGrant", "iamRevoke"}, Progress(j, d),
           j.stale \subseteq ValidArns \ {j.arn}
    PROVE  LET next == Revoking(j)
               sees == d.mapped \cap ValidArns \subseteq {j.arn} \cup j.stale /\ j.arn \in d.mapped
           IN  \/ /\ next \in MigrationJobs /\ next.arn = j.arn /\ Progress(next, d)
                  /\ StaleSound(next) /\ (sees => Seen(next, d))
               \/ next = [pc |-> "done"] /\ (sees => ExactIn(j.arn, d))
<1> DEFINE sees == d.mapped \cap ValidArns \subseteq {j.arn} \cup j.stale /\ j.arn \in d.mapped
<1>1. /\ j.i \in {1, 2} /\ j.arn \in ValidArns /\ j.arn \in Arns
      /\ d.tables = {1, 2} /\ d.role /\ j.i \in d.grants /\ (j.i = 2 => 1 \in d.grants)
      /\ d.grants \subseteq {1, 2}
    BY TwoTables, ArnsAssumption DEF MigrationJobs, Progress, DbStates
<1>2. CASE j.stale # {}
    <2> DEFINE next == [j EXCEPT !.pc = "iamRevoke"]
    <2>1. /\ Revoking(j) = next /\ next \in MigrationJobs /\ next.pc = "iamRevoke"
          /\ next.arn = j.arn /\ next.stale = j.stale /\ next.i = j.i
        BY <1>2 DEF Revoking, MigrationJobs, MigrationPcs
    <2> HIDE DEF next
    <2>2. Progress(next, d) /\ StaleSound(next) /\ (sees => Seen(next, d))
        BY <1>1, <1>2, <2>1 DEF Progress, StaleSound, Seen
    <2>3. QED
        BY <2>1, <2>2
<1>3. CASE j.stale = {} /\ j.i = 1
    <2> DEFINE next == [j EXCEPT !.pc = "selectRole", !.i = @ + 1, !.stale = {}]
    <2>1. Revoking(j) = NextTable(j) /\ j.i < Len(Tables) /\ j.i + 1 = 2
        BY <1>3, TwoTables DEF Revoking
    <2>2. /\ next \in MigrationJobs /\ next.pc = "selectRole"
          /\ next.arn = j.arn /\ next.stale = {} /\ next.i = 2
        BY <1>3, <2>1, TwoTables DEF MigrationJobs, MigrationPcs
    <2>3. Revoking(j) = next
        BY <2>1 DEF NextTable
    <2> HIDE DEF next
    <2>4. Progress(next, d) /\ StaleSound(next) /\ Seen(next, d)
        BY <1>1, <1>3, <2>2 DEF Progress, StaleSound, Seen
    <2>5. QED
        BY <2>2, <2>3, <2>4
<1>4. CASE j.stale = {} /\ j.i = 2
    <2>1. Revoking(j) = [pc |-> "done"]
        BY <1>4, TwoTables DEF Revoking, NextTable
    <2>2. sees => ExactIn(j.arn, d)
        BY <1>1, <1>4 DEF ExactIn
    <2>3. QED
        BY <2>1, <2>2
<1>5. QED
    BY <1>1, <1>2, <1>3, <1>4

\* What a run's next statement finds: the promise is kept when there is none.
GoesOn(j, next, d) ==
    \/ /\ next \in MigrationJobs /\ next.arn = j.arn /\ Progress(next, d) /\ StaleSound(next)
       /\ Seen(j, db) => Seen(next, d)
    \/ next = [pc |-> "done"] /\ (Seen(j, db) => ExactIn(j.arn, d))

LEMMA Advances ==
    ASSUME db \in DbStates, NEW j \in MigrationJobs, MayApply(j), Progress(j, db), StaleSound(j)
    PROVE  GoesOn(j, After(j), Applied(j))
<1> DEFINE d == Applied(j)
<1>1. /\ j.pc \in MigrationPcs /\ j.i \in {1, 2} /\ j.arn \in ValidArns /\ j.arn \in Arns
      /\ d \in DbStates
    BY TwoTables, ArnsAssumption, Moves DEF MigrationJobs
<1>2. CASE j.pc = "ddl" /\ j.i = 1
    <2> DEFINE next == [j EXCEPT !.i = @ + 1]
    <2>1. After(j) = next
        BY <1>2, TwoTables DEF After
    <2>2. d = [db EXCEPT !.tables = @ \cup {1}]
        BY <1>2 DEF Applied
    <2>3. j.i + 1 = 2
        BY <1>2
    <2>4. /\ next \in MigrationJobs /\ next.pc = "ddl" /\ next.arn = j.arn /\ next.i = 2
          /\ next.stale = j.stale
        BY <1>2, <2>3, TwoTables DEF MigrationJobs
    <2>5. 1 \in d.tables
        BY <2>2 DEF DbStates
    <2> HIDE DEF next, d
    <2>6. Progress(next, d) /\ StaleSound(next) /\ Seen(next, d)
        BY <1>2, <2>4, <2>5 DEF Progress, StaleSound, Seen
    <2>7. QED
        BY <2>1, <2>4, <2>6 DEF GoesOn, d
<1>3. CASE j.pc = "ddl" /\ j.i = 2
    <2> DEFINE next == [j EXCEPT !.pc = "selectRole", !.i = 1]
    <2>1. After(j) = next
        BY <1>3, TwoTables DEF After
    <2>2. d = [db EXCEPT !.tables = @ \cup {2}]
        BY <1>3 DEF Applied
    <2>3. /\ next \in MigrationJobs /\ next.pc = "selectRole" /\ next.arn = j.arn /\ next.i = 1
          /\ next.stale = j.stale
        BY <1>3, TwoTables DEF MigrationJobs, MigrationPcs
    <2>4. d.tables = {1, 2}
        BY <1>3, <2>2, TwoTables DEF DbStates, Progress
    <2> HIDE DEF next, d
    <2>5. Progress(next, d) /\ StaleSound(next) /\ Seen(next, d)
        BY <1>3, <2>3, <2>4 DEF Progress, StaleSound, Seen
    <2>6. QED
        BY <2>1, <2>3, <2>5 DEF GoesOn, d
<1>4. CASE j.pc = "selectRole"
    <2> DEFINE next == [j EXCEPT !.pc = IF db.role THEN "grant" ELSE "createRole"]
    <2>1. After(j) = next /\ d = db
        BY <1>4 DEF After, ensureRole, Applied
    <2>2. /\ next \in MigrationJobs /\ next.pc \in {"grant", "createRole"} /\ next.arn = j.arn
          /\ next.i = j.i /\ next.stale = j.stale
          /\ next.pc = "grant" => db.role
        BY DEF MigrationJobs, MigrationPcs
    <2> HIDE DEF next, d
    <2>3. Progress(next, d) /\ StaleSound(next) /\ Seen(next, d)
        BY <1>4, <2>1, <2>2 DEF Progress, StaleSound, Seen
    <2>4. QED
        BY <2>1, <2>2, <2>3 DEF GoesOn, d
<1>5. CASE j.pc = "createRole"
    <2> DEFINE next == [j EXCEPT !.pc = "grant"]
    <2>1. After(j) = next /\ d = [db EXCEPT !.role = TRUE]
        BY <1>5 DEF After, Applied
    <2>2. /\ next \in MigrationJobs /\ next.pc = "grant" /\ next.arn = j.arn
          /\ next.i = j.i /\ next.stale = j.stale
        BY DEF MigrationJobs, MigrationPcs
    <2>3. d.role /\ d.tables = db.tables /\ d.grants = db.grants
        BY <2>1 DEF DbStates
    <2> HIDE DEF next, d
    <2>4. Progress(next, d) /\ StaleSound(next) /\ Seen(next, d)
        BY <1>5, <2>2, <2>3 DEF Progress, StaleSound, Seen
    <2>5. QED
        BY <2>1, <2>2, <2>4 DEF GoesOn, d
<1>6. CASE j.pc = "grant"
    <2> DEFINE next == [j EXCEPT !.pc = "selectMapping"]
    <2>1. After(j) = next /\ d = [db EXCEPT !.grants = @ \cup {j.i}]
        BY <1>6 DEF After, Applied
    <2>2. /\ next \in MigrationJobs /\ next.pc = "selectMapping" /\ next.arn = j.arn
          /\ next.i = j.i /\ next.stale = j.stale
        BY DEF MigrationJobs, MigrationPcs
    <2>3. d.role = db.role /\ d.tables = db.tables /\ d.grants = db.grants \cup {j.i}
        BY <2>1 DEF DbStates
    <2> HIDE DEF next, d
    <2>4. Progress(next, d) /\ StaleSound(next) /\ Seen(next, d)
        BY <1>6, <2>2, <2>3 DEF Progress, StaleSound, Seen
    <2>5. QED
        BY <2>1, <2>2, <2>4 DEF GoesOn, d
<1>7. CASE j.pc = "selectMapping"
    <2> DEFINE seen == [j EXCEPT !.stale = (db.mapped \ {j.arn}) \cap ValidArns]
    <2>1. After(j) = IF j.arn \in db.mapped THEN Revoking(seen) ELSE [seen EXCEPT !.pc = "iamGrant"]
        BY <1>7 DEF After
    <2>2. d = db
        BY <1>7 DEF Applied
    <2>3. /\ seen \in MigrationJobs /\ seen.pc = "selectMapping" /\ seen.arn = j.arn /\ seen.i = j.i
          /\ seen.stale = (db.mapped \ {j.arn}) \cap ValidArns
        BY <1>7, ArnsAssumption DEF MigrationJobs
    <2> HIDE DEF seen, d
    <2>4. /\ seen.stale \subseteq ValidArns \ {seen.arn} /\ Progress(seen, d)
          /\ d.mapped \cap ValidArns \subseteq {seen.arn} \cup seen.stale
        BY <1>7, <2>2, <2>3 DEF Progress
    <2>5. CASE j.arn \in db.mapped
        <3>1. GoesOn(j, Revoking(seen), d)
            BY <1>1, <2>2, <2>3, <2>4, <2>5, RevokingGoesOn DEF GoesOn
        <3>2. QED
            BY <2>1, <2>5, <3>1 DEF d
    <2>6. CASE j.arn \notin db.mapped
        <3> DEFINE next == [seen EXCEPT !.pc = "iamGrant"]
        <3>1. /\ next \in MigrationJobs /\ next.pc = "iamGrant" /\ next.arn = j.arn /\ next.i = j.i
              /\ next.stale = seen.stale
            BY <2>3 DEF MigrationJobs, MigrationPcs
        <3>2. After(j) = next
            BY <2>1, <2>6
        <3> HIDE DEF next
        <3>3. Progress(next, d) /\ StaleSound(next) /\ Seen(next, d)
            BY <1>7, <2>2, <2>3, <2>4, <3>1 DEF Progress, StaleSound, Seen
        <3>4. QED
            BY <3>1, <3>2, <3>3 DEF GoesOn, d
    <2>7. QED
        BY <2>5, <2>6
<1>8. CASE j.pc = "iamGrant"
    <2>1. After(j) = Revoking(j) /\ d = [db EXCEPT !.mapped = @ \cup {j.arn}]
        BY <1>8 DEF After, Applied
    <2>2. d.mapped = db.mapped \cup {j.arn} /\ Progress(j, d)
        BY <2>1, Moves DEF DbStates
    <2> HIDE DEF d
    <2>3. Seen(j, db) => d.mapped \cap ValidArns \subseteq {j.arn} \cup j.stale /\ j.arn \in d.mapped
        BY <1>8, <2>2 DEF Seen
    <2>4. GoesOn(j, Revoking(j), d)
        BY <1>1, <1>8, <2>2, <2>3, RevokingGoesOn DEF GoesOn, StaleSound
    <2>5. QED
        BY <2>1, <2>4 DEF d
<1>9. CASE j.pc = "iamRevoke"
    <2> DEFINE a == NextStale(j)
               left == [j EXCEPT !.stale = @ \ {a}]
    <2>1. After(j) = Revoking(left) /\ d = [db EXCEPT !.mapped = @ \ {a}]
        BY <1>9 DEF After, Applied
    <2>2. a \in j.stale /\ a # j.arn
        BY <1>9 DEF NextStale, StaleSound
    <2>3. d.mapped = db.mapped \ {a} /\ Progress(j, d)
        BY <2>1, Moves DEF DbStates
    <2> HIDE DEF a, d
    <2>4. /\ left \in MigrationJobs /\ left.pc = "iamRevoke" /\ left.arn = j.arn /\ left.i = j.i
          /\ left.stale = j.stale \ {a}
        BY <1>9 DEF MigrationJobs
    <2> HIDE DEF left
    <2>5. Progress(left, d) /\ left.stale \subseteq ValidArns \ {left.arn}
        BY <1>9, <2>3, <2>4 DEF Progress, StaleSound
    <2>6. Seen(j, db) =>
            d.mapped \cap ValidArns \subseteq {left.arn} \cup left.stale /\ left.arn \in d.mapped
        BY <1>9, <2>2, <2>3, <2>4 DEF Seen
    <2>7. GoesOn(j, Revoking(left), d)
        BY <1>1, <2>4, <2>5, <2>6, RevokingGoesOn DEF GoesOn
    <2>8. QED
        BY <2>1, <2>7 DEF d, left, a
<1>10. QED
    BY <1>1, <1>2, <1>3, <1>4, <1>5, <1>6, <1>7, <1>8, <1>9 DEF MigrationPcs

-----------------------------------------------------------------------------
(* The steps of MigrationNext fall into a few for the cluster and the jobs. *)

LEMMA MigrationInitially == MigrationInit => MigrationInv
<1> SUFFICES ASSUME MigrationInit PROVE MigrationInv
    OBVIOUS
<1> USE DEF MigrationInit
<1>1. MigrationTypes
    BY ArnsAssumption DEF MigrationTypes, DbStates, Sessions
<1>2. \A m \in Migrations : job[m] \notin MigrationJobs
    BY JobKinds DEF Sessions
<1>3. QED
    BY <1>1, <1>2 DEF MigrationInv, Steady, AloneSees, ReadyHolds

\* A job that ends or begins without the cluster.
LEMMA JobOnly ==
    ASSUME MigrationInv, UNCHANGED <<db, ready, alone>>, NEW s \in Sessions, NEW next,
           job' = [job EXCEPT ![s] = next], next \notin MigrationJobs,
           s \in Migrations => next \in Ended, s \in Extractors => next \in {Idle} \cup ExtractorJobs
    PROVE  MigrationInv'
<1> USE DEF MigrationInv
<1>1. job'[s] = next /\ \A t \in Sessions \ {s} : job'[t] = job[t]
    BY DEF MigrationTypes
<1>2. MigrationTypes'
    BY <1>1 DEF MigrationTypes, Sessions
<1>3. \A m \in Migrations : job'[m] \in MigrationJobs => job'[m] = job[m]
    BY <1>1 DEF Sessions
<1>4. Steady'
    BY <1>3 DEF Steady
<1>5. AloneSees'
    BY <1>3 DEF AloneSees
<1>6. ReadyHolds'
    BY <1>3 DEF ReadyHolds
<1>7. QED
    BY <1>2, <1>4, <1>5, <1>6

LEMMA MigrationUnchanged ==
    ASSUME MigrationInv, UNCHANGED <<db, ready, alone, job>>
    PROVE  MigrationInv'
    BY DEF MigrationInv, MigrationTypes, Steady, AloneSees, ReadyHolds

LEMMA ThrowsMigration ==
    ASSUME MigrationInv, UNCHANGED <<db, ready, alone>>, NEW s \in Sessions, Throws(s)
    PROVE  MigrationInv'
<1>1. CASE s \in Migrations
    <2>1. job' = [job EXCEPT ![s] = [pc |-> "failed"]] /\ s \notin Extractors
        BY <1>1, SessionsAssumption DEF Throws, Ends
    <2>2. [pc |-> "failed"] \in Ended
        BY DEF Ended
    <2>3. QED
        BY <1>1, <2>1, <2>2, JobKinds, JobOnly
<1>2. CASE s \notin Migrations
    <2>1. job' = [job EXCEPT ![s] = Idle]
        BY <1>2 DEF Throws, Ends
    <2>2. QED
        BY <1>2, <2>1, JobKinds, JobOnly
<1>3. QED
    BY <1>1, <1>2

LEMMA TimesOutMigration ==
    ASSUME MigrationInv, NEW m \in Migrations, TimesOut(m)
    PROVE  MigrationInv'
<1>1. /\ m \in Sessions /\ m \notin Extractors /\ UNCHANGED <<db, ready, alone>>
      /\ job' = [job EXCEPT ![m] = [pc |-> "failed"]]
    BY SessionsAssumption DEF TimesOut, Ends, Sessions, dbVars
<1>2. [pc |-> "failed"] \in Ended
    BY DEF Ended
<1>3. QED
    BY <1>1, <1>2, JobKinds, JobOnly

LEMMA UseMigration ==
    ASSUME MigrationInv, NEW x \in Extractors, NEW t \in DOMAIN Tables, Use(x, t)
    PROVE  MigrationInv'
<1>1. /\ x \in Sessions /\ x \notin Migrations /\ UNCHANGED <<db, ready, alone>>
      /\ job' = [job EXCEPT ![x] = [pc |-> "use", table |-> t]]
    BY SessionsAssumption DEF Use, Sessions, dbVars
<1>2. [pc |-> "use", table |-> t] \in ExtractorJobs
    BY DEF ExtractorJobs
<1>3. QED
    BY <1>1, <1>2, JobKinds, JobOnly

\* The runs under way are those with a job.
LEMMA ActiveJobs ==
    ASSUME MigrationTypes, NEW m \in Migrations
    PROVE  Active(m) <=> job[m] \in MigrationJobs
    BY JobKinds DEF MigrationTypes, Active

LEMMA StartMigrationKeeps ==
    ASSUME MigrationInv, NEW m \in Migrations, NEW arn \in Arns, StartMigration(m, arn)
    PROVE  MigrationInv'
<1> USE DEF MigrationInv
<1>1. m \in Sessions /\ m \notin Extractors /\ job[m] = Idle /\ UNCHANGED db
    BY SessionsAssumption DEF StartMigration, Sessions
<1>2. CASE arn \notin ValidArns
    <2>1. job' = [job EXCEPT ![m] = [pc |-> "failed"]] /\ UNCHANGED <<ready, alone>>
        BY <1>2 DEF StartMigration
    <2>2. [pc |-> "failed"] \in Ended
        BY DEF Ended
    <2>3. QED
        BY <1>1, <2>1, <2>2, JobKinds, JobOnly
<1>3. CASE arn \in ValidArns
    <2> DEFINE j == [pc |-> "ddl", i |-> 1, arn |-> arn, stale |-> {}]
    <2>1. /\ job' = [job EXCEPT ![m] = j] /\ ready' = ready \cap {arn}
          /\ alone' = [n \in Migrations |-> IF n = m THEN Others(m, arn) = {}
                                           ELSE alone[n] /\ n \notin Others(m, arn)]
        BY <1>3 DEF StartMigration
    <2>2. j \in MigrationJobs /\ j.pc = "ddl" /\ j.i = 1 /\ j.arn = arn /\ j.stale = {}
        BY <1>3, TwoTables DEF MigrationJobs, MigrationPcs
    <2> HIDE DEF j
    <2>3. job'[m] = j /\ \A s \in Sessions \ {m} : job'[s] = job[s]
        BY <1>1, <2>1 DEF MigrationTypes
    <2>4. MigrationTypes'
        BY <1>1, <2>1, <2>2, <2>3 DEF MigrationTypes, Sessions
    <2>5. Progress(j, db) /\ StaleSound(j) /\ Seen(j, db)
        BY <2>2 DEF Progress, StaleSound, Seen
    <2>6. Steady'
        BY <1>1, <2>3, <2>5 DEF Steady, Sessions
    <2>7. \A n \in Migrations \ {m} : job[n] \in MigrationJobs =>
                (n \in Others(m, arn) <=> job[n].arn # arn)
        BY ActiveJobs DEF Others
    <2>8. alone'[m] => \A n \in Migrations : job'[n] \in MigrationJobs => job'[n].arn = arn
        BY <2>1, <2>2, <2>3, <2>7 DEF Sessions
    <2>9. \A n \in Migrations \ {m} : alone'[n] =>
                alone[n] /\ (job[n] \in MigrationJobs => job[n].arn = arn)
        BY <2>1, <2>7
    <2>10. AloneSees'
        <3> SUFFICES ASSUME NEW n \in Migrations, alone'[n], job'[n] \in MigrationJobs
                     PROVE  /\ Seen(job'[n], db)
                            /\ \A k \in Migrations : job'[k] \in MigrationJobs => job'[k].arn = job'[n].arn
            BY <1>1 DEF AloneSees
        <3>1. CASE n = m
            BY <2>2, <2>3, <2>5, <2>8, <3>1
        <3>2. CASE n # m
            BY <2>2, <2>3, <2>9, <3>2 DEF AloneSees, Sessions
        <3>3. QED
            BY <3>1, <3>2
    <2>11. ReadyHolds'
        BY <1>1, <2>1, <2>2, <2>3 DEF ReadyHolds, Sessions
    <2>12. QED
        BY <2>4, <2>6, <2>10, <2>11
<1>4. QED
    BY <1>2, <1>3

\* A run's statement has taken effect, whether or not it is answered.
LEMMA ClusterMoves ==
    ASSUME MigrationInv, NEW m \in Migrations, job[m] \in MigrationJobs, db' = Applied(job[m])
    PROVE  /\ db' \in DbStates
           /\ \A n \in Migrations : job[n] \in MigrationJobs =>
                /\ Progress(job[n], db') /\ StaleSound(job[n])
                /\ alone[n] => Seen(job[n], db')
           /\ \A arn \in ready : ExactIn(arn, db')
<1> USE DEF MigrationInv
<1>1. db \in DbStates /\ StaleSound(job[m])
    BY DEF MigrationTypes, Steady
<1>2. db' \in DbStates
    BY <1>1, Moves
<1>3. ASSUME NEW n \in Migrations, job[n] \in MigrationJobs
      PROVE  /\ Progress(job[n], db') /\ StaleSound(job[n])
             /\ alone[n] => Seen(job[n], db')
    <2>1. Progress(job[n], db) /\ StaleSound(job[n])
        BY <1>3 DEF Steady
    <2>2. alone[n] => Seen(job[n], db) /\ job[m].arn = job[n].arn
        BY <1>3 DEF AloneSees
    <2>3. QED
        BY <1>1, <1>3, <2>1, <2>2, Moves
<1>4. ASSUME NEW arn \in ready PROVE ExactIn(arn, db')
    <2>1. ExactIn(arn, db) /\ job[m].arn = arn
        BY DEF ReadyHolds
    <2>2. QED
        BY <1>1, <2>1, Moves
<1>5. QED
    BY <1>2, <1>3, <1>4

LEMMA ExecutesMigration ==
    ASSUME MigrationInv, NEW s \in Sessions, Executes(s), Working(s)
    PROVE  MigrationInv'
<1> USE DEF MigrationInv
<1>1. UNCHANGED <<job, ready, alone>> /\ db' = Applied(job[s])
    BY DEF Executes
<1>2. CASE s \in Migrations
    <2>1. job[s] \in MigrationJobs
        BY <1>2 DEF MigrationTypes, Working
    <2>2. MigrationTypes'
        BY <1>1, <1>2, <2>1, ClusterMoves DEF MigrationTypes
    <2>3. Steady'
        BY <1>1, <1>2, <2>1, ClusterMoves DEF Steady
    <2>4. AloneSees'
        BY <1>1, <1>2, <2>1, ClusterMoves DEF AloneSees
    <2>5. ReadyHolds'
        BY <1>1, <1>2, <2>1, ClusterMoves DEF ReadyHolds
    <2>6. QED
        BY <2>2, <2>3, <2>4, <2>5
<1>3. CASE s \in Extractors
    <2>1. job[s] \in ExtractorJobs
        BY <1>3 DEF MigrationTypes, Working
    <2>2. db' = db
        BY <1>1, <2>1 DEF ExtractorJobs, Applied
    <2>3. QED
        BY <1>1, <2>2, MigrationUnchanged
<1>4. QED
    BY <1>2, <1>3 DEF Sessions

LEMMA SucceedsMigration ==
    ASSUME MigrationInv, NEW s \in Sessions, Succeeds(s), Working(s)
    PROVE  MigrationInv'
<1> USE DEF MigrationInv
<1>1. /\ db' = Applied(job[s]) /\ job' = [job EXCEPT ![s] = After(job[s])] /\ alone' = alone
      /\ MayApply(job[s])
    BY DEF Succeeds, Ends
<1> DEFINE next == After(job[s])
<1>2. job'[s] = next /\ \A t \in Sessions \ {s} : job'[t] = job[t]
    BY <1>1 DEF MigrationTypes
<1>3. CASE s \in Extractors
    <2>1. job[s] \in ExtractorJobs
        BY <1>3 DEF MigrationTypes, Working
    <2>2. db' = db /\ next = Idle /\ s \notin Migrations
        BY <1>1, <1>3, <2>1, SessionsAssumption DEF ExtractorJobs, Applied, After
    <2>3. ready' = ready
        BY <1>2, <2>2 DEF Succeeds, Idle
    <2>4. QED
        BY <1>1, <1>3, <2>2, <2>3, JobKinds, JobOnly
<1>4. CASE s \in Migrations
    <2>1. job[s] \in MigrationJobs /\ s \notin Extractors
        BY <1>4, SessionsAssumption DEF MigrationTypes, Working
    <2>2. GoesOn(job[s], next, db')
        BY <1>1, <1>4, <2>1, Advances DEF MigrationTypes, Steady
    <2> HIDE DEF next
    <2>3. \/ /\ next \in MigrationJobs /\ next.arn = job[s].arn /\ Progress(next, db') /\ StaleSound(next)
             /\ Seen(job[s], db) => Seen(next, db')
             /\ ready' = ready
          \/ /\ next = [pc |-> "done"] /\ next \in Ended /\ next \notin MigrationJobs
             /\ Seen(job[s], db) => ExactIn(job[s].arn, db')
             /\ ready' = IF alone[s] THEN {job[s].arn} ELSE ready
        <3>1. CASE next = [pc |-> "done"]
            <4>1. next.pc = "done" /\ next \in Ended
                BY <3>1 DEF Ended
            <4>2. ready' = IF alone[s] THEN {job[s].arn} ELSE ready
                BY <1>2, <4>1 DEF Succeeds
            <4>3. QED
                BY <2>2, <3>1, <4>1, <4>2, JobKinds DEF GoesOn
        <3>2. CASE next # [pc |-> "done"]
            <4>1. next \in MigrationJobs
                BY <2>2, <3>2 DEF GoesOn
            <4>2. next.pc # "done"
                BY <4>1 DEF MigrationJobs, MigrationPcs
            <4>3. ready' = ready
                BY <1>2, <4>2 DEF Succeeds
            <4>4. QED
                BY <2>2, <3>2, <4>1, <4>3 DEF GoesOn
        <3>3. QED
            BY <3>1, <3>2
    <2>4. job[s].arn \in ValidArns
        BY <2>1 DEF MigrationJobs
    <2>5. MigrationTypes'
        <3>1. db' \in DbStates
            BY <1>1, <1>4, <2>1, ClusterMoves
        <3>2. ready' \subseteq ValidArns
            BY <2>3, <2>4 DEF MigrationTypes
        <3>3. QED
            BY <1>1, <1>2, <1>4, <2>1, <2>3, <3>1, <3>2 DEF MigrationTypes, Sessions
    <2>6. Steady'
        BY <1>1, <1>2, <1>4, <2>1, <2>3, ClusterMoves DEF Steady, Sessions
    <2>7. \A n \in Migrations : job'[n] \in MigrationJobs =>
                job[n] \in MigrationJobs /\ job'[n].arn = job[n].arn
        BY <1>2, <2>1, <2>3 DEF Sessions
    <2>8. AloneSees'
        <3> SUFFICES ASSUME NEW n \in Migrations, alone[n], job'[n] \in MigrationJobs
                     PROVE  /\ Seen(job'[n], db')
                            /\ \A k \in Migrations : job'[k] \in MigrationJobs => job'[k].arn = job'[n].arn
            BY <1>1 DEF AloneSees
        <3>1. \A k \in Migrations : job'[k] \in MigrationJobs => job'[k].arn = job'[n].arn
            BY <2>7 DEF AloneSees
        <3>2. CASE n = s
            <4>1. next \in MigrationJobs /\ job'[n] = next
                BY <1>2, <3>2
            <4>2. Seen(job[s], db)
                BY <1>4, <2>1, <3>2 DEF AloneSees
            <4>3. Seen(next, db')
                BY <2>3, <4>1, <4>2
            <4>4. QED
                BY <3>1, <4>1, <4>3
        <3>3. CASE n # s
            <4>1. job'[n] = job[n]
                BY <1>2, <3>3 DEF Sessions
            <4>2. Seen(job[n], db')
                BY <1>1, <1>4, <2>1, <4>1, ClusterMoves
            <4>3. QED
                BY <3>1, <4>1, <4>2
        <3>4. QED
            BY <3>1, <3>2, <3>3
    <2>9. ReadyHolds'
        <3> SUFFICES ASSUME NEW arn \in ready'
                     PROVE  /\ ExactIn(arn, db')
                            /\ \A n \in Migrations : job'[n] \in MigrationJobs => job'[n].arn = arn
            BY DEF ReadyHolds
        <3>1. CASE arn \in ready
            BY <1>1, <1>4, <2>1, <2>7, <3>1, ClusterMoves DEF ReadyHolds
        <3>2. CASE arn \notin ready
            <4>1. alone[s] /\ arn = job[s].arn /\ (Seen(job[s], db) => ExactIn(job[s].arn, db'))
                BY <2>3, <3>2
            <4>2. Seen(job[s], db) /\ \A n \in Migrations : job[n] \in MigrationJobs => job[n].arn = arn
                BY <1>4, <2>1, <4>1 DEF AloneSees
            <4>3. QED
                BY <2>7, <4>1, <4>2
        <3>3. QED
            BY <3>1, <3>2
    <2>10. QED
        BY <2>5, <2>6, <2>8, <2>9
<1>5. QED
    BY <1>3, <1>4 DEF Sessions

LEMMA ConflictsMigration ==
    ASSUME MigrationInv, NEW s \in Sessions, Conflicts(s)
    PROVE  MigrationInv'
<1>1. UNCHANGED <<db, ready, alone>> /\ (UNCHANGED job \/ Throws(s))
    BY DEF Conflicts, dbVars
<1>2. QED
    BY <1>1, MigrationUnchanged, ThrowsMigration

LEMMA SessionMigration ==
    ASSUME MigrationInv, ConnectionInv, NEW s \in Sessions, SessionStep(s)
    PROVE  MigrationInv'
<1>1. CASE SendOnClient(s) \/ Connect(s)
    BY <1>1, MigrationUnchanged DEF SendOnClient, Connect, dbVars
<1>2. CASE ConnectThrows(s) \/ Refuses(s) \/ LostAnswer(s)
    BY <1>2, ThrowsMigration DEF ConnectThrows, Refuses, LostAnswer, dbVars
<1>3. CASE Succeeds(s)
    BY <1>3, AnswerableWorks, SucceedsMigration DEF Succeeds, Answerable
<1>4. CASE Executes(s)
    BY <1>4, AnswerableWorks, ExecutesMigration DEF Executes, Answerable
<1>5. CASE Conflicts(s)
    BY <1>5, ConflictsMigration
<1>6. CASE \E c \in DOMAIN clients[s] : ServerCloses(s, c) \/ ErrorEvent(s, c)
    BY <1>6, MigrationUnchanged DEF ServerCloses, ErrorEvent, dbVars
<1>7. QED
    BY <1>1, <1>2, <1>3, <1>4, <1>5, <1>6 DEF SessionStep

LEMMA MigrationStep ==
    ASSUME MigrationInv, ConnectionInv, [MigrationNext]_migrationVars
    PROVE  MigrationInv'
<1>1. CASE \E m \in Migrations : (\E arn \in Arns : StartMigration(m, arn)) \/ TimesOut(m)
    BY <1>1, StartMigrationKeeps, TimesOutMigration
<1>2. CASE \E x \in Extractors, t \in DOMAIN Tables : Use(x, t)
    BY <1>2, UseMigration
<1>3. CASE \E s \in Sessions : SessionStep(s)
    BY <1>3, SessionMigration
<1>4. CASE Tick \/ UNCHANGED migrationVars
    BY <1>4, MigrationUnchanged DEF Tick, dbVars, migrationVars
<1>5. QED
    BY <1>1, <1>2, <1>3, <1>4 DEF MigrationNext

\* The migration's named parts hold in every reachable state.
THEOREM MigrationInvariance == MigrationSpec => []MigrationInv
<1>1. MigrationInit => MigrationInv
    BY MigrationInitially
<1>2. MigrationInv /\ ConnectionInv /\ [MigrationNext]_migrationVars => MigrationInv'
    BY MigrationStep
<1>3. QED
    BY <1>1, <1>2, ConnectionInvariance, PTL DEF MigrationSpec

\* What liveSchemaMigrationLambda leaves the extractor, however its runs fail,
\* overlap and are repeated.
THEOREM MigrationKeepsItsPromise == MigrationSpec => []MigrationHolds
<1>1. MigrationInv => MigrationHolds
    <2> SUFFICES ASSUME MigrationInv PROVE MigrationHolds
        OBVIOUS
    <2>1. \A arn \in ready : Exact(arn)
        BY TwoTables DEF MigrationInv, ReadyHolds, ExactIn, Exact
    <2>2. ASSUME NEW m \in Migrations, Active(m), alone[m], job[m].pc = "iamRevoke"
          PROVE  job[m].arn \in db.mapped
        BY <2>2, ActiveJobs DEF MigrationInv, AloneSees, Seen
    <2>3. QED
        BY <2>1, <2>2 DEF MigrationHolds
<1>2. QED
    BY MigrationInvariance, <1>1, PTL

-----------------------------------------------------------------------------
(* The bounds of a connection.  An attempt that is not under way leaves    *)
(* one more.                                                               *)

Attempts(c) == c.attempt <= MAX_ATTEMPTS /\ (~c.sent => c.attempt < MAX_ATTEMPTS)

Bounded ==
    /\ \A s \in Sessions : Attempts(call[s]) /\ clients[s] \in Seq(0..clock)
    /\ clock \in 0..MaxTime /\ faults \in 0..MaxFaults /\ uses \in 0..MaxUses
    /\ alone \in [Migrations -> BOOLEAN]

LEMMA NoCallBounded == Attempts(NoCall)
    BY MigrationBounds DEF Attempts, NoCall

LEMMA BoundedInitially == MigrationInit => Bounded
<1> SUFFICES ASSUME MigrationInit PROVE Bounded
    OBVIOUS
<1>1. \A s \in Sessions : call[s] = NoCall /\ clients[s] = <<>>
    BY DEF MigrationInit
<1>2. \A s \in Sessions : clients[s] \in Seq(0..clock)
    <2>1. \A A : <<>> \in Seq(A)
        OBVIOUS
    <2>2. QED
        BY <1>1, <2>1
<1>3. /\ clock \in 0..MaxTime /\ faults \in 0..MaxFaults /\ uses \in 0..MaxUses
      /\ alone \in [Migrations -> BOOLEAN]
    BY MigrationBounds DEF MigrationInit
<1>4. QED
    BY <1>1, <1>2, <1>3, NoCallBounded DEF Bounded

LEMMA WiderSeq ==
    ASSUME NEW A, NEW B, A \subseteq B, NEW q \in Seq(A)
    PROVE  q \in Seq(B)
<1>1. Len(q) \in Nat /\ q \in [1..Len(q) -> B]
    OBVIOUS
<1>2. QED
    BY <1>1

\* What is left when one session's call and clients change.
LEMMA StillBounded ==
    ASSUME ConnectionInv, Bounded, NEW s \in Sessions, UNCHANGED <<clock, alone>>,
           UNCHANGED call \/ \E c : Attempts(c) /\ call' = [call EXCEPT ![s] = c],
           UNCHANGED clients \/ clients' = [clients EXCEPT ![s] = Append(@, clock)],
           UNCHANGED faults \/ (faults < MaxFaults /\ faults' = faults + 1),
           UNCHANGED uses \/ (uses < MaxUses /\ uses' = uses + 1)
    PROVE  Bounded'
<1>1. ASSUME NEW t \in Sessions PROVE Attempts(call'[t])
    <2>1. Attempts(call[t])
        BY DEF Bounded
    <2>2. CASE UNCHANGED call
        BY <2>1, <2>2
    <2>3. ASSUME NEW c, Attempts(c), call' = [call EXCEPT ![s] = c] PROVE Attempts(call'[t])
        BY <2>1, <2>3 DEF ConnectionInv, ConnectionTypes
    <2>4. QED
        BY <2>2, <2>3
<1>2. ASSUME NEW t \in Sessions PROVE clients'[t] \in Seq(0..clock)
    <2>1. clients[t] \in Seq(0..clock) /\ clock \in 0..clock
        BY MigrationBounds DEF Bounded
    <2>2. Append(clients[t], clock) \in Seq(0..clock)
        BY <2>1
    <2>3. clients'[t] = clients[t] \/ clients'[t] = Append(clients[t], clock)
        BY DEF ConnectionInv, ConnectionTypes
    <2>4. QED
        BY <2>1, <2>2, <2>3
<1>3. faults' \in 0..MaxFaults /\ uses' \in 0..MaxUses
    BY MigrationBounds DEF Bounded
<1>4. QED
    BY <1>1, <1>2, <1>3 DEF Bounded, Attempts

LEMMA EndsBounded ==
    ASSUME NEW s, NEW next, Ends(s, next)
    PROVE  \E c : Attempts(c) /\ call' = [call EXCEPT ![s] = c]
    BY NoCallBounded DEF Ends

LEMMA SentBounded ==
    ASSUME ConnectionInv, Bounded, NEW s \in Sessions, NEW on, ~call[s].sent, Sent(s, on)
    PROVE  \E c : Attempts(c) /\ call' = [call EXCEPT ![s] = c]
<1> DEFINE c == [attempt |-> call[s].attempt + 1, sent |-> TRUE, on |-> on, at |-> clock,
                 ran |-> call[s].ran]
<1>1. call' = [call EXCEPT ![s] = c]
    BY DEF Sent
<1>2. call[s].attempt < MAX_ATTEMPTS /\ call[s].attempt \in Nat
    BY Before DEF Bounded, Attempts, CallStates
<1>3. Attempts(c)
    BY <1>2, MigrationBounds DEF Attempts
<1>4. QED
    BY <1>1, <1>3

LEMMA SessionBounded ==
    ASSUME ConnectionInv, Bounded, NEW s \in Sessions, SessionStep(s)
    PROVE  Bounded'
<1>1. CASE SendOnClient(s)
    BY <1>1, SentBounded, StillBounded DEF SendOnClient, dbVars, connVars
<1>2. CASE Connect(s)
    BY <1>2, SentBounded, StillBounded DEF Connect, dbVars
<1>3. CASE ConnectThrows(s)
    BY <1>3, EndsBounded, StillBounded DEF ConnectThrows, Throws, dbVars
<1>4. CASE Succeeds(s)
    BY <1>4, EndsBounded, StillBounded DEF Succeeds
<1>5. CASE Refuses(s) \/ LostAnswer(s)
    BY <1>5, EndsBounded, StillBounded DEF Refuses, LostAnswer, Throws, dbVars
<1>6. CASE Conflicts(s)
    <2>1. UNCHANGED <<clock, alone, clients, uses>> /\ faults < MaxFaults /\ faults' = faults + 1
        BY <1>6 DEF Conflicts, dbVars
    <2>2. CASE Throws(s)
        BY <2>1, <2>2, EndsBounded, StillBounded DEF Throws
    <2>3. CASE call[s].attempt < MAX_ATTEMPTS /\ call' = [call EXCEPT ![s].sent = FALSE]
        <3> DEFINE c == [call[s] EXCEPT !.sent = FALSE]
        <3>1. Attempts(c)
            BY <2>3, Before, MigrationBounds DEF Attempts, CallStates
        <3>2. call' = [call EXCEPT ![s] = c]
            BY <2>3
        <3>3. QED
            BY <2>1, <3>1, <3>2, StillBounded
    <2>4. QED
        BY <1>6, <2>2, <2>3 DEF Conflicts
<1>7. CASE Executes(s)
    <2> DEFINE c == [call[s] EXCEPT !.ran = @ + 1]
    <2>1. Attempts(c)
        BY <1>7, Before DEF Bounded, Attempts, CallStates
    <2>2. call' = [call EXCEPT ![s] = c]
        BY <1>7 DEF Executes
    <2>3. UNCHANGED <<clock, alone, clients, uses>> /\ faults < MaxFaults /\ faults' = faults + 1
        BY <1>7 DEF Executes
    <2>4. QED
        BY <2>1, <2>2, <2>3, StillBounded
<1>8. CASE \E c \in DOMAIN clients[s] : ServerCloses(s, c) \/ ErrorEvent(s, c)
    <2>1. /\ UNCHANGED <<clock, alone, clients, uses, call>>
          /\ UNCHANGED faults \/ (faults < MaxFaults /\ faults' = faults + 1)
        BY <1>8 DEF ServerCloses, ErrorEvent, dbVars
    <2>2. QED
        BY <2>1, StillBounded
<1>9. QED
    BY <1>1, <1>2, <1>3, <1>4, <1>5, <1>6, <1>7, <1>8 DEF SessionStep

LEMMA BoundedKept ==
    ASSUME ConnectionInv, Bounded, [MigrationNext]_migrationVars
    PROVE  Bounded'
<1>1. ASSUME NEW m \in Migrations, NEW arn \in Arns, StartMigration(m, arn)
      PROVE  Bounded'
    <2>1. UNCHANGED <<call, clients, clock, faults, uses>>
        BY <1>1 DEF StartMigration, connVars
    <2>2. alone' \in [Migrations -> BOOLEAN]
        BY <1>1 DEF StartMigration, Bounded
    <2>3. QED
        BY <2>1, <2>2 DEF Bounded
<1>2. ASSUME NEW m \in Migrations, TimesOut(m) PROVE Bounded'
    BY <1>2, EndsBounded, StillBounded DEF TimesOut, Sessions, dbVars, connVars
<1>3. ASSUME NEW x \in Extractors, NEW t \in DOMAIN Tables, Use(x, t) PROVE Bounded'
    BY <1>3, StillBounded DEF Use, Sessions, dbVars, connVars
<1>4. CASE Tick
    <2>1. UNCHANGED <<call, clients, faults, uses, alone>> /\ clock < MaxTime /\ clock' = clock + 1
        BY <1>4 DEF Tick, dbVars, connVars
    <2>2. clock \in Nat /\ clock' \in 0..MaxTime
        BY <2>1, MigrationBounds DEF Bounded
    <2>3. 0..clock \subseteq 0..clock'
        BY <2>1, <2>2
    <2>4. ASSUME NEW s \in Sessions PROVE clients[s] \in Seq(0..clock')
        <3>1. clients[s] \in Seq(0..clock)
            BY DEF Bounded
        <3>2. QED
            BY <2>3, <3>1, WiderSeq
    <2>5. QED
        BY <2>1, <2>2, <2>4 DEF Bounded
<1>5. CASE UNCHANGED migrationVars
    BY <1>5 DEF migrationVars, Bounded
<1>6. QED
    BY <1>1, <1>2, <1>3, <1>4, <1>5, SessionBounded DEF MigrationNext

LEMMA MigrationIsTyped ==
    ASSUME ConnectionInv, MigrationInv, Bounded
    PROVE  MigrationTypeOK
<1>1. ASSUME NEW s \in Sessions
      PROVE  /\ call[s] \in [attempt : 0..MAX_ATTEMPTS, sent : BOOLEAN, on : Nat, at : Nat, ran : Nat]
             /\ clients[s] \in Seq(0..clock)
             /\ client[s] \in 0..Len(clients[s])
             /\ open[s] \cup pending[s] \subseteq DOMAIN clients[s]
    <2>1. call[s].attempt \in 0..MAX_ATTEMPTS
        BY Before, MigrationBounds DEF Bounded, Attempts, CallStates
    <2>2. call[s] \in [attempt : 0..MAX_ATTEMPTS, sent : BOOLEAN, on : Nat, at : Nat, ran : Nat]
        BY <2>1, Before DEF CallStates
    <2>3. DOMAIN clients[s] = 1..Len(clients[s])
        BY Before
    <2>4. QED
        BY <2>2, <2>3, Before DEF OneOpen, Bounded
<1>2. job \in [Sessions -> {Idle} \cup Ended \cup MigrationJobs \cup ExtractorJobs]
    BY DEF MigrationInv, MigrationTypes, Sessions
<1>3. QED
    BY <1>1, <1>2 DEF MigrationTypeOK, MigrationInv, MigrationTypes, DbStates, Bounded

\* The migration's variables keep their types: no connection's clients beyond
\* what it made, and no statement attempted more often than MAX_ATTEMPTS.
THEOREM MigrationHasTypes == MigrationSpec => []MigrationTypeOK
<1>1. MigrationInit => Bounded
    BY BoundedInitially
<1>2. ConnectionInv /\ Bounded /\ [MigrationNext]_migrationVars => Bounded'
    BY BoundedKept
<1>3. ConnectionInv /\ MigrationInv /\ Bounded => MigrationTypeOK
    BY MigrationIsTyped
<1>4. QED
    BY <1>1, <1>2, <1>3, ConnectionInvariance, MigrationInvariance, PTL DEF MigrationSpec

-----------------------------------------------------------------------------
(* The platform.                                                           *)

LEMMA LeavesSources ==
    ASSUME NEW name
    PROVE  Leaves(name) \subseteq Sources
    BY DEF Leaves, Sources

LEMMA InvokeTypes ==
    ASSUME PlatformTypeOK, NEW name, NEW consumed, Invoke(name, consumed),
           migrated' \in BOOLEAN
    PROVE  PlatformTypeOK'
<1>1. waiting' \subseteq Sources
    BY LeavesSources DEF Invoke, PlatformTypeOK
<1>2. \A d \in denied' : Len(d) = 2
    BY DEF Invoke, PlatformTypeOK
<1>3. QED
    BY <1>1, <1>2 DEF Invoke, PlatformTypeOK

LEMMA PlatformInitially == PlatformInit => PlatformTypeOK
    BY DEF PlatformInit, PlatformTypeOK

LEMMA PlatformKept ==
    ASSUME PlatformTypeOK, [PlatformNext]_platformVars
    PROVE  PlatformTypeOK'
<1>1. ASSUME NEW s \in stacks(environment), DeployStack(s) PROVE PlatformTypeOK'
    BY <1>1 DEF DeployStack, PlatformTypeOK
<1>2. ASSUME NEW name, ApiRequest(name) \/ DirectInvoke(name) PROVE PlatformTypeOK'
    BY <1>2, InvokeTypes DEF ApiRequest, DirectInvoke, PlatformTypeOK
<1>3. ASSUME NEW name, NEW source, Consume(name, source) PROVE PlatformTypeOK'
    BY <1>3, InvokeTypes DEF Consume, PlatformTypeOK
<1>4. CASE RunMigration
    BY <1>4, InvokeTypes DEF RunMigration
<1>5. CASE MigrationFails
    BY <1>5 DEF MigrationFails, PlatformTypeOK
<1>6. CASE UNCHANGED platformVars
    BY <1>6 DEF platformVars, PlatformTypeOK
<1>7. QED
    BY <1>1, <1>2, <1>3, <1>4, <1>5, <1>6 DEF PlatformNext

\* The platform's variables keep their types: only stacks the environment has
\* are deployed, and only what has a consumer somewhere waits.
THEOREM PlatformIsTyped == PlatformSpec => []PlatformTypeOK
<1>1. PlatformInit => PlatformTypeOK
    BY PlatformInitially
<1>2. PlatformTypeOK /\ [PlatformNext]_platformVars => PlatformTypeOK'
    BY PlatformKept
<1>3. QED
    BY <1>1, <1>2, PTL DEF PlatformSpec

-----------------------------------------------------------------------------
(* The scenes.                                                             *)

\* Whatever the scene is, each module's variables make steps of the module or
\* none: what is proved of a module holds in the composition.
THEOREM ScenesAreSteps ==
    Spec => MigrationSpec /\ RestoreSpec /\ PlatformSpec /\ MonitoringSpec
<1>1. Init => MigrationInit /\ RestoreInit /\ PlatformInit /\ MonitoringInit
    BY DEF Init
<1>2. ASSUME [Next]_<<others, scene>>
      PROVE  /\ [MigrationNext]_migrationVars
             /\ [RestoreNext]_restoreVars
             /\ [PlatformNext]_platformVars
             /\ [MonitoringNext]_monitoringVars
    BY <1>2 DEF Next, MigrationScenes, RestoreScene, PlatformScene, MonitoringScene, others
<1>3. QED
    BY <1>1, <1>2, PTL DEF Spec, MigrationSpec, RestoreSpec, PlatformSpec, MonitoringSpec

\* The types of everything that is done to the platform, in any scene.
THEOREM OperationsAreTyped == Spec => []OperationsTypeOK
<1>1. RestoreInv /\ MonitoringInv => RestoreTypeOK /\ MonitoringTypeOK
    BY DEF RestoreInv, MonitoringInv
<1>2. MigrationTypeOK /\ RestoreTypeOK /\ PlatformTypeOK /\ MonitoringTypeOK => OperationsTypeOK
    BY DEF OperationsTypeOK
<1>3. QED
    BY <1>1, <1>2, ScenesAreSteps, MigrationHasTypes, RestoreInvariance, PlatformIsTyped,
       MonitoringInvariance, PTL

-----------------------------------------------------------------------------
(* The functions' variables.                                               *)

LEMMA Overridden ==
    ASSUME NEW f, NEW g
    PROVE  /\ DOMAIN (f ++ g) = DOMAIN f \cup DOMAIN g
           /\ \A x \in DOMAIN f : (f ++ g)[x] = f[x]
           /\ \A x \in DOMAIN g : x \notin DOMAIN f => (f ++ g)[x] = g[x]
    BY DEF ++

OwnVariables == {"TABLE_NAME", "IDENTITY_TABLE_NAME", "KMS_KEY_ID", "QUEUE_URL"}

\* What LambdaApiConstruct makes of what it is given.
VariableIs(v, x, value) == x \in DOMAIN v /\ v[x] = value

Wired(v, tables, keys, queue, env) ==
    /\ "data" \in DOMAIN tables => VariableIs(v, "TABLE_NAME", "data")
    /\ "identity" \in DOMAIN tables => VariableIs(v, "IDENTITY_TABLE_NAME", "identity")
    /\ "dbKmsKey" \in DOMAIN keys => VariableIs(v, "KMS_KEY_ID", keys.dbKmsKey)
    /\ \A q : queue = {q} => VariableIs(v, "QUEUE_URL", q)
    /\ \A x \in DOMAIN env \ OwnVariables : VariableIs(v, x, env[x])
    /\ DOMAIN v \subseteq OwnVariables \cup DOMAIN env

LEMMA FirstKept ==
    ASSUME NEW f, NEW g, NEW x, NEW value, VariableIs(f, x, value)
    PROVE  VariableIs(f ++ g, x, value)
    BY DEF VariableIs, ++

LEMMA SecondAdded ==
    ASSUME NEW f, NEW g, NEW x, NEW value, x \notin DOMAIN f, VariableIs(g, x, value)
    PROVE  VariableIs(f ++ g, x, value)
    BY DEF VariableIs, ++

LEMMA ConstructWires ==
    ASSUME NEW stack, NEW tables, NEW keys, NEW queue, NEW env, NEW extra, NEW ports,
           DOMAIN tables \subseteq {"data", "identity"}
    PROVE  Wired(LambdaApiConstruct(stack, tables, keys, queue, env, extra, ports).variables,
                 tables, keys, queue, env)
<1> DEFINE tableVariable == [data |-> "TABLE_NAME", identity |-> "IDENTITY_TABLE_NAME"]
           a == [v \in {tableVariable[t] : t \in DOMAIN tables} |->
                    CHOOSE t \in DOMAIN tables : tableVariable[t] = v]
           b == IF "dbKmsKey" \in DOMAIN keys THEN [KMS_KEY_ID |-> keys.dbKmsKey] ELSE <<>>
           c == IF queue # {} THEN [QUEUE_URL |-> CHOOSE q \in queue : TRUE] ELSE <<>>
           v == LambdaApiConstruct(stack, tables, keys, queue, env, extra, ports).variables
<1>1. v = ((a ++ b) ++ c) ++ env
    BY DEF LambdaApiConstruct
<1>2. /\ DOMAIN a \subseteq {"TABLE_NAME", "IDENTITY_TABLE_NAME"}
      /\ "data" \in DOMAIN tables => VariableIs(a, "TABLE_NAME", "data")
      /\ "identity" \in DOMAIN tables => VariableIs(a, "IDENTITY_TABLE_NAME", "identity")
    BY DEF VariableIs
<1>3. /\ DOMAIN b \subseteq {"KMS_KEY_ID"}
      /\ "dbKmsKey" \in DOMAIN keys => VariableIs(b, "KMS_KEY_ID", keys.dbKmsKey)
    BY DEF VariableIs
<1>4. /\ DOMAIN c \subseteq {"QUEUE_URL"}
      /\ \A q : queue = {q} => VariableIs(c, "QUEUE_URL", q)
    BY DEF VariableIs
<1> HIDE DEF a, b, c, v
<1>5. /\ DOMAIN (a ++ b) \subseteq {"TABLE_NAME", "IDENTITY_TABLE_NAME", "KMS_KEY_ID"}
      /\ DOMAIN ((a ++ b) ++ c) \subseteq OwnVariables
      /\ DOMAIN v \subseteq OwnVariables \cup DOMAIN env
    <2>1. DOMAIN (a ++ b) \subseteq {"TABLE_NAME", "IDENTITY_TABLE_NAME", "KMS_KEY_ID"}
        BY <1>2, <1>3, Overridden
    <2>2. DOMAIN ((a ++ b) ++ c) \subseteq OwnVariables
        BY <2>1, <1>4, Overridden DEF OwnVariables
    <2>3. QED
        BY <1>1, <2>1, <2>2, Overridden
<1>6. ASSUME NEW x, NEW value, VariableIs(a, x, value) PROVE VariableIs(v, x, value)
    BY <1>1, <1>6, FirstKept
<1>7. "dbKmsKey" \in DOMAIN keys => VariableIs(v, "KMS_KEY_ID", keys.dbKmsKey)
    <2>1. "KMS_KEY_ID" \notin DOMAIN a
        BY <1>2
    <2>2. QED
        BY <1>1, <1>3, <2>1, FirstKept, SecondAdded
<1>8. ASSUME NEW q, queue = {q} PROVE VariableIs(v, "QUEUE_URL", q)
    <2>1. "QUEUE_URL" \notin DOMAIN (a ++ b)
        BY <1>5
    <2>2. VariableIs(c, "QUEUE_URL", q)
        BY <1>4, <1>8
    <2>3. QED
        BY <1>1, <2>1, <2>2, FirstKept, SecondAdded
<1>9. ASSUME NEW x \in DOMAIN env \ OwnVariables PROVE VariableIs(v, x, env[x])
    <2>1. x \notin DOMAIN ((a ++ b) ++ c)
        BY <1>5
    <2>2. QED
        BY <1>1, <2>1, SecondAdded DEF VariableIs
<1>10. /\ "data" \in DOMAIN tables => VariableIs(v, "TABLE_NAME", "data")
       /\ "identity" \in DOMAIN tables => VariableIs(v, "IDENTITY_TABLE_NAME", "identity")
    BY <1>2, <1>6
<1>11. Wired(v, tables, keys, queue, env)
    <2> HIDE DEF VariableIs
    <2>1. QED
        BY <1>5, <1>7, <1>8, <1>9, <1>10 DEF Wired
<1>12. QED
    BY <1>11 DEF v

-----------------------------------------------------------------------------
(* The calls that a function can make.                                     *)

Queues == {"dsarQueue", "sarQueue", "dsarDeleteQueue", "sarDLQueue"}
ItemActions == {"BatchGetItem", "BatchWriteItem", "DeleteItem", "DescribeTable",
                "GetItem", "PutItem", "Query", "Scan", "UpdateItem"}

UsesKey(f) ==
    /\ <<"GenerateDataKey", "kmsKey">> \in f.grants
    /\ <<"Decrypt", "kmsKey">> \in f.grants

LEMMA NamedResource ==
    ASSUME NEW f, NEW a, NEW x, NEW resource, VariableIs(f.variables, x, resource)
    PROVE  resourceOf(f, <<a, x>>) = resource
    BY DEF VariableIs, resourceOf

LEMMA TableCall ==
    ASSUME NEW f, NEW h, NEW a \in ItemActions, NEW x, NEW table \in {"data", "identity"},
           VariableIs(f.variables, x, table), <<a, table>> \in f.grants,
           UsesKey(f), 443 \in f.ports, h.endpoint \in DOMAIN f.variables
    PROVE  Makes(f, h, <<a, x>>)
<1>1. resourceOf(f, <<a, x>>) = table
    BY NamedResource
<1>2. ServiceOf(table) = "dynamodb" /\ KeyUse(table) = {<<"Decrypt", "kmsKey">>}
    BY DEF ServiceOf, KeyUse, On
<1>3. Reaches(f, h, "dynamodb", a)
    BY DEF Reaches, endpointAllows, vpcEndpoints, ItemActions
<1>4. QED
    BY <1>1, <1>2, <1>3 DEF Makes, UsesKey

LEMMA QueueCall ==
    ASSUME NEW f, NEW h, NEW x, NEW queue \in Queues,
           VariableIs(f.variables, x, queue), <<"SendMessage", queue>> \in f.grants,
           UsesKey(f), 443 \in f.ports
    PROVE  Makes(f, h, <<"SendMessage", x>>)
<1>1. resourceOf(f, <<"SendMessage", x>>) = queue
    BY NamedResource
<1>2. /\ ServiceOf(queue) = "sqs"
      /\ KeyUse(queue) = {<<"GenerateDataKey", "kmsKey">>, <<"Decrypt", "kmsKey">>}
    BY DEF ServiceOf, KeyUse, On, Queues
<1>3. Reaches(f, h, "sqs", "SendMessage")
    BY DEF Reaches, endpointAllows, vpcEndpoints
<1>4. QED
    BY <1>1, <1>2, <1>3 DEF Makes, UsesKey

LEMMA KeyCall ==
    ASSUME NEW f, NEW h, NEW a, NEW x, NEW key \in {"kmsKey", "dbKmsKey", "userIdHmacKey"},
           VariableIs(f.variables, x, key), <<a, key>> \in f.grants, 443 \in f.ports
    PROVE  Makes(f, h, <<a, x>>)
<1>1. resourceOf(f, <<a, x>>) = key
    BY NamedResource
<1>2. ServiceOf(key) = "kms" /\ KeyUse(key) = {}
    BY DEF ServiceOf, KeyUse
<1>3. Reaches(f, h, "kms", a)
    BY DEF Reaches, endpointAllows, vpcEndpoints
<1>4. QED
    BY <1>1, <1>2, <1>3 DEF Makes

LEMMA BucketCall ==
    ASSUME NEW f, NEW h, NEW a \in {"GetObject", "PutObject"}, NEW x,
           resourceOf(f, <<a, x>>) = "sarBucket", <<a, "sarBucket">> \in f.grants,
           UsesKey(f), 443 \in f.ports
    PROVE  Makes(f, h, <<a, x>>)
<1>1. /\ ServiceOf("sarBucket") = "s3"
      /\ KeyUse("sarBucket") = {<<"GenerateDataKey", "kmsKey">>, <<"Decrypt", "kmsKey">>}
    BY DEF ServiceOf, KeyUse, On
<1>2. Reaches(f, h, "s3", a)
    BY DEF Reaches, endpointAllows, vpcEndpoints
<1>3. QED
    BY <1>1, <1>2 DEF Makes, UsesKey

LEMMA SecretCall ==
    ASSUME NEW f, NEW h, NEW a, NEW x, VariableIs(f.variables, x, "purgeKeySecret"),
           <<a, "purgeKeySecret">> \in f.grants,
           <<"Decrypt", "udpParamsSecretsEncryptionKey">> \in f.grants, 443 \in f.ports
    PROVE  Makes(f, h, <<a, x>>)
<1>1. resourceOf(f, <<a, x>>) = "purgeKeySecret"
    BY NamedResource
<1>2. /\ ServiceOf("purgeKeySecret") = "secretsmanager"
      /\ KeyUse("purgeKeySecret") = {<<"Decrypt", "udpParamsSecretsEncryptionKey">>}
    BY DEF ServiceOf, KeyUse, On
<1>3. Reaches(f, h, "secretsmanager", a)
    BY DEF Reaches, endpointAllows, vpcEndpoints
<1>4. QED
    BY <1>1, <1>2, <1>3 DEF Makes

LEMMA ClusterCall ==
    ASSUME NEW f, NEW h, NEW a, NEW x, VariableIs(f.variables, x, "cluster"),
           <<a, "cluster">> \in f.grants, DSQL_PORT \in f.ports
    PROVE  Makes(f, h, <<a, x>>)
<1>1. resourceOf(f, <<a, x>>) = "cluster"
    BY NamedResource
<1>2. ServiceOf("cluster") = "dsql" /\ KeyUse("cluster") = {}
    BY DEF ServiceOf, KeyUse
<1>3. Reaches(f, h, "dsql", a)
    BY DEF Reaches, endpointAllows, vpcEndpoints
<1>4. QED
    BY <1>1, <1>2, <1>3 DEF Makes

-----------------------------------------------------------------------------
(* Functions that are given both tables.                                   *)

\* A function whose handler reads both names, with the actions it may take on
\* the tables and what else it is granted.
Serves(f, data, identity) ==
    /\ VariableIs(f.variables, "TABLE_NAME", "data")
    /\ VariableIs(f.variables, "IDENTITY_TABLE_NAME", "identity")
    /\ VariableIs(f.variables, "KMS_KEY_ID", "dbKmsKey")
    /\ "DYNAMODB_ENDPOINT" \in DOMAIN f.variables
    /\ UsesKey(f) /\ 443 \in f.ports
    /\ {"GenerateDataKey", "Decrypt"} \X {"dbKmsKey"} \subseteq f.grants
    /\ data \X {"data"} \subseteq f.grants /\ identity \X {"identity"} \subseteq f.grants

Answers(f, h) == \A request \in h.calls : Makes(f, h, request)

\* What LambdaApiConstruct grants.
Granted(f, tables, keys, queue, extra) ==
    /\ \A t \in DOMAIN tables : tables[t] \X {t} \subseteq f.grants
    /\ \A k \in DOMAIN keys :
          {"Encrypt", "Decrypt", "GenerateDataKey"} \X {keys[k]} \subseteq f.grants
    /\ {"SendMessage"} \X queue \subseteq f.grants
    /\ extra \subseteq f.grants

LEMMA ConstructGrants ==
    ASSUME NEW stack, NEW tables, NEW keys, NEW queue, NEW env, NEW extra, NEW ports
    PROVE  LET f == LambdaApiConstruct(stack, tables, keys, queue, env, extra, ports)
           IN  Granted(f, tables, keys, queue, extra) /\ f.ports = ports
<1> DEFINE f == LambdaApiConstruct(stack, tables, keys, queue, env, extra, ports)
<1>1. f.ports = ports
    BY DEF LambdaApiConstruct
<1>2. f.grants = TableGrants(tables) \cup KeyGrants(keys) \cup QueueGrants(queue) \cup extra
    BY DEF LambdaApiConstruct
<1> HIDE DEF f
<1>3. /\ TableGrants(tables) \subseteq f.grants /\ KeyGrants(keys) \subseteq f.grants
      /\ QueueGrants(queue) \subseteq f.grants /\ extra \subseteq f.grants
    BY <1>2
<1>4. \A t \in DOMAIN tables : tables[t] \X {t} \subseteq f.grants
    BY <1>3 DEF On, TableGrants
<1>5. ASSUME NEW k \in DOMAIN keys
      PROVE  {"Encrypt", "Decrypt", "GenerateDataKey"} \X {keys[k]} \subseteq f.grants
    <2>1. keys[k] \in {keys[i] : i \in DOMAIN keys}
        OBVIOUS
    <2>2. QED
        BY <1>3, <2>1 DEF KeyGrants
<1>6. QED
    BY <1>1, <1>3, <1>4, <1>5 DEF Granted, QueueGrants, f

LEMMA TableFunction ==
    ASSUME NEW stack, NEW data, NEW identity, NEW queue, NEW env, NEW extra, NEW ports,
           "DYNAMODB_ENDPOINT" \in DOMAIN env, 443 \in ports
    PROVE  Serves(LambdaApiConstruct(stack, [data |-> data, identity |-> identity], Keys,
                                     queue, env, extra, ports), data, identity)
<1> DEFINE tables == [data |-> data, identity |-> identity]
           f == LambdaApiConstruct(stack, tables, Keys, queue, env, extra, ports)
<1>1. /\ DOMAIN tables = {"data", "identity"}
      /\ tables["data"] = data /\ tables["identity"] = identity
    OBVIOUS
<1>2. /\ DOMAIN Keys = {"dbKmsKey", "kmsKey"}
      /\ Keys["dbKmsKey"] = "dbKmsKey" /\ Keys["kmsKey"] = "kmsKey"
    BY DEF Keys
<1> HIDE DEF tables
<1>3. Wired(f.variables, tables, Keys, queue, env)
    BY <1>1, ConstructWires
<1>4. Granted(f, tables, Keys, queue, extra) /\ f.ports = ports
    BY ConstructGrants
<1> HIDE DEF f
<1>5. /\ VariableIs(f.variables, "TABLE_NAME", "data")
      /\ VariableIs(f.variables, "IDENTITY_TABLE_NAME", "identity")
      /\ VariableIs(f.variables, "KMS_KEY_ID", "dbKmsKey")
      /\ "DYNAMODB_ENDPOINT" \in DOMAIN f.variables
    BY <1>1, <1>2, <1>3 DEF Wired, VariableIs, OwnVariables
<1>6. /\ {"Encrypt", "Decrypt", "GenerateDataKey"} \X {"dbKmsKey"} \subseteq f.grants
      /\ {"Encrypt", "Decrypt", "GenerateDataKey"} \X {"kmsKey"} \subseteq f.grants
    BY <1>2, <1>4 DEF Granted
<1>7. data \X {"data"} \subseteq f.grants /\ identity \X {"identity"} \subseteq f.grants
    BY <1>1, <1>4 DEF Granted
<1>8. Serves(f, data, identity)
    BY <1>4, <1>5, <1>6, <1>7 DEF Serves, UsesKey
<1>9. QED
    BY <1>8 DEF f, tables

-----------------------------------------------------------------------------
(* The handlers that use the tables.                                       *)

\* The function has the variables the handler requires and makes its calls.
Equips(f, h) == h.requires \subseteq DOMAIN f.variables /\ Answers(f, h)

LEMMA EquippedIsNotRefused ==
    ASSUME NEW f, NEW h, Equips(f, h)
    PROVE  refusals(f, h) = {}
    BY DEF Equips, Answers, refusals

LEMMA ServedCall ==
    ASSUME NEW f, NEW h, NEW data \in SUBSET ItemActions, NEW identity \in SUBSET ItemActions,
           Serves(f, data, identity), h.endpoint = "DYNAMODB_ENDPOINT",
           NEW request,
           request \in OnData(data) \cup OnIdentity(identity) \cup Encrypts \cup Decrypts
    PROVE  Makes(f, h, request)
<1>1. CASE request \in OnData(data)
    <2>1. PICK a \in data : request = <<a, "TABLE_NAME">>
        BY <1>1 DEF OnData, On
    <2>2. a \in ItemActions /\ <<a, "data">> \in f.grants
        BY DEF Serves
    <2>3. QED
        BY <2>1, <2>2, TableCall DEF Serves
<1>2. CASE request \in OnIdentity(identity)
    <2>1. PICK a \in identity : request = <<a, "IDENTITY_TABLE_NAME">>
        BY <1>2 DEF OnIdentity, On
    <2>2. a \in ItemActions /\ <<a, "identity">> \in f.grants
        BY DEF Serves
    <2>3. QED
        BY <2>1, <2>2, TableCall DEF Serves
<1>3. CASE request \in Encrypts \cup Decrypts
    <2>1. PICK a \in {"GenerateDataKey", "Decrypt"} : request = <<a, "KMS_KEY_ID">>
        BY <1>3 DEF Encrypts, Decrypts, On
    <2>2. <<a, "dbKmsKey">> \in f.grants
        BY DEF Serves
    <2>3. QED
        BY <2>1, <2>2, KeyCall DEF Serves
<1>4. QED
    BY <1>1, <1>2, <1>3

LEMMA ServedHandler ==
    ASSUME NEW f, NEW data \in SUBSET ItemActions, NEW identity \in SUBSET ItemActions,
           Serves(f, data, identity),
           NEW requires, requires \subseteq DOMAIN f.variables, NEW calls,
           \A request \in calls :
               \/ request \in OnData(data) \cup OnIdentity(identity) \cup Encrypts \cup Decrypts
               \/ Makes(f, Handler(requires, calls), request)
    PROVE  Equips(f, Handler(requires, calls))
<1> DEFINE h == Handler(requires, calls)
<1>1. h.endpoint = "DYNAMODB_ENDPOINT" /\ h.requires = requires /\ h.calls = calls
    BY DEF Handler
<1> HIDE DEF h
<1>2. ASSUME NEW request \in calls,
             request \in OnData(data) \cup OnIdentity(identity) \cup Encrypts \cup Decrypts
      PROVE  Makes(f, h, request)
    BY <1>1, <1>2, ServedCall
<1>3. Equips(f, h)
    BY <1>1, <1>2 DEF Equips, Answers, h
<1>4. QED
    BY <1>3 DEF h

LEMMA ServedApiHandler ==
    ASSUME NEW f, NEW data \in SUBSET ItemActions, NEW identity \in SUBSET ItemActions,
           Serves(f, data, identity), NEW calls,
           calls \subseteq OnData(data) \cup OnIdentity(identity) \cup Encrypts \cup Decrypts
    PROVE  Equips(f, ApiHandler(calls))
<1>1. {"TABLE_NAME", "IDENTITY_TABLE_NAME"} \subseteq DOMAIN f.variables
    BY DEF Serves, VariableIs
<1>2. \A request \in calls :
        request \in OnData(data) \cup OnIdentity(identity) \cup Encrypts \cup Decrypts
    OBVIOUS
<1>3. QED
    BY <1>1, <1>2, ServedHandler DEF ApiHandler

-----------------------------------------------------------------------------
(* The functions of the routes.                                            *)

RouteFunction(env, r) ==
    LambdaApiConstruct("main",
        [data |-> routes[r].dynamoDbActions, identity |-> routes[r].identityTableActions],
        Keys, {routes[r].queueName} \cap createEventQueues(env),
        DynamoDbEndpoint, {}, lambdaSecurityGroup)

LEMMA RouteServes ==
    ASSUME NEW env, NEW r
    PROVE  Serves(RouteFunction(env, r), routes[r].dynamoDbActions, routes[r].identityTableActions)
<1>1. "DYNAMODB_ENDPOINT" \in DOMAIN DynamoDbEndpoint /\ 443 \in lambdaSecurityGroup
    BY DEF DynamoDbEndpoint, lambdaSecurityGroup
<1>2. QED
    BY <1>1, TableFunction DEF RouteFunction

\* What a handler calls, on the tables and with the key.
Calls(data, identity) ==
    OnData(data) \cup OnIdentity(identity) \cup Encrypts \cup Decrypts

\* The route's grants are enough for a handler with these actions.
Enough(r, data, identity) ==
    /\ data \subseteq routes[r].dynamoDbActions
    /\ identity \subseteq routes[r].identityTableActions
    /\ routes[r].dynamoDbActions \subseteq ItemActions
    /\ routes[r].identityTableActions \subseteq ItemActions

LEMMA RouteEquipped ==
    ASSUME NEW env, NEW r, NEW data, NEW identity, Enough(r, data, identity),
           NEW calls, calls \subseteq Calls(data, identity),
           NEW h, h = ApiHandler(calls)
    PROVE  Equips(RouteFunction(env, r), h)
<1>1. /\ OnData(data) \subseteq OnData(routes[r].dynamoDbActions)
      /\ OnIdentity(identity) \subseteq OnIdentity(routes[r].identityTableActions)
    BY DEF Enough, OnData, OnIdentity, On
<1>2. calls \subseteq OnData(routes[r].dynamoDbActions)
                        \cup OnIdentity(routes[r].identityTableActions) \cup Encrypts \cup Decrypts
    BY <1>1 DEF Calls
<1>3. QED
    BY <1>2, RouteServes, ServedApiHandler DEF Enough

LEMMA HealthCheckEquipped ==
    ASSUME NEW env PROVE Equips(RouteFunction(env, "healthCheck"), handlers["healthCheck"])
<1>1. Enough("healthCheck", {"DescribeTable"}, {"DescribeTable"})
    BY DEF Enough, routes, healthCheckRoute, Route, ItemActions
<1>2. handlers["healthCheck"] = healthCheckHandler
    BY DEF handlers
<1>3. PICK calls : healthCheckHandler = ApiHandler(calls) /\ calls \subseteq Calls({"DescribeTable"}, {"DescribeTable"})
    BY DEF healthCheckHandler, Calls, OnData, OnIdentity, On
<1>4. QED
    BY <1>1, <1>2, <1>3, RouteEquipped

LEMMA CreateUserEquipped ==
    ASSUME NEW env PROVE Equips(RouteFunction(env, "createUser"), handlers["createUser"])
<1>1. Enough("createUser", {}, {"Query", "PutItem"})
    BY DEF Enough, routes, createUserRoute, Route, ItemActions
<1>2. handlers["createUser"] = createUserHandler
    BY DEF handlers
<1>3. PICK calls : createUserHandler = ApiHandler(calls) /\ calls \subseteq Calls({}, {"Query", "PutItem"})
    BY DEF createUserHandler, Calls, OnData, OnIdentity, On
<1>4. QED
    BY <1>1, <1>2, <1>3, RouteEquipped

LEMMA CreateIdentityEquipped ==
    ASSUME NEW env PROVE Equips(RouteFunction(env, "createIdentity"), handlers["createIdentity"])
<1>1. Enough("createIdentity", {}, {"Query", "PutItem"})
    BY DEF Enough, routes, createIdentityRoute, Route, ItemActions
<1>2. handlers["createIdentity"] = createIdentityHandler
    BY DEF handlers
<1>3. PICK calls : createIdentityHandler = ApiHandler(calls) /\ calls \subseteq Calls({}, {"Query", "PutItem"})
    BY DEF createIdentityHandler, Calls, OnData, OnIdentity, On
<1>4. QED
    BY <1>1, <1>2, <1>3, RouteEquipped

LEMMA ReadIdentityEquipped ==
    ASSUME NEW env PROVE Equips(RouteFunction(env, "readIdentity"), handlers["readIdentity"])
<1>1. Enough("readIdentity", {}, {"Query"})
    BY DEF Enough, routes, readIdentityRoute, Route, ItemActions
<1>2. handlers["readIdentity"] = readIdentityHandler
    BY DEF handlers
<1>3. PICK calls : readIdentityHandler = ApiHandler(calls) /\ calls \subseteq Calls({}, {"Query"})
    BY DEF readIdentityHandler, Calls, getByServiceId, OnData, OnIdentity, On
<1>4. QED
    BY <1>1, <1>2, <1>3, RouteEquipped

LEMMA ExchangeIdentityEquipped ==
    ASSUME NEW env PROVE Equips(RouteFunction(env, "exchangeIdentity"), handlers["exchangeIdentity"])
<1>1. Enough("exchangeIdentity", {}, {"Query"})
    BY DEF Enough, routes, exchangeIdentityRoute, Route, ItemActions
<1>2. handlers["exchangeIdentity"] = exchangeIdentityHandler
    BY DEF handlers
<1>3. PICK calls : exchangeIdentityHandler = ApiHandler(calls) /\ calls \subseteq Calls({}, {"Query"})
    BY DEF exchangeIdentityHandler, Calls, getByServiceId, OnData, OnIdentity, On
<1>4. QED
    BY <1>1, <1>2, <1>3, RouteEquipped

LEMMA DeleteIdentityEquipped ==
    ASSUME NEW env PROVE Equips(RouteFunction(env, "deleteIdentity"), handlers["deleteIdentity"])
<1>1. Enough("deleteIdentity", {}, {"Query", "DeleteItem"})
    BY DEF Enough, routes, deleteIdentityRoute, Route, ItemActions
<1>2. handlers["deleteIdentity"] = deleteIdentityHandler
    BY DEF handlers
<1>3. PICK calls : deleteIdentityHandler = ApiHandler(calls) /\ calls \subseteq Calls({}, {"Query", "DeleteItem"})
    BY DEF deleteIdentityHandler, Calls, getByServiceId, OnData, OnIdentity, On
<1>4. QED
    BY <1>1, <1>2, <1>3, RouteEquipped

LEMMA GetAllLinkedServiceEquipped ==
    ASSUME NEW env PROVE Equips(RouteFunction(env, "getAllLinkedService"), handlers["getAllLinkedService"])
<1>1. Enough("getAllLinkedService", {}, {"Query"})
    BY DEF Enough, routes, getAllLinkedServiceRoute, Route, ItemActions
<1>2. handlers["getAllLinkedService"] = getAllLinkedServiceHandler
    BY DEF handlers
<1>3. PICK calls : getAllLinkedServiceHandler = ApiHandler(calls) /\ calls \subseteq Calls({}, {"Query"})
    BY DEF getAllLinkedServiceHandler, Calls, getByServiceId, OnData, OnIdentity, On
<1>4. QED
    BY <1>1, <1>2, <1>3, RouteEquipped

LEMMA PostDataEquipped ==
    ASSUME NEW env PROVE Equips(RouteFunction(env, "postData"), handlers["postData"])
<1>1. Enough("postData", {"PutItem"}, {"Query"})
    BY DEF Enough, routes, postDataRoute, Route, ItemActions
<1>2. handlers["postData"] = postDataHandler
    BY DEF handlers
<1>3. PICK calls : postDataHandler = ApiHandler(calls) /\ calls \subseteq Calls({"PutItem"}, {"Query"})
    BY DEF postDataHandler, Calls, getByServiceId, OnData, OnIdentity, On
<1>4. QED
    BY <1>1, <1>2, <1>3, RouteEquipped

LEMMA PatchDataEquipped ==
    ASSUME NEW env PROVE Equips(RouteFunction(env, "patchData"), handlers["patchData"])
<1>1. Enough("patchData", {"GetItem", "UpdateItem"}, {"Query"})
    BY DEF Enough, routes, patchDataRoute, Route, ItemActions
<1>2. handlers["patchData"] = patchDataHandler
    BY DEF handlers
<1>3. PICK calls : patchDataHandler = ApiHandler(calls) /\ calls \subseteq Calls({"GetItem", "UpdateItem"}, {"Query"})
    BY DEF patchDataHandler, Calls, getByServiceId, OnData, OnIdentity, On
<1>4. QED
    BY <1>1, <1>2, <1>3, RouteEquipped

LEMMA GetDataEquipped ==
    ASSUME NEW env PROVE Equips(RouteFunction(env, "getData"), handlers["getData"])
<1>1. Enough("getData", {"GetItem"}, {"Query"})
    BY DEF Enough, routes, getDataRoute, Route, ItemActions
<1>2. handlers["getData"] = getDataHandler
    BY DEF handlers
<1>3. PICK calls : getDataHandler = ApiHandler(calls) /\ calls \subseteq Calls({"GetItem"}, {"Query"})
    BY DEF getDataHandler, Calls, getByServiceId, OnData, OnIdentity, On
<1>4. QED
    BY <1>1, <1>2, <1>3, RouteEquipped

LEMMA DeleteDataEquipped ==
    ASSUME NEW env PROVE Equips(RouteFunction(env, "deleteData"), handlers["deleteData"])
<1>1. Enough("deleteData", {"DeleteItem"}, {"Query"})
    BY DEF Enough, routes, deleteDataRoute, Route, ItemActions
<1>2. handlers["deleteData"] = deleteDataHandler
    BY DEF handlers
<1>3. PICK calls : deleteDataHandler = ApiHandler(calls) /\ calls \subseteq Calls({"DeleteItem"}, {"Query"})
    BY DEF deleteDataHandler, Calls, getByServiceId, OnData, OnIdentity, On
<1>4. QED
    BY <1>1, <1>2, <1>3, RouteEquipped

LEMMA GetSarStatusEquipped ==
    ASSUME NEW env PROVE Equips(RouteFunction(env, "getSarStatus"), handlers["getSarStatus"])
<1>1. Enough("getSarStatus", {"GetItem"}, {"Query"})
    BY DEF Enough, routes, getSarStatusRoute, Route, ItemActions
<1>2. handlers["getSarStatus"] = getSarStatusHandler
    BY DEF handlers
<1>3. PICK calls : getSarStatusHandler = ApiHandler(calls) /\ calls \subseteq Calls({"GetItem"}, {"Query"})
    BY DEF getSarStatusHandler, Calls, getByServiceId, OnData, OnIdentity, On
<1>4. QED
    BY <1>1, <1>2, <1>3, RouteEquipped

LEMMA QueueEquipped ==
    ASSUME NEW env, NEW r \in setRoutes(env), NEW q \in Queues, routes[r].queueName = q
    PROVE  Equips(RouteFunction(env, r), Queue({"QUEUE_URL"}))
<1> DEFINE f == RouteFunction(env, r)
           tables == [data |-> routes[r].dynamoDbActions, identity |-> routes[r].identityTableActions]
           queue == {routes[r].queueName} \cap createEventQueues(env)
<1>1. queue = {q}
    BY DEF createEventQueues, Queues
<1>2. DOMAIN tables \subseteq {"data", "identity"}
    OBVIOUS
<1> HIDE DEF queue, tables
<1>3. f = LambdaApiConstruct("main", tables, Keys, queue, DynamoDbEndpoint, {}, lambdaSecurityGroup)
    BY DEF RouteFunction, tables, queue
<1> HIDE DEF f
<1>4. Wired(f.variables, tables, Keys, queue, DynamoDbEndpoint)
    BY <1>2, <1>3, ConstructWires
<1>5. Granted(f, tables, Keys, queue, {}) /\ f.ports = lambdaSecurityGroup
    BY <1>3, ConstructGrants
<1>6. VariableIs(f.variables, "QUEUE_URL", q)
    BY <1>1, <1>4 DEF Wired
<1>7. <<"SendMessage", q>> \in f.grants /\ 443 \in f.ports
    BY <1>1, <1>5 DEF Granted, lambdaSecurityGroup
<1>8. UsesKey(f)
    <2>1. "kmsKey" \in DOMAIN Keys /\ Keys["kmsKey"] = "kmsKey"
        BY DEF Keys
    <2>2. QED
        BY <1>5, <2>1 DEF Granted, UsesKey
<1> DEFINE h == Queue({"QUEUE_URL"})
<1>9. h.requires = {"QUEUE_URL"} /\ h.calls = {<<"SendMessage", "QUEUE_URL">>}
    BY DEF Queue, Handler, On
<1> HIDE DEF h
<1>10. Makes(f, h, <<"SendMessage", "QUEUE_URL">>)
    BY <1>6, <1>7, <1>8, QueueCall
<1>11. Equips(f, h)
    BY <1>6, <1>9, <1>10 DEF Equips, Answers, VariableIs
<1>12. QED
    BY <1>11 DEF f, h

LEMMA StartDsarEquipped ==
    ASSUME NEW env, "startDsar" \in setRoutes(env)
    PROVE  Equips(RouteFunction(env, "startDsar"), handlers["startDsar"])
<1>1. routes["startDsar"].queueName = "dsarQueue" /\ "dsarQueue" \in Queues
    BY DEF routes, startDsarRoute, Route, Queues
<1>2. handlers["startDsar"] = Queue({"QUEUE_URL"})
    BY DEF handlers, startDsarHandler
<1>3. QED
    BY <1>1, <1>2, QueueEquipped

LEMMA StartSarEquipped ==
    ASSUME NEW env, "startSar" \in setRoutes(env)
    PROVE  Equips(RouteFunction(env, "startSar"), handlers["startSar"])
<1>1. routes["startSar"].queueName = "sarQueue" /\ "sarQueue" \in Queues
    BY DEF routes, startSarRoute, Route, Queues
<1>2. handlers["startSar"] = Queue({"QUEUE_URL"})
    BY DEF handlers, startSarHandler
<1>3. QED
    BY <1>1, <1>2, QueueEquipped

\* Every function of the main stack serves its route.
LEMMA RoutesEquipped ==
    ASSUME NEW env, NEW r \in setRoutes(env)
    PROVE  Equips(createLambdaFunctions(env)[r], handlers[r])
<1>1. createLambdaFunctions(env)[r] = RouteFunction(env, r)
    BY DEF createLambdaFunctions, RouteFunction
<1>2. r \in {"healthCheck", "createUser", "exchangeIdentity", "createIdentity", "readIdentity",
             "deleteIdentity", "postData", "patchData", "getData", "deleteData", "startDsar",
             "startSar", "getSarStatus", "getAllLinkedService"}
    BY DEF setRoutes, routes
<1>3. QED
    BY <1>1, <1>2, HealthCheckEquipped, CreateUserEquipped, ExchangeIdentityEquipped, CreateIdentityEquipped,
       ReadIdentityEquipped, DeleteIdentityEquipped, PostDataEquipped, PatchDataEquipped, GetDataEquipped,
       DeleteDataEquipped, StartDsarEquipped, StartSarEquipped, GetSarStatusEquipped, GetAllLinkedServiceEquipped

-----------------------------------------------------------------------------
(* The functions of the other stacks.                                      *)

LEMMA DsarDeleteEquipped == Equips(dsarDeleteLambda, dsarDeleteHandler)
<1> DEFINE data == {"DeleteItem"}
           identity == {"DeleteItem", "Query", "GetItem"}
<1>1. data \in SUBSET ItemActions /\ identity \in SUBSET ItemActions
    BY DEF ItemActions
<1>2. PICK calls : /\ dsarDeleteHandler = ApiHandler(calls)
                   /\ calls \subseteq OnData(data) \cup OnIdentity(identity) \cup Encrypts \cup Decrypts
    BY DEF dsarDeleteHandler, OnData, OnIdentity, On
<1>3. Serves(dsarDeleteLambda, data, identity)
    <2>1. "DYNAMODB_ENDPOINT" \in DOMAIN DynamoDbEndpoint /\ 443 \in lambdaSecurityGroup
        BY DEF DynamoDbEndpoint, lambdaSecurityGroup
    <2> HIDE DEF data, identity
    <2>2. Serves(LambdaApiConstruct("sar", [data |-> data, identity |-> identity], Keys, {},
                                    DynamoDbEndpoint, {}, lambdaSecurityGroup), data, identity)
        BY <2>1, TableFunction
    <2>3. QED
        BY <2>2 DEF dsarDeleteLambda, data, identity
<1> HIDE DEF data, identity
<1>4. QED
    BY <1>1, <1>2, <1>3, ServedApiHandler

LEMMA DsarRequestEquipped == Equips(dsarRequestLambda, dsarRequestHandler)
<1> DEFINE data == {"GetItem", "Query"}
           tables == [data |-> data, identity |-> data]
           queue == {"dsarDeleteQueue"}
           f == LambdaApiConstruct("sar", tables, Keys, queue, DynamoDbEndpoint, {}, lambdaSecurityGroup)
           requires == {"TABLE_NAME", "IDENTITY_TABLE_NAME", "QUEUE_URL"}
           calls == getByServiceId \cup OnData({"Query"}) \cup On({"SendMessage"}, "QUEUE_URL")
           h == Handler(requires, calls)
<1>1. dsarRequestLambda = f /\ dsarRequestHandler = h
    BY DEF dsarRequestLambda, dsarRequestHandler
<1>2. data \in SUBSET ItemActions
    BY DEF ItemActions
<1>3. DOMAIN tables \subseteq {"data", "identity"}
    OBVIOUS
<1>4. "dsarDeleteQueue" \in Queues
    BY DEF Queues
<1>5. ASSUME NEW request \in calls, request # <<"SendMessage", "QUEUE_URL">>
      PROVE  request \in OnData(data) \cup OnIdentity(data) \cup Encrypts \cup Decrypts
    BY <1>5 DEF getByServiceId, OnData, OnIdentity, On
<1>6. "DYNAMODB_ENDPOINT" \in DOMAIN DynamoDbEndpoint /\ 443 \in lambdaSecurityGroup
    BY DEF DynamoDbEndpoint, lambdaSecurityGroup
<1> HIDE DEF data, calls
<1>7. Serves(f, data, data)
    BY <1>6, TableFunction
<1> HIDE DEF tables, queue
<1>8. Wired(f.variables, tables, Keys, queue, DynamoDbEndpoint)
    BY <1>3, ConstructWires
<1>9. Granted(f, tables, Keys, queue, {})
    BY ConstructGrants
<1> HIDE DEF f
<1>10. VariableIs(f.variables, "QUEUE_URL", "dsarDeleteQueue")
    BY <1>8 DEF Wired, queue
<1>11. <<"SendMessage", "dsarDeleteQueue">> \in f.grants
    BY <1>9 DEF Granted, queue
<1>12. Makes(f, h, <<"SendMessage", "QUEUE_URL">>)
    BY <1>4, <1>7, <1>10, <1>11, QueueCall DEF Serves
<1>13. requires \subseteq DOMAIN f.variables
    BY <1>7, <1>10 DEF Serves, VariableIs
<1>14. Equips(f, h)
    BY <1>2, <1>5, <1>7, <1>12, <1>13, ServedHandler
<1>15. QED
    BY <1>1, <1>14

LEMMA CreateSarFileEquipped == Equips(createSarFileLambda, createSarFileHandler)
<1> DEFINE data == {"GetItem", "Query"}
           tables == [data |-> data, identity |-> data]
           queue == {"sarDLQueue"}
           own == [BUCKET_NAME |-> "sarBucket", DLQ_URL |-> "sarDLQueue"]
           env == DynamoDbEndpoint ++ own
           extra == On({"PutObject", "DeleteObject"}, "sarBucket")
           f == LambdaApiConstruct("sar", tables, Keys, queue, env, extra, lambdaSecurityGroup)
           requires == {"TABLE_NAME", "IDENTITY_TABLE_NAME", "BUCKET_NAME", "DLQ_URL"}
           calls == getByServiceId \cup OnData({"Query"}) \cup On({"PutObject"}, "BUCKET_NAME")
                        \cup On({"SendMessage"}, "DLQ_URL")
           h == Handler(requires, calls)
<1>1. createSarFileLambda = f /\ createSarFileHandler = h
    BY DEF createSarFileLambda, createSarFileHandler
<1>2. data \in SUBSET ItemActions
    BY DEF ItemActions
<1>3. DOMAIN tables \subseteq {"data", "identity"}
    OBVIOUS
<1>4. "sarDLQueue" \in Queues
    BY DEF Queues
<1>5. ASSUME NEW request \in calls, request # <<"SendMessage", "DLQ_URL">>,
             request # <<"PutObject", "BUCKET_NAME">>
      PROVE  request \in OnData(data) \cup OnIdentity(data) \cup Encrypts \cup Decrypts
    BY <1>5 DEF getByServiceId, OnData, OnIdentity, On
<1>6. 443 \in lambdaSecurityGroup
    BY DEF lambdaSecurityGroup
<1>7. /\ "DYNAMODB_ENDPOINT" \in DOMAIN env
      /\ VariableIs(env, "BUCKET_NAME", "sarBucket") /\ VariableIs(env, "DLQ_URL", "sarDLQueue")
    BY DEF DynamoDbEndpoint, VariableIs, ++
<1>8. <<"PutObject", "sarBucket">> \in extra
    BY DEF On
<1> HIDE DEF data, calls, env, own, extra
<1>9. Serves(f, data, data)
    BY <1>6, <1>7, TableFunction
<1> HIDE DEF tables, queue
<1>10. Wired(f.variables, tables, Keys, queue, env)
    BY <1>3, ConstructWires
<1>11. Granted(f, tables, Keys, queue, extra)
    BY ConstructGrants
<1> HIDE DEF f
<1>12. /\ VariableIs(f.variables, "BUCKET_NAME", "sarBucket")
       /\ VariableIs(f.variables, "DLQ_URL", "sarDLQueue")
    BY <1>7, <1>10 DEF Wired, VariableIs, OwnVariables
<1>13. /\ <<"SendMessage", "sarDLQueue">> \in f.grants
       /\ <<"PutObject", "sarBucket">> \in f.grants
    BY <1>8, <1>11 DEF Granted, queue
<1>14. Makes(f, h, <<"SendMessage", "DLQ_URL">>)
    BY <1>4, <1>9, <1>12, <1>13, QueueCall DEF Serves
<1>15. Makes(f, h, <<"PutObject", "BUCKET_NAME">>)
    <2>1. resourceOf(f, <<"PutObject", "BUCKET_NAME">>) = "sarBucket"
        BY <1>12, NamedResource
    <2>2. QED
        BY <1>9, <1>13, <2>1, BucketCall DEF Serves
<1>16. requires \subseteq DOMAIN f.variables
    BY <1>9, <1>12 DEF Serves, VariableIs
<1>17. Equips(f, h)
    BY <1>2, <1>5, <1>9, <1>14, <1>15, <1>16, ServedHandler
<1>18. QED
    BY <1>1, <1>17

LEMMA PresignedUrlEquipped == Equips(generateSarPresignedUrlLambda, generateSarPresignedUrlHandler)
<1> DEFINE tables == [data |-> {"PutItem"}]
           extra == On({"GetObject", "GetBucket", "ListBucket"}, "sarBucket")
           f == LambdaApiConstruct("sar", tables, Keys, {}, DynamoDbEndpoint, extra, lambdaSecurityGroup)
           h == generateSarPresignedUrlHandler
<1>1. generateSarPresignedUrlLambda = f
    BY DEF generateSarPresignedUrlLambda
<1>2. /\ h.requires = {"TABLE_NAME"} /\ h.endpoint = "DYNAMODB_ENDPOINT"
      /\ h.calls = {<<"GetObject", "sarBucket">>, <<"PutItem", "TABLE_NAME">>,
                    <<"GenerateDataKey", "KMS_KEY_ID">>}
    BY DEF generateSarPresignedUrlHandler, Handler, OnData, Encrypts, On
<1>3. DOMAIN tables = {"data"} /\ tables["data"] = {"PutItem"}
    OBVIOUS
<1>4. /\ DOMAIN Keys = {"dbKmsKey", "kmsKey"}
      /\ Keys["dbKmsKey"] = "dbKmsKey" /\ Keys["kmsKey"] = "kmsKey"
    BY DEF Keys
<1>5. <<"GetObject", "sarBucket">> \in extra
    BY DEF On
<1>6. 443 \in lambdaSecurityGroup /\ "PutItem" \in ItemActions
    BY DEF lambdaSecurityGroup, ItemActions
<1>7. DOMAIN DynamoDbEndpoint = {"DYNAMODB_ENDPOINT"}
    BY DEF DynamoDbEndpoint
<1> HIDE DEF tables, extra, h
<1>8. Wired(f.variables, tables, Keys, {}, DynamoDbEndpoint)
    BY <1>3, ConstructWires
<1>9. Granted(f, tables, Keys, {}, extra) /\ f.ports = lambdaSecurityGroup
    BY ConstructGrants
<1> HIDE DEF f
<1>10. /\ VariableIs(f.variables, "TABLE_NAME", "data") /\ VariableIs(f.variables, "KMS_KEY_ID", "dbKmsKey")
       /\ "DYNAMODB_ENDPOINT" \in DOMAIN f.variables
       /\ "sarBucket" \notin DOMAIN f.variables
    BY <1>3, <1>4, <1>7, <1>8 DEF Wired, VariableIs, OwnVariables
<1>11. /\ <<"GetObject", "sarBucket">> \in f.grants /\ <<"PutItem", "data">> \in f.grants
       /\ <<"GenerateDataKey", "dbKmsKey">> \in f.grants
       /\ UsesKey(f)
    BY <1>3, <1>4, <1>5, <1>9 DEF Granted, UsesKey
<1>12. Makes(f, h, <<"GetObject", "sarBucket">>)
    <2>1. resourceOf(f, <<"GetObject", "sarBucket">>) = "sarBucket"
        BY <1>10 DEF resourceOf
    <2>2. QED
        BY <1>6, <1>9, <1>11, <2>1, BucketCall
<1>13. Makes(f, h, <<"PutItem", "TABLE_NAME">>)
    BY <1>2, <1>6, <1>9, <1>10, <1>11, TableCall
<1>14. Makes(f, h, <<"GenerateDataKey", "KMS_KEY_ID">>)
    BY <1>6, <1>9, <1>10, <1>11, KeyCall
<1>15. Equips(f, h)
    BY <1>2, <1>10, <1>12, <1>13, <1>14 DEF Equips, Answers, VariableIs
<1>16. QED
    BY <1>1, <1>15 DEF h

LEMMA PurgeEquipped == Equips(dvlaPilotPurgeLambda, dvlaPilotPurgeHandler)
<1> DEFINE tables == [identity |-> {"Scan", "DeleteItem"}]
           env == DynamoDbEndpoint ++ [PURGE_KEY_SECRET_NAME |-> "purgeKeySecret"]
           extra == On({"GetSecretValue"}, "purgeKeySecret")
                        \cup On({"Decrypt"}, "udpParamsSecretsEncryptionKey")
           f == LambdaApiConstruct("dvla-pilot", tables, Keys, {}, env, extra, lambdaSecurityGroup)
           h == dvlaPilotPurgeHandler
<1>1. dvlaPilotPurgeLambda = f
    BY DEF dvlaPilotPurgeLambda
<1>2. /\ h.requires = {"IDENTITY_TABLE_NAME", "PURGE_KEY_SECRET_NAME"}
      /\ h.endpoint = "DYNAMODB_ENDPOINT"
      /\ h.calls = {<<"GetSecretValue", "PURGE_KEY_SECRET_NAME">>,
                    <<"Scan", "IDENTITY_TABLE_NAME">>, <<"DeleteItem", "IDENTITY_TABLE_NAME">>}
    BY DEF dvlaPilotPurgeHandler, Handler, OnIdentity, On
<1>3. DOMAIN tables = {"identity"} /\ tables["identity"] = {"Scan", "DeleteItem"}
    OBVIOUS
<1>4. "kmsKey" \in DOMAIN Keys /\ Keys["kmsKey"] = "kmsKey"
    BY DEF Keys
<1>5. /\ <<"GetSecretValue", "purgeKeySecret">> \in extra
      /\ <<"Decrypt", "udpParamsSecretsEncryptionKey">> \in extra
    BY DEF On
<1>6. 443 \in lambdaSecurityGroup /\ {"Scan", "DeleteItem"} \subseteq ItemActions
    BY DEF lambdaSecurityGroup, ItemActions
<1>7. /\ "DYNAMODB_ENDPOINT" \in DOMAIN env
      /\ VariableIs(env, "PURGE_KEY_SECRET_NAME", "purgeKeySecret")
    BY DEF DynamoDbEndpoint, VariableIs, ++
<1> HIDE DEF tables, extra, h, env
<1>8. Wired(f.variables, tables, Keys, {}, env)
    BY <1>3, ConstructWires
<1>9. Granted(f, tables, Keys, {}, extra) /\ f.ports = lambdaSecurityGroup
    BY ConstructGrants
<1> HIDE DEF f
<1>10. /\ VariableIs(f.variables, "IDENTITY_TABLE_NAME", "identity")
       /\ VariableIs(f.variables, "PURGE_KEY_SECRET_NAME", "purgeKeySecret")
       /\ "DYNAMODB_ENDPOINT" \in DOMAIN f.variables
    BY <1>3, <1>7, <1>8 DEF Wired, VariableIs, OwnVariables
<1>11. /\ \A a \in {"Scan", "DeleteItem"} : <<a, "identity">> \in f.grants
       /\ <<"GetSecretValue", "purgeKeySecret">> \in f.grants
       /\ <<"Decrypt", "udpParamsSecretsEncryptionKey">> \in f.grants
       /\ UsesKey(f)
    BY <1>3, <1>4, <1>5, <1>9 DEF Granted, UsesKey
<1>12. Makes(f, h, <<"GetSecretValue", "PURGE_KEY_SECRET_NAME">>)
    BY <1>6, <1>9, <1>10, <1>11, SecretCall
<1>13. ASSUME NEW a \in {"Scan", "DeleteItem"} PROVE Makes(f, h, <<a, "IDENTITY_TABLE_NAME">>)
    <2>1. a \in ItemActions /\ <<a, "identity">> \in f.grants
        BY <1>6, <1>11
    <2>2. QED
        BY <1>2, <1>6, <1>9, <1>10, <1>11, <2>1, TableCall
<1>14. Equips(f, h)
    BY <1>2, <1>10, <1>12, <1>13 DEF Equips, Answers, VariableIs
<1>15. QED
    BY <1>1, <1>14 DEF h

LEMMA ExtractorEquipped == Equips(schemaExtractor, liveSchemaExtractorHandler)
<1> DEFINE env == [DSQL_ENDPOINT |-> "cluster", DATA_TABLE_NAME |-> "data",
                   DYNAMO_ENDPOINT |-> "dynamoDbEndpoint", USER_ID_HMAC_KEY_ID |-> "userIdHmacKey"]
           extra == On({"UpdateItem"}, "data") \cup On({"DbConnect"}, "cluster")
                        \cup On({"GenerateMac"}, "userIdHmacKey")
           f == LambdaApiConstruct("live-schema", <<>>, Keys, {}, env, extra, LambdaSg)
           h == liveSchemaExtractorHandler
<1>1. schemaExtractor = f
    BY DEF schemaExtractor
<1>2. /\ h.requires = {"DSQL_ENDPOINT", "DATA_TABLE_NAME", "USER_ID_HMAC_KEY_ID"}
      /\ h.endpoint = "DYNAMO_ENDPOINT"
      /\ h.calls = {<<"Decrypt", "KMS_KEY_ID">>, <<"DbConnect", "DSQL_ENDPOINT">>,
                    <<"GenerateMac", "USER_ID_HMAC_KEY_ID">>, <<"UpdateItem", "DATA_TABLE_NAME">>}
    BY DEF liveSchemaExtractorHandler, Decrypts, On
<1>3. DOMAIN <<>> = {}
    OBVIOUS
<1>4. /\ DOMAIN Keys = {"dbKmsKey", "kmsKey"}
      /\ Keys["dbKmsKey"] = "dbKmsKey" /\ Keys["kmsKey"] = "kmsKey"
    BY DEF Keys
<1>5. /\ <<"UpdateItem", "data">> \in extra /\ <<"DbConnect", "cluster">> \in extra
      /\ <<"GenerateMac", "userIdHmacKey">> \in extra
    BY DEF On
<1>6. 443 \in LambdaSg /\ DSQL_PORT \in LambdaSg /\ "UpdateItem" \in ItemActions
    BY DEF LambdaSg, ItemActions
<1>7. /\ "DYNAMO_ENDPOINT" \in DOMAIN env /\ VariableIs(env, "DSQL_ENDPOINT", "cluster")
      /\ VariableIs(env, "DATA_TABLE_NAME", "data")
      /\ VariableIs(env, "USER_ID_HMAC_KEY_ID", "userIdHmacKey")
    BY DEF VariableIs
<1> HIDE DEF extra, h, env
<1>8. Wired(f.variables, <<>>, Keys, {}, env)
    BY <1>3, ConstructWires
<1>9. Granted(f, <<>>, Keys, {}, extra) /\ f.ports = LambdaSg
    BY ConstructGrants
<1> HIDE DEF f
<1>10. /\ VariableIs(f.variables, "KMS_KEY_ID", "dbKmsKey")
       /\ VariableIs(f.variables, "DSQL_ENDPOINT", "cluster")
       /\ VariableIs(f.variables, "DATA_TABLE_NAME", "data")
       /\ VariableIs(f.variables, "USER_ID_HMAC_KEY_ID", "userIdHmacKey")
       /\ "DYNAMO_ENDPOINT" \in DOMAIN f.variables
    BY <1>4, <1>7, <1>8 DEF Wired, VariableIs, OwnVariables
<1>11. /\ <<"UpdateItem", "data">> \in f.grants /\ <<"DbConnect", "cluster">> \in f.grants
       /\ <<"GenerateMac", "userIdHmacKey">> \in f.grants /\ <<"Decrypt", "dbKmsKey">> \in f.grants
       /\ UsesKey(f)
    BY <1>4, <1>5, <1>9 DEF Granted, UsesKey
<1>12. Makes(f, h, <<"Decrypt", "KMS_KEY_ID">>)
    BY <1>6, <1>9, <1>10, <1>11, KeyCall
<1>13. Makes(f, h, <<"GenerateMac", "USER_ID_HMAC_KEY_ID">>)
    BY <1>6, <1>9, <1>10, <1>11, KeyCall
<1>14. Makes(f, h, <<"DbConnect", "DSQL_ENDPOINT">>)
    BY <1>6, <1>9, <1>10, <1>11, ClusterCall
<1>15. Makes(f, h, <<"UpdateItem", "DATA_TABLE_NAME">>)
    BY <1>2, <1>6, <1>9, <1>10, <1>11, TableCall
<1>16. Equips(f, h)
    BY <1>2, <1>10, <1>12, <1>13, <1>14, <1>15 DEF Equips, Answers, VariableIs
<1>17. QED
    BY <1>1, <1>16 DEF h

LEMMA MigrationEquipped == Equips(liveSchemaMigration, liveSchemaMigrationHandler)
<1> DEFINE keys == [kmsKey |-> "kmsKey"]
           env == [DSQL_ENDPOINT |-> "cluster", SCHEMA_EXTRACTOR_ROLE_ARN |-> "schemaExtractorRole"]
           extra == On({"DbConnectAdmin"}, "cluster")
           f == LambdaApiConstruct("live-schema", <<>>, keys, {}, env, extra, LambdaSg)
           h == liveSchemaMigrationHandler
<1>1. liveSchemaMigration = f
    BY DEF liveSchemaMigration
<1>2. /\ h.requires = {"DSQL_ENDPOINT", "SCHEMA_EXTRACTOR_ROLE_ARN"}
      /\ h.calls = {<<"DbConnectAdmin", "DSQL_ENDPOINT">>}
    BY DEF liveSchemaMigrationHandler, Handler, On
<1>3. DOMAIN <<>> = {}
    OBVIOUS
<1>4. <<"DbConnectAdmin", "cluster">> \in extra /\ DSQL_PORT \in LambdaSg
    BY DEF On, LambdaSg
<1>5. VariableIs(env, "DSQL_ENDPOINT", "cluster") /\ "SCHEMA_EXTRACTOR_ROLE_ARN" \in DOMAIN env
    BY DEF VariableIs
<1> HIDE DEF extra, h, env, keys
<1>6. Wired(f.variables, <<>>, keys, {}, env)
    BY <1>3, ConstructWires
<1>7. Granted(f, <<>>, keys, {}, extra) /\ f.ports = LambdaSg
    BY ConstructGrants
<1> HIDE DEF f
<1>8. /\ VariableIs(f.variables, "DSQL_ENDPOINT", "cluster")
      /\ "SCHEMA_EXTRACTOR_ROLE_ARN" \in DOMAIN f.variables
    BY <1>5, <1>6 DEF Wired, VariableIs, OwnVariables
<1>9. Makes(f, h, <<"DbConnectAdmin", "DSQL_ENDPOINT">>)
    BY <1>4, <1>7, <1>8, ClusterCall DEF Granted
<1>10. Equips(f, h)
    BY <1>2, <1>8, <1>9 DEF Equips, Answers, VariableIs
<1>11. QED
    BY <1>1, <1>10 DEF h

-----------------------------------------------------------------------------
(* Nothing is refused.                                                     *)

LEMMA OwnKept ==
    ASSUME NEW f, NEW g, NEW x \in DOMAIN f
    PROVE  (f ++ g)[x] = f[x]
    BY DEF ++

SarFunctions ==
    [dsarRequest |-> dsarRequestLambda, dsarDelete |-> dsarDeleteLambda,
     createSarFile |-> createSarFileLambda,
     generateSarPresignedUrl |-> generateSarPresignedUrlLambda,
     dvlaPilotPurge |-> dvlaPilotPurgeLambda]

LiveSchemaFunctions(env) ==
    IF isNotProd(env)
    THEN [liveSchemaExtractor |-> schemaExtractor, liveSchemaMigration |-> liveSchemaMigration]
    ELSE <<>>

LEMMA FunctionsEquipped ==
    ASSUME NEW env \in Environments, NEW name \in DOMAIN functions[env]
    PROVE  Equips(functions[env][name], handlers[name])
<1> DEFINE a == createLambdaFunctions(env)
           b == SarFunctions
           c == LiveSchemaFunctions(env)
<1>1. functions[env] = (a ++ b) ++ c
    BY DEF functions, functionsOf, Environments, SarFunctions, LiveSchemaFunctions
<1>2. /\ DOMAIN a = setRoutes(env)
      /\ DOMAIN b = {"dsarRequest", "dsarDelete", "createSarFile", "generateSarPresignedUrl",
                     "dvlaPilotPurge"}
      /\ DOMAIN c \subseteq {"liveSchemaExtractor", "liveSchemaMigration"}
    BY DEF createLambdaFunctions, SarFunctions, LiveSchemaFunctions
<1>3. ASSUME NEW n \in DOMAIN b PROVE Equips(b[n], handlers[n])
    BY <1>2, DsarRequestEquipped, DsarDeleteEquipped, CreateSarFileEquipped, PresignedUrlEquipped, PurgeEquipped
       DEF SarFunctions, handlers
<1>4. ASSUME NEW n \in DOMAIN c PROVE Equips(c[n], handlers[n])
    BY <1>2, ExtractorEquipped, MigrationEquipped DEF LiveSchemaFunctions, handlers
<1>5. ASSUME NEW n \in DOMAIN a PROVE Equips(a[n], handlers[n])
    BY <1>2, RoutesEquipped
<1> HIDE DEF a, b, c
<1>6. ASSUME NEW f, NEW g, NEW n \in DOMAIN (f ++ g),
             \A m \in DOMAIN f : Equips(f[m], handlers[m]),
             \A m \in DOMAIN g : Equips(g[m], handlers[m])
      PROVE  Equips((f ++ g)[n], handlers[n])
    BY <1>6 DEF ++
<1>7. \A n \in DOMAIN (a ++ b) : Equips((a ++ b)[n], handlers[n])
    BY <1>3, <1>5, <1>6
<1>8. QED
    BY <1>1, <1>4, <1>6, <1>7

LEMMA NothingRefused == refused = {}
    BY FunctionsEquipped, EquippedIsNotRefused DEF refused

\* No function is denied anything - a variable, a grant, the key behind a
\* resource, an endpoint - however far the deployment is, but for the extractor
\* that meets events before the migration has mapped it.
THEOREM PlatformDeniesNothing == PlatformSpec => []NothingDenied
<1>1. PlatformInit => NothingDenied
    BY DEF PlatformInit, NothingDenied
<1>2. ASSUME NEW name
      PROVE  Denies(name) = IF name = "liveSchemaExtractor" /\ ~migrated
                            THEN {<<"DbConnect", "unmapped">>} ELSE {}
    BY NothingRefused DEF Denies
<1>3. ASSUME NEW name, NEW consumed, NothingDenied, Invoke(name, consumed)
      PROVE  NothingDenied'
    BY <1>2, <1>3 DEF NothingDenied, Invoke
<1>4. ASSUME NothingDenied, [PlatformNext]_platformVars
      PROVE  NothingDenied'
    <2>1. ASSUME NEW s, DeployStack(s) PROVE NothingDenied'
        BY <1>4, <2>1 DEF NothingDenied, DeployStack
    <2>2. ASSUME NEW name, ApiRequest(name) \/ DirectInvoke(name) PROVE NothingDenied'
        BY <1>3, <1>4, <2>2 DEF ApiRequest, DirectInvoke
    <2>3. ASSUME NEW name, NEW source, Consume(name, source) PROVE NothingDenied'
        BY <1>3, <1>4, <2>3 DEF Consume
    <2>4. CASE RunMigration
        BY <1>3, <1>4, <2>4 DEF RunMigration
    <2>5. CASE MigrationFails
        BY <1>4, <2>5 DEF MigrationFails, NothingDenied
    <2>6. CASE UNCHANGED platformVars
        BY <1>4, <2>6 DEF platformVars, NothingDenied
    <2>7. QED
        BY <1>4, <2>1, <2>2, <2>3, <2>4, <2>5, <2>6 DEF PlatformNext
<1>5. QED
    BY <1>1, <1>4, PTL DEF PlatformSpec

\* What holds of each module holds of everything that is done to the platform.
THEOREM OperationsHold ==
    Spec => [](/\ StatementsOnce /\ ConnectionSound /\ MigrationHolds
               /\ RestoredIsOwn /\ MonitoringCurrent /\ NothingDenied)
    BY ScenesAreSteps, StatementsRunOnce, ConnectionsAreSound, MigrationKeepsItsPromise,
       RestoresAreOwn, MonitoringIsCurrent, PlatformDeniesNothing, PTL

-----------------------------------------------------------------------------
(* A script comes to its end.                                              *)

\* The polls and other steps that a script has left at most.
Remaining(state) ==
    CASE state.pc = "check" -> 3 * MAX_POLLS + 3
      [] state.pc = "checkPitr" -> 3 * MAX_POLLS + 2
      [] state.pc = "start" -> 3 * MAX_POLLS + 1
      [] state.pc = "waitJob" -> 3 * MAX_POLLS - state.elapsed
      [] state.pc = "waitTable" -> 2 * MAX_POLLS - state.elapsed
      [] state.pc = "verify" -> 1
      [] OTHER -> 0

\* What a step of a script's own, and anybody's, does to what is left of it.
ScriptsAdvance ==
    [][\A r \in Runs :
          /\ ScriptStep(r) => Remaining(script[r])' < Remaining(script[r])
          /\ Running(r) => Remaining(script[r])' <= Remaining(script[r])]_restoreVars

LEMMA RemainingIsNat ==
    ASSUME NEW state \in ScriptStates \cup Reported \cup {NotRun}
    PROVE  Remaining(state) \in Nat
<1>1. CASE state \in ScriptStates
    BY <1>1, RestoreAssumption DEF ScriptStates, Remaining
<1>2. CASE state \in Reported \cup {NotRun}
    BY <1>2 DEF Reported, NotRun, Remaining
<1>3. QED
    BY <1>1, <1>2

LEMMA GotoAdvances ==
    ASSUME RestoreTypeOK, NEW r \in Runs, Running(r),
           NEW pc \in {"checkPitr", "start", "waitJob", "waitTable", "verify"}, Goto(r, pc),
           <<script[r].pc, pc>> \in {<<"check", "checkPitr">>, <<"check", "start">>,
               <<"checkPitr", "start">>, <<"start", "waitTable">>, <<"start", "waitJob">>,
               <<"waitJob", "waitTable">>, <<"waitJob", "verify">>, <<"waitTable", "verify">>}
    PROVE  Remaining(script'[r]) < Remaining(script[r])
<1>1. script[r] \in ScriptStates
    BY DEF RestoreTypeOK, Running, NotRun, Reported
<1>2. script'[r].pc = pc /\ script'[r].elapsed = 0
    BY <1>1 DEF Goto, RestoreTypeOK, ScriptStates
<1>3. QED
    BY <1>1, <1>2, RestoreAssumption DEF ScriptStates, Remaining

LEMMA FailsAdvances ==
    ASSUME RestoreTypeOK, NEW r \in Runs, Running(r), Fails(r)
    PROVE  Remaining(script'[r]) < Remaining(script[r])
<1>1. script[r] \in ScriptStates
    BY DEF RestoreTypeOK, Running, NotRun, Reported
<1>2. script'[r] = [pc |-> "failed"]
    BY DEF Fails, RestoreTypeOK
<1>3. Remaining(script'[r]) = 0
    BY <1>2 DEF Remaining
<1>4. Remaining(script[r]) > 0
    BY <1>1, RestoreAssumption DEF ScriptStates, Remaining
<1>5. QED
    BY <1>3, <1>4

LEMMA PollAdvances ==
    ASSUME RestoreTypeOK, NEW r \in Runs, At(r, "waitJob") \/ At(r, "waitTable"), PollsOn(r)
    PROVE  Remaining(script'[r]) < Remaining(script[r])
<1>1. Running(r)
    BY DEF At, Running
<1>2. script[r] \in ScriptStates
    BY <1>1 DEF RestoreTypeOK, Running, NotRun, Reported
<1>3. CASE script[r].elapsed + 1 < MAX_POLLS
    <2>1. /\ script'[r].pc = script[r].pc
          /\ script'[r].elapsed = script[r].elapsed + 1
        BY <1>2, <1>3 DEF PollsOn, RestoreTypeOK, ScriptStates
    <2>2. QED
        BY <1>2, <2>1, RestoreAssumption DEF ScriptStates, Remaining, At
<1>4. CASE ~(script[r].elapsed + 1 < MAX_POLLS)
    BY <1>1, <1>4, FailsAdvances DEF PollsOn
<1>5. QED
    BY <1>3, <1>4

LEMMA StepAdvances ==
    ASSUME RestoreTypeOK, NEW r \in Runs, ScriptStep(r) \/ CallFails(r)
    PROVE  Running(r) => Remaining(script'[r]) < Remaining(script[r])
<1> SUFFICES ASSUME Running(r) PROVE Remaining(script'[r]) < Remaining(script[r])
    OBVIOUS
<1>1. CASE CheckTarget(r)
    BY <1>1, FailsAdvances, GotoAdvances DEF CheckTarget, At
<1>2. CASE CheckPitr(r)
    BY <1>2, FailsAdvances, GotoAdvances DEF CheckPitr, At
<1>3. CASE StartPitr(r)
    BY <1>3, FailsAdvances, GotoAdvances DEF StartPitr, At
<1>4. CASE StartJob(r)
    BY <1>4, GotoAdvances DEF StartJob, At
<1>5. CASE PollJob(r)
    BY <1>5, FailsAdvances, GotoAdvances, PollAdvances DEF PollJob, At
<1>6. CASE PollTable(r)
    BY <1>6, GotoAdvances, PollAdvances DEF PollTable, At
<1>7. CASE Verify(r)
    <2>1. script'[r].pc = "complete"
        BY <1>7 DEF Verify, RestoreTypeOK
    <2>2. QED
        BY <1>7, <2>1 DEF Verify, At, Remaining
<1>8. CASE CallFails(r)
    BY <1>8, FailsAdvances DEF CallFails
<1>9. QED
    BY <1>1, <1>2, <1>3, <1>4, <1>5, <1>6, <1>7, <1>8 DEF ScriptStep

\* Another run's steps leave a script alone.
LEMMA OthersWait ==
    ASSUME RestoreTypeOK, NEW r \in Runs, NEW o \in Runs, o # r,
           (\E config \in Configs : Begin(o, config)) \/ ScriptStep(o) \/ CallFails(o)
    PROVE  script'[r] = script[r]
    BY DEF RestoreTypeOK, Begin, ScriptStep, CallFails, CheckTarget, CheckPitr, StartPitr,
           StartJob, PollJob, PollTable, Verify, PollsOn, Goto, Fails

\* Each step of a script leaves it less to do, and nothing that AWS, another run
\* or an operator does gives it more: a run takes 3 * MAX_POLLS + 3 steps at most.
THEOREM ScriptsComeToAnEnd == RestoreSpec => ScriptsAdvance
<1>1. ASSUME RestoreTypeOK, RestoreNext, NEW r \in Runs, Running(r), script'[r] # script[r]
      PROVE  Remaining(script'[r]) < Remaining(script[r])
    <2>1. ASSUME NEW o \in Runs, NEW config \in Configs, Begin(o, config) PROVE FALSE
        <3>1. o = r
            BY <1>1, <2>1, OthersWait
        <3>2. QED
            BY <1>1, <2>1, <3>1 DEF Begin, Running, NotRun
    <2>2. ASSUME NEW o \in Runs, ScriptStep(o) \/ CallFails(o)
          PROVE  Remaining(script'[r]) < Remaining(script[r])
        <3>1. o = r
            BY <1>1, <2>2, OthersWait
        <3>2. QED
            BY <1>1, <2>2, <3>1, StepAdvances
    <2>3. QED
        BY <1>1, <2>1, <2>2 DEF RestoreNext, JobMakes, JobCompletes, JobFails, BecomesActive,
           DeleteTarget
<1>2. ASSUME RestoreTypeOK, RestoreTypeOK', [RestoreNext]_restoreVars, NEW r \in Runs
      PROVE  /\ ScriptStep(r) => Remaining(script[r])' < Remaining(script[r])
             /\ Running(r) => Remaining(script[r])' <= Remaining(script[r])
    <2>1. Remaining(script[r])' = Remaining(script'[r])
        BY DEF Remaining
    <2>2. ASSUME ScriptStep(r) PROVE Remaining(script'[r]) < Remaining(script[r])
        <3>1. Running(r)
            BY <2>2 DEF ScriptStep, CheckTarget, CheckPitr, StartPitr, StartJob, PollJob,
               PollTable, Verify, At, Running
        <3>2. QED
            BY <1>2, <2>2, <3>1, StepAdvances
    <2>3. ASSUME Running(r) PROVE Remaining(script'[r]) <= Remaining(script[r])
        <3>1. script[r] \in ScriptStates
            BY <1>2, <2>3 DEF RestoreTypeOK, Running, NotRun, Reported
        <3>2. Remaining(script[r]) \in Nat
            BY <3>1, RemainingIsNat
        <3>3. CASE script'[r] = script[r]
            BY <3>2, <3>3
        <3>4. CASE script'[r] # script[r]
            <4>1. Remaining(script'[r]) < Remaining(script[r])
                BY <1>1, <1>2, <2>3, <3>4 DEF restoreVars
            <4>2. script'[r] \in ScriptStates \cup Reported \cup {NotRun}
                BY <1>2 DEF RestoreTypeOK
            <4>3. Remaining(script'[r]) \in Nat
                BY <4>2, RemainingIsNat
            <4>4. QED
                BY <3>2, <4>1, <4>3
        <3>5. QED
            BY <3>3, <3>4
    <2>4. QED
        BY <2>1, <2>2, <2>3
<1>3. RestoreInv => RestoreTypeOK
    BY DEF RestoreInv
<1>4. RestoreTypeOK /\ RestoreTypeOK' /\ [RestoreNext]_restoreVars =>
        [\A r \in Runs :
            /\ ScriptStep(r) => Remaining(script[r])' < Remaining(script[r])
            /\ Running(r) => Remaining(script[r])' <= Remaining(script[r])]_restoreVars
    BY <1>2
<1>5. QED
    BY <1>3, <1>4, RestoreInvariance, PTL DEF RestoreSpec, ScriptsAdvance

=============================================================================

----------------------------- MODULE MCOperations -----------------------------
(***************************************************************************)
(* What is done to the platform rather than with it, in one run: each      *)
(* behaviour is a scene, of one module whose variables alone change.  The  *)
(* migration has two, as overlapping runs and ageing connections matter    *)
(* apart from each other.  Runs that differ in nothing but their names     *)
(* begin in one order.                                                     *)
(***************************************************************************)
EXTENDS Migration, Restore, Platform, Monitoring, TLC

CONSTANTS a1, x1, m1, m2, r1, r2

VARIABLE scene

MCArnOf == x1 :> a1

others == <<migrationVars, restoreVars, platformVars, monitoringVars>>

Init ==
    /\ scene \in {"overlap", "aging", "restore", "platform", "monitoring"}
    /\ MigrationInit /\ RestoreInit /\ PlatformInit /\ MonitoringInit
    /\ scene = "restore" \/ \A t \in Targets \ (Foreign \cup {SourceBucket}) : target[t] = NotFound
    /\ scene = "platform" \/ environment = "dev"

MigrationScenes ==
    /\ scene \in {"overlap", "aging"}
    /\ MigrationNext
    /\ scene = "overlap" => uses' = 0 /\ clock' = 0
    /\ scene = "aging" \/ job[m1] = Idle => job'[m2] = Idle
    /\ UNCHANGED <<restoreVars, platformVars, monitoringVars>>

RestoreScene(A) ==
    /\ scene = "restore" /\ A
    /\ UNCHANGED <<migrationVars, platformVars, monitoringVars>>

PlatformScene(A) ==
    /\ scene = "platform" /\ A
    /\ UNCHANGED <<migrationVars, restoreVars, monitoringVars>>

MonitoringScene ==
    /\ scene = "monitoring" /\ MonitoringNext
    /\ UNCHANGED <<migrationVars, restoreVars, platformVars>>

Next ==
    /\ \/ MigrationScenes
       \/ RestoreScene(RestoreNext) /\ (script[r1] = NotRun => script'[r2] = NotRun)
       \/ PlatformScene(PlatformNext)
       \/ MonitoringScene
    /\ UNCHANGED scene

\* A script polls on by itself, AWS owes no end to a job.  Stacks that can be
\* deployed are, except for the one a migration may take back; an event source
\* hands over until what waits is consumed.
Fairness ==
    /\ \A r \in Runs : WF_restoreVars(RestoreScene(ScriptStep(r)))
    /\ \A s \in {"vpc", "main", "sar"} : WF_platformVars(PlatformScene(DeployStack(s)))
    /\ \A source \in Sources \ {"stream"} :
          WF_platformVars(PlatformScene(\E name \in DOMAIN handlers : Consume(name, source)))

Spec == Init /\ [][Next]_<<others, scene>> /\ Fairness

OperationsTypeOK == MigrationTypeOK /\ RestoreTypeOK /\ PlatformTypeOK /\ MonitoringTypeOK
=============================================================================

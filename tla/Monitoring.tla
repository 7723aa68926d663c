------------------------------ MODULE Monitoring ------------------------------
(***************************************************************************)
(* The monitoring stack of dev: each release, once it has deployed its     *)
(* functions, runs a job that discovers what is tagged Monitor, makes a    *)
(* template of alarms and dashboards of it, and deploys that unless it has *)
(* the hash saved by the last job that did.  Releases overlap; the jobs    *)
(* form a concurrency group, in which one runs and the latest waits.       *)
(* Meanwhile developers and pull requests deploy stacks of their own, and  *)
(* operators deploy or destroy the monitoring stack by hand.               *)
(*                                                                         *)
(* All names end in the environment; a hash is as good as its template.    *)
(***************************************************************************)

CONSTANTS
    Releases,           \* runs of release.yml
    LambdaNames, TableNames,
    PrNames,            \* resources of the stacks of pull requests: pr-*
    DeveloperNames,     \* those of developers' stacks
    Operator

Names == LambdaNames \cup TableNames
SharedLambdas == LambdaNames \ (PrNames \cup DeveloperNames)

ASSUME MonitoringAssumption ==
    /\ PrNames \cap DeveloperNames = {}
    /\ PrNames \cup DeveloperNames \subseteq LambdaNames
    /\ LambdaNames \cap TableNames = {}
    /\ Operator \notin Releases

VARIABLES
    tagged,         \* the functions and tables there are with the tag
    monitoring,     \* the stack: what it holds, and whether it exists
    savedHash,      \* the parameter template-hash: {} if there is none
    release,        \* what each release is doing
    unfollowed,     \* history: something has changed, or a job failed, and no
                    \* job has discovered what there is since
    unsaved         \* history: whose change of the stack the hash does not tell of

monitoringVars == <<tagged, monitoring, savedHash, release, unfollowed, unsaved>>

-----------------------------------------------------------------------------
(* discover-monitored-resources.ts and the stack's template.               *)

\* Without a developer id, as for the shared stacks.
matchesEnv(name) == name \notin PrNames

discoverMonitoredResources(names) ==
    [lambdaNames |-> {n \in names \cap LambdaNames : matchesEnv(n)},
     tableNames |-> {n \in names \cap TableNames : matchesEnv(n)}]

\* What an alarm or a widget watches, and where it shows.
createDynamoDBAlarms(tables) ==
    tables \X {"ReadThrottled", "WriteThrottled", "SystemErrors"} \X {"criticalTopic"}
createApiGatewayAlarms ==
    {<<"api", "5xxErrors", "criticalTopic">>, <<"api", "4xxErrors", "warningTopic">>,
     <<"api", "Latency", "criticalTopic">>}
createLambdaAlarms(lambdas) ==
    lambdas \X {"Errors", "Duration", "Throttles"} \X {"criticalTopic"}

addDynamoDBWidgets(tables) == tables \X {"Capacity", "Latency"} \X {"dashboard"}
addApiGatewayWidgets == {"api"} \X {"Requests", "Latency"} \X {"dashboard"}
addLambdaWidgets(lambdas) == lambdas \X {"Invocations"} \X {"dashboard"}

\* The sections of the performance dashboard.
Shown(sources, metrics) == sources \X metrics \X {"performanceDashboard"}
nfrSummary == Shown({"api"}, {"LatencyP95", "ErrorRate", "Throughput"})
latencyBreakdown(tables, lambdas) ==
    Shown({"api"}, {"Latency", "IntegrationLatency"})
    \cup Shown(lambdas, {"Duration"}) \cup Shown(tables, {"RequestLatency"})
errorAnalysis(tables, lambdas) ==
    Shown({"api"}, {"ErrorRateOverTime", "ErrorCounts"})
    \cup Shown(lambdas, {"Errors"}) \cup Shown(tables, {"SystemErrors"})
throttlingAndCapacity(tables, lambdas) ==
    Shown(tables, {"ConsumedCapacity", "Throttled"}) \cup Shown(lambdas, {"Throttles"})
scalingAndColdStarts(lambdas) ==
    Shown(lambdas, {"ConcurrentExecutions", "InitDuration", "Invocations"})

createPerformanceDashboard(tables, lambdas) ==
    nfrSummary \cup latencyBreakdown(tables, lambdas) \cup errorAnalysis(tables, lambdas)
    \cup throttlingAndCapacity(tables, lambdas) \cup scalingAndColdStarts(lambdas)

\* What the stack made of an inventory holds.
MonitoringStack(inventory) ==
    createDynamoDBAlarms(inventory.tableNames) \cup addDynamoDBWidgets(inventory.tableNames)
    \cup createApiGatewayAlarms \cup addApiGatewayWidgets
    \cup createLambdaAlarms(inventory.lambdaNames) \cup addLambdaWidgets(inventory.lambdaNames)
    \cup createPerformanceDashboard(inventory.tableNames, inventory.lambdaNames)

Templates ==
    {MonitoringStack(discoverMonitoredResources(names \cup TableNames)) :
        names \in SUBSET LambdaNames}

Absent == [exists |-> FALSE, holds |-> {}]

-----------------------------------------------------------------------------

Over == {"notRun", "done", "failed", "cancelled"}
JobSteps == {"discover", "compare", "deploy", "save"}
Doing(r) == release[r].pc
Waiting(pc) == [pc |-> pc, template |-> {}]
Proceed(r, pc) ==
    release' = [release EXCEPT ![r] = IF pc \in Over THEN Waiting(pc) ELSE [@ EXCEPT !.pc = pc]]

MonitoringInit ==
    /\ tagged = TableNames \cup SharedLambdas
    /\ monitoring = Absent /\ savedHash = {}
    /\ release = [r \in Releases |-> Waiting("notRun")]
    /\ unfollowed = TRUE /\ unsaved = {}

BeginRelease(r) ==
    /\ Doing(r) = "notRun"
    /\ Proceed(r, "deploying")
    /\ UNCHANGED <<tagged, monitoring, savedHash, unfollowed, unsaved>>

\* A stack of the release comes into effect: functions are added or removed.
Redeploy(r, lambdas) ==
    /\ Doing(r) = "deploying"
    /\ tagged' = (tagged \ SharedLambdas) \cup lambdas
    /\ UNCHANGED <<monitoring, savedHash, release, unfollowed, unsaved>>

DeploymentFails(r) ==
    /\ Doing(r) = "deploying"
    /\ Proceed(r, "failed")
    /\ unfollowed' = TRUE
    /\ UNCHANGED <<tagged, monitoring, savedHash, unsaved>>

\* A job that comes to wait cancels the one that waits already.
Enqueue(r) ==
    /\ Doing(r) = "deploying"
    /\ release' = [q \in Releases |->
            [release[q] EXCEPT !.pc = IF q = r THEN "queued"
                                      ELSE IF @ = "queued" THEN "cancelled" ELSE @]]
    /\ UNCHANGED <<tagged, monitoring, savedHash, unfollowed, unsaved>>

BeginJob(r) ==
    /\ Doing(r) = "queued"
    /\ \A q \in Releases : Doing(q) \notin JobSteps
    /\ Proceed(r, "discover")
    /\ UNCHANGED <<tagged, monitoring, savedHash, unfollowed, unsaved>>

Discover(r) ==
    /\ Doing(r) = "discover"
    /\ release' = [release EXCEPT ![r] =
            [pc |-> "compare",
             template |-> MonitoringStack(discoverMonitoredResources(tagged))]]
    /\ unfollowed' = FALSE
    /\ UNCHANGED <<tagged, monitoring, savedHash, unsaved>>

\* Fault: the hash is taken for the stack.
HashDecides(template) == savedHash = {} \/ template # savedHash

deployRequired(template) ==
    \/ savedHash = {}
    \/ ~monitoring.exists
    \/ template # savedHash

Compare(r) ==
    /\ Doing(r) = "compare"
    /\ Proceed(r, IF deployRequired(release[r].template) THEN "deploy" ELSE "done")
    /\ UNCHANGED <<tagged, monitoring, savedHash, unfollowed, unsaved>>

DeployMonitoring(r) ==
    /\ Doing(r) = "deploy"
    /\ monitoring' = [exists |-> TRUE, holds |-> release[r].template]
    /\ unsaved' = {r}
    /\ Proceed(r, "save")
    /\ UNCHANGED <<tagged, savedHash, unfollowed>>

SaveHash(r) ==
    /\ Doing(r) = "save"
    /\ savedHash' = release[r].template
    /\ unsaved' = unsaved \ {r}
    /\ Proceed(r, "done")
    /\ UNCHANGED <<tagged, monitoring, unfollowed>>

\* Any step may fail.  An update that fails is rolled back; a creation leaves a
\* stack that holds nothing.
MonitoringFails(r) ==
    /\ Doing(r) \in JobSteps
    /\ Proceed(r, "failed")
    /\ unfollowed' = TRUE
    /\ UNCHANGED <<tagged, savedHash>>
    /\ \/ UNCHANGED <<monitoring, unsaved>>
       \/ /\ Doing(r) = "deploy" /\ ~monitoring.exists
          /\ monitoring' = [exists |-> TRUE, holds |-> {}]
          /\ unsaved' = {r}

-----------------------------------------------------------------------------
(* What happens beside the releases.                                       *)

PrDeploys(lambdas) ==
    /\ tagged' = (tagged \ PrNames) \cup lambdas
    /\ UNCHANGED <<monitoring, savedHash, release, unfollowed, unsaved>>

\* The names of a developer's stacks match the environment's.
DeveloperDeploys(lambdas) ==
    /\ tagged' = (tagged \ DeveloperNames) \cup lambdas
    /\ unfollowed' = TRUE
    /\ UNCHANGED <<monitoring, savedHash, release, unsaved>>

\* pnpm cdk:deploy:monitoring:dev, with the inventory file at hand, saves no hash.
DeployByHand(template) ==
    /\ monitoring' = [exists |-> TRUE, holds |-> template]
    /\ unsaved' = {Operator}
    /\ unfollowed' = TRUE
    /\ UNCHANGED <<tagged, savedHash, release>>

DestroyByHand ==
    /\ monitoring' = Absent
    /\ unsaved' = {}
    /\ unfollowed' = TRUE
    /\ UNCHANGED <<tagged, savedHash, release>>

ReleaseStep(r) ==
    \/ BeginRelease(r) \/ DeploymentFails(r) \/ Enqueue(r)
    \/ \E lambdas \in SUBSET SharedLambdas : Redeploy(r, lambdas)
    \/ BeginJob(r) \/ Discover(r) \/ Compare(r) \/ DeployMonitoring(r) \/ SaveHash(r)
    \/ MonitoringFails(r)

MonitoringNext ==
    \/ \E r \in Releases : ReleaseStep(r)
    \/ \E lambdas \in SUBSET PrNames : PrDeploys(lambdas)
    \/ \E lambdas \in SUBSET DeveloperNames : DeveloperDeploys(lambdas)
    \/ \E template \in Templates : DeployByHand(template)
    \/ DestroyByHand

MonitoringSpec == MonitoringInit /\ [][MonitoringNext]_monitoringVars

-----------------------------------------------------------------------------

MonitoringTypeOK ==
    /\ tagged \subseteq Names
    /\ monitoring \in [exists : BOOLEAN, holds : Templates \cup {{}}]
    /\ savedHash \in Templates \cup {{}}
    /\ release \in [Releases -> [pc : Over \cup JobSteps \cup {"deploying", "queued"},
                                 template : Templates \cup {{}}]]
    /\ unfollowed \in BOOLEAN
    /\ unsaved \subseteq Releases \cup {Operator}

(***************************************************************************)
(* Once every release is over, whichever jobs were cancelled or skipped    *)
(* their deployment, the stack watches exactly what is tagged - provided   *)
(* every change of functions was a release's and succeeded, the last job   *)
(* to discover did, and the hash tells of the last change of the stack.    *)
(* When it does not - a job that fails between the deployment and the      *)
(* parameter, a deployment by hand, a creation rolled back - a later       *)
(* template with the old hash is skipped and the alarms stay wrong.        *)
(***************************************************************************)
MonitoringCurrent ==
    (\A r \in Releases : Doing(r) \in Over) /\ ~unfollowed /\ unsaved = {}
        => monitoring.holds = MonitoringStack(discoverMonitoredResources(tagged))
=============================================================================

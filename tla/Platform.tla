------------------------------- MODULE Platform -------------------------------
(***************************************************************************)
(* One environment from its first deployment on: the stacks come in the    *)
(* order of their dependencies, the live schema stack with a migration     *)
(* that may fail and take the stack with it, while requests reach what is  *)
(* there already and messages wait for functions that are not.             *)
(*                                                                         *)
(* What a function does with its data is the business of the components'   *)
(* own modules; here an invocation takes place if Wiring refuses it        *)
(* nothing, and leaves messages and events behind.                         *)
(***************************************************************************)
EXTENDS Wiring

VARIABLES
    environment,  \* the one of the app this is
    deployed,   \* the stacks there are
    migrated,   \* the migration has run to its end
    waiting,    \* the queues, the bucket and the stream with something to consume
    denied      \* history: what a function was refused

platformVars == <<environment, deployed, migrated, waiting, denied>>

Sources == {"dsarQueue", "sarQueue", "dsarDeleteQueue", "sarBucket", "stream"}

PlatformInit ==
    /\ environment \in Environments
    /\ deployed = {} /\ migrated = FALSE
    /\ waiting = {} /\ denied = {}

\* A stack is deployed when what it depends on is.
DeployStack(s) ==
    /\ s \in stacks(environment) \ deployed
    /\ dependencies[s] \subseteq deployed
    /\ deployed' = deployed \cup {s}
    /\ UNCHANGED <<environment, migrated, waiting, denied>>

\* What an invocation sends messages or objects to; sarDLQueue is read by nobody.
Sends(e, name) ==
    {resourceOf(functions[e][name], request) :
        request \in {c \in handlers[name].calls : c[1] \in {"SendMessage", "PutObject"}}}
            \cap Sources

sends ==
    UNION {UNION {{<<e, name>>} \X Sends(e, name) : name \in DOMAIN functions[e]} :
           e \in Environments}

\* The stream starts with the stack that reads it.
Leaves(name) ==
    {source \in Sources : <<<<environment, name>>, source>> \in sends}
        \cup (IF name \in {"postData", "patchData"} /\ "live-schema" \in deployed
              THEN {"stream"} ELSE {})

Denies(name) ==
    {refusal[2] : refusal \in {r \in refused : r[1] = <<environment, name>>}}
        \cup (IF name = "liveSchemaExtractor" /\ ~migrated
              THEN {<<"DbConnect", "unmapped">>} ELSE {})

There(name) == name \in DOMAIN functions[environment] /\ functions[environment][name].stack \in deployed

\* An invocation that is refused something has no effect and leaves what it
\* was to consume.
Invoke(name, consumed) ==
    /\ There(name)
    /\ denied' = denied \cup {<<name, refusal>> : refusal \in Denies(name)}
    /\ waiting' = IF Denies(name) = {} THEN (waiting \ consumed) \cup Leaves(name)
                  ELSE waiting
    /\ UNCHANGED <<environment, deployed>>

-----------------------------------------------------------------------------
(* The API: a route that is not disabled has a method on the resource of   *)
(* its path.  A request goes to the most specific resource that fits it,   *)
(* and is refused when that has no such method.                            *)

apiRoutes(e) == {r \in setRoutes(e) : r \notin disabledRoutes}

Prefixes(path) == {SubSeq(path, 1, n) : n \in 1..Len(path)}
resources(e) == UNION {Prefixes(routes[r].path) : r \in apiRoutes(e)}

Fits(resource, path) ==
    \/ resource = <<"{+}">>
    \/ /\ Len(resource) = Len(path)
       /\ \A i \in DOMAIN path : resource[i] \in {path[i], "{}"}

\* A name is more specific than a parameter, and any parameter than the rest
\* of the path.
MoreSpecific(r1, r2) ==
    \/ r2 = <<"{+}">> /\ r1 # r2
    \/ /\ Len(r1) = Len(r2)
       /\ \E i \in DOMAIN r1 : /\ r1[i] # r2[i] /\ r2[i] = "{}"
                               /\ \A j \in 1..(i - 1) : r1[j] = r2[j]

Resource(e, path) ==
    CHOOSE r \in resources(e) :
        /\ Fits(r, path)
        /\ \A other \in resources(e) \ {r} : Fits(other, path) => MoreSpecific(r, other)

\* PERMISSIONS_TO_METHODS; the test consumer has every permission.
PERMISSIONS_TO_METHODS ==
    [read |-> {"GET"}, write |-> {"POST", "PUT", "PATCH"}, delete |-> {"DELETE"}]
testConsumer == {"read", "write", "delete"}

\* Parameters are filled with a name no route has.
Paths == {[i \in DOMAIN routes[r].path |->
              IF routes[r].path[i] \in {"{}", "{+}"} THEN "any" ELSE routes[r].path[i]] :
          r \in DOMAIN routes}

\* The function a request of the consumer goes to.
Dispatch(e, method, path) ==
    LET fitting == {r \in apiRoutes(e) :
            routes[r].method = method /\ routes[r].path = Resource(e, path)}
    IN  IF fitting = {} THEN "none" ELSE CHOOSE r \in fitting : TRUE

Methods == UNION {PERMISSIONS_TO_METHODS[p] : p \in testConsumer}

dispatched ==
    {<<e, Dispatch(e, method, path)>> : e \in Environments, method \in Methods, path \in Paths}

ApiRequest(name) ==
    /\ <<environment, name>> \in dispatched
    /\ Invoke(name, {})
    /\ UNCHANGED migrated

\* A function without a method: the purge, and those of disabled routes where
\* they exist, which is how their pipelines start.
DirectInvoke(name) ==
    /\ name \in disabledRoutes \cup {"dvlaPilotPurge"}
    /\ Invoke(name, {})
    /\ UNCHANGED migrated

\* An event source hands over what waits, until it has been consumed.
Consume(name, source) ==
    /\ <<name, source>> \in eventSources(environment)
    /\ source \in waiting
    /\ Invoke(name, {source})
    /\ UNCHANGED migrated

\* MigrationTrigger: an exception of the function takes the new stack back.
RunMigration ==
    /\ ~migrated
    /\ Invoke("liveSchemaMigration", {})
    /\ migrated' = (Denies("liveSchemaMigration") = {})

MigrationFails ==
    /\ "live-schema" \in deployed /\ ~migrated
    /\ deployed' = deployed \ {"live-schema"}
    /\ waiting' = waiting \ {"stream"}
    /\ UNCHANGED <<environment, migrated, denied>>

PlatformNext ==
    \/ \E s \in stacks(environment) : DeployStack(s)
    \/ \E name \in DOMAIN handlers : ApiRequest(name) \/ DirectInvoke(name)
    \/ \E name \in DOMAIN handlers, source \in Sources : Consume(name, source)
    \/ RunMigration \/ MigrationFails

PlatformSpec == PlatformInit /\ [][PlatformNext]_platformVars

-----------------------------------------------------------------------------

PlatformTypeOK ==
    /\ environment \in Environments
    /\ deployed \subseteq stacks(environment)
    /\ migrated \in BOOLEAN
    /\ waiting \subseteq Sources
    /\ \A d \in denied : Len(d) = 2

(***************************************************************************)
(* Whatever handler runs, in whichever environment and however far the     *)
(* deployment is: the variables it requires are set, every call it makes   *)
(* is granted on the resource its variable names, with the key that        *)
(* encrypts it, and reaches an endpoint whose policy lets it pass.  Only   *)
(* an extractor that meets events before the migration has run is turned   *)
(* away, by the cluster.                                                   *)
(***************************************************************************)
NothingDenied == denied \subseteq {<<"liveSchemaExtractor", <<"DbConnect", "unmapped">>>>}

(***************************************************************************)
(* What a request, a message or an event can put in a queue or the SAR     *)
(* bucket of an environment is consumed: what is accepted while the SAR    *)
(* stack is not there yet is once it is.  (In stag and prod nothing reads  *)
(* the queue that dsarRequestLambda would fill, but no message reaches     *)
(* that function there.)                                                   *)
(***************************************************************************)
MessagesConsumed ==
    \A source \in Sources \ {"stream"} : source \in waiting ~> source \notin waiting
=============================================================================

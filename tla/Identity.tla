------------------------------ MODULE Identity ------------------------------
(***************************************************************************)
(* The identity service (DynamoDBIdentityService), the six API handlers    *)
(* that call it, and the DVLA pilot purge that deletes from its table.     *)
(*                                                                         *)
(* The identity table holds rows keyed by "service#id" (partition) and     *)
(* udpId (sort).  A name resolves to the row with its lowest udpId.  Reads *)
(* are eventually consistent, and reads by udpId go to the sk-index: both  *)
(* may see a replica that follows the table with a delay.  A row may have  *)
(* a ttl, after which DynamoDB deletes it, sooner or later.                *)
(*                                                                         *)
(* Handlers run concurrently and make one storage call per step.  Tokens,  *)
(* encryption and the texts of answers play no part here.                  *)
(***************************************************************************)
EXTENDS ApiContract, FiniteSets

CONSTANTS
    Users,          \* the udpIds, ordered as the table orders its sort keys
    ServiceNames,   \* service names as requests spell them
    Lower,          \* the lower-case form of each of them
    Ids,            \* the users' identifiers within a service
    Calls,          \* the requests API clients make
    Handlers,       \* concurrent invocations of the API handlers
    InitialRows,    \* the identity table at the start
    BATCH_SIZE,     \* rows the purge deletes at a time
    MaxTime,        \* bound: the last time, in seconds
    MaxRequests,    \* bound: API requests in a behaviour
    MaxPurges       \* bound: executions of the purge in a behaviour

NoTtl == 0
Times == 1..MaxTime
Names == ServiceNames \X Ids
Rows == [name : Names, user : Users, ttl : Times \cup {NoTtl}]

CreateUserCalls == [op : {"createUser"}, appId : Ids]
CreateIdentityCalls ==
    [op : {"createIdentity"}, name : Names, appId : Ids, expiresAt : Times \cup {NoTtl}]
LookupCalls == [op : {"readIdentity", "deleteIdentity", "getAllLinkedService"}, name : Names]
ExchangeCalls == [op : {"exchangeIdentity"}, name : Names, requiredService : ServiceNames]
AllCalls == CreateUserCalls \cup CreateIdentityCalls \cup LookupCalls \cup ExchangeCalls

ASSUME OrderedKeys == Users \subseteq Nat /\ Ids \subseteq Nat
ASSUME LowerCase ==
    /\ Lower \in [ServiceNames -> ServiceNames]
    /\ \A s \in ServiceNames : Lower[Lower[s]] = Lower[s]
    /\ {"app", "dvla"} \subseteq ServiceNames
    /\ Lower["app"] = "app" /\ Lower["dvla"] = "dvla"
ASSUME CallsAreCalls == Calls \subseteq AllCalls
ASSUME InitialTable ==
    /\ InitialRows \subseteq Rows
    /\ \A r, q \in InitialRows : r.name = q.name => r = q
ASSUME Bounds ==
    /\ MaxTime \in Nat \ {0} /\ BATCH_SIZE \in Nat \ {0}
    /\ MaxRequests \in Nat /\ MaxPurges \in Nat

VARIABLES
    rows,       \* the identity table
    replica,    \* what the sk-index and a lagging replica of the table hold
    now,        \* the time
    issued,     \* the udpIds handed out
    worker,     \* what each invocation of an API handler does
    answer,     \* what the last step answered, if it did
    requests,   \* API requests so far
    purge,      \* the purge
    purges,     \* executions of the purge so far
    excused,    \* history: creations that another row of their name escaped
    contested,  \* history: names that rows of two users were put under
    settled,    \* history: requests whose name has been in order all along
    targets     \* history: DVLA rows the purge found and nobody put since

tables == <<rows, replica, now, issued>>
api == <<worker, requests, excused, contested>>

purging == <<purge, purges, targets>>
vars == <<tables, api, answer, purging, settled>>

-----------------------------------------------------------------------------
Idle == [pc |-> "idle"]
Running == [pc : {"putUser", "putLink", "queryLinked", "queryBySk", "delete"},
            call : Calls, user : Users]
Answers == [call : Calls, status : {200, 204, 400, 404, 500}, items : SUBSET Rows,
            settled : BOOLEAN]
NoAnswer == [status |-> 0]
Purging == [pc : {"scan", "delete"}, unscanned : SUBSET Names,
            keys : SUBSET (Names \X Users), batch : SUBSET (Names \X Users),
            failed : BOOLEAN]
Purged == [pc : {"purged"}, failed : BOOLEAN]

TypeOK ==
    /\ rows \in SUBSET Rows
    /\ replica \in SUBSET Rows
    /\ now \in Times
    /\ issued \in SUBSET Users
    /\ worker \in [Handlers -> Running \cup {Idle}]
    /\ answer \in Answers \cup {NoAnswer}
    /\ requests \in 0..MaxRequests
    /\ purge \in Purging \cup Purged \cup {Idle}
    /\ purges \in 0..MaxPurges
    /\ excused \in [Handlers -> BOOLEAN]
    /\ contested \in SUBSET Names
    /\ settled \in [Handlers -> BOOLEAN]
    /\ targets \in SUBSET Rows

Init ==
    /\ rows = InitialRows
    /\ replica = InitialRows
    /\ now = 1
    /\ issued = {r.user : r \in InitialRows}
    /\ worker = [h \in Handlers |-> Idle]
    /\ answer = NoAnswer
    /\ requests = 0
    /\ purge = Idle
    /\ purges = 0
    /\ excused = [h \in Handlers |-> FALSE]
    /\ contested = {}
    /\ settled = [h \in Handlers |-> FALSE]
    /\ targets = {}

-----------------------------------------------------------------------------
(* Reads.  Each is made of a table t, the current one or the replica.      *)

Key(r) == <<r.name, r.user>>

\* The query's condition before the ttl of the row is looked at.
RowsOf(t, name) == {r \in t : r.name = name}

ExpiredAt(r, time) == r.ttl # NoTtl /\ r.ttl < time

\* Query with Limit 1: the row with the lowest udpId, unless that has expired.
findByPk(t, name) ==
    {r \in RowsOf(t, name) :
        /\ \A q \in RowsOf(t, name) : r.user <= q.user
        /\ ~ExpiredAt(r, now)}

\* Fault: the service name is looked up as the request spells it.
getByServiceIdAsGiven(t, name) == findByPk(t, name)

getByServiceId(t, name) == findByPk(t, <<Lower[name[1]], name[2]>>)

queryBySk(t, u) == {r \in t : r.user = u}

\* The index sorts a user's rows by "service#id": the first id linked.
queryLinked(t, u, service) ==
    LET linked == {r \in queryBySk(t, u) : r.name[1] = service}
    IN  {r \in linked : \A q \in linked : r.name[2] <= q.name[2]}

Copies == {rows, replica}

-----------------------------------------------------------------------------
(* History: a request is settled while the name it asks for has one row,   *)
(* the same in both copies and not expired, and, for an exchange, the      *)
(* required service has a row of the same user in both copies.             *)

Subject(call) ==
    IF call.op \in {"createUser", "createIdentity"} THEN <<"app", call.appId>>
    ELSE <<Lower[call.name[1]], call.name[2]>>

InOrder(t, copy, time, call) ==
    \E r \in t :
        /\ RowsOf(t, Subject(call)) = {r} /\ RowsOf(copy, Subject(call)) = {r}
        /\ ~ExpiredAt(r, time)
        /\ call.op = "exchangeIdentity" =>
             \E q \in t \cap copy : q.user = r.user /\ q.name[1] = call.requiredService

Watch ==
    settled' = [h \in Handlers |->
        LET w == worker'[h] IN
        /\ w # Idle
        /\ worker[h] # Idle => settled[h]
        /\ InOrder(rows, replica, now, w.call)
        /\ InOrder(rows', replica', now', w.call)]

-----------------------------------------------------------------------------
(* Puts, and how a request begins and ends.                                *)

\* PutItem replaces the row of the same name and user.  A creation under way
\* for the same name did not see it, nor did a purge that scanned the name.
Put(h, row) ==
    /\ rows' = {r \in rows : Key(r) # Key(row)} \cup {row}
    /\ excused' = [k \in Handlers |->
                     \/ excused[k]
                     \/ /\ k # h
                        /\ worker[k].pc = "putUser"
                        /\ row.name = <<"app", worker[k].call.appId>>]
    /\ targets' = {r \in targets : Key(r) # Key(row)}

Begin(h, call, op) ==
    /\ call.op = op
    /\ worker[h] = Idle
    /\ requests < MaxRequests
    /\ requests' = requests + 1

Answer(h, call, status, items) ==
    /\ answer' = [call |-> call, status |-> status, items |-> items,
                  settled |-> /\ worker[h] # Idle => settled[h]
                              /\ InOrder(rows, replica, now, call)]
    /\ worker' = [worker EXCEPT ![h] = Idle]

Throw(h, call, error) == Answer(h, call, statusOf(error), {})

Continue(h, call, pc, u) ==
    /\ worker' = [worker EXCEPT ![h] = [pc |-> pc, call |-> call, user |-> u]]
    /\ answer' = NoAnswer

\* The middleware refuses the request, or its first storage call fails.
EndsEarly(h, call) ==
    /\ Begin(h, call, call.op)
    /\ \E e \in ValidationErrors(call.op) \cup {"other"} : Throw(h, call, e)
    /\ UNCHANGED <<tables, excused, contested, purging>>

\* A later storage call fails: nothing was written.
StorageFails(h) ==
    /\ worker[h] # Idle
    /\ Throw(h, worker[h].call, "other")
    /\ UNCHANGED <<tables, requests, excused, contested, purging>>

-----------------------------------------------------------------------------
(* createUserLambda *)

\* Other rows of the name that the check may overlook: it reads a replica
\* that lags, or the row it reads has expired.
Overlooked(t, name) ==
    \/ RowsOf(t, name) # RowsOf(rows, name)
    \/ \E r \in RowsOf(t, name) : ExpiredAt(r, now)

\* Fault: the user is put without looking for one first.
CreateUserUnchecked(h, call, t) ==
    \E u \in Users \ issued :
        /\ Begin(h, call, "createUser")
        /\ issued' = issued \cup {u}
        /\ Continue(h, call, "putUser", u)
        /\ excused' = [excused EXCEPT ![h] = FALSE]
        /\ UNCHANGED <<rows, replica, now, contested, purging>>

\* Fault: a known app identity is a conflict.
CreateUserConflict(h, call, t) ==
    /\ Begin(h, call, "createUser")
    /\ findByPk(t, <<"app", call.appId>>) # {}
    /\ Answer(h, call, 409, {})
    /\ UNCHANGED <<tables, excused, contested, purging>>

CreateUser(h, call, t) ==
    LET name == <<"app", call.appId>> IN
    /\ Begin(h, call, "createUser")
    /\ IF findByPk(t, name) # {}
       THEN Answer(h, call, 204, {}) /\ UNCHANGED <<issued, excused>>
       ELSE \E u \in Users \ issued :
              /\ issued' = issued \cup {u}
              /\ Continue(h, call, "putUser", u)
              /\ excused' = [excused EXCEPT ![h] = Overlooked(t, name)]
    /\ UNCHANGED <<rows, replica, now, contested, purging>>

PutUser(h) ==
    LET name == <<"app", worker[h].call.appId>>
        row == [name |-> name, user |-> worker[h].user, ttl |-> NoTtl] IN
    /\ worker[h].pc = "putUser"
    /\ Put(h, row)
    /\ contested' = contested \cup {n \in {name} : excused[h]}
    /\ Answer(h, worker[h].call, 204, {})
    /\ UNCHANGED <<replica, now, issued, requests, purge, purges>>

-----------------------------------------------------------------------------
(* createIdentityLambda: linkIdentity *)

LinkIdentity(h, call, t) ==
    LET app == getByServiceId(t, <<"app", call.appId>>) IN
    /\ Begin(h, call, "createIdentity")
    /\ \/ /\ call.name[2] = call.appId
          /\ Throw(h, call, "IdentityLinkingInvalidIdentitesError")
       \/ /\ call.name[2] # call.appId
          /\ app = {}
          /\ Throw(h, call, "IdentityRecordNotFoundError")
       \/ /\ call.name[2] # call.appId
          /\ \E r \in app : Continue(h, call, "putLink", r.user)
    /\ UNCHANGED <<tables, excused, contested, purging>>

\* Fault: the ttl is stored in milliseconds.
PutLinkMilliseconds(h) ==
    LET call == worker[h].call
        row == [name |-> call.name, user |-> worker[h].user, ttl |-> 1000 * call.expiresAt] IN
    /\ worker[h].pc = "putLink"
    /\ Put(h, row)
    /\ contested' = contested
    /\ Answer(h, call, 200, {})
    /\ UNCHANGED <<replica, now, issued, requests, purge, purges>>

\* The name is stored as the request spells it.  A row of the same name for
\* another user has another sort key: it stays.
PutLink(h) ==
    LET call == worker[h].call
        row == [name |-> call.name, user |-> worker[h].user, ttl |-> call.expiresAt] IN
    /\ worker[h].pc = "putLink"
    /\ Put(h, row)
    /\ contested' = contested \cup
                      {r.name : r \in {q \in RowsOf(rows, call.name) : q.user # row.user}}
    /\ Answer(h, call, 200, {})
    /\ UNCHANGED <<replica, now, issued, requests, purge, purges>>

-----------------------------------------------------------------------------
(* readIdentityLambda, exchangeIdentityLambda, getAllLinkedServiceLambda    *)

\* The first storage call of a request for a name finds nothing: 404.
NotFound(h, call, t) ==
    /\ getByServiceId(t, call.name) = {}
    /\ Throw(h, call, "IdentityRecordNotFoundError")

ReadIdentity(h, call, t) ==
    /\ Begin(h, call, "readIdentity")
    /\ \/ NotFound(h, call, t)
       \/ \E r \in getByServiceId(t, call.name) : Answer(h, call, 200, {r})
    /\ UNCHANGED <<tables, excused, contested, purging>>

GetLinkedIdentity(h, call, t) ==
    /\ Begin(h, call, "exchangeIdentity")
    /\ \/ NotFound(h, call, t)
       \/ \E r \in getByServiceId(t, call.name) : Continue(h, call, "queryLinked", r.user)
    /\ UNCHANGED <<tables, excused, contested, purging>>

\* The ttl of the row is not looked at.
QueryLinked(h, t) ==
    LET call == worker[h].call
        linked == queryLinked(t, worker[h].user, call.requiredService) IN
    /\ worker[h].pc = "queryLinked"
    /\ IF linked = {} THEN Throw(h, call, "IdentityRecordNotFoundError")
                      ELSE Answer(h, call, 200, linked)
    /\ UNCHANGED <<tables, requests, excused, contested, purging>>

GetAllLinkedServices(h, call, t) ==
    /\ Begin(h, call, "getAllLinkedService")
    /\ \/ NotFound(h, call, t)
       \/ \E r \in getByServiceId(t, call.name) : Continue(h, call, "queryBySk", r.user)
    /\ UNCHANGED <<tables, excused, contested, purging>>

QueryBySk(h, t) ==
    /\ worker[h].pc = "queryBySk"
    /\ Answer(h, worker[h].call, 200,
              {r \in queryBySk(t, worker[h].user) : r.ttl = NoTtl \/ r.ttl >= now})
    /\ UNCHANGED <<tables, requests, excused, contested, purging>>

-----------------------------------------------------------------------------
(* deleteIdentityLambda: deleteById *)

DeleteById(h, call, t) ==
    /\ Begin(h, call, "deleteIdentity")
    /\ \/ NotFound(h, call, t)
       \/ \E r \in getByServiceId(t, call.name) : Continue(h, call, "delete", r.user)
    /\ UNCHANGED <<tables, excused, contested, purging>>

\* The condition attribute_exists(pk) fails when the row has gone meanwhile.
Delete(h) ==
    LET call == worker[h].call
        gone == {r \in rows : Key(r) = << <<Lower[call.name[1]], call.name[2]>>, worker[h].user>>} IN
    /\ worker[h].pc = "delete"
    /\ rows' = rows \ gone
    /\ IF gone = {} THEN Throw(h, call, "IdentityRecordNotFoundError")
                    ELSE Answer(h, call, 200, {})
    /\ UNCHANGED <<replica, now, issued, requests, excused, contested, purging>>

-----------------------------------------------------------------------------
(* dvlaPilotPurgeLambda.  A wrong purge key throws before anything is read. *)

\* Pages that hold no row under dvla# add nothing to the keys.
DvlaNames == {n \in Names : n[1] = "dvla"}

StartPurge ==
    /\ purge.pc \in {"idle", "purged"}
    /\ purges < MaxPurges
    /\ purges' = purges + 1
    /\ purge' = [pc |-> "scan", unscanned |-> DvlaNames, keys |-> {}, batch |-> {},
                 failed |-> FALSE]
    /\ targets' = {r \in rows \cap replica : r.name \in DvlaNames}
    /\ answer' = NoAnswer
    /\ UNCHANGED <<tables, api>>

\* Fault: LastEvaluatedKey is ignored, the first page is all.
fetchFirstPage(n, t) ==
    /\ purge.pc = "scan"
    /\ n \in purge.unscanned
    /\ purge' = [purge EXCEPT !.pc = "delete", !.unscanned = {},
                              !.keys = {Key(r) : r \in RowsOf(t, n)}]
    /\ answer' = NoAnswer
    /\ UNCHANGED <<tables, api, purges, targets>>

\* fetchDVLAKeys: pages in the table's own order, at the same time as puts.
fetchDVLAKeys(n, t) ==
    LET keys == purge.keys \cup {Key(r) : r \in RowsOf(t, n)}
        left == purge.unscanned \ {n} IN
    /\ purge.pc = "scan"
    /\ n \in purge.unscanned
    /\ \/ /\ left # {} \/ keys # {}
          /\ purge' = [purge EXCEPT !.pc = IF left = {} THEN "delete" ELSE "scan",
                                    !.unscanned = left, !.keys = keys]
       \/ /\ left = {} /\ keys = {}
          /\ purge' = [pc |-> "purged", failed |-> FALSE]
    /\ answer' = NoAnswer
    /\ UNCHANGED <<tables, api, purges, targets>>

\* The next slice of the keys, when the deletes of the last one have settled.
NextBatch ==
    /\ purge.pc = "delete" /\ purge.batch = {} /\ purge.keys # {}
    /\ \E b \in SUBSET purge.keys :
         /\ Cardinality(b) = BATCH_SIZE \/ (Cardinality(b) < BATCH_SIZE /\ b = purge.keys)
         /\ purge' = [purge EXCEPT !.batch = b, !.keys = purge.keys \ b]
    /\ answer' = NoAnswer
    /\ UNCHANGED <<tables, api, purges, targets>>

\* deleteBatch: each delete succeeds, with no condition, or is counted failed.
deleteBatch(k) ==
    /\ purge.pc = "delete" /\ k \in purge.batch
    /\ \/ /\ rows' = {r \in rows : Key(r) # k}
          /\ purge' = [purge EXCEPT !.batch = purge.batch \ {k}]
       \/ /\ purge' = [purge EXCEPT !.batch = purge.batch \ {k}, !.failed = TRUE]
          /\ UNCHANGED rows
    /\ answer' = NoAnswer
    /\ UNCHANGED <<replica, now, issued, api, purges, targets>>

PurgeEnds ==
    /\ purge.pc = "delete" /\ purge.batch = {} /\ purge.keys = {}
    /\ purge' = [pc |-> "purged", failed |-> purge.failed]
    /\ answer' = NoAnswer
    /\ UNCHANGED <<tables, api, purges, targets>>

\* The invocation times out, is killed or fails to scan: it reports no success.
PurgeDies ==
    /\ purge.pc \in {"scan", "delete"}
    /\ purge' = [pc |-> "purged", failed |-> TRUE]
    /\ answer' = NoAnswer
    /\ UNCHANGED <<tables, api, purges, targets>>

-----------------------------------------------------------------------------
(* DynamoDB and time *)

ReplicaFollows ==
    /\ replica # rows
    /\ replica' = rows
    /\ answer' = NoAnswer
    /\ UNCHANGED <<rows, now, issued, api, purging>>

\* DynamoDB deletes an expired row at some time after its ttl.
TtlDeletes(r) ==
    /\ ExpiredAt(r, now)
    /\ rows' = rows \ {r}
    /\ answer' = NoAnswer
    /\ UNCHANGED <<replica, now, issued, api, purging>>

Tick ==
    /\ now < MaxTime
    /\ now' = now + 1
    /\ answer' = NoAnswer
    /\ UNCHANGED <<rows, replica, issued, api, purging>>

-----------------------------------------------------------------------------
Request(h) ==
    \E call \in Calls, t \in Copies :
        \/ CreateUser(h, call, t)
        \/ LinkIdentity(h, call, t)
        \/ ReadIdentity(h, call, t)
        \/ GetLinkedIdentity(h, call, t)
        \/ GetAllLinkedServices(h, call, t)
        \/ DeleteById(h, call, t)

HandlerStep(h) ==
    \/ Request(h)
    \/ \E call \in Calls : EndsEarly(h, call)
    \/ PutUser(h)
    \/ PutLink(h)
    \/ \E t \in Copies : QueryLinked(h, t) \/ QueryBySk(h, t)
    \/ Delete(h)
    \/ StorageFails(h)

PurgeStep ==
    \/ StartPurge
    \/ \E n \in DvlaNames, t \in Copies : fetchDVLAKeys(n, t)
    \/ NextBatch
    \/ \E k \in Names \X Users : deleteBatch(k)
    \/ PurgeEnds
    \/ PurgeDies

TableStep ==
    \/ ReplicaFollows
    \/ \E r \in rows : TtlDeletes(r)
    \/ Tick

Next ==
    /\ (\E h \in Handlers : HandlerStep(h)) \/ PurgeStep \/ TableStep
    /\ Watch

Spec == Init /\ [][Next]_vars

-----------------------------------------------------------------------------
(***************************************************************************)
(* createAppUser is a check and a put: an app identity gets a second user  *)
(* only if something came between them, if the check read a copy that      *)
(* lagged, or if the row it read had expired.  Any other name gets one     *)
(* only when it is linked to a second app.                                 *)
(***************************************************************************)
OneUserPerName ==
    \A r, q \in rows : r.name = q.name /\ r.user # q.user => r.name \in contested

(***************************************************************************)
(* A request whose name has been in order since it began never answers     *)
(* 404, though a handler resolves it with one call and goes on with        *)
(* another; what it answers belongs to the one user that the name leads    *)
(* to, and a list of linked services leaves nothing live out.              *)
(***************************************************************************)
SettledAnswers ==
    answer # NoAnswer /\ answer.settled =>
        /\ answer.status # 404
        /\ \A r \in answer.items, q \in RowsOf(rows, Subject(answer.call)) : r.user = q.user
        /\ answer.call.op = "getAllLinkedService" /\ answer.status = 200 =>
             \A q \in RowsOf(rows, Subject(answer.call)), r \in rows \cap replica :
                r.user = q.user /\ ~ExpiredAt(r, now) => r \in answer.items

(***************************************************************************)
(* When the purge reports no failure, every row under dvla# that both      *)
(* copies held when it began is gone, unless it was put again since.       *)
(***************************************************************************)
PurgeComplete ==
    purge.pc = "purged" /\ ~purge.failed => targets \cap rows = {}

(***************************************************************************)
(* Whatever a handler and its middleware make of a request, the status is  *)
(* one its route declares.  The exception is a link to an app identity     *)
(* that is not found: routes.ts declares no 404 for createIdentity.        *)
(***************************************************************************)
AnswersDeclared ==
    answer # NoAnswer =>
        \/ answer.status \in routes[answer.call.op].statuses
        \/ answer.call.op = "createIdentity" /\ answer.status = 404

-----------------------------------------------------------------------------
(* Invariants the proofs rest on.                                          *)

\* A handler is at a step of the request it was called with.
StepsMatchCalls ==
    \A h \in Handlers :
        /\ worker[h].pc = "putUser" => worker[h].call \in CreateUserCalls
        /\ worker[h].pc = "putLink" => worker[h].call \in CreateIdentityCalls
        /\ worker[h].pc = "queryLinked" => worker[h].call \in ExchangeCalls
        /\ worker[h].pc = "queryBySk" => worker[h].call.op = "getAllLinkedService"
        /\ worker[h].pc = "delete" => worker[h].call.op = "deleteIdentity"

\* A creation that nothing escaped is about to put the first row of its name.
UnexcusedIsFirst ==
    \A h \in Handlers :
        worker[h].pc = "putUser" /\ ~excused[h] =>
            RowsOf(rows, <<"app", worker[h].call.appId>>) = {}

\* Where the purge still has the rows it must delete.
TargetsAccounted ==
    \A r \in targets \cap rows :
        /\ r \in replica /\ r.name \in DvlaNames
        /\ purge.pc # "idle"
        /\ purge.pc = "scan" => r.name \in purge.unscanned \/ Key(r) \in purge.keys
        /\ purge.pc = "delete" /\ ~purge.failed => Key(r) \in purge.keys \cup purge.batch
        /\ purge.pc = "purged" => purge.failed

\* A settled request that goes on has resolved its name to its one user.
SettledHasOwner ==
    \A h \in Handlers :
        settled[h] =>
            /\ worker[h] # Idle
            /\ InOrder(rows, replica, now, worker[h].call)
            /\ \A r \in RowsOf(rows, Subject(worker[h].call)) : r.user = worker[h].user

IInv ==
    /\ TypeOK
    /\ StepsMatchCalls
    /\ OneUserPerName
    /\ UnexcusedIsFirst
    /\ TargetsAccounted
    /\ SettledHasOwner
=============================================================================

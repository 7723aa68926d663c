---------------------------- MODULE DsarPipeline ----------------------------
(***************************************************************************)
(* The erasure pipeline: startDsarLambda accepts a request and queues it,  *)
(* dsarRequestLambda pages through the subject's record keys and queues    *)
(* one delete batch per page, dsarDeleteLambda deletes the keys of a batch *)
(* and then every identity row of the batch's user.  Both queues are SQS   *)
(* standard queues: a message stays until an invocation that received it   *)
(* succeeds, so it can be delivered again after a failure and to two       *)
(* invocations at once.  API handlers that resolved an identity earlier    *)
(* write beside the pipeline.                                              *)
(*                                                                         *)
(* A record is a pair <<udpId, path>> (the data table's pk and sk), an     *)
(* identity row a pair <<name, udpId>> (the identity table's pk, which is  *)
(* "service#id", and sk).  The contents of a record play no part here.     *)
(* No read of either table or of the sk-index is a consistent one: each    *)
(* sees a view of its own.                                                 *)
(***************************************************************************)
EXTENDS Naturals, FiniteSets, EventualReads

CONSTANTS
    Users,          \* the udpIds, ordered as the table orders its sort keys
    Paths,          \* the resource paths, ordered as the table orders them
    Names,          \* the "service#id" partition keys of the identity table
    AppNames,       \* the names of service "app": only they can be linked from
    Requests,       \* the dsarIDs
    RequestWorkers, \* concurrent invocations of dsarRequestLambda
    DeleteWorkers,  \* concurrent invocations of dsarDeleteLambda
    Handlers,       \* concurrent API handlers that write for a user
    InitialData,    \* the data table at the start
    InitialRows,    \* the identity table at the start
    PageSize,       \* PAGE_SIZE of a key page
    MaxReceive,     \* maxReceiveCount of the delete queue
    MaxBatches,     \* bound: delete messages sent in a behaviour
    MaxFailures,    \* bound: failed or timed out invocations in a behaviour
    MaxWrites,      \* bound: API calls beside the pipeline in a behaviour
    SlowRecords,    \* bound: records whose puts and deletes may lag
    SlowRows        \* bound: identity rows whose puts and deletes may lag

Records == Users \X Paths
Rows == Names \X Users

ASSUME OrderedKeys == Users \subseteq Nat \ {0} /\ Paths \subseteq Nat \ {0}
ASSUME InitialTables == InitialData \subseteq Records /\ InitialRows \subseteq Rows
ASSUME AppNamesAreNames == AppNames \subseteq Names /\ "nobody" \notin Names
ASSUME Sizes == PageSize \in Nat \ {0} /\ MaxReceive \in Nat \ {0}
ASSUME Bounds == MaxBatches \in Nat /\ MaxFailures \in Nat /\ MaxWrites \in Nat
ASSUME SlowKeys == SlowRecords \subseteq Records /\ SlowRows \subseteq Rows

BatchIds == 1..MaxBatches

VARIABLES
    data,       \* the data table: a set of records
    identity,   \* the identity table: a set of rows
    lagging,    \* the records that came or went and some copy does not know
    laggingRows,\* the same of the rows, the copies in the sk-index included
    handler,    \* the write each API handler has resolved a udpId for
    asked,      \* the name each dsarID was handed out for
    dsarQueue,  \* the requests queued and not yet acknowledged
    reqWork,    \* the state of each dsarRequestLambda invocation
    sent,       \* how many delete batches have been sent
    batchKeys,  \* the record keys each batch lists
    batchState, \* where each batch is
    receives,   \* how often each batch has been received
    delWork,    \* the state of each dsarDeleteLambda invocation
    failures,   \* invocations that failed or timed out so far
    writes,     \* API calls beside the pipeline so far
    steady,     \* history: the subject's records that each request invocation
                \*   met in every copy when it resolved the subject and
                \*   nobody deleted since
    owed,       \* history: those records of acknowledged requests
    owners      \* history: the users each name has ever stood for

dataVars == <<data, lagging>>
identityVars == <<identity, laggingRows, owners>>
tables == <<dataVars, identityVars>>
requestVars == <<asked, dsarQueue, reqWork>>
batchVars == <<sent, batchKeys, batchState, receives, delWork>>
history == <<steady, owed>>
api == <<handler, writes>>
vars == <<tables, api, requestVars, batchVars, failures, history>>

-----------------------------------------------------------------------------
RequestMsgs == [id : Requests, name : Names]
Idle == [pc |-> "idle"]
Nobody == "nobody"

HandlerStates == {Idle} \cup [pc : {"post", "link"}, name : Names, user : Users]

RequestRuns ==
    [pc : {"count", "page", "send", "sendLast", "ack"}, msg : RequestMsgs,
     user : Users, cursor : Nat, page : SUBSET Records]

DeleteRuns ==
    [pc : {"keys", "rows"}, batch : BatchIds, todo : SUBSET Records,
     rows : SUBSET Rows]

TypeOK ==
    /\ data \in SUBSET Records
    /\ identity \in SUBSET Rows
    /\ lagging \in SUBSET Records
    /\ laggingRows \in SUBSET Rows
    /\ handler \in [Handlers -> HandlerStates]
    /\ asked \in [Requests -> Names \cup {Nobody}]
    /\ dsarQueue \in SUBSET RequestMsgs
    /\ reqWork \in [RequestWorkers -> RequestRuns \cup {Idle}]
    /\ sent \in 0..MaxBatches
    /\ batchKeys \in [BatchIds -> SUBSET Records]
    /\ batchState \in [BatchIds -> {"unsent", "queued", "done", "dlq"}]
    /\ receives \in [BatchIds -> 0..MaxReceive]
    /\ delWork \in [DeleteWorkers -> DeleteRuns \cup {Idle}]
    /\ failures \in 0..MaxFailures
    /\ writes \in 0..MaxWrites
    /\ steady \in [RequestWorkers -> SUBSET Records]
    /\ owed \in SUBSET Records
    /\ owners \in [Names -> SUBSET Users]

Init ==
    /\ data = InitialData
    /\ identity = InitialRows
    /\ lagging = {}
    /\ laggingRows = {}
    /\ handler = [h \in Handlers |-> Idle]
    /\ asked = [id \in Requests |-> Nobody]
    /\ dsarQueue = {}
    /\ reqWork = [w \in RequestWorkers |-> Idle]
    /\ sent = 0
    /\ batchKeys = [b \in BatchIds |-> {}]
    /\ batchState = [b \in BatchIds |-> "unsent"]
    /\ receives = [b \in BatchIds |-> 0]
    /\ delWork = [v \in DeleteWorkers |-> Idle]
    /\ failures = 0
    /\ writes = 0
    /\ steady = [w \in RequestWorkers |-> {}]
    /\ owed = {}
    /\ owners = [n \in Names |-> {u \in Users : <<n, u>> \in InitialRows}]

-----------------------------------------------------------------------------
(* What a query of the data table, or of the identity table or its         *)
(* sk-index, may find.                                                     *)
DataViews == Views(data, lagging)
IdentityViews == Views(identity, laggingRows)

(* getByServiceId reads one row of the partition: the one with the lowest  *)
(* sort key the copy has.                                                  *)
Resolves(view, n, u) ==
    /\ <<n, u>> \in view
    /\ \A x \in Users : <<n, x>> \in view => u <= x

RecordsOf(view, u) == {r \in view : r[1] = u}

\* Fault: the key condition on the partition is dropped (a Scan).
KeysOfAnyUser(view, u, cursor) == {r \in view : r[2] > cursor}

(* The keys a query for u's partition finds from an exclusive start key.   *)
KeysAfter(view, u, cursor) == {r \in RecordsOf(view, u) : r[2] > cursor}

(* A record is put: the key is new to the copies unless it was there.      *)
PutRecord(r) ==
    /\ data' = data \cup {r}
    /\ lagging' = LaggingAfter(data, data \cup {r}, lagging, SlowRecords)

(* A record leaves the data table, and with it every claim on it.          *)
RemoveRecord(r) ==
    /\ data' = data \ {r}
    /\ lagging' = LaggingAfter(data, data \ {r}, lagging, SlowRecords)
    /\ steady' = [w \in RequestWorkers |-> steady[w] \ {r}]
    /\ owed' = owed \ {r}

PutRow(row) ==
    /\ identity' = identity \cup {row}
    /\ laggingRows' = LaggingAfter(identity, identity \cup {row}, laggingRows, SlowRows)
    /\ owners' = [owners EXCEPT ![row[1]] = @ \cup {row[2]}]

RemoveRow(row) ==
    /\ identity' = identity \ {row}
    /\ laggingRows' = LaggingAfter(identity, identity \ {row}, laggingRows, SlowRows)
    /\ UNCHANGED owners

(* Every copy has the latest write of a record, or of a row.               *)
RecordSettles(r) ==
    /\ r \in lagging
    /\ lagging' = lagging \ {r}
    /\ UNCHANGED <<data, identityVars, api, requestVars, batchVars, failures, history>>

RowSettles(row) ==
    /\ row \in laggingRows
    /\ laggingRows' = laggingRows \ {row}
    /\ UNCHANGED <<dataVars, identity, owners, api, requestVars, batchVars, failures,
                   history>>

-----------------------------------------------------------------------------
(* One more API call, within the bound.                                    *)
Calls == writes < MaxWrites /\ writes' = writes + 1

(* API handlers: read the identity first, write under its udpId later.     *)

HandlerResolves(h, op, n, u) ==
    /\ handler[h] = Idle
    /\ Calls
    /\ op = "link" => n \in AppNames
    /\ \E view \in IdentityViews : Resolves(view, n, u)
    /\ handler' = [handler EXCEPT ![h] = [pc |-> op, name |-> n, user |-> u]]
    /\ UNCHANGED <<tables, requestVars, batchVars, failures, history>>

(* postData: the item is put under the resolved udpId.                     *)
PostRecord(h, p) ==
    /\ handler[h].pc = "post"
    /\ PutRecord(<<handler[h].user, p>>)
    /\ handler' = [handler EXCEPT ![h] = Idle]
    /\ UNCHANGED <<identityVars, writes, requestVars, batchVars, failures, history>>

(* linkIdentity: the row is put unconditionally, under any name but the    *)
(* app's own (two names here never share their id).                        *)
LinkIdentity(h, n) ==
    /\ handler[h].pc = "link"
    /\ n # handler[h].name
    /\ PutRow(<<n, handler[h].user>>)
    /\ handler' = [handler EXCEPT ![h] = Idle]
    /\ UNCHANGED <<dataVars, writes, requestVars, batchVars, failures, history>>

(* deleteData's DeleteItem, or DynamoDB's time to live.                    *)
RecordGoes(r) ==
    /\ r \in data
    /\ Calls
    /\ RemoveRecord(r)
    /\ UNCHANGED <<identityVars, handler, requestVars, batchVars, failures>>

(* deleteIdentity's DeleteItem, or the time to live of a linked row.       *)
RowGoes(row) ==
    /\ row \in identity
    /\ Calls
    /\ RemoveRow(row)
    /\ UNCHANGED <<dataVars, handler, requestVars, batchVars, failures, history>>

-----------------------------------------------------------------------------
(* startDsarLambda: a fresh dsarID, one message, 202.  The identity is not *)
(* looked up.                                                              *)
StartDsar(id, n) ==
    /\ asked[id] = Nobody
    /\ asked' = [asked EXCEPT ![id] = n]
    /\ dsarQueue' = dsarQueue \cup {[id |-> id, name |-> n]}
    /\ UNCHANGED <<tables, api, reqWork, batchVars, failures, history>>

\* Fault: the lookup is by the id alone, whatever the service.
ResolveSubjectOfAnyService(w, m, u) ==
    /\ reqWork[w] = Idle
    /\ m \in dsarQueue
    /\ \E n \in Names : <<n, u>> \in identity
    /\ reqWork' = [reqWork EXCEPT ![w] =
            [pc |-> "count", msg |-> m, user |-> u, cursor |-> 0, page |-> {}]]
    /\ steady' = [steady EXCEPT ![w] = RecordsOf(data \ lagging, u)]
    /\ UNCHANGED <<tables, api, asked, dsarQueue, batchVars, failures, owed>>

(* dsarRequestLambda receives a request and resolves its subject.  When    *)
(* the copy has no row of the name the lookup throws, the message stays    *)
(* queued and nothing changes.                                             *)
ResolveSubject(w, m, u) ==
    /\ reqWork[w] = Idle
    /\ m \in dsarQueue
    /\ \E view \in IdentityViews : Resolves(view, m.name, u)
    /\ reqWork' = [reqWork EXCEPT ![w] =
            [pc |-> "count", msg |-> m, user |-> u, cursor |-> 0, page |-> {}]]
    /\ steady' = [steady EXCEPT ![w] = RecordsOf(data \ lagging, u)]
    /\ UNCHANGED <<tables, api, asked, dsarQueue, batchVars, failures, owed>>

\* Fault: an empty count is an error instead of an early return.
CountRecordsThrows(w) ==
    /\ reqWork[w].pc = "count"
    /\ \E view \in DataViews :
          reqWork' = [reqWork EXCEPT ![w] =
            IF RecordsOf(view, reqWork[w].user) = {} THEN Idle ELSE [@ EXCEPT !.pc = "page"]]
    /\ UNCHANGED <<tables, api, asked, dsarQueue, batchVars, failures, history>>

(* countByUdpID: no record found means nothing to delete, and the request  *)
(* is acknowledged as it is.                                               *)
CountRecords(w) ==
    /\ reqWork[w].pc = "count"
    /\ \E view \in DataViews :
          reqWork' = [reqWork EXCEPT ![w].pc =
            IF RecordsOf(view, reqWork[w].user) = {} THEN "ack" ELSE "page"]
    /\ UNCHANGED <<tables, api, asked, dsarQueue, batchVars, failures, history>>

\* Fault: the pagination loop is lost, only the first page is read.
ReadFirstPageOnly(w) ==
    /\ reqWork[w].pc = "page"
    /\ \E view \in DataViews :
          LET s == reqWork[w]
              rest == KeysAfter(view, s.user, s.cursor)
          IN  \E page \in SUBSET rest :
                /\ Cardinality(page) <= PageSize
                /\ page = {} => rest = {}
                /\ \A r \in page, q \in rest \ page : r[2] < q[2]
                /\ reqWork' = [reqWork EXCEPT ![w] =
                      [s EXCEPT !.pc = "sendLast", !.page = page]]
    /\ UNCHANGED <<tables, api, asked, dsarQueue, batchVars, failures, history>>

(* One page of getKeyPageByUdpID: the first keys after the cursor, at most *)
(* PageSize of them and fewer when the query stops at its size limit.  The *)
(* result has a lastEvaluatedKey whenever the query stopped at a limit,    *)
(* even if no key is left: "send" has another page to follow, "sendLast"   *)
(* none.                                                                   *)
ReadPage(w) ==
    /\ reqWork[w].pc = "page"
    /\ \E view \in DataViews :
          LET s == reqWork[w]
              rest == KeysAfter(view, s.user, s.cursor)
          IN  \E page \in SUBSET rest :
                /\ Cardinality(page) <= PageSize
                /\ page = {} => rest = {}
                /\ \A r \in page, q \in rest \ page : r[2] < q[2]
                /\ reqWork' = [reqWork EXCEPT ![w] =
                      [s EXCEPT !.page = page,
                                !.pc = IF page # rest \/ Cardinality(page) = PageSize
                                       THEN "send" ELSE "sendLast"]]
    /\ UNCHANGED <<tables, api, asked, dsarQueue, batchVars, failures, history>>

(* The loop goes on from the last key of the page, or ends with the page.  *)
NextPage(w) ==
    /\ reqWork[w].pc = "send"
    /\ \E end \in reqWork[w].page :
          /\ \A r \in reqWork[w].page : r[2] <= end[2]
          /\ reqWork' = [reqWork EXCEPT ![w] =
                [@ EXCEPT !.pc = "page", !.cursor = end[2], !.page = {}]]

LoopEnds(w) ==
    /\ reqWork[w].pc = "sendLast"
    /\ reqWork' = [reqWork EXCEPT ![w].pc = "ack"]

(* One message per page.                                                   *)
SendBatch(w) ==
    /\ NextPage(w) \/ LoopEnds(w)
    /\ sent < MaxBatches
    /\ sent' = sent + 1
    /\ batchKeys' = [batchKeys EXCEPT ![sent'] = reqWork[w].page]
    /\ batchState' = [batchState EXCEPT ![sent'] = "queued"]
    /\ UNCHANGED <<tables, api, asked, dsarQueue, receives, delWork, failures,
                   history>>

(* The invocation returned: its message is deleted from the queue.         *)
AckRequest(w) ==
    /\ reqWork[w].pc = "ack"
    /\ dsarQueue' = dsarQueue \ {reqWork[w].msg}
    /\ reqWork' = [reqWork EXCEPT ![w] = Idle]
    /\ owed' = owed \cup steady[w]
    /\ steady' = [steady EXCEPT ![w] = {}]
    /\ UNCHANGED <<tables, api, asked, batchVars, failures>>

(* A throttled call, a failed send or a timeout: the request stays queued. *)
RequestFails(w) ==
    /\ reqWork[w] # Idle
    /\ failures < MaxFailures
    /\ failures' = failures + 1
    /\ reqWork' = [reqWork EXCEPT ![w] = Idle]
    /\ steady' = [steady EXCEPT ![w] = {}]
    /\ UNCHANGED <<tables, api, asked, dsarQueue, batchVars, owed>>

-----------------------------------------------------------------------------
(* dsarDeleteLambda.                                                       *)

\* Fault: the delete queue has no dead-letter policy.
ReceiveBatchUnlimited(v, b) ==
    /\ delWork[v] = Idle
    /\ batchState[b] = "queued"
    /\ receives' = [receives EXCEPT ![b] = @ + 1]
    /\ delWork' = [delWork EXCEPT ![v] =
            [pc |-> "keys", batch |-> b, todo |-> batchKeys[b], rows |-> {}]]
    /\ UNCHANGED <<tables, api, requestVars, sent, batchKeys, batchState, failures,
                   history>>

ReceiveBatch(v, b) ==
    /\ delWork[v] = Idle
    /\ batchState[b] = "queued"
    /\ receives[b] < MaxReceive
    /\ receives' = [receives EXCEPT ![b] = @ + 1]
    /\ delWork' = [delWork EXCEPT ![v] =
            [pc |-> "keys", batch |-> b, todo |-> batchKeys[b], rows |-> {}]]
    /\ UNCHANGED <<tables, api, requestVars, sent, batchKeys, batchState,
                   failures, history>>

\* Fault: the receive count is compared one too late.
BatchToDlqLate(b) ==
    /\ batchState[b] = "queued"
    /\ receives[b] > MaxReceive
    /\ batchState' = [batchState EXCEPT ![b] = "dlq"]
    /\ UNCHANGED <<tables, api, requestVars, sent, batchKeys, receives, delWork,
                   failures, history>>

(* The queue gives up on a batch received MaxReceive times.  An invocation *)
(* that outlived the visibility timeout may still be at work on it.        *)
BatchToDlq(b) ==
    /\ batchState[b] = "queued"
    /\ receives[b] = MaxReceive
    /\ batchState' = [batchState EXCEPT ![b] = "dlq"]
    /\ UNCHANGED <<tables, api, requestVars, sent, batchKeys, receives,
                   delWork, failures, history>>

(* deleteByKey, in the order of the keys; a key that is gone is tolerated. *)
DeleteKey(v) ==
    LET s == delWork[v]
    IN  /\ s.pc = "keys"
        /\ \E r \in s.todo :
              /\ \A q \in s.todo : r[2] <= q[2]
              /\ RemoveRecord(r)
              /\ delWork' = [delWork EXCEPT ![v].todo = @ \ {r}]
        /\ UNCHANGED <<identityVars, api, requestVars, sent, batchKeys,
                       batchState, receives, failures>>

(* The user is the pk of the first key, so a batch without keys throws.    *)
EmptyBatchThrows(v) ==
    /\ delWork[v].pc = "keys"
    /\ batchKeys[delWork[v].batch] = {}
    /\ delWork' = [delWork EXCEPT ![v] = Idle]
    /\ UNCHANGED <<tables, api, requestVars, sent, batchKeys, batchState,
                   receives, failures, history>>

(* deleteAllByUdpId reads the user's rows from the sk-index.               *)
QueryRows(v) ==
    LET s == delWork[v]
    IN  /\ s.pc = "keys"
        /\ s.todo = {}
        /\ \E first \in batchKeys[s.batch] :
              /\ \A r \in batchKeys[s.batch] : first[2] <= r[2]
              /\ \E view \in IdentityViews :
                    delWork' = [delWork EXCEPT ![v] =
                      [s EXCEPT !.pc = "rows",
                                !.rows = {row \in view : row[2] = first[1]}]]
        /\ UNCHANGED <<tables, api, requestVars, sent, batchKeys, batchState,
                       receives, failures, history>>

(* ... and deletes them one by one; a row that is gone is tolerated.       *)
DeleteRow(v) ==
    /\ delWork[v].pc = "rows"
    /\ \E row \in delWork[v].rows :
          /\ RemoveRow(row)
          /\ delWork' = [delWork EXCEPT ![v].rows = @ \ {row}]
    /\ UNCHANGED <<dataVars, api, requestVars, sent, batchKeys, batchState,
                   receives, failures, history>>

(* The invocation returned: its batch is deleted from the queue, unless it *)
(* has moved to the dead-letter queue.                                     *)
AckBatch(v) ==
    LET b == delWork[v].batch
    IN  /\ delWork[v].pc = "rows"
        /\ delWork[v].rows = {}
        /\ batchState' = [batchState EXCEPT ![b] = IF @ = "queued" THEN "done" ELSE @]
        /\ delWork' = [delWork EXCEPT ![v] = Idle]
        /\ UNCHANGED <<tables, api, requestVars, sent, batchKeys, receives,
                       failures, history>>

\* Fault: the error of a key is swallowed and the batch acknowledged.
DeleteFailsSilently(v) ==
    /\ delWork[v] # Idle
    /\ failures < MaxFailures
    /\ failures' = failures + 1
    /\ delWork' = [delWork EXCEPT ![v] = Idle]
    /\ batchState' = [batchState EXCEPT ![delWork[v].batch] =
            IF @ = "queued" THEN "done" ELSE @]
    /\ UNCHANGED <<tables, api, requestVars, sent, batchKeys, receives, history>>

(* A throttled call or a timeout: the batch stays queued and comes back    *)
(* whole.                                                                  *)
DeleteFails(v) ==
    /\ delWork[v] # Idle
    /\ failures < MaxFailures
    /\ failures' = failures + 1
    /\ delWork' = [delWork EXCEPT ![v] = Idle]
    /\ UNCHANGED <<tables, api, requestVars, sent, batchKeys, batchState,
                   receives, history>>

-----------------------------------------------------------------------------
HandlerStep ==
    \E h \in Handlers :
        \/ \E op \in {"post", "link"}, n \in Names, u \in Users :
              HandlerResolves(h, op, n, u)
        \/ \E p \in Paths : PostRecord(h, p)
        \/ \E n \in Names : LinkIdentity(h, n)
        \/ \E r \in data : RecordGoes(r)
        \/ \E row \in identity : RowGoes(row)

RequestStep(w) ==
    \/ \E m \in dsarQueue, u \in Users : ResolveSubject(w, m, u)
    \/ CountRecords(w)
    \/ ReadPage(w)
    \/ SendBatch(w)
    \/ AckRequest(w)

DeleteStep(v) ==
    \/ \E b \in BatchIds : ReceiveBatch(v, b)
    \/ DeleteKey(v)
    \/ EmptyBatchThrows(v)
    \/ QueryRows(v)
    \/ DeleteRow(v)
    \/ AckBatch(v)

Next ==
    \/ HandlerStep
    \/ \E id \in Requests, n \in Names : StartDsar(id, n)
    \/ \E w \in RequestWorkers : RequestStep(w) \/ RequestFails(w)
    \/ \E v \in DeleteWorkers : DeleteStep(v) \/ DeleteFails(v)
    \/ \E b \in BatchIds : BatchToDlq(b)
    \/ \E r \in lagging : RecordSettles(r)
    \/ \E row \in laggingRows : RowSettles(row)

Spec == Init /\ [][Next]_vars

(***************************************************************************)
(* Lambda polls its queues and runs what it receives, and every copy gets  *)
(* every write.  Nothing obliges a caller to act or an invocation to fail. *)
(* SQS hands out every visible message sooner or later, however often      *)
(* others come back first: strong fairness per message.                    *)
(***************************************************************************)
Fairness ==
    /\ \A m \in RequestMsgs :
          SF_vars(\E w \in RequestWorkers, u \in Users : ResolveSubject(w, m, u))
    /\ \A w \in RequestWorkers :
          WF_vars(CountRecords(w) \/ ReadPage(w) \/ SendBatch(w) \/ AckRequest(w))
    /\ \A b \in BatchIds :
          /\ SF_vars(\E v \in DeleteWorkers : ReceiveBatch(v, b))
          /\ WF_vars(BatchToDlq(b))
    /\ \A v \in DeleteWorkers :
          WF_vars(DeleteKey(v) \/ EmptyBatchThrows(v) \/ QueryRows(v)
                    \/ DeleteRow(v) \/ AckBatch(v))
    /\ WF_vars(\E r \in lagging : RecordSettles(r))
    /\ WF_vars(\E row \in laggingRows : RowSettles(row))

FairSpec == Spec /\ Fairness

-----------------------------------------------------------------------------
(***************************************************************************)
(* A record is covered when a batch that is queued or in the dead-letter   *)
(* queue lists it and every invocation at work on that batch still has it  *)
(* to delete.                                                              *)
(***************************************************************************)
Outstanding == {b \in BatchIds : batchState[b] \in {"queued", "dlq"}}

Covered(r) ==
    \E b \in Outstanding :
        /\ r \in batchKeys[b]
        /\ \A v \in DeleteWorkers :
              delWork[v] # Idle /\ delWork[v].batch = b => r \in delWork[v].todo

(***************************************************************************)
(* No record of the subject is lost between the count, the pages and the   *)
(* batches: once a request is acknowledged, a record that the subject had  *)
(* in every copy of the table when the request resolved him is either gone *)
(* since or listed in a batch that is still to be processed, whatever copy *)
(* answered the count and each page, and whatever other invocations,       *)
(* deliveries and writers did in between.  A record put so shortly before  *)
(* that some copy had not got it is not promised: the count and every page *)
(* may miss it.                                                            *)
(***************************************************************************)
ErasureOwed == \A r \in owed : Covered(r)

(***************************************************************************)
(* dsarDeleteLambda takes the user of its identity deletion from the first *)
(* key only: every key of a batch, and every identity row an invocation is *)
(* about to delete, belongs to that one user.                              *)
(***************************************************************************)
OneUserPerBatch ==
    /\ \A b \in BatchIds : \A r, q \in batchKeys[b] : r[1] = q[1]
    /\ \A v \in DeleteWorkers :
          delWork[v].pc = "rows" =>
              \A row \in delWork[v].rows :
                  \A r \in batchKeys[delWork[v].batch] : row[2] = r[1]

(* What the pipeline promises, see Erasure: doomed is what the batches     *)
(* that are still to be processed list, and the subjects are the users     *)
(* that the name of an accepted request has ever stood for.                *)
Doomed == UNION {batchKeys[b] : b \in Outstanding}
Subjects == UNION {owners[n] : n \in {asked[id] : id \in Requests} \ {Nobody}}

Promise == INSTANCE Erasure WITH
    present <- data, doomed <- Doomed, subjects <- Subjects

(***************************************************************************)
(* Queues, batches, retries, dead letters and reads that lag implement the *)
(* promise: only records of a user that the name of an accepted request    *)
(* has stood for are ever listed for deletion, nothing is promised away    *)
(* that is not listed, and a list is worked off only when it is done.      *)
(***************************************************************************)
ImplementsErasure == Promise!Spec

-----------------------------------------------------------------------------
(* What makes ErasureOwed and OneUserPerBatch inductive.                   *)

(* The claims are on records that are still there, and those of an         *)
(* invocation on records of its subject that every copy has.               *)
ClaimsInTable ==
    /\ owed \subseteq data
    /\ \A w \in RequestWorkers :
          /\ steady[w] \subseteq data \ lagging
          /\ reqWork[w] = Idle => steady[w] = {}
          /\ reqWork[w] # Idle => \A r \in steady[w] : r[1] = reqWork[w].user

(* Batches are numbered as sent; an invocation works on a sent one and     *)
(* has no key left when it has gone on to the identity rows.               *)
BatchesInOrder ==
    /\ \A b \in BatchIds : batchState[b] = "unsent" <=> b > sent
    /\ \A v \in DeleteWorkers :
          delWork[v] # Idle =>
              /\ delWork[v].batch <= sent
              /\ delWork[v].pc = "rows" => delWork[v].todo = {}
              /\ delWork[v].todo \subseteq batchKeys[delWork[v].batch]

(* A page holds keys of the subject, and every claimed record after the    *)
(* cursor is on it or after all of it, in which case the loop goes on.     *)
PageIsPrefix ==
    \A w \in RequestWorkers :
        reqWork[w].pc \in {"send", "sendLast"} =>
            /\ \A r \in reqWork[w].page : r[1] = reqWork[w].user
            /\ \A r \in steady[w] :
                  r[2] > reqWork[w].cursor /\ r \notin reqWork[w].page =>
                      /\ reqWork[w].pc = "send"
                      /\ \A q \in reqWork[w].page : q[2] < r[2]

(* What an invocation has paged past is covered.                           *)
PagedIsCovered ==
    \A w \in RequestWorkers :
        /\ reqWork[w].pc = "count" => reqWork[w].cursor = 0
        /\ reqWork[w].pc \in {"page", "send", "sendLast", "ack"} =>
              \A r \in steady[w] :
                  reqWork[w].pc = "ack" \/ r[2] <= reqWork[w].cursor => Covered(r)

(* Who is erased: a row that some query may find is of a user its name has *)
(* stood for, a request is one that was made, and who is paged through or  *)
(* listed in a batch is a subject.                                         *)
OnlySubjects ==
    /\ \A row \in identity \cup laggingRows : row[2] \in owners[row[1]]
    /\ \A m \in dsarQueue : asked[m.id] = m.name
    /\ \A w \in RequestWorkers : reqWork[w] # Idle =>
          /\ asked[reqWork[w].msg.id] = reqWork[w].msg.name
          /\ reqWork[w].user \in owners[reqWork[w].msg.name]
    /\ \A b \in BatchIds : \A r \in batchKeys[b] : r[1] \in Subjects

IInv ==
    /\ TypeOK
    /\ ClaimsInTable
    /\ BatchesInOrder
    /\ PageIsPrefix
    /\ PagedIsCovered
    /\ ErasureOwed
    /\ OneUserPerBatch
    /\ OnlySubjects

-----------------------------------------------------------------------------
(***************************************************************************)
(* Every delete batch ends processed or in the dead-letter queue, also one *)
(* without keys, on which dsarDeleteLambda always throws.                  *)
(***************************************************************************)
BatchesSettle ==
    \A b \in BatchIds :
        batchState[b] = "queued" ~> batchState[b] \in {"done", "dlq"}

(***************************************************************************)
(* A queued request is acknowledged, or its name stands for nobody.        *)
(***************************************************************************)
RequestsSettle ==
    \A m \in RequestMsgs :
        m \in dsarQueue ~>
            \/ m \notin dsarQueue
            \/ \A u \in Users : <<m.name, u>> \notin identity

Erased(u) == RecordsOf(data, u) = {} /\ \A row \in identity : row[2] # u

(***************************************************************************)
(* docs/lambda-flow-diagrams.md: "The DSAR pipeline deletes all of a       *)
(* user's data and identity records."  Stated for a user who has records:  *)
(* the identity rows of a user without any are never deleted.              *)
(***************************************************************************)
DeletesAllData ==
    \A m \in RequestMsgs, u \in Users :
        (m \in dsarQueue /\ Resolves(identity, m.name, u) /\ RecordsOf(data, u) # {})
            ~> Erased(u)

(***************************************************************************)
(* As long as no invocation fails and nobody writes, a queued request of a *)
(* user with records erases them all, and the user's identity rows too.    *)
(***************************************************************************)
ErasesWhenNothingFails == [](failures = 0 /\ writes = 0) => DeletesAllData

=============================================================================

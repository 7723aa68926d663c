------------------------ MODULE DsarPipeline_proofs ------------------------
(***************************************************************************)
(* DsarPipeline's invariants, for every number of users, records, requests *)
(* and concurrent invocations, every page size and every receive limit.    *)
(* No record of a requested erasure is lost, a batch is about one user,    *)
(* and that user is a subject, whatever lagging copies answer the queries: *)
(* ErasureOwed and OneUserPerBatch follow from the inductive invariant     *)
(* IInv, of which CoveredKept is the heart.  So every step of the pipeline *)
(* is one of the promise Erasure, or none.                                 *)
(***************************************************************************)
EXTENDS DsarPipeline, TLAPS

(* The partition and sort key of a record.                                 *)
LEMMA RecordParts ==
  ASSUME NEW r \in Records
  PROVE  r[1] \in Users /\ r[2] \in Nat
  BY OrderedKeys DEF Records

(* Whatever copy answers a query, the result is of keys, has all that does *)
(* not lag, and nothing that neither is there nor lags.                    *)
LEMMA DataViewParts ==
  ASSUME TypeOK, NEW view \in DataViews
  PROVE  view \in SUBSET Records /\ data \ lagging \subseteq view
  BY DEF TypeOK, DataViews, Views

LEMMA IdentityViewParts ==
  ASSUME TypeOK, NEW view \in IdentityViews
  PROVE  view \in SUBSET Rows /\ view \subseteq identity \cup laggingRows
  BY DEF TypeOK, IdentityViews, Views

(* The initial state has the types.                                        *)
LEMMA InitTypeOK == Init => TypeOK
  BY InitialTables, Sizes, Bounds
     DEF Init, TypeOK, BatchIds, Records, Rows, HandlerStates, RequestRuns, DeleteRuns

(***************************************************************************)
(* Every step keeps the types, in particular receives within MaxReceive    *)
(* and the counters within their bounds.                                   *)
(***************************************************************************)
LEMMA NextTypeOK == TypeOK /\ [Next]_vars => TypeOK'
<1> SUFFICES ASSUME TypeOK, [Next]_vars PROVE TypeOK'
  OBVIOUS
<1> USE DEF TypeOK
<1>1. CASE UNCHANGED vars
  BY <1>1 DEF vars, tables, dataVars, identityVars, api, requestVars, batchVars, history
<1> USE DEF LaggingAfter, tables, dataVars, identityVars
<1>2. ASSUME NEW h \in Handlers, NEW op \in {"post", "link"}, NEW n \in Names,
             NEW u \in Users, HandlerResolves(h, op, n, u)
      PROVE  TypeOK'
  BY <1>2, Bounds DEF HandlerResolves, Calls, HandlerStates, Idle, requestVars,
              batchVars, history
<1>3. ASSUME NEW h \in Handlers, NEW p \in Paths, PostRecord(h, p)
      PROVE  TypeOK'
  <2>1. handler[h] \in HandlerStates /\ handler[h] # Idle
    BY <1>3 DEF PostRecord, Idle
  <2>2. <<handler[h].user, p>> \in Records
    BY <2>1 DEF HandlerStates, Records
  <2> QED
    BY <1>3, <2>2 DEF PostRecord, PutRecord, HandlerStates, requestVars, batchVars, history
<1>4. ASSUME NEW h \in Handlers, NEW n \in Names, LinkIdentity(h, n)
      PROVE  TypeOK'
  <2>1. handler[h] \in HandlerStates /\ handler[h] # Idle
    BY <1>4 DEF LinkIdentity, Idle
  <2>2. handler[h].user \in Users
    BY <2>1 DEF HandlerStates
  <2>3. <<n, handler[h].user>> \in Rows
    BY <2>2 DEF Rows
  <2>4. owners' = [owners EXCEPT ![n] = @ \cup {handler[h].user}]
    BY <1>4 DEF LinkIdentity, PutRow
  <2>5. owners' \in [Names -> SUBSET Users]
    BY <2>2, <2>4
  <2> QED
    BY <1>4, <2>3, <2>5 DEF LinkIdentity, PutRow, HandlerStates, requestVars, batchVars, history
<1>5. ASSUME NEW r \in data, RecordGoes(r)
      PROVE  TypeOK'
  BY <1>5, Bounds DEF RecordGoes, RemoveRecord, Calls, requestVars, batchVars
<1>6. ASSUME NEW row \in identity, RowGoes(row)
      PROVE  TypeOK'
  BY <1>6, Bounds DEF RowGoes, RemoveRow, Calls, requestVars, batchVars, history
<1>7. ASSUME NEW id \in Requests, NEW n \in Names, StartDsar(id, n)
      PROVE  TypeOK'
  BY <1>7 DEF StartDsar, RequestMsgs, api, batchVars, history
<1>8. ASSUME NEW w \in RequestWorkers, NEW m \in dsarQueue, NEW u \in Users,
             ResolveSubject(w, m, u)
      PROVE  TypeOK'
  BY <1>8 DEF ResolveSubject, RequestRuns, RecordsOf, api, batchVars
<1>9. ASSUME NEW w \in RequestWorkers, CountRecords(w)
      PROVE  TypeOK'
  <2>1. reqWork[w] \in RequestRuns
    BY <1>9 DEF CountRecords, Idle
  <2>2. PICK pc \in {"ack", "page"} : reqWork' = [reqWork EXCEPT ![w].pc = pc]
    BY <1>9 DEF CountRecords
  <2>3. reqWork'[w] \in RequestRuns
    BY <2>1, <2>2 DEF RequestRuns
  <2> QED
    BY <1>9, <2>2, <2>3 DEF CountRecords, api, batchVars, history
<1>10. ASSUME NEW w \in RequestWorkers, ReadPage(w)
       PROVE  TypeOK'
  <2>1. reqWork[w] \in RequestRuns
    BY <1>10 DEF ReadPage, Idle
  <2>2. PICK page \in SUBSET Records, pc \in {"send", "sendLast"} :
          reqWork' = [reqWork EXCEPT ![w] =
              [reqWork[w] EXCEPT !.page = page, !.pc = pc]]
    BY <1>10, DataViewParts DEF ReadPage, KeysAfter, RecordsOf
  <2>3. reqWork'[w] \in RequestRuns
    BY <2>1, <2>2 DEF RequestRuns
  <2> QED
    BY <1>10, <2>2, <2>3 DEF ReadPage, api, batchVars, history
<1>11. ASSUME NEW w \in RequestWorkers, SendBatch(w)
       PROVE  TypeOK'
  <2>1. reqWork[w] \in RequestRuns
    <3>1. reqWork[w].pc \in {"send", "sendLast"}
      BY <1>11 DEF SendBatch, NextPage, LoopEnds
    <3> QED
      BY <3>1 DEF Idle
  <2>2. reqWork' \in [RequestWorkers -> RequestRuns \cup {Idle}]
    <3>1. CASE NextPage(w)
      <4>1. PICK end \in reqWork[w].page :
              reqWork' = [reqWork EXCEPT ![w] =
                  [reqWork[w] EXCEPT !.pc = "page", !.cursor = end[2], !.page = {}]]
        BY <3>1 DEF NextPage
      <4>2. end[2] \in Nat
        BY <2>1, RecordParts DEF RequestRuns
      <4>3. [reqWork[w] EXCEPT !.pc = "page", !.cursor = end[2], !.page = {}]
               \in RequestRuns
        BY <2>1, <4>2 DEF RequestRuns
      <4> QED
        BY <4>1, <4>3
    <3>2. CASE LoopEnds(w)
      <4>1. [reqWork[w] EXCEPT !.pc = "ack"] \in RequestRuns
        BY <2>1 DEF RequestRuns
      <4> QED
        BY <3>2, <4>1 DEF LoopEnds
    <3> QED
      BY <1>11, <3>1, <3>2 DEF SendBatch
  <2>3. sent + 1 \in BatchIds /\ reqWork[w].page \in SUBSET Records
    BY <1>11, <2>1, Bounds DEF SendBatch, RequestRuns, BatchIds
  <2> QED
    BY <1>11, <2>2, <2>3, Bounds DEF SendBatch, tables, api, history
<1>12. ASSUME NEW w \in RequestWorkers, AckRequest(w)
       PROVE  TypeOK'
  BY <1>12 DEF AckRequest, Idle, tables, api, batchVars
<1>13. ASSUME NEW w \in RequestWorkers, RequestFails(w)
       PROVE  TypeOK'
  BY <1>13, Bounds DEF RequestFails, Idle, tables, api, batchVars
<1>14. ASSUME NEW v \in DeleteWorkers, NEW b \in BatchIds, ReceiveBatch(v, b)
       PROVE  TypeOK'
  BY <1>14, Sizes DEF ReceiveBatch, DeleteRuns, tables, api, requestVars, history
<1>15. ASSUME NEW v \in DeleteWorkers, DeleteKey(v)
       PROVE  TypeOK'
  <2>1. delWork[v] \in DeleteRuns
    BY <1>15 DEF DeleteKey, Idle
  <2>2. delWork'[v] \in DeleteRuns /\ delWork' = [delWork EXCEPT ![v] = delWork'[v]]
    BY <1>15, <2>1 DEF DeleteKey, DeleteRuns
  <2> QED
    BY <1>15, <2>2 DEF DeleteKey, RemoveRecord, api, requestVars
<1>16. ASSUME NEW v \in DeleteWorkers, EmptyBatchThrows(v)
       PROVE  TypeOK'
  BY <1>16 DEF EmptyBatchThrows, Idle, tables, api, requestVars, history
<1>17. ASSUME NEW v \in DeleteWorkers, QueryRows(v)
       PROVE  TypeOK'
  <2>1. delWork[v] \in DeleteRuns
    BY <1>17 DEF QueryRows, Idle
  <2>2. delWork'[v] \in DeleteRuns /\ delWork' = [delWork EXCEPT ![v] = delWork'[v]]
    <3>1. PICK rows \in SUBSET Rows :
            delWork' = [delWork EXCEPT ![v] = [delWork[v] EXCEPT !.pc = "rows", !.rows = rows]]
      BY <1>17, IdentityViewParts DEF QueryRows
    <3> QED
      BY <2>1, <3>1 DEF DeleteRuns
  <2> QED
    BY <1>17, <2>2 DEF QueryRows, tables, api, requestVars, history
<1>18. ASSUME NEW v \in DeleteWorkers, DeleteRow(v)
       PROVE  TypeOK'
  <2>1. delWork[v] \in DeleteRuns
    BY <1>18 DEF DeleteRow, Idle
  <2>2. delWork'[v] \in DeleteRuns /\ delWork' = [delWork EXCEPT ![v] = delWork'[v]]
    BY <1>18, <2>1 DEF DeleteRow, DeleteRuns
  <2> QED
    BY <1>18, <2>2 DEF DeleteRow, RemoveRow, api, requestVars, history
<1>19. ASSUME NEW v \in DeleteWorkers, AckBatch(v)
       PROVE  TypeOK'
  <2>1. delWork[v] \in DeleteRuns
    BY <1>19 DEF AckBatch, Idle
  <2>2. delWork[v].batch \in BatchIds
    BY <2>1 DEF DeleteRuns
  <2> QED
    BY <1>19, <2>2 DEF AckBatch, tables, api, requestVars, history
<1>20. ASSUME NEW v \in DeleteWorkers, DeleteFails(v)
       PROVE  TypeOK'
  BY <1>20, Bounds DEF DeleteFails, Idle, tables, api, requestVars, history
<1>21. ASSUME NEW b \in BatchIds, BatchToDlq(b)
       PROVE  TypeOK'
  BY <1>21 DEF BatchToDlq, tables, api, requestVars, history
<1>22. ASSUME NEW r \in lagging, RecordSettles(r)
       PROVE  TypeOK'
  BY <1>22 DEF RecordSettles, api, requestVars, batchVars, history
<1>23. ASSUME NEW row \in laggingRows, RowSettles(row)
       PROVE  TypeOK'
  BY <1>23 DEF RowSettles, api, requestVars, batchVars, history
<1> QED
  BY <1>1, <1>2, <1>3, <1>4, <1>5, <1>6, <1>7, <1>8, <1>9, <1>10, <1>11, <1>12,
     <1>13, <1>14, <1>15, <1>16, <1>17, <1>18, <1>19, <1>20, <1>21, <1>22, <1>23
     DEF Next, HandlerStep, RequestStep, DeleteStep

(***************************************************************************)
(* The pipeline's variables keep their types.                              *)
(***************************************************************************)
THEOREM TypeCorrect == Spec => []TypeOK
<1>1. Init => TypeOK
  BY InitTypeOK
<1>2. TypeOK /\ [Next]_vars => TypeOK'
  BY NextTypeOK
<1> QED
  BY <1>1, <1>2, PTL DEF Spec


-----------------------------------------------------------------------------
(* What a step can disturb.                                                *)

(* A step that changes a batch or an invocation of dsarDeleteLambda is one *)
(* of the batch actions.                                                   *)
LEMMA BatchActions ==
  ASSUME [Next]_vars
  PROVE  \/ UNCHANGED batchVars
         \/ \E w \in RequestWorkers : SendBatch(w)
         \/ \E v \in DeleteWorkers : DeleteStep(v) \/ DeleteFails(v)
         \/ \E b \in BatchIds : BatchToDlq(b)
<1> USE DEF vars
<1>1. ASSUME NEW h \in Handlers, NEW op \in {"post", "link"}, NEW n \in Names,
             NEW u \in Users, HandlerResolves(h, op, n, u)
      PROVE  UNCHANGED batchVars
  BY <1>1 DEF HandlerResolves
<1>2. ASSUME NEW h \in Handlers, NEW p \in Paths, PostRecord(h, p)
      PROVE  UNCHANGED batchVars
  BY <1>2 DEF PostRecord
<1>3. ASSUME NEW h \in Handlers, NEW n \in Names, LinkIdentity(h, n)
      PROVE  UNCHANGED batchVars
  BY <1>3 DEF LinkIdentity
<1>4. ASSUME NEW r \in data, RecordGoes(r)
      PROVE  UNCHANGED batchVars
  BY <1>4 DEF RecordGoes
<1>5. ASSUME NEW row \in identity, RowGoes(row)
      PROVE  UNCHANGED batchVars
  BY <1>5 DEF RowGoes
<1>6. ASSUME NEW id \in Requests, NEW n \in Names, StartDsar(id, n)
      PROVE  UNCHANGED batchVars
  BY <1>6 DEF StartDsar
<1>7. ASSUME NEW w \in RequestWorkers, RequestStep(w) \/ RequestFails(w)
      PROVE  UNCHANGED batchVars \/ SendBatch(w)
  BY <1>7 DEF RequestStep, ResolveSubject, CountRecords, ReadPage, AckRequest,
              RequestFails
<1>8. ASSUME \/ \E r \in lagging : RecordSettles(r)
             \/ \E row \in laggingRows : RowSettles(row)
      PROVE  UNCHANGED batchVars
  BY <1>8 DEF RecordSettles, RowSettles
<1> QED
  BY <1>1, <1>2, <1>3, <1>4, <1>5, <1>6, <1>7, <1>8 DEF Next, HandlerStep, vars

(* Apart from the steps of dsarRequestLambda, no step changes what its     *)
(* invocations are doing or makes a claim.                                 *)
LEMMA RequestActions ==
  ASSUME [Next]_vars
  PROVE  \/ /\ UNCHANGED reqWork
            /\ \A w \in RequestWorkers : steady'[w] \subseteq steady[w]
            /\ owed' \subseteq owed
         \/ \E w \in RequestWorkers : RequestStep(w) \/ RequestFails(w)
<1> DEFINE Quiet ==
      /\ UNCHANGED reqWork
      /\ \A w \in RequestWorkers : steady'[w] \subseteq steady[w]
      /\ owed' \subseteq owed
<1>1. ASSUME UNCHANGED <<reqWork, history>>
      PROVE  Quiet
  BY <1>1 DEF history
<1>2. ASSUME NEW r, RemoveRecord(r), UNCHANGED reqWork
      PROVE  Quiet
  BY <1>2 DEF RemoveRecord
<1>3. ASSUME NEW v \in DeleteWorkers, DeleteStep(v) \/ DeleteFails(v)
      PROVE  Quiet
  <2>1. CASE DeleteKey(v)
    BY <1>2, <2>1 DEF DeleteKey, requestVars
  <2> QED
    BY <1>1, <1>3, <2>1 DEF DeleteStep, ReceiveBatch, EmptyBatchThrows, QueryRows,
       DeleteRow, AckBatch, DeleteFails, requestVars
<1>4. ASSUME HandlerStep
      PROVE  Quiet
  BY <1>1, <1>2, <1>4 DEF HandlerStep, HandlerResolves, PostRecord, LinkIdentity,
     RecordGoes, RowGoes, requestVars
<1> QED
  BY <1>1, <1>3, <1>4
     DEF Next, StartDsar, BatchToDlq, RecordSettles, RowSettles, requestVars, vars

(* The fields of an invocation of dsarDeleteLambda that is at work.        *)
LEMMA DeleteRunParts ==
  ASSUME TypeOK, NEW v \in DeleteWorkers, delWork[v] # Idle
  PROVE  /\ delWork[v] \in DeleteRuns
         /\ delWork[v].batch \in BatchIds
         /\ delWork[v].todo \in SUBSET Records
         /\ delWork[v].rows \in SUBSET Rows
  BY DEF TypeOK, DeleteRuns

(* An invocation that is deleting keys or rows is not idle.                *)
LEMMA IdleDeletes ==
  ASSUME NEW v \in DeleteWorkers, delWork[v].pc \in {"keys", "rows"}
  PROVE  delWork[v] # Idle
  BY DEF Idle

(* A covered record that stays in the table stays covered.                 *)
LEMMA CoveredKept ==
  ASSUME TypeOK, BatchesInOrder, [Next]_vars, NEW r \in data', Covered(r)
  PROVE  Covered(r)'
<1>1. PICK b \in Outstanding :
        /\ r \in batchKeys[b]
        /\ \A v \in DeleteWorkers :
              delWork[v] # Idle /\ delWork[v].batch = b => r \in delWork[v].todo
  BY DEF Covered
<1>2. b \in BatchIds /\ batchState[b] \in {"queued", "dlq"}
  BY DEF Outstanding
<1>3. SUFFICES
        /\ batchState'[b] \in {"queued", "dlq"}
        /\ r \in batchKeys'[b]
        /\ \A v \in DeleteWorkers :
              delWork'[v] # Idle /\ delWork'[v].batch = b => r \in delWork'[v].todo
  BY <1>2 DEF Covered, Outstanding
<1>4. CASE UNCHANGED batchVars
  BY <1>1, <1>2, <1>4 DEF batchVars
<1>5. ASSUME NEW w \in RequestWorkers, SendBatch(w)
      PROVE  /\ batchState'[b] \in {"queued", "dlq"}
             /\ r \in batchKeys'[b]
             /\ UNCHANGED delWork
  <2>1. b # sent + 1
    BY <1>2, <1>5, Bounds DEF SendBatch, BatchesInOrder, TypeOK, BatchIds
  <2> QED
    BY <1>1, <1>2, <1>5, <2>1 DEF SendBatch, TypeOK
<1>6. ASSUME NEW v \in DeleteWorkers, DeleteStep(v) \/ DeleteFails(v)
      PROVE  /\ batchState'[b] \in {"queued", "dlq"}
             /\ r \in batchKeys'[b]
             /\ \A x \in DeleteWorkers :
                  delWork'[x] # Idle /\ delWork'[x].batch = b => r \in delWork'[x].todo
  <2>1. ASSUME NEW c \in BatchIds, ReceiveBatch(v, c)
        PROVE  UNCHANGED <<batchState, batchKeys>> /\
               delWork' = [delWork EXCEPT ![v] =
                  [pc |-> "keys", batch |-> c, todo |-> batchKeys[c], rows |-> {}]]
    BY <2>1 DEF ReceiveBatch
  <2>2. CASE \E c \in BatchIds : ReceiveBatch(v, c)
    BY <1>1, <1>2, <2>1, <2>2 DEF TypeOK
  <2>3. CASE DeleteKey(v)
    <3>1. delWork[v] # Idle
      BY <2>3, IdleDeletes DEF DeleteKey
    <3>2. PICK q \in delWork[v].todo :
            data' = data \ {q} /\ delWork' = [delWork EXCEPT ![v].todo = @ \ {q}]
      BY <2>3 DEF DeleteKey, RemoveRecord
    <3>3. delWork'[v].batch = delWork[v].batch /\ delWork'[v].todo = delWork[v].todo \ {q}
      BY <3>1, <3>2, DeleteRunParts DEF TypeOK, DeleteRuns
    <3>4. r # q
      BY <3>2
    <3>5. UNCHANGED <<batchState, batchKeys>>
      BY <2>3 DEF DeleteKey
    <3> QED
      BY <1>1, <1>2, <3>1, <3>2, <3>3, <3>4, <3>5 DEF TypeOK
  <2>4. CASE EmptyBatchThrows(v) \/ DeleteFails(v)
    BY <1>1, <1>2, <2>4 DEF EmptyBatchThrows, DeleteFails, TypeOK
  <2>5. CASE QueryRows(v)
    <3>1. delWork[v] # Idle
      BY <2>5, IdleDeletes DEF QueryRows
    <3>2. PICK rows :
            delWork' = [delWork EXCEPT ![v] = [delWork[v] EXCEPT !.pc = "rows", !.rows = rows]]
      BY <2>5 DEF QueryRows
    <3>3. delWork'[v].batch = delWork[v].batch /\ delWork'[v].todo = delWork[v].todo
      BY <3>1, <3>2, DeleteRunParts DEF TypeOK, DeleteRuns
    <3>5. UNCHANGED <<batchState, batchKeys>>
      BY <2>5 DEF QueryRows
    <3> QED
      BY <1>1, <1>2, <3>1, <3>2, <3>3, <3>5 DEF TypeOK
  <2>6. CASE DeleteRow(v)
    <3>1. delWork[v] # Idle
      BY <2>6, IdleDeletes DEF DeleteRow
    <3>2. PICK row : delWork' = [delWork EXCEPT ![v].rows = @ \ {row}]
      BY <2>6 DEF DeleteRow
    <3>3. delWork'[v].batch = delWork[v].batch /\ delWork'[v].todo = delWork[v].todo
      BY <3>1, <3>2, DeleteRunParts DEF TypeOK, DeleteRuns
    <3>5. UNCHANGED <<batchState, batchKeys>>
      BY <2>6 DEF DeleteRow
    <3> QED
      BY <1>1, <1>2, <3>1, <3>2, <3>3, <3>5 DEF TypeOK
  <2>7. CASE AckBatch(v)
    <3>1. delWork[v] # Idle /\ delWork[v].todo = {}
      BY <2>7, IdleDeletes DEF AckBatch, BatchesInOrder
    <3>2. delWork[v].batch # b
      BY <1>1, <3>1
    <3>3. delWork' = [delWork EXCEPT ![v] = Idle] /\ UNCHANGED batchKeys
      BY <2>7 DEF AckBatch
    <3>4. batchState'[b] = batchState[b]
      BY <1>2, <2>7, <3>2 DEF AckBatch, TypeOK
    <3> QED
      BY <1>1, <1>2, <3>3, <3>4 DEF TypeOK
  <2> QED
    BY <1>6, <2>2, <2>3, <2>4, <2>5, <2>6, <2>7 DEF DeleteStep
<1>7. ASSUME NEW c \in BatchIds, BatchToDlq(c)
      PROVE  /\ batchState'[b] \in {"queued", "dlq"}
             /\ UNCHANGED <<batchKeys, delWork>>
  BY <1>2, <1>7 DEF BatchToDlq, TypeOK
<1> QED
  BY <1>1, <1>4, <1>5, <1>6, <1>7, BatchActions

(* Counting, reading a page and sending a batch are steps of a running     *)
(* invocation of dsarRequestLambda, which goes on with the same subject.   *)
LEMMA RunGoesOn ==
  ASSUME TypeOK, NEW w \in RequestWorkers,
         CountRecords(w) \/ ReadPage(w) \/ SendBatch(w)
  PROVE  /\ reqWork[w] \in RequestRuns
         /\ reqWork[w] # Idle
         /\ reqWork'[w] # Idle
         /\ reqWork'[w].user = reqWork[w].user
         /\ reqWork'[w].msg = reqWork[w].msg
         /\ \A x \in RequestWorkers \ {w} : reqWork'[x] = reqWork[x]
<1>1. reqWork[w] \in RequestRuns /\ reqWork[w] # Idle
  <2>1. reqWork[w].pc \in {"count", "page", "send", "sendLast"}
    BY DEF CountRecords, ReadPage, SendBatch, NextPage, LoopEnds
  <2> QED
    BY <2>1 DEF Idle, TypeOK
<1>2. SUFFICES
        /\ reqWork'[w].pc \in {"page", "send", "sendLast", "ack"}
        /\ reqWork'[w].user = reqWork[w].user
        /\ reqWork'[w].msg = reqWork[w].msg
        /\ \A x \in RequestWorkers \ {w} : reqWork'[x] = reqWork[x]
  BY <1>1 DEF Idle
<1> USE DEF TypeOK
<1>3. CASE CountRecords(w)
  <2>1. PICK pc \in {"ack", "page"} : reqWork' = [reqWork EXCEPT ![w].pc = pc]
    BY <1>3 DEF CountRecords
  <2> QED
    BY <1>1, <2>1 DEF RequestRuns
<1>4. CASE ReadPage(w)
  <2>1. PICK page \in SUBSET Records, pc \in {"send", "sendLast"} :
          reqWork' = [reqWork EXCEPT ![w] = [reqWork[w] EXCEPT !.page = page, !.pc = pc]]
    BY <1>4, DataViewParts DEF ReadPage, KeysAfter, RecordsOf
  <2> QED
    BY <1>1, <2>1 DEF RequestRuns
<1>5. CASE NextPage(w)
  <2>1. PICK end :
          reqWork' = [reqWork EXCEPT ![w] =
              [reqWork[w] EXCEPT !.pc = "page", !.cursor = end[2], !.page = {}]]
    BY <1>5 DEF NextPage
  <2> QED
    BY <1>1, <2>1 DEF RequestRuns
<1>6. CASE LoopEnds(w)
  BY <1>1, <1>6 DEF LoopEnds, RequestRuns
<1> QED
  BY <1>3, <1>4, <1>5, <1>6 DEF SendBatch

-----------------------------------------------------------------------------
(* The parts of the inductive invariant, one lemma for each.               *)

(* Claims are withdrawn when their record leaves the table.                *)
LEMMA NextClaimsInTable ==
  ASSUME TypeOK, ClaimsInTable, [Next]_vars
  PROVE  ClaimsInTable'
<1> USE DEF ClaimsInTable
<1>1. CASE UNCHANGED <<data, reqWork, history>> /\ lagging' \subseteq lagging
  BY <1>1 DEF history
<1>2. ASSUME NEW r, RemoveRecord(r), UNCHANGED reqWork
      PROVE  ClaimsInTable'
  BY <1>2 DEF RemoveRecord, LaggingAfter, TypeOK
<1>3. ASSUME NEW h \in Handlers, NEW p \in Paths, PostRecord(h, p)
      PROVE  ClaimsInTable'
  <2>1. \A r \in data : r \in lagging' => r \in lagging
    BY <1>3 DEF PostRecord, PutRecord, LaggingAfter
  <2>2. data \subseteq data' /\ UNCHANGED <<reqWork, steady, owed>>
    BY <1>3 DEF PostRecord, PutRecord, requestVars, history
  <2> QED
    BY <2>1, <2>2
<1>4. ASSUME NEW w \in RequestWorkers, RequestStep(w) \/ RequestFails(w)
      PROVE  ClaimsInTable'
  <2>1. ASSUME NEW m \in dsarQueue, NEW u \in Users, ResolveSubject(w, m, u)
        PROVE  ClaimsInTable'
    BY <2>1 DEF ResolveSubject, RecordsOf, tables, dataVars, TypeOK, Idle
  <2>2. CASE CountRecords(w) \/ ReadPage(w) \/ SendBatch(w)
    <3>1. UNCHANGED <<data, lagging, steady, owed>>
      BY <2>2 DEF CountRecords, ReadPage, SendBatch, tables, dataVars, history
    <3> QED
      BY <2>2, <3>1, RunGoesOn DEF TypeOK
  <2>5. CASE AckRequest(w)
    BY <2>5 DEF AckRequest, tables, dataVars, TypeOK
  <2>6. CASE RequestFails(w)
    BY <2>6 DEF RequestFails, tables, dataVars, TypeOK
  <2> QED
    BY <1>4, <2>1, <2>2, <2>5, <2>6 DEF RequestStep
<1>5. ASSUME NEW v \in DeleteWorkers, DeleteStep(v) \/ DeleteFails(v)
      PROVE  ClaimsInTable'
  <2>1. CASE DeleteKey(v)
    BY <1>2, <2>1 DEF DeleteKey, requestVars
  <2> QED
    BY <1>1, <1>5, <2>1 DEF DeleteStep, ReceiveBatch, EmptyBatchThrows, QueryRows,
       DeleteRow, AckBatch, DeleteFails, tables, dataVars, requestVars
<1>6. CASE HandlerStep
  BY <1>1, <1>2, <1>3, <1>6 DEF HandlerStep, HandlerResolves, LinkIdentity, RecordGoes,
     RowGoes, tables, dataVars, requestVars
<1> QED
  BY <1>1, <1>4, <1>5, <1>6 DEF Next, StartDsar, BatchToDlq, RecordSettles, RowSettles,
     vars, tables, dataVars, requestVars, history

(* Batches are numbered in the order of sending and received once sent.     *)
LEMMA NextBatchesInOrder ==
  ASSUME TypeOK, BatchesInOrder, [Next]_vars
  PROVE  BatchesInOrder'
<1> USE DEF BatchesInOrder
<1>1. CASE UNCHANGED batchVars
  BY <1>1 DEF batchVars
<1>2. ASSUME NEW w \in RequestWorkers, SendBatch(w)
      PROVE  BatchesInOrder'
  <2>0. sent + 1 \in BatchIds /\ sent \in Nat /\ \A b \in BatchIds : b \in Nat
    BY <1>2, Bounds DEF SendBatch, BatchIds, TypeOK
  <2>1. \A b \in BatchIds : batchState'[b] = "unsent" <=> b > sent'
    BY <1>2, <2>0 DEF SendBatch, TypeOK
  <2>2. ASSUME NEW v \in DeleteWorkers, delWork[v] # Idle
        PROVE  /\ batchKeys'[delWork[v].batch] = batchKeys[delWork[v].batch]
               /\ delWork[v].batch <= sent'
    BY <1>2, <2>0, <2>2, DeleteRunParts DEF SendBatch, TypeOK
  <2> QED
    BY <1>2, <2>1, <2>2 DEF SendBatch
<1>3. ASSUME NEW v \in DeleteWorkers, DeleteStep(v) \/ DeleteFails(v)
      PROVE  BatchesInOrder'
  <2>1. ASSUME NEW b \in BatchIds, ReceiveBatch(v, b)
        PROVE  BatchesInOrder'
    <3>1. b <= sent
      BY <2>1 DEF ReceiveBatch, TypeOK, BatchIds
    <3> QED
      BY <2>1, <3>1 DEF ReceiveBatch, TypeOK
  <2>2. CASE DeleteKey(v)
    <3>1. delWork[v] # Idle
      BY <2>2, IdleDeletes DEF DeleteKey
    <3>2. PICK q : delWork' = [delWork EXCEPT ![v].todo = @ \ {q}]
      BY <2>2 DEF DeleteKey
    <3>3. /\ delWork'[v].batch = delWork[v].batch /\ delWork'[v].pc = "keys"
          /\ delWork'[v].todo = delWork[v].todo \ {q}
      BY <2>2, <3>1, <3>2, DeleteRunParts DEF DeleteKey, TypeOK, DeleteRuns
    <3>4. UNCHANGED <<sent, batchState, batchKeys>>
      BY <2>2 DEF DeleteKey
    <3> QED
      BY <3>1, <3>2, <3>3, <3>4 DEF TypeOK
  <2>3. CASE EmptyBatchThrows(v) \/ DeleteFails(v)
    BY <2>3 DEF EmptyBatchThrows, DeleteFails, TypeOK
  <2>4. CASE QueryRows(v)
    <3>1. delWork[v] # Idle /\ delWork[v].todo = {}
      BY <2>4, IdleDeletes DEF QueryRows
    <3>2. PICK rows :
            delWork' = [delWork EXCEPT ![v] = [delWork[v] EXCEPT !.pc = "rows", !.rows = rows]]
      BY <2>4 DEF QueryRows
    <3>3. delWork'[v].batch = delWork[v].batch /\ delWork'[v].todo = delWork[v].todo
      BY <3>1, <3>2, DeleteRunParts DEF TypeOK, DeleteRuns
    <3>4. UNCHANGED <<sent, batchState, batchKeys>>
      BY <2>4 DEF QueryRows
    <3> QED
      BY <3>1, <3>2, <3>3, <3>4 DEF TypeOK
  <2>5. CASE DeleteRow(v)
    <3>1. delWork[v] # Idle
      BY <2>5, IdleDeletes DEF DeleteRow
    <3>2. PICK row : delWork' = [delWork EXCEPT ![v].rows = @ \ {row}]
      BY <2>5 DEF DeleteRow
    <3>3. /\ delWork'[v].batch = delWork[v].batch
          /\ delWork'[v].todo = delWork[v].todo
          /\ delWork'[v].pc = delWork[v].pc
      BY <3>1, <3>2, DeleteRunParts DEF TypeOK, DeleteRuns
    <3>4. UNCHANGED <<sent, batchState, batchKeys>>
      BY <2>5 DEF DeleteRow
    <3> QED
      BY <3>1, <3>2, <3>3, <3>4 DEF TypeOK
  <2>6. CASE AckBatch(v)
    <3>1. delWork' = [delWork EXCEPT ![v] = Idle] /\ UNCHANGED <<sent, batchKeys>>
      BY <2>6 DEF AckBatch
    <3>2. \A b \in BatchIds : batchState'[b] = "unsent" <=> batchState[b] = "unsent"
      BY <2>6 DEF AckBatch, TypeOK
    <3> QED
      BY <3>1, <3>2 DEF TypeOK
  <2> QED
    BY <1>3, <2>1, <2>2, <2>3, <2>4, <2>5, <2>6 DEF DeleteStep
<1>4. ASSUME NEW b \in BatchIds, BatchToDlq(b)
      PROVE  BatchesInOrder'
  BY <1>4 DEF BatchToDlq, TypeOK
<1> QED
  BY <1>1, <1>2, <1>3, <1>4, BatchActions

(* A page is cut off the front of what is left of the subject's records,   *)
(* so what is claimed and not on it comes after all of it.                 *)
LEMMA NextPageIsPrefix ==
  ASSUME TypeOK, ClaimsInTable, PageIsPrefix, [Next]_vars
  PROVE  PageIsPrefix'
<1> USE DEF PageIsPrefix
<1>1. ASSUME UNCHANGED reqWork, \A w \in RequestWorkers : steady'[w] \subseteq steady[w]
      PROVE  PageIsPrefix'
  BY <1>1
<1>2. ASSUME NEW w \in RequestWorkers, RequestStep(w) \/ RequestFails(w)
      PROVE  PageIsPrefix'
  <2>1. ASSUME \A x \in RequestWorkers \ {w} :
                  reqWork'[x] = reqWork[x] /\ steady'[x] = steady[x],
               reqWork'[w].pc \notin {"send", "sendLast"}
        PROVE  PageIsPrefix'
    BY <2>1
  <2>2. ASSUME NEW m \in dsarQueue, NEW u \in Users, ResolveSubject(w, m, u)
        PROVE  PageIsPrefix'
    BY <2>1, <2>2 DEF ResolveSubject, TypeOK
  <2>3. CASE CountRecords(w)
    <3>1. reqWork'[w].pc \in {"ack", "page"}
      <4>1. PICK pc \in {"ack", "page"} : reqWork' = [reqWork EXCEPT ![w].pc = pc]
        BY <2>3 DEF CountRecords
      <4> QED
        BY <2>3, <4>1, RunGoesOn DEF TypeOK, RequestRuns
    <3> QED
      BY <2>1, <2>3, <3>1, RunGoesOn DEF CountRecords, history
  <2>4. CASE ReadPage(w)
    <3>0. PICK view \in DataViews :
            \E page \in SUBSET KeysAfter(view, reqWork[w].user, reqWork[w].cursor) :
              /\ \A r \in page, q \in KeysAfter(view, reqWork[w].user, reqWork[w].cursor) \ page :
                    r[2] < q[2]
              /\ reqWork' = [reqWork EXCEPT ![w] =
                    [reqWork[w] EXCEPT !.page = page,
                       !.pc = IF \/ page # KeysAfter(view, reqWork[w].user, reqWork[w].cursor)
                                 \/ Cardinality(page) = PageSize
                              THEN "send" ELSE "sendLast"]]
      BY <2>4 DEF ReadPage
    <3> DEFINE s == reqWork[w]
               rest == KeysAfter(view, s.user, s.cursor)
    <3>1. s \in RequestRuns /\ s # Idle
      BY <2>4, RunGoesOn
    <3>2. PICK page \in SUBSET rest :
            /\ \A r \in page, q \in rest \ page : r[2] < q[2]
            /\ reqWork' = [reqWork EXCEPT ![w] =
                    [s EXCEPT !.page = page,
                              !.pc = IF page # rest \/ Cardinality(page) = PageSize
                                     THEN "send" ELSE "sendLast"]]
      BY <3>0
    <3>3. /\ reqWork'[w].page = page
          /\ reqWork'[w].cursor = s.cursor
          /\ reqWork'[w].user = s.user
          /\ page # rest => reqWork'[w].pc = "send"
      BY <3>1, <3>2 DEF TypeOK, RequestRuns
    <3>4. \A r \in page : r[1] = s.user
      BY <3>2 DEF KeysAfter, RecordsOf
    <3>5. ASSUME NEW r \in steady[w], r[2] > s.cursor, r \notin page
          PROVE  page # rest /\ \A q \in page : q[2] < r[2]
      <4>1. r \in rest
        BY <3>1, <3>5, DataViewParts DEF ClaimsInTable, KeysAfter, RecordsOf
      <4> QED
        BY <3>2, <3>5, <4>1
    <3>6. /\ \A x \in RequestWorkers \ {w} : reqWork'[x] = reqWork[x]
          /\ UNCHANGED steady
      BY <2>4, <3>2 DEF ReadPage, TypeOK, history
    <3> QED
      BY <3>3, <3>4, <3>5, <3>6
  <2>5. CASE SendBatch(w)
    <3>1. reqWork'[w].pc \in {"page", "ack"}
      <4>1. CASE NextPage(w)
        <5>1. PICK end : reqWork' = [reqWork EXCEPT ![w] =
                [reqWork[w] EXCEPT !.pc = "page", !.cursor = end[2], !.page = {}]]
          BY <4>1 DEF NextPage
        <5> QED
          BY <2>5, <5>1, RunGoesOn DEF TypeOK, RequestRuns
      <4>2. CASE LoopEnds(w)
        BY <2>5, <4>2, RunGoesOn DEF LoopEnds, TypeOK, RequestRuns
      <4> QED
        BY <2>5, <4>1, <4>2 DEF SendBatch
    <3> QED
      BY <2>1, <2>5, <3>1, RunGoesOn DEF SendBatch, history
  <2>6. CASE AckRequest(w) \/ RequestFails(w)
    BY <2>1, <2>6 DEF AckRequest, RequestFails, TypeOK, Idle
  <2> QED
    BY <1>2, <2>2, <2>3, <2>4, <2>5, <2>6 DEF RequestStep
<1> QED
  BY <1>1, <1>2, RequestActions

(* Sending a page covers its records; the cursor moves to its last key,    *)
(* past nothing else that is claimed.                                      *)
LEMMA NextPagedIsCovered ==
  ASSUME TypeOK, ClaimsInTable, BatchesInOrder, PageIsPrefix, PagedIsCovered, [Next]_vars
  PROVE  PagedIsCovered'
<1> USE DEF PagedIsCovered
<1>0. ClaimsInTable'
  BY NextClaimsInTable
<1>a. \A w \in RequestWorkers : \A r \in steady'[w] : Covered(r) => Covered(r)'
  BY <1>0, CoveredKept DEF ClaimsInTable
<1>1. ASSUME UNCHANGED reqWork, \A w \in RequestWorkers : steady'[w] \subseteq steady[w]
      PROVE  PagedIsCovered'
  BY <1>1, <1>a
<1>2. ASSUME NEW w \in RequestWorkers, RequestStep(w) \/ RequestFails(w)
      PROVE  PagedIsCovered'
  <2>1. ASSUME \A x \in RequestWorkers \ {w} :
                  reqWork'[x] = reqWork[x] /\ steady'[x] = steady[x],
               reqWork'[w].pc = "count" => reqWork'[w].cursor = 0,
               reqWork'[w].pc \in {"page", "send", "sendLast", "ack"} =>
                  \A r \in steady'[w] :
                     reqWork'[w].pc = "ack" \/ r[2] <= reqWork'[w].cursor => Covered(r)'
        PROVE  PagedIsCovered'
    BY <2>1, <1>a
  <2>2. ASSUME NEW m \in dsarQueue, NEW u \in Users, ResolveSubject(w, m, u)
        PROVE  PagedIsCovered'
    BY <2>1, <2>2 DEF ResolveSubject, TypeOK
  <2>3. CASE CountRecords(w)
    <3>0. PICK view \in DataViews : reqWork' = [reqWork EXCEPT ![w].pc =
            IF RecordsOf(view, reqWork[w].user) = {} THEN "ack" ELSE "page"]
      BY <2>3 DEF CountRecords
    <3>1. reqWork[w] \in RequestRuns /\ reqWork[w].cursor = 0 /\ UNCHANGED steady
      BY <2>3, RunGoesOn DEF CountRecords, history
    <3>2. /\ reqWork'[w].cursor = 0
          /\ reqWork'[w].pc = IF RecordsOf(view, reqWork[w].user) = {} THEN "ack" ELSE "page"
      BY <3>0, <3>1 DEF TypeOK, RequestRuns
    <3>3. ASSUME NEW r \in steady[w]
          PROVE  r[2] \in Nat \ {0} /\ r \in RecordsOf(view, reqWork[w].user)
      <4>1. r \in Records /\ r \in view /\ r[1] = reqWork[w].user
        BY <2>3, RunGoesOn, DataViewParts DEF ClaimsInTable, TypeOK
      <4> QED
        BY <4>1, OrderedKeys DEF RecordsOf, Records
    <3> QED
      BY <2>1, <2>3, <3>1, <3>2, <3>3, RunGoesOn
  <2>4. CASE ReadPage(w)
    <3>1. reqWork[w] \in RequestRuns /\ reqWork[w].pc = "page" /\ UNCHANGED steady
      BY <2>4, RunGoesOn DEF ReadPage, history
    <3>2. PICK page \in SUBSET Records, pc \in {"send", "sendLast"} :
            reqWork' = [reqWork EXCEPT ![w] = [reqWork[w] EXCEPT !.page = page, !.pc = pc]]
      BY <2>4, DataViewParts DEF ReadPage, KeysAfter, RecordsOf
    <3>3. reqWork'[w].cursor = reqWork[w].cursor /\ reqWork'[w].pc = pc
      BY <3>1, <3>2 DEF TypeOK, RequestRuns
    <3> QED
      BY <1>a, <2>1, <2>4, <3>1, <3>3, RunGoesOn
  <2>5. CASE SendBatch(w)
    <3> DEFINE s == reqWork[w]
    <3>1. s \in RequestRuns /\ s.pc \in {"send", "sendLast"} /\ UNCHANGED steady
      BY <2>5, RunGoesOn DEF SendBatch, NextPage, LoopEnds, history
    <3>2. ASSUME NEW r \in s.page
          PROVE  Covered(r)'
      <4>1. sent + 1 \in BatchIds /\ sent + 1 > sent /\ sent \in Nat
        BY <2>5, Bounds DEF SendBatch, BatchIds, TypeOK
      <4>2. /\ batchState'[sent + 1] = "queued" /\ batchKeys'[sent + 1] = s.page
            /\ UNCHANGED delWork
        BY <2>5, <4>1 DEF SendBatch, TypeOK
      <4>3. \A v \in DeleteWorkers : delWork[v] # Idle => delWork[v].batch # sent + 1
        BY <4>1, DeleteRunParts DEF BatchesInOrder, BatchIds
      <4> QED
        BY <3>2, <4>1, <4>2, <4>3 DEF Covered, Outstanding
    <3>3. ASSUME NEW r \in steady[w], r \in s.page \/ r[2] <= s.cursor
          PROVE  Covered(r)'
      BY <1>a, <3>1, <3>2, <3>3
    <3>4. CASE NextPage(w)
      <4>1. PICK end \in s.page :
              /\ \A r \in s.page : r[2] <= end[2]
              /\ reqWork' = [reqWork EXCEPT ![w] =
                    [reqWork[w] EXCEPT !.pc = "page", !.cursor = end[2], !.page = {}]]
        BY <3>4 DEF NextPage
      <4>2. reqWork'[w].pc = "page" /\ reqWork'[w].cursor = end[2]
        BY <3>1, <4>1 DEF TypeOK, RequestRuns
      <4>3. end[2] \in Nat /\ s.cursor \in Nat
        BY <3>1, RecordParts DEF RequestRuns
      <4>4. ASSUME NEW r \in steady[w], r[2] <= end[2]
            PROVE  r \in s.page \/ r[2] <= s.cursor
        <5>1. r[2] \in Nat
          BY RecordParts DEF TypeOK
        <5> QED
          BY <3>1, <4>1, <4>3, <4>4, <5>1 DEF PageIsPrefix
      <4> QED
        BY <2>1, <2>5, <3>1, <3>3, <4>2, <4>4, RunGoesOn
    <3>5. CASE LoopEnds(w)
      <4>1. reqWork'[w].pc = "ack" /\ s.pc = "sendLast"
        BY <3>1, <3>5 DEF LoopEnds, TypeOK, RequestRuns
      <4>2. ASSUME NEW r \in steady[w]
            PROVE  r \in s.page \/ r[2] <= s.cursor
        <5>1. r[2] \in Nat /\ s.cursor \in Nat
          BY <3>1, RecordParts DEF TypeOK, RequestRuns
        <5> QED
          BY <3>1, <4>1, <5>1 DEF PageIsPrefix
      <4> QED
        BY <2>1, <2>5, <3>1, <3>3, <4>1, <4>2, RunGoesOn
    <3> QED
      BY <2>5, <3>4, <3>5 DEF SendBatch
  <2>6. CASE AckRequest(w) \/ RequestFails(w)
    BY <2>1, <2>6 DEF AckRequest, RequestFails, TypeOK, Idle
  <2> QED
    BY <1>2, <2>2, <2>3, <2>4, <2>5, <2>6 DEF RequestStep
<1> QED
  BY <1>1, <1>2, RequestActions

(* What is owed stays covered, and an acknowledged request has paged past  *)
(* every record it claims.                                                 *)
LEMMA NextErasureOwed ==
  ASSUME TypeOK, ClaimsInTable, BatchesInOrder, PagedIsCovered, ErasureOwed, [Next]_vars
  PROVE  ErasureOwed'
<1>1. ClaimsInTable'
  BY NextClaimsInTable
<1>2. ASSUME NEW r \in owed', r \in owed
      PROVE  Covered(r)'
  BY <1>1, <1>2, CoveredKept DEF ErasureOwed, ClaimsInTable
<1>3. ASSUME NEW w \in RequestWorkers, AckRequest(w), NEW r \in owed', r \notin owed
      PROVE  Covered(r)'
  <2>1. Covered(r)
    BY <1>3 DEF AckRequest, PagedIsCovered
  <2> QED
    BY <1>1, <1>3, <2>1, CoveredKept DEF ClaimsInTable
<1>4. owed' \subseteq owed \/ \E w \in RequestWorkers : AckRequest(w)
  BY RequestActions
     DEF RequestStep, RequestFails, ResolveSubject, CountRecords, ReadPage, SendBatch,
         history
<1> QED
  BY <1>2, <1>3, <1>4 DEF ErasureOwed

(* A page is of one user, and the identity rows are queried for that user.  *)
LEMMA NextOneUserPerBatch ==
  ASSUME TypeOK, BatchesInOrder, PageIsPrefix, OneUserPerBatch, [Next]_vars
  PROVE  OneUserPerBatch'
<1> USE DEF OneUserPerBatch
<1>1. CASE UNCHANGED batchVars
  BY <1>1 DEF batchVars
<1>2. ASSUME NEW w \in RequestWorkers, SendBatch(w)
      PROVE  OneUserPerBatch'
  <2>1. sent + 1 \in BatchIds /\ sent \in Nat
    BY <1>2, Bounds DEF SendBatch, BatchIds, TypeOK
  <2>2. \A r \in reqWork[w].page : r[1] = reqWork[w].user
    BY <1>2 DEF SendBatch, NextPage, LoopEnds, PageIsPrefix
  <2>3. \A b \in BatchIds : \A r, q \in batchKeys'[b] : r[1] = q[1]
    BY <1>2, <2>1, <2>2 DEF SendBatch, TypeOK
  <2>4. ASSUME NEW v \in DeleteWorkers, delWork[v].pc = "rows"
        PROVE  batchKeys'[delWork[v].batch] = batchKeys[delWork[v].batch]
    <3>1. delWork[v] # Idle /\ delWork[v].batch \in BatchIds
      BY <2>4, IdleDeletes, DeleteRunParts
    <3>2. delWork[v].batch # sent + 1
      BY <2>1, <3>1 DEF BatchesInOrder, BatchIds
    <3> QED
      BY <1>2, <2>1, <3>1, <3>2 DEF SendBatch, TypeOK
  <2> QED
    BY <1>2, <2>3, <2>4 DEF SendBatch
<1>3. ASSUME NEW v \in DeleteWorkers, DeleteStep(v) \/ DeleteFails(v)
      PROVE  OneUserPerBatch'
  <2>1. ASSUME UNCHANGED batchKeys,
               \A x \in DeleteWorkers \ {v} : delWork'[x] = delWork[x],
               delWork'[v].pc = "rows" =>
                  \A row \in delWork'[v].rows :
                      \A r \in batchKeys[delWork'[v].batch] : row[2] = r[1]
        PROVE  OneUserPerBatch'
    BY <2>1
  <2>2. CASE \E b \in BatchIds : ReceiveBatch(v, b)
    BY <2>1, <2>2 DEF ReceiveBatch, TypeOK
  <2>3. CASE DeleteKey(v)
    <3>1. delWork[v] # Idle
      BY <2>3, IdleDeletes DEF DeleteKey
    <3>2. PICK q : delWork' = [delWork EXCEPT ![v].todo = @ \ {q}]
      BY <2>3 DEF DeleteKey
    <3>3. delWork'[v].pc = "keys"
      BY <2>3, <3>1, <3>2, DeleteRunParts DEF DeleteKey, TypeOK, DeleteRuns
    <3> QED
      BY <2>1, <2>3, <3>2, <3>3 DEF DeleteKey, TypeOK
  <2>4. CASE EmptyBatchThrows(v) \/ DeleteFails(v) \/ AckBatch(v)
    BY <2>1, <2>4 DEF EmptyBatchThrows, DeleteFails, AckBatch, Idle, TypeOK
  <2>5. CASE QueryRows(v)
    <3> DEFINE s == delWork[v]
    <3>1. s \in DeleteRuns /\ s.batch \in BatchIds
      BY <2>5, IdleDeletes, DeleteRunParts DEF QueryRows
    <3>2. PICK first \in batchKeys[s.batch] : \E view \in IdentityViews :
            delWork' = [delWork EXCEPT ![v] =
                [s EXCEPT !.pc = "rows", !.rows = {row \in view : row[2] = first[1]}]]
      BY <2>5 DEF QueryRows
    <3>3. /\ delWork'[v].batch = s.batch
          /\ \A row \in delWork'[v].rows : row[2] = first[1]
          /\ \A x \in DeleteWorkers \ {v} : delWork'[x] = delWork[x]
      BY <3>1, <3>2 DEF TypeOK, DeleteRuns
    <3>4. \A r \in batchKeys[s.batch] : first[1] = r[1]
      BY <3>1, <3>2
    <3>5. UNCHANGED batchKeys
      BY <2>5 DEF QueryRows
    <3> QED
      BY <2>1, <3>3, <3>4, <3>5
  <2>6. CASE DeleteRow(v)
    <3>1. delWork[v] # Idle
      BY <2>6, IdleDeletes DEF DeleteRow
    <3>2. PICK row : delWork' = [delWork EXCEPT ![v].rows = @ \ {row}]
      BY <2>6 DEF DeleteRow
    <3>3. delWork'[v].batch = delWork[v].batch /\ delWork'[v].rows \subseteq delWork[v].rows
      BY <3>1, <3>2, DeleteRunParts DEF TypeOK, DeleteRuns
    <3>4. delWork[v].pc = "rows" /\ UNCHANGED batchKeys
      BY <2>6 DEF DeleteRow
    <3> QED
      BY <2>1, <3>2, <3>3, <3>4 DEF TypeOK
  <2> QED
    BY <1>3, <2>2, <2>3, <2>4, <2>5, <2>6 DEF DeleteStep
<1>4. ASSUME NEW b \in BatchIds, BatchToDlq(b)
      PROVE  OneUserPerBatch'
  BY <1>4 DEF BatchToDlq
<1> QED
  BY <1>1, <1>2, <1>3, <1>4, BatchActions

-----------------------------------------------------------------------------
(* Who may be erased.                                                      *)

(* A user is a subject when he is among those the name of a request has    *)
(* stood for.                                                              *)
LEMMA SubjectParts ==
  ASSUME NEW u
  PROVE  u \in Subjects <=>
            \E id \in Requests : asked[id] # Nobody /\ u \in owners[asked[id]]
  BY DEF Subjects

(* Only linkIdentity, a row that goes and a copy that catches up change    *)
(* what a lookup may find.                                                 *)
LEMMA IdentityActions ==
  ASSUME TypeOK, [Next]_vars
  PROVE  \/ UNCHANGED identityVars
         \/ \E h \in Handlers, n \in Names : LinkIdentity(h, n)
         \/ \E row : RemoveRow(row)
         \/ \E row \in laggingRows : RowSettles(row)
<1> USE DEF tables, vars
<1>1. ASSUME NEW w \in RequestWorkers, RequestStep(w) \/ RequestFails(w)
      PROVE  UNCHANGED identityVars
  BY <1>1 DEF RequestStep, ResolveSubject, CountRecords, ReadPage, SendBatch, AckRequest,
     RequestFails
<1>2. ASSUME NEW v \in DeleteWorkers, DeleteStep(v) \/ DeleteFails(v)
      PROVE  UNCHANGED identityVars \/ \E row : RemoveRow(row)
  BY <1>2 DEF DeleteStep, ReceiveBatch, DeleteKey, EmptyBatchThrows, QueryRows, DeleteRow,
     AckBatch, DeleteFails
<1>3. CASE HandlerStep
  BY <1>3 DEF HandlerStep, HandlerResolves, PostRecord, LinkIdentity, RecordGoes, RowGoes
<1> QED
  BY <1>1, <1>2, <1>3 DEF Next, StartDsar, BatchToDlq, RecordSettles

(* Only startDsarLambda and an acknowledgement change the requests.        *)
LEMMA AskActions ==
  ASSUME [Next]_vars
  PROVE  \/ UNCHANGED asked /\ dsarQueue' \subseteq dsarQueue
         \/ \E id \in Requests, n \in Names : StartDsar(id, n)
<1> USE DEF requestVars, vars
<1>1. ASSUME NEW w \in RequestWorkers, RequestStep(w) \/ RequestFails(w)
      PROVE  UNCHANGED asked /\ dsarQueue' \subseteq dsarQueue
  BY <1>1 DEF RequestStep, ResolveSubject, CountRecords, ReadPage, SendBatch, AckRequest,
     RequestFails
<1>2. ASSUME NEW v \in DeleteWorkers, DeleteStep(v) \/ DeleteFails(v)
      PROVE  UNCHANGED <<asked, dsarQueue>>
  BY <1>2 DEF DeleteStep, ReceiveBatch, DeleteKey, EmptyBatchThrows, QueryRows, DeleteRow,
     AckBatch, DeleteFails
<1>3. CASE HandlerStep
  BY <1>3 DEF HandlerStep, HandlerResolves, PostRecord, LinkIdentity, RecordGoes, RowGoes
<1> QED
  BY <1>1, <1>2, <1>3 DEF Next, BatchToDlq, RecordSettles, RowSettles

(* A name keeps everybody it has stood for, a request keeps its name, and  *)
(* so who is a subject stays one.                                          *)
LEMMA SubjectsStay ==
  ASSUME TypeOK, [Next]_vars
  PROVE  /\ \A n \in Names : owners[n] \subseteq owners'[n]
         /\ \A id \in Requests : asked[id] # Nobody => asked'[id] = asked[id]
         /\ Subjects \subseteq Subjects'
<1>1. ASSUME NEW n \in Names PROVE owners[n] \subseteq owners'[n]
  <2>1. CASE \E h \in Handlers, m \in Names : LinkIdentity(h, m)
    <3>1. PICK h \in Handlers, m \in Names : LinkIdentity(h, m)
      BY <2>1
    <3>2. owners' = [owners EXCEPT ![m] = @ \cup {handler[h].user}]
      BY <3>1 DEF LinkIdentity, PutRow
    <3> QED
      BY <3>2 DEF TypeOK
  <2> QED
    BY <2>1, IdentityActions DEF identityVars, RemoveRow, RowSettles
<1>2. ASSUME NEW id \in Requests, asked[id] # Nobody PROVE asked'[id] = asked[id]
  BY <1>2, AskActions DEF StartDsar, TypeOK
<1>3. ASSUME NEW u \in Subjects PROVE u \in Subjects'
  <2>1. PICK id \in Requests : asked[id] # Nobody /\ u \in owners[asked[id]]
    BY SubjectParts
  <2>2. asked[id] \in Names
    BY <2>1 DEF TypeOK
  <2>3. asked'[id] # Nobody /\ u \in owners'[asked'[id]]
    BY <1>1, <1>2, <2>1, <2>2
  <2> QED
    BY <2>3 DEF Subjects
<1> QED
  BY <1>1, <1>2, <1>3

(* Whoever an invocation pages through is a subject.                       *)
LEMMA RunnerIsSubject ==
  ASSUME TypeOK, OnlySubjects, NEW w \in RequestWorkers, reqWork[w] # Idle
  PROVE  reqWork[w].user \in Subjects
<1>1. reqWork[w].msg.name \in Names /\ reqWork[w].msg.id \in Requests
  BY DEF TypeOK, RequestRuns, RequestMsgs
<1>2. asked[reqWork[w].msg.id] # Nobody
  BY <1>1, AppNamesAreNames DEF OnlySubjects, Nobody
<1> QED
  BY <1>1, <1>2 DEF OnlySubjects, Subjects

(* Lookups find owners only, whatever copy answers them, and an            *)
(* invocation stays with the subject it has found.                         *)
LEMMA NextOnlySubjects ==
  ASSUME TypeOK, BatchesInOrder, PageIsPrefix, OnlySubjects, [Next]_vars
  PROVE  OnlySubjects'
<1>1. ASSUME NEW row \in identity' \cup laggingRows'
      PROVE  row[2] \in owners'[row[1]]
  <2>1. CASE row \in identity \cup laggingRows
    <3>1. row[1] \in Names /\ row[2] \in owners[row[1]]
      BY <2>1 DEF OnlySubjects, TypeOK, Rows
    <3> QED
      BY <3>1, SubjectsStay
  <2>2. CASE row \notin identity \cup laggingRows
    <3>1. PICK h \in Handlers, n \in Names : LinkIdentity(h, n)
      BY <1>1, <2>2, IdentityActions DEF identityVars, RemoveRow, RowSettles, LaggingAfter
    <3>2. row = <<n, handler[h].user>>
      BY <1>1, <2>2, <3>1 DEF LinkIdentity, PutRow, LaggingAfter
    <3>3. owners' = [owners EXCEPT ![n] = @ \cup {handler[h].user}]
      BY <3>1 DEF LinkIdentity, PutRow
    <3>4. handler[h].user \in owners'[n]
      BY <3>3 DEF TypeOK
    <3> QED
      BY <3>2, <3>4
  <2> QED
    BY <2>1, <2>2
<1>2. ASSUME NEW m \in dsarQueue'
      PROVE  asked'[m.id] = m.name
  <2>1. CASE m \in dsarQueue
    <3>1. m.id \in Requests /\ m.name \in Names /\ asked[m.id] = m.name
      BY <2>1 DEF OnlySubjects, TypeOK, RequestMsgs
    <3>2. asked[m.id] # Nobody
      BY <3>1, AppNamesAreNames DEF Nobody
    <3> QED
      BY <3>1, <3>2, SubjectsStay
  <2>2. CASE m \notin dsarQueue
    <3>1. PICK id \in Requests, n \in Names : StartDsar(id, n)
      BY <1>2, <2>2, AskActions
    <3>2. m = [id |-> id, name |-> n] /\ asked' = [asked EXCEPT ![id] = n]
      BY <1>2, <2>2, <3>1 DEF StartDsar
    <3> QED
      BY <3>2 DEF TypeOK
  <2> QED
    BY <2>1, <2>2
<1>3. ASSUME NEW w \in RequestWorkers, reqWork'[w] # Idle
      PROVE  /\ asked'[reqWork'[w].msg.id] = reqWork'[w].msg.name
             /\ reqWork'[w].user \in owners'[reqWork'[w].msg.name]
  <2>1. ASSUME reqWork[w] # Idle, reqWork'[w].msg = reqWork[w].msg,
               reqWork'[w].user = reqWork[w].user
        PROVE  /\ asked'[reqWork'[w].msg.id] = reqWork'[w].msg.name
               /\ reqWork'[w].user \in owners'[reqWork'[w].msg.name]
    <3>1. reqWork[w].msg.name \in Names /\ reqWork[w].msg.id \in Requests
      BY <2>1 DEF TypeOK, RequestRuns, RequestMsgs
    <3>2. /\ asked[reqWork[w].msg.id] = reqWork[w].msg.name
          /\ reqWork[w].user \in owners[reqWork[w].msg.name]
      BY <2>1 DEF OnlySubjects
    <3>3. asked[reqWork[w].msg.id] # Nobody
      BY <3>1, <3>2, AppNamesAreNames DEF Nobody
    <3> QED
      BY <2>1, <3>1, <3>2, <3>3, SubjectsStay
  <2>2. CASE UNCHANGED reqWork
    BY <1>3, <2>1, <2>2
  <2>3. ASSUME NEW x \in RequestWorkers, NEW m \in dsarQueue, NEW u \in Users,
               ResolveSubject(x, m, u)
        PROVE  /\ asked'[reqWork'[w].msg.id] = reqWork'[w].msg.name
               /\ reqWork'[w].user \in owners'[reqWork'[w].msg.name]
    <3>1. CASE w = x
      <4>1. reqWork'[w].msg = m /\ reqWork'[w].user = u
        BY <2>3, <3>1 DEF ResolveSubject, TypeOK
      <4>2. u \in owners[m.name] /\ asked[m.id] = m.name
        BY <2>3, IdentityViewParts DEF ResolveSubject, Resolves, OnlySubjects
      <4>3. UNCHANGED <<asked, owners>>
        BY <2>3 DEF ResolveSubject, tables, identityVars
      <4> QED
        BY <4>1, <4>2, <4>3
    <3>2. CASE w # x
      <4>1. reqWork'[w] = reqWork[w]
        BY <2>3, <3>2 DEF ResolveSubject, TypeOK
      <4> QED
        BY <1>3, <2>1, <4>1
    <3> QED
      BY <3>1, <3>2
  <2>4. ASSUME NEW x \in RequestWorkers, CountRecords(x) \/ ReadPage(x) \/ SendBatch(x)
        PROVE  /\ asked'[reqWork'[w].msg.id] = reqWork'[w].msg.name
               /\ reqWork'[w].user \in owners'[reqWork'[w].msg.name]
    <3>1. reqWork[w] # Idle
      BY <1>3, <2>4, RunGoesOn
    <3> QED
      BY <2>1, <2>4, <3>1, RunGoesOn
  <2>5. ASSUME NEW x \in RequestWorkers, AckRequest(x) \/ RequestFails(x)
        PROVE  /\ asked'[reqWork'[w].msg.id] = reqWork'[w].msg.name
               /\ reqWork'[w].user \in owners'[reqWork'[w].msg.name]
    <3>1. reqWork'[w] = reqWork[w]
      BY <1>3, <2>5 DEF AckRequest, RequestFails, TypeOK
    <3> QED
      BY <1>3, <2>1, <3>1
  <2> QED
    BY <2>2, <2>3, <2>4, <2>5, RequestActions DEF RequestStep
<1>4. ASSUME NEW b \in BatchIds, NEW r \in batchKeys'[b]
      PROVE  r[1] \in Subjects'
  <2>1. CASE r \in batchKeys[b]
    BY <2>1, SubjectsStay DEF OnlySubjects
  <2>2. CASE r \notin batchKeys[b]
    <3>1. PICK w \in RequestWorkers : SendBatch(w)
      BY <1>4, <2>2, BatchActions
         DEF DeleteStep, ReceiveBatch, DeleteKey, EmptyBatchThrows, QueryRows, DeleteRow,
             AckBatch, DeleteFails, BatchToDlq, batchVars
    <3>2. r \in reqWork[w].page
      BY <1>4, <2>2, <3>1 DEF SendBatch, TypeOK
    <3>3. r[1] = reqWork[w].user
      BY <3>1, <3>2 DEF SendBatch, NextPage, LoopEnds, PageIsPrefix
    <3>4. reqWork[w].user \in Subjects
      BY <3>1, RunGoesOn, RunnerIsSubject
    <3> QED
      BY <3>3, <3>4, SubjectsStay
  <2> QED
    BY <2>1, <2>2
<1> QED
  BY <1>1, <1>2, <1>3, <1>4 DEF OnlySubjects

-----------------------------------------------------------------------------
(* The initial state has no batch, no run and no claim.                    *)
LEMMA InitIInv == Init => IInv
<1> SUFFICES ASSUME Init PROVE IInv
  OBVIOUS
<1>1. TypeOK
  BY InitTypeOK
<1>2. BatchesInOrder
  BY Bounds DEF Init, BatchesInOrder, BatchIds, Idle
<1>3. OneUserPerBatch
  BY DEF Init, OneUserPerBatch, Idle
<1>4. OnlySubjects
  <2>1. \A row \in InitialRows :
            row[1] \in Names /\ row[2] \in Users /\ row = <<row[1], row[2]>>
    BY InitialTables DEF Rows
  <2> QED
    BY <2>1 DEF Init, OnlySubjects, Idle
<1> QED
  BY <1>1, <1>2, <1>3, <1>4
     DEF Init, IInv, ClaimsInTable, PageIsPrefix, PagedIsCovered, ErasureOwed, Idle

(* Every step keeps the inductive invariant.                               *)
LEMMA NextIInv == IInv /\ [Next]_vars => IInv'
  BY NextTypeOK, NextClaimsInTable, NextBatchesInOrder, NextPageIsPrefix,
     NextPagedIsCovered, NextErasureOwed, NextOneUserPerBatch, NextOnlySubjects
     DEF IInv

(* The inductive invariant holds in every reachable state.                 *)
THEOREM Inductive == Spec => []IInv
  BY InitIInv, NextIInv, PTL DEF Spec

(***************************************************************************)
(* Once dsarRequestLambda has returned, each record its subject had in     *)
(* every copy of the table when he was resolved is gone or listed in a     *)
(* batch that is still queued or in the dead-letter queue, and no          *)
(* invocation has skipped it, whichever copies answered the count and the  *)
(* pages.  Of a record that some copy had not got yet nothing is said.     *)
(***************************************************************************)
THEOREM ErasureIsOwed == Spec => []ErasureOwed
<1>1. IInv => ErasureOwed
  BY DEF IInv
<1> QED
  BY <1>1, Inductive, PTL

(***************************************************************************)
(* dsarDeleteLambda deletes the identity rows of the one user whose        *)
(* records its batch lists, and of nobody else.                            *)
(***************************************************************************)
THEOREM BatchesAreOfOneUser == Spec => []OneUserPerBatch
<1>1. IInv => OneUserPerBatch
  BY DEF IInv
<1> QED
  BY <1>1, Inductive, PTL

-----------------------------------------------------------------------------
(* The pipeline implements the promise of module Erasure.                  *)

LEMMA OwedIsDoomedNext == ASSUME IInv' PROVE owed' \subseteq Doomed'
<1>1. \A r \in owed' : \E b \in Outstanding' : r \in batchKeys'[b]
  BY DEF IInv, ErasureOwed, Covered, Outstanding
<1>2. ASSUME NEW r \in owed' PROVE r \in Doomed'
  BY <1>1, <1>2 DEF Doomed
<1> QED
  BY <1>2

LEMMA QuietBatches ==
  ASSUME UNCHANGED <<batchKeys, batchState>>
  PROVE  Doomed' = Doomed
  BY DEF Doomed, Outstanding

(* A step that only works off or moves batches: what is no longer doomed   *)
(* was not owed, since what is owed is doomed after the step too.          *)
LEMMA WorkingOff ==
  ASSUME IInv, IInv', UNCHANGED <<data, Subjects, owed>>, Doomed' \subseteq Doomed
  PROVE  Promise!Spare
<1>1. owed \subseteq Doomed'
  BY OwedIsDoomedNext
<1> QED
  BY <1>1 DEF Promise!Spare

LEMMA QuietSubjects ==
  ASSUME UNCHANGED <<asked, owners>>
  PROVE  Subjects' = Subjects
  BY DEF Subjects

LEMMA StepRefines ==
  ASSUME IInv, IInv', [Next]_vars
  PROVE  [Promise!Next]_(Promise!vars)
<1> USE DEF tables, dataVars, identityVars, api, requestVars, batchVars, history
<1>1. CASE UNCHANGED vars
  BY <1>1, QuietBatches, QuietSubjects DEF vars, Promise!vars
<1>2. ASSUME NEW r \in data, RemoveRecord(r), UNCHANGED <<batchKeys, batchState, asked, owners>>
      PROVE  Promise!Next
  <2>1. r \in Records
    BY DEF IInv, TypeOK
  <2> QED
    BY <1>2, <2>1, QuietBatches, QuietSubjects DEF RemoveRecord, Promise!Next, Promise!Remove
<1>3. CASE HandlerStep
  <2>1. ASSUME NEW h \in Handlers, NEW op \in {"post", "link"}, NEW n \in Names,
               NEW u \in Users, HandlerResolves(h, op, n, u)
        PROVE  UNCHANGED Promise!vars
    BY <2>1, QuietBatches, QuietSubjects DEF HandlerResolves, Promise!vars
  <2>2. ASSUME NEW h \in Handlers, NEW p \in Paths, PostRecord(h, p)
        PROVE  Promise!Next
    <3>1. <<handler[h].user, p>> \in Records
      BY <2>2 DEF PostRecord, IInv, TypeOK, HandlerStates, Idle, Records
    <3> QED
      BY <2>2, <3>1, QuietBatches, QuietSubjects DEF PostRecord, PutRecord, Promise!Next, Promise!Write
  <2>3. ASSUME NEW h \in Handlers, NEW n \in Names, LinkIdentity(h, n)
        PROVE  Promise!Next
    BY <2>3, QuietBatches, SubjectsStay DEF LinkIdentity, IInv, Promise!Next, Promise!Ask
  <2>4. ASSUME NEW r \in data, RecordGoes(r)
        PROVE  Promise!Next
    BY <2>4, <1>2 DEF RecordGoes
  <2>5. ASSUME NEW row \in identity, RowGoes(row)
        PROVE  UNCHANGED Promise!vars
    BY <2>5, QuietBatches, QuietSubjects DEF RowGoes, RemoveRow, Promise!vars
  <2> QED
    BY <1>3, <2>1, <2>2, <2>3, <2>4, <2>5 DEF HandlerStep
<1>4. ASSUME NEW id \in Requests, NEW n \in Names, StartDsar(id, n)
      PROVE  Promise!Next
  BY <1>4, QuietBatches, SubjectsStay DEF StartDsar, IInv, Promise!Next, Promise!Ask
<1>5. ASSUME NEW w \in RequestWorkers, RequestStep(w) \/ RequestFails(w)
      PROVE  [Promise!Next]_(Promise!vars)
  <2>1. CASE \/ \E m \in dsarQueue, u \in Users : ResolveSubject(w, m, u)
             \/ CountRecords(w) \/ ReadPage(w) \/ RequestFails(w)
    BY <2>1, QuietBatches, QuietSubjects DEF ResolveSubject, CountRecords, ReadPage, RequestFails, Promise!vars
  <2>2. CASE SendBatch(w)
    <3>1. sent' \in BatchIds /\ batchState[sent'] = "unsent" /\ UNCHANGED <<data, owed>>
      BY <2>2, Bounds DEF SendBatch, IInv, TypeOK, BatchesInOrder, BatchIds
    <3>2. /\ batchKeys' = [batchKeys EXCEPT ![sent'] = reqWork[w].page]
          /\ batchState' = [batchState EXCEPT ![sent'] = "queued"]
      BY <2>2 DEF SendBatch
    <3>3. Outstanding' = Outstanding \cup {sent'}
      BY <3>1, <3>2 DEF Outstanding, IInv, TypeOK
    <3>4. /\ batchKeys'[sent'] = reqWork[w].page
          /\ \A b \in Outstanding : batchKeys'[b] = batchKeys[b]
      BY <3>1, <3>2 DEF Outstanding, IInv, TypeOK
    <3>5. Doomed' = Doomed \cup reqWork[w].page
      BY <3>3, <3>4 DEF Doomed
    <3>6. reqWork[w].user \in Subjects
      BY <2>2, RunGoesOn, RunnerIsSubject DEF IInv
    <3>7. \A r \in reqWork[w].page : r[1] \in Subjects
      BY <2>2, <3>6 DEF SendBatch, NextPage, LoopEnds, IInv, PageIsPrefix
    <3>8. UNCHANGED Subjects
      BY <2>2, QuietSubjects DEF SendBatch
    <3> QED
      BY <3>1, <3>5, <3>7, <3>8 DEF Promise!Next, Promise!Doom
  <2>3. CASE AckRequest(w)
    <3>1. Doomed' = Doomed /\ UNCHANGED <<data, Subjects>> /\ owed' = owed \cup steady[w]
      BY <2>3, QuietBatches, QuietSubjects DEF AckRequest
    <3>2. steady[w] \subseteq data
      BY DEF IInv, ClaimsInTable
    <3>3. owed' \subseteq Doomed'
      BY OwedIsDoomedNext
    <3> QED
      BY <3>1, <3>2, <3>3 DEF Promise!Next, Promise!Owe
  <2> QED
    BY <1>5, <2>1, <2>2, <2>3 DEF RequestStep
<1>6. ASSUME NEW v \in DeleteWorkers, DeleteStep(v) \/ DeleteFails(v)
      PROVE  [Promise!Next]_(Promise!vars)
  <2>1. CASE \/ \E b \in BatchIds : ReceiveBatch(v, b)
             \/ EmptyBatchThrows(v) \/ QueryRows(v) \/ DeleteRow(v) \/ DeleteFails(v)
    BY <2>1, QuietBatches, QuietSubjects
       DEF ReceiveBatch, EmptyBatchThrows, QueryRows, DeleteRow, RemoveRow,
           DeleteFails, Promise!vars
  <2>2. CASE DeleteKey(v)
    <3>1. PICK r \in delWork[v].todo : RemoveRecord(r)
      BY <2>2 DEF DeleteKey
    <3>2. r \in Records
      BY <2>2, DeleteRunParts DEF DeleteKey, Idle, IInv
    <3> QED
      BY <2>2, <3>1, <3>2, QuietBatches, QuietSubjects DEF DeleteKey, RemoveRecord, Promise!Next, Promise!Remove
  <2>3. CASE AckBatch(v)
    <3>1. Outstanding' \subseteq Outstanding /\ UNCHANGED <<data, owed, batchKeys, Subjects>>
      BY <2>3, QuietSubjects DEF AckBatch, Outstanding, IInv, TypeOK
    <3>2. Doomed' \subseteq Doomed
      BY <3>1 DEF Doomed
    <3> QED
      BY <3>1, <3>2, WorkingOff DEF Promise!Next
  <2> QED
    BY <1>6, <2>1, <2>2, <2>3 DEF DeleteStep
<1>7. ASSUME NEW b \in BatchIds, BatchToDlq(b)
      PROVE  UNCHANGED Promise!vars
  <2>1. Outstanding' = Outstanding /\ UNCHANGED <<data, owed, batchKeys, Subjects>>
    BY <1>7, QuietSubjects DEF BatchToDlq, Outstanding, IInv, TypeOK
  <2> QED
    BY <2>1 DEF Doomed, Promise!vars
<1>8. ASSUME \/ \E r \in lagging : RecordSettles(r)
             \/ \E row \in laggingRows : RowSettles(row)
      PROVE  UNCHANGED Promise!vars
  BY <1>8, QuietBatches, QuietSubjects DEF RecordSettles, RowSettles, Promise!vars
<1> QED
  BY <1>1, <1>3, <1>4, <1>5, <1>6, <1>7, <1>8 DEF Next

(***************************************************************************)
(* Every step of the pipeline is a step of the promise, or none: nobody's  *)
(* records are listed but those of users the name of a request has stood   *)
(* for, and what an acknowledged request owes stays listed until it is     *)
(* gone.                                                                   *)
(***************************************************************************)
THEOREM PipelineErases == Spec => ImplementsErasure
<1>1. Init => Promise!Init
  <2> SUFFICES ASSUME Init PROVE Promise!Init
    OBVIOUS
  <2>1. Outstanding = {}
    BY DEF Init, Outstanding
  <2>2. {asked[id] : id \in Requests} \ {Nobody} = {}
    BY DEF Init
  <2>3. Doomed = {} /\ Subjects = {}
    BY <2>1, <2>2 DEF Doomed, Subjects
  <2> QED
    BY <2>3 DEF Init, Promise!Init
<1>2. IInv /\ IInv' /\ [Next]_vars => [Promise!Next]_(Promise!vars)
  BY StepRefines
<1> QED
  BY <1>1, <1>2, Inductive, PTL DEF Spec, ImplementsErasure, Promise!Spec

-----------------------------------------------------------------------------
(* Nothing goes back.  What of BatchesSettle and RequestsSettle needs no   *)
(* fairness: each step of an invocation leaves it less to do, and a batch  *)
(* is delivered MaxReceive times at most.                                  *)

(* A page is of the keys after the cursor.                                 *)
PagesGoOn ==
    \A w \in RequestWorkers :
        reqWork[w].pc \in {"send", "sendLast"} =>
            \A r \in reqWork[w].page : r[2] > reqWork[w].cursor

(* An invocation of dsarRequestLambda goes on from one page to a later one.*)
RequestGoesOn(s, t) ==
    \/ t = s \/ t = Idle
    \/ /\ t.msg = s.msg /\ t.user = s.user
       /\ \/ s.pc = "count" /\ t.pc \in {"page", "ack"} /\ t.cursor = s.cursor
          \/ s.pc = "page" /\ t.pc \in {"send", "sendLast"} /\ t.cursor = s.cursor
          \/ s.pc = "send" /\ t.pc = "page" /\ t.cursor > s.cursor
          \/ s.pc = "sendLast" /\ t.pc = "ack"

RequestsAdvance ==
    [][\A w \in RequestWorkers :
          reqWork[w] # Idle => RequestGoesOn(reqWork[w], reqWork'[w])]_vars

LEMMA InitPagesGoOn == Init => PagesGoOn
  BY DEF Init, PagesGoOn, Idle

(* What one step of one invocation does.                                   *)
LEMMA RequestStepGoesOn ==
  ASSUME TypeOK, PagesGoOn, NEW w \in RequestWorkers, RequestStep(w) \/ RequestFails(w)
  PROVE  /\ \A x \in RequestWorkers \ {w} : reqWork'[x] = reqWork[x]
         /\ reqWork[w] # Idle => RequestGoesOn(reqWork[w], reqWork'[w])
         /\ reqWork'[w].pc \in {"send", "sendLast"} =>
               \A r \in reqWork'[w].page : r[2] > reqWork'[w].cursor
<1> DEFINE Goal ==
      /\ \A x \in RequestWorkers \ {w} : reqWork'[x] = reqWork[x]
      /\ reqWork[w] # Idle => RequestGoesOn(reqWork[w], reqWork'[w])
      /\ reqWork'[w].pc \in {"send", "sendLast"} =>
            \A r \in reqWork'[w].page : r[2] > reqWork'[w].cursor
<1>1. ASSUME NEW m \in dsarQueue, NEW u \in Users, ResolveSubject(w, m, u)
      PROVE  Goal
  BY <1>1 DEF ResolveSubject, TypeOK
<1>2. CASE CountRecords(w)
  <2>1. reqWork[w] \in RequestRuns
    BY <1>2 DEF CountRecords, TypeOK, Idle
  <2>2. PICK pc \in {"ack", "page"} : reqWork' = [reqWork EXCEPT ![w].pc = pc]
    BY <1>2 DEF CountRecords
  <2> QED
    BY <1>2, <2>1, <2>2 DEF CountRecords, TypeOK, RequestRuns, RequestGoesOn
<1>3. CASE ReadPage(w)
  <2>0. PICK view \in DataViews :
          \E page \in SUBSET KeysAfter(view, reqWork[w].user, reqWork[w].cursor),
             pc \in {"send", "sendLast"} :
            reqWork' = [reqWork EXCEPT ![w] = [reqWork[w] EXCEPT !.page = page, !.pc = pc]]
    BY <1>3 DEF ReadPage
  <2> DEFINE s == reqWork[w]
             rest == KeysAfter(view, s.user, s.cursor)
  <2>1. s \in RequestRuns
    BY <1>3 DEF ReadPage, TypeOK, Idle
  <2>2. PICK page \in SUBSET rest, pc \in {"send", "sendLast"} :
          reqWork' = [reqWork EXCEPT ![w] = [s EXCEPT !.page = page, !.pc = pc]]
    BY <2>0
  <2>3. /\ reqWork'[w] = [s EXCEPT !.page = page, !.pc = pc]
        /\ s.pc = "page"
    BY <1>3, <2>2 DEF ReadPage, TypeOK
  <2>4. /\ reqWork'[w].page = page /\ reqWork'[w].cursor = s.cursor /\ reqWork'[w].pc = pc
        /\ reqWork'[w].msg = s.msg /\ reqWork'[w].user = s.user
    BY <2>1, <2>3 DEF RequestRuns
  <2>5. \A r \in page : r[2] > s.cursor
    BY DEF KeysAfter
  <2> HIDE DEF s
  <2>6. RequestGoesOn(s, reqWork'[w])
    BY <2>3, <2>4 DEF RequestGoesOn
  <2>7. \A x \in RequestWorkers \ {w} : reqWork'[x] = reqWork[x]
    BY <2>2 DEF TypeOK
  <2> QED
    BY <2>4, <2>5, <2>6, <2>7 DEF s
<1>4. CASE SendBatch(w)
  <2>1. CASE NextPage(w)
    <3>1. PICK end \in reqWork[w].page :
            reqWork' = [reqWork EXCEPT ![w] =
                [reqWork[w] EXCEPT !.pc = "page", !.cursor = end[2], !.page = {}]]
      BY <2>1 DEF NextPage
    <3>2. reqWork[w] \in RequestRuns /\ reqWork[w].pc = "send"
      BY <2>1 DEF NextPage, TypeOK, Idle
    <3>3. end[2] > reqWork[w].cursor
      BY <3>1, <3>2 DEF PagesGoOn
    <3>4. /\ reqWork'[w].pc = "page" /\ reqWork'[w].cursor = end[2]
          /\ reqWork'[w].msg = reqWork[w].msg /\ reqWork'[w].user = reqWork[w].user
      BY <3>1, <3>2 DEF TypeOK, RequestRuns
    <3>5. \A x \in RequestWorkers \ {w} : reqWork'[x] = reqWork[x]
      BY <3>1 DEF TypeOK
    <3> QED
      BY <3>2, <3>3, <3>4, <3>5 DEF RequestGoesOn
  <2>2. CASE LoopEnds(w)
    <3>1. reqWork[w] \in RequestRuns
      BY <2>2 DEF LoopEnds, TypeOK, Idle
    <3> QED
      BY <2>2, <3>1 DEF LoopEnds, TypeOK, RequestRuns, RequestGoesOn
  <2> QED
    BY <1>4, <2>1, <2>2 DEF SendBatch
<1>5. CASE AckRequest(w) \/ RequestFails(w)
  BY <1>5 DEF AckRequest, RequestFails, TypeOK, RequestGoesOn, Idle
<1> QED
  BY <1>1, <1>2, <1>3, <1>4, <1>5 DEF RequestStep

LEMMA NextPagesGoOn ==
  ASSUME TypeOK, PagesGoOn, [Next]_vars
  PROVE  /\ PagesGoOn'
         /\ \A w \in RequestWorkers :
               reqWork[w] # Idle => RequestGoesOn(reqWork[w], reqWork'[w])
<1>1. CASE UNCHANGED reqWork
  BY <1>1 DEF PagesGoOn, RequestGoesOn
<1>2. ASSUME NEW w \in RequestWorkers, RequestStep(w) \/ RequestFails(w)
      PROVE  /\ PagesGoOn'
             /\ \A x \in RequestWorkers :
                   reqWork[x] # Idle => RequestGoesOn(reqWork[x], reqWork'[x])
  BY <1>2, RequestStepGoesOn DEF PagesGoOn, RequestGoesOn
<1> QED
  BY <1>1, <1>2, RequestActions

(***************************************************************************)
(* dsarRequestLambda's loop over the pages ends: whatever is written while *)
(* it reads, each page begins after the last, and no step of it or of      *)
(* anybody else sends an invocation back.                                  *)
(***************************************************************************)
THEOREM RequestsGoOn == Spec => RequestsAdvance
<1>1. TypeOK /\ PagesGoOn /\ [Next]_vars => PagesGoOn'
  BY NextPagesGoOn
<1>2. TypeOK /\ PagesGoOn /\ [Next]_vars =>
        [\A w \in RequestWorkers :
            reqWork[w] # Idle => RequestGoesOn(reqWork[w], reqWork'[w])]_vars
  BY NextPagesGoOn
<1> QED
  BY <1>1, <1>2, InitPagesGoOn, TypeCorrect, PTL DEF Spec, RequestsAdvance

(* A batch that was sent keeps its keys and never goes back: what is done  *)
(* or in the dead-letter queue stays there, and receives only grows.       *)
BatchAdvances(b) ==
    /\ receives'[b] >= receives[b]
    /\ batchState[b] = "unsent" => batchState'[b] \in {"unsent", "queued"}
    /\ batchState[b] # "unsent" =>
          /\ batchKeys'[b] = batchKeys[b]
          /\ batchState'[b] # batchState[b] =>
                batchState[b] = "queued" /\ batchState'[b] \in {"done", "dlq"}

(* An invocation of dsarDeleteLambda begins with a delivery that is        *)
(* counted and has fewer keys, and then rows, to delete with every step.   *)
DeleteAdvances(v) ==
    LET s == delWork[v]
        t == delWork'[v]
    IN  \/ t = s \/ t = Idle
        \/ s = Idle /\ receives'[t.batch] = receives[t.batch] + 1
        \/ /\ s # Idle /\ t.batch = s.batch
           /\ \/ s.pc = "keys" /\ t.pc = "keys" /\ t.todo \subseteq s.todo /\ t.todo # s.todo
              \/ s.pc = "keys" /\ t.pc = "rows"
              \/ s.pc = "rows" /\ t.pc = "rows" /\ t.rows \subseteq s.rows /\ t.rows # s.rows

BatchesAdvance ==
    [][/\ \A b \in BatchIds : BatchAdvances(b)
       /\ \A v \in DeleteWorkers : DeleteAdvances(v)]_vars

(* A step that leaves batches and deliveries as they are.                  *)
LEMMA QuietBatchAdvances ==
  ASSUME TypeOK, NEW b \in BatchIds, batchKeys'[b] = batchKeys[b],
         batchState'[b] = batchState[b], receives'[b] = receives[b]
  PROVE  BatchAdvances(b)
  BY DEF BatchAdvances, TypeOK

(* What one step of one invocation of dsarDeleteLambda does.               *)
LEMMA DeleteStepAdvances ==
  ASSUME TypeOK, NEW v \in DeleteWorkers, DeleteStep(v) \/ DeleteFails(v)
  PROVE  /\ \A b \in BatchIds : BatchAdvances(b)
         /\ \A x \in DeleteWorkers : DeleteAdvances(x)
<1> DEFINE Goal ==
      /\ \A b \in BatchIds : BatchAdvances(b)
      /\ \A x \in DeleteWorkers : DeleteAdvances(x)
<1>1. ASSUME NEW b \in BatchIds, ReceiveBatch(v, b)
      PROVE  Goal
  <2>1. \A x \in BatchIds : BatchAdvances(x)
    BY <1>1 DEF ReceiveBatch, TypeOK, BatchAdvances
  <2>2. \A x \in DeleteWorkers \ {v} : delWork'[x] = delWork[x]
    BY <1>1 DEF ReceiveBatch, TypeOK
  <2>3. delWork[v] = Idle /\ delWork'[v].batch = b /\ receives'[b] = receives[b] + 1
    BY <1>1 DEF ReceiveBatch, TypeOK
  <2> QED
    BY <2>1, <2>2, <2>3 DEF DeleteAdvances
<1>2. CASE DeleteKey(v)
  <2>1. delWork[v] # Idle
    BY <1>2, IdleDeletes DEF DeleteKey
  <2>2. PICK q \in delWork[v].todo : delWork' = [delWork EXCEPT ![v].todo = @ \ {q}]
    BY <1>2 DEF DeleteKey
  <2>3. /\ delWork'[v].batch = delWork[v].batch /\ delWork'[v].pc = delWork[v].pc
        /\ delWork'[v].todo = delWork[v].todo \ {q} /\ delWork[v].pc = "keys"
    BY <1>2, <2>1, <2>2, DeleteRunParts DEF DeleteKey, TypeOK, DeleteRuns
  <2>4. \A x \in DeleteWorkers \ {v} : delWork'[x] = delWork[x]
    BY <2>2 DEF TypeOK
  <2>5. \A b \in BatchIds : BatchAdvances(b)
    BY <1>2, QuietBatchAdvances DEF DeleteKey
  <2> QED
    BY <2>1, <2>2, <2>3, <2>4, <2>5 DEF DeleteAdvances
<1>3. CASE EmptyBatchThrows(v) \/ DeleteFails(v)
  <2>1. \A x \in DeleteWorkers : delWork'[x] \in {delWork[x], Idle}
    BY <1>3 DEF EmptyBatchThrows, DeleteFails, TypeOK
  <2>2. \A b \in BatchIds : BatchAdvances(b)
    BY <1>3, QuietBatchAdvances DEF EmptyBatchThrows, DeleteFails
  <2> QED
    BY <2>1, <2>2 DEF DeleteAdvances
<1>4. CASE QueryRows(v)
  <2>1. delWork[v] # Idle
    BY <1>4, IdleDeletes DEF QueryRows
  <2>2. PICK rows :
          delWork' = [delWork EXCEPT ![v] = [delWork[v] EXCEPT !.pc = "rows", !.rows = rows]]
    BY <1>4 DEF QueryRows
  <2>3. /\ delWork'[v].batch = delWork[v].batch /\ delWork[v].pc = "keys"
        /\ delWork'[v].pc = "rows"
    BY <1>4, <2>1, <2>2, DeleteRunParts DEF TypeOK, DeleteRuns, QueryRows
  <2>4. \A x \in DeleteWorkers \ {v} : delWork'[x] = delWork[x]
    BY <2>2 DEF TypeOK
  <2>5. \A b \in BatchIds : BatchAdvances(b)
    BY <1>4, QuietBatchAdvances DEF QueryRows
  <2> QED
    BY <2>1, <2>3, <2>4, <2>5 DEF DeleteAdvances
<1>5. CASE DeleteRow(v)
  <2>1. delWork[v] # Idle
    BY <1>5, IdleDeletes DEF DeleteRow
  <2>2. PICK row \in delWork[v].rows : delWork' = [delWork EXCEPT ![v].rows = @ \ {row}]
    BY <1>5 DEF DeleteRow
  <2>3. /\ delWork'[v].batch = delWork[v].batch /\ delWork'[v].pc = delWork[v].pc
        /\ delWork'[v].rows = delWork[v].rows \ {row} /\ delWork[v].pc = "rows"
    BY <1>5, <2>1, <2>2, DeleteRunParts DEF DeleteRow, TypeOK, DeleteRuns
  <2>4. \A x \in DeleteWorkers \ {v} : delWork'[x] = delWork[x]
    BY <2>2 DEF TypeOK
  <2>5. \A b \in BatchIds : BatchAdvances(b)
    BY <1>5, QuietBatchAdvances DEF DeleteRow
  <2> QED
    BY <2>1, <2>2, <2>3, <2>4, <2>5 DEF DeleteAdvances
<1>6. CASE AckBatch(v)
  <2>1. \A x \in DeleteWorkers : delWork'[x] \in {delWork[x], Idle}
    BY <1>6 DEF AckBatch, TypeOK
  <2>2. \A b \in BatchIds : BatchAdvances(b)
    BY <1>6 DEF AckBatch, TypeOK, BatchAdvances
  <2> QED
    BY <2>1, <2>2 DEF DeleteAdvances
<1> QED
  BY <1>1, <1>2, <1>3, <1>4, <1>5, <1>6 DEF DeleteStep

LEMMA NextAdvances ==
  ASSUME TypeOK, BatchesInOrder, [Next]_vars
  PROVE  /\ \A b \in BatchIds : BatchAdvances(b)
         /\ \A v \in DeleteWorkers : DeleteAdvances(v)
<1>1. CASE UNCHANGED batchVars
  BY <1>1, QuietBatchAdvances DEF batchVars, DeleteAdvances
<1>2. ASSUME NEW w \in RequestWorkers, SendBatch(w)
      PROVE  /\ \A b \in BatchIds : BatchAdvances(b)
             /\ \A v \in DeleteWorkers : DeleteAdvances(v)
  <2>1. UNCHANGED <<receives, delWork>>
    BY <1>2 DEF SendBatch
  <2>2. sent + 1 \in BatchIds /\ sent \in Nat
    BY <1>2, Bounds DEF SendBatch, BatchIds, TypeOK
  <2>3. batchState[sent + 1] = "unsent"
    BY <2>2 DEF BatchesInOrder
  <2>4. batchState'[sent + 1] = "queued"
    BY <1>2, <2>2 DEF SendBatch, TypeOK
  <2>5. \A b \in BatchIds \ {sent + 1} :
           batchState'[b] = batchState[b] /\ batchKeys'[b] = batchKeys[b]
    BY <1>2, <2>2 DEF SendBatch, TypeOK
  <2>6. \A b \in BatchIds : receives'[b] >= receives[b]
    BY <2>1 DEF TypeOK
  <2>7. \A b \in BatchIds : BatchAdvances(b)
    BY <2>3, <2>4, <2>5, <2>6 DEF BatchAdvances
  <2> QED
    BY <2>1, <2>7 DEF DeleteAdvances
<1>3. ASSUME NEW b \in BatchIds, BatchToDlq(b)
      PROVE  /\ \A x \in BatchIds : BatchAdvances(x)
             /\ \A v \in DeleteWorkers : DeleteAdvances(v)
  BY <1>3 DEF BatchToDlq, TypeOK, BatchAdvances, DeleteAdvances
<1> QED
  BY <1>1, <1>2, <1>3, DeleteStepAdvances, BatchActions

(***************************************************************************)
(* Batches come to an end: the receive count of a batch is the number of   *)
(* its deliveries and never falls, so MaxReceive bounds them; a late       *)
(* acknowledgement, of an invocation that outlived the visibility timeout, *)
(* neither revives nor changes a batch that was settled meanwhile; and     *)
(* each delivery has less to delete with every step.                       *)
(***************************************************************************)
THEOREM BatchesGoOn == Spec => BatchesAdvance
<1>1. IInv => TypeOK /\ BatchesInOrder
  BY DEF IInv
<1>2. TypeOK /\ BatchesInOrder /\ [Next]_vars =>
        [/\ \A b \in BatchIds : BatchAdvances(b)
         /\ \A v \in DeleteWorkers : DeleteAdvances(v)]_vars
  BY NextAdvances
<1> QED
  BY <1>1, <1>2, Inductive, PTL DEF Spec, BatchesAdvance

=============================================================================

-------------------- MODULE LiveSchemaEvaluation_proofs --------------------
(***************************************************************************)
(* No evaluation is forgotten, for any number of users, topics and shards, *)
(* any batches, attempts, retries and failures.                            *)
(***************************************************************************)
EXTENDS LiveSchema_proofs

Pending == BatchAtHead /\ EvaluationPending

-----------------------------------------------------------------------------
(* Streams and runs.                                                       *)

LEMMA StreamFields ==
    ASSUME TypeOK, NEW sh \in Shards
    PROVE  /\ stream[sh] \in Seq(Events)
           /\ Len(stream[sh]) \in Nat
           /\ DOMAIN stream[sh] = 1..Len(stream[sh])
BY LenProperties DEF TypeOK

LEMMA BatchFields ==
    ASSUME NEW s \in Runs
    PROVE  /\ Len(s.batch) \in Nat
           /\ ItemsOf(s) = 1..Len(s.batch)
BY RunFields, LenProperties DEF ItemsOf

LEMMA RunsAreBusy ==
    ASSUME NEW s \in Runs
    PROVE  s # Idle
BY DEF Runs, Idle

LEMMA KeyHasShard ==
    ASSUME NEW k \in Keys
    PROVE  /\ k[1] \in Users /\ k[2] \in Topics
           /\ ShardOf[k[1]] \in Shards
BY ShardsOfUsers DEF Keys

(* What going on to the next topic leaves to be settled.                   *)
LEMMA ProceedLeaves ==
    ASSUME TypeOK, NEW sh \in Shards, NEW s \in Runs, Proceed(sh, s)
    PROVE  /\ run'[sh] \in Runs
           /\ run'[sh].batch = s.batch
           /\ run'[sh].failed = s.failed
           /\ run'[sh].pc \in {"read", "users"}
           /\ run'[sh].pc = "users" => run'[sh].keys = {}
           /\ \A i \in ItemsOf(s) :
                 i \in s.failed \/ s.batch[i].topic \in s.keys => i \in Unsettled(run'[sh])
           /\ \A other \in Shards : other # sh => run'[other] = run[other]
<1>1. /\ run' \in [Shards -> Runs \cup {Idle}]
      /\ run'[sh].pc \in {"read", "users"}
      /\ \A other \in Shards : other # sh => run'[other] = run[other]
  BY ProceedKeeps
<1>2. run'[sh] \in Runs
  BY <1>1 DEF Idle
<1>3. CASE s.keys = {} /\ run' = [run EXCEPT ![sh] =
             [s EXCEPT !.pc = "users",
                       !.users = {s.batch[i].user : i \in ItemsOf(s) \ s.failed}]]
  <2>1. /\ run'[sh].batch = s.batch
        /\ run'[sh].failed = s.failed
        /\ run'[sh].keys = {}
    BY <1>3 DEF TypeOK, Runs
  <2> QED
    BY <1>1, <1>2, <1>3, <2>1 DEF Unsettled, ItemsOf
<1>4. ASSUME NEW i \in ItemsOf(s) \ s.failed,
             run' = [run EXCEPT ![sh] =
                [s EXCEPT !.pc = "read", !.attempt = 1, !.key = s.batch[i].topic,
                          !.keys = @ \ {s.batch[i].topic}]]
      PROVE  /\ run'[sh].batch = s.batch
             /\ run'[sh].failed = s.failed
             /\ run'[sh].pc = "read"
             /\ run'[sh].key = s.batch[i].topic
             /\ run'[sh].keys = s.keys \ {s.batch[i].topic}
  BY <1>4 DEF TypeOK, Runs
<1>5. CASE ~(s.keys = {} /\ run' = [run EXCEPT ![sh] =
             [s EXCEPT !.pc = "users",
                       !.users = {s.batch[i].user : i \in ItemsOf(s) \ s.failed}]])
  <2>1. PICK i \in ItemsOf(s) \ s.failed :
           run' = [run EXCEPT ![sh] =
              [s EXCEPT !.pc = "read", !.attempt = 1, !.key = s.batch[i].topic,
                        !.keys = @ \ {s.batch[i].topic}]]
    BY <1>5 DEF Proceed
  <2> DEFINE t == s.batch[i].topic
  <2>2. /\ run'[sh].batch = s.batch
        /\ run'[sh].failed = s.failed
        /\ run'[sh].pc = "read"
        /\ run'[sh].key = t
        /\ run'[sh].keys = s.keys \ {t}
    BY <1>4, <2>1
  <2> HIDE DEF t
  <2>3. \A j \in ItemsOf(s) :
           j \in s.failed \/ s.batch[j].topic \in s.keys => j \in Unsettled(run'[sh])
    BY <2>2 DEF Unsettled, ItemsOf
  <2> QED
    BY <1>1, <1>2, <2>2, <2>3
<1> QED
  BY <1>3, <1>5

(* A run that keeps its batch.                                             *)
LEMMA SameHead ==
    ASSUME NEW q, NEW s, NEW s2, AtHead(q, s), s2.batch = s.batch,
           s2.failed \subseteq s.failed \cup ItemsOf(s),
           s2.pc = "stamp" => s2.todo \subseteq KeyItems(s2),
           s2.pc = "users" => s2.keys = {}
    PROVE  AtHead(q, s2)
BY DEF AtHead, ItemsOf

-----------------------------------------------------------------------------
(* A step that leaves the stream alone and settles at most item i, which   *)
(* it stamps.                                                              *)
LEMMA RunStep ==
    ASSUME TypeOK, Pending, NEW sh \in Shards, NEW i,
           UNCHANGED <<stream, failureQueue>>,
           \A other \in Shards : other # sh => run'[other] = run[other],
           run[sh] \in Runs, run'[sh] \in Runs, run'[sh].batch = run[sh].batch,
           AtHead(stream[sh], run'[sh]),
           \A j \in Unsettled(run[sh]) : j = i \/ j \in Unsettled(run'[sh]),
           \/ table' = table /\ i = 0
           \/ i \in ItemsOf(run[sh]) /\ stamp(run[sh].batch[i], run[sh].seen)
    PROVE  Pending'
<1>1. BatchAtHead'
  BY DEF Pending, BatchAtHead
<1> DEFINE e == run[sh].batch[i]
<1>2. ASSUME NEW k \in Keys, table'[k] # Absent, table'[k].flag
      PROVE  /\ table'[k] = table[k]
             /\ i \in ItemsOf(run[sh]) => EventOf(k) # e
  <2>1. CASE table' = table /\ i = 0
    <3>1. i \notin ItemsOf(run[sh])
      BY <2>1, ItemsAreNat
    <3> QED
      BY <2>1, <3>1
  <2>2. CASE i \in ItemsOf(run[sh]) /\ stamp(e, run[sh].seen)
    <3>1. KeyOf(e) \in Keys
      BY <2>2, ItemFields DEF KeyOf, Keys
    <3> DEFINE item == table[KeyOf(e)]
    <3>2. CASE /\ item # Absent
               /\ item.stored = e.stored
               /\ table' = [table EXCEPT ![KeyOf(e)] =
                              [item EXCEPT !.version = run[sh].seen, !.flag = FALSE]]
      <4>1. item \in Items
        BY <3>1, <3>2 DEF TypeOK
      <4>2. table'[KeyOf(e)] = [item EXCEPT !.version = run[sh].seen, !.flag = FALSE]
        BY <3>1, <3>2 DEF TypeOK
      <4>3. table'[KeyOf(e)].flag = FALSE
        BY <4>1, <4>2 DEF Items
      <4>4. k # KeyOf(e)
        BY <1>2, <4>3
      <4>5. table'[k] = table[k]
        BY <3>1, <3>2, <4>4 DEF TypeOK
      <4>6. EventOf(k) # e
        <5>1. k = <<k[1], k[2]>>
          BY DEF Keys
        <5> QED
          BY <4>4, <5>1 DEF EventOf, KeyOf
      <4> QED
        BY <4>5, <4>6
    <3>3. CASE table' = table /\ ~(item # Absent /\ item.stored = e.stored)
      <4>1. ASSUME EventOf(k) = e PROVE FALSE
        <5>1. KeyOf(e) = k
          BY <4>1 DEF EventOf, KeyOf, Keys
        <5>2. item.stored = e.stored
          BY <4>1, <5>1 DEF EventOf
        <5> QED
          BY <1>2, <3>3, <5>1, <5>2
      <4> QED
        BY <3>3, <4>1
    <3> QED
      BY <2>2, <3>2, <3>3 DEF stamp
  <2> QED
    BY <2>1, <2>2
<1>3. ASSUME NEW k \in Keys, table'[k] # Absent, table'[k].flag
      PROVE  \/ EventOf(k)' \in failureQueue'
             \/ Waits(EventOf(k)', stream'[ShardOf[k[1]]], run'[ShardOf[k[1]]])
  <2>1. /\ table'[k] = table[k]
        /\ i \in ItemsOf(run[sh]) => EventOf(k) # e
    BY <1>2, <1>3
  <2>2. EventOf(k)' = EventOf(k)
    BY <2>1 DEF EventOf
  <2>3. \/ EventOf(k) \in failureQueue
        \/ Waits(EventOf(k), stream[ShardOf[k[1]]], run[ShardOf[k[1]]])
    BY <1>3, <2>1 DEF Pending, EvaluationPending
  <2>4. CASE EventOf(k) \in failureQueue
    BY <2>2, <2>4
  <2>5. CASE ShardOf[k[1]] # sh /\ Waits(EventOf(k), stream[ShardOf[k[1]]], run[ShardOf[k[1]]])
    BY <2>2, <2>5, KeyHasShard
  <2>6. CASE ShardOf[k[1]] = sh /\ Waits(EventOf(k), stream[sh], run[sh])
    <3>1. PICK j \in DOMAIN stream[sh] :
             /\ stream[sh][j] = EventOf(k)
             /\ run[sh] = Idle \/ j > Len(run[sh].batch) \/ j \in Unsettled(run[sh])
      BY <2>6 DEF Waits
    <3>2. run[sh] # Idle
      BY RunsAreBusy
    <3>3. j \in Unsettled(run[sh]) => j \in Unsettled(run'[sh])
      <4>1. SUFFICES ASSUME j \in Unsettled(run[sh]) PROVE j # i
        OBVIOUS
      <4>2. j \in ItemsOf(run[sh])
        BY <4>1 DEF Unsettled
      <4>3. run[sh].batch[j] = EventOf(k)
        BY <3>1, <3>2, <4>2 DEF Pending, BatchAtHead, AtHead
      <4> QED
        BY <2>1, <4>2, <4>3
    <3> QED
      BY <2>2, <2>6, <3>1, <3>2, <3>3 DEF Waits
  <2> QED
    BY <2>3, <2>4, <2>5, <2>6
<1>4. EvaluationPending'
  BY <1>3 DEF EvaluationPending
<1> QED
  BY <1>1, <1>4 DEF Pending

(* A step that settles nothing.                                            *)
LEMMA QuietStep ==
    ASSUME TypeOK, Pending, NEW sh \in Shards,
           UNCHANGED <<table, stream, failureQueue>>,
           \A other \in Shards : other # sh => run'[other] = run[other],
           run[sh] \in Runs, run'[sh] \in Runs, run'[sh].batch = run[sh].batch,
           AtHead(stream[sh], run'[sh]),
           \A j \in Unsettled(run[sh]) : j \in Unsettled(run'[sh])
    PROVE  Pending'
BY RunStep

LEMMA ReadLatestStep ==
    ASSUME TypeOK, Pending, NEW sh \in Shards, ReadLatest(sh)
    PROVE  Pending'
<1> DEFINE s == run[sh]
           s2 == run'[sh]
<1>1. s \in Runs /\ s.pc = "read"
  <2>1. s.pc = "read"
    BY DEF ReadLatest
  <2> QED
    BY <2>1, PcBusy, BusyRun
<1>2. run' \in [Shards -> Runs \cup {Idle}]
  BY ReadLatestType DEF TypeOK
<1>3. \E seen, todo, pc :
         /\ pc \in {"insert", "stamp"}
         /\ pc = "stamp" => todo = KeyItems(s)
         /\ run' = [run EXCEPT ![sh] = [s EXCEPT !.pc = pc, !.seen = seen, !.todo = todo]]
  <2>1. CASE run' = [run EXCEPT ![sh] = [s EXCEPT !.pc = "insert", !.seen = 0]]
    <3>1. [s EXCEPT !.pc = "insert", !.seen = 0]
             = [s EXCEPT !.pc = "insert", !.seen = 0, !.todo = s.todo]
      BY <1>1 DEF Runs
    <3> QED
      BY <2>1, <3>1
  <2>2. ASSUME NEW row \in getLatest(s.key),
               run' = [run EXCEPT ![sh] =
                  [s EXCEPT !.pc = IF mergeSchemas(row.schema, ObservedShape(s)) = row.schema
                                   THEN "stamp" ELSE "insert",
                            !.seen = row.version,
                            !.todo = IF mergeSchemas(row.schema, ObservedShape(s)) = row.schema
                                     THEN KeyItems(s) ELSE {}]]
        PROVE  \E seen, todo, pc :
                  /\ pc \in {"insert", "stamp"}
                  /\ pc = "stamp" => todo = KeyItems(s)
                  /\ run' = [run EXCEPT ![sh] =
                        [s EXCEPT !.pc = pc, !.seen = seen, !.todo = todo]]
    BY <2>2
  <2> QED
    BY <2>1, <2>2 DEF ReadLatest
<1>4. PICK seen, todo, pc :
         /\ pc \in {"insert", "stamp"}
         /\ pc = "stamp" => todo = KeyItems(s)
         /\ run' = [run EXCEPT ![sh] = [s EXCEPT !.pc = pc, !.seen = seen, !.todo = todo]]
  BY <1>3
<1>5. /\ s2.batch = s.batch /\ s2.failed = s.failed /\ s2.keys = s.keys /\ s2.key = s.key
      /\ s2.pc \in {"insert", "stamp"}
      /\ s2.pc = "stamp" => s2.todo = KeyItems(s)
      /\ s2 # Idle
      /\ \A other \in Shards : other # sh => run'[other] = run[other]
  BY <1>1, <1>4 DEF TypeOK, Runs, Idle
<1>6. KeyItems(s2) = KeyItems(s)
  BY <1>5 DEF KeyItems, ItemsOf
<1>7. AtHead(stream[sh], s2)
  <2>1. AtHead(stream[sh], s)
    BY <1>1, RunsAreBusy DEF Pending, BatchAtHead
  <2> QED
    BY <1>5, <1>6, <2>1, SameHead
<1>8. \A j \in Unsettled(s) : j \in Unsettled(s2)
  <2> HIDE DEF s, s2
  <2> QED
    BY <1>1, <1>5 DEF Unsettled, KeyItems, ItemsOf
<1>9. s2 \in Runs
  BY <1>2, <1>5
<1>10. UNCHANGED <<table, stream, failureQueue>>
  BY DEF ReadLatest, source, polling
<1> QED
  BY <1>1, <1>5, <1>7, <1>8, <1>9, <1>10, QuietStep

(* The current topic fails, after or before item i of it was stamped.      *)
LEMMA KeyErrorStep ==
    ASSUME TypeOK, Pending, NEW sh \in Shards, KeyError(sh), run[sh] \in Runs,
           run[sh].pc \in {"read", "insert", "stamp"},
           UNCHANGED <<stream, failureQueue>>, NEW i,
           \/ table' = table /\ i = 0
           \/ i \in ItemsOf(run[sh]) /\ stamp(run[sh].batch[i], run[sh].seen)
    PROVE  Pending'
<1> DEFINE s == run[sh]
           s1 == [s EXCEPT !.failed = @ \cup KeyItems(s)]
<1>1. KeyItems(s) \in SUBSET (Nat \ {0}) /\ KeyItems(s) \subseteq ItemsOf(s)
  BY KeyItemsAreNat
<1>2. s1 \in Runs
  BY <1>1 DEF Runs
<1>3. s1.batch = s.batch /\ s1.keys = s.keys /\ s1.failed = s.failed \cup KeyItems(s)
  BY DEF Runs
<1>4. /\ run'[sh] \in Runs
      /\ run'[sh].batch = s1.batch
      /\ run'[sh].failed = s1.failed
      /\ run'[sh].pc \in {"read", "users"}
      /\ run'[sh].pc = "users" => run'[sh].keys = {}
      /\ \A j \in ItemsOf(s1) :
            j \in s1.failed \/ s1.batch[j].topic \in s1.keys => j \in Unsettled(run'[sh])
      /\ \A other \in Shards : other # sh => run'[other] = run[other]
  <2>1. Proceed(sh, s1)
    BY DEF KeyError
  <2> HIDE DEF s1
  <2> QED
    BY <1>2, <2>1, ProceedLeaves
<1> HIDE DEF s1
<1>5. AtHead(stream[sh], s)
  BY RunsAreBusy DEF Pending, BatchAtHead
<1>6. AtHead(stream[sh], run'[sh])
  BY <1>1, <1>3, <1>4, <1>5, SameHead
<1>7. \A j \in Unsettled(s) : j \in Unsettled(run'[sh])
  <2>1. SUFFICES ASSUME NEW j \in Unsettled(s)
                 PROVE  j \in s1.failed \/ s1.batch[j].topic \in s1.keys
    BY <1>3, <1>4 DEF Unsettled, ItemsOf
  <2>2. CASE s.pc = "stamp" /\ j \in s.todo
    BY <1>3, <1>5, <2>2 DEF AtHead
  <2>3. CASE s.pc \in {"read", "insert"} /\ s.batch[j].topic = s.key
    BY <1>3, <2>1, <2>3 DEF Unsettled, KeyItems
  <2> QED
    BY <1>3, <2>1, <2>2, <2>3 DEF Unsettled
<1> QED
  BY <1>3, <1>4, <1>6, <1>7, RunStep

LEMMA InsertVersionStep ==
    ASSUME TypeOK, Pending, NEW sh \in Shards, InsertVersion(sh)
    PROVE  Pending'
<1> DEFINE s == run[sh]
           s2 == run'[sh]
<1>1. s \in Runs /\ s.pc = "insert"
  BY PcBusy, BusyRun DEF InsertVersion
<1>2. UNCHANGED <<table, stream, failureQueue>>
  BY DEF InsertVersion, source, polling
<1>3. CASE KeyError(sh)
  BY <1>1, <1>2, <1>3, KeyErrorStep
<1>4. CASE run' = [run EXCEPT ![sh] = [s EXCEPT !.pc = "read", !.attempt = @ + 1]]
  <2>1. /\ s2.batch = s.batch /\ s2.failed = s.failed /\ s2.keys = s.keys /\ s2.key = s.key
        /\ s2.pc = "read"
        /\ s2 # Idle
        /\ \A other \in Shards : other # sh => run'[other] = run[other]
    BY <1>1, <1>4 DEF TypeOK, Runs, Idle
  <2>2. AtHead(stream[sh], s2)
    <3>1. AtHead(stream[sh], s)
      BY <1>1, RunsAreBusy DEF Pending, BatchAtHead
    <3> QED
      BY <2>1, <3>1, SameHead
  <2>3. \A j \in Unsettled(s) : j \in Unsettled(s2)
    <3> HIDE DEF s, s2
    <3> QED
      BY <1>1, <2>1 DEF Unsettled, ItemsOf
  <2>4. s2 \in Runs
    BY <2>1, InsertVersionType DEF TypeOK
  <2> QED
    BY <1>1, <1>2, <2>1, <2>2, <2>3, <2>4, QuietStep
<1>5. ASSUME NEW version,
             run' = [run EXCEPT ![sh] =
                [s EXCEPT !.pc = "stamp", !.seen = version, !.todo = KeyItems(s)]]
      PROVE  Pending'
  <2>1. /\ s2.batch = s.batch /\ s2.failed = s.failed /\ s2.keys = s.keys /\ s2.key = s.key
        /\ s2.pc = "stamp"
        /\ s2.todo = KeyItems(s)
        /\ s2 # Idle
        /\ \A other \in Shards : other # sh => run'[other] = run[other]
    BY <1>1, <1>5 DEF TypeOK, Runs, Idle
  <2>2. AtHead(stream[sh], s2)
    <3>1. AtHead(stream[sh], s)
      BY <1>1, RunsAreBusy DEF Pending, BatchAtHead
    <3>2. KeyItems(s2) = KeyItems(s)
      BY <2>1 DEF KeyItems, ItemsOf
    <3> QED
      BY <2>1, <3>1, <3>2, SameHead
  <2>3. \A j \in Unsettled(s) : j \in Unsettled(s2)
    <3> HIDE DEF s, s2
    <3> QED
      BY <1>1, <2>1 DEF Unsettled, KeyItems, ItemsOf
  <2>4. s2 \in Runs
    BY <2>1, InsertVersionType DEF TypeOK
  <2> QED
    BY <1>1, <1>2, <2>1, <2>2, <2>3, <2>4, QuietStep
<1> QED
  BY <1>3, <1>4, <1>5 DEF InsertVersion

LEMMA StampStep ==
    ASSUME TypeOK, Pending, NEW sh \in Shards, Stamp(sh)
    PROVE  Pending'
<1> DEFINE s == run[sh]
           s2 == run'[sh]
<1>1. s \in Runs /\ s.pc = "stamp"
  BY PcBusy, BusyRun DEF Stamp
<1>2. PICK i \in s.todo :
         /\ stamp(s.batch[i], s.seen)
         /\ IF s.todo = {i}
            THEN Proceed(sh, [s EXCEPT !.todo = {}])
            ELSE run' = [run EXCEPT ![sh].todo = @ \ {i}]
  BY DEF Stamp
<1>3. AtHead(stream[sh], s)
  BY <1>1, RunsAreBusy DEF Pending, BatchAtHead
<1>4. i \in ItemsOf(s)
  BY <1>1, <1>2, <1>3 DEF AtHead, KeyItems
<1>5. UNCHANGED <<stream, failureQueue>>
  BY DEF Stamp, polling
<1>6. CASE s.todo = {i} /\ Proceed(sh, [s EXCEPT !.todo = {}])
  <2> DEFINE s1 == [s EXCEPT !.todo = {}]
  <2>1. s1 \in Runs
    BY <1>1 DEF Runs
  <2>2. s1.batch = s.batch /\ s1.failed = s.failed /\ s1.keys = s.keys
    BY <1>1 DEF Runs
  <2>3. Proceed(sh, s1)
    BY <1>6
  <2> HIDE DEF s1
  <2>4. /\ s2 \in Runs
        /\ s2.batch = s.batch
        /\ s2.failed = s.failed
        /\ s2.pc \in {"read", "users"}
        /\ s2.pc = "users" => s2.keys = {}
        /\ \A j \in ItemsOf(s) :
              j \in s.failed \/ s.batch[j].topic \in s.keys => j \in Unsettled(s2)
        /\ \A other \in Shards : other # sh => run'[other] = run[other]
    BY <2>1, <2>2, <2>3, ProceedLeaves DEF ItemsOf
  <2>5. AtHead(stream[sh], s2)
    BY <1>3, <2>4, SameHead
  <2>6. \A j \in Unsettled(s) : j = i \/ j \in Unsettled(s2)
    BY <1>1, <1>6, <2>4 DEF Unsettled
  <2> QED
    BY <1>1, <1>2, <1>4, <1>5, <2>4, <2>5, <2>6, RunStep
<1>7. CASE run' = [run EXCEPT ![sh].todo = @ \ {i}]
  <2>1. /\ s2.batch = s.batch /\ s2.failed = s.failed /\ s2.keys = s.keys /\ s2.key = s.key
        /\ s2.pc = s.pc
        /\ s2.todo = s.todo \ {i}
        /\ s2 # Idle
        /\ \A other \in Shards : other # sh => run'[other] = run[other]
    BY <1>1, <1>7 DEF TypeOK, Runs, Idle
  <2>2. AtHead(stream[sh], s2)
    <3>1. KeyItems(s2) = KeyItems(s)
      BY <2>1 DEF KeyItems, ItemsOf
    <3>2. s.todo \subseteq KeyItems(s)
      BY <1>1, <1>3 DEF AtHead
    <3> HIDE DEF s, s2
    <3> QED
      BY <1>1, <1>3, <2>1, <3>1, <3>2, SameHead
  <2>3. \A j \in Unsettled(s) : j = i \/ j \in Unsettled(s2)
    <3> HIDE DEF s, s2
    <3> QED
      BY <1>1, <2>1 DEF Unsettled, ItemsOf
  <2>4. s2 \in Runs
    BY <2>1, StampType DEF TypeOK
  <2> QED
    BY <1>1, <1>2, <1>4, <1>5, <2>1, <2>2, <2>3, <2>4, RunStep
<1> QED
  BY <1>2, <1>6, <1>7

LEMMA KeyFailsStep ==
    ASSUME TypeOK, Pending, NEW sh \in Shards, KeyFails(sh)
    PROVE  Pending'
<1> DEFINE s == run[sh]
<1>1. s \in Runs
  BY PcBusy, BusyRun DEF KeyFails
<1>2. UNCHANGED <<stream, failureQueue>>
  BY DEF KeyFails, polling
<1>3. CASE table' = table
  BY <1>1, <1>2, <1>3, KeyErrorStep DEF KeyFails
<1>4. ASSUME s.pc = "stamp", NEW i \in s.todo, stamp(s.batch[i], s.seen)
      PROVE  Pending'
  <2>1. i \in ItemsOf(s)
    BY <1>1, <1>4, RunsAreBusy DEF Pending, BatchAtHead, AtHead, KeyItems
  <2> QED
    BY <1>1, <1>2, <1>4, <2>1, KeyErrorStep DEF KeyFails
<1> QED
  BY <1>3, <1>4 DEF KeyFails

LEMMA UsersStep ==
    ASSUME TypeOK, Pending, NEW sh \in Shards, NEW u \in Users,
           MergeUser(sh, u) \/ UserFails(sh, u)
    PROVE  Pending'
<1> DEFINE s == run[sh]
           s2 == run'[sh]
<1>1. s \in Runs /\ s.pc = "users"
  BY PcBusy, BusyRun DEF MergeUser, UserFails
<1>2. UNCHANGED <<table, stream, failureQueue>>
  BY DEF MergeUser, UserFails, source, polling
<1>3. /\ s2.batch = s.batch /\ s2.keys = s.keys /\ s2.pc = "users" /\ s2 # Idle
      /\ s.failed \subseteq s2.failed /\ s2.failed \subseteq s.failed \cup ItemsOf(s)
      /\ \A other \in Shards : other # sh => run'[other] = run[other]
  <2>1. CASE MergeUser(sh, u)
    BY <1>1, <2>1 DEF MergeUser, TypeOK, Runs, Idle
  <2>2. CASE UserFails(sh, u)
    <3>1. run' = [run EXCEPT ![sh] =
                [s EXCEPT !.users = @ \ {u}, !.failed = @ \cup UserItems(s, u)]]
      BY <2>2 DEF UserFails
    <3>2. UserItems(s, u) \subseteq ItemsOf(s)
      BY DEF UserItems
    <3> QED
      BY <1>1, <3>1, <3>2 DEF TypeOK, Runs, Idle
  <2> QED
    BY <2>1, <2>2
<1>4. AtHead(stream[sh], s)
  BY <1>1, RunsAreBusy DEF Pending, BatchAtHead
<1>5. AtHead(stream[sh], s2)
  <2>1. s.keys = {}
    BY <1>1, <1>4 DEF AtHead
  <2> HIDE DEF s, s2
  <2> QED
    BY <1>3, <1>4, <2>1, SameHead
<1>6. \A j \in Unsettled(s) : j \in Unsettled(s2)
  <2> HIDE DEF s, s2
  <2> QED
    BY <1>1, <1>3 DEF Unsettled, ItemsOf
<1>7. s2 \in Runs
  BY <1>3, UsersStepType DEF TypeOK
<1> QED
  BY <1>1, <1>2, <1>3, <1>5, <1>6, <1>7, QuietStep

-----------------------------------------------------------------------------
(* Writes.                                                                 *)

LEMMA AppendKeeps ==
    ASSUME NEW q \in Seq(Events), NEW e \in Events, NEW s
    PROVE  /\ \A x : Waits(x, q, s) => Waits(x, Append(q, e), s)
           /\ s \in Runs /\ AtHead(q, s) => AtHead(Append(q, e), s)
           /\ s = Idle \/ (s \in Runs /\ AtHead(q, s)) => Waits(e, Append(q, e), s)
<1>1. /\ Len(q) \in Nat
      /\ DOMAIN q = 1..Len(q)
      /\ DOMAIN Append(q, e) = 1..(Len(q) + 1)
      /\ Len(Append(q, e)) = Len(q) + 1
      /\ Append(q, e)[Len(q) + 1] = e
      /\ \A i \in 1..Len(q) : Append(q, e)[i] = q[i]
  BY LenProperties, AppendProperties
<1>2. \A x : Waits(x, q, s) => Waits(x, Append(q, e), s)
  BY <1>1 DEF Waits
<1>3. ASSUME s \in Runs, AtHead(q, s) PROVE AtHead(Append(q, e), s)
  <2>1. Len(s.batch) \in Nat /\ ItemsOf(s) = 1..Len(s.batch)
    BY <1>3, BatchFields
  <2>2. Len(s.batch) <= Len(Append(q, e))
    BY <1>1, <1>3, <2>1 DEF AtHead
  <2>3. \A i \in ItemsOf(s) : Append(q, e)[i] = s.batch[i]
    BY <1>1, <1>3, <2>1 DEF AtHead
  <2> QED
    BY <1>3, <2>2, <2>3 DEF AtHead
<1>4. ASSUME s \in Runs, AtHead(q, s) PROVE Waits(e, Append(q, e), s)
  <2>1. Len(s.batch) \in Nat
    BY <1>4, BatchFields
  <2>2. Len(q) + 1 > Len(s.batch)
    BY <1>1, <1>4, <2>1 DEF AtHead
  <2> QED
    BY <1>1, <2>2 DEF Waits
<1>5. ASSUME s = Idle PROVE Waits(e, Append(q, e), s)
  BY <1>1, <1>5 DEF Waits
<1> QED
  BY <1>2, <1>3, <1>4, <1>5

(* A step in which records only go, or nothing happens.                    *)
LEMMA NothingMoves ==
    ASSUME TypeOK, Pending, UNCHANGED <<stream, failureQueue, run>>,
           \A k \in Keys : table'[k] = table[k] \/ table'[k] = Absent
    PROVE  Pending'
<1>1. ASSUME NEW k \in Keys, table'[k] # Absent, table'[k].flag
      PROVE  \/ EventOf(k)' \in failureQueue'
             \/ Waits(EventOf(k)', stream'[ShardOf[k[1]]], run'[ShardOf[k[1]]])
  <2>1. table'[k] = table[k]
    BY <1>1
  <2>2. EventOf(k)' = EventOf(k)
    BY <2>1 DEF EventOf
  <2> QED
    BY <1>1, <2>1, <2>2 DEF Pending, EvaluationPending
<1>2. EvaluationPending'
  BY <1>1 DEF EvaluationPending
<1>3. BatchAtHead'
  BY DEF Pending, BatchAtHead
<1> QED
  BY <1>2, <1>3 DEF Pending

LEMMA WriteStep ==
    ASSUME TypeOK, TypeOK', Pending, NEW k \in Keys, NEW data, NEW version,
           Write(k, data, version)
    PROVE  Pending'
<1> DEFINE stored == [data |-> data, nonce |-> IF Encrypted THEN writes ELSE 0]
           item == [stored |-> stored, flag |-> TRUE, version |-> version]
           event == [user |-> k[1], topic |-> k[2], stored |-> stored]
           home == ShardOf[k[1]]
<1>1. /\ table' = [table EXCEPT ![k] = item]
      /\ stream' = [stream EXCEPT ![home] = IF item = table[k] THEN @ ELSE Append(@, event)]
      /\ UNCHANGED <<failureQueue, run>>
  BY DEF Write, polling
<1>2. home \in Shards /\ k[1] \in Users /\ k[2] \in Topics
  BY KeyHasShard
<1>3. table'[k] = item /\ \A other \in Keys : other # k => table'[other] = table[other]
  BY <1>1 DEF TypeOK
<1>4. CASE item = table[k]
  <2>1. stream' = stream
    BY <1>1, <1>4 DEF TypeOK
  <2>2. \A other \in Keys : table'[other] = table[other]
    BY <1>3, <1>4
  <2> QED
    BY <1>1, <2>1, <2>2, NothingMoves
<1>5. CASE item # table[k]
  <2>1. /\ stream'[home] = Append(stream[home], event)
        /\ \A sh \in Shards : sh # home => stream'[sh] = stream[sh]
    BY <1>1, <1>2, <1>5 DEF TypeOK
  <2>2. event \in Events
    <3>1. item \in Items
      <4>1. table'[k] \in Items \cup {Absent}
        BY DEF TypeOK
      <4>2. item # Absent
        <5>1. DOMAIN item # DOMAIN Absent
          BY DEF Absent
        <5> QED
          BY <5>1
      <4> QED
        BY <1>3, <4>1, <4>2
    <3>2. stored \in StoredData
      <4>1. item.stored \in StoredData
        BY <3>1 DEF Items
      <4> QED
        BY <4>1
    <3> QED
      BY <1>2, <3>2 DEF Events
  <2>3. EventOf(k)' = event
    <3>1. table'[k].stored = stored
      BY <1>3
    <3> QED
      BY <3>1 DEF EventOf
  <2> HIDE DEF event, item
  <2>4. stream[home] \in Seq(Events)
    BY <1>2 DEF TypeOK
  <2>5. run[home] = Idle \/ (run[home] \in Runs /\ AtHead(stream[home], run[home]))
    BY <1>2, BusyRun DEF Pending, BatchAtHead
  <2>6. /\ \A x : Waits(x, stream[home], run[home]) => Waits(x, stream'[home], run[home])
        /\ run[home] # Idle => AtHead(stream'[home], run[home])
        /\ Waits(event, stream'[home], run[home])
    BY <2>1, <2>2, <2>4, <2>5, AppendKeeps
  <2>7. BatchAtHead'
    <3>1. ASSUME NEW sh \in Shards, run'[sh] # Idle
          PROVE  AtHead(stream'[sh], run'[sh])
      BY <1>1, <2>1, <2>6, <3>1 DEF Pending, BatchAtHead
    <3> QED
      BY <3>1 DEF BatchAtHead
  <2>8. ASSUME NEW other \in Keys, table'[other] # Absent, table'[other].flag
        PROVE  \/ EventOf(other)' \in failureQueue'
               \/ Waits(EventOf(other)', stream'[ShardOf[other[1]]], run'[ShardOf[other[1]]])
    <3>1. CASE other = k
      BY <1>1, <2>3, <2>6, <3>1
    <3>2. CASE other # k
      <4>1. table'[other] = table[other]
        BY <1>3, <3>2
      <4>2. EventOf(other)' = EventOf(other)
        BY <4>1 DEF EventOf
      <4>3. \/ EventOf(other) \in failureQueue
            \/ Waits(EventOf(other), stream[ShardOf[other[1]]], run[ShardOf[other[1]]])
        BY <2>8, <4>1 DEF Pending, EvaluationPending
      <4>4. ShardOf[other[1]] \in Shards
        BY KeyHasShard
      <4> QED
        BY <1>1, <2>1, <2>6, <4>2, <4>3, <4>4
    <3> QED
      BY <3>1, <3>2
  <2>9. EvaluationPending'
    BY <2>8 DEF EvaluationPending
  <2> QED
    BY <2>7, <2>9 DEF Pending
<1> QED
  BY <1>4, <1>5

LEMMA CallStep ==
    ASSUME TypeOK, TypeOK', Pending, Call
    PROVE  Pending'
<1>1. PICK k \in Keys : (\E data \in Payloads : Save(k, data) \/ Update(k, data)) \/ Delete(k)
  BY DEF Call
<1>2. ASSUME NEW data, Save(k, data) \/ Update(k, data) PROVE Pending'
  <2>1. PICK version : Write(k, data, version)
    BY <1>2 DEF Save, Update
  <2> QED
    BY <2>1, WriteStep
<1>3. CASE Delete(k)
  <2>1. \A other \in Keys : table'[other] = table[other] \/ table'[other] = Absent
    BY <1>3 DEF Delete, TypeOK
  <2>2. UNCHANGED <<stream, failureQueue, run>>
    BY <1>3 DEF Delete, polling
  <2> QED
    BY <2>1, <2>2, NothingMoves
<1> QED
  BY <1>1, <1>2, <1>3

-----------------------------------------------------------------------------
(* The ends of a run.                                                      *)

LEMMA StartBatchStep ==
    ASSUME TypeOK, Pending, NEW sh \in Shards, NEW n \in 1..BatchSize,
           NEW unread \in SUBSET (1..n), StartBatch(sh, n, unread)
    PROVE  Pending'
<1> DEFINE s2 == run'[sh]
<1>1. PICK s \in Runs :
         /\ Proceed(sh, s)
         /\ Len(s.batch) = n
         /\ \A i \in 1..n : s.batch[i] = stream[sh][i]
         /\ s.keys = {s.batch[i].topic : i \in (1..n) \ unread}
         /\ s.failed = unread
  BY StartedRun
<1>2. ItemsOf(s) = 1..n
  BY <1>1, BatchFields
<1>3. /\ s2 \in Runs
      /\ s2.batch = s.batch
      /\ s2.failed = s.failed
      /\ s2.pc \in {"read", "users"}
      /\ s2.pc = "users" => s2.keys = {}
      /\ \A i \in ItemsOf(s) :
            i \in s.failed \/ s.batch[i].topic \in s.keys => i \in Unsettled(s2)
      /\ \A other \in Shards : other # sh => run'[other] = run[other]
  BY <1>1, ProceedLeaves
<1>4. UNCHANGED <<table, stream, failureQueue>> /\ run[sh] = Idle /\ n <= Len(stream[sh])
  BY DEF StartBatch, source, polling
<1> HIDE DEF s2
<1>5. AtHead(stream[sh], s2)
  BY <1>1, <1>2, <1>3, <1>4 DEF AtHead, ItemsOf
<1>6. \A i \in 1..n : i \in Unsettled(s2)
  BY <1>1, <1>2, <1>3
<1>7. ASSUME NEW x, Waits(x, stream[sh], Idle) PROVE Waits(x, stream[sh], s2)
  <2>1. PICK j \in DOMAIN stream[sh] : stream[sh][j] = x
    BY <1>7 DEF Waits
  <2>2. j > n \/ j \in 1..n
    BY <2>1, StreamFields
  <2>3. s2 = Idle \/ j > Len(s2.batch) \/ j \in Unsettled(s2)
    BY <1>1, <1>3, <1>6, <2>2
  <2> QED
    BY <2>1, <2>3 DEF Waits
<1>8. BatchAtHead'
  BY <1>3, <1>4, <1>5 DEF Pending, BatchAtHead, s2
<1>9. ASSUME NEW k \in Keys, table'[k] # Absent, table'[k].flag
      PROVE  \/ EventOf(k)' \in failureQueue'
             \/ Waits(EventOf(k)', stream'[ShardOf[k[1]]], run'[ShardOf[k[1]]])
  <2>1. EventOf(k)' = EventOf(k)
    BY <1>4 DEF EventOf
  <2>2. \/ EventOf(k) \in failureQueue
        \/ Waits(EventOf(k), stream[ShardOf[k[1]]], run[ShardOf[k[1]]])
    BY <1>4, <1>9 DEF Pending, EvaluationPending
  <2> QED
    BY <1>3, <1>4, <1>7, <2>1, <2>2, KeyHasShard DEF s2
<1>10. EvaluationPending'
  BY <1>9 DEF EvaluationPending
<1> QED
  BY <1>8, <1>10 DEF Pending

(* The run of a shard ends: what waited is behind what was dropped, or was *)
(* given up.                                                               *)
LEMMA EndStep ==
    ASSUME TypeOK, Pending, NEW sh \in Shards, table' = table,
           run' = [run EXCEPT ![sh] = Idle],
           \A other \in Shards : other # sh => stream'[other] = stream[other],
           failureQueue \subseteq failureQueue',
           \A x : Waits(x, stream[sh], run[sh]) =>
                     x \in failureQueue' \/ Waits(x, stream'[sh], Idle)
    PROVE  Pending'
<1>1. run'[sh] = Idle /\ \A other \in Shards : other # sh => run'[other] = run[other]
  BY DEF TypeOK
<1>2. BatchAtHead'
  BY <1>1 DEF Pending, BatchAtHead
<1>3. ASSUME NEW k \in Keys, table'[k] # Absent, table'[k].flag
      PROVE  \/ EventOf(k)' \in failureQueue'
             \/ Waits(EventOf(k)', stream'[ShardOf[k[1]]], run'[ShardOf[k[1]]])
  <2>1. EventOf(k)' = EventOf(k)
    BY DEF EventOf
  <2>2. \/ EventOf(k) \in failureQueue
        \/ Waits(EventOf(k), stream[ShardOf[k[1]]], run[ShardOf[k[1]]])
    BY <1>3 DEF Pending, EvaluationPending
  <2> QED
    BY <1>1, <2>1, <2>2, KeyHasShard
<1>4. EvaluationPending'
  BY <1>3 DEF EvaluationPending
<1> QED
  BY <1>2, <1>4 DEF Pending

LEMMA DropKeeps ==
    ASSUME TypeOK, NEW sh \in Shards, NEW m \in Nat, stream' = Drop(sh, m),
           m <= Len(stream[sh]), NEW j \in DOMAIN stream[sh], j > m
    PROVE  Waits(stream[sh][j], stream'[sh], Idle)
<1> DEFINE q == stream[sh]
           q2 == SubSeq(q, m + 1, Len(q))
<1>1. q \in Seq(Events) /\ Len(q) \in Nat /\ DOMAIN q = 1..Len(q)
  BY StreamFields
<1>2. stream'[sh] = q2
  BY DEF Drop, TypeOK
<1>3. \A i \in m + 1 .. Len(q) : q[i] \in Events
  BY <1>1, ElementOfSeq
<1>4. /\ q2 \in Seq(Events)
      /\ Len(q2) = IF m + 1 <= Len(q) THEN Len(q) - (m + 1) + 1 ELSE 0
      /\ \A i \in 1 .. Len(q) - (m + 1) + 1 : q2[i] = q[m + 1 + i - 1]
  <2>1. m + 1 \in Int /\ Len(q) \in Int
    BY <1>1
  <2> HIDE DEF q
  <2> QED
    BY <1>3, <2>1, SubSeqProperties
<1> HIDE DEF q2
<1>5. /\ j - m \in 1 .. Len(q) - (m + 1) + 1
      /\ m + 1 + (j - m) - 1 = j
  BY <1>1
<1>6. q2[j - m] = q[j]
  BY <1>4, <1>5
<1>7. j - m \in DOMAIN q2
  <2>1. DOMAIN q2 = 1..Len(q2)
    BY <1>4, LenProperties
  <2> QED
    BY <1>1, <1>4, <1>5, <2>1
<1> QED
  BY <1>2, <1>6, <1>7 DEF Waits

LEMMA OtherStreams ==
    ASSUME TypeOK, NEW sh \in Shards, NEW m, stream' = Drop(sh, m)
    PROVE  \A other \in Shards : other # sh => stream'[other] = stream[other]
BY DEF Drop, TypeOK

(* At the end of a run the items to settle are the failed ones.            *)
LEMMA FailedAtEnd ==
    ASSUME NEW s, s.pc = "users", s.keys = {}, NEW i \in Unsettled(s)
    PROVE  i \in s.failed
BY DEF Unsettled

LEMMA GiveBackStep ==
    ASSUME TypeOK, Pending, NEW sh \in Shards, run[sh] \in Runs, NEW first,
           \/ first = 1
           \/ /\ run[sh].pc = "users"
              /\ first \in run[sh].failed
              /\ \A i \in run[sh].failed : first <= i,
           GiveBack(sh, first)
    PROVE  Pending'
<1> DEFINE s == run[sh]
           n == Len(s.batch)
<1>1. AtHead(stream[sh], s) /\ s # Idle
  BY RunsAreBusy DEF Pending, BatchAtHead
<1>2. n \in Nat /\ ItemsOf(s) = 1..n
  BY BatchFields
<1>3. n <= Len(stream[sh]) /\ Len(stream[sh]) \in Nat /\ DOMAIN stream[sh] = 1..Len(stream[sh])
  BY <1>1, StreamFields DEF AtHead
<1>4. table' = table /\ run' = [run EXCEPT ![sh] = Idle]
  BY DEF GiveBack
<1>5. CASE first = 1 /\ tries[sh] = RetryAttempts
  <2>1. stream' = Drop(sh, n) /\ failureQueue' = failureQueue \cup {s.batch[i] : i \in ItemsOf(s)}
    BY <1>5 DEF GiveBack
  <2>2. ASSUME NEW x, Waits(x, stream[sh], s)
        PROVE  x \in failureQueue' \/ Waits(x, stream'[sh], Idle)
    <3>1. PICK j \in DOMAIN stream[sh] : stream[sh][j] = x
      BY <2>2 DEF Waits
    <3>2. CASE j \in ItemsOf(s)
      BY <1>1, <2>1, <3>1, <3>2 DEF AtHead
    <3>3. CASE j > n
      BY <1>2, <1>3, <2>1, <3>1, <3>3, DropKeeps
    <3> QED
      BY <1>2, <1>3, <3>1, <3>2, <3>3
  <2>3. \A other \in Shards : other # sh => stream'[other] = stream[other]
    BY <2>1, OtherStreams
  <2> QED
    BY <1>4, <2>1, <2>2, <2>3, EndStep
<1>6. CASE ~(first = 1 /\ tries[sh] = RetryAttempts)
  <2>1. stream' = Drop(sh, first - 1) /\ UNCHANGED failureQueue
    BY <1>6 DEF GiveBack
  <2>2. first - 1 \in Nat /\ first - 1 <= Len(stream[sh])
    <3>1. CASE first = 1
      BY <1>3, <3>1
    <3>2. CASE first \in s.failed
      BY <1>1, <1>2, <1>3, <3>2 DEF AtHead
    <3> QED
      BY <3>1, <3>2
  <2>3. ASSUME NEW x, Waits(x, stream[sh], s)
        PROVE  x \in failureQueue' \/ Waits(x, stream'[sh], Idle)
    <3>1. PICK j \in DOMAIN stream[sh] :
             stream[sh][j] = x /\ (j > n \/ j \in Unsettled(s))
      BY <1>1, <2>3 DEF Waits
    <3>2. j > first - 1
      <4>1. CASE first = 1
        BY <1>3, <4>1
      <4>2. CASE /\ s.pc = "users"
                 /\ first \in s.failed
                 /\ \A i \in s.failed : first <= i
        <5>1. first \in 1..n
          BY <1>1, <1>2, <4>2 DEF AtHead
        <5>2. s.keys = {}
          BY <1>1, <4>2 DEF AtHead
        <5>3. j \in Unsettled(s) => first <= j
          BY <4>2, <5>2, FailedAtEnd
        <5> QED
          BY <1>2, <1>3, <3>1, <5>1, <5>3
      <4> QED
        BY <4>1, <4>2
    <3> QED
      BY <2>1, <2>2, <3>1, <3>2, DropKeeps
  <2>4. \A other \in Shards : other # sh => stream'[other] = stream[other]
    BY <2>1, OtherStreams
  <2> QED
    BY <1>4, <2>1, <2>3, <2>4, EndStep
<1> QED
  BY <1>5, <1>6

LEMMA ReturnStep ==
    ASSUME TypeOK, Pending, NEW sh \in Shards, Return(sh)
    PROVE  Pending'
<1> DEFINE s == run[sh]
           n == Len(s.batch)
<1>1. s \in Runs /\ s.pc = "users"
  BY PcBusy, BusyRun DEF Return
<1>2. CASE /\ s.failed = {}
           /\ stream' = Drop(sh, n)
           /\ run' = [run EXCEPT ![sh] = Idle]
           /\ UNCHANGED <<table, failureQueue>>
  <2>1. AtHead(stream[sh], s) /\ s # Idle
    BY <1>1, RunsAreBusy DEF Pending, BatchAtHead
  <2>2. n \in Nat /\ n <= Len(stream[sh])
    BY <1>1, <2>1, BatchFields DEF AtHead
  <2>3. s.keys = {}
    BY <1>1, <2>1 DEF AtHead
  <2>4. ASSUME NEW x, Waits(x, stream[sh], s)
        PROVE  Waits(x, stream'[sh], Idle)
    <3>1. PICK j \in DOMAIN stream[sh] :
             stream[sh][j] = x /\ (j > n \/ j \in Unsettled(s))
      BY <2>1, <2>4 DEF Waits
    <3>2. j > n
      BY <1>1, <1>2, <2>3, <3>1, FailedAtEnd
    <3> QED
      BY <1>2, <2>2, <3>1, <3>2, DropKeeps
  <2>5. \A other \in Shards : other # sh => stream'[other] = stream[other]
    BY <1>2, OtherStreams
  <2> QED
    BY <1>2, <2>4, <2>5, EndStep
<1>3. ASSUME NEW first \in s.failed, \A i \in s.failed : first <= i, GiveBack(sh, first)
      PROVE  Pending'
  BY <1>1, <1>3, GiveBackStep
<1> QED
  BY <1>2, <1>3 DEF Return

LEMMA TimeoutStep ==
    ASSUME TypeOK, Pending, NEW sh \in Shards, Timeout(sh)
    PROVE  Pending'
<1>1. run[sh] \in Runs
  BY BusyRun DEF Timeout
<1>2. CASE GiveBack(sh, 1)
  BY <1>1, <1>2, GiveBackStep
<1>3. CASE Bisect(sh)
  <2>1. UNCHANGED <<table, stream, failureQueue>> /\ run' = [run EXCEPT ![sh] = Idle]
    BY <1>3 DEF Bisect, source, polling
  <2>2. \A x : Waits(x, stream[sh], run[sh]) => Waits(x, stream'[sh], Idle)
    BY <2>1 DEF Waits
  <2> QED
    BY <2>1, <2>2, EndStep
<1> QED
  BY <1>2, <1>3 DEF Timeout

-----------------------------------------------------------------------------
LEMMA InitPending == Init => Pending
<1> SUFFICES ASSUME Init PROVE Pending
  OBVIOUS
<1>1. EvaluationPending
  BY DEF Init, EvaluationPending
<1>2. BatchAtHead
  BY DEF Init, BatchAtHead
<1> QED
  BY <1>1, <1>2 DEF Pending

LEMMA NextPending == ASSUME TypeOK, Pending, [Next]_vars PROVE Pending'
<1>1. TypeOK'
  BY NextType
<1>2. CASE Call
  BY <1>1, <1>2, CallStep
<1>3. ASSUME NEW sh \in Shards, Extract(sh) \/ Fail(sh)
      PROVE  Pending'
  <2>1. ASSUME NEW n \in 1..BatchSize, StartBatch(sh, n, {}) PROVE Pending'
    <3>1. {} \in SUBSET (1..n)
      OBVIOUS
    <3> QED
      BY <2>1, <3>1, StartBatchStep
  <2>2. ASSUME NEW n \in 1..BatchSize, NEW i \in 1..n, StartBatch(sh, n, {i})
        PROVE  Pending'
    <3>1. {i} \in SUBSET (1..n)
      OBVIOUS
    <3> QED
      BY <2>2, <3>1, StartBatchStep
  <2>3. CASE ReadLatest(sh) \/ InsertVersion(sh) \/ Stamp(sh) \/ KeyFails(sh)
    BY <2>3, ReadLatestStep, InsertVersionStep, StampStep, KeyFailsStep
  <2>4. CASE \E u \in Users : MergeUser(sh, u) \/ UserFails(sh, u)
    BY <2>4, UsersStep
  <2>5. CASE Return(sh) \/ Timeout(sh)
    BY <2>5, ReturnStep, TimeoutStep
  <2> QED
    BY <1>3, <2>1, <2>2, <2>3, <2>4, <2>5 DEF Extract, Fail
<1>4. CASE UNCHANGED vars
  <2>1. UNCHANGED <<table, stream, failureQueue, run>>
    BY <1>4 DEF vars, source, polling
  <2> QED
    BY <2>1, NothingMoves
<1> QED
  BY <1>2, <1>3, <1>4 DEF Next

(***************************************************************************)
(* The invariant behind NoLostEvaluation: a batch stays the head of its    *)
(* shard, and the event of a flagged record waits behind it or is one that *)
(* the run still has to stamp or to report.                                *)
(***************************************************************************)
THEOREM EvaluationsWait == Spec => []Pending
<1>1. Init => TypeOK /\ Pending
  BY InitType, InitPending
<1>2. TypeOK /\ Pending /\ [Next]_vars => (TypeOK /\ Pending)'
  BY NextType, NextPending
<1> QED
  BY <1>1, <1>2, PTL DEF Spec

(***************************************************************************)
(* A flagged record is never forgotten: through failures, bisection,       *)
(* partial responses and rewrites, the event of its last write is in the   *)
(* stream or in the failure queue.                                         *)
(***************************************************************************)
THEOREM NothingIsForgotten == Spec => []NoLostEvaluation
<1>1. Pending => NoLostEvaluation
  BY DEF Pending, EvaluationPending, Waits, NoLostEvaluation
<1> QED
  BY <1>1, EvaluationsWait, PTL

-----------------------------------------------------------------------------
(* Nothing goes back: what of EvaluationSettles needs no fairness.         *)

Within(a, b) == a \subseteq b /\ a # b

(* A run goes from one topic to the next and then to the users; a topic is *)
(* read, its version inserted or lost to another shard and read again, and *)
(* its items stamped.                                                      *)
RunAdvances(s, t) ==
    /\ t.batch = s.batch
    /\ \/ s.pc # "users" /\ Within(t.keys, s.keys)
       \/ s.pc # "users" /\ t.pc = "users"
       \/ /\ t.keys = s.keys /\ t.key = s.key /\ t.attempt = s.attempt
          /\ <<s.pc, t.pc>> \in {<<"read", "insert">>, <<"read", "stamp">>,
                                 <<"insert", "stamp">>}
       \/ /\ t.keys = s.keys /\ t.key = s.key /\ t.attempt = s.attempt + 1
          /\ s.pc = "insert" /\ t.pc = "read"
       \/ /\ t.keys = s.keys /\ t.key = s.key
          /\ s.pc = "stamp" /\ t.pc = "stamp" /\ Within(t.todo, s.todo)
       \/ s.pc = "users" /\ t.pc = "users" /\ Within(t.users, s.users)

(* A run that ends takes records off its shard, or is one more retry of    *)
(* the record at the head, or is cut in two after a failure.               *)
RunEnds(sh) ==
    \/ Len(stream'[sh]) < Len(stream[sh])
    \/ stream'[sh] = stream[sh] /\ tries'[sh] = tries[sh] + 1
    \/ /\ stream'[sh] = stream[sh] /\ tries'[sh] = tries[sh]
       /\ Len(run[sh].batch) > 1 /\ failures' = failures + 1

ShardAdvances(sh) ==
    run[sh] # Idle /\ run'[sh] # run[sh] =>
        IF run'[sh] = Idle THEN RunEnds(sh) ELSE RunAdvances(run[sh], run'[sh])

RunsAdvance == [][\A sh \in Shards : ShardAdvances(sh)]_vars

(* No batch is empty.                                                      *)
BatchesHaveItems == \A sh \in Shards : run[sh] # Idle => Len(run[sh].batch) > 0

(* What a step of the extractor of one shard does.                         *)
Advances(sh) ==
    /\ \A other \in Shards : other # sh => run'[other] = run[other]
    /\ ShardAdvances(sh)
    /\ run'[sh] # Idle => Len(run'[sh].batch) > 0

LEMMA GoingOn ==
    ASSUME NEW sh \in Shards, \A other \in Shards : other # sh => run'[other] = run[other],
           run[sh] # Idle, Len(run[sh].batch) > 0, run'[sh] # Idle,
           RunAdvances(run[sh], run'[sh])
    PROVE  Advances(sh)
BY DEF Advances, ShardAdvances, RunAdvances

LEMMA ProceedAdvances ==
    ASSUME TypeOK, NEW sh \in Shards, NEW s \in Runs, Proceed(sh, s)
    PROVE  Within(run'[sh].keys, s.keys) \/ run'[sh].pc = "users"
<1>1. CASE run' = [run EXCEPT ![sh] =
             [s EXCEPT !.pc = "users",
                       !.users = {s.batch[i].user : i \in ItemsOf(s) \ s.failed}]]
  BY <1>1 DEF TypeOK, Runs
<1>2. ASSUME NEW i \in ItemsOf(s) \ s.failed, s.batch[i].topic \in s.keys,
             run' = [run EXCEPT ![sh] =
                [s EXCEPT !.pc = "read", !.attempt = 1, !.key = s.batch[i].topic,
                          !.keys = @ \ {s.batch[i].topic}]]
      PROVE  Within(run'[sh].keys, s.keys)
  <2>1. run'[sh].keys = s.keys \ {s.batch[i].topic}
    BY <1>2 DEF TypeOK, Runs
  <2> QED
    BY <1>2, <2>1 DEF Within
<1> QED
  BY <1>1, <1>2 DEF Proceed

LEMMA ProceedGoesOn ==
    ASSUME TypeOK, NEW sh \in Shards, run[sh] \in Runs, run[sh].pc # "users",
           Len(run[sh].batch) > 0,
           NEW s \in Runs, s.batch = run[sh].batch, s.keys = run[sh].keys, Proceed(sh, s)
    PROVE  Advances(sh)
<1>1. /\ run'[sh] \in Runs /\ run'[sh].batch = s.batch
      /\ \A other \in Shards : other # sh => run'[other] = run[other]
  BY ProceedLeaves
<1>2. Within(run'[sh].keys, s.keys) \/ run'[sh].pc = "users"
  BY ProceedAdvances
<1>3. RunAdvances(run[sh], run'[sh])
  BY <1>1, <1>2 DEF RunAdvances
<1> QED
  BY <1>1, <1>3, RunsAreBusy, GoingOn

LEMMA KeyErrorAdvances ==
    ASSUME TypeOK, NEW sh \in Shards, run[sh] \in Runs, run[sh].pc # "users",
           Len(run[sh].batch) > 0, KeyError(sh)
    PROVE  Advances(sh)
<1> DEFINE s == [run[sh] EXCEPT !.failed = @ \cup KeyItems(run[sh])]
<1>1. s \in Runs
  BY KeyItemsAreNat DEF Runs
<1>2. s.batch = run[sh].batch /\ s.keys = run[sh].keys
  BY DEF Runs
<1>3. Proceed(sh, s)
  BY DEF KeyError
<1> HIDE DEF s
<1> QED
  BY <1>1, <1>2, <1>3, ProceedGoesOn

LEMMA ReadLatestAdvances ==
    ASSUME TypeOK, BatchesHaveItems, NEW sh \in Shards, ReadLatest(sh)
    PROVE  Advances(sh)
<1> DEFINE s == run[sh]
           s2 == run'[sh]
<1>1. s.pc = "read"
  BY DEF ReadLatest
<1>2. s \in Runs /\ s # Idle /\ Len(s.batch) > 0
  BY <1>1, PcBusy, BusyRun DEF BatchesHaveItems
<1>3. \E seen, todo, pc :
         /\ pc \in {"insert", "stamp"}
         /\ run' = [run EXCEPT ![sh] = [s EXCEPT !.pc = pc, !.seen = seen, !.todo = todo]]
  <2>1. CASE run' = [run EXCEPT ![sh] = [s EXCEPT !.pc = "insert", !.seen = 0]]
    <3>1. [s EXCEPT !.pc = "insert", !.seen = 0]
             = [s EXCEPT !.pc = "insert", !.seen = 0, !.todo = s.todo]
      BY <1>2 DEF Runs
    <3> QED
      BY <2>1, <3>1
  <2>2. ASSUME NEW row \in getLatest(s.key),
               run' = [run EXCEPT ![sh] =
                  [s EXCEPT !.pc = IF mergeSchemas(row.schema, ObservedShape(s)) = row.schema
                                   THEN "stamp" ELSE "insert",
                            !.seen = row.version,
                            !.todo = IF mergeSchemas(row.schema, ObservedShape(s)) = row.schema
                                     THEN KeyItems(s) ELSE {}]]
        PROVE  \E seen, todo, pc :
                  /\ pc \in {"insert", "stamp"}
                  /\ run' = [run EXCEPT ![sh] =
                        [s EXCEPT !.pc = pc, !.seen = seen, !.todo = todo]]
    BY <2>2
  <2> QED
    BY <2>1, <2>2 DEF ReadLatest
<1>4. PICK seen, todo, pc :
         /\ pc \in {"insert", "stamp"}
         /\ run' = [run EXCEPT ![sh] = [s EXCEPT !.pc = pc, !.seen = seen, !.todo = todo]]
  BY <1>3
<1>5. /\ s2.batch = s.batch /\ s2.keys = s.keys /\ s2.key = s.key /\ s2.attempt = s.attempt
      /\ s2.pc \in {"insert", "stamp"}
      /\ s2 # Idle
      /\ \A other \in Shards : other # sh => run'[other] = run[other]
  BY <1>2, <1>4 DEF TypeOK, Runs, Idle
<1> HIDE DEF s, s2
<1>6. RunAdvances(s, s2)
  BY <1>1, <1>5 DEF RunAdvances
<1> QED
  BY <1>2, <1>5, <1>6, GoingOn DEF s, s2

LEMMA InsertVersionAdvances ==
    ASSUME TypeOK, BatchesHaveItems, NEW sh \in Shards, InsertVersion(sh)
    PROVE  Advances(sh)
<1> DEFINE s == run[sh]
           s2 == run'[sh]
<1>1. s.pc = "insert"
  BY DEF InsertVersion
<1>2. s \in Runs /\ s # Idle /\ Len(s.batch) > 0
  BY <1>1, PcBusy, BusyRun DEF BatchesHaveItems
<1>3. CASE KeyError(sh)
  BY <1>1, <1>2, <1>3, KeyErrorAdvances
<1>4. CASE run' = [run EXCEPT ![sh] = [s EXCEPT !.pc = "read", !.attempt = @ + 1]]
  <2>1. /\ s2.batch = s.batch /\ s2.keys = s.keys /\ s2.key = s.key
        /\ s2.attempt = s.attempt + 1
        /\ s2.pc = "read"
        /\ s2 # Idle
        /\ \A other \in Shards : other # sh => run'[other] = run[other]
    BY <1>2, <1>4 DEF TypeOK, Runs, Idle
  <2> HIDE DEF s, s2
  <2>2. RunAdvances(s, s2)
    BY <1>1, <2>1 DEF RunAdvances
  <2> QED
    BY <1>2, <2>1, <2>2, GoingOn DEF s, s2
<1>5. ASSUME NEW version,
             run' = [run EXCEPT ![sh] =
                [s EXCEPT !.pc = "stamp", !.seen = version, !.todo = KeyItems(s)]]
      PROVE  Advances(sh)
  <2>1. /\ s2.batch = s.batch /\ s2.keys = s.keys /\ s2.key = s.key
        /\ s2.attempt = s.attempt
        /\ s2.pc = "stamp"
        /\ s2 # Idle
        /\ \A other \in Shards : other # sh => run'[other] = run[other]
    BY <1>2, <1>5 DEF TypeOK, Runs, Idle
  <2> HIDE DEF s, s2
  <2>2. RunAdvances(s, s2)
    BY <1>1, <2>1 DEF RunAdvances
  <2> QED
    BY <1>2, <2>1, <2>2, GoingOn DEF s, s2
<1> QED
  BY <1>3, <1>4, <1>5 DEF InsertVersion

LEMMA StampAdvances ==
    ASSUME TypeOK, BatchesHaveItems, NEW sh \in Shards, Stamp(sh)
    PROVE  Advances(sh)
<1> DEFINE s == run[sh]
           s2 == run'[sh]
<1>1. s.pc = "stamp"
  BY DEF Stamp
<1>2. s \in Runs /\ s # Idle /\ Len(s.batch) > 0
  BY <1>1, PcBusy, BusyRun DEF BatchesHaveItems
<1>3. PICK i \in s.todo :
         IF s.todo = {i}
         THEN Proceed(sh, [s EXCEPT !.todo = {}])
         ELSE run' = [run EXCEPT ![sh].todo = @ \ {i}]
  BY DEF Stamp
<1>4. CASE s.todo = {i} /\ Proceed(sh, [s EXCEPT !.todo = {}])
  <2> DEFINE s1 == [s EXCEPT !.todo = {}]
  <2>1. s1 \in Runs /\ s1.batch = s.batch /\ s1.keys = s.keys
    BY <1>2 DEF Runs
  <2>2. Proceed(sh, s1)
    BY <1>4
  <2> HIDE DEF s1
  <2> QED
    BY <1>1, <1>2, <2>1, <2>2, ProceedGoesOn
<1>5. CASE run' = [run EXCEPT ![sh].todo = @ \ {i}]
  <2>1. /\ s2.batch = s.batch /\ s2.keys = s.keys /\ s2.key = s.key
        /\ s2.pc = s.pc
        /\ s2.todo = s.todo \ {i}
        /\ s2 # Idle
        /\ \A other \in Shards : other # sh => run'[other] = run[other]
    BY <1>2, <1>5 DEF TypeOK, Runs, Idle
  <2>2. Within(s2.todo, s.todo)
    BY <1>3, <2>1 DEF Within
  <2> HIDE DEF s, s2
  <2>3. RunAdvances(s, s2)
    BY <1>1, <2>1, <2>2 DEF RunAdvances
  <2> QED
    BY <1>2, <2>1, <2>3, GoingOn DEF s, s2
<1> QED
  BY <1>3, <1>4, <1>5

LEMMA UsersAdvance ==
    ASSUME TypeOK, BatchesHaveItems, NEW sh \in Shards, NEW u \in Users,
           MergeUser(sh, u) \/ UserFails(sh, u)
    PROVE  Advances(sh)
<1> DEFINE s == run[sh]
           s2 == run'[sh]
<1>1. s.pc = "users" /\ u \in s.users
  BY DEF MergeUser, UserFails
<1>2. s \in Runs /\ s # Idle /\ Len(s.batch) > 0
  BY <1>1, PcBusy, BusyRun DEF BatchesHaveItems
<1>3. /\ s2.batch = s.batch /\ s2.pc = "users" /\ s2.users = s.users \ {u}
      /\ s2 # Idle
      /\ \A other \in Shards : other # sh => run'[other] = run[other]
  <2>1. CASE MergeUser(sh, u)
    BY <1>1, <1>2, <2>1 DEF MergeUser, TypeOK, Runs, Idle
  <2>2. CASE UserFails(sh, u)
    <3>1. run' = [run EXCEPT ![sh] =
                [s EXCEPT !.users = @ \ {u}, !.failed = @ \cup UserItems(s, u)]]
      BY <2>2 DEF UserFails
    <3> QED
      BY <1>1, <1>2, <3>1 DEF TypeOK, Runs, Idle
  <2> QED
    BY <2>1, <2>2
<1>4. Within(s2.users, s.users)
  BY <1>1, <1>3 DEF Within
<1> HIDE DEF s, s2
<1>5. RunAdvances(s, s2)
  BY <1>1, <1>3, <1>4 DEF RunAdvances
<1> QED
  BY <1>2, <1>3, <1>5, GoingOn DEF s, s2

LEMMA StartBatchAdvances ==
    ASSUME TypeOK, NEW sh \in Shards, NEW n \in 1..BatchSize,
           NEW unread \in SUBSET (1..n), StartBatch(sh, n, unread)
    PROVE  Advances(sh)
<1>1. PICK s \in Runs : Proceed(sh, s) /\ Len(s.batch) = n
  BY StartedRun
<1>2. /\ run'[sh].batch = s.batch
      /\ \A other \in Shards : other # sh => run'[other] = run[other]
  BY <1>1, ProceedLeaves
<1>3. run[sh] = Idle
  BY DEF StartBatch
<1>4. n > 0
  BY Sizes
<1> QED
  BY <1>1, <1>2, <1>3, <1>4 DEF Advances, ShardAdvances

(* Records that are dropped leave the stream shorter.                      *)
LEMMA DropShortens ==
    ASSUME TypeOK, NEW sh \in Shards, NEW m \in Nat, m <= Len(stream[sh]),
           stream' = Drop(sh, m)
    PROVE  /\ m > 0 => Len(stream'[sh]) < Len(stream[sh])
           /\ m = 0 => stream'[sh] = stream[sh]
<1> DEFINE q == stream[sh]
           q2 == SubSeq(q, m + 1, Len(q))
<1>1. q \in Seq(Events) /\ Len(q) \in Nat
  BY StreamFields
<1>2. stream'[sh] = q2
  BY DEF Drop, TypeOK
<1>3. \A i \in (m + 1)..Len(q) : q[i] \in Events
  BY <1>1, ElementOfSeq
<1>4. Len(q2) = IF m + 1 <= Len(q) THEN Len(q) - (m + 1) + 1 ELSE 0
  BY <1>1, <1>3, SubSeqProperties
<1>5. m > 0 => Len(q2) < Len(q)
  <2> HIDE DEF q, q2
  <2> QED
    BY <1>1, <1>4 DEF q
<1>6. m = 0 => q2 = q
  BY <1>1
<1> QED
  BY <1>2, <1>5, <1>6

LEMMA EndAdvances ==
    ASSUME TypeOK, NEW sh \in Shards, run' = [run EXCEPT ![sh] = Idle], RunEnds(sh)
    PROVE  Advances(sh)
<1>1. /\ run'[sh] = Idle
      /\ \A other \in Shards : other # sh => run'[other] = run[other]
  BY DEF TypeOK
<1> QED
  BY <1>1 DEF Advances, ShardAdvances

LEMMA GiveBackAdvances ==
    ASSUME TypeOK, NEW sh \in Shards, run[sh] \in Runs, NEW first \in Nat \ {0},
           AtHead(stream[sh], run[sh]), first <= Len(run[sh].batch), GiveBack(sh, first)
    PROVE  Advances(sh)
<1> DEFINE n == Len(run[sh].batch)
<1>1. n \in Nat /\ n > 0 /\ n <= Len(stream[sh]) /\ Len(stream[sh]) \in Nat
  BY BatchFields, StreamFields DEF AtHead
<1>2. run' = [run EXCEPT ![sh] = Idle]
  BY DEF GiveBack
<1>3. CASE first = 1 /\ tries[sh] = RetryAttempts
  <2>1. stream' = Drop(sh, n)
    BY <1>3 DEF GiveBack
  <2>2. Len(stream'[sh]) < Len(stream[sh])
    BY <1>1, <2>1, DropShortens
  <2> QED
    BY <1>2, <2>2, EndAdvances DEF RunEnds
<1>4. CASE first = 1 /\ tries[sh] # RetryAttempts
  <2>1. stream' = Drop(sh, 0) /\ tries' = [tries EXCEPT ![sh] = tries[sh] + 1]
    BY <1>4 DEF GiveBack
  <2>2. stream'[sh] = stream[sh]
    BY <1>1, <2>1, DropShortens
  <2>3. tries'[sh] = tries[sh] + 1
    BY <2>1 DEF TypeOK
  <2> QED
    BY <1>2, <2>2, <2>3, EndAdvances DEF RunEnds
<1>5. CASE first # 1
  <2>1. stream' = Drop(sh, first - 1)
    BY <1>5 DEF GiveBack
  <2>2. first - 1 \in Nat /\ first - 1 > 0 /\ first - 1 <= Len(stream[sh])
    BY <1>1, <1>5
  <2>3. Len(stream'[sh]) < Len(stream[sh])
    BY <2>1, <2>2, DropShortens
  <2> QED
    BY <1>2, <2>3, EndAdvances DEF RunEnds
<1> QED
  BY <1>3, <1>4, <1>5

LEMMA ReturnAdvances ==
    ASSUME TypeOK, Pending, BatchesHaveItems, NEW sh \in Shards, Return(sh)
    PROVE  Advances(sh)
<1> DEFINE s == run[sh]
<1>1. s \in Runs /\ s # Idle
  BY PcBusy, BusyRun DEF Return
<1>2. AtHead(stream[sh], s)
  BY <1>1 DEF Pending, BatchAtHead
<1>3. CASE /\ stream' = Drop(sh, Len(s.batch))
           /\ run' = [run EXCEPT ![sh] = Idle]
  <2>1. Len(s.batch) \in Nat /\ Len(s.batch) > 0 /\ Len(s.batch) <= Len(stream[sh])
    BY <1>1, <1>2, BatchFields DEF AtHead, BatchesHaveItems
  <2>2. Len(stream'[sh]) < Len(stream[sh])
    BY <1>3, <2>1, DropShortens
  <2> QED
    BY <1>3, <2>2, EndAdvances DEF RunEnds
<1>4. ASSUME NEW first \in s.failed, GiveBack(sh, first)
      PROVE  Advances(sh)
  <2>1. first \in ItemsOf(s)
    BY <1>2, <1>4 DEF AtHead
  <2>2. first \in Nat \ {0} /\ first <= Len(s.batch)
    BY <1>1, <2>1, BatchFields
  <2> QED
    BY <1>1, <1>2, <1>4, <2>2, GiveBackAdvances
<1> QED
  BY <1>3, <1>4 DEF Return

LEMMA TimeoutAdvances ==
    ASSUME TypeOK, Pending, BatchesHaveItems, NEW sh \in Shards, Timeout(sh)
    PROVE  Advances(sh)
<1>1. run[sh] \in Runs /\ run[sh] # Idle
  BY BusyRun DEF Timeout
<1>2. AtHead(stream[sh], run[sh])
  BY <1>1 DEF Pending, BatchAtHead
<1>3. CASE GiveBack(sh, 1)
  <2>1. 1 \in Nat \ {0} /\ 1 <= Len(run[sh].batch)
    BY <1>1, BatchFields DEF BatchesHaveItems
  <2> QED
    BY <1>1, <1>2, <1>3, <2>1, GiveBackAdvances
<1>4. CASE Len(run[sh].batch) > 1 /\ Bisect(sh)
  BY <1>4, EndAdvances DEF Bisect, Timeout, RunEnds, source, polling
<1> QED
  BY <1>3, <1>4 DEF Timeout

LEMMA NextAdvances ==
    ASSUME TypeOK, Pending, BatchesHaveItems, [Next]_vars
    PROVE  BatchesHaveItems' /\ \A sh \in Shards : ShardAdvances(sh)
<1>1. CASE UNCHANGED run
  BY <1>1 DEF BatchesHaveItems, ShardAdvances
<1>2. ASSUME NEW sh \in Shards, Extract(sh) \/ Fail(sh)
      PROVE  Advances(sh)
  <2>1. ASSUME NEW n \in 1..BatchSize, StartBatch(sh, n, {}) PROVE Advances(sh)
    <3>1. {} \in SUBSET (1..n)
      OBVIOUS
    <3> QED
      BY <2>1, <3>1, StartBatchAdvances
  <2>2. ASSUME NEW n \in 1..BatchSize, NEW i \in 1..n, StartBatch(sh, n, {i})
        PROVE  Advances(sh)
    <3>1. {i} \in SUBSET (1..n)
      OBVIOUS
    <3> QED
      BY <2>2, <3>1, StartBatchAdvances
  <2>3. CASE KeyFails(sh)
    <3>1. run[sh] \in Runs /\ run[sh] # Idle /\ run[sh].pc # "users" /\ KeyError(sh)
      BY <2>3, PcBusy, BusyRun DEF KeyFails
    <3> QED
      BY <3>1, KeyErrorAdvances DEF BatchesHaveItems
  <2>4. CASE \E u \in Users : MergeUser(sh, u) \/ UserFails(sh, u)
    BY <2>4, UsersAdvance
  <2>5. CASE Return(sh) \/ Timeout(sh)
    BY <2>5, ReturnAdvances, TimeoutAdvances
  <2>6. CASE ReadLatest(sh) \/ InsertVersion(sh) \/ Stamp(sh)
    BY <2>6, ReadLatestAdvances, InsertVersionAdvances, StampAdvances
  <2> QED
    BY <1>2, <2>1, <2>2, <2>3, <2>4, <2>5, <2>6 DEF Extract, Fail
<1>3. ASSUME NEW sh \in Shards, Advances(sh)
      PROVE  BatchesHaveItems' /\ \A x \in Shards : ShardAdvances(x)
  BY <1>3 DEF Advances, ShardAdvances, BatchesHaveItems
<1>4. Call => UNCHANGED run
  BY DEF Call, Save, Update, Write, Delete
<1>5. UNCHANGED vars => UNCHANGED run
  BY DEF vars
<1> QED
  BY <1>1, <1>2, <1>3, <1>4, <1>5 DEF Next

(***************************************************************************)
(* The extractor ends: no step of a run goes back to a topic or a user it  *)
(* has left, a lost insert is tried MaxEvolveAttempts times at most, and   *)
(* no invocation ends for nothing: its shard is shorter, or the record at  *)
(* its head is one retry nearer to the failure queue, or a failed batch of *)
(* several records is cut in two.                                          *)
(***************************************************************************)
THEOREM RunsGoOn == Spec => RunsAdvance
<1>1. Init => BatchesHaveItems
  BY DEF Init, BatchesHaveItems
<1>2. TypeOK /\ Pending /\ BatchesHaveItems /\ [Next]_vars => BatchesHaveItems'
  BY NextAdvances
<1>3. TypeOK /\ Pending /\ BatchesHaveItems /\ [Next]_vars =>
        [\A sh \in Shards : ShardAdvances(sh)]_vars
  BY NextAdvances
<1> QED
  BY <1>1, <1>2, <1>3, TypeCorrect, EvaluationsWait, PTL DEF Spec, RunsAdvance

=============================================================================

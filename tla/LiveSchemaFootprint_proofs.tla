-------------------- MODULE LiveSchemaFootprint_proofs --------------------
(***************************************************************************)
(* The users' footprints: after all replays they are those of the last     *)
(* writes, and at any time they are within the schemas of their topics.    *)
(***************************************************************************)
EXTENDS LiveSchemaEvaluation_proofs

-----------------------------------------------------------------------------
(* The events of a key in a stream.                                        *)

LEMMA EventsInStream ==
    ASSUME NEW k, NEW q \in Seq(Events)
    PROVE  /\ EventsOf(k, q) \in SUBSET (Nat \ {0})
           /\ \A i \in EventsOf(k, q) : i \in 1..Len(q) /\ q[i].user = k[1]
           /\ \A i, j \in LastEvent(k, q) : i = j
<1>1. Len(q) \in Nat /\ DOMAIN q = 1..Len(q)
  BY LenProperties
<1>2. /\ EventsOf(k, q) \in SUBSET (Nat \ {0})
      /\ \A i \in EventsOf(k, q) : i \in 1..Len(q) /\ q[i].user = k[1]
  BY <1>1 DEF EventsOf, KeyOf
<1>3. ASSUME NEW i \in LastEvent(k, q), NEW j \in LastEvent(k, q) PROVE i = j
  <2>1. i <= j /\ j <= i /\ i \in Nat /\ j \in Nat
    BY <1>2 DEF LastEvent
  <2> QED
    BY <2>1
<1> QED
  BY <1>2, <1>3

LEMMA LastEventExists ==
    ASSUME NEW k, NEW q \in Seq(Events), EventsOf(k, q) # {}
    PROVE  LastEvent(k, q) # {}
<1>1. /\ EventsOf(k, q) \in SUBSET Nat
      /\ Len(q) \in Nat
      /\ \A i \in EventsOf(k, q) : i <= Len(q)
  BY EventsInStream, LenProperties
<1>2. PICK i \in EventsOf(k, q) : \A j \in EventsOf(k, q) : j <= i
  BY <1>1, GreatestNumber
<1> QED
  BY <1>2 DEF LastEvent

(* An event at the end is the last of its key and of no other.             *)
Appended(q, e, q2) ==
    /\ DOMAIN q2 = 1..(Len(q) + 1)
    /\ q2[Len(q) + 1] = e
    /\ \A i \in 1..Len(q) : q2[i] = q[i]

LEMMA AppendedEvents ==
    ASSUME NEW k, NEW q \in Seq(Events), NEW e, NEW q2,
           Appended(q, e, q2)
    PROVE  /\ EventsOf(k, q) \subseteq EventsOf(k, q2)
           /\ KeyOf(e) = k => Len(q) + 1 \in EventsOf(k, q2)
<1>1. Len(q) \in Nat /\ DOMAIN q = 1..Len(q)
  BY LenProperties
<1> QED
  BY <1>1 DEF EventsOf, Appended

LEMMA AppendedLast ==
    ASSUME NEW k, NEW q \in Seq(Events), NEW e, NEW q2,
           Appended(q, e, q2),
           NEW i \in LastEvent(k, q2), KeyOf(e) = k
    PROVE  q2[i] = e
<1>1. Len(q) \in Nat
  BY LenProperties
<1>2. i \in 1..(Len(q) + 1) /\ Len(q) + 1 <= i
  BY AppendedEvents DEF LastEvent, EventsOf, Appended
<1>3. i = Len(q) + 1
  BY <1>1, <1>2
<1> QED
  BY <1>3 DEF Appended

LEMMA AppendedBehind ==
    ASSUME NEW k, NEW q \in Seq(Events), NEW e, NEW q2,
           Appended(q, e, q2),
           NEW i \in LastEvent(k, q2), KeyOf(e) # k
    PROVE  i \in LastEvent(k, q) /\ q2[i] = q[i]
<1>1. Len(q) \in Nat /\ DOMAIN q = 1..Len(q)
  BY LenProperties
<1>2. i \in 1..(Len(q) + 1) /\ KeyOf(q2[i]) = k
  BY DEF LastEvent, EventsOf, Appended
<1>3. i \in 1..Len(q)
  BY <1>1, <1>2 DEF Appended
<1>4. q2[i] = q[i] /\ i \in EventsOf(k, q)
  BY <1>1, <1>2, <1>3 DEF EventsOf, Appended
<1>5. \A j \in EventsOf(k, q) : j <= i
  BY AppendedEvents DEF LastEvent
<1> QED
  BY <1>4, <1>5 DEF LastEvent

(* What is left of a stream keeps its events and their order.              *)
LEMMA DroppedEvents ==
    ASSUME TypeOK, NEW sh \in Shards, NEW m \in Nat, stream' = Drop(sh, m),
           m <= Len(stream[sh]), NEW k
    PROVE  /\ \A i \in DOMAIN stream'[sh] :
                 i + m \in DOMAIN stream[sh] /\ stream'[sh][i] = stream[sh][i + m]
           /\ \A i \in EventsOf(k, stream[sh]) : i <= m \/ EventsOf(k, stream'[sh]) # {}
           /\ \A i \in LastEvent(k, stream'[sh]) : i + m \in LastEvent(k, stream[sh])
<1> DEFINE q == stream[sh]
           q2 == SubSeq(q, m + 1, Len(q))
<1>1. q \in Seq(Events) /\ Len(q) \in Nat /\ DOMAIN q = 1..Len(q)
  BY StreamFields
<1>2. stream'[sh] = q2
  BY DEF Drop, TypeOK
<1>3. \A i \in m + 1 .. Len(q) : q[i] \in Events
  BY <1>1, ElementOfSeq
<1>4. /\ q2 \in Seq(Events)
      /\ Len(q2) = IF m + 1 <= Len(q) THEN Len(q) - (m + 1) + 1 ELSE 0
      /\ \A i \in 1 .. Len(q) - (m + 1) + 1 : q2[i] = q[m + 1 + i - 1]
  <2>1. m + 1 \in Int /\ Len(q) \in Int
    BY <1>1
  <2> HIDE DEF q
  <2> QED
    BY <1>3, <2>1, SubSeqProperties
<1>5. DOMAIN q2 = 1..Len(q2)
  BY <1>4, LenProperties
<1> HIDE DEF q, q2
<1>6. DOMAIN q2 = 1..(Len(q) - m)
  BY <1>1, <1>4, <1>5 DEF q
<1>7. \A i \in DOMAIN q2 : i + m \in DOMAIN q /\ q2[i] = q[i + m]
  <2>1. SUFFICES ASSUME NEW i \in DOMAIN q2 PROVE i + m \in DOMAIN q /\ q2[i] = q[i + m]
    OBVIOUS
  <2>2. i \in 1..(Len(q) - (m + 1) + 1) /\ m + 1 + i - 1 = i + m /\ i + m \in 1..Len(q)
    BY <1>1, <1>6
  <2> QED
    BY <1>1, <1>4, <2>2
<1>8. ASSUME NEW i \in EventsOf(k, q), ~(i <= m) PROVE i - m \in EventsOf(k, q2)
  <2>1. i \in 1..Len(q) /\ i - m \in DOMAIN q2 /\ i - m + m = i
    BY <1>1, <1>6, <1>8 DEF EventsOf
  <2>2. q2[i - m] = q[i]
    BY <1>7, <2>1
  <2> QED
    BY <1>8, <2>1, <2>2 DEF EventsOf
<1>9. ASSUME NEW i \in LastEvent(k, q2) PROVE i + m \in LastEvent(k, q)
  <2>1. i \in DOMAIN q2 /\ KeyOf(q2[i]) = k /\ \A j \in EventsOf(k, q2) : j <= i
    BY DEF LastEvent, EventsOf
  <2>2. i + m \in EventsOf(k, q)
    BY <1>7, <2>1 DEF EventsOf
  <2>3. ASSUME NEW j \in EventsOf(k, q) PROVE j <= i + m
    <3>1. j \in Nat /\ i \in Nat
      BY <1>1, <1>6, <2>1 DEF EventsOf
    <3>2. CASE j <= m
      BY <3>1, <3>2
    <3>3. CASE ~(j <= m)
      <4>1. j - m <= i
        BY <1>8, <2>1, <3>3
      <4> QED
        BY <3>1, <4>1
    <3> QED
      BY <3>2, <3>3
  <2> QED
    BY <2>2, <2>3 DEF LastEvent
<1> QED
  BY <1>2, <1>7, <1>8, <1>9 DEF q

-----------------------------------------------------------------------------
(* Footprints follow the writes.                                           *)

Followed ==
    /\ InOwnShard
    /\ ItemIsLast
    /\ EventIsLast
    /\ MergedAreLast
    /\ FootprintFollows

(* What MergedAreLast says of one run.                                     *)
MergedAreLastIn(s, F) ==
    s.pc = "users" =>
        \A k \in Keys :
            k[1] \notin s.users =>
                \A i \in LastItem(s, k[1], k[2]) :
                    F[k] = [fields |-> s.batch[i].stored.data]

(* All users are still to be merged when the topics are done.              *)
LEMMA ProceedMerges ==
    ASSUME TypeOK, NEW sh \in Shards, NEW s \in Runs, Proceed(sh, s), NEW F
    PROVE  MergedAreLastIn(run'[sh], F)
<1>1. CASE run' = [run EXCEPT ![sh] =
             [s EXCEPT !.pc = "users",
                       !.users = {s.batch[i].user : i \in ItemsOf(s) \ s.failed}]]
  <2>1. /\ run'[sh].batch = s.batch
        /\ run'[sh].failed = s.failed
        /\ run'[sh].users = {s.batch[i].user : i \in ItemsOf(s) \ s.failed}
    BY <1>1 DEF TypeOK, Runs
  <2>2. \A u, t : u \notin run'[sh].users => LastItem(run'[sh], u, t) = {}
    BY <2>1 DEF LastItem, UserItems, ItemsOf
  <2> QED
    BY <2>2 DEF MergedAreLastIn
<1>2. CASE ~(run' = [run EXCEPT ![sh] =
             [s EXCEPT !.pc = "users",
                       !.users = {s.batch[i].user : i \in ItemsOf(s) \ s.failed}]])
  <2>1. PICK i \in ItemsOf(s) \ s.failed :
           run' = [run EXCEPT ![sh] =
              [s EXCEPT !.pc = "read", !.attempt = 1, !.key = s.batch[i].topic,
                        !.keys = @ \ {s.batch[i].topic}]]
    BY <1>2 DEF Proceed
  <2>2. run'[sh].pc = "read"
    BY <2>1 DEF TypeOK, Runs
  <2> QED
    BY <2>2 DEF MergedAreLastIn
<1> QED
  BY <1>1, <1>2

(* A step of a run that neither writes, merges nor ends.                   *)
LEMMA StillFollowed ==
    ASSUME TypeOK, Followed, NEW sh \in Shards,
           UNCHANGED <<stream, lastWrite, failureQueue, footprint>>,
           \A k \in Keys :
              \/ table'[k] = Absent
              \/ table[k] # Absent /\ table'[k].stored = table[k].stored,
           \A other \in Shards : other # sh => run'[other] = run[other],
           MergedAreLastIn(run'[sh], footprint)
    PROVE  Followed'
<1>1. InOwnShard' /\ EventIsLast' /\ FootprintFollows'
  BY DEF Followed, InOwnShard, EventIsLast, FootprintFollows
<1>2. ItemIsLast'
  BY DEF Followed, ItemIsLast
<1>3. MergedAreLast'
  <2>1. ASSUME NEW other \in Shards PROVE MergedAreLastIn(run'[other], footprint')
    <3>1. CASE other = sh
      BY <3>1
    <3>2. CASE other # sh
      BY <3>2 DEF Followed, MergedAreLast, MergedAreLastIn
    <3> QED
      BY <3>1, <3>2
  <2> QED
    BY <2>1 DEF MergedAreLast, MergedAreLastIn, LastItem, UserItems, ItemsOf
<1> QED
  BY <1>1, <1>2, <1>3 DEF Followed

(* A stamp leaves the data alone.                                          *)
LEMMA StampedData ==
    ASSUME TypeOK, NEW s \in Runs, NEW i \in ItemsOf(s),
           table' = table \/ stamp(s.batch[i], s.seen), NEW k \in Keys
    PROVE  \/ table'[k] = Absent
           \/ table[k] # Absent /\ table'[k].stored = table[k].stored
<1> DEFINE e == s.batch[i]
           item == table[KeyOf(e)]
<1>1. CASE table' = table
  BY <1>1
<1>2. CASE /\ item # Absent
           /\ table' = [table EXCEPT ![KeyOf(e)] =
                          [item EXCEPT !.version = s.seen, !.flag = FALSE]]
  <2>1. KeyOf(e) \in Keys
    BY ItemFields DEF KeyOf, Keys
  <2>2. CASE k = KeyOf(e)
    <3>1. item \in Items
      BY <1>2, <2>1 DEF TypeOK
    <3>2. table'[k] = [item EXCEPT !.version = s.seen, !.flag = FALSE]
      BY <1>2, <2>1, <2>2 DEF TypeOK
    <3> QED
      BY <1>2, <2>2, <3>1, <3>2 DEF Items
  <2>3. CASE k # KeyOf(e)
    BY <1>2, <2>1, <2>3 DEF TypeOK
  <2> QED
    BY <2>2, <2>3
<1> QED
  BY <1>1, <1>2 DEF stamp

LEMMA KeyErrorFollowed ==
    ASSUME TypeOK, NEW sh \in Shards, run[sh] \in Runs, KeyError(sh), NEW F
    PROVE  MergedAreLastIn(run'[sh], F)
<1> DEFINE s1 == [run[sh] EXCEPT !.failed = @ \cup KeyItems(run[sh])]
<1>1. KeyItems(run[sh]) \in SUBSET (Nat \ {0})
  BY KeyItemsAreNat
<1>2. s1 \in Runs
  BY <1>1 DEF Runs
<1>3. Proceed(sh, s1)
  BY DEF KeyError
<1> HIDE DEF s1
<1> QED
  BY <1>2, <1>3, ProceedMerges

LEMMA NoUsersYet ==
    ASSUME NEW s, s.pc # "users", NEW F
    PROVE  MergedAreLastIn(s, F)
BY DEF MergedAreLastIn

(* What evolve leaves of a run that goes on with its topic.                *)
LEMMA ReadRun ==
    ASSUME TypeOK, NEW sh \in Shards, ReadLatest(sh)
    PROVE  /\ run'[sh].batch = run[sh].batch /\ run'[sh].failed = run[sh].failed
           /\ run'[sh].keys = run[sh].keys /\ run'[sh].key = run[sh].key
           /\ run'[sh].pc \in {"insert", "stamp"}
           /\ run'[sh].pc = "stamp" =>
                 \E row \in rows :
                    /\ row.topic = run[sh].key
                    /\ mergeSchemas(row.schema, ObservedShape(run[sh])) = row.schema
           /\ \A other \in Shards : other # sh => run'[other] = run[other]
<1> DEFINE s == run[sh]
<1>1. s \in Runs
  <2>1. run[sh].pc = "read"
    BY DEF ReadLatest
  <2> QED
    BY <2>1, PcBusy, BusyRun
<1>2. CASE run' = [run EXCEPT ![sh] = [s EXCEPT !.pc = "insert", !.seen = 0]]
  BY <1>1, <1>2 DEF TypeOK, Runs
<1>3. CASE \E row \in getLatest(s.key) :
             LET same == mergeSchemas(row.schema, ObservedShape(s)) = row.schema
             IN  run' = [run EXCEPT ![sh] =
                    [s EXCEPT !.pc = IF same THEN "stamp" ELSE "insert",
                              !.seen = row.version,
                              !.todo = IF same THEN KeyItems(s) ELSE {}]]
  <2> DEFINE same(row) == mergeSchemas(row.schema, ObservedShape(s)) = row.schema
             next(row, pc, todo) == [s EXCEPT !.pc = pc, !.seen = row.version, !.todo = todo]
  <2>1. PICK row \in getLatest(s.key), pc \in {"stamp", "insert"},
             todo \in {{}, KeyItems(s)} :
           /\ pc = "stamp" => same(row)
           /\ run' = [run EXCEPT ![sh] = next(row, pc, todo)]
    <3>1. PICK row \in getLatest(s.key) :
             run' = [run EXCEPT ![sh] = next(row, IF same(row) THEN "stamp" ELSE "insert",
                                             IF same(row) THEN KeyItems(s) ELSE {})]
      BY <1>3
    <3> HIDE DEF next
    <3>2. CASE same(row)
      BY <3>1, <3>2
    <3>3. CASE ~same(row)
      <4>1. run' = [run EXCEPT ![sh] = next(row, "insert", {})]
        BY <3>1, <3>3
      <4> QED
        BY <3>3, <4>1
    <3> QED
      BY <3>2, <3>3
  <2>2. row \in rows /\ row.topic = s.key
    BY <2>1 DEF getLatest
  <2>3. /\ run'[sh] = [s EXCEPT !.pc = pc, !.seen = row.version, !.todo = todo]
        /\ \A other \in Shards : other # sh => run'[other] = run[other]
    BY <2>1 DEF TypeOK
  <2>4. /\ run'[sh].batch = s.batch /\ run'[sh].failed = s.failed
        /\ run'[sh].keys = s.keys /\ run'[sh].key = s.key
        /\ run'[sh].pc = pc
    BY <1>1, <2>3 DEF Runs
  <2> QED
    BY <2>1, <2>2, <2>3, <2>4
<1> QED
  BY <1>2, <1>3 DEF ReadLatest

LEMMA InsertRun ==
    ASSUME TypeOK, NEW sh \in Shards, InsertVersion(sh), ~KeyError(sh)
    PROVE  /\ run'[sh].batch = run[sh].batch /\ run'[sh].failed = run[sh].failed
           /\ run'[sh].keys = run[sh].keys /\ run'[sh].key = run[sh].key
           /\ run'[sh].pc \in {"read", "stamp"}
           /\ run'[sh].pc = "stamp" =>
                 \E row \in rows' :
                    row.topic = run[sh].key /\ row.schema = Merged(run[sh])
           /\ \A other \in Shards : other # sh => run'[other] = run[other]
<1> DEFINE s == run[sh]
<1>1. s \in Runs
  BY PcBusy, BusyRun DEF InsertVersion
<1>2. CASE run' = [run EXCEPT ![sh] = [s EXCEPT !.pc = "read", !.attempt = @ + 1]]
  BY <1>1, <1>2 DEF TypeOK, Runs
<1>3. ASSUME NEW version,
             rows' = rows \cup {[topic |-> s.key, version |-> version, schema |-> Merged(s)]},
             run' = [run EXCEPT ![sh] =
                [s EXCEPT !.pc = "stamp", !.seen = version, !.todo = KeyItems(s)]]
      PROVE  /\ run'[sh].batch = s.batch /\ run'[sh].failed = s.failed
             /\ run'[sh].keys = s.keys /\ run'[sh].key = s.key
             /\ run'[sh].pc = "stamp"
             /\ \E row \in rows' : row.topic = s.key /\ row.schema = Merged(s)
             /\ \A other \in Shards : other # sh => run'[other] = run[other]
  <2> DEFINE new == [topic |-> s.key, version |-> version, schema |-> Merged(s)]
  <2>1. \E row \in rows' : row.topic = s.key /\ row.schema = Merged(s)
    <3>1. new \in rows' /\ new.topic = s.key /\ new.schema = Merged(s)
      BY <1>3
    <3> HIDE DEF new
    <3> QED
      BY <3>1
  <2>2. /\ run'[sh] = [s EXCEPT !.pc = "stamp", !.seen = version, !.todo = KeyItems(s)]
        /\ \A other \in Shards : other # sh => run'[other] = run[other]
    BY <1>3 DEF TypeOK
  <2> QED
    BY <1>1, <2>1, <2>2 DEF Runs
<1> QED
  BY <1>2, <1>3 DEF InsertVersion

LEMMA EvolveFollowed ==
    ASSUME TypeOK, Followed, NEW sh \in Shards, ReadLatest(sh) \/ InsertVersion(sh)
    PROVE  Followed'
<1> DEFINE s == run[sh]
<1>1. s \in Runs
  <2>1. run[sh].pc \in {"read", "insert"}
    BY DEF ReadLatest, InsertVersion
  <2> QED
    BY <2>1, PcBusy, BusyRun
<1>2. UNCHANGED <<table, stream, lastWrite, failureQueue, footprint>>
  BY DEF ReadLatest, InsertVersion, source, polling, dsql
<1>4. /\ MergedAreLastIn(run'[sh], footprint)
      /\ \A other \in Shards : other # sh => run'[other] = run[other]
  <2>1. CASE KeyError(sh)
    BY <1>1, <2>1, KeyErrorFollowed, KeyErrorKeeps
  <2>2. CASE ReadLatest(sh)
    <3>1. /\ run'[sh].pc \in {"insert", "stamp"}
          /\ \A other \in Shards : other # sh => run'[other] = run[other]
      BY <2>2, ReadRun
    <3> QED
      BY <3>1, NoUsersYet
  <2>3. CASE InsertVersion(sh) /\ ~KeyError(sh)
    <3>1. /\ run'[sh].pc \in {"read", "stamp"}
          /\ \A other \in Shards : other # sh => run'[other] = run[other]
      BY <2>3, InsertRun
    <3> QED
      BY <3>1, NoUsersYet
  <2> QED
    BY <2>1, <2>2, <2>3
<1> QED
  BY <1>2, <1>4, StillFollowed

LEMMA StampFollowed ==
    ASSUME TypeOK, Pending, Followed, NEW sh \in Shards, Stamp(sh) \/ KeyFails(sh)
    PROVE  Followed'
<1> DEFINE s == run[sh]
<1>1. s \in Runs
  BY PcBusy, BusyRun DEF Stamp, KeyFails
<1>2. UNCHANGED <<stream, lastWrite, failureQueue, footprint>>
  BY DEF Stamp, KeyFails, polling, dsql
<1>3. s.pc = "stamp" => s.todo \subseteq ItemsOf(s)
  BY <1>1, RunsAreBusy DEF Pending, BatchAtHead, AtHead, KeyItems
<1>4. table' = table \/ \E i \in ItemsOf(s) : stamp(s.batch[i], s.seen)
  BY <1>3 DEF Stamp, KeyFails
<1>5. \A k \in Keys : \/ table'[k] = Absent
                      \/ table[k] # Absent /\ table'[k].stored = table[k].stored
  BY <1>1, <1>4, StampedData
<1>6. /\ MergedAreLastIn(run'[sh], footprint)
      /\ \A other \in Shards : other # sh => run'[other] = run[other]
  <2>1. CASE KeyFails(sh)
    BY <1>1, <2>1, KeyErrorFollowed, KeyErrorKeeps DEF KeyFails
  <2>2. CASE Proceed(sh, [s EXCEPT !.todo = {}])
    <3>1. [s EXCEPT !.todo = {}] \in Runs
      BY <1>1 DEF Runs
    <3> QED
      BY <2>2, <3>1, ProceedMerges, ProceedKeeps
  <2>3. ASSUME s.pc = "stamp", NEW i, run' = [run EXCEPT ![sh].todo = @ \ {i}]
        PROVE  /\ MergedAreLastIn(run'[sh], footprint)
               /\ \A other \in Shards : other # sh => run'[other] = run[other]
    <3>1. /\ run'[sh].pc = "stamp"
          /\ \A other \in Shards : other # sh => run'[other] = run[other]
      BY <1>1, <2>3 DEF TypeOK, Runs
    <3> QED
      BY <3>1, NoUsersYet
  <2> QED
    BY <2>1, <2>2, <2>3 DEF Stamp
<1> QED
  BY <1>2, <1>5, <1>6, StillFollowed

LEMMA StartFollowed ==
    ASSUME TypeOK, Followed, NEW sh \in Shards, NEW n \in 1..BatchSize,
           NEW unread \in SUBSET (1..n), StartBatch(sh, n, unread)
    PROVE  Followed'
<1>1. PICK s \in Runs : Proceed(sh, s)
  BY StartedRun
<1>2. /\ MergedAreLastIn(run'[sh], footprint)
      /\ \A other \in Shards : other # sh => run'[other] = run[other]
  BY <1>1, ProceedMerges, ProceedKeeps
<1>3. UNCHANGED <<table, stream, lastWrite, failureQueue, footprint>>
  BY DEF StartBatch, source, polling, dsql
<1> QED
  BY <1>2, <1>3, StillFollowed

(* The items of a batch are of users of the shard.                         *)
LEMMA ItemsInShard ==
    ASSUME TypeOK, Pending, InOwnShard, NEW sh \in Shards, run[sh] \in Runs,
           NEW i \in ItemsOf(run[sh])
    PROVE  /\ i \in DOMAIN stream[sh] /\ stream[sh][i] = run[sh].batch[i]
           /\ ShardOf[run[sh].batch[i].user] = sh
<1>1. AtHead(stream[sh], run[sh])
  BY RunsAreBusy DEF Pending, BatchAtHead
<1>2. i \in 1..Len(run[sh].batch) /\ Len(run[sh].batch) \in Nat
  BY BatchFields
<1>3. i \in DOMAIN stream[sh] /\ stream[sh][i] = run[sh].batch[i]
  BY <1>1, <1>2, StreamFields DEF AtHead
<1> QED
  BY <1>3 DEF InOwnShard

LEMMA LastItemFields ==
    ASSUME NEW s, NEW u, NEW t, NEW i \in LastItem(s, u, t)
    PROVE  /\ i \in ItemsOf(s) \ s.failed
           /\ s.batch[i].user = u /\ s.batch[i].topic = t
BY DEF LastItem, UserItems

(* What the upsert of a user does to a footprint.                          *)
LEMMA MergedTopics ==
    ASSUME NEW s \in Runs, NEW u, mergeTopics(s, u), NEW k \in Keys
    PROVE  /\ k[1] # u \/ LastItem(s, u, k[2]) = {} => footprint'[k] = footprint[k]
           /\ k[1] = u => \A i \in LastItem(s, u, k[2]) :
                             footprint'[k] = [fields |-> s.batch[i].stored.data]
<1>1. ASSUME NEW i \in LastItem(s, u, k[2]), NEW j \in LastItem(s, u, k[2])
      PROVE  i = j
  <2>1. i \in Nat /\ j \in Nat
    BY LastItemFields, ItemsAreNat
  <2>2. i <= j /\ j <= i
    BY DEF LastItem
  <2> QED
    BY <2>1, <2>2
<1>2. footprint'[k] =
        IF k[1] = u /\ LastItem(s, u, k[2]) # {}
        THEN [fields |-> s.batch[CHOOSE i \in LastItem(s, u, k[2]) : TRUE].stored.data]
        ELSE footprint[k]
  BY DEF mergeTopics
<1>3. ASSUME NEW i \in LastItem(s, u, k[2])
      PROVE  (CHOOSE j \in LastItem(s, u, k[2]) : TRUE) = i
  BY <1>1
<1> QED
  BY <1>2, <1>3

LEMMA UsersFollowed ==
    ASSUME TypeOK, Pending, Followed, NEW sh \in Shards, NEW u \in Users,
           MergeUser(sh, u) \/ UserFails(sh, u)
    PROVE  Followed'
<1> DEFINE s == run[sh]
           s2 == run'[sh]
<1>1. s \in Runs /\ s.pc = "users"
  BY PcBusy, BusyRun DEF MergeUser, UserFails
<1>2. UNCHANGED <<table, stream, lastWrite, failureQueue>>
  BY DEF MergeUser, UserFails, source, polling
<1>3. UNCHANGED footprint \/ mergeTopics(s, u)
  BY DEF MergeUser, UserFails
<1>4. ASSUME NEW k \in Keys, footprint'[k] # footprint[k]
      PROVE  k[1] = u /\ \E i \in LastItem(s, k[1], k[2]) : i \in ItemsOf(s)
  BY <1>1, <1>3, <1>4, MergedTopics, LastItemFields
<1>5. ASSUME NEW k \in Keys, footprint'[k] # footprint[k]
      PROVE  ShardOf[k[1]] = sh /\ EventsOf(k, stream[sh]) # {}
  <2>1. PICK i \in LastItem(s, k[1], k[2]) : i \in ItemsOf(s)
    BY <1>4, <1>5
  <2>2. /\ i \in DOMAIN stream[sh] /\ stream[sh][i] = s.batch[i]
        /\ ShardOf[s.batch[i].user] = sh
    BY <1>1, <2>1, ItemsInShard DEF Followed
  <2>3. KeyOf(stream[sh][i]) = k
    BY <2>1, <2>2, LastItemFields DEF KeyOf, Keys
  <2> QED
    BY <2>1, <2>2, <2>3, LastItemFields DEF EventsOf
<1>6. /\ s2.pc = "users" /\ s2.batch = s.batch /\ s2.users = s.users \ {u}
      /\ \/ s2.failed = s.failed /\ mergeTopics(s, u)
         \/ s2.failed = s.failed \cup UserItems(s, u)
      /\ \A other \in Shards : other # sh => run'[other] = run[other]
  <2>1. CASE MergeUser(sh, u)
    BY <1>1, <2>1 DEF MergeUser, TypeOK, Runs
  <2>2. CASE UserFails(sh, u)
    <3>1. run' = [run EXCEPT ![sh] =
                [s EXCEPT !.users = @ \ {u}, !.failed = @ \cup UserItems(s, u)]]
      BY <2>2 DEF UserFails
    <3> QED
      BY <1>1, <3>1 DEF TypeOK, Runs
  <2> QED
    BY <2>1, <2>2
<1>7. MergedAreLastIn(s2, footprint')
  <2>1. SUFFICES ASSUME NEW k \in Keys, k[1] \notin s2.users,
                        NEW i \in LastItem(s2, k[1], k[2])
                 PROVE  footprint'[k] = [fields |-> s2.batch[i].stored.data]
    BY DEF MergedAreLastIn
  <2>2. CASE k[1] = u
    <3>1. s2.failed = s.failed /\ mergeTopics(s, u)
      <4>1. i \notin s2.failed /\ i \in ItemsOf(s) /\ s.batch[i].user = u
        BY <1>6, <2>2, LastItemFields DEF ItemsOf
      <4> QED
        BY <1>6, <4>1 DEF UserItems
    <3>2. i \in LastItem(s, u, k[2])
      BY <1>6, <2>2, <3>1 DEF LastItem, UserItems, ItemsOf
    <3> QED
      BY <1>1, <1>6, <2>2, <3>1, <3>2, MergedTopics
  <2>3. CASE k[1] # u
    <3>1. UserItems(s2, k[1]) = UserItems(s, k[1])
      BY <1>6, <2>3 DEF UserItems, ItemsOf
    <3>2. i \in LastItem(s, k[1], k[2])
      BY <1>6, <3>1 DEF LastItem
    <3>3. footprint[k] = [fields |-> s.batch[i].stored.data]
      BY <1>1, <1>6, <2>1, <2>3, <3>2 DEF Followed, MergedAreLast
    <3> QED
      BY <1>4, <1>6, <2>3, <3>3
  <2> QED
    BY <2>2, <2>3
<1>8. ASSUME NEW other \in Shards, other # sh
      PROVE  MergedAreLastIn(run'[other], footprint')
  <2>1. SUFFICES ASSUME run[other].pc = "users", NEW k \in Keys,
                        k[1] \notin run[other].users,
                        NEW i \in LastItem(run[other], k[1], k[2])
                 PROVE  footprint'[k] = [fields |-> run[other].batch[i].stored.data]
    BY <1>6, <1>8 DEF MergedAreLastIn
  <2>2. footprint[k] = [fields |-> run[other].batch[i].stored.data]
    BY <2>1 DEF Followed, MergedAreLast
  <2>3. ShardOf[k[1]] = other
    <3>1. run[other] \in Runs
      BY <2>1, PcBusy, BusyRun
    <3> QED
      BY <3>1, LastItemFields, ItemsInShard DEF Followed
  <2> QED
    BY <1>5, <1>8, <2>2, <2>3
<1>9. MergedAreLast'
  <2>1. \A any \in Shards : MergedAreLastIn(run'[any], footprint')
    BY <1>7, <1>8
  <2> QED
    BY <2>1 DEF MergedAreLast, MergedAreLastIn, LastItem, UserItems, ItemsOf
<1>10. FootprintFollows'
  <2>1. ASSUME NEW k \in Keys
        PROVE  \/ \E event \in failureQueue' : event.user = k[1]
               \/ EventsOf(k, stream'[ShardOf[k[1]]]) # {}
               \/ footprint'[k] = lastWrite'[k]
    <3>1. CASE footprint'[k] = footprint[k]
      BY <1>2, <3>1 DEF Followed, FootprintFollows
    <3>2. CASE footprint'[k] # footprint[k]
      BY <1>2, <1>5, <3>2
    <3> QED
      BY <3>1, <3>2
  <2> QED
    BY <2>1 DEF FootprintFollows, EventsOf
<1>11. InOwnShard' /\ ItemIsLast' /\ EventIsLast'
  BY <1>2 DEF Followed, InOwnShard, ItemIsLast, EventIsLast
<1> QED
  BY <1>9, <1>10, <1>11 DEF Followed

(* A run ends and m events leave the stream: those of each key are in its  *)
(* footprint, or were given up.                                            *)
LEMMA EndFollowed ==
    ASSUME TypeOK, Followed, NEW sh \in Shards, NEW m \in Nat, m <= Len(stream[sh]),
           stream' = Drop(sh, m), run' = [run EXCEPT ![sh] = Idle],
           UNCHANGED <<table, lastWrite, footprint>>, failureQueue \subseteq failureQueue',
           \A k \in Keys : \A i \in LastEvent(k, stream[sh]) :
              \/ i > m
              \/ \E event \in failureQueue' : event.user = k[1]
              \/ footprint[k] = [fields |-> stream[sh][i].stored.data]
    PROVE  Followed'
<1>1. /\ run'[sh] = Idle
      /\ \A other \in Shards : other # sh => run'[other] = run[other]
  BY DEF TypeOK
<1>2. \A other \in Shards : other # sh => stream'[other] = stream[other]
  BY OtherStreams
<1>3. MergedAreLast'
  BY <1>1 DEF Followed, MergedAreLast, Idle, LastItem, UserItems, ItemsOf
<1>4. ItemIsLast'
  BY DEF Followed, ItemIsLast
<1>5. ASSUME NEW other \in Shards, NEW i \in DOMAIN stream'[other]
      PROVE  ShardOf[stream'[other][i].user] = other
  <2>1. CASE other = sh
    <3>1. i + m \in DOMAIN stream[sh] /\ stream'[sh][i] = stream[sh][i + m]
      BY <1>5, <2>1, DroppedEvents
    <3> QED
      BY <2>1, <3>1 DEF Followed, InOwnShard
  <2>2. CASE other # sh
    BY <1>2, <1>5, <2>2 DEF Followed, InOwnShard
  <2> QED
    BY <2>1, <2>2
<1>6. InOwnShard'
  BY <1>5 DEF InOwnShard
<1>7. ASSUME NEW k \in Keys, NEW i \in LastEvent(k, stream'[ShardOf[k[1]]])
      PROVE  lastWrite[k] = [fields |-> stream'[ShardOf[k[1]]][i].stored.data]
  <2>1. CASE ShardOf[k[1]] = sh
    <3>1. i + m \in LastEvent(k, stream[sh]) /\ stream'[sh][i] = stream[sh][i + m]
      <4>1. i \in DOMAIN stream'[sh]
        BY <1>7, <2>1 DEF LastEvent, EventsOf
      <4> QED
        BY <1>7, <2>1, <4>1, DroppedEvents
    <3> QED
      BY <2>1, <3>1 DEF Followed, EventIsLast
  <2>2. CASE ShardOf[k[1]] # sh
    <3>1. stream'[ShardOf[k[1]]] = stream[ShardOf[k[1]]]
      BY <1>2, <2>2, KeyHasShard
    <3> QED
      BY <1>7, <3>1 DEF Followed, EventIsLast
  <2> QED
    BY <2>1, <2>2
<1>8. EventIsLast'
  BY <1>7 DEF EventIsLast, LastEvent, EventsOf
<1>9. ASSUME NEW k \in Keys, \A event \in failureQueue' : event.user # k[1],
             EventsOf(k, stream'[ShardOf[k[1]]]) = {}
      PROVE  footprint[k] = lastWrite[k]
  <2>1. \A event \in failureQueue : event.user # k[1]
    BY <1>9
  <2>2. CASE EventsOf(k, stream[ShardOf[k[1]]]) = {}
    BY <2>1, <2>2 DEF Followed, FootprintFollows
  <2>3. CASE EventsOf(k, stream[ShardOf[k[1]]]) # {}
    <3>1. ShardOf[k[1]] = sh
      BY <1>2, <1>9, <2>3, KeyHasShard
    <3>2. PICK i \in LastEvent(k, stream[sh]) : TRUE
      BY <2>3, <3>1, StreamFields, LastEventExists
    <3>3. i <= m /\ ~(i > m)
      <4>1. i \in EventsOf(k, stream[sh]) /\ i \in Nat
        BY <3>2, StreamFields, EventsInStream DEF LastEvent
      <4>2. EventsOf(k, stream'[sh]) = {}
        BY <1>9, <3>1
      <4>3. \A j \in EventsOf(k, stream[sh]) : j <= m \/ EventsOf(k, stream'[sh]) # {}
        BY DroppedEvents
      <4>4. i <= m
        BY <4>1, <4>2, <4>3
      <4> QED
        BY <4>1, <4>4
    <3>4. footprint[k] = [fields |-> stream[sh][i].stored.data]
      BY <1>9, <3>2, <3>3
    <3>5. lastWrite[k] = [fields |-> stream[sh][i].stored.data]
      BY <3>1, <3>2 DEF Followed, EventIsLast
    <3> QED
      BY <3>4, <3>5
  <2> QED
    BY <2>2, <2>3
<1>10. FootprintFollows'
  BY <1>9 DEF FootprintFollows, EventsOf
<1> QED
  BY <1>3, <1>4, <1>6, <1>8, <1>10 DEF Followed

(* The last event of a key, in a batch all of whose users were merged.     *)
LEMMA LastIsMerged ==
    ASSUME TypeOK, Pending, Followed, NEW sh \in Shards, run[sh] \in Runs,
           run[sh].pc = "users", run[sh].users = {},
           NEW k \in Keys, NEW i \in LastEvent(k, stream[sh]),
           i \in ItemsOf(run[sh]) \ run[sh].failed
    PROVE  footprint[k] = [fields |-> stream[sh][i].stored.data]
<1> DEFINE s == run[sh]
<1>1. ASSUME NEW j \in ItemsOf(s), s.batch[j].user = k[1], s.batch[j].topic = k[2]
      PROVE  j <= i
  <2>1. j \in DOMAIN stream[sh] /\ stream[sh][j] = s.batch[j]
    BY ItemsInShard DEF Followed
  <2>2. KeyOf(stream[sh][j]) = k
    BY <1>1, <2>1 DEF KeyOf, Keys
  <2> QED
    BY <2>1, <2>2 DEF LastEvent, EventsOf
<1>2. stream[sh][i] = s.batch[i] /\ KeyOf(stream[sh][i]) = k
  BY ItemsInShard DEF Followed, LastEvent, EventsOf
<1>3. i \in LastItem(s, k[1], k[2])
  BY <1>1, <1>2 DEF LastItem, UserItems, KeyOf
<1> QED
  BY <1>2, <1>3 DEF Followed, MergedAreLast

LEMMA GiveBackFollowed ==
    ASSUME TypeOK, Pending, Followed, NEW sh \in Shards, run[sh] \in Runs, NEW first,
           \/ first = 1
           \/ /\ run[sh].pc = "users" /\ run[sh].users = {}
              /\ first \in run[sh].failed
              /\ \A i \in run[sh].failed : first <= i,
           GiveBack(sh, first)
    PROVE  Followed'
<1> DEFINE s == run[sh]
           n == Len(s.batch)
<1>1. AtHead(stream[sh], s)
  BY RunsAreBusy DEF Pending, BatchAtHead
<1>2. n \in Nat /\ ItemsOf(s) = 1..n /\ n <= Len(stream[sh]) /\ Len(stream[sh]) \in Nat
  BY <1>1, BatchFields, StreamFields DEF AtHead
<1>3. UNCHANGED <<table, lastWrite, footprint>> /\ run' = [run EXCEPT ![sh] = Idle]
  BY DEF GiveBack, dsql
<1>4. ASSUME NEW k \in Keys, NEW i \in LastEvent(k, stream[sh])
      PROVE  i \in Nat \ {0} /\ stream[sh][i].user = k[1] /\ KeyOf(stream[sh][i]) = k
  BY StreamFields, EventsInStream DEF LastEvent, EventsOf
<1>5. CASE first = 1 /\ tries[sh] = RetryAttempts
  <2>1. stream' = Drop(sh, n) /\ failureQueue' = failureQueue \cup {s.batch[i] : i \in ItemsOf(s)}
    BY <1>5 DEF GiveBack
  <2>2. ASSUME NEW k \in Keys, NEW i \in LastEvent(k, stream[sh]), ~(i > n)
        PROVE  \E event \in failureQueue' : event.user = k[1]
    <3>1. i \in ItemsOf(s)
      BY <1>2, <1>4, <2>2
    <3>2. s.batch[i].user = k[1]
      BY <1>1, <1>4, <2>2, <3>1 DEF AtHead
    <3> QED
      BY <2>1, <3>1, <3>2
  <2> QED
    BY <1>2, <1>3, <2>1, <2>2, EndFollowed
<1>6. CASE ~(first = 1 /\ tries[sh] = RetryAttempts)
  <2>1. stream' = Drop(sh, first - 1) /\ UNCHANGED failureQueue
    BY <1>6 DEF GiveBack
  <2>2. first - 1 \in Nat /\ first - 1 <= Len(stream[sh])
    BY <1>1, <1>2 DEF AtHead
  <2>3. ASSUME NEW k \in Keys, NEW i \in LastEvent(k, stream[sh]), ~(i > first - 1)
        PROVE  footprint[k] = [fields |-> stream[sh][i].stored.data]
    <3>1. first # 1
      BY <1>4, <2>3
    <3>2. /\ s.pc = "users" /\ s.users = {}
          /\ first \in 1..n
          /\ \A j \in s.failed : first <= j
      BY <1>1, <1>2, <3>1 DEF AtHead
    <3>3. i \in ItemsOf(s) \ s.failed
      BY <1>2, <1>4, <2>3, <3>2
    <3> QED
      BY <3>2, <3>3, <1>1, <2>3, LastIsMerged
  <2> QED
    BY <1>3, <2>1, <2>2, <2>3, EndFollowed
<1> QED
  BY <1>5, <1>6

LEMMA ReturnFollowed ==
    ASSUME TypeOK, Pending, Followed, NEW sh \in Shards, Return(sh)
    PROVE  Followed'
<1> DEFINE s == run[sh]
           n == Len(s.batch)
<1>1. s \in Runs /\ s.pc = "users" /\ s.users = {}
  BY PcBusy, BusyRun DEF Return
<1>2. CASE /\ s.failed = {}
           /\ stream' = Drop(sh, n)
           /\ run' = [run EXCEPT ![sh] = Idle]
           /\ UNCHANGED <<table, lastWrite, failureQueue, footprint>>
  <2>1. n \in Nat /\ n <= Len(stream[sh]) /\ ItemsOf(s) = 1..n
    BY <1>1, RunsAreBusy, BatchFields DEF Pending, BatchAtHead, AtHead
  <2>2. ASSUME NEW k \in Keys, NEW i \in LastEvent(k, stream[sh]), ~(i > n)
        PROVE  footprint[k] = [fields |-> stream[sh][i].stored.data]
    <3>1. i \in Nat \ {0}
      BY StreamFields, EventsInStream DEF LastEvent
    <3>2. i \in ItemsOf(s) \ s.failed
      BY <1>2, <2>1, <2>2, <3>1
    <3> QED
      BY <1>1, <2>2, <3>2, LastIsMerged
  <2> QED
    BY <1>2, <2>1, <2>2, EndFollowed
<1>3. ASSUME NEW first \in s.failed, \A i \in s.failed : first <= i, GiveBack(sh, first)
      PROVE  Followed'
  BY <1>1, <1>3, GiveBackFollowed
<1> QED
  BY <1>2, <1>3 DEF Return, dsql

LEMMA TimeoutFollowed ==
    ASSUME TypeOK, Pending, Followed, NEW sh \in Shards, Timeout(sh)
    PROVE  Followed'
<1>1. run[sh] \in Runs
  BY BusyRun DEF Timeout
<1>2. CASE GiveBack(sh, 1)
  BY <1>1, <1>2, GiveBackFollowed
<1>3. CASE Bisect(sh)
  <2>1. /\ UNCHANGED <<table, stream, lastWrite, failureQueue, footprint>>
        /\ run' = [run EXCEPT ![sh] = Idle]
    BY <1>3 DEF Bisect, source, polling, dsql
  <2>2. run'[sh].pc # "users" /\ \A other \in Shards : other # sh => run'[other] = run[other]
    BY <2>1 DEF TypeOK, Idle
  <2> QED
    BY <2>1, <2>2, NoUsersYet, StillFollowed
<1> QED
  BY <1>2, <1>3 DEF Timeout

LEMMA WriteFollowed ==
    ASSUME TypeOK, TypeOK', Pending, Followed, NEW k \in Keys, NEW data, NEW version,
           Write(k, data, version)
    PROVE  Followed'
<1> DEFINE stored == [data |-> data, nonce |-> IF Encrypted THEN writes ELSE 0]
           item == [stored |-> stored, flag |-> TRUE, version |-> version]
           event == [user |-> k[1], topic |-> k[2], stored |-> stored]
           home == ShardOf[k[1]]
           q == stream[home]
<1>1. /\ table' = [table EXCEPT ![k] = item]
      /\ stream' = [stream EXCEPT ![home] = IF item = table[k] THEN @ ELSE Append(@, event)]
      /\ lastWrite' = [lastWrite EXCEPT ![k] = [fields |-> data]]
      /\ UNCHANGED <<failureQueue, run, footprint>>
  BY DEF Write, polling, dsql
<1>2. home \in Shards /\ k[1] \in Users /\ k[2] \in Topics /\ k = <<k[1], k[2]>>
  BY KeyHasShard DEF Keys
<1>3. /\ table'[k] = item /\ \A other \in Keys : other # k => table'[other] = table[other]
      /\ lastWrite'[k] = [fields |-> data]
      /\ \A other \in Keys : other # k => lastWrite'[other] = lastWrite[other]
  BY <1>1 DEF TypeOK
<1>4. item \in Items /\ event \in Events
  <2>1. table'[k] \in Items \cup {Absent}
    BY DEF TypeOK
  <2>2. item # Absent
    <3>1. DOMAIN item # DOMAIN Absent
      BY DEF Absent
    <3> QED
      BY <3>1
  <2>3. item \in Items
    BY <1>3, <2>1, <2>2
  <2>4. item.stored \in StoredData
    BY <2>3 DEF Items
  <2> QED
    BY <1>2, <2>3, <2>4 DEF Events
<1>5. item.stored.data = data /\ event.stored.data = data /\ KeyOf(event) = k /\ event.user = k[1]
  BY <1>2 DEF KeyOf
<1> HIDE DEF item, event
<1>10. UNCHANGED <<failureQueue, run, footprint>>
  BY <1>1
<1>6. MergedAreLast'
  BY <1>10 DEF Followed, MergedAreLast
<1>7. ItemIsLast'
  <2>1. ASSUME NEW other \in Keys, table'[other] # Absent
        PROVE  lastWrite'[other] = [fields |-> table'[other].stored.data]
    <3>1. CASE other = k
      BY <1>3, <1>5, <3>1
    <3>2. CASE other # k
      BY <1>3, <2>1, <3>2 DEF Followed, ItemIsLast
    <3> QED
      BY <3>1, <3>2
  <2> QED
    BY <2>1 DEF ItemIsLast
<1>8. CASE item = table[k]
  <2>1. stream' = stream
    BY <1>1, <1>8 DEF TypeOK
  <2>2. lastWrite[k] = [fields |-> data]
    <3>1. item # Absent
      BY <1>4 DEF Items, Absent
    <3> QED
      BY <1>5, <1>8, <3>1 DEF Followed, ItemIsLast
  <2>3. lastWrite' = lastWrite
    BY <1>1, <2>2 DEF TypeOK
  <2>4. InOwnShard' /\ EventIsLast' /\ FootprintFollows'
    BY <1>10, <2>1, <2>3 DEF Followed, InOwnShard, EventIsLast, FootprintFollows
  <2> QED
    BY <1>6, <1>7, <2>4 DEF Followed
<1>9. CASE item # table[k]
  <2>1. /\ stream'[home] = Append(q, event)
        /\ \A sh \in Shards : sh # home => stream'[sh] = stream[sh]
    BY <1>1, <1>2, <1>9 DEF TypeOK
  <2>2. q \in Seq(Events) /\ Len(q) \in Nat /\ DOMAIN q = 1..Len(q)
    BY <1>2, StreamFields
  <2>9. /\ DOMAIN stream'[home] = 1..(Len(q) + 1)
        /\ stream'[home][Len(q) + 1] = event
        /\ \A i \in 1..Len(q) : stream'[home][i] = q[i]
    BY <1>4, <2>1, <2>2, AppendProperties
  <2>8. ASSUME NEW other \in Keys
        PROVE  /\ EventsOf(other, q) # {} \/ other = k =>
                     EventsOf(other, stream'[home]) # {}
               /\ \A i \in LastEvent(other, stream'[home]) :
                     /\ other = k => stream'[home][i] = event
                     /\ other # k => i \in LastEvent(other, q) /\ stream'[home][i] = q[i]
    <3> DEFINE q2 == stream'[home]
    <3>0. q \in Seq(Events) /\ KeyOf(event) = k /\ Appended(q, event, q2)
      BY <1>5, <2>2, <2>9 DEF Appended
    <3> HIDE DEF q, q2, home
    <3>1. EventsOf(other, q) # {} \/ other = k => EventsOf(other, q2) # {}
      BY <3>0, AppendedEvents
    <3>2. ASSUME NEW i \in LastEvent(other, q2), other = k
          PROVE  q2[i] = event
      BY <3>0, <3>2, AppendedLast
    <3>3. ASSUME NEW i \in LastEvent(other, q2), other # k
          PROVE  i \in LastEvent(other, q) /\ q2[i] = q[i]
      BY <3>0, <3>3, AppendedBehind
    <3> QED
      BY <3>1, <3>2, <3>3 DEF q2
  <2>3. InOwnShard'
    <3>1. ASSUME NEW sh \in Shards, NEW i \in DOMAIN stream'[sh]
          PROVE  ShardOf[stream'[sh][i].user] = sh
      <4>1. CASE sh # home
        BY <2>1, <3>1, <4>1 DEF Followed, InOwnShard
      <4>2. CASE sh = home
        <5>2. CASE i = Len(q) + 1
          BY <1>5, <2>9, <4>2, <5>2
        <5>3. CASE i # Len(q) + 1
          <6>1. i \in DOMAIN q /\ stream'[sh][i] = q[i]
            BY <2>2, <2>9, <3>1, <4>2, <5>3
          <6> QED
            BY <1>2, <4>2, <6>1 DEF Followed, InOwnShard
        <5> QED
          BY <5>2, <5>3
      <4> QED
        BY <4>1, <4>2
    <3> QED
      BY <3>1 DEF InOwnShard
  <2>4. ASSUME NEW other \in Keys, NEW i \in LastEvent(other, stream'[ShardOf[other[1]]])
        PROVE  lastWrite'[other] = [fields |-> stream'[ShardOf[other[1]]][i].stored.data]
    <3>1. CASE other = k
      <4>1. stream'[home][i] = event
        BY <2>4, <2>8, <3>1
      <4> QED
        BY <1>3, <1>5, <3>1, <4>1
    <3>2. CASE other # k /\ ShardOf[other[1]] = home
      <4>1. i \in LastEvent(other, q) /\ stream'[home][i] = q[i]
        BY <2>4, <2>8, <3>2
      <4> QED
        BY <1>3, <3>2, <4>1 DEF Followed, EventIsLast
    <3>3. CASE other # k /\ ShardOf[other[1]] # home
      <4>1. stream'[ShardOf[other[1]]] = stream[ShardOf[other[1]]]
        BY <2>1, <3>3, KeyHasShard
      <4> QED
        BY <1>3, <2>4, <3>3, <4>1 DEF Followed, EventIsLast
    <3> QED
      BY <3>1, <3>2, <3>3
  <2>5. EventIsLast'
    BY <2>4 DEF EventIsLast, LastEvent, EventsOf
  <2>6. ASSUME NEW other \in Keys
        PROVE  \/ \E e \in failureQueue' : e.user = other[1]
               \/ EventsOf(other, stream'[ShardOf[other[1]]]) # {}
               \/ footprint'[other] = lastWrite'[other]
    <3>1. CASE ShardOf[other[1]] = home /\ (other = k \/ EventsOf(other, q) # {})
      BY <2>8, <3>1
    <3>2. CASE ShardOf[other[1]] = home /\ other # k /\ EventsOf(other, q) = {}
      BY <1>1, <1>3, <3>2 DEF Followed, FootprintFollows
    <3>3. CASE ShardOf[other[1]] # home
      <4>1. stream'[ShardOf[other[1]]] = stream[ShardOf[other[1]]] /\ other # k
        BY <2>1, <3>3, KeyHasShard
      <4> QED
        BY <1>1, <1>3, <4>1 DEF Followed, FootprintFollows
    <3> QED
      BY <3>1, <3>2, <3>3
  <2>7. FootprintFollows'
    BY <2>6 DEF FootprintFollows, EventsOf
  <2> QED
    BY <1>6, <1>7, <2>3, <2>5, <2>7 DEF Followed
<1> QED
  BY <1>8, <1>9

LEMMA CallFollowed ==
    ASSUME TypeOK, TypeOK', Pending, Followed, Call
    PROVE  Followed'
<1>1. PICK k \in Keys : (\E data \in Payloads : Save(k, data) \/ Update(k, data)) \/ Delete(k)
  BY DEF Call
<1>2. ASSUME NEW data, Save(k, data) \/ Update(k, data) PROVE Followed'
  <2>1. PICK version : Write(k, data, version)
    BY <1>2 DEF Save, Update
  <2> QED
    BY <2>1, WriteFollowed
<1>3. CASE Delete(k)
  <2>1. \A other \in Keys : table'[other] = table[other] \/ table'[other] = Absent
    BY <1>3 DEF Delete, TypeOK
  <2>2. UNCHANGED <<stream, lastWrite, failureQueue, run, footprint>>
    BY <1>3 DEF Delete, polling, dsql
  <2>3. ItemIsLast'
    BY <2>1, <2>2 DEF Followed, ItemIsLast
  <2>4. InOwnShard' /\ EventIsLast' /\ FootprintFollows'
    BY <2>2 DEF Followed, InOwnShard, EventIsLast, FootprintFollows
  <2>5. MergedAreLast'
    BY <2>2 DEF Followed, MergedAreLast
  <2> QED
    BY <2>3, <2>4, <2>5 DEF Followed
<1> QED
  BY <1>1, <1>2, <1>3

LEMMA InitFollowed == Init => Followed
<1> SUFFICES ASSUME Init PROVE Followed
  OBVIOUS
<1>1. InOwnShard /\ ItemIsLast /\ MergedAreLast
  BY DEF Init, InOwnShard, ItemIsLast, MergedAreLast, Idle
<1>2. EventIsLast /\ FootprintFollows
  BY KeyHasShard DEF Init, EventIsLast, FootprintFollows, LastEvent, EventsOf
<1> QED
  BY <1>1, <1>2 DEF Followed

LEMMA NextFollowed == ASSUME TypeOK, Pending, Followed, [Next]_vars PROVE Followed'
<1>1. TypeOK'
  BY NextType
<1>2. CASE Call
  BY <1>1, <1>2, CallFollowed
<1>3. ASSUME NEW sh \in Shards, Extract(sh) \/ Fail(sh)
      PROVE  Followed'
  <2>1. ASSUME NEW n \in 1..BatchSize, StartBatch(sh, n, {}) PROVE Followed'
    <3>1. {} \in SUBSET (1..n)
      OBVIOUS
    <3> QED
      BY <2>1, <3>1, StartFollowed
  <2>2. ASSUME NEW n \in 1..BatchSize, NEW i \in 1..n, StartBatch(sh, n, {i})
        PROVE  Followed'
    <3>1. {i} \in SUBSET (1..n)
      OBVIOUS
    <3> QED
      BY <2>2, <3>1, StartFollowed
  <2>3. CASE ReadLatest(sh) \/ InsertVersion(sh) \/ Stamp(sh) \/ KeyFails(sh)
    BY <2>3, EvolveFollowed, StampFollowed
  <2>4. CASE \E u \in Users : MergeUser(sh, u) \/ UserFails(sh, u)
    BY <2>4, UsersFollowed
  <2>5. CASE Return(sh) \/ Timeout(sh)
    BY <2>5, ReturnFollowed, TimeoutFollowed
  <2> QED
    BY <1>3, <2>1, <2>2, <2>3, <2>4, <2>5 DEF Extract, Fail
<1>4. CASE UNCHANGED vars
  <2>1. UNCHANGED <<table, stream, lastWrite, failureQueue, run, footprint>>
    BY <1>4 DEF vars, source, polling, dsql
  <2>2. InOwnShard' /\ ItemIsLast' /\ EventIsLast' /\ FootprintFollows'
    BY <2>1 DEF Followed, InOwnShard, ItemIsLast, EventIsLast, FootprintFollows
  <2>3. MergedAreLast'
    BY <2>1 DEF Followed, MergedAreLast
  <2> QED
    BY <2>2, <2>3 DEF Followed
<1> QED
  BY <1>2, <1>3, <1>4 DEF Next

(***************************************************************************)
(* The invariant behind FootprintIsLatest: of a user of whom nothing was   *)
(* given up, a footprint is that of the last write or has an event to      *)
(* come, and a user whom a run has merged has the last shapes of its       *)
(* batch, also when a part of the batch is then returned and replayed.     *)
(***************************************************************************)
THEOREM FootprintsFollow == Spec => []Followed
<1>1. Init => TypeOK /\ Pending /\ Followed
  BY InitType, InitPending, InitFollowed
<1>2. TypeOK /\ Pending /\ Followed /\ [Next]_vars => (TypeOK /\ Pending /\ Followed)'
  BY NextType, NextPending, NextFollowed
<1> QED
  BY <1>1, <1>2, PTL DEF Spec

(***************************************************************************)
(* Replays do not undo a footprint: when the shard of a user is processed  *)
(* and nothing of the user was given up, the footprint has the fields last *)
(* written, for any batches, failures, bisections and retries.             *)
(***************************************************************************)
THEOREM FootprintsAreLatest == Spec => []FootprintIsLatest
<1>1. Followed => FootprintIsLatest
  <2> SUFFICES ASSUME Followed, NEW k \in Keys, stream[ShardOf[k[1]]] = <<>>,
                      \A event \in failureQueue : event.user # k[1]
               PROVE  footprint[k] = lastWrite[k]
    BY DEF FootprintIsLatest
  <2>1. EventsOf(k, stream[ShardOf[k[1]]]) = {}
    BY DEF EventsOf
  <2> QED
    BY <2>1 DEF Followed, FootprintFollows
<1> QED
  BY <1>1, FootprintsFollow, PTL

-----------------------------------------------------------------------------
(* Footprints are in the schema.                                           *)

InSchema == AcceptedAreKnown /\ FootprintKnown

KnownIn(R, topic, fields) ==
    \E row \in R : row.topic = topic /\ fields \subseteq row.schema.props

(* What AcceptedAreKnown says of one run.                                  *)
AcceptedIn(R, s) ==
    \A i \in Accepted(s) : KnownIn(R, s.batch[i].topic, s.batch[i].stored.data)

LEMMA RunAccepted ==
    ASSUME InSchema, rows \subseteq rows', NEW sh \in Shards, run[sh] # Idle
    PROVE  AcceptedIn(rows', run[sh])
BY DEF InSchema, AcceptedAreKnown, AcceptedIn, Known, KnownIn

(* A step of one run, while versions are added.                            *)
LEMMA StillInSchema ==
    ASSUME InSchema, rows \subseteq rows', NEW sh \in Shards,
           \A other \in Shards : other # sh => run'[other] = run[other],
           run'[sh] = Idle \/ AcceptedIn(rows', run'[sh]),
           \A k \in Keys : \/ footprint'[k] = footprint[k]
                           \/ KnownIn(rows', k[2], footprint'[k].fields)
    PROVE  InSchema'
<1>1. ASSUME NEW other \in Shards, run'[other] # Idle
      PROVE  AcceptedIn(rows', run'[other])
  <2>1. CASE other = sh
    BY <1>1, <2>1
  <2>2. CASE other # sh
    BY <1>1, <2>2, RunAccepted
  <2> QED
    BY <2>1, <2>2
<1>2. AcceptedAreKnown'
  BY <1>1 DEF AcceptedAreKnown, AcceptedIn, Known, KnownIn, Accepted, ItemsOf
<1>3. ASSUME NEW k \in Keys, footprint'[k] # NoShape
      PROVE  KnownIn(rows', k[2], footprint'[k].fields)
  <2>1. CASE footprint'[k] = footprint[k]
    BY <1>3, <2>1 DEF InSchema, FootprintKnown, Known, KnownIn
  <2> QED
    BY <2>1
<1>4. FootprintKnown'
  BY <1>3 DEF FootprintKnown, Known, KnownIn
<1> QED
  BY <1>2, <1>4 DEF InSchema

(* Going on accepts no item whose topic is not known.                      *)
LEMMA ProceedAccepts ==
    ASSUME TypeOK, NEW sh \in Shards, NEW s \in Runs, Proceed(sh, s), NEW R,
           \A i \in ItemsOf(s) \ s.failed :
              \/ s.batch[i].topic \in s.keys
              \/ KnownIn(R, s.batch[i].topic, s.batch[i].stored.data)
    PROVE  AcceptedIn(R, run'[sh])
<1> DEFINE s2 == run'[sh]
<1>1. CASE s.keys = {} /\ run' = [run EXCEPT ![sh] =
             [s EXCEPT !.pc = "users",
                       !.users = {s.batch[i].user : i \in ItemsOf(s) \ s.failed}]]
  <2>1. s2.batch = s.batch /\ s2.failed = s.failed
    BY <1>1 DEF TypeOK, Runs
  <2> HIDE DEF s2
  <2> QED
    BY <1>1, <2>1 DEF AcceptedIn, Accepted, ItemsOf, s2
<1>2. ASSUME NEW j \in ItemsOf(s) \ s.failed,
             run' = [run EXCEPT ![sh] =
                [s EXCEPT !.pc = "read", !.attempt = 1, !.key = s.batch[j].topic,
                          !.keys = @ \ {s.batch[j].topic}]]
      PROVE  AcceptedIn(R, s2)
  <2> DEFINE t == s.batch[j].topic
  <2>1. /\ s2.batch = s.batch /\ s2.failed = s.failed /\ s2.pc = "read"
        /\ s2.key = t /\ s2.keys = s.keys \ {t}
    BY <1>2 DEF TypeOK, Runs
  <2> HIDE DEF s2, t
  <2>2. \A i \in Accepted(s2) : i \in ItemsOf(s) \ s.failed /\ s.batch[i].topic \notin s.keys
    BY <2>1 DEF Accepted, ItemsOf
  <2> QED
    BY <2>1, <2>2 DEF AcceptedIn
<1> QED
  BY <1>1, <1>2 DEF Proceed

LEMMA KeyErrorAccepts ==
    ASSUME TypeOK, InSchema, rows \subseteq rows', NEW sh \in Shards, run[sh] \in Runs,
           run[sh].pc \in {"read", "insert", "stamp"}, KeyError(sh)
    PROVE  AcceptedIn(rows', run'[sh])
<1> DEFINE s == run[sh]
           s1 == [s EXCEPT !.failed = @ \cup KeyItems(s)]
<1>1. s1 \in Runs
  <2>1. KeyItems(s) \in SUBSET (Nat \ {0})
    BY KeyItemsAreNat
  <2> QED
    BY <2>1 DEF Runs
<1>2. s1.batch = s.batch /\ s1.keys = s.keys /\ s1.failed = s.failed \cup KeyItems(s)
  BY DEF Runs
<1>3. Proceed(sh, s1)
  BY DEF KeyError
<1>4. AcceptedIn(rows', s)
  BY RunAccepted, RunsAreBusy
<1> HIDE DEF s1
<1>5. ASSUME NEW i \in ItemsOf(s1) \ s1.failed, s1.batch[i].topic \notin s1.keys
      PROVE  KnownIn(rows', s1.batch[i].topic, s1.batch[i].stored.data)
  <2>1. i \in ItemsOf(s) /\ i \notin s.failed /\ i \notin KeyItems(s)
    BY <1>2 DEF ItemsOf
  <2>2. s.batch[i].topic # s.key
    BY <2>1 DEF KeyItems
  <2>3. i \in Accepted(s)
    BY <1>2, <1>5, <2>1, <2>2 DEF Accepted
  <2> QED
    BY <1>2, <1>4, <2>3 DEF AcceptedIn
<1> QED
  BY <1>1, <1>3, <1>5, ProceedAccepts

(* The items of a topic whose version describes what was observed.         *)
LEMMA ItemKnown ==
    ASSUME NEW R, NEW s, NEW row \in R, row.topic = s.key,
           \A data : Describes(ObservedShape(s), data) => Describes(row.schema, data),
           NEW i \in KeyItems(s)
    PROVE  KnownIn(R, s.batch[i].topic, s.batch[i].stored.data)
BY ObservedOfItem DEF KnownIn, Describes

LEMMA EvolveInSchema ==
    ASSUME TypeOK, InSchema, NEW sh \in Shards, ReadLatest(sh) \/ InsertVersion(sh)
    PROVE  InSchema'
<1> DEFINE s == run[sh]
           s2 == run'[sh]
<1>1. s.pc \in {"read", "insert"} /\ s \in Runs
  <2>1. s.pc \in {"read", "insert"}
    BY DEF ReadLatest, InsertVersion
  <2> QED
    BY <2>1, PcBusy, BusyRun
<1>2. UNCHANGED footprint /\ rows \subseteq rows'
  <2>1. UNCHANGED rows \/ \E row : rows' = rows \cup {row}
    BY DEF ReadLatest, InsertVersion, dsql
  <2> QED
    BY <2>1 DEF ReadLatest, InsertVersion, dsql
<1>3. AcceptedIn(rows', s)
  BY <1>1, <1>2, RunAccepted, RunsAreBusy
<1>4. /\ AcceptedIn(rows', s2)
      /\ \A other \in Shards : other # sh => run'[other] = run[other]
  <2>1. CASE KeyError(sh)
    BY <1>1, <1>2, <2>1, KeyErrorAccepts, KeyErrorKeeps
  <2>2. CASE ~KeyError(sh)
    <3>1. /\ s2.batch = s.batch /\ s2.failed = s.failed /\ s2.keys = s.keys /\ s2.key = s.key
          /\ s2.pc \in {"read", "insert", "stamp"}
          /\ \A other \in Shards : other # sh => run'[other] = run[other]
      BY <2>2, ReadRun, InsertRun
    <3>2. s2.pc = "stamp" =>
             \E row \in rows' :
                /\ row.topic = s.key
                /\ \A data : Describes(ObservedShape(s), data) => Describes(row.schema, data)
      <4>1. ASSUME s2.pc = "stamp", ReadLatest(sh)
            PROVE  \E row \in rows' :
                      /\ row.topic = s.key
                      /\ \A data : Describes(ObservedShape(s), data) => Describes(row.schema, data)
        <5>1. PICK row \in rows :
                 /\ row.topic = s.key
                 /\ mergeSchemas(row.schema, ObservedShape(s)) = row.schema
          BY <4>1, ReadRun
        <5>2. \A data : Describes(ObservedShape(s), data) => Describes(row.schema, data)
          BY <5>1, MergeDescribes
        <5> QED
          BY <1>2, <5>1, <5>2
      <4>2. ASSUME s2.pc = "stamp", InsertVersion(sh)
            PROVE  \E row \in rows' :
                      /\ row.topic = s.key
                      /\ \A data : Describes(ObservedShape(s), data) => Describes(row.schema, data)
        <5>1. PICK row \in rows' : row.topic = s.key /\ row.schema = Merged(s)
          BY <2>2, <4>2, InsertRun
        <5> QED
          BY <5>1, MergedDescribes
      <4> QED
        BY <4>1, <4>2
    <3>3. ASSUME NEW i \in Accepted(s2)
          PROVE  KnownIn(rows', s2.batch[i].topic, s2.batch[i].stored.data)
      <4>1. i \in ItemsOf(s) \ s.failed /\ s.batch[i].topic \notin s.keys
        BY <3>1 DEF Accepted, ItemsOf
      <4>2. CASE s.batch[i].topic = s.key
        <5>1. s2.pc = "stamp"
          BY <3>1, <4>2 DEF Accepted
        <5>2. i \in KeyItems(s)
          BY <4>1, <4>2 DEF KeyItems
        <5> QED
          BY <3>1, <3>2, <5>1, <5>2, ItemKnown
      <4>3. CASE s.batch[i].topic # s.key
        BY <1>3, <3>1, <4>1, <4>3 DEF Accepted, AcceptedIn
      <4> QED
        BY <4>2, <4>3
    <3> QED
      BY <3>1, <3>3 DEF AcceptedIn
  <2> QED
    BY <2>1, <2>2
<1> QED
  BY <1>2, <1>4, StillInSchema

LEMMA StampInSchema ==
    ASSUME TypeOK, InSchema, NEW sh \in Shards, Stamp(sh) \/ KeyFails(sh)
    PROVE  InSchema'
<1> DEFINE s == run[sh]
           s2 == run'[sh]
<1>1. s \in Runs /\ s.pc \in {"read", "insert", "stamp"}
  BY PcBusy, BusyRun DEF Stamp, KeyFails
<1>2. UNCHANGED <<rows, footprint>> /\ rows \subseteq rows'
  <2>1. UNCHANGED <<rows, footprint>>
    BY DEF Stamp, KeyFails, dsql
  <2> QED
    BY <2>1 DEF InSchema
<1>3. AcceptedIn(rows', s)
  BY <1>1, <1>2, RunAccepted, RunsAreBusy
<1>4. /\ AcceptedIn(rows', s2)
      /\ \A other \in Shards : other # sh => run'[other] = run[other]
  <2>1. CASE KeyFails(sh)
    BY <1>1, <1>2, <2>1, KeyErrorAccepts, KeyErrorKeeps DEF KeyFails
  <2>2. CASE s.pc = "stamp" /\ Proceed(sh, [s EXCEPT !.todo = {}])
    <3> DEFINE s1 == [s EXCEPT !.todo = {}]
    <3>1. /\ s1 \in Runs /\ s1.batch = s.batch /\ s1.failed = s.failed
          /\ s1.keys = s.keys
      BY <1>1 DEF Runs
    <3>2. Proceed(sh, s1)
      BY <2>2
    <3> HIDE DEF s1
    <3>3. ASSUME NEW i \in ItemsOf(s1) \ s1.failed, s1.batch[i].topic \notin s1.keys
          PROVE  KnownIn(rows', s1.batch[i].topic, s1.batch[i].stored.data)
      <4>1. i \in Accepted(s)
        BY <2>2, <3>1, <3>3 DEF Accepted, ItemsOf
      <4> QED
        BY <1>3, <3>1, <4>1 DEF AcceptedIn
    <3>4. AcceptedIn(rows', s2)
      BY <3>1, <3>2, <3>3, ProceedAccepts
    <3> QED
      BY <3>1, <3>2, <3>4, ProceedKeeps
  <2>3. ASSUME NEW i, run' = [run EXCEPT ![sh].todo = @ \ {i}]
        PROVE  /\ AcceptedIn(rows', s2)
               /\ \A other \in Shards : other # sh => run'[other] = run[other]
    <3>1. /\ s2.batch = s.batch /\ s2.failed = s.failed /\ s2.keys = s.keys
          /\ s2.key = s.key /\ s2.pc = s.pc
          /\ \A other \in Shards : other # sh => run'[other] = run[other]
      BY <1>1, <2>3 DEF TypeOK, Runs
    <3>2. Accepted(s2) = Accepted(s)
      BY <3>1 DEF Accepted, ItemsOf
    <3> QED
      BY <1>3, <3>1, <3>2 DEF AcceptedIn
  <2> QED
    BY <2>1, <2>2, <2>3 DEF Stamp
<1> QED
  BY <1>2, <1>4, StillInSchema

LEMMA StartInSchema ==
    ASSUME TypeOK, InSchema, NEW sh \in Shards, NEW n \in 1..BatchSize,
           NEW unread \in SUBSET (1..n), StartBatch(sh, n, unread)
    PROVE  InSchema'
<1>1. PICK s \in Runs :
         /\ Proceed(sh, s)
         /\ Len(s.batch) = n
         /\ s.keys = {s.batch[i].topic : i \in (1..n) \ unread}
         /\ s.failed = unread
  BY StartedRun
<1>2. ItemsOf(s) = 1..n
  BY <1>1, BatchFields
<1>3. \A i \in ItemsOf(s) \ s.failed : s.batch[i].topic \in s.keys
  BY <1>1, <1>2
<1>4. AcceptedIn(rows, run'[sh])
  BY <1>1, <1>3, ProceedAccepts
<1>5. \A other \in Shards : other # sh => run'[other] = run[other]
  BY <1>1, ProceedKeeps
<1>6. UNCHANGED <<rows, footprint>>
  BY DEF StartBatch, dsql, InSchema
<1> QED
  BY <1>4, <1>5, <1>6, StillInSchema

(* What a user's upsert puts in a footprint are items that were accepted.  *)
LEMMA UsersInSchema ==
    ASSUME TypeOK, Pending, InSchema, NEW sh \in Shards, NEW u \in Users,
           MergeUser(sh, u) \/ UserFails(sh, u)
    PROVE  InSchema'
<1> DEFINE s == run[sh]
           s2 == run'[sh]
<1>1. s \in Runs /\ s.pc = "users"
  BY PcBusy, BusyRun DEF MergeUser, UserFails
<1>2. UNCHANGED rows /\ rows \subseteq rows'
  BY DEF MergeUser, UserFails, dsql, InSchema
<1>3. AcceptedIn(rows', s)
  BY <1>1, <1>2, RunAccepted, RunsAreBusy
<1>4. s.keys = {}
  BY <1>1, RunsAreBusy DEF Pending, BatchAtHead, AtHead
<1>5. /\ s2.batch = s.batch /\ s2.keys = s.keys /\ s.failed \subseteq s2.failed
      /\ \A other \in Shards : other # sh => run'[other] = run[other]
  <2>1. CASE MergeUser(sh, u)
    BY <1>1, <2>1 DEF MergeUser, TypeOK, Runs
  <2>2. CASE UserFails(sh, u)
    <3>1. run' = [run EXCEPT ![sh] =
                [s EXCEPT !.users = @ \ {u}, !.failed = @ \cup UserItems(s, u)]]
      BY <2>2 DEF UserFails
    <3> QED
      BY <1>1, <3>1 DEF TypeOK, Runs
  <2> QED
    BY <2>1, <2>2
<1>6. AcceptedIn(rows', s2)
  <2>1. \A i \in Accepted(s2) : i \in Accepted(s)
    BY <1>1, <1>5 DEF Accepted, ItemsOf
  <2> QED
    BY <1>3, <1>5, <2>1 DEF AcceptedIn
<1>7. ASSUME NEW k \in Keys, footprint'[k] # footprint[k]
      PROVE  KnownIn(rows', k[2], footprint'[k].fields)
  <2>1. mergeTopics(s, u)
    BY <1>7 DEF MergeUser, UserFails
  <2>2. PICK i \in LastItem(s, u, k[2]) :
           footprint'[k] = [fields |-> s.batch[i].stored.data]
    <3>1. /\ k[1] # u \/ LastItem(s, u, k[2]) = {} => footprint'[k] = footprint[k]
          /\ k[1] = u => \A i \in LastItem(s, u, k[2]) :
                            footprint'[k] = [fields |-> s.batch[i].stored.data]
      BY <1>1, <2>1, MergedTopics
    <3> QED
      BY <1>7, <3>1
  <2>3. i \in Accepted(s) /\ s.batch[i].topic = k[2]
    BY <1>1, <1>4, LastItemFields DEF Accepted
  <2>4. footprint'[k].fields = s.batch[i].stored.data
    BY <2>2
  <2> QED
    BY <1>3, <2>3, <2>4 DEF AcceptedIn
<1> QED
  BY <1>2, <1>5, <1>6, <1>7, StillInSchema

LEMMA EndInSchema ==
    ASSUME TypeOK, InSchema, NEW sh \in Shards, Return(sh) \/ Timeout(sh)
    PROVE  InSchema'
<1>1. run' = [run EXCEPT ![sh] = Idle] /\ UNCHANGED <<rows, footprint>>
  <2>1. \A first : GiveBack(sh, first) =>
           run' = [run EXCEPT ![sh] = Idle] /\ UNCHANGED <<rows, footprint>>
    BY DEF GiveBack, dsql
  <2>2. CASE Return(sh)
    BY <2>1, <2>2 DEF Return, dsql
  <2>3. CASE Timeout(sh)
    BY <2>1, <2>3 DEF Timeout, Bisect, source, dsql
  <2> QED
    BY <2>2, <2>3
<1>2. run'[sh] = Idle /\ \A other \in Shards : other # sh => run'[other] = run[other]
  BY <1>1 DEF TypeOK
<1> QED
  BY <1>1, <1>2, StillInSchema DEF InSchema

LEMMA InitInSchema == Init => InSchema
BY EarlierVersions DEF Init, InSchema, AcceptedAreKnown, FootprintKnown

LEMMA NextInSchema == ASSUME TypeOK, Pending, InSchema, [Next]_vars PROVE InSchema'
<1>1. CASE Call \/ UNCHANGED vars
  <2>1. UNCHANGED <<rows, footprint, run>>
    BY <1>1 DEF Call, Save, Update, Write, Delete, vars, dsql
  <2> QED
    BY <2>1 DEF InSchema, AcceptedAreKnown, FootprintKnown, Known
<1>2. ASSUME NEW sh \in Shards, Extract(sh) \/ Fail(sh)
      PROVE  InSchema'
  <2>1. ASSUME NEW n \in 1..BatchSize, StartBatch(sh, n, {}) PROVE InSchema'
    <3>1. {} \in SUBSET (1..n)
      OBVIOUS
    <3> QED
      BY <2>1, <3>1, StartInSchema
  <2>2. ASSUME NEW n \in 1..BatchSize, NEW i \in 1..n, StartBatch(sh, n, {i})
        PROVE  InSchema'
    <3>1. {i} \in SUBSET (1..n)
      OBVIOUS
    <3> QED
      BY <2>2, <3>1, StartInSchema
  <2>3. CASE ReadLatest(sh) \/ InsertVersion(sh) \/ Stamp(sh) \/ KeyFails(sh)
    BY <2>3, EvolveInSchema, StampInSchema
  <2>4. CASE \E u \in Users : MergeUser(sh, u) \/ UserFails(sh, u)
    BY <2>4, UsersInSchema
  <2>5. CASE Return(sh) \/ Timeout(sh)
    BY <2>5, EndInSchema
  <2> QED
    BY <1>2, <2>1, <2>2, <2>3, <2>4, <2>5 DEF Extract, Fail
<1> QED
  BY <1>1, <1>2 DEF Next

(***************************************************************************)
(* The invariant behind FootprintInSchema: an item that its topic's run    *)
(* has left behind without a failure, and so whatever reaches a footprint, *)
(* is known to a version of the topic.                                     *)
(***************************************************************************)
THEOREM FootprintsAreKnown == Spec => []InSchema
<1>1. Init => TypeOK /\ Pending /\ InSchema
  BY InitType, InitPending, InitInSchema
<1>2. TypeOK /\ Pending /\ InSchema /\ [Next]_vars => (TypeOK /\ Pending /\ InSchema)'
  BY NextType, NextPending, NextInSchema
<1> QED
  BY <1>1, <1>2, PTL DEF Spec

(***************************************************************************)
(* Whatever is in a user's footprint is in the latest schema of its topic, *)
(* however many versions came since, for any races, failures and replays.  *)
(***************************************************************************)
THEOREM FootprintsAreInSchema == Spec => []FootprintInSchema
<1>1. TypeOK /\ VersionsWiden /\ IsFiniteSet(rows) /\ InSchema => FootprintInSchema
  <2> SUFFICES ASSUME TypeOK, VersionsWiden, IsFiniteSet(rows), InSchema,
                      NEW k \in Keys, footprint[k] # NoShape
               PROVE  \E row \in rows :
                         /\ row.topic = k[2]
                         /\ \A other \in rows : other.topic = k[2] => other.version <= row.version
                         /\ footprint[k].fields \subseteq row.schema.props
    BY DEF FootprintInSchema
  <2>1. PICK row \in rows : row.topic = k[2] /\ footprint[k].fields \subseteq row.schema.props
    BY DEF InSchema, FootprintKnown, Known
  <2>2. rows \in SUBSET Rows /\ IsFiniteSet(rows) /\ Widening(rows)
    BY DEF TypeOK, VersionsWiden
  <2>3. PICK last \in rows :
           /\ last.topic = row.topic
           /\ \A other \in rows : other.topic = row.topic => other.version <= last.version
    BY <2>2, HighestVersion
  <2>4. row.schema.props \subseteq last.schema.props
    BY <2>2, <2>3, HigherIsWider
  <2> QED
    BY <2>1, <2>3, <2>4
<1> QED
  BY <1>1, TypeCorrect, VersionsFormAChain, VersionsAreFinite, FootprintsAreKnown, PTL

===========================================================================

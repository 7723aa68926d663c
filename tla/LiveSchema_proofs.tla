------------------------- MODULE LiveSchema_proofs -------------------------
(***************************************************************************)
(* Type correctness of the live schemas, and what stamps and versions      *)
(* promise, for any number of users, topics, fields, shards and writes.    *)
(***************************************************************************)
EXTENDS LiveSchema, FiniteSetTheorems, SequenceTheorems, TLAPS

-----------------------------------------------------------------------------
(* Shapes.                                                                 *)

LEMMA ObservedType ==
    ASSUME NEW D \in SUBSET SUBSET Fields
    PROVE  Observed(D) \in Schemas
BY DEF Observed, Schemas

LEMMA MergeType ==
    ASSUME NEW a \in Schemas, NEW b \in Schemas
    PROVE  mergeSchemas(a, b) \in Schemas
BY DEF mergeSchemas, Schemas

(* inferSchema folded over data describes each of them.                    *)
LEMMA ObservedDescribes ==
    ASSUME NEW D, NEW data \in D
    PROVE  Describes(Observed(D), data)
BY DEF Describes, Observed

(* Merging keeps what the second schema describes,                         *)
LEMMA MergeDescribes ==
    ASSUME NEW a, NEW b, NEW data, Describes(b, data)
    PROVE  Describes(mergeSchemas(a, b), data)
BY DEF Describes, mergeSchemas

(* and only ever widens the first.                                         *)
LEMMA MergeWidens ==
    ASSUME NEW a, NEW b
    PROVE  /\ a.props \subseteq mergeSchemas(a, b).props
           /\ mergeSchemas(a, b).required \subseteq a.required
BY DEF mergeSchemas

-----------------------------------------------------------------------------
(* Invocations.                                                            *)

LEMMA RunFields ==
    ASSUME NEW s \in Runs
    PROVE  /\ s.pc \in {"read", "insert", "stamp", "users"}
           /\ s.batch \in Seq(Events)
           /\ s.keys \in SUBSET Topics
           /\ s.key \in Topics
           /\ s.seen \in Nat
           /\ s.attempt \in 1..MaxEvolveAttempts
           /\ s.todo \in SUBSET (Nat \ {0})
           /\ s.users \in SUBSET Users
           /\ s.failed \in SUBSET (Nat \ {0})
BY DEF Runs

LEMMA BusyRun ==
    ASSUME TypeOK, NEW sh \in Shards, run[sh] # Idle
    PROVE  run[sh] \in Runs
BY DEF TypeOK

LEMMA PcBusy ==
    ASSUME NEW sh, run[sh].pc \in {"read", "insert", "stamp", "users"}
    PROVE  run[sh] # Idle
BY DEF Idle

LEMMA ItemFields ==
    ASSUME NEW s \in Runs, NEW i \in ItemsOf(s)
    PROVE  /\ i \in 1..Len(s.batch)
           /\ Len(s.batch) \in Nat
           /\ s.batch[i] \in Events
           /\ s.batch[i].user \in Users
           /\ s.batch[i].topic \in Topics
           /\ s.batch[i].stored \in StoredData
           /\ s.batch[i].stored.data \in SUBSET Fields
<1>1. s.batch \in Seq(Events)
  BY RunFields
<1>2. /\ Len(s.batch) \in Nat
      /\ DOMAIN s.batch = 1..Len(s.batch)
      /\ s.batch \in [1..Len(s.batch) -> Events]
  BY <1>1, LenProperties
<1>3. s.batch[i] \in Events
  BY <1>2 DEF ItemsOf
<1> QED
  BY <1>2, <1>3 DEF ItemsOf, Events, StoredData

LEMMA ItemsAreNat ==
    ASSUME NEW s \in Runs
    PROVE  ItemsOf(s) \subseteq Nat \ {0}
BY ItemFields

(* Going on to the next topic or to the users keeps the types.             *)
LEMMA ProceedKeeps ==
    ASSUME TypeOK, NEW sh \in Shards, NEW s \in Runs, Proceed(sh, s)
    PROVE  /\ run' \in [Shards -> Runs \cup {Idle}]
           /\ run'[sh].pc \in {"read", "users"}
           /\ \A other \in Shards : other # sh => run'[other] = run[other]
<1>1. 1 \in 1..MaxEvolveAttempts
  BY Sizes
<1>2. PICK s2 \in Runs :
         /\ s2.pc \in {"read", "users"}
         /\ run' = [run EXCEPT ![sh] = s2]
  <2>1. CASE s.keys = {}
    <3> DEFINE users == {s.batch[i].user : i \in ItemsOf(s) \ s.failed}
    <3>1. users \in SUBSET Users
      BY ItemFields
    <3>2. [s EXCEPT !.pc = "users", !.users = users] \in Runs
      BY <3>1 DEF Runs
    <3>3. [s EXCEPT !.pc = "users", !.users = users].pc = "users"
      BY DEF Runs
    <3>4. CASE run' = [run EXCEPT ![sh] = [s EXCEPT !.pc = "users", !.users = users]]
      BY <3>2, <3>3, <3>4
    <3> QED
      BY <2>1, <3>4 DEF Proceed
  <2>2. CASE s.keys # {}
    <3>1. PICK i \in ItemsOf(s) \ s.failed :
             /\ s.batch[i].topic \in s.keys
             /\ run' = [run EXCEPT ![sh] =
                   [s EXCEPT !.pc = "read", !.attempt = 1, !.key = s.batch[i].topic,
                             !.keys = @ \ {s.batch[i].topic}]]
      BY <2>2 DEF Proceed
    <3> DEFINE s2 == [s EXCEPT !.pc = "read", !.attempt = 1, !.key = s.batch[i].topic,
                               !.keys = @ \ {s.batch[i].topic}]
    <3>2. s.batch[i].topic \in Topics
      BY ItemFields
    <3>3. s2 \in Runs
      BY <1>1, <3>2 DEF Runs
    <3>4. s2.pc = "read"
      BY DEF Runs
    <3> QED
      BY <3>1, <3>3, <3>4
  <2> QED
    BY <2>1, <2>2
<1> QED
  BY <1>2 DEF TypeOK

(* A slice of a sequence.                                                  *)
LEMMA Slice ==
    ASSUME NEW S, NEW q \in Seq(S), NEW m \in Nat \ {0}, NEW n \in Nat, n <= Len(q)
    PROVE  /\ SubSeq(q, m, n) \in Seq(S)
           /\ m = 1 => Len(SubSeq(q, m, n)) = n
           /\ \A i \in 1..(n - m + 1) : SubSeq(q, m, n)[i] = q[m + i - 1]
<1>1. Len(q) \in Nat
  BY LenProperties
<1>2. \A i \in m..n : i \in 1..Len(q)
  BY <1>1
<1>3. \A i \in m..n : q[i] \in S
  BY <1>2, ElementOfSeq
<1>4. m \in Int /\ n \in Int
  OBVIOUS
<1>5. /\ SubSeq(q, m, n) \in Seq(S)
      /\ Len(SubSeq(q, m, n)) = IF m <= n THEN n - m + 1 ELSE 0
      /\ \A i \in 1 .. n - m + 1 : SubSeq(q, m, n)[i] = q[m + i - 1]
  BY <1>3, <1>4, SubSeqProperties
<1> QED
  BY <1>5

-----------------------------------------------------------------------------
(* Type correctness, action by action.                                     *)

LEMMA InitType == Init => TypeOK
<1> SUFFICES ASSUME Init PROVE TypeOK
  OBVIOUS
<1>1. 0 \in 0..RetryAttempts /\ 0 \in 0..MaxWrites /\ 0 \in 0..MaxFailures
  BY Sizes, Bounds
<1>2. <<>> \in Seq(Events)
  BY EmptySeq
<1>3. InitialRows \subseteq Rows
  BY EarlierVersions
<1> QED
  BY <1>1, <1>2, <1>3 DEF Init, TypeOK

LEMMA WriteType ==
    ASSUME TypeOK, NEW k \in Keys, NEW data \in SUBSET Fields,
           NEW version \in Nat, Write(k, data, version)
    PROVE  TypeOK'
<1> DEFINE stored == [data |-> data, nonce |-> IF Encrypted THEN writes ELSE 0]
           event == [user |-> k[1], topic |-> k[2], stored |-> stored]
           item == [stored |-> stored, flag |-> TRUE, version |-> version]
<1>1. writes \in Nat /\ writes' \in 0..MaxWrites
  BY Bounds DEF TypeOK, Write
<1>2. stored \in StoredData
  BY <1>1 DEF StoredData
<1>3. event \in Events /\ item \in Items
  BY <1>2 DEF Events, Items, Keys
<1>4. ShardOf[k[1]] \in Shards
  BY ShardsOfUsers DEF Keys
<1>5. Append(stream[ShardOf[k[1]]], event) \in Seq(Events)
  BY <1>3, <1>4, AppendProperties DEF TypeOK
<1>6. table' \in [Keys -> Items \cup {Absent}]
  <2>1. table' = [table EXCEPT ![k] = item]
    BY DEF Write
  <2> QED
    BY <2>1, <1>3 DEF TypeOK
<1>7. stream' \in [Shards -> Seq(Events)]
  <2>1. PICK q \in Seq(Events) : stream' = [stream EXCEPT ![ShardOf[k[1]]] = q]
    <3>1. stream' = [stream EXCEPT ![ShardOf[k[1]]] =
                       IF item = table[k] THEN stream[ShardOf[k[1]]]
                       ELSE Append(stream[ShardOf[k[1]]], event)]
      BY DEF Write
    <3>2. stream[ShardOf[k[1]]] \in Seq(Events)
      BY <1>4 DEF TypeOK
    <3> HIDE DEF item, event
    <3> QED
      BY <1>5, <3>1, <3>2
  <2> QED
    BY <2>1 DEF TypeOK
<1>8. lastWrite' \in [Keys -> Shapes \cup {NoShape}]
  <2>1. lastWrite' = [lastWrite EXCEPT ![k] = [fields |-> data]]
    BY DEF Write
  <2>2. [fields |-> data] \in Shapes
    BY DEF Shapes
  <2> QED
    BY <2>1, <2>2 DEF TypeOK
<1> QED
  BY <1>1, <1>6, <1>7, <1>8 DEF TypeOK, Write, polling, dsql

LEMMA CallType == ASSUME TypeOK, Call PROVE TypeOK'
<1>1. PICK k \in Keys :
         \/ \E data \in Payloads : Save(k, data) \/ Update(k, data)
         \/ Delete(k)
  BY DEF Call
<1>2. CASE \E data \in Payloads : Save(k, data)
  BY <1>2, WriteType, PayloadsAreData DEF Save
<1>3. CASE \E data \in Payloads : Update(k, data)
  <2>1. PICK data \in SUBSET Fields : Update(k, data)
    BY <1>3, PayloadsAreData
  <2>2. table[k].version \in Nat
    BY <2>1 DEF Update, TypeOK, Items
  <2> QED
    BY <2>1, <2>2, WriteType DEF Update
<1>4. CASE Delete(k)
  BY <1>4 DEF Delete, TypeOK, polling, dsql
<1> QED
  BY <1>1, <1>2, <1>3, <1>4

LEMMA StartedRun ==
    ASSUME TypeOK, NEW sh \in Shards, NEW n \in 1..BatchSize,
           NEW unread \in SUBSET (1..n), StartBatch(sh, n, unread)
    PROVE  \E s \in Runs :
              /\ Proceed(sh, s)
              /\ Len(s.batch) = n
              /\ \A i \in 1..n : s.batch[i] = stream[sh][i]
              /\ s.keys = {s.batch[i].topic : i \in (1..n) \ unread}
              /\ s.failed = unread
<1> DEFINE batch == SubSeq(stream[sh], 1, n)
           s == [pc |-> "read", batch |-> batch, key |-> batch[1].topic,
                 keys |-> {batch[i].topic : i \in (1..n) \ unread},
                 seen |-> 0, attempt |-> 1, todo |-> {}, users |-> {},
                 failed |-> unread]
<1>1. n \in Nat \ {0} /\ 1 \in 1..n
  BY Sizes
<1>2. stream[sh] \in Seq(Events)
  BY DEF TypeOK
<1>3. \A i \in 1..n : stream[sh][i] \in Events
  BY <1>1, <1>2, ElementOfSeq, LenProperties DEF StartBatch
<1>4. /\ batch \in Seq(Events)
      /\ Len(batch) = n
      /\ \A i \in 1..n : batch[i] = stream[sh][i]
  BY <1>1, <1>2, Slice DEF StartBatch
<1>5. \A i \in 1..n : batch[i].topic \in Topics
  BY <1>3, <1>4 DEF Events
<1>6. s \in Runs
  <2> HIDE DEF batch
  <2>1. {batch[i].topic : i \in (1..n) \ unread} \in SUBSET Topics
    BY <1>5
  <2>2. 1 \in 1..MaxEvolveAttempts /\ unread \in SUBSET (Nat \ {0})
    BY Sizes, <1>1
  <2> QED
    BY <1>1, <1>4, <1>5, <2>1, <2>2 DEF Runs
<1>7. Proceed(sh, s)
  BY DEF StartBatch
<1>8. /\ s.batch = batch
      /\ s.keys = {s.batch[i].topic : i \in (1..n) \ unread}
      /\ s.failed = unread
  OBVIOUS
<1> HIDE DEF s
<1> QED
  BY <1>4, <1>6, <1>7, <1>8

LEMMA StartBatchType ==
    ASSUME TypeOK, NEW sh \in Shards, NEW n \in 1..BatchSize,
           NEW unread \in SUBSET (1..n), Cardinality(unread) \in Nat,
           StartBatch(sh, n, unread)
    PROVE  TypeOK'
<1>1. run' \in [Shards -> Runs \cup {Idle}]
  BY StartedRun, ProceedKeeps
<1>2. failures' \in 0..MaxFailures
  BY Bounds DEF StartBatch, TypeOK
<1> QED
  BY <1>1, <1>2 DEF StartBatch, TypeOK, source, polling, dsql

LEMMA KeyItemsAreNat ==
    ASSUME NEW s \in Runs
    PROVE  KeyItems(s) \in SUBSET (Nat \ {0}) /\ KeyItems(s) \subseteq ItemsOf(s)
BY ItemsAreNat DEF KeyItems

LEMMA ObservedShapeType ==
    ASSUME NEW s \in Runs
    PROVE  ObservedShape(s) \in Schemas
<1>1. {s.batch[i].stored.data : i \in KeyItems(s)} \in SUBSET SUBSET Fields
  BY KeyItemsAreNat, ItemFields
<1> QED
  BY <1>1, ObservedType DEF ObservedShape

LEMMA MergedType ==
    ASSUME TypeOK, NEW s \in Runs
    PROVE  Merged(s) \in Schemas
<1> DEFINE latest == {row \in rows : row.topic = s.key /\ row.version = s.seen}
<1>1. ObservedShape(s) \in Schemas
  BY ObservedShapeType
<1>2. CASE latest = {}
  BY <1>1, <1>2 DEF Merged
<1>3. CASE latest # {}
  <2>1. (CHOOSE row \in latest : TRUE) \in latest
    BY <1>3
  <2>2. (CHOOSE row \in latest : TRUE).schema \in Schemas
    BY <2>1 DEF TypeOK, Rows
  <2> QED
    BY <1>1, <1>3, <2>2, MergeType DEF Merged
<1> QED
  BY <1>2, <1>3

LEMMA NextVersionType ==
    ASSUME NEW version \in Nat
    PROVE  nextSchemaVersion(version) \in Nat
BY DEF nextSchemaVersion, INITIAL_SCHEMA_VERSION

LEMMA RunUpdate ==
    ASSUME TypeOK, NEW sh \in Shards, NEW s2 \in Runs \cup {Idle},
           run' = [run EXCEPT ![sh] = s2]
    PROVE  run' \in [Shards -> Runs \cup {Idle}]
BY DEF TypeOK

LEMMA KeyErrorKeeps ==
    ASSUME TypeOK, NEW sh \in Shards, run[sh] \in Runs, KeyError(sh)
    PROVE  /\ run' \in [Shards -> Runs \cup {Idle}]
           /\ run'[sh].pc \in {"read", "users"}
           /\ \A other \in Shards : other # sh => run'[other] = run[other]
<1> DEFINE s == [run[sh] EXCEPT !.failed = @ \cup KeyItems(run[sh])]
<1>1. s \in Runs
  <2>1. KeyItems(run[sh]) \in SUBSET (Nat \ {0})
    BY KeyItemsAreNat
  <2> QED
    BY <2>1 DEF Runs
<1>2. Proceed(sh, s)
  BY DEF KeyError
<1> HIDE DEF s
<1> QED
  BY <1>1, <1>2, ProceedKeeps

LEMMA ReadLatestType ==
    ASSUME TypeOK, NEW sh \in Shards, ReadLatest(sh)
    PROVE  TypeOK'
<1> DEFINE s == run[sh]
<1>1. s \in Runs
  <2>1. run[sh].pc = "read"
    BY DEF ReadLatest
  <2> QED
    BY <2>1, PcBusy, BusyRun
<1>2. KeyItems(s) \in SUBSET (Nat \ {0})
  BY <1>1, KeyItemsAreNat
<1>3. run' \in [Shards -> Runs \cup {Idle}]
  <2>1. CASE run' = [run EXCEPT ![sh] = [s EXCEPT !.pc = "insert", !.seen = 0]]
    <3>1. [s EXCEPT !.pc = "insert", !.seen = 0] \in Runs
      BY <1>1 DEF Runs
    <3> QED
      BY <2>1, <3>1, RunUpdate
  <2>2. CASE \E row \in getLatest(s.key) :
               LET same == mergeSchemas(row.schema, ObservedShape(s)) = row.schema
               IN  run' = [run EXCEPT ![sh] =
                      [s EXCEPT !.pc = IF same THEN "stamp" ELSE "insert",
                                !.seen = row.version,
                                !.todo = IF same THEN KeyItems(s) ELSE {}]]
    <3>1. PICK row \in getLatest(s.key), pc \in {"stamp", "insert"}, todo \in SUBSET (Nat \ {0}) :
             run' = [run EXCEPT ![sh] =
                       [s EXCEPT !.pc = pc, !.seen = row.version, !.todo = todo]]
      BY <2>2, <1>2
    <3>2. row.version \in Nat
      BY DEF getLatest, TypeOK, Rows
    <3>3. [s EXCEPT !.pc = pc, !.seen = row.version, !.todo = todo] \in Runs
      BY <1>1, <3>2 DEF Runs
    <3> QED
      BY <3>1, <3>3, RunUpdate
  <2> QED
    BY <2>1, <2>2 DEF ReadLatest
<1> QED
  BY <1>3 DEF ReadLatest, TypeOK, source, polling, dsql

LEMMA InsertVersionType ==
    ASSUME TypeOK, NEW sh \in Shards, InsertVersion(sh)
    PROVE  TypeOK'
<1> DEFINE s == run[sh]
           version == nextSchemaVersion(s.seen)
           taken == \E row \in rows : row.topic = s.key /\ row.version = version
           row == [topic |-> s.key, version |-> version, schema |-> Merged(s)]
<1>1. s \in Runs
  BY PcBusy, BusyRun DEF InsertVersion
<1>2. version \in Nat /\ s.key \in Topics /\ Merged(s) \in Schemas
  BY <1>1, RunFields, NextVersionType, MergedType
<1>3. row \in Rows
  BY <1>2 DEF Rows
<1>4. /\ rows' \subseteq Rows
      /\ run' \in [Shards -> Runs \cup {Idle}]
  <2>1. CASE /\ rows' = rows \cup {row}
             /\ run' = [run EXCEPT ![sh] =
                   [s EXCEPT !.pc = "stamp", !.seen = version, !.todo = KeyItems(s)]]
    <3>1. [s EXCEPT !.pc = "stamp", !.seen = version, !.todo = KeyItems(s)] \in Runs
      BY <1>1, <1>2, KeyItemsAreNat DEF Runs
    <3> QED
      BY <1>3, <2>1, <3>1, RunUpdate DEF TypeOK
  <2>2. CASE /\ s.attempt < MaxEvolveAttempts
             /\ run' = [run EXCEPT ![sh] = [s EXCEPT !.pc = "read", !.attempt = @ + 1]]
             /\ UNCHANGED rows
    <3>1. s.attempt + 1 \in 1..MaxEvolveAttempts
      BY <1>1, <2>2, RunFields, Sizes
    <3>2. [s EXCEPT !.pc = "read", !.attempt = @ + 1] \in Runs
      BY <1>1, <3>1 DEF Runs
    <3> QED
      BY <2>2, <3>2, RunUpdate DEF TypeOK
  <2>3. CASE KeyError(sh) /\ UNCHANGED rows
    BY <1>1, <2>3, KeyErrorKeeps DEF TypeOK
  <2> QED
    BY <2>1, <2>2, <2>3 DEF InsertVersion
<1> QED
  BY <1>4 DEF InsertVersion, TypeOK, source, polling

LEMMA StampedType ==
    ASSUME TypeOK, NEW s \in Runs, NEW i, stamp(s.batch[i], s.seen)
    PROVE  table' \in [Keys -> Items \cup {Absent}]
<1> DEFINE k == KeyOf(s.batch[i])
           item == table[k]
<1>1. CASE /\ item # Absent
           /\ item.stored = s.batch[i].stored
           /\ table' = [table EXCEPT ![k] = [item EXCEPT !.version = s.seen, !.flag = FALSE]]
  <2>1. CASE k \in Keys
    <3>1. item \in Items /\ s.seen \in Nat
      BY <1>1, <2>1, RunFields DEF TypeOK
    <3>2. [item EXCEPT !.version = s.seen, !.flag = FALSE] \in Items
      BY <3>1 DEF Items
    <3> QED
      BY <1>1, <3>2 DEF TypeOK
  <2>2. CASE k \notin Keys
    BY <1>1, <2>2 DEF TypeOK
  <2> QED
    BY <2>1, <2>2
<1>2. CASE table' = table
  BY <1>2 DEF TypeOK
<1> QED
  BY <1>1, <1>2 DEF stamp

LEMMA StampType ==
    ASSUME TypeOK, NEW sh \in Shards, Stamp(sh)
    PROVE  TypeOK'
<1> DEFINE s == run[sh]
<1>1. s \in Runs
  BY PcBusy, BusyRun DEF Stamp
<1>2. PICK i \in s.todo :
         /\ stamp(s.batch[i], s.seen)
         /\ IF s.todo = {i}
            THEN Proceed(sh, [s EXCEPT !.todo = {}])
            ELSE run' = [run EXCEPT ![sh].todo = @ \ {i}]
  BY DEF Stamp
<1>3. table' \in [Keys -> Items \cup {Absent}]
  BY <1>1, <1>2, StampedType
<1>4. run' \in [Shards -> Runs \cup {Idle}]
  <2>1. CASE Proceed(sh, [s EXCEPT !.todo = {}])
    <3>1. [s EXCEPT !.todo = {}] \in Runs
      BY <1>1 DEF Runs
    <3> QED
      BY <2>1, <3>1, ProceedKeeps
  <2>2. CASE run' = [run EXCEPT ![sh].todo = @ \ {i}]
    <3>1. [s EXCEPT !.todo = @ \ {i}] \in Runs
      BY <1>1 DEF Runs
    <3> QED
      BY <2>2, <3>1 DEF TypeOK
  <2> QED
    BY <1>2, <2>1, <2>2
<1> QED
  BY <1>3, <1>4 DEF Stamp, TypeOK, polling, dsql

LEMMA KeyFailsType ==
    ASSUME TypeOK, NEW sh \in Shards, KeyFails(sh)
    PROVE  TypeOK'
<1>1. run[sh] \in Runs
  BY PcBusy, BusyRun DEF KeyFails
<1>2. run' \in [Shards -> Runs \cup {Idle}]
  BY <1>1, KeyErrorKeeps DEF KeyFails
<1>3. failures' \in 0..MaxFailures
  BY Bounds DEF KeyFails, TypeOK
<1>4. table' \in [Keys -> Items \cup {Absent}]
  <2>1. CASE table' = table
    BY <2>1 DEF TypeOK
  <2>2. ASSUME NEW i, stamp(run[sh].batch[i], run[sh].seen)
        PROVE  table' \in [Keys -> Items \cup {Absent}]
    BY <1>1, <2>2, StampedType
  <2> QED
    BY <2>1, <2>2 DEF KeyFails
<1> QED
  BY <1>2, <1>3, <1>4 DEF KeyFails, TypeOK, polling, dsql

LEMMA MergedFootprint ==
    ASSUME TypeOK, NEW s \in Runs, NEW u, mergeTopics(s, u)
    PROVE  footprint' \in [Keys -> Shapes \cup {NoShape}]
<1>1. ASSUME NEW t, LastItem(s, u, t) # {}
      PROVE  [fields |-> s.batch[CHOOSE i \in LastItem(s, u, t) : TRUE].stored.data] \in Shapes
  <2>1. (CHOOSE i \in LastItem(s, u, t) : TRUE) \in ItemsOf(s)
    BY <1>1 DEF LastItem, UserItems
  <2>2. s.batch[CHOOSE i \in LastItem(s, u, t) : TRUE].stored.data \in SUBSET Fields
    BY <2>1, ItemFields
  <2> QED
    BY <2>2 DEF Shapes
<1> QED
  BY <1>1 DEF mergeTopics, TypeOK

LEMMA UsersStepType ==
    ASSUME TypeOK, NEW sh \in Shards, NEW u \in Users,
           MergeUser(sh, u) \/ UserFails(sh, u)
    PROVE  TypeOK'
<1> DEFINE s == run[sh]
<1>1. s \in Runs
  BY PcBusy, BusyRun DEF MergeUser, UserFails
<1>2. CASE MergeUser(sh, u)
  <2>1. [s EXCEPT !.users = @ \ {u}] \in Runs
    BY <1>1 DEF Runs
  <2>2. run' \in [Shards -> Runs \cup {Idle}]
    BY <1>2, <2>1 DEF MergeUser, TypeOK
  <2>3. footprint' \in [Keys -> Shapes \cup {NoShape}]
    BY <1>1, <1>2, MergedFootprint DEF MergeUser
  <2> QED
    BY <1>2, <2>2, <2>3 DEF MergeUser, TypeOK, source, polling
<1>3. CASE UserFails(sh, u)
  <2>1. UserItems(s, u) \in SUBSET (Nat \ {0})
    BY <1>1, ItemsAreNat DEF UserItems
  <2>2. [s EXCEPT !.users = @ \ {u}, !.failed = @ \cup UserItems(s, u)] \in Runs
    BY <1>1, <2>1 DEF Runs
  <2>3. run' \in [Shards -> Runs \cup {Idle}]
    <3>1. run' = [run EXCEPT ![sh] =
                [s EXCEPT !.users = @ \ {u}, !.failed = @ \cup UserItems(s, u)]]
      BY <1>3 DEF UserFails
    <3> QED
      BY <2>2, <3>1, RunUpdate
  <2>4. failures' \in 0..MaxFailures
    BY <1>3, Bounds DEF UserFails, TypeOK
  <2>5. footprint' \in [Keys -> Shapes \cup {NoShape}]
    <3>1. CASE UNCHANGED footprint
      BY <3>1 DEF TypeOK
    <3>2. CASE mergeTopics(s, u)
      BY <1>1, <3>2, MergedFootprint
    <3> QED
      BY <1>3, <3>1, <3>2 DEF UserFails
  <2> QED
    BY <1>3, <2>3, <2>4, <2>5 DEF UserFails, TypeOK, source, polling
<1> QED
  BY <1>2, <1>3

LEMMA DropType ==
    ASSUME TypeOK, NEW sh \in Shards, NEW n \in Nat, stream' = Drop(sh, n)
    PROVE  stream' \in [Shards -> Seq(Events)]
<1> DEFINE q == stream[sh]
<1>1. q \in Seq(Events) /\ Len(q) \in Nat
  BY LenProperties DEF TypeOK
<1>2. SubSeq(q, n + 1, Len(q)) \in Seq(Events)
  BY <1>1, Slice
<1> QED
  BY <1>2 DEF Drop, TypeOK

LEMMA GiveBackType ==
    ASSUME TypeOK, NEW sh \in Shards, run[sh] \in Runs, NEW first \in Nat \ {0},
           GiveBack(sh, first), failures' \in 0..MaxFailures
    PROVE  TypeOK'
<1> DEFINE s == run[sh]
           n == Len(s.batch)
<1>1. n \in Nat
  BY RunFields, LenProperties
<1>2. run' \in [Shards -> Runs \cup {Idle}]
  BY RunUpdate DEF GiveBack
<1>3. tries[sh] \in 0..RetryAttempts
  BY DEF TypeOK
<1>4. CASE first = 1 /\ tries[sh] = RetryAttempts
  <2>1. /\ stream' = Drop(sh, n)
        /\ failureQueue' = failureQueue \cup {s.batch[i] : i \in ItemsOf(s)}
        /\ tries' = [tries EXCEPT ![sh] = 0]
    BY <1>4 DEF GiveBack
  <2>2. failureQueue' \subseteq Events
    BY <2>1, ItemFields DEF TypeOK
  <2>3. tries' \in [Shards -> 0..RetryAttempts]
    BY <2>1, Sizes DEF TypeOK
  <2>4. stream' \in [Shards -> Seq(Events)]
    BY <1>1, <2>1, DropType
  <2> QED
    BY <1>2, <2>2, <2>3, <2>4 DEF GiveBack, TypeOK, dsql
<1>5. CASE ~(first = 1 /\ tries[sh] = RetryAttempts)
  <2>1. /\ stream' = Drop(sh, first - 1)
        /\ tries' = [tries EXCEPT ![sh] = IF first = 1 THEN @ + 1 ELSE 1]
        /\ UNCHANGED failureQueue
    BY <1>5 DEF GiveBack
  <2>2. (IF first = 1 THEN tries[sh] + 1 ELSE 1) \in 0..RetryAttempts
    BY <1>3, <1>5, Sizes
  <2>3. tries' \in [Shards -> 0..RetryAttempts]
    BY <2>1, <2>2 DEF TypeOK
  <2>4. stream' \in [Shards -> Seq(Events)]
    BY <2>1, DropType
  <2> QED
    BY <1>2, <2>1, <2>3, <2>4 DEF GiveBack, TypeOK, dsql
<1> QED
  BY <1>4, <1>5

LEMMA ReturnType ==
    ASSUME TypeOK, NEW sh \in Shards, Return(sh)
    PROVE  TypeOK'
<1> DEFINE s == run[sh]
<1>1. s \in Runs
  BY PcBusy, BusyRun DEF Return
<1>2. failures' \in 0..MaxFailures
  BY DEF Return, TypeOK
<1>3. CASE /\ stream' = Drop(sh, Len(s.batch))
           /\ tries' = [tries EXCEPT ![sh] = 0]
           /\ run' = [run EXCEPT ![sh] = Idle]
           /\ UNCHANGED <<table, writes, lastWrite, failureQueue, dsql>>
  <2>1. Len(s.batch) \in Nat
    BY <1>1, RunFields, LenProperties
  <2>2. stream' \in [Shards -> Seq(Events)]
    BY <1>3, <2>1, DropType
  <2>3. run' \in [Shards -> Runs \cup {Idle}]
    BY <1>3, RunUpdate
  <2>4. tries' \in [Shards -> 0..RetryAttempts]
    BY <1>3, Sizes DEF TypeOK
  <2> QED
    BY <1>2, <1>3, <2>2, <2>3, <2>4 DEF TypeOK, dsql
<1>4. CASE \E first \in s.failed :
              /\ \A i \in s.failed : first <= i
              /\ GiveBack(sh, first)
  <2>1. PICK first \in s.failed : GiveBack(sh, first)
    BY <1>4
  <2>2. first \in Nat \ {0}
    BY <1>1, <2>1 DEF Runs
  <2> QED
    BY <1>1, <1>2, <2>1, <2>2, GiveBackType
<1> QED
  BY <1>3, <1>4 DEF Return

LEMMA TimeoutType ==
    ASSUME TypeOK, NEW sh \in Shards, Timeout(sh)
    PROVE  TypeOK'
<1>1. run[sh] \in Runs
  BY BusyRun DEF Timeout
<1>2. failures' \in 0..MaxFailures
  BY Bounds DEF Timeout, TypeOK
<1>3. CASE GiveBack(sh, 1)
  BY <1>1, <1>2, <1>3, GiveBackType
<1>4. CASE Bisect(sh)
  <2>1. run' \in [Shards -> Runs \cup {Idle}]
    BY <1>4, RunUpdate DEF Bisect
  <2> QED
    BY <1>2, <1>4, <2>1 DEF Bisect, TypeOK, source, polling, dsql
<1> QED
  BY <1>3, <1>4 DEF Timeout

(* The batches that Next starts.                                           *)
LEMMA StartsType ==
    ASSUME TypeOK, NEW sh \in Shards, NEW n \in 1..BatchSize,
           StartBatch(sh, n, {}) \/ \E i \in 1..n : StartBatch(sh, n, {i})
    PROVE  TypeOK'
<1>1. CASE StartBatch(sh, n, {})
  BY <1>1, StartBatchType, FS_EmptySet
<1>2. CASE \E i \in 1..n : StartBatch(sh, n, {i})
  <2>1. PICK i \in 1..n : StartBatch(sh, n, {i})
    BY <1>2
  <2>2. Cardinality({i}) \in Nat
    BY FS_Singleton
  <2> QED
    BY <2>1, <2>2, StartBatchType
<1> QED
  BY <1>1, <1>2

LEMMA ExtractType ==
    ASSUME TypeOK, NEW sh \in Shards, Extract(sh)
    PROVE  TypeOK'
BY StartsType, ReadLatestType, InsertVersionType, StampType, UsersStepType,
   ReturnType DEF Extract

LEMMA FailType ==
    ASSUME TypeOK, NEW sh \in Shards, Fail(sh)
    PROVE  TypeOK'
BY StartsType, KeyFailsType, UsersStepType, TimeoutType DEF Fail

LEMMA NextType == ASSUME TypeOK, [Next]_vars PROVE TypeOK'
<1>1. CASE Call
  BY <1>1, CallType
<1>2. CASE \E sh \in Shards : Extract(sh) \/ Fail(sh)
  BY <1>2, ExtractType, FailType
<1>3. CASE UNCHANGED vars
  BY <1>3 DEF TypeOK, vars, source, polling, dsql
<1> QED
  BY <1>1, <1>2, <1>3 DEF Next

-----------------------------------------------------------------------------
(***************************************************************************)
(* The live schemas keep their types, in particular evolve's attempts and  *)
(* the event source mapping's retries their limits.                        *)
(***************************************************************************)
THEOREM TypeCorrect == Spec => []TypeOK
  BY InitType, NextType, PTL DEF Spec

-----------------------------------------------------------------------------
(* Versions only come: what an action does to rows and to the invocations. *)

(* What the other invariants say of one invocation and one item.           *)
InsertWidensAt(R, s) ==
    s.pc = "insert" /\ s.seen # 0 =>
        \E row \in R :
            /\ row.topic = s.key
            /\ row.version = s.seen
            /\ mergeSchemas(row.schema, ObservedShape(s)) # row.schema

StampDescribesAt(R, s) ==
    s.pc = "stamp" =>
        \E row \in R :
            /\ row.topic = s.key
            /\ row.version = s.seen
            /\ \A i \in s.todo :
                  /\ s.batch[i].topic = row.topic
                  /\ Describes(row.schema, s.batch[i].stored.data)

StampSoundAt(R, T, k) ==
    T[k] # Absent /\ ~T[k].flag =>
        \E row \in R :
            /\ row.topic = k[2]
            /\ row.version = T[k].version
            /\ Describes(row.schema, T[k].stored.data)

(* An invocation that neither inserts nor stamps is bound by nothing, and  *)
(* one that does not move stays bound while versions are added.            *)
LEMMA RunsKept ==
    ASSUME InsertWidens, StampDescribes, rows \subseteq rows', NEW sh \in Shards,
           \A other \in Shards : other # sh => run'[other] = run[other],
           \/ run'[sh] = run[sh]
           \/ run'[sh].pc \notin {"insert", "stamp"}
           \/ InsertWidensAt(rows', run'[sh]) /\ StampDescribesAt(rows', run'[sh])
    PROVE  InsertWidens' /\ StampDescribes'
<1>1. ASSUME NEW other \in Shards
      PROVE  InsertWidensAt(rows, run[other]) /\ StampDescribesAt(rows, run[other])
  BY DEF InsertWidens, StampDescribes, InsertWidensAt, StampDescribesAt
<1>2. ASSUME NEW s, InsertWidensAt(rows, s), StampDescribesAt(rows, s)
      PROVE  InsertWidensAt(rows', s) /\ StampDescribesAt(rows', s)
  BY <1>2 DEF InsertWidensAt, StampDescribesAt
<1>3. ASSUME NEW other \in Shards
      PROVE  InsertWidensAt(rows', run'[other]) /\ StampDescribesAt(rows', run'[other])
  <2>1. CASE run'[other] = run[other]
    BY <1>1, <1>2, <2>1
  <2>2. CASE run'[other].pc \notin {"insert", "stamp"}
    BY <2>2 DEF InsertWidensAt, StampDescribesAt
  <2> QED
    BY <2>1, <2>2
<1> QED
  BY <1>3 DEF InsertWidens, StampDescribes, InsertWidensAt, StampDescribesAt,
              ObservedShape, KeyItems, ItemsOf

(* Stamps on records that are not touched stay true while versions are     *)
(* added.                                                                  *)
LEMMA StampsKept ==
    ASSUME StampSound, rows \subseteq rows',
           \A k \in Keys :
              \/ table'[k] = table[k]
              \/ table'[k] = Absent
              \/ table'[k].flag
              \/ StampSoundAt(rows', table', k)
    PROVE  StampSound'
<1>1. ASSUME NEW k \in Keys PROVE StampSoundAt(rows', table', k)
  BY DEF StampSound, StampSoundAt
<1> QED
  BY <1>1 DEF StampSound, StampSoundAt

-----------------------------------------------------------------------------
(* The invariant, action by action.                                        *)

Promises == VersionsWiden /\ InsertWidens /\ StampDescribes /\ StampSound

(* An action that writes neither versions nor records and leaves its       *)
(* invocation neither inserting nor stamping.                              *)
LEMMA QuietKeeps ==
    ASSUME Promises, UNCHANGED <<rows, table>>, NEW sh \in Shards,
           \A other \in Shards : other # sh => run'[other] = run[other],
           run'[sh].pc \notin {"insert", "stamp"}
    PROVE  Promises'
<1>1. InsertWidens' /\ StampDescribes'
  BY RunsKept DEF Promises
<1>2. StampSound'
  BY StampsKept DEF Promises
<1>3. VersionsWiden'
  BY DEF Promises, VersionsWiden
<1> QED
  BY <1>1, <1>2, <1>3 DEF Promises

LEMMA CallKeeps == ASSUME TypeOK, Promises, Call PROVE Promises'
<1>1. rows' = rows /\ run' = run
  BY DEF Call, Save, Update, Write, Delete, dsql
<1>2. PICK k \in Keys :
         \/ \E data \in Payloads : Save(k, data) \/ Update(k, data)
         \/ Delete(k)
  BY DEF Call
<1>3. table \in [Keys -> Items \cup {Absent}]
  BY DEF TypeOK
<1>4. \A other \in Keys : table'[other] = table[other] \/ table'[other] = Absent \/ table'[other].flag
  <2>1. CASE Delete(k)
    BY <1>3, <2>1 DEF Delete
  <2>2. ASSUME NEW data, NEW version, Write(k, data, version)
        PROVE  \A other \in Keys : table'[other] = table[other] \/ table'[other].flag
    <3> DEFINE stored == [data |-> data, nonce |-> IF Encrypted THEN writes ELSE 0]
               item == [stored |-> stored, flag |-> TRUE, version |-> version]
    <3>1. table' = [table EXCEPT ![k] = item]
      BY <2>2 DEF Write
    <3>2. item.flag
      OBVIOUS
    <3> HIDE DEF item
    <3> QED
      BY <1>3, <3>1, <3>2
  <2> QED
    BY <1>2, <2>1, <2>2 DEF Save, Update
<1>5. StampSound'
  BY <1>1, <1>4, StampsKept DEF Promises
<1>6. InsertWidens' /\ StampDescribes'
  <2>1. ShardOf[k[1]] \in Shards
    BY ShardsOfUsers DEF Keys
  <2> QED
    BY <1>1, <2>1, RunsKept DEF Promises
<1>7. VersionsWiden'
  BY <1>1 DEF Promises, VersionsWiden
<1> QED
  BY <1>5, <1>6, <1>7 DEF Promises

LEMMA StartsKeep ==
    ASSUME TypeOK, Promises, NEW sh \in Shards, NEW n \in 1..BatchSize,
           NEW unread \in SUBSET (1..n), StartBatch(sh, n, unread)
    PROVE  Promises'
<1>1. \E s \in Runs : Proceed(sh, s)
  BY StartedRun
<1>3. /\ run'[sh].pc \in {"read", "users"}
      /\ \A other \in Shards : other # sh => run'[other] = run[other]
  BY <1>1, ProceedKeeps
<1>4. UNCHANGED <<rows, table>>
  BY DEF StartBatch, source, dsql
<1> QED
  BY <1>3, <1>4, QuietKeeps

LEMMA ObservedOfItem ==
    ASSUME NEW s, NEW i \in KeyItems(s)
    PROVE  /\ s.batch[i].topic = s.key
           /\ Describes(ObservedShape(s), s.batch[i].stored.data)
<1>1. s.batch[i].stored.data \in {s.batch[j].stored.data : j \in KeyItems(s)}
  OBVIOUS
<1> QED
  BY <1>1, ObservedDescribes DEF ObservedShape, KeyItems

LEMMA SameItems ==
    ASSUME NEW s, NEW s2, s2.batch = s.batch, s2.key = s.key, s2.failed = s.failed
    PROVE  KeyItems(s2) = KeyItems(s) /\ ObservedShape(s2) = ObservedShape(s)
BY DEF ObservedShape, KeyItems, ItemsOf

LEMMA ReadLatestKeeps ==
    ASSUME TypeOK, Promises, NEW sh \in Shards, ReadLatest(sh)
    PROVE  Promises'
<1> DEFINE s == run[sh]
<1>1. s \in Runs
  <2>1. run[sh].pc = "read"
    BY DEF ReadLatest
  <2> QED
    BY <2>1, PcBusy, BusyRun
<1>2. UNCHANGED <<rows, table>>
  BY DEF ReadLatest, source, dsql
<1>3. /\ run \in [Shards -> Runs \cup {Idle}]
      /\ \A other \in Shards : other # sh => run'[other] = run[other]
  BY DEF ReadLatest, TypeOK
<1>4. InsertWidensAt(rows', run'[sh]) /\ StampDescribesAt(rows', run'[sh])
  <2>1. CASE run' = [run EXCEPT ![sh] = [s EXCEPT !.pc = "insert", !.seen = 0]]
    <3>1. run'[sh].pc = "insert" /\ run'[sh].seen = 0
      BY <1>1, <1>3, <2>1 DEF Runs
    <3> QED
      BY <3>1 DEF InsertWidensAt, StampDescribesAt
  <2>2. ASSUME NEW row \in getLatest(s.key),
               mergeSchemas(row.schema, ObservedShape(s)) # row.schema,
               run' = [run EXCEPT ![sh] =
                         [s EXCEPT !.pc = "insert", !.seen = row.version, !.todo = {}]]
        PROVE  InsertWidensAt(rows', run'[sh]) /\ StampDescribesAt(rows', run'[sh])
    <3>1. /\ run'[sh].pc = "insert"
          /\ run'[sh].seen = row.version
          /\ run'[sh].batch = s.batch /\ run'[sh].key = s.key /\ run'[sh].failed = s.failed
      BY <1>1, <1>3, <2>2 DEF Runs
    <3>2. ObservedShape(run'[sh]) = ObservedShape(s)
      BY <3>1, SameItems
    <3>3. row \in rows' /\ row.topic = s.key
      BY <1>2 DEF getLatest
    <3> QED
      BY <2>2, <3>1, <3>2, <3>3 DEF InsertWidensAt, StampDescribesAt
  <2>3. ASSUME NEW row \in getLatest(s.key),
               mergeSchemas(row.schema, ObservedShape(s)) = row.schema,
               run' = [run EXCEPT ![sh] =
                         [s EXCEPT !.pc = "stamp", !.seen = row.version, !.todo = KeyItems(s)]]
        PROVE  InsertWidensAt(rows', run'[sh]) /\ StampDescribesAt(rows', run'[sh])
    <3>1. /\ run'[sh].pc = "stamp"
          /\ run'[sh].seen = row.version
          /\ run'[sh].todo = KeyItems(s)
          /\ run'[sh].batch = s.batch /\ run'[sh].key = s.key
      BY <1>1, <1>3, <2>3 DEF Runs
    <3>2. row \in rows' /\ row.topic = s.key
      BY <1>2 DEF getLatest
    <3>3. \A i \in KeyItems(s) : /\ s.batch[i].topic = s.key
                                 /\ Describes(row.schema, s.batch[i].stored.data)
      BY <2>3, ObservedOfItem, MergeDescribes
    <3> QED
      BY <3>1, <3>2, <3>3 DEF InsertWidensAt, StampDescribesAt
  <2>4. ASSUME NEW row \in getLatest(s.key),
               run' = [run EXCEPT ![sh] =
                  [s EXCEPT !.pc = IF mergeSchemas(row.schema, ObservedShape(s)) = row.schema
                                   THEN "stamp" ELSE "insert",
                            !.seen = row.version,
                            !.todo = IF mergeSchemas(row.schema, ObservedShape(s)) = row.schema
                                     THEN KeyItems(s) ELSE {}]]
        PROVE  InsertWidensAt(rows', run'[sh]) /\ StampDescribesAt(rows', run'[sh])
    <3>1. CASE mergeSchemas(row.schema, ObservedShape(s)) = row.schema
      BY <2>3, <2>4, <3>1
    <3>2. CASE mergeSchemas(row.schema, ObservedShape(s)) # row.schema
      BY <2>2, <2>4, <3>2
    <3> QED
      BY <3>1, <3>2
  <2> QED
    BY <2>1, <2>4 DEF ReadLatest
<1>5. InsertWidens' /\ StampDescribes'
  BY <1>2, <1>3, <1>4, RunsKept DEF Promises
<1>6. StampSound' /\ VersionsWiden'
  BY <1>2, StampsKept DEF Promises, VersionsWiden
<1> QED
  BY <1>5, <1>6 DEF Promises

(* A stamp of an item that a version describes.                            *)
LEMMA StampedSound ==
    ASSUME TypeOK, Promises, rows' = rows, NEW s, NEW i, NEW row \in rows,
           row.version = s.seen, s.batch[i].topic = row.topic,
           Describes(row.schema, s.batch[i].stored.data),
           stamp(s.batch[i], s.seen)
    PROVE  StampSound'
<1> DEFINE k == KeyOf(s.batch[i])
<1>1. CASE table' = table
  BY <1>1, StampsKept DEF Promises
<1>2. CASE /\ table[k] # Absent
           /\ table[k].stored = s.batch[i].stored
           /\ table' = [table EXCEPT ![k] =
                          [table[k] EXCEPT !.version = s.seen, !.flag = FALSE]]
  <2>1. ASSUME NEW other \in Keys, other # k PROVE table'[other] = table[other]
    BY <1>2, <2>1 DEF TypeOK
  <2>2. ASSUME k \in Keys PROVE StampSoundAt(rows', table', k)
    <3>1. table[k] \in Items
      BY <1>2, <2>2 DEF TypeOK
    <3>2. table'[k] = [table[k] EXCEPT !.version = s.seen, !.flag = FALSE]
      BY <1>2, <2>2 DEF TypeOK
    <3>3. table'[k].version = s.seen /\ table'[k].stored = s.batch[i].stored
      <4>1. table'[k].version = s.seen
        BY <3>1, <3>2 DEF Items
      <4>2. table'[k].stored = table[k].stored
        BY <3>1, <3>2 DEF Items
      <4> QED
        BY <1>2, <4>1, <4>2
    <3>4. k[2] = s.batch[i].topic
      BY DEF KeyOf
    <3> QED
      BY <3>3, <3>4 DEF StampSoundAt
  <2> HIDE DEF k
  <2> QED
    BY <2>1, <2>2, StampsKept DEF Promises
<1> QED
  BY <1>1, <1>2 DEF stamp

LEMMA StampKeeps ==
    ASSUME TypeOK, Promises, NEW sh \in Shards, Stamp(sh)
    PROVE  Promises'
<1> DEFINE s == run[sh]
<1>1. s.pc = "stamp" /\ s \in Runs
  BY PcBusy, BusyRun DEF Stamp
<1>2. rows' = rows
  BY DEF Stamp, dsql
<1>3. PICK i \in s.todo :
         /\ stamp(s.batch[i], s.seen)
         /\ IF s.todo = {i}
            THEN Proceed(sh, [s EXCEPT !.todo = {}])
            ELSE run' = [run EXCEPT ![sh].todo = @ \ {i}]
  BY DEF Stamp
<1>4. PICK row \in rows :
         /\ row.topic = s.key
         /\ row.version = s.seen
         /\ \A j \in s.todo : /\ s.batch[j].topic = row.topic
                              /\ Describes(row.schema, s.batch[j].stored.data)
  BY <1>1 DEF Promises, StampDescribes
<1>5. InsertWidens' /\ StampDescribes'
  <2>1. CASE Proceed(sh, [s EXCEPT !.todo = {}])
    <3>1. [s EXCEPT !.todo = {}] \in Runs
      BY <1>1 DEF Runs
    <3>2. /\ run'[sh].pc \in {"read", "users"}
          /\ \A other \in Shards : other # sh => run'[other] = run[other]
      BY <2>1, <3>1, ProceedKeeps
    <3> QED
      BY <1>2, <3>2, RunsKept DEF Promises
  <2>2. CASE run' = [run EXCEPT ![sh].todo = @ \ {i}]
    <3>1. /\ run'[sh].pc = "stamp"
          /\ run'[sh].key = s.key /\ run'[sh].seen = s.seen /\ run'[sh].batch = s.batch
          /\ run'[sh].todo \subseteq s.todo
          /\ \A other \in Shards : other # sh => run'[other] = run[other]
      BY <1>1, <2>2 DEF TypeOK, Runs
    <3>2. InsertWidensAt(rows', run'[sh]) /\ StampDescribesAt(rows', run'[sh])
      BY <1>2, <1>4, <3>1 DEF InsertWidensAt, StampDescribesAt
    <3> QED
      BY <1>2, <3>1, <3>2, RunsKept DEF Promises
  <2> QED
    BY <1>3, <2>1, <2>2
<1>6. StampSound'
  BY <1>2, <1>3, <1>4, StampedSound
<1>7. VersionsWiden'
  BY <1>2 DEF Promises, VersionsWiden
<1> QED
  BY <1>5, <1>6, <1>7 DEF Promises

LEMMA MergedDescribes ==
    ASSUME NEW s, NEW data, Describes(ObservedShape(s), data)
    PROVE  Describes(Merged(s), data)
BY MergeDescribes DEF Merged

(* A version made from one that was read widens that one.                  *)
LEMMA MergedWidens ==
    ASSUME VersionsWiden, NEW s, NEW last \in rows,
           last.topic = s.key, last.version = s.seen,
           mergeSchemas(last.schema, ObservedShape(s)) # last.schema
    PROVE  /\ last.schema.props \subseteq Merged(s).props
           /\ Merged(s).required \subseteq last.schema.required
           /\ last.schema # Merged(s)
<1> DEFINE latest == {row \in rows : row.topic = s.key /\ row.version = s.seen}
<1>1. latest = {last}
  BY DEF VersionsWiden, Widening
<1>2. (CHOOSE row \in latest : TRUE) = last
  BY <1>1
<1>3. Merged(s) = mergeSchemas(last.schema, ObservedShape(s))
  BY <1>1, <1>2 DEF Merged
<1> QED
  BY <1>3, MergeWidens

LEMMA InsertVersionKeeps ==
    ASSUME TypeOK, Promises, NEW sh \in Shards, InsertVersion(sh)
    PROVE  Promises'
<1> DEFINE s == run[sh]
           version == nextSchemaVersion(s.seen)
           taken == \E row \in rows : row.topic = s.key /\ row.version = version
           row == [topic |-> s.key, version |-> version, schema |-> Merged(s)]
<1>1. s.pc = "insert" /\ s \in Runs
  BY PcBusy, BusyRun DEF InsertVersion
<1>2. table' = table
  BY DEF InsertVersion, source
<1>3. CASE /\ ~taken
           /\ rows' = rows \cup {row}
           /\ run' = [run EXCEPT ![sh] =
                 [s EXCEPT !.pc = "stamp", !.seen = version, !.todo = KeyItems(s)]]
  <2>1. /\ run'[sh].pc = "stamp"
        /\ run'[sh].seen = version
        /\ run'[sh].todo = KeyItems(s)
        /\ run'[sh].batch = s.batch /\ run'[sh].key = s.key
        /\ \A other \in Shards : other # sh => run'[other] = run[other]
    BY <1>1, <1>3 DEF TypeOK, Runs
  <2>2. /\ row \in rows' /\ rows \subseteq rows'
        /\ row.topic = s.key /\ row.version = version /\ row.schema = Merged(s)
    BY <1>3
  <2>3. \A i \in KeyItems(s) : /\ s.batch[i].topic = s.key
                               /\ Describes(Merged(s), s.batch[i].stored.data)
    BY ObservedOfItem, MergedDescribes
  <2>4. InsertWidensAt(rows', run'[sh]) /\ StampDescribesAt(rows', run'[sh])
    <3> HIDE DEF row, version
    <3> QED
      BY <2>1, <2>2, <2>3 DEF InsertWidensAt, StampDescribesAt
  <2>5. InsertWidens' /\ StampDescribes'
    BY <2>1, <2>2, <2>4, RunsKept DEF Promises
  <2>6. StampSound'
    BY <1>2, <2>2, StampsKept DEF Promises
  <2>7. /\ version >= INITIAL_SCHEMA_VERSION
        /\ version # INITIAL_SCHEMA_VERSION => s.seen # 0 /\ version - 1 = s.seen
    <3>1. s.seen \in Nat
      BY <1>1, RunFields
    <3>2. s.seen # 0 => s.seen >= INITIAL_SCHEMA_VERSION
      BY <1>1 DEF Promises, InsertWidens, VersionsWiden, Widening
    <3> QED
      BY <3>1, <3>2 DEF nextSchemaVersion, INITIAL_SCHEMA_VERSION
  <2>8. version # INITIAL_SCHEMA_VERSION =>
           \E last \in rows' :
               /\ last.topic = row.topic
               /\ last.version = row.version - 1
               /\ last.schema.props \subseteq row.schema.props
               /\ row.schema.required \subseteq last.schema.required
               /\ last.schema # row.schema
    <3> SUFFICES ASSUME version # INITIAL_SCHEMA_VERSION
                 PROVE  \E last \in rows' :
                           /\ last.topic = row.topic
                           /\ last.version = row.version - 1
                           /\ last.schema.props \subseteq row.schema.props
                           /\ row.schema.required \subseteq last.schema.required
                           /\ last.schema # row.schema
      OBVIOUS
    <3>1. PICK last \in rows :
             /\ last.topic = s.key
             /\ last.version = s.seen
             /\ mergeSchemas(last.schema, ObservedShape(s)) # last.schema
      BY <1>1, <2>7 DEF Promises, InsertWidens
    <3>2. /\ last.schema.props \subseteq Merged(s).props
          /\ Merged(s).required \subseteq last.schema.required
          /\ last.schema # Merged(s)
      BY <3>1, MergedWidens DEF Promises
    <3> HIDE DEF row, version
    <3> QED
      BY <2>2, <2>7, <3>1, <3>2
  <2>9. VersionsWiden'
    <3> HIDE DEF row, version
    <3>1. ASSUME NEW r \in rows', NEW other \in rows',
                 other.topic = r.topic, other.version = r.version
          PROVE  other = r
      <4>1. r \in rows \/ r = row
        BY <1>3
      <4>2. other \in rows \/ other = row
        BY <1>3
      <4> QED
        BY <1>3, <2>2, <3>1, <4>1, <4>2 DEF Promises, VersionsWiden, Widening
    <3>2. ASSUME NEW r \in rows', r # row
          PROVE  /\ r.version >= INITIAL_SCHEMA_VERSION
                 /\ r.version # INITIAL_SCHEMA_VERSION =>
                       \E last \in rows' :
                           /\ last.topic = r.topic
                           /\ last.version = r.version - 1
                           /\ last.schema.props \subseteq r.schema.props
                           /\ r.schema.required \subseteq last.schema.required
                           /\ last.schema # r.schema
      <4>1. r \in rows
        BY <1>3, <3>2
      <4> QED
        BY <2>2, <4>1 DEF Promises, VersionsWiden, Widening
    <3> QED
      BY <2>2, <2>7, <2>8, <3>1, <3>2 DEF VersionsWiden, Widening
  <2> QED
    BY <2>5, <2>6, <2>9 DEF Promises
<1>4. CASE run' = [run EXCEPT ![sh] = [s EXCEPT !.pc = "read", !.attempt = @ + 1]] /\ UNCHANGED rows
  <2>1. /\ run'[sh].pc = "read"
        /\ \A other \in Shards : other # sh => run'[other] = run[other]
    BY <1>1, <1>4 DEF TypeOK, Runs
  <2> QED
    BY <1>2, <1>4, <2>1, QuietKeeps
<1>5. CASE KeyError(sh) /\ UNCHANGED rows
  <2>1. /\ run'[sh].pc \in {"read", "users"}
        /\ \A other \in Shards : other # sh => run'[other] = run[other]
    BY <1>1, <1>5, KeyErrorKeeps
  <2> QED
    BY <1>2, <1>5, <2>1, QuietKeeps
<1> QED
  BY <1>3, <1>4, <1>5 DEF InsertVersion

LEMMA ErrorKeeps ==
    ASSUME TypeOK, Promises, NEW sh \in Shards, KeyFails(sh)
    PROVE  Promises'
<1>1. run[sh] \in Runs
  BY PcBusy, BusyRun DEF KeyFails
<1>2. /\ run'[sh].pc \in {"read", "users"}
      /\ \A other \in Shards : other # sh => run'[other] = run[other]
  BY <1>1, KeyErrorKeeps DEF KeyFails
<1>3. rows' = rows
  BY DEF KeyFails, dsql
<1>4. StampSound'
  <2>1. CASE table' = table
    BY <1>3, <2>1, StampsKept DEF Promises
  <2>2. ASSUME run[sh].pc = "stamp",
               NEW i \in run[sh].todo, stamp(run[sh].batch[i], run[sh].seen)
        PROVE  StampSound'
    <3>1. PICK row \in rows :
             /\ row.version = run[sh].seen
             /\ run[sh].batch[i].topic = row.topic
             /\ Describes(row.schema, run[sh].batch[i].stored.data)
      BY <2>2 DEF Promises, StampDescribes
    <3> QED
      BY <1>3, <2>2, <3>1, StampedSound
  <2> QED
    BY <2>1, <2>2 DEF KeyFails
<1>5. InsertWidens' /\ StampDescribes'
  BY <1>2, <1>3, RunsKept DEF Promises
<1>6. VersionsWiden'
  BY <1>3 DEF Promises, VersionsWiden
<1> QED
  BY <1>4, <1>5, <1>6 DEF Promises

LEMMA UsersKeep ==
    ASSUME TypeOK, Promises, NEW sh \in Shards, NEW u \in Users,
           MergeUser(sh, u) \/ UserFails(sh, u)
    PROVE  Promises'
<1>1. run[sh] \in Runs /\ run[sh].pc = "users"
  BY PcBusy, BusyRun DEF MergeUser, UserFails
<1>2. /\ run'[sh].pc = "users"
      /\ \A other \in Shards : other # sh => run'[other] = run[other]
  <2>1. CASE MergeUser(sh, u)
    BY <1>1, <2>1 DEF MergeUser, TypeOK, Runs
  <2>2. CASE UserFails(sh, u)
    BY <1>1, <2>2 DEF UserFails, TypeOK, Runs
  <2> QED
    BY <2>1, <2>2
<1>3. UNCHANGED <<rows, table>>
  BY DEF MergeUser, UserFails, source, dsql
<1> QED
  BY <1>2, <1>3, QuietKeeps

LEMMA EndKeeps ==
    ASSUME TypeOK, Promises, NEW sh \in Shards, Return(sh) \/ Timeout(sh)
    PROVE  Promises'
<1>1. run' = [run EXCEPT ![sh] = Idle] /\ UNCHANGED <<rows, table>>
  <2>1. \A first : GiveBack(sh, first) =>
           run' = [run EXCEPT ![sh] = Idle] /\ UNCHANGED <<rows, table>>
    BY DEF GiveBack, dsql
  <2>2. CASE Return(sh)
    BY <2>1, <2>2 DEF Return, dsql
  <2>3. CASE Timeout(sh)
    BY <2>1, <2>3 DEF Timeout, Bisect, source, dsql
  <2> QED
    BY <2>2, <2>3
<1>2. /\ run'[sh].pc = "idle"
      /\ \A other \in Shards : other # sh => run'[other] = run[other]
  BY <1>1 DEF TypeOK, Idle
<1> QED
  BY <1>1, <1>2, QuietKeeps

-----------------------------------------------------------------------------
LEMMA InitIInv == Init => IInv
<1> SUFFICES ASSUME Init PROVE IInv
  OBVIOUS
<1>1. VersionsWiden
  BY EarlierVersions DEF Init, VersionsWiden
<1>2. InsertWidens /\ StampDescribes
  BY DEF Init, Idle, InsertWidens, StampDescribes
<1>3. StampSound
  BY DEF Init, StampSound
<1> QED
  BY <1>1, <1>2, <1>3, InitType DEF IInv

LEMMA NextIInv == ASSUME IInv, [Next]_vars PROVE IInv'
<1>1. TypeOK /\ Promises
  BY DEF IInv, Promises
<1>2. TypeOK'
  BY <1>1, NextType
<1>3. Promises'
  <2>1. CASE Call
    BY <1>1, <2>1, CallKeeps
  <2>2. ASSUME NEW sh \in Shards, Extract(sh) \/ Fail(sh)
        PROVE  Promises'
    <3>1. CASE \E n \in 1..BatchSize : StartBatch(sh, n, {})
      <4>1. PICK n \in 1..BatchSize : StartBatch(sh, n, {})
        BY <3>1
      <4>2. {} \in SUBSET (1..n)
        OBVIOUS
      <4> QED
        BY <1>1, <4>1, <4>2, StartsKeep
    <3>2. CASE \E n \in 1..BatchSize : \E i \in 1..n : StartBatch(sh, n, {i})
      <4>1. PICK n \in 1..BatchSize : \E i \in 1..n : StartBatch(sh, n, {i})
        BY <3>2
      <4>2. PICK i \in 1..n : StartBatch(sh, n, {i})
        BY <4>1
      <4>3. {i} \in SUBSET (1..n)
        OBVIOUS
      <4> QED
        BY <1>1, <4>1, <4>2, <4>3, StartsKeep
    <3>3. CASE ReadLatest(sh) \/ InsertVersion(sh) \/ Stamp(sh)
      BY <1>1, <3>3, ReadLatestKeeps, InsertVersionKeeps, StampKeeps
    <3>4. CASE \E u \in Users : MergeUser(sh, u) \/ UserFails(sh, u)
      BY <1>1, <3>4, UsersKeep
    <3>5. CASE KeyFails(sh)
      BY <1>1, <3>5, ErrorKeeps
    <3>6. CASE Return(sh) \/ Timeout(sh)
      BY <1>1, <3>6, EndKeeps
    <3> QED
      BY <2>2, <3>1, <3>2, <3>3, <3>4, <3>5, <3>6 DEF Extract, Fail
  <2>3. CASE UNCHANGED vars
    <3>1. UNCHANGED <<rows, table, run>>
      BY <2>3 DEF vars, source, dsql
    <3>2. VersionsWiden'
      BY <1>1, <3>1 DEF Promises, VersionsWiden
    <3>3. InsertWidens' /\ StampDescribes'
      BY <1>1, <3>1 DEF Promises, InsertWidens, StampDescribes
    <3>4. StampSound'
      BY <1>1, <3>1, StampsKept DEF Promises
    <3> QED
      BY <3>2, <3>3, <3>4 DEF Promises
  <2> QED
    BY <2>1, <2>2, <2>3 DEF Next
<1> QED
  BY <1>2, <1>3 DEF IInv, Promises

(***************************************************************************)
(* The invariant that the promises of stamps and versions rest on: an      *)
(* invocation only inserts what widens the version it read, and only       *)
(* stamps what its version describes.                                      *)
(***************************************************************************)
THEOREM Inductive == Spec => []IInv
  BY InitIInv, NextIInv, PTL DEF Spec

(***************************************************************************)
(* A record whose flag is down bears a version that describes its data,    *)
(* for any number of shards that race for versions, any batches, failures  *)
(* and rewrites of the record between its event and its stamp.             *)
(***************************************************************************)
THEOREM StampsAreSound == Spec => []StampSound
<1>1. IInv => StampSound
  BY DEF IInv
<1> QED
  BY <1>1, Inductive, PTL

(***************************************************************************)
(* evolve's insert, which does nothing on a conflict, leaves each topic    *)
(* one chain of versions without gaps in which each widens the last.       *)
(***************************************************************************)
THEOREM VersionsFormAChain == Spec => []VersionsWiden
<1>1. IInv => VersionsWiden
  BY DEF IInv
<1> QED
  BY <1>1, Inductive, PTL

-----------------------------------------------------------------------------
(* Numbers.                                                                *)

LEMMA LessIsWellFounded ==
    IsWellFoundedOn({pair \in Nat \X Nat : pair[1] < pair[2]}, Nat)
BY NatLessThanWellFounded DEF OpToRel

LEMMA LeastNumber ==
    ASSUME NEW T \in SUBSET Nat, T # {}
    PROVE  \E x \in T : \A y \in T : x <= y
<1> DEFINE R == {pair \in Nat \X Nat : pair[1] < pair[2]}
<1>1. \E x \in T : \A y \in T : ~(<<y, x>> \in R)
  <2>1. IsWellFoundedOn(R, Nat)
    BY LessIsWellFounded
  <2> HIDE DEF R
  <2> QED
    BY <2>1, WFMin
<1>2. PICK x \in T : \A y \in T : ~(<<y, x>> \in R)
  BY <1>1
<1>3. ASSUME NEW y \in T PROVE x <= y
  <2>1. ~(y < x)
    BY <1>2
  <2> QED
    BY <2>1
<1> QED
  BY <1>3

LEMMA GreatestNumber ==
    ASSUME NEW T \in SUBSET Nat, T # {}, NEW n \in Nat, \A x \in T : x <= n
    PROVE  \E x \in T : \A y \in T : y <= x
<1> DEFINE D == {n - x : x \in T}
<1>1. D \in SUBSET Nat /\ D # {}
  <2>1. \A x \in T : n - x \in Nat
    OBVIOUS
  <2> QED
    BY <2>1
<1>2. PICK d \in D : \A e \in D : d <= e
  BY <1>1, LeastNumber
<1>3. PICK x \in T : d = n - x
  BY <1>2
<1>4. ASSUME NEW y \in T PROVE y <= x
  <2>1. n - y \in D
    OBVIOUS
  <2>2. n - x <= n - y
    BY <1>2, <1>3, <2>1
  <2> QED
    BY <2>2
<1> QED
  BY <1>4

-----------------------------------------------------------------------------
(* Versions.                                                               *)

(* Finitely many numbers have a bound.                                     *)
LEMMA NumbersAreBounded ==
    ASSUME NEW n \in Nat, NEW g \in [1..n -> Nat]
    PROVE  \E bound \in Nat : \A i \in 1..n : g[i] <= bound
<1> DEFINE Bounded(m) == \E bound \in Nat : \A i \in 1..m : g[i] <= bound
           T == {m \in 0..n : ~Bounded(m)}
<1>1. T \in SUBSET Nat
  OBVIOUS
<1>2. ASSUME NEW m \in T PROVE \E less \in T : less < m
  <2>1. Bounded(0)
    <3>1. 0 \in Nat /\ 1..0 = {}
      OBVIOUS
    <3> QED
      BY <3>1
  <2>2. m \in 1..n
    BY <2>1
  <2>3. SUFFICES ASSUME Bounded(m - 1) PROVE Bounded(m)
    <3>1. m - 1 \in 0..n /\ m - 1 < m
      BY <2>2
    <3>2. ~Bounded(m)
      OBVIOUS
    <3> HIDE DEF Bounded
    <3> QED
      BY <3>1, <3>2
  <2>4. PICK bound \in Nat : \A i \in 1..(m - 1) : g[i] <= bound
    BY <2>3
  <2>5. g[m] \in Nat
    BY <2>2
  <2>6. bound + g[m] \in Nat
    BY <2>5
  <2>7. ASSUME NEW i \in 1..m PROVE g[i] <= bound + g[m]
    <3>1. CASE i = m
      BY <2>5, <3>1
    <3>2. CASE i # m
      <4>1. i \in 1..(m - 1) /\ i \in 1..n
        BY <2>2, <3>2
      <4>2. g[i] <= bound /\ g[i] \in Nat
        BY <2>4, <4>1
      <4> QED
        BY <2>5, <4>2
    <3> QED
      BY <3>1, <3>2
  <2> QED
    BY <2>6, <2>7
<1>3. T = {}
  <2> HIDE DEF T
  <2>1. SUFFICES ASSUME T # {} PROVE FALSE
    OBVIOUS
  <2>2. PICK m \in T : \A other \in T : m <= other
    BY <1>1, <2>1, LeastNumber
  <2>3. PICK less \in T : less < m
    BY <1>2
  <2> QED
    BY <1>1, <2>2, <2>3
<1>4. n \in 0..n
  OBVIOUS
<1>5. Bounded(n)
  <2> HIDE DEF Bounded
  <2> QED
    BY <1>3, <1>4
<1> QED
  BY <1>5

(* A finite set of versions has a highest one of each of its topics.       *)
LEMMA FiniteIsBounded ==
    ASSUME NEW R \in SUBSET Rows, IsFiniteSet(R)
    PROVE  \E bound \in Nat : \A row \in R : row.version <= bound
<1>1. PICK n \in Nat : ExistsBijection(1..n, R)
  BY FS_NatBijection
<1>2. PICK f \in Bijection(1..n, R) : TRUE
  BY <1>1 DEF ExistsBijection
<1>3. f \in [1..n -> R] /\ \A row \in R : \E i \in 1..n : f[i] = row
  BY <1>2 DEF Bijection, Injection, Surjection
<1> DEFINE g == [i \in 1..n |-> f[i].version]
<1>4. g \in [1..n -> Nat]
  BY <1>3 DEF Rows
<1>5. PICK bound \in Nat : \A i \in 1..n : g[i] <= bound
  <2> HIDE DEF g
  <2> QED
    BY <1>4, NumbersAreBounded
<1>6. ASSUME NEW row \in R PROVE row.version <= bound
  <2>1. PICK i \in 1..n : f[i] = row
    BY <1>3
  <2>2. g[i] = row.version
    BY <2>1
  <2> HIDE DEF g
  <2> QED
    BY <1>5, <2>2
<1> QED
  BY <1>6

LEMMA HighestVersion ==
    ASSUME NEW R \in SUBSET Rows, IsFiniteSet(R), NEW row \in R
    PROVE  \E last \in R :
              /\ last.topic = row.topic
              /\ \A other \in R : other.topic = row.topic => other.version <= last.version
<1>1. PICK bound \in Nat : \A other \in R : other.version <= bound
  BY FiniteIsBounded
<1> DEFINE V == {other.version : other \in {any \in R : any.topic = row.topic}}
<1>2. V \in SUBSET Nat /\ V # {} /\ \A v \in V : v <= bound
  BY <1>1 DEF Rows
<1>3. PICK v \in V : \A w \in V : w <= v
  BY <1>2, GreatestNumber
<1>4. PICK last \in R : last.topic = row.topic /\ last.version = v
  BY <1>3
<1> QED
  BY <1>3, <1>4

(* Of two versions of a topic the higher one has all fields of the lower   *)
(* one and requires no more.                                               *)
LEMMA HigherIsWider ==
    ASSUME NEW R \in SUBSET Rows, Widening(R), NEW low \in R, NEW high \in R,
           high.topic = low.topic, low.version <= high.version
    PROVE  /\ low.schema.props \subseteq high.schema.props
           /\ high.schema.required \subseteq low.schema.required
<1> DEFINE Wider(row) == /\ low.schema.props \subseteq row.schema.props
                         /\ row.schema.required \subseteq low.schema.required
           Odd(row) == row.topic = low.topic /\ low.version <= row.version /\ ~Wider(row)
           V == {row.version : row \in {any \in R : Odd(any)}}
<1>1. V \in SUBSET Nat
  BY DEF Rows
<1>2. V = {}
  <2>1. SUFFICES ASSUME V # {} PROVE FALSE
    OBVIOUS
  <2>2. PICK v \in V : \A w \in V : v <= w
    <3> HIDE DEF V
    <3> QED
      BY <1>1, <2>1, LeastNumber
  <2>3. PICK row \in R : Odd(row) /\ row.version = v
    BY <2>2
  <2>4. row # low
    BY <2>3
  <2>5. row.version # low.version
    BY <2>3, <2>4 DEF Widening
  <2>6. low.version >= INITIAL_SCHEMA_VERSION
    BY DEF Widening
  <2>7. row.version \in Nat /\ low.version \in Nat
    BY DEF Rows
  <2>8. row.version # INITIAL_SCHEMA_VERSION
    BY <2>3, <2>5, <2>6, <2>7 DEF INITIAL_SCHEMA_VERSION
  <2>9. PICK last \in R :
           /\ last.topic = row.topic
           /\ last.version = row.version - 1
           /\ last.schema.props \subseteq row.schema.props
           /\ row.schema.required \subseteq last.schema.required
    BY <2>8 DEF Widening
  <2>10. low.version <= last.version /\ ~(v <= last.version)
    BY <2>3, <2>5, <2>7, <2>9
  <2>11. ~Odd(last)
    <3>1. last.version \notin V
      BY <2>2, <2>10
    <3> HIDE DEF Odd
    <3> QED
      BY <3>1
  <2>12. Wider(last)
    BY <2>3, <2>9, <2>10, <2>11
  <2> QED
    BY <2>3, <2>9, <2>12
<1>3. ~Odd(high)
  <2> HIDE DEF Odd
  <2> QED
    BY <1>2
<1> QED
  BY <1>3

(***************************************************************************)
(* What has been stamped stays described: the version that a record bears, *)
(* and every later one of its topic, describes the record's data.          *)
(***************************************************************************)
StampStaysSound ==
    \A k \in Keys :
        table[k] # Absent /\ ~table[k].flag =>
            \A row \in rows :
                row.topic = k[2] /\ row.version >= table[k].version =>
                    Describes(row.schema, table[k].stored.data)

(* StampStaysSound holds, since a topic's versions only widen.             *)
THEOREM LaterVersionsDescribe == Spec => []StampStaysSound
<1>1. TypeOK /\ VersionsWiden /\ StampSound => StampStaysSound
  <2> SUFFICES ASSUME TypeOK, VersionsWiden, StampSound,
                      NEW k \in Keys, table[k] # Absent, ~table[k].flag,
                      NEW row \in rows, row.topic = k[2], row.version >= table[k].version
               PROVE  Describes(row.schema, table[k].stored.data)
    BY DEF StampStaysSound
  <2>1. PICK stamped \in rows :
           /\ stamped.topic = k[2]
           /\ stamped.version = table[k].version
           /\ Describes(stamped.schema, table[k].stored.data)
    BY DEF StampSound
  <2>2. rows \in SUBSET Rows /\ Widening(rows)
    BY DEF TypeOK, VersionsWiden
  <2>3. stamped.version <= row.version
    BY <2>1, <2>2 DEF Rows
  <2>4. /\ stamped.schema.props \subseteq row.schema.props
        /\ row.schema.required \subseteq stamped.schema.required
    BY <2>1, <2>2, <2>3, HigherIsWider
  <2> QED
    BY <2>1, <2>4 DEF Describes
<1> QED
  BY <1>1, TypeCorrect, VersionsFormAChain, StampsAreSound, PTL

(* No step adds more than one version.                                     *)
LEMMA NextFinite == ASSUME IsFiniteSet(rows), [Next]_vars PROVE IsFiniteSet(rows')
<1>1. CASE Call \/ UNCHANGED vars
  BY <1>1 DEF Call, Save, Update, Write, Delete, vars, dsql
<1>2. ASSUME NEW sh \in Shards, Extract(sh) \/ Fail(sh)
      PROVE  rows' = rows \/ \E row : rows' = rows \cup {row}
  <2>1. CASE \E n, unread : StartBatch(sh, n, unread)
    BY <2>1 DEF StartBatch, dsql
  <2>2. CASE ReadLatest(sh) \/ Stamp(sh) \/ KeyFails(sh)
    BY <2>2 DEF ReadLatest, Stamp, KeyFails, dsql
  <2>3. CASE InsertVersion(sh)
    BY <2>3 DEF InsertVersion
  <2>4. CASE \E u : MergeUser(sh, u) \/ UserFails(sh, u)
    BY <2>4 DEF MergeUser, UserFails
  <2>5. CASE Return(sh) \/ Timeout(sh)
    BY <2>5 DEF Return, Timeout, GiveBack, Bisect, dsql
  <2> QED
    BY <1>2, <2>1, <2>2, <2>3, <2>4, <2>5 DEF Extract, Fail
<1> QED
  BY <1>1, <1>2, FS_AddElement DEF Next

(***************************************************************************)
(* There are finitely many versions at any time, so a topic has a highest. *)
(***************************************************************************)
THEOREM VersionsAreFinite == Spec => []IsFiniteSet(rows)
<1>1. Init => IsFiniteSet(rows)
  BY EarlierVersions DEF Init
<1>2. IsFiniteSet(rows) /\ [Next]_vars => IsFiniteSet(rows)'
  BY NextFinite
<1> QED
  BY <1>1, <1>2, PTL DEF Spec

-----------------------------------------------------------------------------
(* The text of a version.                                                  *)

(* The digits of the numbers up to n.                                      *)
DigitsUpTo(g, n) ==
    g = [m \in 0..n |-> IF m < 10 THEN <<m>> ELSE Append(g[m \div 10], m % 10)]

LEMMA TenthIsLess ==
    ASSUME NEW m \in Nat, ~(m < 10)
    PROVE  m \div 10 \in Nat /\ m \div 10 < m
OBVIOUS

LEMMA DigitsUpToExist ==
    ASSUME NEW n \in Nat
    PROVE  \E g : DigitsUpTo(g, n)
<1> DEFINE T == {m \in Nat : ~\E g : DigitsUpTo(g, m)}
<1>1. ASSUME NEW m \in T PROVE \E less \in T : less < m
  <2>1. DigitsUpTo([i \in 0..0 |-> <<i>>], 0)
    BY DEF DigitsUpTo
  <2>2. m # 0
    BY <2>1
  <2>3. m - 1 \in Nat /\ m - 1 < m
    BY <2>2
  <2>4. SUFFICES ASSUME NEW g, DigitsUpTo(g, m - 1)
                 PROVE  \E h : DigitsUpTo(h, m)
    BY <2>3
  <2> DEFINE last == IF m < 10 THEN <<m>> ELSE Append(g[m \div 10], m % 10)
             h == [i \in 0..m |-> IF i = m THEN last ELSE g[i]]
  <2>5. ASSUME NEW i \in 0..m
        PROVE  h[i] = IF i < 10 THEN <<i>> ELSE Append(h[i \div 10], i % 10)
    <3>1. ~(i < 10) => i \div 10 \in 0..m /\ i \div 10 # m /\ i \div 10 < i
      BY TenthIsLess
    <3>2. ~(i < 10) => h[i \div 10] = g[i \div 10]
      BY <3>1
    <3>3. CASE i = m
      BY <3>2, <3>3
    <3>4. CASE i # m
      <4>1. i \in 0..(m - 1)
        BY <3>4
      <4>2. g[i] = IF i < 10 THEN <<i>> ELSE Append(g[i \div 10], i % 10)
        BY <2>4, <4>1 DEF DigitsUpTo
      <4>3. h[i] = g[i]
        BY <3>4
      <4> HIDE DEF h
      <4> QED
        BY <3>2, <4>2, <4>3
    <3> QED
      BY <3>3, <3>4
  <2>6. h = [i \in 0..m |-> h[i]]
    OBVIOUS
  <2> HIDE DEF h
  <2>7. h = [i \in 0..m |-> IF i < 10 THEN <<i>> ELSE Append(h[i \div 10], i % 10)]
    BY <2>5, <2>6
  <2> QED
    BY <2>7 DEF DigitsUpTo
<1>2. T \in SUBSET Nat
  OBVIOUS
<1>3. T = {}
  <2> HIDE DEF T
  <2>1. SUFFICES ASSUME T # {} PROVE FALSE
    OBVIOUS
  <2>2. PICK m \in T : \A other \in T : m <= other
    BY <1>2, <2>1, LeastNumber
  <2>3. PICK less \in T : less < m
    BY <1>1
  <2> QED
    BY <1>2, <2>2, <2>3
<1> QED
  BY <1>3

LEMMA DigitsUpToAgree ==
    ASSUME NEW g, NEW h, NEW n \in Nat, NEW p \in Nat,
           DigitsUpTo(g, n), DigitsUpTo(h, p), NEW i \in 0..n, i \in 0..p
    PROVE  g[i] = h[i]
<1> DEFINE T == {m \in Nat : m <= n /\ m <= p /\ g[m] # h[m]}
<1>1. ASSUME NEW m \in T PROVE \E less \in T : less < m
  <2>1. /\ g[m] = IF m < 10 THEN <<m>> ELSE Append(g[m \div 10], m % 10)
        /\ h[m] = IF m < 10 THEN <<m>> ELSE Append(h[m \div 10], m % 10)
    <3>1. m \in 0..n /\ m \in 0..p
      OBVIOUS
    <3> HIDE DEF T
    <3> QED
      BY <3>1 DEF DigitsUpTo
  <2>2. ~(m < 10) /\ g[m \div 10] # h[m \div 10]
    BY <2>1
  <2>3. m \div 10 \in Nat /\ m \div 10 < m
    BY <2>2, TenthIsLess
  <2>4. m \div 10 <= n /\ m \div 10 <= p
    BY <2>3
  <2> QED
    BY <2>2, <2>3, <2>4
<1>2. T \in SUBSET Nat
  OBVIOUS
<1>3. T = {}
  <2> HIDE DEF T
  <2>1. SUFFICES ASSUME T # {} PROVE FALSE
    OBVIOUS
  <2>2. PICK m \in T : \A other \in T : m <= other
    BY <1>2, <2>1, LeastNumber
  <2>3. PICK less \in T : less < m
    BY <1>1
  <2> QED
    BY <1>2, <2>2, <2>3
<1> QED
  BY <1>3

(* The recursive definition of digits has a solution.                      *)
LEMMA DigitsDefined ==
    digits = [n \in Nat |-> IF n < 10 THEN <<n>> ELSE Append(digits[n \div 10], n % 10)]
<1> DEFINE G(n) == CHOOSE g : DigitsUpTo(g, n)
           f == [n \in Nat |-> G(n)[n]]
<1>1. ASSUME NEW n \in Nat PROVE DigitsUpTo(G(n), n)
  BY DigitsUpToExist
<1>2. ASSUME NEW n \in Nat, NEW m \in 0..n PROVE f[m] = G(n)[m]
  <2>1. m \in Nat /\ m \in 0..m
    OBVIOUS
  <2>2. DigitsUpTo(G(n), n) /\ DigitsUpTo(G(m), m)
    BY <1>1, <2>1
  <2>3. G(m)[m] = G(n)[m]
    <3> HIDE DEF G
    <3> QED
      BY <2>1, <2>2, DigitsUpToAgree
  <2> QED
    BY <2>1, <2>3
<1>3. ASSUME NEW n \in Nat
      PROVE  f[n] = IF n < 10 THEN <<n>> ELSE Append(f[n \div 10], n % 10)
  <2>1. n \in 0..n
    OBVIOUS
  <2>2. G(n)[n] = IF n < 10 THEN <<n>> ELSE Append(G(n)[n \div 10], n % 10)
    <3>1. DigitsUpTo(G(n), n)
      BY <1>1
    <3> HIDE DEF G
    <3> QED
      BY <2>1, <3>1 DEF DigitsUpTo
  <2>3. ~(n < 10) => n \div 10 \in 0..n
    BY TenthIsLess
  <2>4. f[n] = G(n)[n] /\ (~(n < 10) => f[n \div 10] = G(n)[n \div 10])
    BY <1>2, <2>1, <2>3
  <2> HIDE DEF f, G
  <2> QED
    BY <2>2, <2>4
<1>4. f = [n \in Nat |-> f[n]]
  OBVIOUS
<1> HIDE DEF f, G
<1>5. f = [n \in Nat |-> IF n < 10 THEN <<n>> ELSE Append(f[n \div 10], n % 10)]
  BY <1>3, <1>4
<1>6. \E any : any = [n \in Nat |-> IF n < 10 THEN <<n>> ELSE Append(any[n \div 10], n % 10)]
  BY <1>5
<1> QED
  BY <1>6 DEF digits

LEMMA DigitOf ==
    ASSUME NEW n \in Nat
    PROVE  /\ n < 10 => digits[n] = <<n>>
           /\ ~(n < 10) => digits[n] = Append(digits[n \div 10], n % 10)
BY DigitsDefined

(* Below 10.0 a version's text is one digit, the point and one digit.      *)
LEMMA ShortText ==
    ASSUME NEW version \in Nat, version < 100
    PROVE  /\ DOMAIN TextOf(version) = 1..3
           /\ TextOf(version)[1] = version \div 10
           /\ TextOf(version)[2] = -1
           /\ TextOf(version)[3] = version % 10
<1>1. version \div 10 \in Nat /\ version \div 10 < 10
  OBVIOUS
<1>2. digits[version \div 10] = <<version \div 10>>
  BY <1>1, DigitOf
<1>3. TextOf(version) = <<version \div 10>> \o <<-1, version % 10>>
  BY <1>2 DEF TextOf
<1> DEFINE a == <<version \div 10>>
           b == <<-1, version % 10>>
<1>4. a \in Seq(Int) /\ b \in Seq(Int) /\ Len(a) = 1 /\ Len(b) = 2
  BY <1>1
<1>5. /\ Len(a \o b) = 3
      /\ a \o b \in Seq(Int)
      /\ \A i \in 1..3 : (a \o b)[i] = IF i <= 1 THEN a[i] ELSE b[i - 1]
  <2> HIDE DEF a, b
  <2>1. /\ a \o b \in Seq(Int)
        /\ Len(a \o b) = Len(a) + Len(b)
        /\ \A i \in 1..Len(a) + Len(b) :
              (a \o b)[i] = IF i <= Len(a) THEN a[i] ELSE b[i - Len(a)]
    BY <1>4, ConcatProperties, Zenon
  <2>2. Len(a) + Len(b) = 3
    BY <1>4
  <2> QED
    BY <1>4, <2>1, <2>2
<1>6. DOMAIN (a \o b) = 1..3
  BY <1>5, LenProperties
<1>7. (a \o b)[1] = version \div 10 /\ (a \o b)[2] = -1 /\ (a \o b)[3] = version % 10
  <2>1. a[1] = version \div 10 /\ b[1] = -1 /\ b[2] = version % 10
    OBVIOUS
  <2> HIDE DEF a, b
  <2> QED
    BY <1>5, <2>1
<1> QED
  BY <1>3, <1>6, <1>7

LEMMA TenthsOf ==
    ASSUME NEW n \in Nat
    PROVE  /\ n % 10 = n - 10 * (n \div 10)
           /\ n \div 10 \in Nat
           /\ n % 10 \in 0..9
OBVIOUS

(* Below 10.0 the order of the text is the order of the numbers.           *)
LEMMA TextOrder ==
    ASSUME NEW low \in Nat, NEW high \in Nat, low < 100, high < 100
    PROVE  TextBefore(low, high) <=> low < high
<1> DEFINE t == TextOf(low)
           u == TextOf(high)
<1>1. /\ DOMAIN t = 1..3 /\ DOMAIN u = 1..3 /\ t[2] = u[2]
      /\ t[1] = low \div 10 /\ u[1] = high \div 10
      /\ t[3] = low % 10 /\ u[3] = high % 10
      /\ t[2] \in Int
  BY ShortText
<1>2. /\ low % 10 = low - 10 * (low \div 10)
      /\ high % 10 = high - 10 * (high \div 10)
      /\ low \div 10 \in Nat /\ high \div 10 \in Nat
      /\ low % 10 \in 0..9 /\ high % 10 \in 0..9
  BY TenthsOf
<1>3. TextBefore(low, high) <=>
        \E i \in 1..3 : t[i] < u[i] /\ \A j \in 1..(i - 1) : t[j] = u[j]
  BY <1>1 DEF TextBefore
<1> HIDE DEF t, u
<1>4. (\E i \in 1..3 : t[i] < u[i] /\ \A j \in 1..(i - 1) : t[j] = u[j])
        <=> t[1] < u[1] \/ (t[1] = u[1] /\ t[3] < u[3])
  <2>1. ASSUME NEW i \in 1..3, t[i] < u[i], \A j \in 1..(i - 1) : t[j] = u[j]
        PROVE  t[1] < u[1] \/ (t[1] = u[1] /\ t[3] < u[3])
    <3>1. i = 1 \/ i = 2 \/ i = 3
      OBVIOUS
    <3>2. i # 2
      BY <1>1, <2>1
    <3>3. CASE i = 3
      <4>1. 1 \in 1..(i - 1)
        BY <3>3
      <4> QED
        BY <2>1, <3>3, <4>1
    <3> QED
      BY <2>1, <3>1, <3>2, <3>3
  <2>2. ASSUME t[1] < u[1]
        PROVE  \E i \in 1..3 : t[i] < u[i] /\ \A j \in 1..(i - 1) : t[j] = u[j]
    <3>1. 1 \in 1..3 /\ 1..(1 - 1) = {}
      OBVIOUS
    <3> QED
      BY <2>2, <3>1
  <2>3. ASSUME t[1] = u[1], t[3] < u[3]
        PROVE  \E i \in 1..3 : t[i] < u[i] /\ \A j \in 1..(i - 1) : t[j] = u[j]
    <3>1. 3 \in 1..3 /\ \A j \in 1..(3 - 1) : j = 1 \/ j = 2
      OBVIOUS
    <3> QED
      BY <1>1, <2>3, <3>1
  <2> QED
    BY <2>1, <2>2, <2>3
<1>5. low < high <=> t[1] < u[1] \/ (t[1] = u[1] /\ t[3] < u[3])
  BY <1>1, <1>2
<1> QED
  BY <1>3, <1>4, <1>5

LEMMA FirstOfAppend ==
    ASSUME NEW q \in Seq(Int), NEW e \in Int, Len(q) = 1
    PROVE  /\ Append(q, e) \in Seq(Int) /\ Len(Append(q, e)) = 2
           /\ Append(q, e)[1] = q[1]
<1>1. Append(q, e) \in Seq(Int)
  OBVIOUS
<1>2. Len(Append(q, e)) = 2
  OBVIOUS
<1>3. ASSUME NEW i \in 1..Len(q) PROVE Append(q, e)[i] = q[i]
  BY AppendProperties
<1> QED
  BY <1>1, <1>2, <1>3

(* The text of 10.0 is before that of 9.9.                                 *)
LEMMA TenBeforeNine == TextBefore(100, 99)
<1> DEFINE t == TextOf(100)
           u == TextOf(99)
           a == digits[10]
           b == <<-1, 0>>
<1>1. a = Append(<<1>>, 0)
  <2>1. 10 \div 10 = 1 /\ 10 % 10 = 0 /\ 10 \in Nat /\ 1 \in Nat /\ ~(10 < 10) /\ 1 < 10
    OBVIOUS
  <2> QED
    BY <2>1, DigitOf
<1>2. a \in Seq(Int) /\ Len(a) = 2 /\ a[1] = 1
  <2> DEFINE one == <<1>>
  <2>1. one \in Seq(Int) /\ Len(one) = 1 /\ one[1] = 1 /\ 0 \in Int /\ 1 \in 1..1
    OBVIOUS
  <2>2. a = Append(one, 0)
    BY <1>1
  <2> HIDE DEF a, one
  <2> QED
    BY <2>1, <2>2, FirstOfAppend
<1>3. b \in Seq(Int) /\ Len(b) = 2
  OBVIOUS
<1>4. t = a \o b
  <2>1. 100 \div 10 = 10 /\ 100 % 10 = 0
    OBVIOUS
  <2> QED
    BY <2>1 DEF TextOf
<1>5. 1 \in DOMAIN t /\ t[1] = 1
  <2> HIDE DEF a, b, t
  <2>1. /\ a \o b \in Seq(Int)
        /\ Len(a \o b) = Len(a) + Len(b)
        /\ \A i \in 1..Len(a) + Len(b) :
              (a \o b)[i] = IF i <= Len(a) THEN a[i] ELSE b[i - Len(a)]
    BY <1>2, <1>3, ConcatProperties, Zenon
  <2>2. 1 \in 1..Len(a) + Len(b) /\ 1 <= Len(a)
    BY <1>2, <1>3
  <2>3. DOMAIN (a \o b) = 1..Len(a \o b)
    BY <2>1, LenProperties, Zenon
  <2> QED
    BY <1>2, <1>4, <2>1, <2>2, <2>3
<1>6. 1 \in DOMAIN u /\ u[1] = 9
  <2>1. 99 \in Nat /\ 99 < 100 /\ 99 \div 10 = 9
    OBVIOUS
  <2> QED
    BY <2>1, ShortText
<1>7. 1..(1 - 1) = {}
  OBVIOUS
<1> HIDE DEF t, u, a, b
<1> QED
  BY <1>5, <1>6, <1>7 DEF TextBefore, t, u

(* A step of the extractor or a failure concerns the run of one shard.     *)
LEMMA OneRun ==
    ASSUME NEW sh \in Shards, Extract(sh) \/ Fail(sh)
    PROVE  \E s : run' = [run EXCEPT ![sh] = s]
<1>1. ASSUME NEW s, Proceed(sh, s) PROVE \E s2 : run' = [run EXCEPT ![sh] = s2]
  BY <1>1 DEF Proceed
<1>2. ASSUME NEW n, NEW unread, StartBatch(sh, n, unread)
      PROVE  \E s : run' = [run EXCEPT ![sh] = s]
  BY <1>1, <1>2 DEF StartBatch
<1>3. KeyError(sh) => \E s : run' = [run EXCEPT ![sh] = s]
  BY <1>1 DEF KeyError
<1>4. CASE ReadLatest(sh)
  BY <1>4 DEF ReadLatest
<1>5. CASE InsertVersion(sh)
  BY <1>3, <1>5 DEF InsertVersion
<1>6. CASE Stamp(sh)
  BY <1>1, <1>6 DEF Stamp
<1>7. CASE KeyFails(sh)
  BY <1>3, <1>7 DEF KeyFails
<1>8. ASSUME NEW u, MergeUser(sh, u) \/ UserFails(sh, u)
      PROVE  \E s : run' = [run EXCEPT ![sh] = s]
  BY <1>8 DEF MergeUser, UserFails
<1>9. CASE Return(sh) \/ Timeout(sh)
  <2>1. \A first : GiveBack(sh, first) => \E s : run' = [run EXCEPT ![sh] = s]
    BY DEF GiveBack
  <2> QED
    BY <1>9, <2>1 DEF Return, Timeout, Bisect
<1> QED
  BY <1>2, <1>4, <1>5, <1>6, <1>7, <1>8, <1>9 DEF Extract, Fail

(* A run goes from reading the latest version to inserting or stamping one *)
(* by reading it, and no otherwise.                                        *)
LEMMA ReadByReading ==
    ASSUME TypeOK, [Next]_vars, NEW sh \in Shards,
           run[sh].pc = "read", run'[sh].pc \in {"insert", "stamp"}
    PROVE  ReadLatest(sh)
<1>1. PICK other \in Shards : Extract(other) \/ Fail(other)
  <2>1. run' # run
    OBVIOUS
  <2>2. ~Call /\ ~UNCHANGED vars
    BY <2>1 DEF Call, Save, Update, Write, Delete, vars
  <2> QED
    BY <2>2 DEF Next
<1>2. other = sh
  <2>1. PICK s : run' = [run EXCEPT ![other] = s]
    BY <1>1, OneRun
  <2> QED
    BY <2>1 DEF TypeOK
<1>3. run[sh] # Idle /\ run[sh] \in Runs
  BY PcBusy, BusyRun
<1>4. ~KeyError(sh)
  BY <1>3, KeyErrorKeeps
<1>5. ~Return(sh) /\ ~Timeout(sh)
  <2>1. \A first : ~GiveBack(sh, first)
    BY DEF GiveBack, TypeOK, Idle
  <2>2. ~Bisect(sh)
    BY DEF Bisect, TypeOK, Idle
  <2> QED
    BY <2>1, <2>2 DEF Return, Timeout
<1>6. ~InsertVersion(sh) /\ ~Stamp(sh)
  BY DEF InsertVersion, Stamp
<1>7. ~KeyFails(sh)
  BY <1>4 DEF KeyFails
<1>8. \A u : ~MergeUser(sh, u) /\ ~UserFails(sh, u)
  BY DEF MergeUser, UserFails
<1>9. \A n, unread : ~StartBatch(sh, n, unread)
  BY <1>3 DEF StartBatch
<1> QED
  BY <1>1, <1>2, <1>5, <1>6, <1>7, <1>8, <1>9 DEF Extract, Fail

(* Below 10.0 getLatest selects the highest version.                       *)
LEMMA LatestIsHighest ==
    ASSUME TypeOK, IsFiniteSet(rows), \A row \in rows : row.version < 100,
           NEW topic, NEW row \in rows, row.topic = topic
    PROVE  /\ getLatest(topic) # {}
           /\ \A last \in getLatest(topic) : row.version <= last.version
<1>1. rows \in SUBSET Rows
  BY DEF TypeOK
<1>2. \A a, b \in rows : /\ a.version \in Nat /\ b.version \in Nat
                         /\ TextBefore(a.version, b.version) <=> a.version < b.version
  BY <1>1, TextOrder DEF Rows
<1>3. PICK last \in rows :
         /\ last.topic = row.topic
         /\ \A other \in rows : other.topic = row.topic => other.version <= last.version
  BY <1>1, HighestVersion
<1>4. last \in getLatest(topic)
  BY <1>2, <1>3 DEF getLatest
<1>5. \A any \in getLatest(topic) : row.version <= any.version
  BY <1>2 DEF getLatest
<1> QED
  BY <1>4, <1>5

(***************************************************************************)
(* As long as every version is below 10.0, ordering their text is ordering *)
(* them: evolve reads the highest version of the topic, what EvolvesLatest *)
(* says of every version.                                                  *)
(***************************************************************************)
EvolvesLatestBelowTen ==
    [][(\A row \in rows : row.version < 100) =>
          \A sh \in Shards :
             run[sh].pc = "read" /\ run'[sh].pc \in {"insert", "stamp"} =>
                 \A row \in rows :
                     row.topic = run[sh].key => row.version <= run'[sh].seen]_vars

(* EvolvesLatestBelowTen holds.  TenBeforeNine is where it ends.           *)
THEOREM LatestIsReadBelowTen == Spec => EvolvesLatestBelowTen
<1> DEFINE Reads == (\A row \in rows : row.version < 100) =>
                       \A sh \in Shards :
                          run[sh].pc = "read" /\ run'[sh].pc \in {"insert", "stamp"} =>
                             \A row \in rows :
                                row.topic = run[sh].key => row.version <= run'[sh].seen
<1>1. TypeOK /\ IsFiniteSet(rows) /\ [Next]_vars => [Reads]_vars
  <2> SUFFICES ASSUME TypeOK, IsFiniteSet(rows), [Next]_vars,
                      \A row \in rows : row.version < 100,
                      NEW sh \in Shards, run[sh].pc = "read",
                      run'[sh].pc \in {"insert", "stamp"},
                      NEW row \in rows, row.topic = run[sh].key
               PROVE  row.version <= run'[sh].seen
    OBVIOUS
  <2> DEFINE s == run[sh]
  <2>1. ReadLatest(sh)
    BY ReadByReading
  <2>2. s \in Runs
    BY PcBusy, BusyRun
  <2>3. /\ getLatest(s.key) # {}
        /\ \A last \in getLatest(s.key) : row.version <= last.version
    BY LatestIsHighest
  <2>4. PICK last \in getLatest(s.key) : run'[sh].seen = last.version
    <3> DEFINE Same(last) == mergeSchemas(last.schema, ObservedShape(s)) = last.schema
    <3>1. PICK last \in getLatest(s.key) :
             run' = [run EXCEPT ![sh] =
                [s EXCEPT !.pc = IF Same(last) THEN "stamp" ELSE "insert",
                          !.seen = last.version,
                          !.todo = IF Same(last) THEN KeyItems(s) ELSE {}]]
      BY <2>1, <2>3 DEF ReadLatest
    <3> HIDE DEF Same
    <3>2. [s EXCEPT !.pc = IF Same(last) THEN "stamp" ELSE "insert",
                    !.seen = last.version,
                    !.todo = IF Same(last) THEN KeyItems(s) ELSE {}].seen = last.version
      BY <2>2 DEF Runs
    <3> QED
      BY <3>1, <3>2 DEF TypeOK
  <2> QED
    BY <2>3, <2>4
<1> QED
  BY <1>1, TypeCorrect, VersionsAreFinite, PTL DEF Spec, EvolvesLatestBelowTen

=============================================================================

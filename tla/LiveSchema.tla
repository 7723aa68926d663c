----------------------------- MODULE LiveSchema -----------------------------
(***************************************************************************)
(* Live schemas.  Every write of a data record raises a flag on it; the    *)
(* table's stream hands flagged writes to liveSchemaExtractorLambda, which *)
(* folds the shapes of a batch into the latest schema of each topic,       *)
(* writes a new version when that changes it, stamps the version on the    *)
(* records and lowers their flag, and then replaces the topics' shapes in  *)
(* the user's footprint.  Invocations of different shards race for the     *)
(* versions of a topic, and API calls rewrite records meanwhile.           *)
(*                                                                         *)
(* The data of a record is the set of its top-level fields, a schema the   *)
(* fields ever seen and those never missing.  Versions are in tenths.      *)
(***************************************************************************)
EXTENDS Integers, FiniteSets, Sequences

CONSTANTS
    Users, Topics, Fields,
    Payloads,            \* the data a caller may write, each a set of fields
    InitialRows,         \* the versions there are at the start
    Shards, ShardOf,     \* the stream's shards and the one a user's records are in
    Encrypted,           \* whether the stored data are ciphertext, new at each write
    BatchSize,           \* batchSize of the stream's event source mapping
    MaxEvolveAttempts,   \* MAX_EVOLVE_ATTEMPTS
    RetryAttempts,       \* retryAttempts of the event source mapping
    MaxWrites,           \* bound: writes of records in a behaviour
    MaxFailures          \* bound: failed calls and invocations in a behaviour

ASSUME ShardsOfUsers == ShardOf \in [Users -> Shards]
ASSUME IsEncrypted == Encrypted \in BOOLEAN
ASSUME PayloadsAreData == Payloads \subseteq SUBSET Fields
ASSUME Sizes ==
    /\ BatchSize \in Nat \ {0}
    /\ MaxEvolveAttempts \in Nat \ {0}
    /\ RetryAttempts \in Nat \ {0}
ASSUME Bounds == MaxWrites \in Nat /\ MaxFailures \in Nat

INITIAL_SCHEMA_VERSION == 11
Schemas == [props : SUBSET Fields, required : SUBSET Fields]
Rows == [topic : Topics, version : Nat, schema : Schemas]

(* Versions without gaps, one schema each, each wider than the one before. *)
Widening(R) ==
    \A row \in R :
        /\ \A other \in R :
              other.topic = row.topic /\ other.version = row.version => other = row
        /\ row.version >= INITIAL_SCHEMA_VERSION
        /\ row.version # INITIAL_SCHEMA_VERSION =>
              \E last \in R :
                  /\ last.topic = row.topic
                  /\ last.version = row.version - 1
                  /\ last.schema.props \subseteq row.schema.props
                  /\ row.schema.required \subseteq last.schema.required
                  /\ last.schema # row.schema

ASSUME EarlierVersions ==
    InitialRows \subseteq Rows /\ IsFiniteSet(InitialRows) /\ Widening(InitialRows)

VARIABLES
    table,        \* the data table: an item for each key, or Absent
    stream,       \* per shard, the flagged writes not yet processed, in order
    tries,        \* per shard, how often the record at the head has failed
    failureQueue, \* the events given up
    rows,         \* live_schemas
    footprint,    \* live_user_schemas: the fields of each topic of a user
    run,          \* per shard, the state of the extractor's invocation
    writes,       \* writes of records so far
    failures,     \* failures so far
    lastWrite     \* history: the fields last written at each key

source == <<table, stream, writes, lastWrite>>
polling == <<tries, failureQueue>>
dsql == <<rows, footprint>>
vars == <<source, polling, dsql, run, failures>>

-----------------------------------------------------------------------------
Keys == Users \X Topics
Absent == [version |-> 0]
Shapes == [fields : SUBSET Fields]
NoShape == [none |-> TRUE]
StoredData == [data : SUBSET Fields, nonce : Nat]
Items == [stored : StoredData, flag : BOOLEAN, version : Nat]
Events == [user : Users, topic : Topics, stored : StoredData]

Idle == [pc |-> "idle"]
Runs ==
    [pc : {"read", "insert", "stamp", "users"},
     batch : Seq(Events),
     keys : SUBSET Topics,     \* the topics after the current one
     key : Topics,             \* the current one
     seen : Nat,               \* the version read for it, 0 when there is none
     attempt : 1..MaxEvolveAttempts, \* evolve's attempt
     todo : SUBSET (Nat \ {0}), \* the items still to stamp
     users : SUBSET Users,     \* the users still to merge
     failed : SUBSET (Nat \ {0})] \* the items that failed

TypeOK ==
    /\ table \in [Keys -> Items \cup {Absent}]
    /\ stream \in [Shards -> Seq(Events)]
    /\ tries \in [Shards -> 0..RetryAttempts]
    /\ failureQueue \subseteq Events
    /\ rows \subseteq Rows
    /\ footprint \in [Keys -> Shapes \cup {NoShape}]
    /\ run \in [Shards -> Runs \cup {Idle}]
    /\ writes \in 0..MaxWrites
    /\ failures \in 0..MaxFailures
    /\ lastWrite \in [Keys -> Shapes \cup {NoShape}]

Init ==
    /\ table = [k \in Keys |-> Absent]
    /\ stream = [sh \in Shards |-> <<>>]
    /\ tries = [sh \in Shards |-> 0]
    /\ failureQueue = {}
    /\ rows = InitialRows
    /\ footprint = [k \in Keys |-> NoShape]
    /\ run = [sh \in Shards |-> Idle]
    /\ writes = 0
    /\ failures = 0
    /\ lastWrite = [k \in Keys |-> NoShape]

-----------------------------------------------------------------------------
(* Shapes.                                                                 *)

(* A schema describes data whose fields it knows and that lack none it     *)
(* requires.                                                               *)
Describes(schema, data) ==
    data \subseteq schema.props /\ schema.required \subseteq data

(* inferSchema of each of the data, folded with mergeSchemas.              *)
Observed(D) ==
    [props |-> UNION D, required |-> {f \in UNION D : \A data \in D : f \in data}]

mergeSchemas(a, b) ==
    [props |-> a.props \cup b.props, required |-> a.required \cap b.required]

-----------------------------------------------------------------------------
(* The API's writes.  Each raises the flag; one that changes the item      *)
(* appends to the stream.                                                  *)

(* A put or update of data at key k, with what becomes of its version.     *)
Write(k, data, version) ==
    LET stored == [data |-> data, nonce |-> IF Encrypted THEN writes ELSE 0]
        item == [stored |-> stored, flag |-> TRUE, version |-> version]
        event == [user |-> k[1], topic |-> k[2], stored |-> stored]
    IN  /\ writes < MaxWrites
        /\ writes' = writes + 1
        /\ table' = [table EXCEPT ![k] = item]
        /\ stream' = [stream EXCEPT ![ShardOf[k[1]]] =
                IF item = table[k] THEN @ ELSE Append(@, event)]
        /\ lastWrite' = [lastWrite EXCEPT ![k] = [fields |-> data]]
        /\ UNCHANGED <<polling, dsql, run, failures>>

(* save: the item is replaced whole.                                       *)
Save(k, data) == Write(k, data, 0)

(* update, for a patch: the item keeps the version of its earlier data.    *)
Update(k, data) ==
    /\ table[k] # Absent
    /\ Write(k, data, table[k].version)

(* A delete, or the time to live: the stream's filter drops the event.     *)
Delete(k) ==
    /\ table[k] # Absent
    /\ table' = [table EXCEPT ![k] = Absent]
    /\ UNCHANGED <<stream, writes, lastWrite, polling, dsql, run, failures>>

-----------------------------------------------------------------------------
(* liveSchemaExtractorLambda, one invocation at a time for each shard.     *)
(* Items are named by their place in the batch.                            *)

ItemsOf(s) == DOMAIN s.batch
KeyOf(event) == <<event.user, event.topic>>

(* The items of the current topic that could be read.                      *)
KeyItems(s) == {i \in ItemsOf(s) \ s.failed : s.batch[i].topic = s.key}

(* processKey's observed shape.                                            *)
ObservedShape(s) == Observed({s.batch[i].stored.data : i \in KeyItems(s)})

(* The next topic, in the order in which the batch names them, or else the *)
(* users of the items that no topic failed.                                *)
Proceed(sh, s) ==
    \/ /\ s.keys = {}
       /\ run' = [run EXCEPT ![sh] =
             [s EXCEPT !.pc = "users",
                       !.users = {s.batch[i].user : i \in ItemsOf(s) \ s.failed}]]
    \/ \E i \in ItemsOf(s) \ s.failed :
          /\ s.batch[i].topic \in s.keys
          /\ \A j \in ItemsOf(s) \ s.failed : s.batch[j].topic \in s.keys => i <= j
          /\ run' = [run EXCEPT ![sh] =
                [s EXCEPT !.pc = "read", !.attempt = 1, !.key = s.batch[i].topic,
                          !.keys = @ \ {s.batch[i].topic}]]

(* An invocation gets a batch from the head of its shard.  An item that    *)
(* cannot be read, for want of its key, fails alone.                       *)
StartBatch(sh, n, unread) ==
    LET batch == SubSeq(stream[sh], 1, n)
    IN  /\ run[sh] = Idle
        /\ n <= Len(stream[sh])
        /\ failures + Cardinality(unread) <= MaxFailures
        /\ failures' = failures + Cardinality(unread)
        /\ Proceed(sh, [pc |-> "read", batch |-> batch, key |-> batch[1].topic,
                        keys |-> {batch[i].topic : i \in (1..n) \ unread},
                        seen |-> 0, attempt |-> 1, todo |-> {}, users |-> {},
                        failed |-> unread])
        /\ UNCHANGED <<source, polling, dsql>>

(* The rest of the batch is done; what a topic's items have failed for.    *)
KeyError(sh) == Proceed(sh, [run[sh] EXCEPT !.failed = @ \cup KeyItems(run[sh])])

(* A version is stored as a number and selected as text under its own      *)
(* name, so "ORDER BY version" sorts the text: digit by digit, the point   *)
(* before every digit, and 10.0 below 9.9.                                 *)
digits[n \in Nat] == IF n < 10 THEN <<n>> ELSE Append(digits[n \div 10], n % 10)

TextOf(version) == digits[version \div 10] \o <<-1, version % 10>>

TextBefore(a, b) ==
    \E i \in DOMAIN TextOf(a) \cap DOMAIN TextOf(b) :
        /\ TextOf(a)[i] < TextOf(b)[i]
        /\ \A j \in 1..(i - 1) : TextOf(a)[j] = TextOf(b)[j]

(* The row that getLatest selects.                                         *)
getLatest(topic) ==
    {row \in rows :
        /\ row.topic = topic
        /\ \A other \in rows :
              other.topic = topic => ~TextBefore(row.version, other.version)}

(* evolve's getLatest: when the observed shape changes nothing, the latest *)
(* version is the one to stamp.                                            *)
ReadLatest(sh) ==
    LET s == run[sh]
        found == getLatest(s.key)
    IN  /\ s.pc = "read"
        /\ \/ /\ found = {}
              /\ run' = [run EXCEPT ![sh] = [s EXCEPT !.pc = "insert", !.seen = 0]]
           \/ \E row \in found :
                 LET same == mergeSchemas(row.schema, ObservedShape(s)) = row.schema
                 IN  run' = [run EXCEPT ![sh] =
                        [s EXCEPT !.pc = IF same THEN "stamp" ELSE "insert",
                                  !.seen = row.version,
                                  !.todo = IF same THEN KeyItems(s) ELSE {}]]
        /\ UNCHANGED <<source, polling, dsql, failures>>

\* Fault: the observed shape replaces the latest one instead of widening it.
ObservedOnly(s) == ObservedShape(s)

(* The version to insert, made from the one that was read.                 *)
Merged(s) ==
    LET latest == {row \in rows : row.topic = s.key /\ row.version = s.seen}
    IN  IF latest = {} THEN ObservedShape(s)
        ELSE mergeSchemas((CHOOSE row \in latest : TRUE).schema, ObservedShape(s))

nextSchemaVersion(version) ==
    IF version = 0 THEN INITIAL_SCHEMA_VERSION ELSE version + 1

\* Fault: rowCount is not looked at.
InsertIgnoringConflict(sh) ==
    LET s == run[sh]
        version == nextSchemaVersion(s.seen)
        taken == \E row \in rows : row.topic = s.key /\ row.version = version
    IN  /\ s.pc = "insert"
        /\ rows' = IF taken THEN rows ELSE
              rows \cup {[topic |-> s.key, version |-> version, schema |-> Merged(s)]}
        /\ run' = [run EXCEPT ![sh] =
              [s EXCEPT !.pc = "stamp", !.seen = version, !.todo = KeyItems(s)]]
        /\ UNCHANGED <<source, polling, footprint, failures>>

\* Fault: the loop over the attempts has no end.
InsertRetriesForever(sh) ==
    LET s == run[sh]
        version == nextSchemaVersion(s.seen)
        taken == \E row \in rows : row.topic = s.key /\ row.version = version
    IN  /\ s.pc = "insert"
        /\ \/ /\ ~taken
              /\ rows' = rows \cup
                    {[topic |-> s.key, version |-> version, schema |-> Merged(s)]}
              /\ run' = [run EXCEPT ![sh] =
                    [s EXCEPT !.pc = "stamp", !.seen = version, !.todo = KeyItems(s)]]
           \/ /\ taken
              /\ run' = [run EXCEPT ![sh] = [s EXCEPT !.pc = "read", !.attempt = @ + 1]]
              /\ UNCHANGED rows
        /\ UNCHANGED <<source, polling, footprint, failures>>

(* evolve's insert: ON CONFLICT DO NOTHING.  A writer that lost the race   *)
(* reads again, and gives up after MaxEvolveAttempts.                      *)
InsertVersion(sh) ==
    LET s == run[sh]
        version == nextSchemaVersion(s.seen)
        taken == \E row \in rows : row.topic = s.key /\ row.version = version
    IN  /\ s.pc = "insert"
        /\ \/ /\ ~taken
              /\ rows' = rows \cup
                    {[topic |-> s.key, version |-> version, schema |-> Merged(s)]}
              /\ run' = [run EXCEPT ![sh] =
                    [s EXCEPT !.pc = "stamp", !.seen = version, !.todo = KeyItems(s)]]
           \/ /\ taken
              /\ s.attempt < MaxEvolveAttempts
              /\ run' = [run EXCEPT ![sh] =
                    [s EXCEPT !.pc = "read", !.attempt = @ + 1]]
              /\ UNCHANGED rows
           \/ /\ taken
              /\ s.attempt = MaxEvolveAttempts
              /\ KeyError(sh)
              /\ UNCHANGED rows
        /\ UNCHANGED <<source, polling, footprint, failures>>

\* Fault: the update sets the version and leaves the flag.
StampKeepsFlag(event, version) ==
    LET item == table[KeyOf(event)]
    IN  table' = IF item # Absent /\ item.stored = event.stored
                 THEN [table EXCEPT ![KeyOf(event)].version = version]
                 ELSE table

(* stamp's conditional update.                                             *)
stamp(event, version) ==
    LET item == table[KeyOf(event)]
    IN  table' = IF item # Absent /\ item.stored = event.stored
                 THEN [table EXCEPT ![KeyOf(event)] =
                          [item EXCEPT !.version = version, !.flag = FALSE]]
                 ELSE table

(* The items of the topic, one after the other; then the next topic.       *)
Stamp(sh) ==
    LET s == run[sh]
    IN  /\ s.pc = "stamp"
        /\ \E i \in s.todo :
              /\ \A j \in s.todo : i <= j
              /\ stamp(s.batch[i], s.seen)
              /\ IF s.todo = {i}
                 THEN Proceed(sh, [s EXCEPT !.todo = {}])
                 ELSE run' = [run EXCEPT ![sh].todo = @ \ {i}]
        /\ UNCHANGED <<stream, writes, lastWrite, polling, dsql, failures>>

(* A query or an update of the current topic throws, before or after its   *)
(* effect: its items fail, the stamped ones too, and the batch goes on.    *)
(* An insert that is not acknowledged is InsertVersion, then this step.    *)
KeyFails(sh) ==
    LET s == run[sh]
    IN  /\ s.pc \in {"read", "insert", "stamp"}
        /\ failures < MaxFailures
        /\ failures' = failures + 1
        /\ KeyError(sh)
        /\ \/ UNCHANGED table
           \/ /\ s.pc = "stamp"
              /\ \E i \in s.todo :
                    /\ \A j \in s.todo : i <= j
                    /\ stamp(s.batch[i], s.seen)
        /\ UNCHANGED <<stream, writes, lastWrite, polling, dsql>>

\* Fault: the items that failed are not left out.
AllItems(s, u) == {i \in ItemsOf(s) : s.batch[i].user = u}

(* The user's items among those the global schema accepted.                *)
UserItems(s, u) == {i \in ItemsOf(s) \ s.failed : s.batch[i].user = u}

\* Fault: the first record of a topic wins.
FirstItem(s, u, t) ==
    LET items == {i \in UserItems(s, u) : s.batch[i].topic = t}
    IN  {i \in items : \A j \in items : i <= j}

(* The item whose shape a user's topic takes: the last of the batch.       *)
LastItem(s, u, t) ==
    LET items == {i \in UserItems(s, u) : s.batch[i].topic = t}
    IN  {i \in items : \A j \in items : j <= i}

(* One upsert replaces the topics of the batch and keeps the others.       *)
mergeTopics(s, u) ==
    footprint' = [k \in Keys |->
        IF k[1] = u /\ LastItem(s, u, k[2]) # {}
        THEN [fields |-> s.batch[CHOOSE i \in LastItem(s, u, k[2]) : TRUE].stored.data]
        ELSE footprint[k]]

(* processUser.  The users' rows are apart, so their order is left open.   *)
MergeUser(sh, u) ==
    LET s == run[sh]
    IN  /\ s.pc = "users"
        /\ u \in s.users
        /\ mergeTopics(s, u)
        /\ run' = [run EXCEPT ![sh].users = @ \ {u}]
        /\ UNCHANGED <<source, polling, rows, failures>>

(* The hash or the upsert throws, the upsert perhaps after its effect: the *)
(* user's items fail.                                                      *)
UserFails(sh, u) ==
    LET s == run[sh]
    IN  /\ s.pc = "users"
        /\ u \in s.users
        /\ failures < MaxFailures
        /\ failures' = failures + 1
        /\ run' = [run EXCEPT ![sh] =
              [s EXCEPT !.users = @ \ {u}, !.failed = @ \cup UserItems(s, u)]]
        /\ UNCHANGED footprint \/ mergeTopics(s, u)
        /\ UNCHANGED <<source, polling, rows>>

-----------------------------------------------------------------------------
(* The stream's event source mapping, as the stack configures it.          *)

Drop(sh, n) == [stream EXCEPT ![sh] = SubSeq(@, n + 1, Len(@))]

(* The batch comes back from its first failed item on.  A head that has    *)
(* been retried RetryAttempts times goes to the failure queue, and the     *)
(* rest of its batch with it.                                              *)
GiveBack(sh, first) ==
    LET n == Len(run[sh].batch)
        spent == tries[sh] = RetryAttempts
    IN  /\ IF first = 1 /\ spent
           THEN /\ stream' = Drop(sh, n)
                /\ failureQueue' = failureQueue \cup
                      {run[sh].batch[i] : i \in ItemsOf(run[sh])}
                /\ tries' = [tries EXCEPT ![sh] = 0]
           ELSE /\ stream' = Drop(sh, first - 1)
                /\ tries' = [tries EXCEPT ![sh] = IF first = 1 THEN @ + 1 ELSE 1]
                /\ UNCHANGED failureQueue
        /\ run' = [run EXCEPT ![sh] = Idle]
        /\ UNCHANGED <<table, writes, lastWrite, dsql>>

\* Fault: no failure is reported.
ReturnNothing(sh) ==
    /\ run[sh].pc = "users"
    /\ run[sh].users = {}
    /\ stream' = Drop(sh, Len(run[sh].batch))
    /\ tries' = [tries EXCEPT ![sh] = 0]
    /\ run' = [run EXCEPT ![sh] = Idle]
    /\ UNCHANGED <<table, writes, lastWrite, failureQueue, dsql, failures>>

(* The handler returns the failed items; the records before the first of   *)
(* them are done.                                                          *)
Return(sh) ==
    LET s == run[sh]
    IN  /\ s.pc = "users"
        /\ s.users = {}
        /\ \/ /\ s.failed = {}
              /\ stream' = Drop(sh, Len(s.batch))
              /\ tries' = [tries EXCEPT ![sh] = 0]
              /\ run' = [run EXCEPT ![sh] = Idle]
              /\ UNCHANGED <<table, writes, lastWrite, failureQueue, dsql>>
           \/ \E first \in s.failed :
                 /\ \A i \in s.failed : first <= i
                 /\ GiveBack(sh, first)
        /\ UNCHANGED failures

(* A whole batch has failed and is bisected, which is no retry: its first  *)
(* part is among the batches that StartBatch can take.                     *)
Bisect(sh) ==
    /\ run' = [run EXCEPT ![sh] = Idle]
    /\ UNCHANGED <<source, polling, dsql>>

(* The invocation times out: the whole batch has failed.                   *)
Timeout(sh) ==
    /\ run[sh] # Idle
    /\ failures < MaxFailures
    /\ failures' = failures + 1
    /\ \/ Len(run[sh].batch) = 1 /\ GiveBack(sh, 1)
       \/ Len(run[sh].batch) > 1 /\ Bisect(sh)

-----------------------------------------------------------------------------
Extract(sh) ==
    \/ \E n \in 1..BatchSize : StartBatch(sh, n, {})
    \/ ReadLatest(sh)
    \/ InsertVersion(sh)
    \/ Stamp(sh)
    \/ \E u \in Users : MergeUser(sh, u)
    \/ Return(sh)

Fail(sh) ==
    \/ \E n \in 1..BatchSize : \E i \in 1..n : StartBatch(sh, n, {i})
    \/ KeyFails(sh)
    \/ \E u \in Users : UserFails(sh, u)
    \/ Timeout(sh)

Call ==
    \E k \in Keys :
        \/ \E data \in Payloads : Save(k, data) \/ Update(k, data)
        \/ Delete(k)

Next == Call \/ \E sh \in Shards : Extract(sh) \/ Fail(sh)

Spec == Init /\ [][Next]_vars

(* Lambda polls the shards and runs what it started; nothing obliges a     *)
(* caller to write or a call to fail.                                      *)
FairSpec == Spec /\ \A sh \in Shards : WF_vars(Extract(sh))

-----------------------------------------------------------------------------
(***************************************************************************)
(* A record whose flag is down bears a version whose schema describes its  *)
(* data, whoever rewrote it or won a version while it was evaluated.       *)
(***************************************************************************)
StampSound ==
    \A k \in Keys :
        table[k] # Absent /\ ~table[k].flag =>
            \E row \in rows :
                /\ row.topic = k[2]
                /\ row.version = table[k].version
                /\ Describes(row.schema, table[k].stored.data)

(* The event of what is stored at a key.                                   *)
EventOf(k) == [user |-> k[1], topic |-> k[2], stored |-> table[k].stored]

(***************************************************************************)
(* A record whose flag is up has not been forgotten: the event of its last *)
(* write is in the stream or in the failure queue.                         *)
(***************************************************************************)
NoLostEvaluation ==
    \A k \in Keys :
        table[k] # Absent /\ table[k].flag =>
            \/ EventOf(k) \in failureQueue
            \/ \E i \in DOMAIN stream[ShardOf[k[1]]] :
                  stream[ShardOf[k[1]]][i] = EventOf(k)

(***************************************************************************)
(* A topic's versions are numbered without gaps, one schema each, and each *)
(* describes all that the one before it describes, and more.               *)
(***************************************************************************)
VersionsWiden == Widening(rows)

(* What makes VersionsWiden and StampSound inductive.                      *)

(* A version to insert comes from one that is there, and widens it.        *)
InsertWidens ==
    \A sh \in Shards :
        run[sh].pc = "insert" /\ run[sh].seen # 0 =>
            \E row \in rows :
                /\ row.topic = run[sh].key
                /\ row.version = run[sh].seen
                /\ mergeSchemas(row.schema, ObservedShape(run[sh])) # row.schema

(* A version about to be stamped is there and describes its items.         *)
StampDescribes ==
    \A sh \in Shards :
        run[sh].pc = "stamp" =>
            \E row \in rows :
                /\ row.topic = run[sh].key
                /\ row.version = run[sh].seen
                /\ \A i \in run[sh].todo :
                      /\ run[sh].batch[i].topic = row.topic
                      /\ Describes(row.schema, run[sh].batch[i].stored.data)

IInv ==
    /\ TypeOK
    /\ VersionsWiden
    /\ InsertWidens
    /\ StampDescribes
    /\ StampSound

(* What makes NoLostEvaluation inductive.                                  *)

(* A batch is the head of its shard's stream, and what its run keeps of it *)
(* are items of the batch.                                                 *)
AtHead(q, s) ==
    /\ Len(s.batch) <= Len(q)
    /\ \A i \in ItemsOf(s) : q[i] = s.batch[i]
    /\ s.failed \subseteq ItemsOf(s)
    /\ s.pc = "stamp" => s.todo \subseteq KeyItems(s)
    /\ s.pc = "users" => s.keys = {}

BatchAtHead == \A sh \in Shards : run[sh] # Idle => AtHead(stream[sh], run[sh])

(* The items that a run still has to stamp, or to report.                  *)
Unsettled(s) ==
    {i \in ItemsOf(s) :
        \/ i \in s.failed
        \/ s.batch[i].topic \in s.keys
        \/ s.pc \in {"read", "insert"} /\ s.batch[i].topic = s.key
        \/ s.pc = "stamp" /\ i \in s.todo}

(* The event waits behind the batch of the run, or the run has not settled *)
(* it.                                                                     *)
Waits(event, q, s) ==
    \E i \in DOMAIN q :
        /\ q[i] = event
        /\ s = Idle \/ i > Len(s.batch) \/ i \in Unsettled(s)

EvaluationPending ==
    \A k \in Keys :
        table[k] # Absent /\ table[k].flag =>
            \/ EventOf(k) \in failureQueue
            \/ Waits(EventOf(k), stream[ShardOf[k[1]]], run[ShardOf[k[1]]])

(* What makes FootprintIsLatest inductive.                                 *)

(* Where a key's events are in a shard's stream, and the last of them.     *)
EventsOf(k, q) == {i \in DOMAIN q : KeyOf(q[i]) = k}

LastEvent(k, q) == {i \in EventsOf(k, q) : \A j \in EventsOf(k, q) : j <= i}

InOwnShard ==
    \A sh \in Shards : \A i \in DOMAIN stream[sh] : ShardOf[stream[sh][i].user] = sh

(* What was last written at a key is in its item, and in its last event.   *)
ItemIsLast ==
    \A k \in Keys :
        table[k] # Absent => lastWrite[k] = [fields |-> table[k].stored.data]

EventIsLast ==
    \A k \in Keys :
        LET q == stream[ShardOf[k[1]]]
        IN  \A i \in LastEvent(k, q) : lastWrite[k] = [fields |-> q[i].stored.data]

(* A user that was merged has the last shapes of the batch.                *)
MergedAreLast ==
    \A sh \in Shards :
        run[sh].pc = "users" =>
            \A k \in Keys :
                k[1] \notin run[sh].users =>
                    \A i \in LastItem(run[sh], k[1], k[2]) :
                        footprint[k] = [fields |-> run[sh].batch[i].stored.data]

(* Of a user of whom nothing was given up, a footprint that is behind has  *)
(* an event to come.                                                       *)
FootprintFollows ==
    \A k \in Keys :
        \/ \E event \in failureQueue : event.user = k[1]
        \/ EventsOf(k, stream[ShardOf[k[1]]]) # {}
        \/ footprint[k] = lastWrite[k]

(* What makes FootprintInSchema inductive.                                 *)

(* A version of the topic has the fields.                                  *)
Known(topic, fields) ==
    \E row \in rows : row.topic = topic /\ fields \subseteq row.schema.props

(* The items that the run of their topic has left behind without a failure.*)
Accepted(s) ==
    {i \in ItemsOf(s) \ s.failed :
        /\ s.batch[i].topic \notin s.keys
        /\ s.batch[i].topic # s.key \/ s.pc \in {"stamp", "users"}}

AcceptedAreKnown ==
    \A sh \in Shards :
        run[sh] # Idle =>
            \A i \in Accepted(run[sh]) :
                Known(run[sh].batch[i].topic, run[sh].batch[i].stored.data)

FootprintKnown ==
    \A k \in Keys : footprint[k] # NoShape => Known(k[2], footprint[k].fields)

(***************************************************************************)
(* liveSchemas.ts, on evolve: "Merges `observed` into the latest schema".  *)
(* The row that is read, and merged or stamped, has the highest version.   *)
(***************************************************************************)
EvolvesLatest ==
    [][\A sh \in Shards :
          run[sh].pc = "read" /\ run'[sh].pc \in {"insert", "stamp"} =>
              \A row \in rows :
                  row.topic = run[sh].key => row.version <= run'[sh].seen]_vars

(***************************************************************************)
(* "User footprints follow the global schema: only records it accepted"    *)
(* (liveSchemaExtractorLambda): every field of a footprint is in the       *)
(* topic's latest schema.                                                  *)
(***************************************************************************)
FootprintInSchema ==
    \A k \in Keys :
        footprint[k] # NoShape =>
            \E row \in rows :
                /\ row.topic = k[2]
                /\ \A other \in rows : other.topic = k[2] => other.version <= row.version
                /\ footprint[k].fields \subseteq row.schema.props

(***************************************************************************)
(* Once a shard is processed and nothing of a user has been given up, the  *)
(* user's footprint has the fields of the last write of each topic, though *)
(* batches that partly failed have been replayed.                          *)
(***************************************************************************)
FootprintIsLatest ==
    \A k \in Keys :
        stream[ShardOf[k[1]]] = <<>> /\ (\A event \in failureQueue : event.user # k[1]) =>
            footprint[k] = lastWrite[k]

(***************************************************************************)
(* A flagged record is stamped, deleted, or given up to the failure queue. *)
(***************************************************************************)
EvaluationSettles ==
    \A k \in Keys :
        (table[k] # Absent /\ table[k].flag) ~>
            \/ table[k] = Absent
            \/ ~table[k].flag
            \/ \E event \in failureQueue : KeyOf(event) = k

=============================================================================

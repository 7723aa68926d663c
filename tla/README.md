# Verification of the User Data Platform

TLA+ models of the User Data Platform's own logic, TLC runs over small
instances of them, and TLAPS proofs of what matters most. The reference is the
code under `src/` (the repository root); documents are quoted only where a run
shows that the code does otherwise.

## 1. Inventory

The platform keeps, for each user of an app and for the services linked to that
user, records in a DynamoDB table. Lambdas behind an API read and write them;
queues and a table stream drive the background work; a CDK app deploys it all,
and scripts and jobs operate it.

| Component | State | Operations | Hard behaviour | What makes it correct | Module |
|---|---|---|---|---|---|
| Erasure pipeline (DSAR) | `dsarQueue`, the delete queue and its dead-letter queue, tables `udp` and `identity` with index `sk-index` | start, request (count, page, send), delete (keys, identity rows) | at-least-once delivery, overlapping deliveries, retries from the start, partial failure, writers beside it, queries answered by copies that lag | no record there throughout is lost between pages and batches; only the batch's user is touched; batches and requests end; the user is erased | `DsarPipeline`, `Erasure`, `EventualReads` |
| Subject access requests (SAR) | `sarQueue`, a dead-letter queue, the bucket and its events, status records in `udp` | start, create file, presign, status | file and status written apart, two deliveries writing one object, erasure of the same user, queries answered by copies that lag | an accepted request is answered; a file is complete and its subject's; the erased stay erased | `SarPipeline`, `AtLeastOnce`, `EventualReads` |
| Live schema extraction | flagged items of `udp`, its stream, `live_schemas`, the failure queue | stream batch, `evolve` (read, merge, insert), stamp, user merge | optimistic versions raced for by shards, records rewritten in between, partial batch failures, replays, giving up | stamps describe what they stamp; versions form one widening chain; no evaluation is forgotten | `LiveSchema` |
| Shape inference and merging | none (pure) | `inferSchema`, `mergeSchemas`, `schemasEqual` | nested shapes, mixed types, formats | merging is a join | `LiveSchema` (one level) |
| Live user schemas | `live_user_schemas` | `mergeTopics`, hasher with a cache of MACs | replays, partial failures | the footprint follows the global schema and ends with the last write | `LiveSchema` |
| Data service and handlers | table `udp` | save, get, patch, delete, paged reads | read-modify-write without a version, eventually consistent reads | no update lost or reported that did not happen | `DataService` |
| Identity service and handlers | table `identity`, index `sk-index` | create user, link, resolve, exchange, list, delete | check-then-put, several rows under one name, expiry seen by some reads only | one user per name; a name in order resolves | `Identity` |
| DVLA pilot purge | table `identity` | scan, delete in batches | pages and deletes beside puts, deletes that fail, an end half-way | a purge without failures has deleted what was there | `Identity` |
| Routes, validation, error handling | none | request to status | errors thrown by middleware and by services | every status is a declared one | `ApiContract` |
| SQL connection | the client, its age, its pending error event | query, retry on conflict, reconnect | an effect without an answer, late events, ageing | a statement takes effect once; one connection is open | `Migration` |
| Live schema migration | DSQL tables, role, grants, IAM mapping | repeatable DDL, map, revoke | runs that fail between statements, time out or overlap | a complete run leaves what the extractor needs | `Migration` |
| Restore scripts | restored tables and buckets, restore jobs | check, start, poll, verify | polls by name, other runs, jobs that never end | a report is true of the run; every run ends | `Restore` |
| Infrastructure stacks, service factory, health check | which stacks are there; what waits in queues | deploy, dispatch, invoke, consume | an environment without some functions, messages before their consumer | nothing is denied; what is queued is consumed | `Wiring`, `Platform` |
| Monitoring stack and its release job | the stack, the saved hash, the jobs | discover, compare, deploy, save | overlapping releases, jobs that fail or are cancelled, deployments by hand | alarms and dashboards are of what there is | `Monitoring` |
| Field encryption | none | encrypt, decrypt | JSON round trip | decrypt returns what was encrypted | `DataService` (keys only) |
| Release pipeline | outside the process | build, test, promote | | | `Monitoring` (its job and deployment) |

How they interact. API handlers call the identity service for a `udpId` and
then the data service with it. Data writes raise the flag `toBeEvaluated` on
the item; the stream's filter passes exactly the flagged writes to the
extractor, which writes DSQL and then the item's schema version. The erasure
pipeline reads the identity service, counts and pages through the data service
and removes from both tables, while the handlers go on writing; the SAR
pipeline does the same to read, and its status records are the subject's own
items, which an erasure takes with the rest. The migration makes the cluster's
tables and the mapping under which the extractor logs in. `PROJECT.json` lists
every component with its files, and every hazard at its line.

## 2. Plan

Modules, in the order of writing. Those marked done are in this directory.

1. **`DsarPipeline`** (done), refining **`Erasure`** (done): the erasure
   pipeline, end to end. Proofs in `DsarPipeline_proofs`.
2. **`LiveSchema`** (done): extraction, versions, stamps and footprints. Proofs
   in `LiveSchema_proofs`, `LiveSchemaEvaluation_proofs` and
   `LiveSchemaFootprint_proofs`.
3. **`DataService`** (done): saves, patches, deletes. `DataService_proofs`.
4. **`SarPipeline`** (done), refining **`AtLeastOnce`** (done): subject access
   requests beside handlers and an erasure. `SarPipeline_proofs`.
5. **`Identity`** with **`ApiContract`** (done): the identity service, its
   handlers' statuses, and the purge. `Identity_proofs`.
6. **`Migration`**, **`Restore`**, **`Wiring`** and **`Platform`**,
   **`Monitoring`** (done), checked together by `MCOperations`. Proofs in
   `Operations_proofs`, for each module and for their composition.
7. **`Shape`** (left): `inferSchema` and `mergeSchemas` as operators over
   bounded nested values: commutative, associative, idempotent, and the result
   describes both sides. Recursive, so TLC only.
8. **`Encryption`** (left): the round trip of `encryptFields` and
   `decryptFields` as operators on values.
9. **`EventualReads`** (done): what a query without `ConsistentRead` may find,
   for both pipelines.
10. Left in modules that are there: jobs of AWS Backup that begin after their
   script has ended, in `Restore`.

## 3. The erasure pipeline: `DsarPipeline`

### State and actions

A record is `<<udpId, path>>`, the table's key; its contents do not matter.
`data` and `identity` are the tables. A queued request is its message; a delete batch is numbered in the order of sending,
with its keys, its place (`unsent`, `queued`, `done`, `dlq`) and its receive
count. Each concurrent Lambda invocation is a worker with a `pc`.

| Action | Code |
|---|---|
| `StartDsar` | `startDsarLambda`: new id, one message |
| `ResolveSubject` | `dsarRequestLambda`: receive and `getByServiceId`. If the copy has no row of the name the lookup throws and the message stays, so there is no step |
| `CountRecords` | `countByUdpID`, and the early `continue` |
| `ReadPage`, `SendBatch` | one turn of the loop: `getKeyPageByUdpID`, `sendMessage` |
| `AckRequest`, `RequestFails` | the invocation returns; or it throws or times out and everything is retried |
| `ReceiveBatch`, `BatchToDlq` | SQS delivers a queued batch, also while another invocation has it; after `maxReceiveCount` deliveries it moves to the dead-letter queue |
| `DeleteKey`, `EmptyBatchThrows`, `QueryRows`, `DeleteRow`, `AckBatch`, `DeleteFails` | `dsarDeleteLambda`, call by call |
| `HandlerResolves`, then `PostRecord` or `LinkIdentity` | `postData` and `createIdentity`: the write comes later than the lookup |
| `RecordGoes`, `RowGoes` | a delete by the API, or the time to live |
| `RecordSettles`, `RowSettles` | every copy of a table, and the `sk-index`, has the latest write of a record or row |

No query of this code is a consistent read. `lagging` and `laggingRows` are the
keys whose last write some copy of the table may not have: the code's queries
are answered by a view (`EventualReads!Views`), which finds or misses each of
these keys and is right about all others. The lookup, the count, each page and
the query of the rows have a view of their own, so one may find a key that the
next one misses. The constants `SlowRecords` and `SlowRows` bound the keys that
can lag; the proofs hold for any, all of them included.

`steady`, `owed` and `owners` are history variables: the records that every copy
had of the subject when an invocation resolved it and that nobody has deleted
since, those records once the request is acknowledged, and the users each name
has ever stood for. A record put so shortly before the lookup that some copy had
not got it is not among them: the count and every page may miss it, and then it
stays after the acknowledgement. `ErasureOwed` promises nothing of it, and no
property could.

A page is any prefix of the keys after the cursor of at most `PageSize` keys: a
query also stops at its size limit, and has a `LastEvaluatedKey` whenever it
stops at a limit, even after the last key. This is how an empty page, and so a
batch on which `keys[0].pk` throws, comes about.

### Runs

| Run | Checks | Shows |
|---|---|---|
| `dsar_safety` | `TypeOK`, `ErasureOwed`, `OneUserPerBatch`, `ImplementsErasure` | no record that every copy had when an acknowledged request resolved its subject is left out, whatever is delivered twice, fails, lags or is written; a batch touches its one user; every step is one of `Erasure` |
| `dsar_liveness` | `BatchesSettle`, `RequestsSettle`, `ErasesWhenNothingFails` | batches and requests end; if nothing fails, the user is erased |
| `dsar_crash` | `DeletesAllData`, violated | a request that fails after its first batch cannot resolve its subject again, and the rest of the records stays |

Bounds. Two users show a mix-up. Two records and pages of two, or of one, give
a full page followed by an empty one, a short page and several pages. Two
delete workers overlap on one batch. `MaxFailures = 1` places one failure
anywhere; `MaxReceive = 2` (3 in the stack) reaches the dead-letter queue after
a retry. `MaxBatches` is two in the safety run, so that two batches overlap or a
retry sends again; it is a guard of `SendBatch` only, and in the liveness run,
with four, it is never in the way (two attempts of two batches each). `MaxWrites`
bounds API calls. Records and rows that may lag are those that the writes of a
run touch: in the safety run one record that is there from the
start and one that is put later, and the app's row, so that the count misses a
new record, a page lists a deleted one and a request resolves a user by a row
that is gone; in the other runs a record that is deleted and the row of the
request.
Deadlock is not checked: an idle system may stay idle.

Fairness (`FairSpec`). Lambda polls its queues and runs what it has started:
weak fairness of a worker's steps. SQS hands out each visible message sooner or
later although others keep coming back: strong fairness per message. The copies
of a table catch up: weak fairness of some key that lags. Callers and failures
have none.

### Proofs

`DsarPipeline_proofs!TypeCorrect`: `Spec => []TypeOK` for all constants that
meet the assumptions of the module.

`ErasureIsOwed` and `BatchesAreOfOneUser`, in the same module: neither
invariant is inductive. A record of an acknowledged request must be in a batch
that nobody has got past; to keep that, the invocations before the
acknowledgement must keep it for what they have paged past (`PagedIsCovered`),
a page must be a prefix of what is left (`PageIsPrefix`), claims must be on
records that every copy has (`ClaimsInTable`), a batch in use must be one that
was sent (`BatchesInOrder`), and whoever a copy resolves or a batch lists is a
user that the name of a request has stood for (`OnlySubjects`). `IInv` conjoins these with `TypeOK`; `Inductive`
proves it. That pages may come from different copies does no harm because a
record that is claimed is in every view: a page that misses a lagging key is
still a prefix of the claimed ones. The central lemma, `CoveredKept`, says that a step that does not
delete a record keeps it covered: in particular an invocation can only reach
the identity rows, and so acknowledge its batch, when it has no key left.

`Erasure` is the promise without queues and functions: records come and go,
users become subjects when a request is made, some records are doomed, and only
those of subjects, and those that are owed stay doomed until they are gone. The
mapping takes the keys of the batches that are still to be worked off as the
doomed records, the users that the name of an accepted request has stood for as
the subjects, and `owed` as itself; what `ErasureOwed` leaves open, whose records
may be listed at all, is the other half of the promise.
`PipelineErases` proves from `IInv` that every step of the pipeline is a step of
`Erasure` or leaves it alone.

The half of the liveness properties that needs no fairness is that nothing goes
back. `RequestsGoOn`: each page of `dsarRequestLambda` begins after the last, since
a page holds keys after the cursor only (`PagesGoOn`), and nobody sends an
invocation back. `BatchesGoOn`: a delivery is counted and has less to delete with
every step; a batch that is done or dead-lettered is never revived, nor are its
keys changed, by an acknowledgement that comes after the visibility timeout.

## 4. Live schemas: `LiveSchema`

### State and actions

`table` has an item for each `<<user, topic>>`: its stored data (a set of
top-level fields, with a nonce when encryption makes every write different),
the flag and the version. `stream` has each shard's flagged writes;
a write that changes nothing of its item leaves no event there. `rows` is
`live_schemas` and `footprint` is `live_user_schemas`. One invocation per shard
runs at a time (`parallelizationFactor` 1).

| Action | Code |
|---|---|
| `Save`, `Update`, `Delete` | `DynamoDbDataService`: put, patch, delete of an item |
| `StartBatch` | the handler receives and reads a batch; an item without its key fails alone |
| `ReadLatest`, `InsertVersion` | `evolve`, one turn of its loop |
| `Stamp` | the conditional update that writes the version and lowers the flag |
| `KeyFails` | a call of a topic throws, before or after its effect: its items are reported as failed, the rest goes on |
| `MergeUser`, `UserFails` | the footprint of one user; its call throws, before or after its effect |
| `Return`, `Timeout` | the partial batch response; an invocation that failed as a whole |

`GiveBack` is the event source mapping of the stack: the batch comes back from
its first failed item, and a head that was retried `retryAttempts` times goes to
the failure queue with its batch. A batch that failed as a whole is bisected
first (`Bisect`), which does not count as a retry; `StartBatch` takes any number
of records up to `BatchSize`, so the halves are among what it can take. The
expiry of a stream record (`maxRecordAge`) is not modelled.

Versions are counted in tenths. `getLatest` selects `version::text AS version`
and orders by `version`; in PostgreSQL's rules this name is the output column,
so the model orders by the digits of the text (`TextBefore`).

A schema here has the properties ever seen and those always present: the top
level of `shape.ts`. `InitialRows` lets a run begin with versions that earlier
writes have made, under the assumption that they form a chain.

### Runs

| Run | Checks | Shows |
|---|---|---|
| `live_schema_race` | `TypeOK`, `StampSound`, `VersionsWiden`, `EvaluationSettles` | two shards race for one topic; stamps describe the data; versions are one widening chain; flagged records are stamped, deleted or given up |
| `live_schema_replay` | `NoLostEvaluation`, `FootprintInSchema`, `FootprintIsLatest` | batches of several users and topics fail in part and come back; nothing is forgotten and footprints are right at the end |
| `live_schema_latest` | `EvolvesLatest`, violated | from version 10.0 on, `evolve` reads 9.9 as the latest |

Bounds. Three writes give two records and a rewrite of one; batches of two
contain two records of one topic, of one user, or of neither. Two attempts of
`evolve` (three in the code) give a lost race that is won again and one that is
given up. One retry (`RetryAttempts`) and two failures reach the failure queue.
Without encryption equal data have equal bytes, so a stamp can hit a later
write of the same data: the race is checked that way, the replay with
encryption on. `live_schema_latest` starts with the 89 versions 1.1 to 9.9.
Users and topics in the one shard of the replay are interchangeable in the model
and so are declared symmetric; the race, which checks a liveness property too,
uses no symmetry.

Fairness (`FairSpec`). Weak fairness of each shard's extraction: the event
source mapping polls the shard and the function runs. Deadlock is not checked:
without writes nothing happens.

### Proofs

`LiveSchema_proofs` proves `TypeCorrect`, `StampsAreSound` and
`VersionsFormAChain` for all constants that meet the module's assumptions: any
shards, batches, attempts and retries, with or without encryption, from any
chain of earlier versions. `StampSound` and `VersionsWiden` are not inductive:
between reading a version and inserting the next one, or stamping, an
invocation acts on what it saw. `IInv` adds what it may still rely on:
`InsertWidens` (a version about to be inserted comes from a row that is there
and that the observed shape changes) and `StampDescribes` (a version about to be
stamped is there and describes each item still to stamp). Both survive the steps
of other shards because rows are only ever added. The algebra is in three
lemmas: the observed shape describes every item it was made from
(`ObservedDescribes`), merging keeps what a side describes (`MergeDescribes`),
and a merge that changes a schema widens it (`MergeWidens`). The text order of
versions plays no part: the chain holds whichever row is read as the latest.
`LaterVersionsDescribe` puts the two together: a record, once stamped, is
described by every later version of its topic too.

`VersionsAreFinite` (of which `EarlierVersions` assumes that what is there at
the beginning is finite) gives each topic a highest version.
`LatestIsReadBelowTen` is what is true of the order by text, and the counterpart
of the run `live_schema_latest`: while no version has reached 10.0, `evolve`
reads the highest one (`EvolvesLatestBelowTen`). `TenBeforeNine` is the exact
place where it ends. The argument needs what the digits of a number are, for any
number: `DigitsDefined` shows it by taking the least number for which it would
fail, since no induction theorem of the library can be used here.

`LiveSchemaEvaluation_proofs!NothingIsForgotten` proves `NoLostEvaluation`. That
an event is in the stream is not inductive, because a run drops its batch at the
end. `EvaluationPending` says more: the event of a flagged record is behind the
batch, or it is one the run has not settled (`Unsettled`: failed, of a topic
still to come, or still to stamp). `BatchAtHead` says that the batch is still
what the head of the stream holds. A step can only settle an item by stamping it
(`RunStep`): if the record is still the one of the event its flag goes down, and
if it is not, the event is not the one the record waits for. What `Return` and
`GiveBack` drop has been settled, or goes to the failure queue.

`RunsGoOn`, in the same module, is the half of `EvaluationSettles` that needs no
fairness. A run never goes back to a topic or user it has left and reads a topic
at most `MaxEvolveAttempts` times. When it ends, its shard is shorter, or the
record at the head is one retry nearer to the failure queue, or, after a failure,
a batch of several records is cut in two.

`LiveSchemaFootprint_proofs` proves the two properties of the footprints.
`FootprintIsLatest` speaks of a shard that is processed; before that, a run that
merges a batch it will have to hand in again moves footprints back and forth.
`Followed` says what holds all the time: a user's events are in one shard
(`InOwnShard`), the last item of a key in a batch, and the last event of a key in
the stream, are those of its last write (`ItemIsLast`, `EventIsLast`), users a
run has merged have the shapes of its batch (`MergedAreLast`), and a footprint
that is not that of the last write has an event to come, or somebody was given
up (`FootprintFollows`). `FootprintInSchema` needs that an item is merged only
after its topic's run has accepted it: `AcceptedAreKnown` says that an item whose
topic is done and has not failed is known to some version, for which a stamp
that meets a rewritten record is as good as one that hits; `FootprintKnown`
carries it over to what is stored, and the chain of versions to the latest one.

## 5. The data service: `DataService`

### State and actions

`table` has the item of each record: its data, the key they are sealed with,
the data key stored beside them, and when it expires. `replica` is what a read
that lags behind returns; `GetItem` without `ConsistentRead` may return either.
`patches` are the patches that have read their record and have not yet updated
it; any number may be under way at once. Documents have one nested level; it
stands for the deeper ones.

| Action | Code |
|---|---|
| `Save` | `postData`: `save`, a put with new data, key and expiry |
| `StartPatch` | `patchData`: `findByKey` of `patchByKey`; nothing found, or not decrypted, is an answer without a step |
| `Update` | the merge and the update on the condition that the item exists; without it nothing is written and the call is answered all the same |
| `PatchFails` | the call ends between its read and its write |
| `Goes` | `deleteByKey`, the erasure, the time to live |
| `ReplicaFollows` | the lagging read catches up with one record |

A save or a delete is one call of DynamoDB and so one step; that the lookup of
the identity comes earlier is `HandlerResolves` of `DsarPipeline`. `getData`
changes nothing and is left out. Items that are there at the start are plain
also when encryption is configured. That all functions have the same
configuration is assumed: while a deployment switches encryption on, an update
by an old function would leave a data key beside plain data.

`fresh` is a history variable of a patch: what it read was up to date, and
nobody has written its record since.

### Runs

| Run | Checks | Shows |
|---|---|---|
| `data_service_patches` | `TypeOK`, `AlwaysReadable`, `OnlySavesGiveLife`, `UndisturbedPatchMerges` | data and key stay together; patches neither revive a record nor touch its expiry; an undisturbed patch is the documented deep merge |
| `data_service_lost_write` | `PatchMergesExisting`, violated | the update overwrites what came in between |

Bounds. Three calls are two patches and a save of one record, or a patch and a
save of each of two. The bodies are two objects under one field, a scalar in
their place and another field, so every case of `deepMerge` occurs: merge,
scalar over object, object over scalar, new field. Records are symmetric.

### Proofs

`DataService_proofs` proves all four for all constants: any records, documents
and number of overlapping calls. `DeepMergeMerges` is the algorithm's part:
what `deepMerge` returns is what the documentation says. `IInv` adds
`FreshIsCurrent`, that a patch nobody has disturbed still has read what is
there, and `NoStrayKeys`, that without encryption no item has a data key; an
update keeps the old one then, and data and key would part.

## 6. Subject access requests: `SarPipeline`

### State and actions

`table` and `identity`, and with `lagging` and `laggingRows` what queries may
find of them, are as in the erasure pipeline, a SAR record being an item of the
subject whose sort key is its sarID. Lookups of names, pages and the status are
all answered by views. `sarQueue` and `dlq` hold
requests, `files` is the bucket with the user each object was made for, and
`events` the object-created events that are still to be handled, each with its
attempt. `work` and `signer` are the concurrent invocations of the two
functions.

| Action | Code |
|---|---|
| `StartSar` | `startSarLambda`: a fresh sarID, one message |
| `ResolveSubject`, `NoSubject` | `createSarFileLambda`: the lookup, and what its catch does when the copy has nobody |
| `ReadPage` | one page of `getAllByUdpID`, of any length, from any copy |
| `PutFile` | `PutObject` under the sarID, whatever is there; the bucket raises its event |
| `CreateThrows`, `SendToDlq`, `AckCreate`, `CreateFails` | an error that is caught, the handler's own send to the dead-letter queue, the return, and what is not caught |
| `TakeEvent`, `SaveRecord`, `SignFails` | `generateSarPresignedUrlLambda`: the user from the object's metadata, the record, and the retries of an asynchronous invocation |
| `HandlerResolves`, `PostRecord`, `LinkIdentity`, `ItemGoes`, `RowGoes` | what goes on beside it: writes after their lookup, erasure, unlinking |
| `ItemSettles`, `RowSettles` | every copy has the latest write of an item or row |

`getSarStatusLambda` writes nothing; `Status` is for whom it may answer,
`Available` that it does whichever copies it reads. History variables are
`owners`, the users each name has ever stood for, and `steady`, the items that
every copy had of a reader's subject when it was resolved and that nobody has
deleted since.

### Runs

| Run | Checks | Shows |
|---|---|---|
| `sar_safety` | `TypeOK`, `StatusServesSubject`, `CompleteFiles`, `GoneStaysGone`, `ImplementsAtLeastOnce` | a status is for the request's subject and serves his file; files miss nothing that every copy had throughout and hold nothing foreign; nothing of a user erased in every copy returns on its own; an accepted request is queued until it is answered |
| `sar_liveness` | `RecordsFollow`, `RequestsSettle`, `AnswersWhenNothingFails` | files get their records; requests leave the queue, also those of nobody; without failures the status becomes available, whichever copies answer, and stays so |

`StatusServesSubject` is conditional on a name that stood for one user only.
Without the condition it fails: a request that is delivered again after its name
was linked to another user writes that user's file under the same sarID, which
the older URL serves. `GoneStaysGone` lists what must have ended first. A
handler, a worker or an event that met the user before the erasure brings data
or a SAR record back. So does one that begins after it, as long as a copy of the
identity table still has a row the erasure has deleted, because `findByPk` is no
consistent read (`DynamoDbIdentityService.ts:183`): the run finds both when the
condition on `laggingRows` is taken out of `Gone`. `CompleteFiles` promises an
item that every copy had from the lookup on; one put shortly before may be
missing, and one deleted shortly before may be in the file.

Bounds. Two users and two names, each of which can move, show a mix-up; one
sarID delivered to two workers at once shows that they write one object; a path
before and one after the SAR record in the table's order make the record part of
a page. In the safety run the row of the user without data can lag and so can an
item put for that user, so that a handler or a request meets a user whose row is
gone and a page misses an item just put; in the liveness run the SAR record and
the row of the request lag. `MaxTries` is two (three in AWS), so that an event is retried and given
up. `MaxPuts` bounds the objects written; in the liveness run it is one more than
the failures, so no put is kept from happening. Deadlock is not checked.

Fairness (`FairSpec`). SQS delivers a message again and again until its
invocation returns and Lambda does the same with events: strong fairness for
each, weak fairness of the steps of what runs. The copies of a table catch up:
weak fairness of some key that lags. Callers and failures have none.

### Proofs

`SarPipeline_proofs` proves the five safety properties for all constants.
`IInv` says where a request can be: queued, or answered, as long as somebody
works on it (`WorkIsAccounted`); that files, readers and signers are of users
the request's name has stood for, whichever copy it was found by
(`UsersWereOwners`); and what a reader has so far of the items every copy has
(`ReadSoFar`), from which `CompleteFiles` follows at the put.
`PipelineAnswers` is the refinement: `AtLeastOnce` with a request's sarID as the
job, the queue as itself and a file or a dead letter as the outcome.

Of the liveness properties it proves what needs no fairness. `RecordsAreOwed`: a
file's event waits or is being handled until the SAR record is put or the last
attempt has failed, however attempts fail and files are written again, so
`RecordsFollow` can only fail by nothing happening. `CreatesGoOn`: pages follow
each other forward and what was read is kept until the file is written.

## 7. Identities: `Identity`, `ApiContract`

### State and actions

`rows` is the identity table and `replica` what a lagging read of it, or of its
`sk-index`, returns. A row has a name (service and id), a user and perhaps a
ttl; `now` is the time. A handler does one storage call a step. `ApiContract`
holds the routes with the statuses they declare and what `udpErrorHandling`
makes of an error.

| Action | Code |
|---|---|
| `CreateUser`, `PutUser` | `createAppUser`: the check, the put |
| `LinkIdentity`, `PutLink` | `linkIdentity`: the app's lookup, the put of the name as it is spelt |
| `ReadIdentity`; `GetLinkedIdentity`, `QueryLinked`; `GetAllLinkedServices`, `QueryBySk`; `DeleteById`, `Delete` | the reads and the deletion, call by call |
| `EndsEarly`, `StorageFails` | validation, body parsing, a call that throws |
| `StartPurge`, `fetchDVLAKeys`, `NextBatch`, `deleteBatch`, `PurgeEnds`, `PurgeDies` | `dvlaPilotPurgeLambda`: scan, batches, their deletes, the end |
| `ReplicaFollows`, `TtlDeletes`, `Tick` | DynamoDB and time |

### Run

`identity` checks `TypeOK` and four properties:

- `OneUserPerName`: a name has two users only if a creation crossed another, its
  check read a lagging or expired row, or the name was linked to two apps.
- `SettledAnswers`: a request whose name has been in order from its beginning to
  its end never answers 404, answers with what is its user's, and lists every
  live link. The name in order is what the two calls of a handler rely on.
- `PurgeComplete`: a purge that reports no failure has deleted every DVLA row
  that was there when it began and was not put again.
- `AnswersDeclared`: each status is one the route declares, but for a 404 of
  `createIdentity`.

Bounds. Two handlers overlap in three requests, with one row that expires and
one tick; `ClientCalls` has one request of each kind that differs: known and new
apps, links with and without an expiry, and both cases of a service name. Three
names and batches of one make the purge scan and delete in several steps.

### Proofs

`Identity_proofs` proves all five. `IInv` adds that a creation nothing has
escaped is about to put its name's first row (`UnexcusedIsFirst`), that the purge
still has what it must delete (`TargetsAccounted`), and that a settled request
has resolved its name to its one user (`SettledHasOwner`).

## 8. Operations: `Migration`, `Restore`, `Platform`, `Monitoring`

These four do not interact, and one run, `operations`, checks them: `MCOperations`
makes each behaviour a scene in which the variables of one module change.

### `Migration`: the cluster, its connection and its migration

`db` is the cluster, `job` what each session's code is doing, a session being a
run of the migration or a container of the extractor. `client` is
`DsqlConnection`'s `this.client`, `open` the connections the cluster has open and
`pending` the lost ones whose `error` event is still to come. `call` is the
statement under way, with how often it took effect without an answer.

`StartMigration` and `Use` begin the work, `After` is `lambdaHandler`'s order of
statements (DDL, then for each table role, grants, mapping and revokes).
`SendOnClient`, `Connect` and `ConnectThrows` are `getClient`; `Succeeds`,
`Refuses`, `Conflicts` and `LostAnswer` are the outcomes of `attemptQuery`;
`Executes` and `ServerCloses` the cluster's part; `ErrorEvent` the handler of a
client that may no longer be the present one; `TimesOut` the function's end.

- `StatementsOnce`: no statement takes effect twice.
- `ConnectionSound`: a container has one connection open, the one it would use
  next, and no statement is on one that the cluster closes for its age.
- `MigrationHolds`: a complete run that no run for another ARN has met leaves
  both tables, the grants and exactly its own mapping, after whatever failed
  and repeated runs, and takes nobody's access before its own ARN has it.

The migration runs as admin, whose login needs no mapping. An extractor's
statements follow each other within a container, so `getClient` never races with
itself. Two runs for different ARNs that overlap can revoke each other's
mapping: that is what `alone` sets apart.

### `Restore`: the restore scripts

`script` is each run of the two scripts, `target` each table's or bucket's status
and the run it comes from, `restoreJob` AWS Backup's job. The script's steps are
`Begin`, `CheckTarget`, `CheckPitr`, `StartPitr`, `StartJob`, `PollJob`,
`PollTable` and `Verify`; `CallFails` interrupts a run, whose table comes into
being all the same. `JobMakes`, `JobCompletes`, `JobFails`, `BecomesActive` are
AWS and `DeleteTarget` an operator. A job that has made nothing when its script
ends is left where it is: it would only take a name that is free.

- `RestoredIsOwn`: "Restore complete" is true of the run that prints it, though
  the polls go by name, unless somebody deleted the run's target since.
- `RunsEnd`: every run reports, whatever its job does.

### `Wiring`, `Platform`: what is deployed, and what is granted

`Wiring` translates the stacks into what each function of each environment is
given (variables, grants, keys, ports, endpoints) and the handlers into what they
ask for; `refused` is the difference. `Platform` deploys an environment stack by
stack, with requests, event sources and the migration in any order:
`DeployStack`, `ApiRequest` (through `Dispatch`, API Gateway's choice of the most
specific resource), `DirectInvoke`, `Consume`, `RunMigration`, `MigrationFails`.

- `NothingDenied`: no invocation lacks a variable, a grant, a key or a way
  through the VPC's endpoints, but an extractor that meets events before the
  migration has mapped it.
- `MessagesConsumed`: what is put in a queue or the SAR bucket is consumed, in
  each environment, also what comes before the consumer's stack.

### `Monitoring`: the monitoring stack and its job

`tagged` is what there is to watch, `monitoring` the stack, `savedHash` the
parameter, `release` each release with its job. `MonitoringStack` translates the
alarms, widgets and dashboards; `deployRequired` is the comparison of hashes.
Jobs form a concurrency group: `Enqueue` cancels the job that waits already.

- `MonitoringCurrent`: once all releases are over the stack watches exactly what
  is tagged, provided that all changes came from releases that succeeded, the
  last job to discover did too, and the hash tells of the last change of the
  stack. The history variables `unfollowed` and `unsaved` name the ways out.

### The run, its bounds and its fairness

Two migrations for two valid ARNs, with an invalid one mapped before, overlap
in the scene `overlap`; in `aging` one tick more than `MaxAge` makes a client
old and the clock reaches `ServerAge`, and each session has two clients. One
fault (`MaxFaults`) can be anywhere; `MAX_ATTEMPTS` is two (four in the code),
which has a conflict that is retried; a conflict on the last attempt takes a
second fault and is left to the proofs, which hold for any number of both. Two
restores share the one target of table restores, and a bucket that is new, one
that belongs to somebody else and the source; a script polls twice (120 times
in the code). The platform's scene is each of the three environments. Three
releases suffice for a job that runs, one that waits and one that cancels it;
one function of the platform and one of a pull request can come and go.
`DeveloperNames` is empty in this instance, which keeps the run near a minute;
developers' stacks are in the module and in the proof. Runs that differ in
their names only begin in one order. Deadlock is not checked: every scene may
end.

Fairness. A script polls by itself: weak fairness of `ScriptStep`. The stacks
`vpc`, `main` and `sar` get deployed: weak fairness of each. An event source
delivers what waits: weak fairness of each source's consumption. AWS owes no end
to a job, and the live schema stack may be taken back for ever.

### Proofs

`Operations_proofs` proves all of these but the two liveness properties, for the
modules' own specifications and all constants. `ScenesAreSteps` shows that a
behaviour of `MCOperations` is one of each module, and with it
`OperationsAreTyped` and `OperationsHold` say the same of the composition.

- `RestoreInv`: a run owns its target from the moment AWS makes it (`JobsOwn`,
  `TablesAwaited`, `ReportsOwn`), since no name that is taken is made again.
- `MonitoringInv`: one job is past the queue (`OneJob`); without unsaved changes
  the hash is the stack's (`HashTells`); a job about to save has just deployed,
  or an operator has since (`SavesTell`); and when nothing is unfollowed the
  running job's template, or the stack, is that of what is tagged (`Followed`).
- `ConnectionInv`: a statement that ran unanswered has lost its connection
  (`RanOnce`), the client is the only open one (`OneOpen`), and it was young when
  the statement was sent (`SentYoung`).
- `MigrationInv`: what a run has come past stays (`Steady`), an undisturbed run
  knows every valid mapping (`AloneSees`), and what a complete run left stays
  until a run for another ARN begins (`ReadyHolds`). `MigrationHasTypes` adds the
  bounds of a connection (`Bounded`): a statement that is not under way has an
  attempt left.
- `PlatformDeniesNothing` has no invariant to find, but a configuration to go
  through: `ConstructWires` and `ConstructGrants` say what `LambdaApiConstruct`
  makes of any properties it is given; `TableCall`, `QueueCall`, `KeyCall`,
  `BucketCall`, `SecretCall` and `ClusterCall` what a call of each kind takes to
  go through; and a lemma for each of the 21 functions that its handler gets it
  (`FunctionsEquipped`). Grants, variables or an endpoint policy that change
  leave the lemma of the function that needed them without a proof.
- `ScriptsComeToAnEnd` bounds what a restore script has left by a number that
  each of its steps lowers and nothing raises (`Remaining`, at most
  3 * `MAX_POLLS` + 3): a poll that goes on, a new phase with polls of its own and
  a failed call alike. Of `RunsEnd` only fairness is missing, that a script does
  take its next step.

## 9. Found

Shown by a run:

- `DeletesAllData` (`dsarRequestLambda/handler.ts:51`): a request that is
  retried after its first batch was processed finds no identity any more. Its
  message returns until it expires, and the records of the other pages stay.
  What makes it possible is that identities are removed after each batch
  (`dsarDeleteLambda/handler.ts:88`), not "after all data is deleted"
  (`docs/lambda-flow-diagrams.md:992`).
- `EvolvesLatest` (`liveSchemas.ts:42`): versions are ordered as text. After
  10.0 every change of shape of the topic conflicts with 10.0 on each attempt
  and ends in the failure queue, without any failure or second writer.
- `PatchMergesExisting` (`DynamoDbDataService.ts:79`): a patch writes the merge
  of its body and what it read, whatever the record is by then. Both calls are
  answered 200 and the fields of the one are gone; when a save with an expiry
  is overtaken, the older data are also left with that expiry. No overlap is
  needed when the read lags behind an earlier save.

Met while modelling, and kept in the models as the code has them:

- `linkIdentity` stores the service name as the request spells it and lookups
  lower-case theirs, so a link under `DVLA` is never found; linking a name to a
  second app adds a second row; an exchange answers with a link whose ttl is
  over, the other reads do not.
- `createIdentity` can answer 404 and `routes.ts` declares none for it; the same
  holds of `postData` and `patchData`, which no run covers.
- In stag and prod, where the SAR and DSAR routes are disabled, their paths fall
  to the routes of the data service.
- The monitoring job skips its deployment when an operator deployed another
  template since, or when the job before failed between deployment and
  parameter, or its creation was rolled back, while the old hash still equals
  the new template.
- The functions of developers' stacks match the inventory of dev.
- Alarms name the metrics `5xxError` and `4xxError`
  (`monitoring-stack.ts:308`); API Gateway publishes `5XXError` and `4XXError`.
- `__deploy-env.yml:83` checks out the branch when no `ref` is given, which may
  be ahead of what was tested.
- `docs/backup-and-restore.md:118` has the restore re-run with the original
  table's name as its target; the script always restores to `-restored`.
- `requireEnvVars.ts:11` compares the result object with the empty string, so an
  empty variable passes; `lambda-construct.ts:286` spells `PutItem` wrongly in a
  default that is not used.
- `backup-stack.ts:169` sets the vault's lock on the child of the key.

## 10. What is proved, what is only checked, what is left out

Proved for all constants: every type invariant, safety invariant and refinement
that a passing run checks. `TypeOK`, `ErasureOwed`, `OneUserPerBatch` and
`ImplementsErasure` of `DsarPipeline`; `TypeOK`, `StampSound`, `VersionsWiden`,
`NoLostEvaluation`, `FootprintIsLatest` and `FootprintInSchema` of `LiveSchema`;
`TypeOK`, `AlwaysReadable`, `OnlySavesGiveLife` and `UndisturbedPatchMerges` of
`DataService`; `TypeOK`, `StatusServesSubject`, `CompleteFiles`, `GoneStaysGone`
and `ImplementsAtLeastOnce` of `SarPipeline`; `TypeOK`, `OneUserPerName`,
`SettledAnswers`, `AnswersDeclared` and `PurgeComplete` of `Identity`;
`StatementsOnce`, `ConnectionSound` and `MigrationHolds` of `Migration`;
`RestoredIsOwn` of `Restore`; `NothingDenied` of `Platform`; `MonitoringCurrent`
of `Monitoring`; `OperationsTypeOK` of the composition. The proofs assume what
the modules' named ASSUMEs say and nothing else.

Checked by TLC only: the liveness properties (`BatchesSettle`, `RequestsSettle`
of both pipelines, `ErasesWhenNothingFails`, `EvaluationSettles`,
`RecordsFollow`, `AnswersWhenNothingFails`, `RunsEnd`, `MessagesConsumed`). They
rest on fairness, and so on when an action is enabled, of which the prover has no
rules. What they say beside fairness, that steps lead forward and nothing is
lost or taken back on the way, is proved: `RequestsGoOn`, `BatchesGoOn`,
`RunsGoOn`, `RecordsAreOwed`, `CreatesGoOn` and `ScriptsComeToAnEnd`.

Abstracted:
- What a query may miss or still find is a key whose last write has not reached
  every copy, each on its own account; the order in which the copies get writes
  to different keys is left open. `DsarPipeline` and `SarPipeline` have this for
  every query of both tables and the index; the contents of the items play no
  part there.
- Time exists in `Identity` and `Migration` only. Elsewhere an expiry is a record
  or row that goes; a message that SQS drops after its retention is one that
  returns for ever, and signed URLs do not expire.
- Resource paths that normalise to one topic (`toUdpKey`) are one key.
- Items without a data attribute are skipped by the extractor and left out.
- `LiveSchema` takes the SQL client's calls as one step that happens or fails,
  before or after its effect; `Migration` has the client. The AWS clients' own
  retries are below the level of the models.
- Messages that fail schema validation are not produced by any sender. A direct
  invocation of `dsarRequestLambda` in stag or prod, where nothing reads its
  delete queue, is not in `Platform`: nothing in the repository makes one.

Not modelled:
- Nested shapes and the encryption's JSON round trip: planned (section 2).
  `UserIdHasher` (`userSchema.ts:33`): a cache of MACs by user that forgets those
  that failed, and with it no state that anything else here reads.
- The zod schemas and the OpenAPI registry, the redaction of logs, headers, the
  order of the middleware that neither throws nor answers: data and wording.
- AppConfig, WAF, usage plans (no method requires a key), and caching,
  which is off: configuration without behaviour of its own.
- The backup, e2e and performance stacks, and the release pipeline beyond the
  deployment and the monitoring job: schedules and jobs of AWS and of the CI
  service, with no state in this code.
- Stacks of single developers, which differ in their names, except where those
  names matter (`Monitoring`).

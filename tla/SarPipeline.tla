----------------------------- MODULE SarPipeline -----------------------------
(***************************************************************************)
(* The subject access request: startSarLambda queues a request and returns *)
(* its sarID, createSarFileLambda writes the subject's items to the object *)
(* "sarID.json", the bucket's event makes generateSarPresignedUrlLambda    *)
(* sign a URL and put it in a SAR record beside the subject's data, and    *)
(* getSarStatusLambda hands the record out.  sarQueue is an SQS standard   *)
(* queue without a redrive policy; the function itself sends a request it  *)
(* cannot serve to a dead-letter queue.  The event is an asynchronous      *)
(* invocation, given up after MaxTries attempts.  Beside the pipeline API  *)
(* handlers write, erasure or time to live delete, and names are unlinked  *)
(* and linked to others.                                                   *)
(*                                                                         *)
(* An item of the data table is a pair <<udpId, sort key>>; the sort key   *)
(* of a SAR record is its sarID.  A row of the identity table is a pair    *)
(* <<name, udpId>>.  No query of either table is a consistent one: each    *)
(* sees a view of its own.                                                 *)
(***************************************************************************)
EXTENDS Naturals, FiniteSets, EventualReads

CONSTANTS
    Users,          \* the udpIds
    Paths,          \* the resource paths, ordered as the table orders them
    SarIds,         \* the sarIDs, ordered among the paths ("SAR/" # id)
    Names,          \* the "service#id" keys of the identity table
    AppNames,       \* the names of service "app": only they can be linked from
    Workers,        \* concurrent invocations of createSarFileLambda
    Signers,        \* concurrent invocations of generateSarPresignedUrlLambda
    Handlers,       \* concurrent API handlers that write for a user
    InitialTable,   \* the data table at the start
    InitialRows,    \* the identity table at the start
    MaxTries,       \* attempts at an asynchronous event: 1 and two retries
    MaxPuts,        \* bound: objects written in a behaviour
    MaxFailures,    \* bound: calls and invocations that fail in a behaviour
    MaxWrites,      \* bound: API calls and deletions beside the pipeline
    SlowItems,      \* bound: items whose puts and deletes may lag
    SlowRows        \* bound: identity rows whose puts and deletes may lag

Keys == Paths \cup SarIds
Items == Users \X Keys
Rows == Names \X Users

ASSUME OrderedKeys == Users \subseteq Nat \ {0} /\ Keys \subseteq Nat \ {0}
ASSUME FreshIds == Paths \cap SarIds = {}
ASSUME NamesAreNames == AppNames \subseteq Names /\ "nobody" \notin Names
ASSUME InitialTables == InitialTable \subseteq Users \X Paths /\ InitialRows \subseteq Rows
ASSUME Sizes == MaxTries \in Nat \ {0}
ASSUME Bounds == MaxPuts \in Nat /\ MaxFailures \in Nat /\ MaxWrites \in Nat
ASSUME SlowKeys == SlowItems \subseteq Items /\ SlowRows \subseteq Rows

VARIABLES
    table,      \* the data table: a set of items
    identity,   \* the identity table: a set of rows
    lagging,    \* the items that came or went and some copy does not know
    laggingRows,\* the same of the rows
    handler,    \* the udpId each API handler has resolved, and for what
    asked,      \* the name each sarID was handed out for
    sarQueue,   \* the requests queued and not yet acknowledged
    dlq,        \* the requests sent to the dead-letter queue
    work,       \* the state of each createSarFileLambda invocation
    files,      \* the bucket: the current object of each sarID
    events,     \* object-created events not yet handled
    puts,       \* objects written so far
    signer,     \* the state of each signing invocation
    failures,   \* calls and invocations that failed so far
    writes,     \* API calls and deletions beside the pipeline so far
    steady,     \* history: the subject's items that every copy had when
                \*   each worker resolved the subject and nobody deleted since
    owners,     \* history: the users each name has ever stood for
    signed,     \* history: the sarIDs that have had a SAR record
    givenUp     \* history: the sarIDs with an event that was given up

dataVars == <<table, lagging>>
identityVars == <<identity, laggingRows, owners>>
api == <<handler, writes>>
tables == <<dataVars, identityVars, api>>
fileVars == <<sarQueue, dlq, work, steady>>
bucket == <<files, events, puts>>
signVars == <<signer, signed, givenUp>>
vars == <<tables, asked, fileVars, bucket, signVars, failures>>

-----------------------------------------------------------------------------
Requests == [sar : SarIds, name : Names]
Events == [id : 1..MaxPuts, sar : SarIds, tries : 1..MaxTries]
Idle == [pc |-> "idle"]
NoFile == [user |-> 0, items |-> {}]
Nobody == "nobody"

HandlerStates == {Idle} \cup [pc : {"post", "link"}, name : Names, user : Users]

ReadRuns == [pc : {"read", "put"}, msg : Requests, user : Users, cursor : Nat,
             got : SUBSET Items]

CreateStates == {Idle} \cup [pc : {"dlq", "ack"}, msg : Requests] \cup ReadRuns

SignStates == {Idle} \cup [pc : {"save"}, event : Events, user : Users]

Files == {NoFile} \cup [user : Users, items : SUBSET Items]

TypeOK ==
    /\ table \in SUBSET Items
    /\ identity \in SUBSET Rows
    /\ lagging \in SUBSET Items
    /\ laggingRows \in SUBSET Rows
    /\ handler \in [Handlers -> HandlerStates]
    /\ asked \in [SarIds -> Names \cup {Nobody}]
    /\ sarQueue \in SUBSET Requests
    /\ dlq \in SUBSET Requests
    /\ work \in [Workers -> CreateStates]
    /\ files \in [SarIds -> Files]
    /\ events \in SUBSET Events
    /\ puts \in 0..MaxPuts
    /\ signer \in [Signers -> SignStates]
    /\ failures \in 0..MaxFailures
    /\ writes \in 0..MaxWrites
    /\ steady \in [Workers -> SUBSET Items]
    /\ owners \in [Names -> SUBSET Users]
    /\ signed \in SUBSET SarIds
    /\ givenUp \in SUBSET SarIds

Init ==
    /\ table = InitialTable
    /\ identity = InitialRows
    /\ lagging = {}
    /\ laggingRows = {}
    /\ handler = [h \in Handlers |-> Idle]
    /\ asked = [s \in SarIds |-> Nobody]
    /\ sarQueue = {}
    /\ dlq = {}
    /\ work = [w \in Workers |-> Idle]
    /\ files = [s \in SarIds |-> NoFile]
    /\ events = {}
    /\ puts = 0
    /\ signer = [v \in Signers |-> Idle]
    /\ failures = 0
    /\ writes = 0
    /\ steady = [w \in Workers |-> {}]
    /\ owners = [n \in Names |-> {u \in Users : <<n, u>> \in InitialRows}]
    /\ signed = {}
    /\ givenUp = {}

-----------------------------------------------------------------------------
(* What a query of the data table, or of the identity table, may find.     *)
DataViews == Views(table, lagging)
IdentityViews == Views(identity, laggingRows)

(* getByServiceId reads the row with the lowest sort key of a name, of     *)
(* those the copy has.                                                     *)
Resolves(view, n, u) ==
    /\ <<n, u>> \in view
    /\ \A x \in Users : <<n, x>> \in view => u <= x

ItemsOf(view, u) == {i \in view : i[1] = u}

(* An item is put, or goes and with it every claim on it.                  *)
PutItem(i) ==
    /\ table' = table \cup {i}
    /\ lagging' = LaggingAfter(table, table \cup {i}, lagging, SlowItems)

RemoveItem(i) ==
    /\ table' = table \ {i}
    /\ lagging' = LaggingAfter(table, table \ {i}, lagging, SlowItems)
    /\ steady' = [w \in Workers |-> steady[w] \ {i}]

PutRow(row) ==
    /\ identity' = identity \cup {row}
    /\ laggingRows' = LaggingAfter(identity, identity \cup {row}, laggingRows, SlowRows)
    /\ owners' = [owners EXCEPT ![row[1]] = @ \cup {row[2]}]

RemoveRow(row) ==
    /\ identity' = identity \ {row}
    /\ laggingRows' = LaggingAfter(identity, identity \ {row}, laggingRows, SlowRows)
    /\ UNCHANGED owners

(* Every copy has the latest write of an item, or of a row.                *)
ItemSettles(i) ==
    /\ i \in lagging
    /\ lagging' = lagging \ {i}
    /\ UNCHANGED <<table, identityVars, api, asked, fileVars, bucket, signVars, failures>>

RowSettles(row) ==
    /\ row \in laggingRows
    /\ laggingRows' = laggingRows \ {row}
    /\ UNCHANGED <<dataVars, identity, owners, api, asked, fileVars, bucket, signVars, failures>>

Fails == failures < MaxFailures /\ failures' = failures + 1
Calls == writes < MaxWrites /\ writes' = writes + 1

\* Fault: a warm function remembers the identities it has looked up.
HandlerResolvesCached(h, op, n, u) ==
    /\ handler[h] = Idle
    /\ Calls
    /\ op = "link" => n \in AppNames
    /\ u \in owners[n]
    /\ handler' = [handler EXCEPT ![h] = [pc |-> op, name |-> n, user |-> u]]
    /\ UNCHANGED <<dataVars, identityVars, asked, fileVars, bucket, signVars, failures>>

(* An API handler: the identity first, the write under its udpId later.    *)
HandlerResolves(h, op, n, u) ==
    /\ handler[h] = Idle
    /\ Calls
    /\ op = "link" => n \in AppNames
    /\ \E view \in IdentityViews : Resolves(view, n, u)
    /\ handler' = [handler EXCEPT ![h] = [pc |-> op, name |-> n, user |-> u]]
    /\ UNCHANGED <<dataVars, identityVars, asked, fileVars, bucket, signVars, failures>>

PostRecord(h, p) ==
    /\ handler[h].pc = "post"
    /\ PutItem(<<handler[h].user, p>>)
    /\ handler' = [handler EXCEPT ![h] = Idle]
    /\ UNCHANGED <<identityVars, writes, asked, fileVars, bucket, signVars, failures>>

LinkIdentity(h, n) ==
    /\ handler[h].pc = "link"
    /\ n # handler[h].name
    /\ PutRow(<<n, handler[h].user>>)
    /\ handler' = [handler EXCEPT ![h] = Idle]
    /\ UNCHANGED <<dataVars, writes, asked, fileVars, bucket, signVars, failures>>

(* Erasure, deleteData and time to live take items, SAR records included.  *)
ItemGoes(i) ==
    /\ i \in table
    /\ Calls
    /\ RemoveItem(i)
    /\ UNCHANGED <<identityVars, handler, asked, sarQueue, dlq, work, bucket, signVars, failures>>

RowGoes(row) ==
    /\ row \in identity
    /\ Calls
    /\ RemoveRow(row)
    /\ UNCHANGED <<dataVars, handler, asked, fileVars, bucket, signVars, failures>>

-----------------------------------------------------------------------------
(* startSarLambda: a fresh sarID, one message, 202.                        *)
StartSar(s, n) ==
    /\ asked[s] = Nobody
    /\ asked' = [asked EXCEPT ![s] = n]
    /\ sarQueue' = sarQueue \cup {[sar |-> s, name |-> n]}
    /\ UNCHANGED <<tables, dlq, work, steady, bucket, signVars, failures>>

(* createSarFileLambda receives a request and resolves its subject.        *)
ResolveSubject(w, m, u) ==
    /\ work[w] = Idle
    /\ m \in sarQueue
    /\ \E view \in IdentityViews : Resolves(view, m.name, u)
    /\ work' = [work EXCEPT ![w] =
            [pc |-> "read", msg |-> m, user |-> u, cursor |-> 0, got |-> {}]]
    /\ steady' = [steady EXCEPT ![w] = ItemsOf(table \ lagging, u)]
    /\ UNCHANGED <<tables, asked, sarQueue, dlq, bucket, signVars, failures>>

\* Fault: the lookup stands outside the try block.
NoSubjectThrows(w, m) ==
    /\ work[w] = Idle
    /\ m \in sarQueue
    /\ \E view \in IdentityViews : \A u \in Users : <<m.name, u>> \notin view
    /\ UNCHANGED vars

(* ... or finds nobody: the error is caught and the request dead-lettered. *)
NoSubject(w, m) ==
    /\ work[w] = Idle
    /\ m \in sarQueue
    /\ \E view \in IdentityViews : \A u \in Users : <<m.name, u>> \notin view
    /\ work' = [work EXCEPT ![w] = [pc |-> "dlq", msg |-> m]]
    /\ UNCHANGED <<tables, asked, sarQueue, dlq, steady, bucket, signVars, failures>>

\* Fault: the loop ends with the first page.
ReadFirstPageOnly(w) ==
    /\ work[w].pc = "read"
    /\ \E view \in DataViews :
          LET s == work[w]
              rest == {i \in ItemsOf(view, s.user) : i[2] > s.cursor}
          IN  \E page \in SUBSET rest :
                /\ page = {} => rest = {}
                /\ \A i \in page, j \in rest \ page : i[2] < j[2]
                /\ work' = [work EXCEPT ![w] = [s EXCEPT !.pc = "put", !.got = @ \cup page]]
    /\ UNCHANGED <<tables, asked, sarQueue, dlq, steady, bucket, signVars, failures>>

(* One page of getAllByUdpID: it ends wherever the query meets its size    *)
(* limit, and the loop goes on from its last key while there is one.       *)
ReadPage(w) ==
    /\ work[w].pc = "read"
    /\ \E view \in DataViews :
          LET s == work[w]
              rest == {i \in ItemsOf(view, s.user) : i[2] > s.cursor}
          IN  \/ work' = [work EXCEPT ![w] = [s EXCEPT !.pc = "put", !.got = @ \cup rest]]
              \/ \E last \in rest :
                    work' = [work EXCEPT ![w] = [s EXCEPT !.cursor = last[2],
                               !.got = @ \cup {i \in rest : i[2] <= last[2]}]]
    /\ UNCHANGED <<tables, asked, sarQueue, dlq, steady, bucket, signVars, failures>>

\* Fault: the bucket has no event notification.
PutFileNoEvent(w) ==
    LET s == work[w]
    IN  /\ s.pc = "put"
        /\ puts < MaxPuts
        /\ puts' = puts + 1
        /\ files' = [files EXCEPT ![s.msg.sar] = [user |-> s.user, items |-> s.got]]
        /\ work' = [work EXCEPT ![w] = [pc |-> "ack", msg |-> s.msg]]
        /\ steady' = [steady EXCEPT ![w] = {}]
        /\ UNCHANGED <<tables, asked, sarQueue, dlq, events, signVars, failures>>

(* PutObject under the sarID, whatever object is there, with the udpId in  *)
(* its metadata; the bucket raises an event.                               *)
PutFile(w) ==
    LET s == work[w]
    IN  /\ s.pc = "put"
        /\ puts < MaxPuts
        /\ puts' = puts + 1
        /\ files' = [files EXCEPT ![s.msg.sar] = [user |-> s.user, items |-> s.got]]
        /\ events' = events \cup {[id |-> puts', sar |-> s.msg.sar, tries |-> 1]}
        /\ work' = [work EXCEPT ![w] = [pc |-> "ack", msg |-> s.msg]]
        /\ steady' = [steady EXCEPT ![w] = {}]
        /\ UNCHANGED <<tables, asked, sarQueue, dlq, signVars, failures>>

\* Fault: the error is logged and nothing is sent.
CreateThrowsSilently(w) ==
    /\ work[w].pc \in {"read", "put"}
    /\ Fails
    /\ work' = [work EXCEPT ![w] = [pc |-> "ack", msg |-> work[w].msg]]
    /\ steady' = [steady EXCEPT ![w] = {}]
    /\ UNCHANGED <<tables, asked, sarQueue, dlq, bucket, signVars>>

(* A read or the put throws: the handler catches it.                       *)
CreateThrows(w) ==
    /\ work[w].pc \in {"read", "put"}
    /\ Fails
    /\ work' = [work EXCEPT ![w] = [pc |-> "dlq", msg |-> work[w].msg]]
    /\ steady' = [steady EXCEPT ![w] = {}]
    /\ UNCHANGED <<tables, asked, sarQueue, dlq, bucket, signVars>>

(* The handler itself sends the request to the dead-letter queue.          *)
SendToDlq(w) ==
    /\ work[w].pc = "dlq"
    /\ dlq' = dlq \cup {work[w].msg}
    /\ work' = [work EXCEPT ![w].pc = "ack"]
    /\ UNCHANGED <<tables, asked, sarQueue, steady, bucket, signVars, failures>>

(* The invocation returned: its message leaves the queue.                  *)
AckCreate(w) ==
    /\ work[w].pc = "ack"
    /\ sarQueue' = sarQueue \ {work[w].msg}
    /\ work' = [work EXCEPT ![w] = Idle]
    /\ UNCHANGED <<tables, asked, dlq, steady, bucket, signVars, failures>>

(* The send to the dead-letter queue throws, or the invocation times out:  *)
(* the message stays on the queue.                                         *)
CreateFails(w) ==
    /\ work[w] # Idle
    /\ Fails
    /\ work' = [work EXCEPT ![w] = Idle]
    /\ steady' = [steady EXCEPT ![w] = {}]
    /\ UNCHANGED <<tables, asked, sarQueue, dlq, bucket, signVars>>

-----------------------------------------------------------------------------
(* generateSarPresignedUrlLambda.                                          *)

\* Fault: a udpId kept in a module variable of the warm function is used.
TakeEventStaleUser(v, e) ==
    /\ signer[v] = Idle
    /\ e \in events
    /\ files[e.sar] # NoFile
    /\ events' = events \ {e}
    /\ \E u \in Users :
          signer' = [signer EXCEPT ![v] = [pc |-> "save", event |-> e, user |-> u]]
    /\ UNCHANGED <<tables, asked, fileVars, files, puts, signed, givenUp, failures>>

(* HeadObject: the udpId comes from the metadata of the current object.    *)
TakeEvent(v, e) ==
    /\ signer[v] = Idle
    /\ e \in events
    /\ files[e.sar] # NoFile
    /\ events' = events \ {e}
    /\ signer' = [signer EXCEPT ![v] =
            [pc |-> "save", event |-> e, user |-> files[e.sar].user]]
    /\ UNCHANGED <<tables, asked, fileVars, files, puts, signed, givenUp, failures>>

(* The signed URL is put in the SAR record, whatever record is there.      *)
SaveRecord(v) ==
    /\ signer[v].pc = "save"
    /\ PutItem(<<signer[v].user, signer[v].event.sar>>)
    /\ signed' = signed \cup {signer[v].event.sar}
    /\ signer' = [signer EXCEPT ![v] = Idle]
    /\ UNCHANGED <<identityVars, api, asked, fileVars, bucket, givenUp, failures>>

\* Fault: the error is not rethrown, nobody tries again.
SignSwallows(v) ==
    /\ signer[v] # Idle
    /\ Fails
    /\ signer' = [signer EXCEPT ![v] = Idle]
    /\ UNCHANGED <<tables, asked, fileVars, bucket, signed, givenUp>>

\* Fault: no limit on the retries of the asynchronous event.
SignFailsForever(v) ==
    LET e == signer[v].event
    IN  /\ signer[v] # Idle
        /\ Fails
        /\ events' = events \cup {[e EXCEPT !.tries = @ + 1]}
        /\ signer' = [signer EXCEPT ![v] = Idle]
        /\ UNCHANGED <<tables, asked, fileVars, files, puts, signed, givenUp>>

(* Signing or saving throws and is rethrown: the event comes back, or is   *)
(* given up after its last attempt.                                        *)
SignFails(v) ==
    LET e == signer[v].event
    IN  /\ signer[v] # Idle
        /\ Fails
        /\ \/ /\ e.tries < MaxTries
              /\ events' = events \cup {[e EXCEPT !.tries = @ + 1]}
              /\ UNCHANGED givenUp
           \/ /\ e.tries = MaxTries
              /\ givenUp' = givenUp \cup {e.sar}
              /\ UNCHANGED events
        /\ signer' = [signer EXCEPT ![v] = Idle]
        /\ UNCHANGED <<tables, asked, fileVars, files, puts, signed>>

(* getSarStatusLambda: the users for whom a name's request for s may       *)
(* answer 200, and whether it does whichever copies answer.  It writes     *)
(* nothing.                                                                *)
Status(n, s) ==
    {u \in Users : \E rows \in IdentityViews, items \in DataViews :
                      Resolves(rows, n, u) /\ <<u, s>> \in items}

Available(n, s, u) ==
    \A rows \in IdentityViews, items \in DataViews :
        Resolves(rows, n, u) /\ <<u, s>> \in items

-----------------------------------------------------------------------------
Beside ==
    \/ \E h \in Handlers :
        \/ \E op \in {"post", "link"}, n \in Names, u \in Users : HandlerResolves(h, op, n, u)
        \/ \E p \in Paths : PostRecord(h, p)
        \/ \E n \in Names : LinkIdentity(h, n)
    \/ \E i \in table : ItemGoes(i)
    \/ \E row \in identity : RowGoes(row)

CreateStep(w) == ReadPage(w) \/ PutFile(w) \/ SendToDlq(w) \/ AckCreate(w)

Receive(w, m) == NoSubject(w, m) \/ \E u \in Users : ResolveSubject(w, m, u)

Next ==
    \/ Beside
    \/ \E s \in SarIds, n \in Names : StartSar(s, n)
    \/ \E w \in Workers :
        \/ \E m \in sarQueue : Receive(w, m)
        \/ CreateStep(w)
        \/ CreateThrows(w)
        \/ CreateFails(w)
    \/ \E v \in Signers :
        \/ \E e \in events : TakeEvent(v, e)
        \/ SaveRecord(v)
        \/ SignFails(v)
    \/ \E i \in lagging : ItemSettles(i)
    \/ \E row \in laggingRows : RowSettles(row)

Spec == Init /\ [][Next]_vars

(***************************************************************************)
(* Lambda polls the queue and runs what it receives, and delivers every    *)
(* event, and every copy gets every write; nothing obliges a caller to act *)
(* or a call to fail.                                                      *)
(***************************************************************************)
Fairness ==
    /\ \A m \in Requests : SF_vars(\E w \in Workers : Receive(w, m))
    /\ \A w \in Workers : WF_vars(CreateStep(w))
    /\ \A e \in Events : SF_vars(\E v \in Signers : TakeEvent(v, e))
    /\ \A v \in Signers : WF_vars(SaveRecord(v))
    /\ WF_vars(\E i \in lagging : ItemSettles(i))
    /\ WF_vars(\E row \in laggingRows : RowSettles(row))

FairSpec == Spec /\ Fairness

-----------------------------------------------------------------------------
(***************************************************************************)
(* The queue's promise: an accepted request stays queued until its file is *)
(* written or it is in the dead-letter queue, whatever deliveries overlap, *)
(* fail or come twice.                                                     *)
(***************************************************************************)
Queued == {m.sar : m \in sarQueue}
Answered == {s \in SarIds : files[s] # NoFile} \cup {m.sar : m \in dlq}

Answers == INSTANCE AtLeastOnce WITH
    Jobs <- SarIds, queued <- Queued, outcome <- Answered

ImplementsAtLeastOnce == Answers!Spec

(***************************************************************************)
(* A file holds every item that the subject had in every copy of the table *)
(* when the request resolved it and has had since, across all pages,       *)
(* whichever copy answers each, and beside all writers, and no item of     *)
(* anybody else.  An item put so shortly before that some copy had not got *)
(* it is not promised, and one just deleted may still be in the file.      *)
(***************************************************************************)
CompleteFiles ==
    [][\A s \in SarIds : files'[s] # files[s] =>
          \E w \in Workers :
              /\ work[w].pc = "put" /\ work[w].msg.sar = s
              /\ steady[w] \subseteq files'[s].items
              /\ \A i \in files'[s].items : i[1] = files'[s].user]_vars

(* The name a request was made under has stood for one user only.          *)
NeverMoved(n) == \A u, x \in owners[n] : u = x

(***************************************************************************)
(* getSarStatus answers only for a user the request's own name stood for,  *)
(* and the object its URL serves is that user's, as long as that name      *)
(* never moved to another user: a redelivered request would resolve the    *)
(* new one and write his file over the object an older URL serves.         *)
(***************************************************************************)
StatusServesSubject ==
    \A n \in Names, s \in SarIds : \A u \in Status(n, s) :
        /\ asked[s] # Nobody
        /\ u \in owners[asked[s]]
        /\ NeverMoved(asked[s]) => files[s].user = u

(* Nothing is left that stands for u, in any copy of the identity table,   *)
(* or still works for u.                                                   *)
Gone(u) ==
    /\ \A row \in identity \cup laggingRows : row[2] # u
    /\ ItemsOf(table, u) = {}
    /\ \A h \in Handlers : handler[h] # Idle => handler[h].user # u
    /\ \A w \in Workers : work[w].pc \in {"read", "put"} => work[w].user # u
    /\ \A v \in Signers : signer[v] # Idle => signer[v].user # u
    /\ \A e \in events : files[e.sar].user # u
    /\ \A v \in Signers : signer[v] # Idle => files[signer[v].event.sar].user # u

(***************************************************************************)
(* Once the erasure of a user is complete, every copy of the identity      *)
(* table has it, and no handler, worker or event that met him before is    *)
(* under way, no item and no row of his comes back: only what resolved him *)
(* earlier, or resolves him by a copy that still has a row the erasure     *)
(* took, can bring a SAR record or data back.                              *)
(***************************************************************************)
GoneStaysGone == [][\A u \in Users : Gone(u) => Gone(u)']_vars

-----------------------------------------------------------------------------
(* What makes the promises above inductive.                                *)

Busy(w) == work[w] # Idle
Reading(w) == work[w].pc \in {"read", "put"}

(* A request, queued, dead-lettered or worked on, is one that was made.    *)
RequestsWereMade ==
    /\ \A m \in sarQueue \cup dlq : asked[m.sar] = m.name
    /\ \A w \in Workers : Busy(w) => asked[work[w].msg.sar] = work[w].msg.name

(* A request worked on is queued or has its outcome; one about to be       *)
(* acknowledged has it.                                                    *)
WorkIsAccounted ==
    \A w \in Workers : Busy(w) =>
        \/ work[w].msg.sar \in Answered
        \/ work[w].pc # "ack" /\ work[w].msg \in sarQueue

(* Files, their readers and their signers are of users that the name of    *)
(* the request has stood for, and a SAR record follows a file.             *)
UsersWereOwners ==
    /\ \A row \in identity \cup laggingRows : row[2] \in owners[row[1]]
    /\ \A w \in Workers : Reading(w) => work[w].user \in owners[work[w].msg.name]
    /\ \A s \in SarIds : files[s] # NoFile =>
          asked[s] # Nobody /\ files[s].user \in owners[asked[s]]
    /\ \A e \in events : files[e.sar] # NoFile
    /\ \A v \in Signers : signer[v] # Idle =>
          /\ files[signer[v].event.sar] # NoFile
          /\ signer[v].user \in owners[asked[signer[v].event.sar]]
    /\ \A i \in table \cup lagging : i[2] \in SarIds =>
          files[i[2]] # NoFile /\ i[1] \in owners[asked[i[2]]]

(* What a reader has read, and what it owes, is its subject's; every copy  *)
(* has what it owes.                                                       *)
ReadSoFar ==
    \A w \in Workers :
        /\ ~Reading(w) => steady[w] = {}
        /\ Reading(w) =>
              /\ steady[w] \subseteq ItemsOf(table \ lagging, work[w].user)
              /\ \A i \in work[w].got : i[1] = work[w].user
              /\ \A i \in steady[w] :
                    work[w].pc = "put" \/ i[2] <= work[w].cursor => i \in work[w].got

IInv ==
    /\ TypeOK
    /\ RequestsWereMade
    /\ WorkIsAccounted
    /\ UsersWereOwners
    /\ ReadSoFar

-----------------------------------------------------------------------------
(***************************************************************************)
(* A file gets its SAR record, or its event is given up: nothing else ends *)
(* the attempts.                                                           *)
(***************************************************************************)
RecordsFollow == \A s \in SarIds : files[s] # NoFile ~> s \in signed \cup givenUp

(***************************************************************************)
(* A queued request leaves the queue, also when its subject is unknown and *)
(* after failures.                                                         *)
(***************************************************************************)
RequestsSettle == \A m \in Requests : m \in sarQueue ~> m \notin sarQueue

(***************************************************************************)
(* While nothing fails and nobody writes or deletes, the status of a       *)
(* request whose name resolves becomes available whichever copy is asked,  *)
(* and stays so.                                                           *)
(***************************************************************************)
AnswersWhenNothingFails ==
    [](failures = 0 /\ writes = 0) =>
        \A m \in Requests, u \in Users :
            m \in sarQueue /\ Resolves(identity, m.name, u)
                ~> []Available(m.name, m.sar, u)

=============================================================================

------------------------------ MODULE Migration ------------------------------
(***************************************************************************)
(* The cluster of the live schemas, seen from the two functions that use   *)
(* it: the migration, which a deployment runs as admin to make the tables, *)
(* the role of the extractor, its grants and the IAM mapping; and the      *)
(* extractor, which logs in under that mapping.  Both go through           *)
(* DsqlConnection: one client kept between statements, recycled by age,    *)
(* statements retried when the cluster reports a conflict and never when   *)
(* the connection was lost, since they may have taken effect.              *)
(*                                                                         *)
(* A run of the migration may fail between any two statements or be cut    *)
(* off by its timeout, and runs of two deployments may overlap.            *)
(***************************************************************************)
EXTENDS Naturals, Sequences, FiniteSets

CONSTANTS
    Migrations,     \* invocations of liveSchemaMigrationLambda
    Extractors,     \* containers of liveSchemaExtractorLambda
    Arns,           \* of execution roles
    ValidArns,      \* those that match IAM_ROLE_ARN
    ArnOf,          \* the role each extractor container runs under
    MappedBefore,   \* what an earlier administrator left mapped
    MAX_ATTEMPTS,
    MaxAge,         \* MAX_CONNECTION_AGE_MS, in ticks of the clock
    ServerAge,      \* the age at which the cluster closes a connection
    MaxTime, MaxClients, MaxFaults, MaxUses     \* bounds

Sessions == Migrations \cup Extractors

ASSUME SessionsAssumption == Migrations \cap Extractors = {}
ASSUME ArnsAssumption ==
    /\ ValidArns \subseteq Arns
    /\ ArnOf \in [Extractors -> Arns]
    /\ MappedBefore \subseteq Arns
\* A statement takes less than a tick.
ASSUME AgeAssumption == MaxAge \in Nat /\ ServerAge \in Nat /\ MaxAge + 1 < ServerAge
ASSUME MigrationBounds ==
    /\ MAX_ATTEMPTS \in Nat \ {0}
    /\ MaxTime \in Nat /\ MaxClients \in Nat /\ MaxFaults \in Nat /\ MaxUses \in Nat

VARIABLES
    db,         \* the cluster: tables, role, grants and mapped ARNs
    job,        \* what each session's code is doing
    call,       \* the statement each session has under way
    client,     \* each connection's this.client: a number, 0 for undefined
    clients,    \* when each of a session's clients connected
    open,       \* the clients whose connection the cluster has open
    pending,    \* the lost clients whose 'error' event is still to come
    clock,
    faults,     \* conflicts, lost connections and timeouts so far
    uses,       \* statements of extractors so far
    ready,      \* history: the ARN of the last run that completed undisturbed, if
                \* no run for another has begun since
    alone       \* history: no run for another ARN has met this run

dbVars == <<db, ready, alone>>
connVars == <<client, clients, open, pending>>
migrationVars == <<db, job, call, client, clients, open, pending, clock, faults, uses, ready, alone>>

Idle == [pc |-> "idle"]
NoCall == [attempt |-> 0, sent |-> FALSE, on |-> 0, at |-> 0, ran |-> 0]

\* TABLE_DDL and DB_ROLE_GRANTS, in their order.
Tables == <<"live_schemas", "live_user_schemas">>

MigrationPcs ==
    {"ddl", "selectRole", "createRole", "grant", "selectMapping", "iamGrant", "iamRevoke"}
MigrationJobs ==
    [pc : MigrationPcs, i : DOMAIN Tables, arn : ValidArns, stale : SUBSET Arns]
ExtractorJobs == [pc : {"use"}, table : DOMAIN Tables]
Ended == {[pc |-> "done"], [pc |-> "failed"]}

MigrationInit ==
    /\ db = [tables |-> {}, role |-> FALSE, grants |-> {}, mapped |-> MappedBefore]
    /\ job = [s \in Sessions |-> Idle]
    /\ call = [s \in Sessions |-> NoCall]
    /\ client = [s \in Sessions |-> 0]
    /\ clients = [s \in Sessions |-> <<>>]
    /\ open = [s \in Sessions |-> {}]
    /\ pending = [s \in Sessions |-> {}]
    /\ clock = 0 /\ faults = 0 /\ uses = 0
    /\ ready = {}
    /\ alone = [m \in Migrations |-> FALSE]

Active(m) == job[m] \notin {Idle} \cup Ended

-----------------------------------------------------------------------------
(* The statements, what they do to the cluster and when it refuses them.   *)

NextStale(j) == CHOOSE a \in j.stale : TRUE

\* pg_roles and the mapping are read, not written, by the two selects.
Applied(j) ==
    CASE j.pc = "ddl"        -> [db EXCEPT !.tables = @ \cup {j.i}]
      [] j.pc = "createRole" -> [db EXCEPT !.role = TRUE]
      [] j.pc = "grant"      -> [db EXCEPT !.grants = @ \cup {j.i}]
      [] j.pc = "iamGrant"   -> [db EXCEPT !.mapped = @ \cup {j.arn}]
      [] j.pc = "iamRevoke"  -> [db EXCEPT !.mapped = @ \ {NextStale(j)}]
      [] OTHER               -> db

\* Whether the cluster carries a statement out.  Mapping what is mapped, and
\* revoking what is not, it may refuse or ignore.
MayApply(j) ==
    CASE j.pc = "createRole" -> ~db.role
      [] j.pc = "grant"      -> db.role /\ j.i \in db.tables
      [] j.pc = "use"        -> j.table \in db.tables \cap db.grants
      [] OTHER               -> TRUE

MayRefuse(j) ==
    CASE j.pc = "iamGrant"  -> j.arn \in db.mapped
      [] j.pc = "iamRevoke" -> NextStale(j) \notin db.mapped
      [] OTHER              -> ~MayApply(j)

\* After the last revoke of a table comes the next table.
NextTable(j) ==
    IF j.i < Len(Tables)
    THEN [j EXCEPT !.pc = "selectRole", !.i = @ + 1, !.stale = {}]
    ELSE [pc |-> "done"]

\* ensureIamMapping's revokes, one at a time.
Revoking(j) == IF j.stale = {} THEN NextTable(j) ELSE [j EXCEPT !.pc = "iamRevoke"]

\* Fault: a role that is there already is taken to have its grants.
RoleHasGrants(j) == [j EXCEPT !.pc = IF db.role THEN "selectMapping" ELSE "createRole"]

\* ensureRole, told whether pg_roles has the role.
ensureRole(j) == [j EXCEPT !.pc = IF db.role THEN "grant" ELSE "createRole"]

\* What the migration goes on with when its statement has been answered; the
\* selects answer with what is there now.
After(j) ==
    CASE j.pc = "ddl" ->
            IF j.i < Len(Tables) THEN [j EXCEPT !.i = @ + 1]
            ELSE [j EXCEPT !.pc = "selectRole", !.i = 1]
      [] j.pc = "selectRole" -> ensureRole(j)
      [] j.pc = "createRole" -> [j EXCEPT !.pc = "grant"]
      [] j.pc = "grant" -> [j EXCEPT !.pc = "selectMapping"]
      [] j.pc = "selectMapping" ->
            LET stale == (db.mapped \ {j.arn}) \cap ValidArns
                seen == [j EXCEPT !.stale = stale]
            IN  IF j.arn \in db.mapped THEN Revoking(seen) ELSE [seen EXCEPT !.pc = "iamGrant"]
      [] j.pc = "iamGrant" -> Revoking(j)
      [] j.pc = "iamRevoke" -> Revoking([j EXCEPT !.stale = @ \ {NextStale(j)}])
      [] OTHER -> Idle

-----------------------------------------------------------------------------
(* The migration and the extractor.                                        *)

\* The runs under way for another ARN.
Others(m, arn) == {n \in Migrations \ {m} : Active(n) /\ job[n].arn # arn}

\* lambdaHandler's check of the ARN, and the start of the DDL.
StartMigration(m, arn) ==
    /\ job[m] = Idle
    /\ IF arn \in ValidArns
       THEN /\ job' = [job EXCEPT ![m] = [pc |-> "ddl", i |-> 1, arn |-> arn, stale |-> {}]]
            /\ ready' = ready \cap {arn}
            /\ alone' = [n \in Migrations |->
                            IF n = m THEN Others(m, arn) = {}
                            ELSE alone[n] /\ n \notin Others(m, arn)]
       ELSE /\ job' = [job EXCEPT ![m] = [pc |-> "failed"]]
            /\ UNCHANGED <<ready, alone>>
    /\ UNCHANGED <<db, call, connVars, clock, faults, uses>>

\* A statement of LiveSchemas or UserSchema.
Use(x, t) ==
    /\ job[x] = Idle
    /\ uses < MaxUses
    /\ job' = [job EXCEPT ![x] = [pc |-> "use", table |-> t]]
    /\ uses' = uses + 1
    /\ UNCHANGED <<dbVars, call, connVars, clock, faults>>

Working(s) == job[s] \notin {Idle} \cup Ended

\* close: this.client is dropped and its connection ended.
Closed(s) ==
    /\ client' = [client EXCEPT ![s] = 0]
    /\ open' = [open EXCEPT ![s] = @ \ {client[s]}]

\* The statement's answer ends the statement.  The migration closes its
\* connection after its last one, and whenever it throws.
Ends(s, next) ==
    /\ call' = [call EXCEPT ![s] = NoCall]
    /\ job' = [job EXCEPT ![s] = next]

Throws(s) ==
    Ends(s, IF s \in Migrations THEN [pc |-> "failed"] ELSE Idle)

-----------------------------------------------------------------------------
(* DsqlConnection.                                                         *)

Young(s) == client[s] # 0 /\ clock - clients[s][client[s]] <= MaxAge

\* admin needs no mapping, the extractor's role does.
Admitted(s) == s \in Extractors => db.role /\ ArnOf[s] \in db.mapped

Sent(s, c) ==
    call' = [call EXCEPT ![s] =
        [attempt |-> @.attempt + 1, sent |-> TRUE, on |-> c, at |-> clock, ran |-> @.ran]]

\* attemptQuery with the client there is.
SendOnClient(s) ==
    /\ Working(s) /\ ~call[s].sent
    /\ Young(s)
    /\ Sent(s, client[s])
    /\ UNCHANGED <<dbVars, job, connVars, clock, faults, uses>>

\* getClient: an old client is closed, and a new one connects.
Connect(s) ==
    /\ Working(s) /\ ~call[s].sent
    /\ ~Young(s)
    /\ Admitted(s)
    /\ Len(clients[s]) < MaxClients
    /\ clients' = [clients EXCEPT ![s] = Append(@, clock)]
    /\ client' = [client EXCEPT ![s] = Len(clients[s]) + 1]
    /\ open' = [open EXCEPT ![s] = (@ \ {client[s]}) \cup {Len(clients[s]) + 1}]
    /\ Sent(s, Len(clients[s]) + 1)
    /\ UNCHANGED <<dbVars, job, pending, clock, faults, uses>>

\* createClient throws: the login is refused, or nothing answers.
ConnectThrows(s) ==
    /\ Working(s) /\ ~call[s].sent
    /\ ~Young(s)
    /\ \/ ~Admitted(s) /\ UNCHANGED faults
       \/ faults < MaxFaults /\ faults' = faults + 1
    /\ Closed(s)
    /\ Throws(s)
    /\ UNCHANGED <<dbVars, clients, pending, clock, uses>>

Answerable(s) == call[s].sent /\ call[s].on \in open[s]

\* The cluster carries the statement out and answers.
Succeeds(s) ==
    /\ Answerable(s)
    /\ MayApply(job[s])
    /\ db' = Applied(job[s])
    /\ Ends(s, After(job[s]))
    /\ IF job'[s].pc = "done"
       THEN /\ Closed(s)
            /\ ready' = IF alone[s] THEN {job[s].arn} ELSE ready
       ELSE UNCHANGED <<client, open, ready>>
    /\ UNCHANGED <<clients, pending, clock, faults, uses, alone>>

\* An SQL error has a code: the client stays, the error is thrown; the
\* migration's finally closes the client.
Refuses(s) ==
    /\ Answerable(s)
    /\ MayRefuse(job[s])
    /\ Throws(s)
    /\ IF s \in Migrations THEN Closed(s) ELSE UNCHANGED <<client, open>>
    /\ UNCHANGED <<dbVars, clients, pending, clock, faults, uses>>

\* SERIALIZATION_FAILURE: nothing has happened; another attempt, or the error
\* is thrown like any other.
Conflicts(s) ==
    /\ Answerable(s)
    /\ faults < MaxFaults
    /\ faults' = faults + 1
    /\ IF call[s].attempt < MAX_ATTEMPTS
       THEN /\ call' = [call EXCEPT ![s].sent = FALSE]
            /\ UNCHANGED <<job, client, open>>
       ELSE /\ Throws(s)
            /\ IF s \in Migrations THEN Closed(s) ELSE UNCHANGED <<client, open>>
    /\ UNCHANGED <<dbVars, clients, pending, clock, uses>>

\* The connection goes while the cluster carries the statement out.
Executes(s) ==
    /\ faults < MaxFaults
    /\ faults' = faults + 1
    /\ Answerable(s) /\ MayApply(job[s])
    /\ db' = Applied(job[s])
    /\ call' = [call EXCEPT ![s].ran = @ + 1]
    /\ open' = [open EXCEPT ![s] = @ \ {call[s].on}]
    /\ pending' = [pending EXCEPT ![s] = @ \cup {call[s].on}]
    /\ UNCHANGED <<job, client, clients, clock, uses, ready, alone>>

\* Fault: a lost connection counts as a conflict.
RetriesLost(s) ==
    /\ call[s].sent /\ call[s].on \notin open[s]
    /\ call[s].attempt < MAX_ATTEMPTS
    /\ Closed(s)
    /\ call' = [call EXCEPT ![s].sent = FALSE]
    /\ UNCHANGED <<dbVars, job, clients, pending, clock, faults, uses>>

\* The connection is gone and the error thrown; whether the statement took
\* effect is not known.  The driver's own error has no code and closes the
\* client; one of the socket or the server has a code, and leaves the client to
\* its 'error' event.
LostAnswer(s) ==
    /\ call[s].sent /\ call[s].on \notin open[s]
    /\ Closed(s) \/ (s \in Extractors /\ UNCHANGED <<client, open>>)
    /\ Throws(s)
    /\ UNCHANGED <<dbVars, clients, pending, clock, faults, uses>>

\* The cluster closes a connection, in the end because of its age.
ServerCloses(s, c) ==
    /\ c \in open[s]
    /\ \/ clock - clients[s][c] >= ServerAge /\ UNCHANGED faults
       \/ faults < MaxFaults /\ faults' = faults + 1
    /\ open' = [open EXCEPT ![s] = @ \ {c}]
    /\ pending' = [pending EXCEPT ![s] = @ \cup {c}]
    /\ UNCHANGED <<dbVars, job, call, client, clients, clock, uses>>

\* Fault: the event of an earlier client drops the present one.
DropsAnyClient(s, c) ==
    /\ c \in pending[s]
    /\ pending' = [pending EXCEPT ![s] = @ \ {c}]
    /\ client' = [client EXCEPT ![s] = 0]
    /\ UNCHANGED <<dbVars, job, call, clients, open, clock, faults, uses>>

\* The client's 'error' event, which may be the event of an earlier client.
ErrorEvent(s, c) ==
    /\ c \in pending[s]
    /\ pending' = [pending EXCEPT ![s] = @ \ {c}]
    /\ client' = [client EXCEPT ![s] = IF @ = c THEN 0 ELSE @]
    /\ UNCHANGED <<dbVars, job, call, clients, open, clock, faults, uses>>

\* The function's timeout: nothing runs any more, finally included.
TimesOut(m) ==
    /\ Active(m)
    /\ faults < MaxFaults
    /\ faults' = faults + 1
    /\ Ends(m, [pc |-> "failed"])
    /\ UNCHANGED <<dbVars, connVars, clock, uses>>

\* No statement sees more than one tick.
Tick ==
    /\ clock < MaxTime
    /\ \A s \in Sessions : call[s].sent => call[s].at = clock
    /\ clock' = clock + 1
    /\ UNCHANGED <<dbVars, job, call, connVars, faults, uses>>

SessionStep(s) ==
    \/ SendOnClient(s) \/ Connect(s) \/ ConnectThrows(s)
    \/ Succeeds(s) \/ Refuses(s) \/ Conflicts(s) \/ Executes(s) \/ LostAnswer(s)
    \/ \E c \in DOMAIN clients[s] : ServerCloses(s, c) \/ ErrorEvent(s, c)

MigrationNext ==
    \/ \E m \in Migrations : (\E arn \in Arns : StartMigration(m, arn)) \/ TimesOut(m)
    \/ \E x \in Extractors, t \in DOMAIN Tables : Use(x, t)
    \/ \E s \in Sessions : SessionStep(s)
    \/ Tick

MigrationSpec == MigrationInit /\ [][MigrationNext]_migrationVars

-----------------------------------------------------------------------------

MigrationTypeOK ==
    /\ db \in [tables : SUBSET DOMAIN Tables, role : BOOLEAN,
               grants : SUBSET DOMAIN Tables, mapped : SUBSET Arns]
    /\ job \in [Sessions -> {Idle} \cup Ended \cup MigrationJobs \cup ExtractorJobs]
    /\ \A s \in Sessions :
        /\ call[s] \in [attempt : 0..MAX_ATTEMPTS, sent : BOOLEAN, on : Nat, at : Nat, ran : Nat]
        /\ clients[s] \in Seq(0..clock)
        /\ client[s] \in 0..Len(clients[s])
        /\ open[s] \cup pending[s] \subseteq DOMAIN clients[s]
    /\ clock \in 0..MaxTime /\ faults \in 0..MaxFaults /\ uses \in 0..MaxUses
    /\ ready \in SUBSET ValidArns
    /\ alone \in [Migrations -> BOOLEAN]

(***************************************************************************)
(* dsql.ts retries conflicts and nothing else: no statement takes effect   *)
(* twice, whichever connections are lost and whichever answers.            *)
(***************************************************************************)
StatementsOnce ==
    \A s \in Sessions : call[s].ran <= 1 /\ (call[s].ran = 1 => call[s].on \notin open[s])

(***************************************************************************)
(* A container has at most one connection open, the one it would use next, *)
(* and no statement is on a connection the cluster closes for its age.     *)
(***************************************************************************)
ConnectionSound ==
    \A s \in Sessions :
        /\ open[s] \subseteq {client[s]}  \/ job[s] \in Ended
        /\ call[s].sent /\ call[s].on \in open[s] =>
              clock - clients[s][call[s].on] < ServerAge

(***************************************************************************)
(* What the migration promises the extractor, after any number of failed,  *)
(* timed-out and repeated runs: when a run that no run for another ARN has *)
(* met is complete, the tables and grants are there and its ARN, and no    *)
(* other valid one, is mapped; and such a run never takes access away      *)
(* before its own ARN has it.                                              *)
(***************************************************************************)
Exact(arn) ==
    /\ db.tables = DOMAIN Tables /\ db.role /\ db.grants = DOMAIN Tables
    /\ db.mapped \cap ValidArns = {arn}

MigrationHolds ==
    /\ \A arn \in ready : Exact(arn)
    /\ \A m \in Migrations :
        Active(m) /\ alone[m] /\ job[m].pc = "iamRevoke" => job[m].arn \in db.mapped
=============================================================================

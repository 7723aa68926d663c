---------------------------- MODULE DataService ----------------------------
(***************************************************************************)
(* The data service (DynamoDbDataService) under calls of its API handlers: *)
(* postData, patchData and deleteData.  A save replaces the item, a patch  *)
(* reads it, merges into what it read and updates the item's data, and     *)
(* other calls come in between.  Reads are eventually consistent.          *)
(*                                                                         *)
(* A record is the table's key.  Its data are a document: fields that hold *)
(* a scalar or an object of scalars, one level standing for the deeper     *)
(* ones.  With encryption each write seals the data with a key of its own, *)
(* which is stored beside them.                                            *)
(***************************************************************************)
EXTENDS Naturals

CONSTANTS
    Records,
    Fields,        \* of a document, and of the objects in it
    Scalars,       \* values that deepMerge does not look into
    Bodies,        \* the documents that callers send
    Expiries,      \* values of configuration.expiresAt
    Encrypted,     \* whether the services are configured with a KMS key
    MaxCalls       \* bound: saves and patches in a behaviour

Objects == UNION {[D -> Scalars] : D \in SUBSET Fields}
Documents == UNION {[D -> Scalars \cup Objects] : D \in SUBSET Fields}

ASSUME BodiesAreDocuments == Bodies \subseteq Documents
ASSUME ScalarsAreNoObjects == Scalars \cap Objects = {}
ASSUME IsEncrypted == Encrypted \in BOOLEAN
ASSUME Bounds == MaxCalls \in Nat

VARIABLES
    table,     \* the item of each record, or Absent
    replica,   \* the item that a read which lags behind returns
    patches,   \* the patches between their read and their update
    calls      \* saves and patches so far; their number names their data key

vars == <<table, replica, patches, calls>>

-----------------------------------------------------------------------------
\* No data key, and no expiry.
Plain == 0
Never == "never"
DataKeys == 0..MaxCalls

Items == [data : Documents, sealedWith : DataKeys, dataKey : DataKeys,
          ttl : Expiries \cup {Never}]
Absent == [absent |-> TRUE]

\* fresh is a history variable: nobody has written the record since it was
\* read, and the read was up to date.
Patches == [call : 1..MaxCalls, record : Records, body : Documents,
            existing : Documents, fresh : BOOLEAN]

isPlainObject(value) == value \in Objects

spread(target, source) ==
    [k \in DOMAIN target \cup DOMAIN source |->
        IF k \in DOMAIN source THEN source[k] ELSE target[k]]

\* Fault: objects are not merged.
shallowMerge(target, source) == spread(target, source)

deepMerge(target, source) ==
    spread(target,
           [k \in DOMAIN source |->
               IF k \in DOMAIN target /\ isPlainObject(source[k]) /\ isPlainObject(target[k])
               THEN spread(target[k], source[k])
               ELSE source[k]])

encryptItem(data, call) ==
    LET key == IF Encrypted THEN call ELSE Plain
    IN  [data |-> data, sealedWith |-> key, dataKey |-> key]

buildEntity(data, call, expiresAt) ==
    LET item == encryptItem(data, call)
    IN  [data |-> item.data, sealedWith |-> item.sealedWith,
         dataKey |-> item.dataKey, ttl |-> expiresAt]

\* Fault: what encryptFields returns is stored in the place of its data.
updateStoresAll(item, data, call) ==
    [item EXCEPT !.data = encryptItem(data, call)]

\* Fault: the key of an earlier write stays.
updateKeepsKey(item, data, call) ==
    LET stored == encryptItem(data, call)
    IN  [item EXCEPT !.data = stored.data, !.sealedWith = stored.sealedWith]

\* The update expression sets the data and, with encryption, their key.
update(item, data, call) ==
    LET stored == encryptItem(data, call)
    IN  [item EXCEPT !.data = stored.data,
                     !.sealedWith = stored.sealedWith,
                     !.dataKey = IF Encrypted THEN stored.dataKey ELSE item.dataKey]

\* decryptItem returns the data; without a data key they are taken as they are.
Readable(item) == item.sealedWith = item.dataKey

\* What GetItem may return.
findByKey(r) == {table[r], replica[r]} \ {Absent}

Overtaken(ps, r) == {[p EXCEPT !.fresh = @ /\ p.record # r] : p \in ps}

-----------------------------------------------------------------------------
(* Records saved before encryption was configured are plain. *)
Init ==
    /\ table \in [Records -> {Absent} \cup
                     [data : Bodies, sealedWith : {Plain}, dataKey : {Plain}, ttl : {Never}]]
    /\ replica = table
    /\ patches = {}
    /\ calls = 0

Call == calls < MaxCalls /\ calls' = calls + 1

(* postData: a put, whatever there was. *)
Save(r, body, expiresAt) ==
    /\ Call
    /\ table' = [table EXCEPT ![r] = buildEntity(body, calls', expiresAt)]
    /\ patches' = Overtaken(patches, r)
    /\ UNCHANGED replica

(* patchData reads the record; if it finds none it throws and nothing has   *)
(* happened, and so it does if it cannot decrypt what it finds.             *)
StartPatch(r, body) ==
    /\ Call
    /\ \E item \in findByKey(r) :
          /\ Readable(item)
          /\ patches' = patches \cup
                {[call |-> calls', record |-> r, body |-> body,
                  existing |-> item.data, fresh |-> item = table[r]]}
    /\ UNCHANGED <<table, replica>>

\* Fault: the update has no condition, and creates the item.
UpdateUnconditional(p) ==
    LET data == deepMerge(p.existing, p.body)
    IN  /\ p \in patches
        /\ table' = [table EXCEPT ![p.record] =
              IF table[p.record] = Absent THEN buildEntity(data, p.call, Never)
                                          ELSE update(table[p.record], data, p.call)]
        /\ patches' = Overtaken(patches \ {p}, p.record)
        /\ UNCHANGED <<replica, calls>>

(* The update on the condition that the item exists; if it does not, update *)
(* returns null and the call is answered 200 all the same.                  *)
Update(p) ==
    /\ p \in patches
    /\ IF table[p.record] = Absent
       THEN UNCHANGED table
       ELSE table' = [table EXCEPT ![p.record] =
                update(table[p.record], deepMerge(p.existing, p.body), p.call)]
    /\ patches' = Overtaken(patches \ {p}, p.record)
    /\ UNCHANGED <<replica, calls>>

(* The call fails before its update takes effect. *)
PatchFails(p) ==
    /\ p \in patches
    /\ patches' = patches \ {p}
    /\ UNCHANGED <<table, replica, calls>>

(* deleteData, the erasure of the user, or the time to live. *)
Goes(r) ==
    /\ table[r] # Absent
    /\ table' = [table EXCEPT ![r] = Absent]
    /\ patches' = Overtaken(patches, r)
    /\ UNCHANGED <<replica, calls>>

ReplicaFollows(r) ==
    /\ replica[r] # table[r]
    /\ replica' = [replica EXCEPT ![r] = table[r]]
    /\ UNCHANGED <<table, patches, calls>>

Next ==
    \/ \E r \in Records, body \in Bodies :
          \/ StartPatch(r, body)
          \/ \E expiresAt \in Expiries \cup {Never} : Save(r, body, expiresAt)
    \/ \E p \in patches : Update(p) \/ PatchFails(p)
    \/ \E r \in Records : Goes(r) \/ ReplicaFollows(r)

Spec == Init /\ [][Next]_vars

-----------------------------------------------------------------------------
TypeOK ==
    /\ table \in [Records -> Items \cup {Absent}]
    /\ replica \in [Records -> Items \cup {Absent}]
    /\ patches \subseteq Patches
    /\ calls \in 0..MaxCalls

(* Whatever saves and patches of a record overtake each other, the stored   *)
(* data can be decrypted with the key stored beside them: update replaces   *)
(* both, and so does save (DynamoDbDataService.ts:217-232).                 *)
AlwaysReadable ==
    \A r \in Records : table[r] # Absent => Readable(table[r])

(* Only a save brings a record into being or changes when it expires: a     *)
(* patch that read a record which has gone since does not bring it back     *)
(* (the condition at DynamoDbDataService.ts:233), and one that was          *)
(* overtaken by a save does not undo the expiry of that save.               *)
lifetime(item) == IF item = Absent THEN Absent ELSE [ttl |-> item.ttl]

OnlySavesGiveLife ==
    [][\A r \in Records :
          \/ table'[r] = Absent
          \/ lifetime(table'[r]) = lifetime(table[r])
          \/ \E body \in Bodies, expiresAt \in Expiries \cup {Never} :
                Save(r, body, expiresAt)]_vars

(* "Objects are recursively merged; primitives and arrays are overwritten." *)
Merges(old, body, new) ==
    /\ DOMAIN new = DOMAIN old \cup DOMAIN body
    /\ \A k \in DOMAIN new :
          \/ k \notin DOMAIN body /\ new[k] = old[k]
          \/ /\ k \in DOMAIN body
             /\ k \notin DOMAIN old \/ old[k] \in Scalars \/ body[k] \in Scalars
             /\ new[k] = body[k]
          \/ /\ k \in DOMAIN body \cap DOMAIN old
             /\ old[k] \in Objects /\ body[k] \in Objects
             /\ DOMAIN new[k] = DOMAIN old[k] \cup DOMAIN body[k]
             /\ \A j \in DOMAIN body[k] : new[k][j] = body[k][j]
             /\ \A j \in DOMAIN old[k] \ DOMAIN body[k] : new[k][j] = old[k][j]

Merged(p) ==
    /\ table[p.record] # Absent
    /\ table'[p.record] # Absent
    /\ Merges(table[p.record].data, p.body, table'[p.record].data)

\* Without encryption no item has a data key.
NoStrayKeys ==
    \A r \in Records : table[r] # Absent /\ ~Encrypted => table[r].dataKey = Plain

\* A fresh patch has read what the record is now.
FreshIsCurrent ==
    \A p \in patches : p.fresh => /\ table[p.record] # Absent
                                  /\ table[p.record].data = p.existing

(* A patch whose record nobody has written since it read it, and which read *)
(* its latest state, merges its body into the record as the record is then, *)
(* whatever it and other calls do to other records or did before.           *)
UndisturbedPatchMerges ==
    [][\A p \in patches : p.fresh /\ Update(p) => Merged(p)]_vars

(* What the documentation says of every patch: "Performs a deep merge of    *)
(* the request body with the existing data record"                          *)
(* (docs/lambda-flow-diagrams.md:510).  It does not hold: the update has no *)
(* condition on what was read, so a write that comes in between, or that    *)
(* the read missed, is lost.                                                *)
PatchMergesExisting ==
    [][\A p \in patches : table[p.record] # Absent /\ Update(p) => Merged(p)]_vars
=============================================================================

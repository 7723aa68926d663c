------------------------- MODULE DataService_proofs -------------------------
(***************************************************************************)
(* The data service keeps its types, stored data stay readable, only saves *)
(* give life to records, and patches that nobody disturbs merge.           *)
(***************************************************************************)
EXTENDS DataService, TLAPS

IInv == TypeOK /\ AlwaysReadable /\ NoStrayKeys /\ FreshIsCurrent

-----------------------------------------------------------------------------
(* Documents. *)

LEMMA ObjectsMerge ==
    ASSUME NEW target \in Objects, NEW source \in Objects
    PROVE  spread(target, source) \in Objects
<1>1. PICK D \in SUBSET Fields : target \in [D -> Scalars]
    BY DEF Objects
<1>2. PICK E \in SUBSET Fields : source \in [E -> Scalars]
    BY DEF Objects
<1>3. spread(target, source) \in [D \cup E -> Scalars]
    BY <1>1, <1>2 DEF spread
<1>4. D \cup E \in SUBSET Fields
    OBVIOUS
<1>5. QED
    BY <1>3, <1>4 DEF Objects

LEMMA DocumentsMerge ==
    ASSUME NEW target \in Documents, NEW source \in Documents
    PROVE  deepMerge(target, source) \in Documents
<1> DEFINE Values == Scalars \cup Objects
           both(k) == k \in DOMAIN target /\ isPlainObject(source[k]) /\ isPlainObject(target[k])
           part == [k \in DOMAIN source |->
                       IF both(k) THEN spread(target[k], source[k]) ELSE source[k]]
<1>1. PICK D \in SUBSET Fields : target \in [D -> Values]
    BY DEF Documents
<1>2. PICK E \in SUBSET Fields : source \in [E -> Values]
    BY DEF Documents
<1>3. ASSUME NEW k \in E
      PROVE  part[k] \in Values
    <2>1. CASE both(k)
        <3>1. spread(target[k], source[k]) \in Objects
            BY <2>1, ObjectsMerge DEF isPlainObject
        <3>2. QED
            BY <1>2, <2>1, <3>1
    <2>2. CASE ~both(k)
        BY <1>2, <2>2
    <2>3. QED
        BY <2>1, <2>2
<1>4. part \in [E -> Values]
    BY <1>2, <1>3
<1>5. spread(target, part) \in [D \cup E -> Values]
    <2> HIDE DEF part, Values
    <2>1. QED
        BY <1>1, <1>4 DEF spread
<1>6. D \cup E \in SUBSET Fields
    OBVIOUS
<1>7. deepMerge(target, source) = spread(target, part)
    BY DEF deepMerge
<1>8. QED
    BY <1>5, <1>6, <1>7 DEF Documents

(* deepMerge does what the documentation says of it. *)
LEMMA DeepMergeMerges ==
    ASSUME NEW target \in Documents, NEW source \in Documents
    PROVE  Merges(target, source, deepMerge(target, source))
<1> DEFINE Values == Scalars \cup Objects
           both(k) == k \in DOMAIN target /\ isPlainObject(source[k]) /\ isPlainObject(target[k])
           new == deepMerge(target, source)
<1>1. PICK D \in SUBSET Fields : target \in [D -> Values]
    BY DEF Documents
<1>2. PICK E \in SUBSET Fields : source \in [E -> Values]
    BY DEF Documents
<1>3. /\ DOMAIN new = DOMAIN target \cup DOMAIN source
      /\ \A k \in DOMAIN target \ DOMAIN source : new[k] = target[k]
      /\ \A k \in DOMAIN source :
            new[k] = IF both(k) THEN spread(target[k], source[k]) ELSE source[k]
    BY <1>1, <1>2 DEF deepMerge, spread
<1> HIDE DEF new
<1>4. ASSUME NEW k \in DOMAIN new
      PROVE  \/ k \notin DOMAIN source /\ new[k] = target[k]
             \/ /\ k \in DOMAIN source
                /\ k \notin DOMAIN target \/ target[k] \in Scalars \/ source[k] \in Scalars
                /\ new[k] = source[k]
             \/ /\ k \in DOMAIN source \cap DOMAIN target
                /\ target[k] \in Objects /\ source[k] \in Objects
                /\ DOMAIN new[k] = DOMAIN target[k] \cup DOMAIN source[k]
                /\ \A j \in DOMAIN source[k] : new[k][j] = source[k][j]
                /\ \A j \in DOMAIN target[k] \ DOMAIN source[k] : new[k][j] = target[k][j]
    <2>1. CASE k \notin DOMAIN source
        BY <1>3, <2>1
    <2>2. CASE k \in DOMAIN source /\ both(k)
        <3>1. new[k] = spread(target[k], source[k])
            BY <1>3, <2>2
        <3>2. target[k] \in Objects /\ source[k] \in Objects
            BY <2>2 DEF isPlainObject
        <3>3. /\ DOMAIN new[k] = DOMAIN target[k] \cup DOMAIN source[k]
              /\ \A j \in DOMAIN source[k] : new[k][j] = source[k][j]
              /\ \A j \in DOMAIN target[k] \ DOMAIN source[k] : new[k][j] = target[k][j]
            BY <3>1 DEF spread
        <3>4. QED
            BY <2>2, <3>2, <3>3
    <2>3. CASE k \in DOMAIN source /\ ~both(k)
        <3>1. new[k] = source[k]
            BY <1>3, <2>3
        <3>2. k \notin DOMAIN target \/ target[k] \in Scalars \/ source[k] \in Scalars
            BY <1>1, <1>2, <2>3 DEF isPlainObject
        <3>3. QED
            BY <2>3, <3>1, <3>2
    <2>4. QED
        BY <2>1, <2>2, <2>3
<1>5. QED
    BY <1>3, <1>4 DEF Merges, new
-----------------------------------------------------------------------------
(* Items and patches. *)

LEMMA SealType ==
    ASSUME NEW data \in Documents, NEW call \in DataKeys
    PROVE  /\ encryptItem(data, call) \in
                 [data : Documents, sealedWith : DataKeys, dataKey : DataKeys]
           /\ encryptItem(data, call).data = data
           /\ encryptItem(data, call).sealedWith = encryptItem(data, call).dataKey
           /\ ~Encrypted => encryptItem(data, call).sealedWith = Plain
BY IsEncrypted, Bounds DEF encryptItem, Plain, DataKeys

LEMMA AbsentIsNoItem == Absent \notin Items
BY DEF Absent, Items

LEMMA OvertakenType ==
    ASSUME NEW ps \in SUBSET Patches, NEW r
    PROVE  /\ Overtaken(ps, r) \in SUBSET Patches
           /\ \A q \in Overtaken(ps, r) : q.fresh =>
                 /\ q \in ps
                 /\ q.record # r
<1>1. ASSUME NEW p \in ps
      PROVE  LET q == [p EXCEPT !.fresh = @ /\ p.record # r]
             IN  /\ q \in Patches
                 /\ q.fresh => q = p /\ q.record # r
    <2> DEFINE still == p.fresh /\ p.record # r
               q == [p EXCEPT !.fresh = still]
    <2>1. p \in Patches
        OBVIOUS
    <2>2. still \in BOOLEAN
        OBVIOUS
    <2>3. q \in Patches /\ q.fresh = still /\ q.record = p.record
        <3> HIDE DEF still
        <3>1. QED
            BY <2>1, <2>2 DEF Patches
    <2>4. ASSUME still PROVE q = p
        <3>1. p.fresh = TRUE /\ still = TRUE
            BY <2>1, <2>4 DEF Patches
        <3>2. QED
            BY <2>1, <3>1 DEF Patches
    <2>5. QED
        BY <2>3, <2>4
<1>2. QED
    BY <1>1 DEF Overtaken

-----------------------------------------------------------------------------
(* The invariant. *)

LEMMA InitHolds == Init => IInv
<1> SUFFICES ASSUME Init PROVE IInv
    OBVIOUS
<1> DEFINE First == [data : Bodies, sealedWith : {Plain}, dataKey : {Plain}, ttl : {Never}]
<1>1. First \subseteq Items
    BY BodiesAreDocuments, Bounds DEF Items, DataKeys, Plain
<1>2. \A item \in First : Readable(item)
    BY DEF Readable
<1>3. table \in [Records -> {Absent} \cup First]
    BY DEF Init
<1> HIDE DEF First
<1>4. TypeOK
    BY <1>1, <1>3, Bounds DEF Init, TypeOK
<1>5. AlwaysReadable
    BY <1>2, <1>3 DEF AlwaysReadable
<1>6. FreshIsCurrent
    BY DEF Init, FreshIsCurrent
<1>7. NoStrayKeys
    <2>1. \A item \in First : item.dataKey = Plain
        BY DEF First
    <2>2. QED
        BY <1>3, <2>1 DEF NoStrayKeys
<1>8. QED
    BY <1>4, <1>5, <1>6, <1>7 DEF IInv

(* A write of a record keeps the invariant if what it writes is readable:   *)
(* it overtakes the patches of that record, and no other is concerned.      *)
LEMMA WriteKeeps ==
    ASSUME IInv, NEW r \in Records, NEW item \in Items \cup {Absent},
           item # Absent => Readable(item) /\ (~Encrypted => item.dataKey = Plain),
           NEW ps \in SUBSET patches,
           table' = [table EXCEPT ![r] = item],
           patches' = Overtaken(ps, r),
           replica' = replica,
           calls' \in 0..MaxCalls
    PROVE  IInv'
<1>1. TypeOK /\ AlwaysReadable /\ FreshIsCurrent
    BY DEF IInv
<1>2. TypeOK'
    BY <1>1, OvertakenType DEF TypeOK
<1>3. table'[r] = item /\ \A s \in Records \ {r} : table'[s] = table[s]
    BY <1>1 DEF TypeOK
<1>4. AlwaysReadable'
    BY <1>1, <1>3 DEF AlwaysReadable, Readable
<1>5. ASSUME NEW q \in patches', q.fresh
      PROVE  table'[q.record] # Absent /\ table'[q.record].data = q.existing
    <2>1. q \in ps /\ q.record # r /\ q \in patches
        BY <1>1, <1>5, OvertakenType DEF TypeOK
    <2>2. q.record \in Records
        BY <1>1, <2>1 DEF TypeOK, Patches
    <2>3. QED
        BY <1>1, <1>3, <1>5, <2>1, <2>2 DEF FreshIsCurrent
<1>6. NoStrayKeys'
    BY <1>1, <1>3 DEF IInv, NoStrayKeys
<1>7. QED
    BY <1>2, <1>4, <1>5, <1>6 DEF IInv, FreshIsCurrent

LEMMA SaveKeeps ==
    ASSUME IInv, NEW r \in Records, NEW body \in Bodies,
           NEW expiresAt \in Expiries \cup {Never}, Save(r, body, expiresAt)
    PROVE  IInv'
<1> DEFINE item == buildEntity(body, calls', expiresAt)
<1>1. calls' \in DataKeys
    BY Bounds DEF IInv, TypeOK, Save, Call, DataKeys
<1>2. item \in Items /\ Readable(item) /\ (~Encrypted => item.dataKey = Plain)
    BY <1>1, BodiesAreDocuments, SealType DEF buildEntity, Items, Readable
<1>3. /\ table' = [table EXCEPT ![r] = item]
      /\ patches' = Overtaken(patches, r)
      /\ replica' = replica
    BY DEF Save
<1> HIDE DEF item
<1>4. QED
    BY <1>1, <1>2, <1>3, WriteKeeps DEF DataKeys

LEMMA StartPatchKeeps ==
    ASSUME IInv, NEW r \in Records, NEW body \in Bodies, StartPatch(r, body)
    PROVE  IInv'
<1>1. TypeOK /\ AlwaysReadable /\ FreshIsCurrent
    BY DEF IInv
<1>2. PICK item \in findByKey(r) :
          patches' = patches \cup
              {[call |-> calls', record |-> r, body |-> body,
                existing |-> item.data, fresh |-> item = table[r]]}
    BY DEF StartPatch
<1> DEFINE p == [call |-> calls', record |-> r, body |-> body,
                 existing |-> item.data, fresh |-> item = table[r]]
<1>3. calls' \in 1..MaxCalls /\ calls' \in 0..MaxCalls
    BY <1>1, Bounds DEF TypeOK, StartPatch, Call
<1>4. item \in Items
    BY <1>1 DEF findByKey, TypeOK
<1>5. item.data \in Documents
    BY <1>4 DEF Items
<1>6. p \in Patches
    BY <1>3, <1>5, BodiesAreDocuments DEF Patches
<1>7. TypeOK'
    BY <1>1, <1>2, <1>3, <1>6 DEF TypeOK, StartPatch
<1>8. AlwaysReadable'
    BY <1>1 DEF AlwaysReadable, StartPatch
<1>9. FreshIsCurrent'
    <2>1. p.fresh => table[p.record] # Absent /\ table[p.record].data = p.existing
        BY DEF findByKey
    <2>2. QED
        BY <1>1, <1>2, <2>1 DEF FreshIsCurrent, StartPatch
<1>10. NoStrayKeys'
    BY DEF IInv, NoStrayKeys, StartPatch
<1>11. QED
    BY <1>7, <1>8, <1>9, <1>10 DEF IInv

(* What an update writes into the item it finds. *)
UpdatedItem(p) == update(table[p.record], deepMerge(p.existing, p.body), p.call)

LEMMA UpdateWrites ==
    ASSUME IInv, NEW p \in patches, Update(p)
    PROVE  /\ p.record \in Records
           /\ table[p.record] = Absent => table' = [table EXCEPT ![p.record] = Absent]
           /\ table[p.record] # Absent =>
                 /\ table' = [table EXCEPT ![p.record] = UpdatedItem(p)]
                 /\ UpdatedItem(p) \in Items
                 /\ UpdatedItem(p).data = deepMerge(p.existing, p.body)
                 /\ UpdatedItem(p).ttl = table[p.record].ttl
                 /\ Readable(UpdatedItem(p))
                 /\ ~Encrypted => UpdatedItem(p).dataKey = Plain
<1> DEFINE r == p.record
           new == encryptItem(deepMerge(p.existing, p.body), p.call)
           key == IF Encrypted THEN new.dataKey ELSE table[r].dataKey
<1>1. p \in Patches /\ r \in Records
    BY DEF IInv, TypeOK, Patches
<1>2. deepMerge(p.existing, p.body) \in Documents /\ p.call \in DataKeys
    BY <1>1, DocumentsMerge, Bounds DEF Patches, DataKeys
<1>3. /\ new \in [data : Documents, sealedWith : DataKeys, dataKey : DataKeys]
      /\ new.data = deepMerge(p.existing, p.body)
      /\ new.sealedWith = new.dataKey
      /\ ~Encrypted => new.sealedWith = Plain
    BY <1>2, SealType
<1>4. IF table[r] = Absent THEN table' = table
                            ELSE table' = [table EXCEPT ![r] = UpdatedItem(p)]
    BY DEF Update, UpdatedItem
<1>5. table[r] \in Items \cup {Absent}
    BY <1>1 DEF IInv, TypeOK
<1>6. UpdatedItem(p) = [table[r] EXCEPT !.data = new.data,
                                        !.sealedWith = new.sealedWith, !.dataKey = key]
    BY DEF UpdatedItem, update
<1> HIDE DEF new
<1>7. ASSUME table[r] # Absent
      PROVE  /\ UpdatedItem(p) \in Items
             /\ UpdatedItem(p).data = new.data
             /\ UpdatedItem(p).sealedWith = new.sealedWith
             /\ UpdatedItem(p).dataKey = key
             /\ UpdatedItem(p).ttl = table[r].ttl
    <2>1. table[r] \in Items
        BY <1>5, <1>7
    <2>2. key \in DataKeys
        BY <1>3, <2>1 DEF Items
    <2> HIDE DEF key
    <2>3. QED
        BY <1>3, <1>6, <2>1, <2>2 DEF Items
<1>8. ASSUME table[r] # Absent
      PROVE  key = new.sealedWith /\ (~Encrypted => key = Plain)
    <2>1. ~Encrypted => table[r].dataKey = Plain
        BY <1>1, <1>8 DEF IInv, NoStrayKeys
    <2>2. QED
        BY <1>3, <2>1
<1> HIDE DEF key
<1>9. table[r] # Absent => table' = [table EXCEPT ![r] = UpdatedItem(p)]
    BY <1>4
<1>10. table[r] = Absent => table' = [table EXCEPT ![r] = Absent]
    BY <1>1, <1>4 DEF IInv, TypeOK
<1>11. QED
    BY <1>1, <1>3, <1>7, <1>8, <1>9, <1>10 DEF Readable

LEMMA UpdateKeeps ==
    ASSUME IInv, NEW p \in patches, Update(p)
    PROVE  IInv'
<1> DEFINE item == IF table[p.record] = Absent THEN Absent ELSE UpdatedItem(p)
<1>1. /\ item \in Items \cup {Absent}
      /\ item # Absent => Readable(item) /\ (~Encrypted => item.dataKey = Plain)
      /\ table' = [table EXCEPT ![p.record] = item]
      /\ p.record \in Records
    BY UpdateWrites
<1>2. /\ patches' = Overtaken(patches \ {p}, p.record)
      /\ replica' = replica
      /\ calls' \in 0..MaxCalls
    BY DEF Update, IInv, TypeOK
<1> HIDE DEF item
<1>3. QED
    BY <1>1, <1>2, WriteKeeps

LEMMA GoesKeeps ==
    ASSUME IInv, NEW r \in Records, Goes(r)
    PROVE  IInv'
<1>1. /\ table' = [table EXCEPT ![r] = Absent]
      /\ patches' = Overtaken(patches, r)
      /\ replica' = replica
      /\ calls' \in 0..MaxCalls
    BY DEF Goes, IInv, TypeOK
<1>2. QED
    BY <1>1, WriteKeeps

(* The steps that write no record. *)
LEMMA OthersKeep ==
    ASSUME IInv,
           \/ \E p \in patches : PatchFails(p)
           \/ \E r \in Records : ReplicaFollows(r)
           \/ UNCHANGED vars
    PROVE  IInv'
<1>1. /\ table' = table
      /\ patches' \subseteq patches
      /\ replica' \in [Records -> Items \cup {Absent}]
      /\ calls' = calls
    BY DEF IInv, TypeOK, PatchFails, ReplicaFollows, vars
<1>2. TypeOK'
    BY <1>1 DEF IInv, TypeOK
<1>3. AlwaysReadable' /\ NoStrayKeys'
    BY <1>1 DEF IInv, AlwaysReadable, NoStrayKeys
<1>4. FreshIsCurrent'
    BY <1>1 DEF IInv, FreshIsCurrent
<1>5. QED
    BY <1>2, <1>3, <1>4 DEF IInv

LEMMA Inductive == IInv /\ [Next]_vars => IInv'
<1> SUFFICES ASSUME IInv, [Next]_vars PROVE IInv'
    OBVIOUS
<1>1. CASE \E r \in Records, body \in Bodies : StartPatch(r, body)
    BY <1>1, StartPatchKeeps
<1>2. CASE \E r \in Records, body \in Bodies, expiresAt \in Expiries \cup {Never} :
               Save(r, body, expiresAt)
    BY <1>2, SaveKeeps
<1>3. CASE \E p \in patches : Update(p)
    BY <1>3, UpdateKeeps
<1>4. CASE \E r \in Records : Goes(r)
    BY <1>4, GoesKeeps
<1>5. CASE \/ \E p \in patches : PatchFails(p)
           \/ \E r \in Records : ReplicaFollows(r)
           \/ UNCHANGED vars
    BY <1>5, OthersKeep
<1>6. QED
    BY <1>1, <1>2, <1>3, <1>4, <1>5 DEF Next

LEMMA Invariance == Spec => []IInv
BY InitHolds, Inductive, PTL DEF Spec

-----------------------------------------------------------------------------
(* The table, its lagging replica and the patches under way have their      *)
(* types in every state of the data service.                                *)
THEOREM TypeCorrect == Spec => []TypeOK
<1>1. IInv => TypeOK
    BY DEF IInv
<1>2. QED
    BY Invariance, <1>1, PTL

(* Every stored record can be decrypted with the key stored beside it, also *)
(* when saves and patches of it overtake each other and when it was there   *)
(* before encryption was configured.                                        *)
THEOREM StoredDataAreReadable == Spec => []AlwaysReadable
<1>1. IInv => AlwaysReadable
    BY DEF IInv
<1>2. QED
    BY Invariance, <1>1, PTL

(* No patch creates a record or changes when one expires: only saves do.    *)
THEOREM LifeComesFromSaves == Spec => OnlySavesGiveLife
<1> DEFINE Given(r) ==
        \/ table'[r] = Absent
        \/ lifetime(table'[r]) = lifetime(table[r])
        \/ \E body \in Bodies, expiresAt \in Expiries \cup {Never} :
              Save(r, body, expiresAt)
<1>1. ASSUME IInv, Next, NEW r \in Records
      PROVE  Given(r)
    <2>1. table \in [Records -> Items \cup {Absent}]
        BY <1>1 DEF IInv, TypeOK
    <2>2. CASE table'[r] = table[r]
        BY <2>2
    <2>3. CASE \E s \in Records, body \in Bodies, expiresAt \in Expiries \cup {Never} :
                   Save(s, body, expiresAt)
        <3>1. PICK s \in Records, body \in Bodies, expiresAt \in Expiries \cup {Never} :
                  Save(s, body, expiresAt)
            BY <2>3
        <3>2. CASE s = r
            BY <3>1, <3>2
        <3>3. CASE s # r
            <4>1. table'[r] = table[r]
                BY <2>1, <3>1, <3>3 DEF Save
            <4>2. QED
                BY <4>1
        <3>4. QED
            BY <3>2, <3>3
    <2>4. CASE \E p \in patches : Update(p)
        <3>1. PICK p \in patches : Update(p)
            BY <2>4
        <3>2. CASE p.record = r /\ table[r] # Absent
            <4>1. table'[r] = UpdatedItem(p) /\ UpdatedItem(p) \in Items
                BY <1>1, <2>1, <3>1, <3>2, UpdateWrites
            <4>2. UpdatedItem(p).ttl = table[r].ttl
                BY <1>1, <3>1, <3>2, UpdateWrites
            <4>3. lifetime(table'[r]) = lifetime(table[r])
                BY <3>2, <4>1, <4>2, AbsentIsNoItem DEF lifetime
            <4>4. QED
                BY <4>3
        <3>3. CASE p.record # r \/ table[r] = Absent
            <4>1. table'[r] = table[r]
                BY <1>1, <2>1, <3>1, <3>3, UpdateWrites
            <4>2. QED
                BY <4>1
        <3>4. QED
            BY <3>2, <3>3
    <2>5. CASE \E s \in Records : Goes(s)
        <3>1. table'[r] = Absent \/ table'[r] = table[r]
            BY <2>1, <2>5 DEF Goes
        <3>2. QED
            BY <3>1
    <2>6. CASE table' = table
        BY <2>6
    <2>7. QED
        BY <1>1, <2>3, <2>4, <2>5, <2>6 DEF Next, StartPatch, PatchFails, ReplicaFollows
<1>2. IInv /\ [Next]_vars => [\A r \in Records : Given(r)]_vars
    BY <1>1
<1>3. QED
    BY <1>2, Invariance, PTL DEF Spec, OnlySavesGiveLife

(* A patch that read the latest state of its record, and whose record       *)
(* nobody wrote before its update, stores the deep merge of its body and    *)
(* the record, however many other calls overlap.                            *)
THEOREM UndisturbedPatchesMerge == Spec => UndisturbedPatchMerges
<1>1. ASSUME IInv, NEW p \in patches, p.fresh, Update(p)
      PROVE  Merged(p)
    <2>1. table[p.record] # Absent /\ table[p.record].data = p.existing
        BY <1>1 DEF IInv, FreshIsCurrent
    <2>2. p \in Patches
        BY <1>1 DEF IInv, TypeOK
    <2>3. /\ table'[p.record] = UpdatedItem(p)
          /\ UpdatedItem(p) \in Items
          /\ UpdatedItem(p).data = deepMerge(p.existing, p.body)
        BY <1>1, <2>1, UpdateWrites DEF IInv, TypeOK
    <2>4. Merges(p.existing, p.body, deepMerge(p.existing, p.body))
        BY <2>2, DeepMergeMerges DEF Patches
    <2>5. QED
        BY <2>1, <2>3, <2>4, AbsentIsNoItem DEF Merged
<1>2. IInv => \A p \in patches : p.fresh /\ Update(p) => Merged(p)
    BY <1>1
<1>3. QED
    BY <1>2, Invariance, PTL DEF UndisturbedPatchMerges
=============================================================================

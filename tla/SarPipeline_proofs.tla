------------------------- MODULE SarPipeline_proofs -------------------------
(***************************************************************************)
(* The subject access pipeline implements the promise of its queue, writes *)
(* complete files, answers for the right subject, and brings nothing back  *)
(* after an erasure that left nothing under way.                           *)
(***************************************************************************)
EXTENDS SarPipeline, TLAPS

-----------------------------------------------------------------------------
(* What a view of a table can hold.                                        *)

LEMMA DataViewParts ==
    ASSUME TypeOK, NEW view \in DataViews
    PROVE  view \in SUBSET Items /\ table \ lagging \subseteq view
    BY DEF TypeOK, DataViews, Views

LEMMA IdentityViewParts ==
    ASSUME NEW view \in IdentityViews
    PROVE  view \subseteq identity \cup laggingRows
    BY DEF IdentityViews, Views

(* Whom a name resolves to, by any copy.                                   *)
LEMMA ResolvedRow ==
    ASSUME NEW n, NEW u, \E view \in IdentityViews : Resolves(view, n, u)
    PROVE  <<n, u>> \in identity \cup laggingRows
    BY IdentityViewParts DEF Resolves

-----------------------------------------------------------------------------
(* Each action keeps each part of the invariant.                           *)

(* API handlers beside the pipeline. *)

LEMMA HandlerResolvesKeeps ==
    ASSUME IInv, NEW h \in Handlers, NEW op \in {"post", "link"}, NEW n \in Names, NEW u \in Users, HandlerResolves(h, op, n, u)
    PROVE  IInv'
<1> USE DEF IInv, HandlerResolves, tables, dataVars, identityVars, api, fileVars, bucket, signVars, Calls
<1>1. TypeOK'
    BY Bounds, Sizes, OrderedKeys, NamesAreNames
       DEF TypeOK, Items, Keys, Rows, Requests, Events, Idle, HandlerStates, CreateStates, ReadRuns,
           SignStates, Files, NoFile
<1>2. RequestsWereMade'
    BY NamesAreNames DEF TypeOK, RequestsWereMade, Busy, Idle, Requests, CreateStates, ReadRuns, Nobody
<1>3. WorkIsAccounted'
    BY DEF TypeOK, WorkIsAccounted, Answered, Busy, Idle, Requests, CreateStates, ReadRuns, Files, NoFile
<1>4. UsersWereOwners'
    BY FreshIds, OrderedKeys, NamesAreNames
       DEF TypeOK, UsersWereOwners, Reading, Items, Keys, Rows, Requests, Events, Idle,
           HandlerStates, CreateStates, ReadRuns, SignStates, Files, NoFile, Nobody
<1>5. ReadSoFar'
    BY OrderedKeys DEF TypeOK, ReadSoFar, Reading, ItemsOf, Items, Keys, Idle, CreateStates, ReadRuns, Requests
<1>6. QED
    BY <1>1, <1>2, <1>3, <1>4, <1>5

LEMMA PostRecordKeeps ==
    ASSUME IInv, NEW h \in Handlers, NEW p \in Paths, PostRecord(h, p)
    PROVE  IInv'
<1> USE DEF IInv, PostRecord, PutItem, LaggingAfter, tables, dataVars, identityVars, api, fileVars, bucket, signVars
<1>1. TypeOK'
    BY Bounds, Sizes, OrderedKeys, NamesAreNames
       DEF TypeOK, Items, Keys, Rows, Requests, Events, Idle, HandlerStates, CreateStates, ReadRuns,
           SignStates, Files, NoFile
<1>2. RequestsWereMade'
    BY NamesAreNames DEF TypeOK, RequestsWereMade, Busy, Idle, Requests, CreateStates, ReadRuns, Nobody
<1>3. WorkIsAccounted'
    BY DEF TypeOK, WorkIsAccounted, Answered, Busy, Idle, Requests, CreateStates, ReadRuns, Files, NoFile
<1>4. UsersWereOwners'
    BY FreshIds, OrderedKeys, NamesAreNames
       DEF TypeOK, UsersWereOwners, Reading, Items, Keys, Rows, Requests, Events, Idle,
           HandlerStates, CreateStates, ReadRuns, SignStates, Files, NoFile, Nobody
<1>5. ReadSoFar'
    BY OrderedKeys DEF TypeOK, ReadSoFar, Reading, ItemsOf, Items, Keys, Idle, CreateStates, ReadRuns, Requests
<1>6. QED
    BY <1>1, <1>2, <1>3, <1>4, <1>5

LEMMA LinkIdentityKeeps ==
    ASSUME IInv, NEW h \in Handlers, NEW n \in Names, LinkIdentity(h, n)
    PROVE  IInv'
<1> USE DEF IInv, LinkIdentity, PutRow, LaggingAfter, tables, dataVars, identityVars, api, fileVars, bucket, signVars
<1>1. TypeOK'
    BY Bounds, Sizes, OrderedKeys, NamesAreNames
       DEF TypeOK, Items, Keys, Rows, Requests, Events, Idle, HandlerStates, CreateStates, ReadRuns,
           SignStates, Files, NoFile
<1>2. RequestsWereMade'
    BY NamesAreNames DEF TypeOK, RequestsWereMade, Busy, Idle, Requests, CreateStates, ReadRuns, Nobody
<1>3. WorkIsAccounted'
    BY DEF TypeOK, WorkIsAccounted, Answered, Busy, Idle, Requests, CreateStates, ReadRuns, Files, NoFile
<1>4. UsersWereOwners'
    BY FreshIds, OrderedKeys, NamesAreNames
       DEF TypeOK, UsersWereOwners, Reading, Items, Keys, Rows, Requests, Events, Idle,
           HandlerStates, CreateStates, ReadRuns, SignStates, Files, NoFile, Nobody
<1>5. ReadSoFar'
    BY OrderedKeys DEF TypeOK, ReadSoFar, Reading, ItemsOf, Items, Keys, Idle, CreateStates, ReadRuns, Requests
<1>6. QED
    BY <1>1, <1>2, <1>3, <1>4, <1>5

LEMMA ItemGoesKeeps ==
    ASSUME IInv, NEW i \in table, ItemGoes(i)
    PROVE  IInv'
<1> USE DEF IInv, ItemGoes, RemoveItem, LaggingAfter, tables, dataVars, identityVars, api, fileVars, bucket, signVars, Calls
<1>1. TypeOK'
    BY Bounds, Sizes, OrderedKeys, NamesAreNames
       DEF TypeOK, Items, Keys, Rows, Requests, Events, Idle, HandlerStates, CreateStates, ReadRuns,
           SignStates, Files, NoFile
<1>2. RequestsWereMade'
    BY NamesAreNames DEF TypeOK, RequestsWereMade, Busy, Idle, Requests, CreateStates, ReadRuns, Nobody
<1>3. WorkIsAccounted'
    BY DEF TypeOK, WorkIsAccounted, Answered, Busy, Idle, Requests, CreateStates, ReadRuns, Files, NoFile
<1>4. UsersWereOwners'
    BY FreshIds, OrderedKeys, NamesAreNames
       DEF TypeOK, UsersWereOwners, Reading, Items, Keys, Rows, Requests, Events, Idle,
           HandlerStates, CreateStates, ReadRuns, SignStates, Files, NoFile, Nobody
<1>5. ReadSoFar'
    BY OrderedKeys DEF TypeOK, ReadSoFar, Reading, ItemsOf, Items, Keys, Idle, CreateStates, ReadRuns, Requests
<1>6. QED
    BY <1>1, <1>2, <1>3, <1>4, <1>5

LEMMA RowGoesKeeps ==
    ASSUME IInv, NEW row \in identity, RowGoes(row)
    PROVE  IInv'
<1> USE DEF IInv, RowGoes, RemoveRow, LaggingAfter, tables, dataVars, identityVars, api, fileVars, bucket, signVars, Calls
<1>1. TypeOK'
    BY Bounds, Sizes, OrderedKeys, NamesAreNames
       DEF TypeOK, Items, Keys, Rows, Requests, Events, Idle, HandlerStates, CreateStates, ReadRuns,
           SignStates, Files, NoFile
<1>2. RequestsWereMade'
    BY NamesAreNames DEF TypeOK, RequestsWereMade, Busy, Idle, Requests, CreateStates, ReadRuns, Nobody
<1>3. WorkIsAccounted'
    BY DEF TypeOK, WorkIsAccounted, Answered, Busy, Idle, Requests, CreateStates, ReadRuns, Files, NoFile
<1>4. UsersWereOwners'
    BY FreshIds, OrderedKeys, NamesAreNames
       DEF TypeOK, UsersWereOwners, Reading, Items, Keys, Rows, Requests, Events, Idle,
           HandlerStates, CreateStates, ReadRuns, SignStates, Files, NoFile, Nobody
<1>5. ReadSoFar'
    BY OrderedKeys DEF TypeOK, ReadSoFar, Reading, ItemsOf, Items, Keys, Idle, CreateStates, ReadRuns, Requests
<1>6. QED
    BY <1>1, <1>2, <1>3, <1>4, <1>5

(* The two functions of the file. *)

LEMMA StartSarKeeps ==
    ASSUME IInv, NEW s \in SarIds, NEW n \in Names, StartSar(s, n)
    PROVE  IInv'
<1> USE DEF IInv, StartSar, tables, dataVars, identityVars, api, fileVars, bucket, signVars
<1>1. TypeOK'
    BY Bounds, Sizes, OrderedKeys, NamesAreNames
       DEF TypeOK, Items, Keys, Rows, Requests, Events, Idle, HandlerStates, CreateStates, ReadRuns,
           SignStates, Files, NoFile
<1>2. RequestsWereMade'
    BY NamesAreNames DEF TypeOK, RequestsWereMade, Busy, Idle, Requests, CreateStates, ReadRuns, Nobody
<1>3. WorkIsAccounted'
    BY DEF TypeOK, WorkIsAccounted, Answered, Busy, Idle, Requests, CreateStates, ReadRuns, Files, NoFile
<1>4. UsersWereOwners'
    BY FreshIds, OrderedKeys, NamesAreNames
       DEF TypeOK, UsersWereOwners, Reading, Items, Keys, Rows, Requests, Events, Idle,
           HandlerStates, CreateStates, ReadRuns, SignStates, Files, NoFile, Nobody
<1>5. ReadSoFar'
    BY OrderedKeys DEF TypeOK, ReadSoFar, Reading, ItemsOf, Items, Keys, Idle, CreateStates, ReadRuns, Requests
<1>6. QED
    BY <1>1, <1>2, <1>3, <1>4, <1>5

LEMMA ResolveSubjectKeeps ==
    ASSUME IInv, NEW w \in Workers, NEW m \in sarQueue, NEW u \in Users, ResolveSubject(w, m, u)
    PROVE  IInv'
<1> USE DEF IInv, ResolveSubject, tables, dataVars, identityVars, api, fileVars, bucket, signVars, ItemsOf
<1>1. TypeOK'
    BY Bounds, Sizes, OrderedKeys, NamesAreNames
       DEF TypeOK, Items, Keys, Rows, Requests, Events, Idle, HandlerStates, CreateStates, ReadRuns,
           SignStates, Files, NoFile
<1>2. RequestsWereMade'
    BY NamesAreNames DEF TypeOK, RequestsWereMade, Busy, Idle, Requests, CreateStates, ReadRuns, Nobody
<1>3. WorkIsAccounted'
    BY DEF TypeOK, WorkIsAccounted, Answered, Busy, Idle, Requests, CreateStates, ReadRuns, Files, NoFile
<1>0. <<m.name, u>> \in identity \cup laggingRows
    BY ResolvedRow
<1>4. UsersWereOwners'
    BY <1>0, FreshIds, OrderedKeys, NamesAreNames
       DEF TypeOK, UsersWereOwners, Reading, Items, Keys, Rows, Requests, Events, Idle,
           HandlerStates, CreateStates, ReadRuns, SignStates, Files, NoFile, Nobody
<1>5. ReadSoFar'
    BY OrderedKeys DEF TypeOK, ReadSoFar, Reading, ItemsOf, Items, Keys, Idle, CreateStates, ReadRuns, Requests
<1>6. QED
    BY <1>1, <1>2, <1>3, <1>4, <1>5

LEMMA NoSubjectKeeps ==
    ASSUME IInv, NEW w \in Workers, NEW m \in sarQueue, NoSubject(w, m)
    PROVE  IInv'
<1> USE DEF IInv, NoSubject, tables, dataVars, identityVars, api, fileVars, bucket, signVars
<1>1. TypeOK'
    BY Bounds, Sizes, OrderedKeys, NamesAreNames
       DEF TypeOK, Items, Keys, Rows, Requests, Events, Idle, HandlerStates, CreateStates, ReadRuns,
           SignStates, Files, NoFile
<1>2. RequestsWereMade'
    BY NamesAreNames DEF TypeOK, RequestsWereMade, Busy, Idle, Requests, CreateStates, ReadRuns, Nobody
<1>3. WorkIsAccounted'
    BY DEF TypeOK, WorkIsAccounted, Answered, Busy, Idle, Requests, CreateStates, ReadRuns, Files, NoFile
<1>4. UsersWereOwners'
    BY FreshIds, OrderedKeys, NamesAreNames
       DEF TypeOK, UsersWereOwners, Reading, Items, Keys, Rows, Requests, Events, Idle,
           HandlerStates, CreateStates, ReadRuns, SignStates, Files, NoFile, Nobody
<1>5. ReadSoFar'
    BY OrderedKeys DEF TypeOK, ReadSoFar, Reading, ItemsOf, Items, Keys, Idle, CreateStates, ReadRuns, Requests
<1>6. QED
    BY <1>1, <1>2, <1>3, <1>4, <1>5

(* What a page adds: items of the subject, and all of them up to where the *)
(* reader now stands.                                                      *)
LEMMA ReaderType ==
    ASSUME TypeOK, NEW w \in Workers, work[w].pc \in {"read", "put"}
    PROVE  work[w] \in ReadRuns
    BY DEF TypeOK, CreateStates, ReadRuns, Idle

LEMMA PageRead ==
    ASSUME TypeOK, NEW w \in Workers, ReadPage(w)
    PROVE  \E pc \in {"read", "put"}, cursor \in Nat, got \in SUBSET Items :
              /\ work' = [work EXCEPT ![w] = [work[w] EXCEPT !.pc = pc, !.cursor = cursor, !.got = got]]
              /\ work[w].got \subseteq got
              /\ \A i \in got \ work[w].got : i[1] = work[w].user
              /\ \A i \in ItemsOf(table \ lagging, work[w].user) :
                    i[2] > work[w].cursor /\ (pc = "put" \/ i[2] <= cursor) => i \in got
              /\ pc = "read" => cursor > work[w].cursor
<1> DEFINE s == work[w]
           Page(pc, cursor, got) ==
              /\ work' = [work EXCEPT ![w] = [s EXCEPT !.pc = pc, !.cursor = cursor, !.got = got]]
              /\ s.got \subseteq got
              /\ \A i \in got \ s.got : i[1] = s.user
              /\ \A i \in ItemsOf(table \ lagging, s.user) :
                    i[2] > s.cursor /\ (pc = "put" \/ i[2] <= cursor) => i \in got
              /\ pc = "read" => cursor > s.cursor
<1>1. s.pc = "read"
    BY DEF ReadPage
<1>2. s \in ReadRuns
    BY <1>1, ReaderType
<1>3. PICK view \in DataViews :
          LET rest == {i \in ItemsOf(view, s.user) : i[2] > s.cursor}
          IN  \/ work' = [work EXCEPT ![w] = [s EXCEPT !.pc = "put", !.got = @ \cup rest]]
              \/ \E last \in rest :
                    work' = [work EXCEPT ![w] = [s EXCEPT !.cursor = last[2],
                               !.got = @ \cup {i \in rest : i[2] <= last[2]}]]
    BY DEF ReadPage
<1> DEFINE rest == {i \in ItemsOf(view, s.user) : i[2] > s.cursor}
<1>4. /\ rest \in SUBSET Items /\ \A i \in rest : i[1] = s.user /\ i[2] \in Nat /\ i[2] > s.cursor
      /\ \A i \in ItemsOf(table \ lagging, s.user) : i[2] > s.cursor => i \in rest
    BY DataViewParts, OrderedKeys DEF ItemsOf, Items
<1>5. ASSUME work' = [work EXCEPT ![w] = [s EXCEPT !.pc = "put", !.got = @ \cup rest]]
      PROVE  \E pc \in {"read", "put"}, cursor \in Nat, got \in SUBSET Items : Page(pc, cursor, got)
    <2>1. [s EXCEPT !.pc = "put", !.got = @ \cup rest] =
              [s EXCEPT !.pc = "put", !.cursor = s.cursor, !.got = s.got \cup rest]
        BY <1>2 DEF ReadRuns
    <2>2. s.cursor \in Nat /\ s.got \cup rest \in SUBSET Items
        BY <1>2, <1>4 DEF ReadRuns
    <2>3. Page("put", s.cursor, s.got \cup rest)
        BY <1>4, <1>5, <2>1
    <2> HIDE DEF Page
    <2>4. QED
        BY <2>2, <2>3
<1>6. ASSUME NEW last \in rest,
             work' = [work EXCEPT ![w] = [s EXCEPT !.cursor = last[2],
                         !.got = @ \cup {i \in rest : i[2] <= last[2]}]]
      PROVE  \E pc \in {"read", "put"}, cursor \in Nat, got \in SUBSET Items : Page(pc, cursor, got)
    <2> DEFINE got == s.got \cup {i \in rest : i[2] <= last[2]}
    <2>1. [s EXCEPT !.cursor = last[2], !.got = @ \cup {i \in rest : i[2] <= last[2]}] =
              [s EXCEPT !.pc = "read", !.cursor = last[2], !.got = got]
        BY <1>1, <1>2 DEF ReadRuns
    <2>2. last[2] \in Nat /\ got \in SUBSET Items
        BY <1>2, <1>4 DEF ReadRuns
    <2>3. Page("read", last[2], got)
        BY <1>4, <1>6, <2>1
    <2>4. QED
        BY <2>2, <2>3
<1>7. \E pc \in {"read", "put"}, cursor \in Nat, got \in SUBSET Items : Page(pc, cursor, got)
    BY <1>3, <1>5, <1>6
<1>8. QED
    BY <1>7

LEMMA PageReadSubject ==
    ASSUME TypeOK, NEW w \in Workers, ReadPage(w)
    PROVE  /\ \A x \in Workers : x # w => work'[x] = work[x]
           /\ work'[w] \in ReadRuns
           /\ work'[w].msg = work[w].msg /\ work'[w].user = work[w].user
           /\ work[w].got \subseteq work'[w].got
           /\ work'[w].pc = "read" => work'[w].cursor > work[w].cursor
<1>1. work[w] \in ReadRuns
    BY ReaderType DEF ReadPage
<1>2. PICK pc \in {"read", "put"}, cursor \in Nat, got \in SUBSET Items :
          /\ work' = [work EXCEPT ![w] = [work[w] EXCEPT !.pc = pc, !.cursor = cursor, !.got = got]]
          /\ work[w].got \subseteq got
          /\ pc = "read" => cursor > work[w].cursor
    BY PageRead
<1>3. QED
    BY <1>1, <1>2 DEF TypeOK, ReadRuns

LEMMA ReadPageKeeps ==
    ASSUME IInv, NEW w \in Workers, ReadPage(w)
    PROVE  IInv'
<1> DEFINE s == work[w]
<1>1. s \in ReadRuns /\ s.pc = "read"
    BY ReaderType DEF IInv, ReadPage
<1>2. PICK pc \in {"read", "put"}, cursor \in Nat, got \in SUBSET Items :
              /\ work' = [work EXCEPT ![w] = [s EXCEPT !.pc = pc, !.cursor = cursor, !.got = got]]
              /\ s.got \subseteq got
              /\ \A i \in got \ s.got : i[1] = s.user
              /\ \A i \in ItemsOf(table \ lagging, s.user) :
                    i[2] > s.cursor /\ (pc = "put" \/ i[2] <= cursor) => i \in got
    BY PageRead DEF IInv
<1> DEFINE new == [s EXCEPT !.pc = pc, !.cursor = cursor, !.got = got]
<1>3. /\ new \in ReadRuns
      /\ new.pc = pc /\ new.msg = s.msg /\ new.user = s.user
      /\ new.cursor = cursor /\ new.got = got
    BY <1>1 DEF ReadRuns
<1>4. new # Idle /\ s # Idle
    BY <1>1, <1>3 DEF Idle, ReadRuns
<1>5. work' = [work EXCEPT ![w] = new]
    BY <1>2
<1> HIDE DEF new
<1>6. UNCHANGED <<tables, asked, sarQueue, dlq, steady, bucket, signVars, failures>>
    BY DEF ReadPage
<1>7. TypeOK'
    BY <1>3, <1>5, <1>6 DEF IInv, TypeOK, CreateStates, tables, dataVars, identityVars, api, bucket, signVars
<1>8. RequestsWereMade'
    BY <1>3, <1>4, <1>5, <1>6 DEF IInv, TypeOK, RequestsWereMade, Busy
<1>9. WorkIsAccounted'
    BY <1>1, <1>3, <1>4, <1>5, <1>6 DEF IInv, TypeOK, WorkIsAccounted, Answered, Busy, bucket
<1>10. UsersWereOwners'
    BY <1>1, <1>3, <1>5, <1>6
       DEF IInv, TypeOK, UsersWereOwners, Reading, tables, dataVars, identityVars, api, bucket, signVars
<1>11. ReadSoFar'
    <2>1. ASSUME NEW x \in Workers, x # w
          PROVE  work'[x] = work[x]
        BY <1>5, <2>1 DEF IInv, TypeOK
    <2>2. work'[w] = new
        BY <1>5 DEF IInv, TypeOK
    <2>3. /\ steady[w] \subseteq ItemsOf(table \ lagging, s.user)
          /\ \A i \in s.got : i[1] = s.user
          /\ \A i \in steady[w] : i[2] <= s.cursor => i \in s.got
        BY <1>1 DEF IInv, ReadSoFar, Reading
    <2>4. s.cursor \in Nat /\ \A i \in steady[w] : i[2] \in Nat
        <3>1. s.cursor \in Nat
            BY <1>1 DEF ReadRuns
        <3>2. steady[w] \subseteq Items
            BY DEF IInv, TypeOK
        <3>3. \A i \in Items : i[2] \in Nat
            BY OrderedKeys DEF Items
        <3>4. QED
            BY <3>1, <3>2, <3>3
    <2>5. ASSUME NEW i \in steady[w], pc = "put" \/ i[2] <= cursor
          PROVE  i \in got
        <3>1. i \in ItemsOf(table \ lagging, s.user) /\ i[2] \in Nat /\ s.cursor \in Nat
            BY <2>3, <2>4
        <3>2. CASE i[2] > s.cursor
            BY <1>2, <2>5, <3>1, <3>2
        <3>3. CASE i[2] <= s.cursor
            BY <1>2, <2>3, <3>3
        <3>4. QED
            BY <3>1, <3>2, <3>3
    <2>6. \A i \in got : i[1] = s.user
        BY <1>2, <2>3
    <2>7. QED
        BY <1>3, <1>6, <2>1, <2>2, <2>3, <2>5, <2>6 DEF IInv, ReadSoFar, Reading, ItemsOf, tables, dataVars
<1>12. QED
    BY <1>7, <1>8, <1>9, <1>10, <1>11 DEF IInv

LEMMA PutFileKeeps ==
    ASSUME IInv, NEW w \in Workers, PutFile(w)
    PROVE  IInv'
<1> USE DEF IInv, PutFile, tables, dataVars, identityVars, api, fileVars, bucket, signVars
<1>1. /\ work[w] \in ReadRuns
      /\ work'[w] = [pc |-> "ack", msg |-> work[w].msg]
    BY DEF TypeOK, CreateStates, ReadRuns, Idle
<1>2. TypeOK'
    <2>1. puts' \in 1..MaxPuts
        BY Bounds DEF TypeOK
    <2>2. [id |-> puts', sar |-> work[w].msg.sar, tries |-> 1] \in Events
        BY <1>1, <2>1, Sizes DEF Events, Requests, ReadRuns
    <2>3. files' \in [SarIds -> Files]
        BY <1>1 DEF TypeOK, Files, Requests, ReadRuns
    <2>4. work' \in [Workers -> CreateStates]
        BY <1>1 DEF TypeOK, CreateStates, ReadRuns
    <2>5. QED
        BY <2>1, <2>2, <2>3, <2>4 DEF TypeOK
<1>3. RequestsWereMade'
    BY <1>1 DEF TypeOK, RequestsWereMade, Busy, Idle
<1>4. WorkIsAccounted'
    BY <1>1, OrderedKeys
       DEF TypeOK, WorkIsAccounted, Answered, Busy, Idle, Requests, ReadRuns, Files, NoFile
<1>5. UsersWereOwners'
    <2> DEFINE s == work[w]
               file == [user |-> s.user, items |-> s.got]
    <2>1. files' = [files EXCEPT ![s.msg.sar] = file] /\ file # NoFile /\ s.msg.sar \in SarIds
        BY <1>1, OrderedKeys DEF NoFile, Requests, ReadRuns
    <2>2. asked[s.msg.sar] # Nobody /\ s.user \in owners[asked[s.msg.sar]]
        BY <1>1, NamesAreNames
           DEF RequestsWereMade, UsersWereOwners, Busy, Idle, Reading, Requests, ReadRuns, Nobody
    <2>3. events' = events \cup {[id |-> puts', sar |-> s.msg.sar, tries |-> 1]}
        OBVIOUS
    <2> HIDE DEF file
    <2>4. file.user = s.user
        BY DEF file
    <2>5. \A x \in SarIds : files'[x] # NoFile =>
              asked[x] # Nobody /\ files'[x].user \in owners[asked[x]]
        BY <2>1, <2>2, <2>4 DEF TypeOK, UsersWereOwners
    <2>6. \A e \in events' : files'[e.sar] # NoFile
        BY <2>1, <2>3 DEF TypeOK, UsersWereOwners, Events
    <2>7. \A v \in Signers : signer[v] # Idle =>
              /\ files'[signer[v].event.sar] # NoFile
              /\ signer[v].user \in owners[asked[signer[v].event.sar]]
        BY <2>1 DEF TypeOK, UsersWereOwners, SignStates, Events
    <2>8. \A i \in table \cup lagging : i[2] \in SarIds =>
              files'[i[2]] # NoFile /\ i[1] \in owners[asked[i[2]]]
        BY <2>1 DEF TypeOK, UsersWereOwners
    <2>9. \A x \in Workers : Reading(x)' => work'[x].user \in owners[work'[x].msg.name]
        BY <1>1 DEF TypeOK, UsersWereOwners, Reading
    <2>10. QED
        BY <2>5, <2>6, <2>7, <2>8, <2>9 DEF UsersWereOwners, TypeOK
<1>6. ReadSoFar'
    BY DEF TypeOK, ReadSoFar, Reading, ItemsOf
<1>7. QED
    BY <1>2, <1>3, <1>4, <1>5, <1>6

LEMMA CreateThrowsKeeps ==
    ASSUME IInv, NEW w \in Workers, CreateThrows(w)
    PROVE  IInv'
<1> USE DEF IInv, CreateThrows, tables, dataVars, identityVars, api, fileVars, bucket, signVars, Fails
<1>1. TypeOK'
    BY Bounds, Sizes, OrderedKeys, NamesAreNames
       DEF TypeOK, Items, Keys, Rows, Requests, Events, Idle, HandlerStates, CreateStates, ReadRuns,
           SignStates, Files, NoFile
<1>2. RequestsWereMade'
    BY NamesAreNames DEF TypeOK, RequestsWereMade, Busy, Idle, Requests, CreateStates, ReadRuns, Nobody
<1>3. WorkIsAccounted'
    BY DEF TypeOK, WorkIsAccounted, Answered, Busy, Idle, Requests, CreateStates, ReadRuns, Files, NoFile
<1>4. UsersWereOwners'
    BY FreshIds, OrderedKeys, NamesAreNames
       DEF TypeOK, UsersWereOwners, Reading, Items, Keys, Rows, Requests, Events, Idle,
           HandlerStates, CreateStates, ReadRuns, SignStates, Files, NoFile, Nobody
<1>5. ReadSoFar'
    BY OrderedKeys DEF TypeOK, ReadSoFar, Reading, ItemsOf, Items, Keys, Idle, CreateStates, ReadRuns, Requests
<1>6. QED
    BY <1>1, <1>2, <1>3, <1>4, <1>5

LEMMA SendToDlqKeeps ==
    ASSUME IInv, NEW w \in Workers, SendToDlq(w)
    PROVE  IInv'
<1> USE DEF IInv, SendToDlq, tables, dataVars, identityVars, api, fileVars, bucket, signVars
<1>1. TypeOK'
    BY Bounds, Sizes, OrderedKeys, NamesAreNames
       DEF TypeOK, Items, Keys, Rows, Requests, Events, Idle, HandlerStates, CreateStates, ReadRuns,
           SignStates, Files, NoFile
<1>2. RequestsWereMade'
    BY NamesAreNames DEF TypeOK, RequestsWereMade, Busy, Idle, Requests, CreateStates, ReadRuns, Nobody
<1>3. WorkIsAccounted'
    BY DEF TypeOK, WorkIsAccounted, Answered, Busy, Idle, Requests, CreateStates, ReadRuns, Files, NoFile
<1>4. UsersWereOwners'
    BY FreshIds, OrderedKeys, NamesAreNames
       DEF TypeOK, UsersWereOwners, Reading, Items, Keys, Rows, Requests, Events, Idle,
           HandlerStates, CreateStates, ReadRuns, SignStates, Files, NoFile, Nobody
<1>5. ReadSoFar'
    BY OrderedKeys DEF TypeOK, ReadSoFar, Reading, ItemsOf, Items, Keys, Idle, CreateStates, ReadRuns, Requests
<1>6. QED
    BY <1>1, <1>2, <1>3, <1>4, <1>5

LEMMA AckCreateKeeps ==
    ASSUME IInv, NEW w \in Workers, AckCreate(w)
    PROVE  IInv'
<1> USE DEF IInv, AckCreate, tables, dataVars, identityVars, api, fileVars, bucket, signVars
<1>1. TypeOK'
    BY Bounds, Sizes, OrderedKeys, NamesAreNames
       DEF TypeOK, Items, Keys, Rows, Requests, Events, Idle, HandlerStates, CreateStates, ReadRuns,
           SignStates, Files, NoFile
<1>2. RequestsWereMade'
    BY NamesAreNames DEF TypeOK, RequestsWereMade, Busy, Idle, Requests, CreateStates, ReadRuns, Nobody
<1>3. WorkIsAccounted'
    BY DEF TypeOK, WorkIsAccounted, Answered, Busy, Idle, Requests, CreateStates, ReadRuns, Files, NoFile
<1>4. UsersWereOwners'
    BY FreshIds, OrderedKeys, NamesAreNames
       DEF TypeOK, UsersWereOwners, Reading, Items, Keys, Rows, Requests, Events, Idle,
           HandlerStates, CreateStates, ReadRuns, SignStates, Files, NoFile, Nobody
<1>5. ReadSoFar'
    BY OrderedKeys DEF TypeOK, ReadSoFar, Reading, ItemsOf, Items, Keys, Idle, CreateStates, ReadRuns, Requests
<1>6. QED
    BY <1>1, <1>2, <1>3, <1>4, <1>5

LEMMA CreateFailsKeeps ==
    ASSUME IInv, NEW w \in Workers, CreateFails(w)
    PROVE  IInv'
<1> USE DEF IInv, CreateFails, tables, dataVars, identityVars, api, fileVars, bucket, signVars, Fails
<1>1. TypeOK'
    BY Bounds, Sizes, OrderedKeys, NamesAreNames
       DEF TypeOK, Items, Keys, Rows, Requests, Events, Idle, HandlerStates, CreateStates, ReadRuns,
           SignStates, Files, NoFile
<1>2. RequestsWereMade'
    BY NamesAreNames DEF TypeOK, RequestsWereMade, Busy, Idle, Requests, CreateStates, ReadRuns, Nobody
<1>3. WorkIsAccounted'
    BY DEF TypeOK, WorkIsAccounted, Answered, Busy, Idle, Requests, CreateStates, ReadRuns, Files, NoFile
<1>4. UsersWereOwners'
    BY FreshIds, OrderedKeys, NamesAreNames
       DEF TypeOK, UsersWereOwners, Reading, Items, Keys, Rows, Requests, Events, Idle,
           HandlerStates, CreateStates, ReadRuns, SignStates, Files, NoFile, Nobody
<1>5. ReadSoFar'
    BY OrderedKeys DEF TypeOK, ReadSoFar, Reading, ItemsOf, Items, Keys, Idle, CreateStates, ReadRuns, Requests
<1>6. QED
    BY <1>1, <1>2, <1>3, <1>4, <1>5

(* The signing function. *)

LEMMA TakeEventKeeps ==
    ASSUME IInv, NEW v \in Signers, NEW e \in events, TakeEvent(v, e)
    PROVE  IInv'
<1> USE DEF IInv, TakeEvent, tables, dataVars, identityVars, api, fileVars, bucket, signVars
<1>1. TypeOK'
    BY Bounds, Sizes, OrderedKeys, NamesAreNames
       DEF TypeOK, Items, Keys, Rows, Requests, Events, Idle, HandlerStates, CreateStates, ReadRuns,
           SignStates, Files, NoFile
<1>2. RequestsWereMade'
    BY NamesAreNames DEF TypeOK, RequestsWereMade, Busy, Idle, Requests, CreateStates, ReadRuns, Nobody
<1>3. WorkIsAccounted'
    BY DEF TypeOK, WorkIsAccounted, Answered, Busy, Idle, Requests, CreateStates, ReadRuns, Files, NoFile
<1>4. UsersWereOwners'
    BY FreshIds, OrderedKeys, NamesAreNames
       DEF TypeOK, UsersWereOwners, Reading, Items, Keys, Rows, Requests, Events, Idle,
           HandlerStates, CreateStates, ReadRuns, SignStates, Files, NoFile, Nobody
<1>5. ReadSoFar'
    BY OrderedKeys DEF TypeOK, ReadSoFar, Reading, ItemsOf, Items, Keys, Idle, CreateStates, ReadRuns, Requests
<1>6. QED
    BY <1>1, <1>2, <1>3, <1>4, <1>5

LEMMA SaveRecordKeeps ==
    ASSUME IInv, NEW v \in Signers, SaveRecord(v)
    PROVE  IInv'
<1> USE DEF IInv, SaveRecord, PutItem, LaggingAfter, tables, dataVars, identityVars, api, fileVars, bucket, signVars
<1>1. TypeOK'
    BY Bounds, Sizes, OrderedKeys, NamesAreNames
       DEF TypeOK, Items, Keys, Rows, Requests, Events, Idle, HandlerStates, CreateStates, ReadRuns,
           SignStates, Files, NoFile
<1>2. RequestsWereMade'
    BY NamesAreNames DEF TypeOK, RequestsWereMade, Busy, Idle, Requests, CreateStates, ReadRuns, Nobody
<1>3. WorkIsAccounted'
    BY DEF TypeOK, WorkIsAccounted, Answered, Busy, Idle, Requests, CreateStates, ReadRuns, Files, NoFile
<1>4. UsersWereOwners'
    BY FreshIds, OrderedKeys, NamesAreNames
       DEF TypeOK, UsersWereOwners, Reading, Items, Keys, Rows, Requests, Events, Idle,
           HandlerStates, CreateStates, ReadRuns, SignStates, Files, NoFile, Nobody
<1>5. ReadSoFar'
    BY OrderedKeys DEF TypeOK, ReadSoFar, Reading, ItemsOf, Items, Keys, Idle, CreateStates, ReadRuns, Requests
<1>6. QED
    BY <1>1, <1>2, <1>3, <1>4, <1>5

LEMMA SignFailsKeeps ==
    ASSUME IInv, NEW v \in Signers, SignFails(v)
    PROVE  IInv'
<1> USE DEF IInv, SignFails, tables, dataVars, identityVars, api, fileVars, bucket, signVars, Fails
<1> DEFINE e == signer[v].event
           again == [e EXCEPT !.tries = @ + 1]
<1>1. e \in Events /\ e.sar \in SarIds /\ again.sar = e.sar
    BY DEF TypeOK, SignStates, Idle, Events
<1>2. CASE e.tries < MaxTries /\ events' = events \cup {again} /\ UNCHANGED givenUp
    <2>1. again \in Events
        BY <1>1, <1>2, Sizes DEF Events
    <2>2. failures' \in 0..MaxFailures
        BY Bounds DEF TypeOK
    <2> HIDE DEF again, e
    <2>3. TypeOK'
        BY <1>2, <2>1, <2>2 DEF TypeOK, SignStates
    <2>4. UsersWereOwners'
        BY <1>1, <1>2 DEF TypeOK, UsersWereOwners, Reading, e
    <2>5. RequestsWereMade' /\ WorkIsAccounted' /\ ReadSoFar'
        BY DEF TypeOK, RequestsWereMade, WorkIsAccounted, Answered, ReadSoFar, ItemsOf, Reading, Busy
    <2>6. QED
        BY <2>3, <2>4, <2>5
<1>3. CASE e.tries = MaxTries /\ givenUp' = givenUp \cup {e.sar} /\ UNCHANGED events
    <2>1. failures' \in 0..MaxFailures
        BY Bounds DEF TypeOK
    <2> HIDE DEF again, e
    <2>2. TypeOK'
        BY <1>1, <1>3, <2>1 DEF TypeOK, SignStates
    <2>3. UsersWereOwners'
        BY <1>3 DEF TypeOK, UsersWereOwners, Reading
    <2>4. RequestsWereMade' /\ WorkIsAccounted' /\ ReadSoFar'
        BY DEF TypeOK, RequestsWereMade, WorkIsAccounted, Answered, ReadSoFar, ItemsOf, Reading, Busy
    <2>5. QED
        BY <2>2, <2>3, <2>4
<1>4. QED
    BY <1>2, <1>3

(* The copies of the tables. *)

LEMMA SettlesKeeps ==
    ASSUME IInv, (\E i \in lagging : ItemSettles(i)) \/ \E row \in laggingRows : RowSettles(row)
    PROVE  IInv'
    BY DEF IInv, TypeOK, RequestsWereMade, WorkIsAccounted, Answered, UsersWereOwners, ReadSoFar,
           ItemsOf, Busy, Reading, ItemSettles, RowSettles, identityVars, dataVars, api, fileVars,
           bucket, signVars

-----------------------------------------------------------------------------
(* The invariant.                                                          *)

LEMMA InitIInv == Init => IInv
<1> SUFFICES ASSUME Init PROVE IInv
    OBVIOUS
<1>1. TypeOK
    BY InitialTables, NamesAreNames, Bounds
       DEF Init, TypeOK, Items, Keys, Rows, HandlerStates, CreateStates, ReadRuns, SignStates, Files
<1>2. RequestsWereMade /\ WorkIsAccounted
    BY DEF Init, RequestsWereMade, WorkIsAccounted, Busy
<1>3. UsersWereOwners
    BY InitialTables, FreshIds DEF Init, UsersWereOwners, Reading, Idle, Rows
<1>4. ReadSoFar
    BY DEF Init, ReadSoFar, Reading, Idle
<1>5. QED
    BY <1>1, <1>2, <1>3, <1>4 DEF IInv

LEMMA StutterKeeps == ASSUME IInv, UNCHANGED vars PROVE IInv'
    BY DEF IInv, TypeOK, RequestsWereMade, WorkIsAccounted, Answered, UsersWereOwners, ReadSoFar,
           ItemsOf, Busy, Reading, vars, tables, dataVars, identityVars, api, fileVars, bucket, signVars

LEMMA NextKeeps == ASSUME IInv, [Next]_vars PROVE IInv'
<1>1. CASE Beside
    BY <1>1, HandlerResolvesKeeps, PostRecordKeeps, LinkIdentityKeeps, ItemGoesKeeps, RowGoesKeeps
       DEF Beside
<1>2. CASE \E s \in SarIds, n \in Names : StartSar(s, n)
    BY <1>2, StartSarKeeps
<1>3. CASE \E w \in Workers :
              (\E m \in sarQueue : Receive(w, m)) \/ CreateStep(w) \/ CreateThrows(w) \/ CreateFails(w)
    BY <1>3, ResolveSubjectKeeps, NoSubjectKeeps, ReadPageKeeps, PutFileKeeps, SendToDlqKeeps,
       AckCreateKeeps, CreateThrowsKeeps, CreateFailsKeeps
       DEF Receive, CreateStep
<1>4. CASE \E v \in Signers : (\E e \in events : TakeEvent(v, e)) \/ SaveRecord(v) \/ SignFails(v)
    BY <1>4, TakeEventKeeps, SaveRecordKeeps, SignFailsKeeps
<1>5. CASE UNCHANGED vars
    BY <1>5, StutterKeeps
<1>6. CASE (\E i \in lagging : ItemSettles(i)) \/ \E row \in laggingRows : RowSettles(row)
    BY <1>6, SettlesKeeps
<1>7. QED
    BY <1>1, <1>2, <1>3, <1>4, <1>5, <1>6 DEF Next

(* The inductive invariant: the types, and what each request, file, event  *)
(* and reader owes the ones before it.                                     *)
THEOREM Invariance == Spec => []IInv
<1>1. Init => IInv
    BY InitIInv
<1>2. IInv /\ [Next]_vars => IInv'
    BY NextKeeps
<1>3. QED
    BY <1>1, <1>2, PTL DEF Spec

(* Every variable keeps its type: no event outlives its last attempt.      *)
THEOREM TypeCorrect == Spec => []TypeOK
<1>1. IInv => TypeOK
    BY DEF IInv
<1>2. QED
    BY <1>1, Invariance, PTL

(* getSarStatus answers for a user the request was made for, with a file   *)
(* that is his unless the name has moved.                                  *)
THEOREM StatusIsSubjects == Spec => []StatusServesSubject
<1>1. IInv => StatusServesSubject
    <2> SUFFICES ASSUME IInv, NEW n \in Names, NEW s \in SarIds, NEW u \in Status(n, s)
                 PROVE  /\ asked[s] # Nobody
                        /\ u \in owners[asked[s]]
                        /\ NeverMoved(asked[s]) => files[s].user = u
        BY DEF StatusServesSubject
    <2>1. <<u, s>> \in table \cup lagging
        BY DEF Status, DataViews, Views
    <2>2. files[s] # NoFile /\ u \in owners[asked[s]]
        BY <2>1 DEF IInv, UsersWereOwners
    <2>3. asked[s] # Nobody /\ files[s].user \in owners[asked[s]]
        BY <2>2 DEF IInv, UsersWereOwners
    <2>4. QED
        BY <2>2, <2>3 DEF NeverMoved
<1>2. QED
    BY <1>1, Invariance, PTL

-----------------------------------------------------------------------------
(* Files are complete.                                                     *)

LEMMA FilesComplete ==
    ASSUME IInv, [Next]_vars, NEW s \in SarIds, files'[s] # files[s]
    PROVE  \E w \in Workers :
              /\ work[w].pc = "put" /\ work[w].msg.sar = s
              /\ steady[w] \subseteq files'[s].items
              /\ \A i \in files'[s].items : i[1] = files'[s].user
<1>1. PICK w \in Workers : PutFile(w)
    BY DEF Next, Beside, HandlerResolves, PostRecord, LinkIdentity, ItemGoes, RowGoes, StartSar, Receive,
           ResolveSubject, NoSubject, CreateStep, ReadPage, SendToDlq, AckCreate, CreateThrows,
           CreateFails, TakeEvent, SaveRecord, SignFails, ItemSettles, RowSettles, bucket, vars
<1>2. /\ work[w].pc = "put" /\ work[w].msg.sar = s
      /\ files'[s] = [user |-> work[w].user, items |-> work[w].got]
    BY <1>1 DEF PutFile, IInv, TypeOK
<1>3. /\ steady[w] \subseteq work[w].got
      /\ \A i \in work[w].got : i[1] = work[w].user
    BY <1>2 DEF IInv, ReadSoFar, Reading
<1>4. QED
    BY <1>2, <1>3

(* A file that is written holds what its subject had in every copy of the  *)
(* table since the request resolved him, whichever copies answered its     *)
(* pages, and nobody else's items.                                         *)
THEOREM FilesAreComplete == Spec => CompleteFiles
<1>1. IInv /\ [Next]_vars => [\A s \in SarIds : files'[s] # files[s] =>
          \E w \in Workers :
              /\ work[w].pc = "put" /\ work[w].msg.sar = s
              /\ steady[w] \subseteq files'[s].items
              /\ \A i \in files'[s].items : i[1] = files'[s].user]_vars
    BY FilesComplete
<1>2. QED
    BY <1>1, Invariance, PTL DEF Spec, CompleteFiles

-----------------------------------------------------------------------------
(* Erasures are final.                                                     *)

LEMMA GoneStays ==
    ASSUME IInv, [Next]_vars, NEW u \in Users, Gone(u)
    PROVE  Gone(u)'
<1> USE DEF Gone, ItemsOf, tables, dataVars, identityVars, api, fileVars, bucket, signVars
<1>1. CASE UNCHANGED vars
    BY <1>1 DEF vars
<1>0. CASE (\E i \in lagging : ItemSettles(i)) \/ \E row \in laggingRows : RowSettles(row)
    BY <1>0 DEF ItemSettles, RowSettles
<1>2. CASE Beside
    <2>1. ASSUME NEW h \in Handlers, NEW op \in {"post", "link"}, NEW n \in Names, NEW x \in Users,
                 HandlerResolves(h, op, n, x)
          PROVE  Gone(u)'
        <3>1. \E view \in IdentityViews : Resolves(view, n, x)
            BY <2>1 DEF HandlerResolves
        <3>2. <<n, x>> \in identity \cup laggingRows
            BY <3>1, ResolvedRow
        <3>3. QED
            BY <2>1, <3>2 DEF IInv, TypeOK, HandlerResolves
    <2>2. ASSUME NEW h \in Handlers, (\E p \in Paths : PostRecord(h, p)) \/ \E n \in Names : LinkIdentity(h, n)
          PROVE  Gone(u)'
        BY <2>2 DEF IInv, TypeOK, PostRecord, LinkIdentity, PutItem, PutRow, LaggingAfter, Idle, HandlerStates
    <2>3. CASE (\E i \in table : ItemGoes(i)) \/ \E row \in identity : RowGoes(row)
        BY <2>3 DEF ItemGoes, RowGoes, RemoveItem, RemoveRow, LaggingAfter
    <2>4. QED
        BY <1>2, <2>1, <2>2, <2>3 DEF Beside
<1>3. CASE \E s \in SarIds, n \in Names : StartSar(s, n)
    BY <1>3 DEF StartSar
<1>4. ASSUME NEW w \in Workers,
             (\E m \in sarQueue : Receive(w, m)) \/ CreateStep(w) \/ CreateThrows(w) \/ CreateFails(w)
      PROVE  Gone(u)'
    <2>1. CASE \E m \in sarQueue : Receive(w, m)
        <3>1. ASSUME NEW m \in sarQueue, NEW x \in Users, ResolveSubject(w, m, x)
              PROVE  Gone(u)'
            <4>1. \E view \in IdentityViews : Resolves(view, m.name, x)
                BY <3>1 DEF ResolveSubject
            <4>2. <<m.name, x>> \in identity \cup laggingRows
                BY <4>1, ResolvedRow
            <4>3. QED
                BY <3>1, <4>2 DEF IInv, TypeOK, ResolveSubject
        <3>2. ASSUME NEW m \in sarQueue, NoSubject(w, m)
              PROVE  Gone(u)'
            BY <3>2 DEF IInv, TypeOK, NoSubject
        <3>3. QED
            BY <2>1, <3>1, <3>2 DEF Receive
    <2>2. CASE ReadPage(w)
        <3>1. work[w] \in ReadRuns /\ work[w].pc = "read"
            BY <2>2, ReaderType DEF ReadPage, IInv
        <3>2. /\ \A x \in Workers : x # w => work'[x] = work[x]
              /\ work'[w].user = work[w].user
            BY <2>2, PageReadSubject DEF IInv
        <3>3. QED
            BY <2>2, <3>1, <3>2 DEF ReadPage, IInv, TypeOK
    <2>3. CASE PutFile(w)
        BY <2>3 DEF PutFile, IInv, TypeOK, CreateStates, ReadRuns, Idle, Requests
    <2>4. CASE SendToDlq(w) \/ AckCreate(w) \/ CreateThrows(w) \/ CreateFails(w)
        BY <2>4 DEF SendToDlq, AckCreate, CreateThrows, CreateFails, IInv, TypeOK, CreateStates, ReadRuns, Idle
    <2>5. QED
        BY <1>4, <2>1, <2>2, <2>3, <2>4 DEF CreateStep
<1>5. ASSUME NEW v \in Signers,
             (\E e \in events : TakeEvent(v, e)) \/ SaveRecord(v) \/ SignFails(v)
      PROVE  Gone(u)'
    BY <1>5 DEF IInv, TypeOK, TakeEvent, SaveRecord, PutItem, SignFails, SignStates, Idle, Events
<1>6. QED
    BY <1>0, <1>1, <1>2, <1>3, <1>4, <1>5 DEF Next

(* Nothing of a user comes back once no copy of the identity table has a   *)
(* row of his and nothing that met him is under way.                       *)
THEOREM ErasureIsFinal == Spec => GoneStaysGone
<1>1. IInv /\ [Next]_vars => [\A u \in Users : Gone(u) => Gone(u)']_vars
    BY GoneStays
<1>2. QED
    BY <1>1, Invariance, PTL DEF Spec, GoneStaysGone

-----------------------------------------------------------------------------
(* The pipeline implements its queue.                                      *)

LEMMA StepRefines ==
    ASSUME IInv, [Next]_vars
    PROVE  [Answers!Next]_(Answers!vars)
<1> USE DEF tables, dataVars, identityVars, api, fileVars, bucket, signVars, Queued, Answered
<1>1. CASE \/ Beside \/ UNCHANGED vars
           \/ (\E i \in lagging : ItemSettles(i)) \/ \E row \in laggingRows : RowSettles(row)
           \/ \E v \in Signers : (\E e \in events : TakeEvent(v, e)) \/ SaveRecord(v) \/ SignFails(v)
    BY <1>1 DEF Beside, HandlerResolves, PostRecord, LinkIdentity, ItemGoes, RowGoes,
        TakeEvent, SaveRecord, SignFails, ItemSettles, RowSettles, vars, Answers!vars
<1>2. ASSUME NEW s \in SarIds, NEW n \in Names, StartSar(s, n)
      PROVE  Answers!Accept(s)
    <2> DEFINE request == [sar |-> s, name |-> n]
    <2>1. sarQueue' = sarQueue \cup {request} /\ request.sar = s /\ UNCHANGED <<files, dlq>>
        BY <1>2 DEF StartSar
    <2> HIDE DEF request
    <2>4. Queued' = Queued \cup {s} /\ UNCHANGED Answered
        BY <2>1
    <2>2. s \notin Queued \cup Answered
        <3>1. asked[s] = Nobody
            BY <1>2 DEF StartSar
        <3>2. \A m \in sarQueue \cup dlq : m.sar # s
            BY <3>1, NamesAreNames DEF IInv, TypeOK, RequestsWereMade, Requests, Nobody
        <3>3. files[s] = NoFile
            BY <3>1 DEF IInv, UsersWereOwners
        <3>4. QED
            BY <3>2, <3>3
    <2>3. QED
        BY <2>4, <2>2 DEF Answers!Accept
<1>3. ASSUME NEW w \in Workers, ReadPage(w) \/ CreateThrows(w) \/ CreateFails(w)
                                   \/ \E m \in sarQueue : Receive(w, m)
      PROVE  UNCHANGED Answers!vars
    BY <1>3 DEF ReadPage, CreateThrows, CreateFails, Receive, ResolveSubject, NoSubject, Answers!vars
<1>4. ASSUME NEW w \in Workers, PutFile(w) \/ SendToDlq(w)
      PROVE  [Answers!Next]_(Answers!vars)
    <2> DEFINE s == work[w].msg.sar
    <2>1. /\ work[w] # Idle /\ work[w].pc # "ack" /\ work[w].msg \in Requests
        BY <1>4 DEF PutFile, SendToDlq, IInv, TypeOK, CreateStates, ReadRuns, Idle
    <2>2. s \in SarIds /\ s \in Queued \cup Answered
        BY <2>1 DEF IInv, WorkIsAccounted, Busy, Requests
    <2>3. Answered' = Answered \cup {s} /\ UNCHANGED Queued
        <3>1. CASE PutFile(w)
            <4>1. work[w].user \in Users
                BY <2>1, <3>1 DEF PutFile, IInv, TypeOK, CreateStates, ReadRuns, Idle
            <4>2. files' = [files EXCEPT ![s] = [user |-> work[w].user, items |-> work[w].got]]
                BY <3>1 DEF PutFile
            <4>3. [user |-> work[w].user, items |-> work[w].got] # NoFile
                BY <4>1, OrderedKeys DEF NoFile
            <4>4. {x \in SarIds : files'[x] # NoFile} = {x \in SarIds : files[x] # NoFile} \cup {s}
                BY <2>2, <4>2, <4>3 DEF IInv, TypeOK
            <4>5. QED
                BY <3>1, <4>4 DEF PutFile
        <3>2. CASE SendToDlq(w)
            BY <3>2 DEF SendToDlq
        <3>3. QED
            BY <1>4, <3>1, <3>2
    <2>4. CASE s \in Answered
        BY <2>3, <2>4 DEF Answers!vars
    <2>5. CASE s \in Queued
        BY <2>2, <2>3, <2>5 DEF Answers!Next, Answers!Work
    <2>6. QED
        BY <2>2, <2>4, <2>5
<1>5. ASSUME NEW w \in Workers, AckCreate(w)
      PROVE  [Answers!Next]_(Answers!vars)
    <2> DEFINE m == work[w].msg
    <2>1. m \in Requests /\ m.sar \in Answered
        BY <1>5 DEF AckCreate, IInv, TypeOK, CreateStates, ReadRuns, Idle, WorkIsAccounted, Busy
    <2>2. UNCHANGED Answered /\ sarQueue' = sarQueue \ {m}
        BY <1>5 DEF AckCreate
    <2>3. \A q \in sarQueue : q.sar = m.sar => q = m
        BY <1>5, <2>1 DEF AckCreate, IInv, TypeOK, RequestsWereMade, Busy, Idle, Requests
    <2>4. CASE m \in sarQueue
        BY <2>1, <2>2, <2>3, <2>4 DEF Answers!Next, Answers!Remove, Requests
    <2>5. CASE m \notin sarQueue
        BY <2>2, <2>5 DEF Answers!vars
    <2>6. QED
        BY <2>4, <2>5
<1>6. QED
    BY <1>1, <1>2, <1>3, <1>4, <1>5 DEF Next, CreateStep, Answers!Next

(* Every step of the pipeline is a step of the queue's promise, or none.   *)
THEOREM PipelineAnswers == Spec => ImplementsAtLeastOnce
<1>1. Init => Answers!Init
    BY DEF Init, Answers!Init, Queued, Answered
<1>2. IInv /\ [Next]_vars => [Answers!Next]_(Answers!vars)
    BY StepRefines
<1>3. QED
    BY <1>1, <1>2, Invariance, PTL DEF Spec, ImplementsAtLeastOnce, Answers!Spec

-----------------------------------------------------------------------------
(* What of RecordsFollow and RequestsSettle needs no fairness.             *)

(* A written file has had its SAR record, or its event was given up, or is *)
(* still to come, or is being handled.                                     *)
RecordsPending ==
    \A s \in SarIds : files[s] # NoFile =>
        \/ s \in signed \cup givenUp
        \/ \E e \in events : e.sar = s
        \/ \E v \in Signers : signer[v] # Idle /\ signer[v].event.sar = s

LEMMA SignerHolds ==
    ASSUME TypeOK, NEW v \in Signers, signer[v] # Idle
    PROVE  signer[v].event \in Events /\ signer[v].pc = "save"
    BY DEF TypeOK, SignStates

LEMMA SarPending ==
    ASSUME TypeOK, RecordsPending, [Next]_vars, NEW s \in SarIds, files[s] # NoFile
    PROVE  \/ s \in signed' \cup givenUp'
           \/ \E e \in events' : e.sar = s
           \/ \E v \in Signers : signer'[v] # Idle /\ signer'[v].event.sar = s
<1> DEFINE Goal ==
        \/ s \in signed' \cup givenUp'
        \/ \E e \in events' : e.sar = s
        \/ \E v \in Signers : signer'[v] # Idle /\ signer'[v].event.sar = s
<1>0. \/ s \in signed \cup givenUp
      \/ \E e \in events : e.sar = s
      \/ \E v \in Signers : signer[v] # Idle /\ signer[v].event.sar = s
    BY DEF RecordsPending
<1>1. CASE UNCHANGED <<events, signVars>>
    BY <1>0, <1>1 DEF signVars
<1>2. ASSUME NEW w \in Workers, PutFile(w)
      PROVE  Goal
    BY <1>0, <1>2 DEF PutFile, signVars
<1>3. ASSUME NEW v \in Signers, NEW e \in events, TakeEvent(v, e)
      PROVE  Goal
    <2>1. signer'[v] # Idle /\ signer'[v].event = e
        BY <1>3 DEF TakeEvent, TypeOK, Idle
    <2>2. events' = events \ {e} /\ UNCHANGED <<signed, givenUp>>
        BY <1>3 DEF TakeEvent
    <2>3. \A x \in Signers : signer[x] # Idle => signer'[x] = signer[x]
        BY <1>3 DEF TakeEvent, TypeOK
    <2>4. QED
        BY <1>0, <2>1, <2>2, <2>3
<1>4. ASSUME NEW v \in Signers, SaveRecord(v)
      PROVE  Goal
    <2>1. signed' = signed \cup {signer[v].event.sar} /\ UNCHANGED <<events, givenUp>>
        BY <1>4 DEF SaveRecord, bucket
    <2>2. \A x \in Signers \ {v} : signer'[x] = signer[x]
        BY <1>4 DEF SaveRecord, TypeOK
    <2>3. QED
        BY <1>0, <2>1, <2>2
<1>5. ASSUME NEW v \in Signers, SignFails(v)
      PROVE  Goal
    <2> DEFINE e == signer[v].event
               again == [e EXCEPT !.tries = @ + 1]
    <2>1. e \in Events
        BY <1>5, SignerHolds DEF SignFails
    <2>2. again.sar = e.sar
        BY <2>1 DEF Events
    <2>3. \/ events' = events \cup {again} /\ givenUp' = givenUp
          \/ events' = events /\ givenUp' = givenUp \cup {e.sar}
        BY <1>5 DEF SignFails
    <2>4. signed' = signed /\ \A x \in Signers \ {v} : signer'[x] = signer[x]
        BY <1>5 DEF SignFails, TypeOK
    <2> HIDE DEF again
    <2>5. CASE \E x \in Signers \ {v} : signer[x] # Idle /\ signer[x].event.sar = s
        BY <2>4, <2>5
    <2>6. CASE s \in signed \cup givenUp \/ \E d \in events : d.sar = s
        BY <2>3, <2>4, <2>6
    <2>7. CASE e.sar = s
        BY <2>2, <2>3, <2>7
    <2>8. QED
        BY <1>0, <2>5, <2>6, <2>7
<1>6. \/ UNCHANGED <<events, signVars>>
      \/ \E w \in Workers : PutFile(w)
      \/ \E v \in Signers : (\E e \in events : TakeEvent(v, e)) \/ SaveRecord(v) \/ SignFails(v)
    BY DEF Next, Beside, HandlerResolves, PostRecord, LinkIdentity, ItemGoes, RowGoes, StartSar, Receive,
           ResolveSubject, NoSubject, CreateStep, ReadPage, SendToDlq, AckCreate, CreateThrows,
           CreateFails, ItemSettles, RowSettles, bucket, vars
<1>7. QED
    BY <1>1, <1>2, <1>3, <1>4, <1>5, <1>6

LEMMA NextRecordsPending == TypeOK /\ RecordsPending /\ [Next]_vars => RecordsPending'
<1> SUFFICES ASSUME TypeOK, RecordsPending, [Next]_vars, NEW s \in SarIds, files'[s] # NoFile
             PROVE  \/ s \in signed' \cup givenUp'
                    \/ \E e \in events' : e.sar = s
                    \/ \E v \in Signers : signer'[v] # Idle /\ signer'[v].event.sar = s
    BY DEF RecordsPending
<1>1. CASE files[s] # NoFile
    BY <1>1, SarPending
<1>2. CASE files[s] = NoFile
    <2>1. PICK w \in Workers : PutFile(w)
        BY <1>2 DEF Next, Beside, HandlerResolves, PostRecord, LinkIdentity, ItemGoes, RowGoes, StartSar,
               Receive, ResolveSubject, NoSubject, CreateStep, ReadPage, SendToDlq, AckCreate,
               CreateThrows, CreateFails, TakeEvent, SaveRecord, SignFails, ItemSettles, RowSettles, bucket, vars
    <2>2. s = work[w].msg.sar
        BY <1>2, <2>1 DEF PutFile, TypeOK
    <2>3. [id |-> puts', sar |-> s, tries |-> 1] \in events'
        BY <2>1, <2>2 DEF PutFile
    <2>4. QED
        BY <2>3
<1>3. QED
    BY <1>1, <1>2

(* No SAR record is lost: once a file is written, its event waits or is    *)
(* being handled until the record is put or the last attempt has failed,   *)
(* whatever attempts fail and however often the file is written again.     *)
THEOREM RecordsAreOwed == Spec => []RecordsPending
<1>1. Init => RecordsPending
    BY DEF Init, RecordsPending
<1>2. TypeOK /\ RecordsPending /\ [Next]_vars => RecordsPending'
    BY NextRecordsPending
<1>3. QED
    BY <1>1, <1>2, TypeCorrect, PTL DEF Spec

-----------------------------------------------------------------------------
(* An invocation of createSarFileLambda reads on, writes or dead-letters,  *)
(* and acknowledges, for one message and one subject; it keeps all that it *)
(* has read until the file is written.                                     *)
CreateGoesOn(s, t) ==
    \/ t = s \/ t = Idle
    \/ /\ t.msg = s.msg
       /\ \/ /\ s.pc = "read" /\ t.pc \in {"read", "put"}
             /\ t.user = s.user /\ s.got \subseteq t.got
             /\ t.pc = "read" => t.cursor > s.cursor
          \/ s.pc = "put" /\ t.pc = "ack"
          \/ s.pc \in {"read", "put"} /\ t.pc = "dlq"
          \/ s.pc = "dlq" /\ t.pc = "ack"

CreatesAdvance ==
    [][\A w \in Workers : work[w] # Idle => CreateGoesOn(work[w], work'[w])]_vars

LEMMA CreateStepGoesOn ==
    ASSUME TypeOK, NEW w \in Workers, CreateStep(w) \/ CreateThrows(w) \/ CreateFails(w)
    PROVE  /\ \A x \in Workers \ {w} : work'[x] = work[x]
           /\ CreateGoesOn(work[w], work'[w])
<1>1. CASE ReadPage(w)
    <2>1. work[w] \in ReadRuns /\ work[w].pc = "read"
        BY <1>1, ReaderType DEF ReadPage
    <2>2. QED
        BY <1>1, <2>1, PageReadSubject DEF CreateGoesOn, ReadRuns
<1>2. CASE PutFile(w) \/ CreateThrows(w)
    BY <1>2 DEF PutFile, CreateThrows, TypeOK, CreateGoesOn
<1>3. CASE SendToDlq(w)
    <2>1. work[w] \in [pc : {"dlq", "ack"}, msg : Requests]
        BY <1>3 DEF SendToDlq, TypeOK, CreateStates, ReadRuns, Idle
    <2>2. QED
        BY <1>3, <2>1 DEF SendToDlq, TypeOK, CreateGoesOn
<1>4. CASE AckCreate(w) \/ CreateFails(w)
    BY <1>4 DEF AckCreate, CreateFails, TypeOK, CreateGoesOn
<1>5. QED
    BY <1>1, <1>2, <1>3, <1>4 DEF CreateStep

(* createSarFileLambda's loop over the pages ends, whatever is written and *)
(* deleted while it reads: each page begins after the last, and nobody     *)
(* sends an invocation back or takes from it what it has read.             *)
THEOREM CreatesGoOn == Spec => CreatesAdvance
<1>1. ASSUME TypeOK, NEW w \in Workers, NEW m \in sarQueue, Receive(w, m)
      PROVE  \A x \in Workers : work[x] # Idle => work'[x] = work[x]
    BY <1>1 DEF Receive, NoSubject, ResolveSubject, TypeOK
<1>2. \/ UNCHANGED work
      \/ \E w \in Workers : \/ \E m \in sarQueue : Receive(w, m)
                            \/ CreateStep(w) \/ CreateThrows(w) \/ CreateFails(w)
      \/ ~[Next]_vars
    BY DEF Next, Beside, HandlerResolves, PostRecord, LinkIdentity, ItemGoes, RowGoes, StartSar,
           TakeEvent, SaveRecord, SignFails, ItemSettles, RowSettles, fileVars, vars
<1>3. TypeOK /\ [Next]_vars =>
        [\A w \in Workers : work[w] # Idle => CreateGoesOn(work[w], work'[w])]_vars
    <2> SUFFICES ASSUME TypeOK, [Next]_vars, NEW x \in Workers, work[x] # Idle
                 PROVE  CreateGoesOn(work[x], work'[x])
        OBVIOUS
    <2>1. ASSUME NEW w \in Workers, CreateStep(w) \/ CreateThrows(w) \/ CreateFails(w)
          PROVE  CreateGoesOn(work[x], work'[x])
        <3>1. CASE x = w
            BY <2>1, <3>1, CreateStepGoesOn
        <3>2. CASE x # w
            BY <2>1, <3>2, CreateStepGoesOn DEF CreateGoesOn
        <3>3. QED
            BY <3>1, <3>2
    <2>2. QED
        BY <1>1, <1>2, <2>1 DEF CreateGoesOn
<1>4. QED
    BY <1>3, TypeCorrect, PTL DEF Spec, CreatesAdvance

=============================================================================

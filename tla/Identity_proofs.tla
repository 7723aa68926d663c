--------------------------- MODULE Identity_proofs ---------------------------
(***************************************************************************)
(* A name has one user unless something escaped its creation or it was     *)
(* linked to a second app; a request for a name in order is answered; the  *)
(* purge is complete when it reports no failure; and statuses are those    *)
(* that the routes declare.                                                *)
(***************************************************************************)
EXTENDS Identity, NaturalsInduction, WellFoundedInduction, TLAPS

Kept == IInv' /\ SettledAnswers' /\ AnswersDeclared'

\* A row is never added in place of another user's row of the same name.
Gentle ==
    \A q \in rows' : q \in rows \/
        \A p \in rows : p.name = q.name /\ p.user # q.user => p \in rows'

-----------------------------------------------------------------------------
(* Types.                                                                  *)

LEMMA AnswerType ==
    ASSUME TypeOK, NEW h \in Handlers, NEW call \in Calls,
           NEW status \in {200, 204, 400, 404, 500}, NEW items \in SUBSET Rows,
           Answer(h, call, status, items)
    PROVE  answer' \in Answers /\ worker' \in [Handlers -> Running \cup {Idle}]
    BY DEF Answer, Answers, TypeOK

LEMMA DeclaredStatuses ==
    /\ routes["createUser"].statuses = {204, 400, 500}
    /\ routes["createIdentity"].statuses = {200, 400, 500}
    /\ \A op \in {"exchangeIdentity", "readIdentity", "deleteIdentity", "getAllLinkedService"} :
        routes[op].statuses = {200, 400, 404, 500}
<1>1. /\ routes["createUser"] = createUserRoute
      /\ routes["createIdentity"] = createIdentityRoute
      /\ routes["exchangeIdentity"] = exchangeIdentityRoute
      /\ routes["readIdentity"] = readIdentityRoute
      /\ routes["deleteIdentity"] = deleteIdentityRoute
      /\ routes["getAllLinkedService"] = getAllLinkedServiceRoute
    BY DEF routes
<1>2. createUserRoute.statuses = {204, 400, 500}
    BY DEF Route, IdentityPath, createUserRoute
<1>3. createIdentityRoute.statuses = {200, 400, 500}
    BY DEF Route, IdentityPath, createIdentityRoute
<1>4. exchangeIdentityRoute.statuses = {200, 400, 404, 500}
    BY DEF Route, IdentityPath, exchangeIdentityRoute
<1>5. readIdentityRoute.statuses = {200, 400, 404, 500}
    BY DEF Route, IdentityPath, readIdentityRoute
<1>6. deleteIdentityRoute.statuses = {200, 400, 404, 500}
    BY DEF Route, IdentityPath, deleteIdentityRoute
<1>7. getAllLinkedServiceRoute.statuses = {200, 400, 404, 500}
    BY DEF Route, IdentityPath, getAllLinkedServiceRoute
<1>8. QED
    BY <1>1, <1>2, <1>3, <1>4, <1>5, <1>6, <1>7

LEMMA Statuses ==
    \A op : \A e \in ValidationErrors(op) \cup
                     {"IdentityRecordNotFoundError", "IdentityLinkingInvalidIdentitesError", "other"} :
        statusOf(e) \in {400, 404, 500}
    BY DEF ValidationErrors, statusOf

LEMMA ThrowType ==
    ASSUME TypeOK, NEW h \in Handlers, NEW call \in Calls, NEW e,
           statusOf(e) \in {400, 404, 500}, Throw(h, call, e)
    PROVE  answer' \in Answers /\ worker' \in [Handlers -> Running \cup {Idle}]
    BY AnswerType DEF Throw

LEMMA ContinueType ==
    ASSUME TypeOK, NEW h \in Handlers, NEW call \in Calls, NEW u \in Users,
           NEW pc \in {"putUser", "putLink", "queryLinked", "queryBySk", "delete"},
           Continue(h, call, pc, u)
    PROVE  answer' = NoAnswer /\ worker' \in [Handlers -> Running \cup {Idle}]
<1>1. [pc |-> pc, call |-> call, user |-> u] \in Running
    BY DEF Running
<1>2. QED
    BY <1>1 DEF Continue, TypeOK

LEMMA CallType ==
    ASSUME TypeOK, NEW h \in Handlers, worker[h] # Idle
    PROVE  worker[h].call \in Calls /\ worker[h].user \in Users
    BY DEF TypeOK, Running

LEMMA BeginType ==
    ASSUME TypeOK, NEW h, NEW call, Begin(h, call, call.op)
    PROVE  requests' \in 0..MaxRequests
    BY Bounds DEF Begin, TypeOK

\* What the reads return is made of rows.
LEMMA ReadType ==
    ASSUME TypeOK, NEW t \in Copies
    PROVE  /\ t \in SUBSET Rows
           /\ \A name : RowsOf(t, name) \in SUBSET Rows
           /\ \A name : findByPk(t, name) \in SUBSET Rows
           /\ \A name : getByServiceId(t, name) \in SUBSET Rows
           /\ \A name : \A r \in getByServiceId(t, name) : r.user \in Users
           /\ \A u : queryBySk(t, u) \in SUBSET Rows
           /\ \A u, s : queryLinked(t, u, s) \in SUBSET Rows
    BY DEF TypeOK, Copies, RowsOf, findByPk, getByServiceId, queryBySk, queryLinked, Rows

LEMMA PutType ==
    ASSUME TypeOK, NEW h \in Handlers, NEW row \in Rows, Put(h, row)
    PROVE  /\ rows' \in SUBSET Rows
           /\ excused' \in [Handlers -> BOOLEAN]
           /\ targets' \in SUBSET Rows
    BY DEF Put, TypeOK

-----------------------------------------------------------------------------
(* Settled requests.                                                       *)

LEMMA WatchStep ==
    ASSUME Watch, NEW k \in Handlers, settled'[k]
    PROVE  /\ worker'[k] # Idle
           /\ worker[k] # Idle => settled[k]
           /\ InOrder(rows, replica, now, worker'[k].call)
           /\ InOrder(rows', replica', now', worker'[k].call)
    BY DEF Watch

LEMMA WatchType ==
    ASSUME Watch
    PROVE  settled' \in [Handlers -> BOOLEAN]
    BY DEF Watch

\* Nobody else becomes the owner of a name that stays in order.
LEMMA OwnerStays ==
    ASSUME IInv, Watch, Gentle, NEW k \in Handlers, settled'[k], worker'[k] = worker[k]
    PROVE  \A q \in RowsOf(rows', Subject(worker'[k].call)) : q.user = worker'[k].user
<1>1. settled[k] /\ InOrder(rows, replica, now, worker[k].call)
                 /\ InOrder(rows', replica', now', worker[k].call)
    BY WatchStep
<1> DEFINE S == Subject(worker[k].call)
<1>2. PICK r \in rows : RowsOf(rows, S) = {r}
    BY <1>1 DEF InOrder
<1>3. PICK q \in rows' : RowsOf(rows', S) = {q}
    BY <1>1 DEF InOrder
<1>4. r.user = worker[k].user
    BY <1>1, <1>2 DEF IInv, SettledHasOwner
<1>5. r.name = S /\ q.name = S
    BY <1>2, <1>3 DEF RowsOf
<1>6. q.user = r.user
    BY <1>2, <1>3, <1>5 DEF Gentle, RowsOf
<1>7. QED
    BY <1>3, <1>4, <1>6

LEMMA Resolved ==
    ASSUME TypeOK, NEW call, NEW t \in Copies, InOrder(rows, replica, now, call)
    PROVE  \E r \in rows : /\ RowsOf(rows, Subject(call)) = {r}
                           /\ findByPk(t, Subject(call)) = {r}
<1>1. PICK r \in rows : /\ RowsOf(rows, Subject(call)) = {r}
                        /\ RowsOf(replica, Subject(call)) = {r}
                        /\ ~ExpiredAt(r, now)
    BY DEF InOrder
<1>2. r.user <= r.user
  <2>1. r.user \in Users
    BY DEF TypeOK, Rows
  <2>2. r.user \in Nat
    BY <2>1, OrderedKeys
  <2>3. QED
    BY <2>2
<1>3. RowsOf(t, Subject(call)) = {r}
    BY <1>1 DEF Copies
<1>4. QED
    BY <1>1, <1>2, <1>3 DEF findByPk

LEMMA ResolvedCall ==
    ASSUME TypeOK, NEW call \in Calls, NEW t \in Copies, InOrder(rows, replica, now, call),
           call.op \notin {"createUser", "createIdentity"}
    PROVE  \E r \in rows : /\ RowsOf(rows, Subject(call)) = {r}
                           /\ getByServiceId(t, call.name) = {r}
    BY Resolved DEF getByServiceId, Subject

LEMMA ResolvedApp ==
    ASSUME TypeOK, NEW call \in Calls, NEW t \in Copies, InOrder(rows, replica, now, call),
           call.op \in {"createUser", "createIdentity"}
    PROVE  \E r \in rows : /\ RowsOf(rows, Subject(call)) = {r}
                           /\ findByPk(t, <<"app", call.appId>>) = {r}
                           /\ getByServiceId(t, <<"app", call.appId>>) = {r}
    BY Resolved, LowerCase DEF getByServiceId, Subject

LEMMA Least ==
    ASSUME NEW L \in SUBSET Nat, L # {}
    PROVE  \E i \in L : \A j \in L : i <= j
<1> DEFINE before == OpToRel(<, Nat)
<1>1. IsWellFoundedOn(before, Nat)
    BY NatLessThanWellFounded
<1>2. \A i, j \in Nat : i < j => <<i, j>> \in before
    BY DEF OpToRel
<1> HIDE DEF before
<1>3. PICK i \in L : \A j \in L : ~(<<j, i>> \in before)
    BY <1>1, WFMin
<1>4. ASSUME NEW j \in L
      PROVE  i <= j
  <2>1. i \in Nat /\ j \in Nat /\ ~(j < i)
    BY <1>2, <1>3
  <2>2. QED
    BY <2>1
<1>5. QED
    BY <1>4

\* Among the identities linked under a service there is a first.
LEMMA LinkedIsFound ==
    ASSUME TypeOK, NEW t \in Copies, NEW u \in Users, NEW s \in ServiceNames,
           NEW q \in rows \cap replica, q.user = u, q.name[1] = s
    PROVE  queryLinked(t, u, s) # {}
<1> DEFINE linked == {r \in queryBySk(t, u) : r.name[1] = s}
           L == {r.name[2] : r \in linked}
<1>1. q \in linked
    BY DEF queryBySk, Copies
<1>2. \A r \in linked : r.name[2] \in Ids
    BY ReadType DEF Rows, Names
<1>3. L \subseteq Nat /\ L # {}
    BY <1>1, <1>2, OrderedKeys
<1>4. \E i \in L : \A j \in L : i <= j
  <2> HIDE DEF L
  <2> QED
    BY <1>3, Least
<1>5. QED
    BY <1>4 DEF queryLinked

\* A check that overlooked nothing and found nothing is right.
LEMMA NothingThere ==
    ASSUME TypeOK, NEW t \in Copies, NEW name, findByPk(t, name) = {}, ~Overlooked(t, name)
    PROVE  RowsOf(rows, name) = {}
<1> DEFINE L == {r.user : r \in RowsOf(t, name)}
<1>1. RowsOf(rows, name) = RowsOf(t, name)
    BY DEF Overlooked
<1>2. L \subseteq Nat
  <2>1. L \subseteq Users
    BY ReadType DEF Rows
  <2>2. QED
    BY <2>1, OrderedKeys
<1>3. ASSUME RowsOf(t, name) # {}
      PROVE  FALSE
  <2>1. L # {}
    BY <1>3
  <2>2. \E i \in L : \A j \in L : i <= j
    <3> HIDE DEF L
    <3> QED
      BY <1>2, <2>1, Least
  <2>3. PICK r \in RowsOf(t, name) : \A q \in RowsOf(t, name) : r.user <= q.user
    BY <2>2
  <2>4. r \in findByPk(t, name)
    BY <2>3 DEF findByPk, Overlooked
  <2>5. QED
    BY <2>4
<1>4. QED
    BY <1>1, <1>3

-----------------------------------------------------------------------------
(* Each action keeps the invariant and answers as it should.               *)

LEMMA EndsEarlyKeeps ==
    ASSUME IInv, Watch, NEW h \in Handlers, NEW call \in Calls, EndsEarly(h, call)
    PROVE  Kept
<1> USE DEF IInv, EndsEarly, Begin, Throw, Answer, tables, api, purging
<1>1. TypeOK'
    <2> HIDE DEF Begin, Answer, Throw, Continue
    <2>1. requests' \in 0..MaxRequests
        BY BeginType DEF Begin
    <2>2. worker' \in [Handlers -> Running \cup {Idle}] /\ answer' \in Answers \cup {NoAnswer}
        BY Statuses, ThrowType
    <2>3. QED
        BY <2>1, <2>2, WatchType DEF TypeOK
<1>2. StepsMatchCalls'
    BY CallsAreCalls DEF TypeOK, Running, Idle, StepsMatchCalls, AllCalls, CreateUserCalls, CreateIdentityCalls, LookupCalls, ExchangeCalls
<1>3. OneUserPerName'
    BY DEF TypeOK, Running, Rows, Names, Key, OneUserPerName, UnexcusedIsFirst, RowsOf
<1>4. UnexcusedIsFirst'
    BY DEF TypeOK, Running, Idle, UnexcusedIsFirst, RowsOf, Key
<1>5. TargetsAccounted'
    BY DEF TypeOK, Purging, Purged, Idle, TargetsAccounted, Key, DvlaNames, RowsOf, Copies
<1>6. SettledHasOwner'
    <2>1. Gentle
        BY DEF Gentle, TypeOK, Rows, Key
    <2>2. \A k \in Handlers : k # h => worker'[k] = worker[k]
        BY DEF TypeOK
    <2>3. ASSUME settled'[h]
          PROVE  \A q \in RowsOf(rows', Subject(worker'[h].call)) : q.user = worker'[h].user
        <3>1. worker'[h] = Idle
            BY DEF TypeOK
        <3>2. QED
            BY <2>3, <3>1, WatchStep
    <2>4. ASSUME NEW k \in Handlers, settled'[k]
          PROVE  /\ worker'[k] # Idle
                 /\ InOrder(rows', replica', now', worker'[k].call)
                 /\ \A q \in RowsOf(rows', Subject(worker'[k].call)) : q.user = worker'[k].user
        BY <2>1, <2>2, <2>3, <2>4, WatchStep, OwnerStays
    <2>5. QED
        BY <2>4 DEF SettledHasOwner
<1>7. SettledAnswers'
    BY DEF SettledAnswers, statusOf, ValidationErrors
<1>8. AnswersDeclared'
    BY CallsAreCalls, DeclaredStatuses DEF TypeOK, Running, Idle, NoAnswer, StepsMatchCalls, AnswersDeclared,
           AllCalls, CreateUserCalls, CreateIdentityCalls, LookupCalls, ExchangeCalls,
           statusOf, ValidationErrors
<1>9. QED
    BY <1>1, <1>2, <1>3, <1>4, <1>5, <1>6, <1>7, <1>8 DEF Kept

LEMMA StorageFailsKeeps ==
    ASSUME IInv, Watch, NEW h \in Handlers, StorageFails(h)
    PROVE  Kept
<1> USE DEF IInv, StorageFails, Throw, Answer, tables, api, purging
<1>1. TypeOK'
    <2> HIDE DEF Answer, Throw, Put
    <2>1. worker[h].call \in Calls /\ worker[h].user \in Users
        BY CallType DEF Idle
    <2>2. worker' \in [Handlers -> Running \cup {Idle}] /\ answer' \in Answers
        BY <2>1, Statuses, ThrowType
    <2>3. QED
        BY <2>1, <2>2, WatchType DEF TypeOK
<1>2. StepsMatchCalls'
    BY CallsAreCalls DEF TypeOK, Running, Idle, StepsMatchCalls, AllCalls, CreateUserCalls, CreateIdentityCalls, LookupCalls, ExchangeCalls
<1>3. OneUserPerName'
    BY DEF TypeOK, Running, Rows, Names, Key, OneUserPerName, UnexcusedIsFirst, RowsOf
<1>4. UnexcusedIsFirst'
    BY DEF TypeOK, Running, Idle, UnexcusedIsFirst, RowsOf, Key
<1>5. TargetsAccounted'
    BY DEF TypeOK, Purging, Purged, Idle, TargetsAccounted, Key, DvlaNames, RowsOf, Copies
<1>6. SettledHasOwner'
    <2>1. Gentle
        BY DEF Gentle, TypeOK, Rows, Key
    <2>2. \A k \in Handlers : k # h => worker'[k] = worker[k]
        BY DEF TypeOK
    <2>3. ASSUME settled'[h]
          PROVE  \A q \in RowsOf(rows', Subject(worker'[h].call)) : q.user = worker'[h].user
        <3>1. worker'[h] = Idle
            BY DEF TypeOK
        <3>2. QED
            BY <2>3, <3>1, WatchStep
    <2>4. ASSUME NEW k \in Handlers, settled'[k]
          PROVE  /\ worker'[k] # Idle
                 /\ InOrder(rows', replica', now', worker'[k].call)
                 /\ \A q \in RowsOf(rows', Subject(worker'[k].call)) : q.user = worker'[k].user
        BY <2>1, <2>2, <2>3, <2>4, WatchStep, OwnerStays
    <2>5. QED
        BY <2>4 DEF SettledHasOwner
<1>7. SettledAnswers'
    BY DEF SettledAnswers, statusOf
<1>8. AnswersDeclared'
    BY CallsAreCalls, DeclaredStatuses DEF TypeOK, Running, Idle, NoAnswer, StepsMatchCalls, AnswersDeclared,
           AllCalls, CreateUserCalls, CreateIdentityCalls, LookupCalls, ExchangeCalls,
           statusOf, ValidationErrors
<1>9. QED
    BY <1>1, <1>2, <1>3, <1>4, <1>5, <1>6, <1>7, <1>8 DEF Kept

LEMMA CreateUserKeeps ==
    ASSUME IInv, Watch, NEW h \in Handlers, NEW call \in Calls, NEW t \in Copies, CreateUser(h, call, t)
    PROVE  Kept
<1> USE DEF IInv, CreateUser, Begin, Answer, Continue, tables, api, purging
<1>1. TypeOK'
    <2> HIDE DEF Begin, Answer, Throw, Continue
    <2>1. requests' \in 0..MaxRequests
        BY BeginType DEF Begin
    <2>2. worker' \in [Handlers -> Running \cup {Idle}] /\ answer' \in Answers \cup {NoAnswer}
        BY AnswerType, ContinueType
    <2>3. issued' \in SUBSET Users
        BY DEF TypeOK
    <2>4. Overlooked(t, <<"app", call.appId>>) \in BOOLEAN
        BY DEF Overlooked
    <2>5. excused' \in [Handlers -> BOOLEAN]
        BY <2>4 DEF TypeOK
    <2>6. QED
        BY <2>1, <2>2, <2>3, <2>5, WatchType DEF TypeOK
<1>2. StepsMatchCalls'
    BY CallsAreCalls DEF TypeOK, Running, Idle, StepsMatchCalls, AllCalls, CreateUserCalls, CreateIdentityCalls, LookupCalls, ExchangeCalls
<1>3. OneUserPerName'
    BY DEF TypeOK, Running, Rows, Names, Key, OneUserPerName, UnexcusedIsFirst, RowsOf
<1>4. UnexcusedIsFirst'
    <2>1. \A k \in Handlers : k # h => worker'[k] = worker[k] /\ excused'[k] = excused[k]
        BY DEF TypeOK
    <2>2. ASSUME worker'[h].pc = "putUser", ~excused'[h]
          PROVE  RowsOf(rows', <<"app", worker'[h].call.appId>>) = {}
        <3>1. worker'[h].call = call /\ findByPk(t, <<"app", call.appId>>) = {}
            BY <2>2 DEF TypeOK, Idle
        <3>2. ~Overlooked(t, <<"app", call.appId>>)
            BY <2>2, <3>1 DEF TypeOK
        <3>3. QED
            BY <3>1, <3>2, NothingThere
    <2>3. QED
        BY <2>1, <2>2 DEF UnexcusedIsFirst
<1>5. TargetsAccounted'
    BY DEF TypeOK, Purging, Purged, Idle, TargetsAccounted, Key, DvlaNames, RowsOf, Copies
<1>6. SettledHasOwner'
    <2>1. Gentle
        BY DEF Gentle, TypeOK, Rows, Key
    <2>2. \A k \in Handlers : k # h => worker'[k] = worker[k]
        BY DEF TypeOK
    <2>3. ASSUME settled'[h]
          PROVE  \A q \in RowsOf(rows', Subject(worker'[h].call)) : q.user = worker'[h].user
        <3>1. worker'[h] # Idle /\ InOrder(rows, replica, now, worker'[h].call)
            BY <2>3, WatchStep
        <3>2. worker'[h].call = call /\ findByPk(t, <<"app", call.appId>>) = {}
            BY <3>1 DEF TypeOK
        <3>3. QED
            BY <3>1, <3>2, ResolvedApp
    <2>4. ASSUME NEW k \in Handlers, settled'[k]
          PROVE  /\ worker'[k] # Idle
                 /\ InOrder(rows', replica', now', worker'[k].call)
                 /\ \A q \in RowsOf(rows', Subject(worker'[k].call)) : q.user = worker'[k].user
        BY <2>1, <2>2, <2>3, <2>4, WatchStep, OwnerStays
    <2>5. QED
        BY <2>4 DEF SettledHasOwner
<1>7. SettledAnswers'
    BY DEF SettledAnswers
<1>8. AnswersDeclared'
    BY CallsAreCalls, DeclaredStatuses DEF TypeOK, Running, Idle, NoAnswer, StepsMatchCalls, AnswersDeclared,
           AllCalls, CreateUserCalls, CreateIdentityCalls, LookupCalls, ExchangeCalls,
           statusOf, ValidationErrors
<1>9. QED
    BY <1>1, <1>2, <1>3, <1>4, <1>5, <1>6, <1>7, <1>8 DEF Kept

LEMMA PutUserKeeps ==
    ASSUME IInv, Watch, NEW h \in Handlers, PutUser(h)
    PROVE  Kept
<1> USE DEF IInv, PutUser, Put, Answer, tables, api, purging
<1>1. TypeOK'
    <2> HIDE DEF Answer, Put
    <2>1. worker[h].call \in Calls /\ worker[h].user \in Users
        BY CallType DEF Idle
    <2>2. worker' \in [Handlers -> Running \cup {Idle}] /\ answer' \in Answers
        BY <2>1, AnswerType
    <2>3. [name |-> <<"app", worker[h].call.appId>>, user |-> worker[h].user, ttl |-> NoTtl] \in Rows
        BY <2>1, LowerCase DEF StepsMatchCalls, CreateUserCalls, Rows, Names
    <2>4. rows' \in SUBSET Rows /\ excused' \in [Handlers -> BOOLEAN] /\ targets' \in SUBSET Rows
        BY <2>3, PutType
    <2>5. contested' \in SUBSET Names
        BY <2>1, LowerCase DEF StepsMatchCalls, CreateUserCalls, TypeOK, Names, RowsOf, Rows
    <2>6. QED
        BY <2>2, <2>4, <2>5, WatchType DEF TypeOK
<1>2. StepsMatchCalls'
    BY CallsAreCalls DEF TypeOK, Running, Idle, StepsMatchCalls, AllCalls, CreateUserCalls, CreateIdentityCalls, LookupCalls, ExchangeCalls
<1>3. OneUserPerName'
    BY DEF TypeOK, Running, Rows, Names, Key, OneUserPerName, UnexcusedIsFirst, RowsOf
<1>4. UnexcusedIsFirst'
    BY DEF TypeOK, Running, Idle, UnexcusedIsFirst, RowsOf, Key
<1>5. TargetsAccounted'
    BY DEF TypeOK, Purging, Purged, Idle, TargetsAccounted, Key, DvlaNames, RowsOf, Copies
<1>6. SettledHasOwner'
    <2>1. Gentle
        BY DEF Gentle, TypeOK, Rows, Key
    <2>2. \A k \in Handlers : k # h => worker'[k] = worker[k]
        BY DEF TypeOK
    <2>3. ASSUME settled'[h]
          PROVE  \A q \in RowsOf(rows', Subject(worker'[h].call)) : q.user = worker'[h].user
        <3>1. worker'[h] = Idle
            BY DEF TypeOK
        <3>2. QED
            BY <2>3, <3>1, WatchStep
    <2>4. ASSUME NEW k \in Handlers, settled'[k]
          PROVE  /\ worker'[k] # Idle
                 /\ InOrder(rows', replica', now', worker'[k].call)
                 /\ \A q \in RowsOf(rows', Subject(worker'[k].call)) : q.user = worker'[k].user
        BY <2>1, <2>2, <2>3, <2>4, WatchStep, OwnerStays
    <2>5. QED
        BY <2>4 DEF SettledHasOwner
<1>7. SettledAnswers'
    BY DEF SettledAnswers
<1>8. AnswersDeclared'
    BY CallsAreCalls, DeclaredStatuses DEF TypeOK, Running, Idle, NoAnswer, StepsMatchCalls, AnswersDeclared,
           AllCalls, CreateUserCalls, CreateIdentityCalls, LookupCalls, ExchangeCalls,
           statusOf, ValidationErrors
<1>9. QED
    BY <1>1, <1>2, <1>3, <1>4, <1>5, <1>6, <1>7, <1>8 DEF Kept

LEMMA LinkIdentityKeeps ==
    ASSUME IInv, Watch, NEW h \in Handlers, NEW call \in Calls, NEW t \in Copies, LinkIdentity(h, call, t)
    PROVE  Kept
<1> USE DEF IInv, LinkIdentity, Begin, Throw, Answer, Continue, tables, api, purging
<1>1. TypeOK'
    <2> HIDE DEF Begin, Answer, Throw, Continue
    <2>1. requests' \in 0..MaxRequests
        BY BeginType DEF Begin
    <2>2. worker' \in [Handlers -> Running \cup {Idle}] /\ answer' \in Answers \cup {NoAnswer}
        BY ReadType, Statuses, ThrowType, ContinueType
    <2>3. QED
        BY <2>1, <2>2, WatchType DEF TypeOK
<1>2. StepsMatchCalls'
    BY CallsAreCalls DEF TypeOK, Running, Idle, StepsMatchCalls, AllCalls, CreateUserCalls, CreateIdentityCalls, LookupCalls, ExchangeCalls
<1>3. OneUserPerName'
    BY DEF TypeOK, Running, Rows, Names, Key, OneUserPerName, UnexcusedIsFirst, RowsOf
<1>4. UnexcusedIsFirst'
    BY DEF TypeOK, Running, Idle, UnexcusedIsFirst, RowsOf, Key
<1>5. TargetsAccounted'
    BY DEF TypeOK, Purging, Purged, Idle, TargetsAccounted, Key, DvlaNames, RowsOf, Copies
<1>6. SettledHasOwner'
    <2>1. Gentle
        BY DEF Gentle, TypeOK, Rows, Key
    <2>2. \A k \in Handlers : k # h => worker'[k] = worker[k]
        BY DEF TypeOK
    <2>3. ASSUME settled'[h]
          PROVE  \A q \in RowsOf(rows', Subject(worker'[h].call)) : q.user = worker'[h].user
        <3>1. worker'[h] # Idle /\ InOrder(rows, replica, now, worker'[h].call)
            BY <2>3, WatchStep
        <3>2. PICK r \in getByServiceId(t, <<"app", call.appId>>) :
                 worker'[h] = [pc |-> "putLink", call |-> call, user |-> r.user]
            BY <3>1 DEF TypeOK
        <3>3. QED
            BY <3>1, <3>2, ResolvedApp DEF RowsOf
    <2>4. ASSUME NEW k \in Handlers, settled'[k]
          PROVE  /\ worker'[k] # Idle
                 /\ InOrder(rows', replica', now', worker'[k].call)
                 /\ \A q \in RowsOf(rows', Subject(worker'[k].call)) : q.user = worker'[k].user
        BY <2>1, <2>2, <2>3, <2>4, WatchStep, OwnerStays
    <2>5. QED
        BY <2>4 DEF SettledHasOwner
<1>7. SettledAnswers'
    BY ResolvedApp DEF SettledAnswers, statusOf
<1>8. AnswersDeclared'
    BY CallsAreCalls, DeclaredStatuses DEF TypeOK, Running, Idle, NoAnswer, StepsMatchCalls, AnswersDeclared,
           AllCalls, CreateUserCalls, CreateIdentityCalls, LookupCalls, ExchangeCalls,
           statusOf, ValidationErrors
<1>9. QED
    BY <1>1, <1>2, <1>3, <1>4, <1>5, <1>6, <1>7, <1>8 DEF Kept

LEMMA PutLinkKeeps ==
    ASSUME IInv, Watch, NEW h \in Handlers, PutLink(h)
    PROVE  Kept
<1> USE DEF IInv, PutLink, Put, Answer, tables, api, purging
<1>1. TypeOK'
    <2> HIDE DEF Answer, Put
    <2>1. worker[h].call \in Calls /\ worker[h].user \in Users
        BY CallType DEF Idle
    <2>2. worker' \in [Handlers -> Running \cup {Idle}] /\ answer' \in Answers
        BY <2>1, AnswerType
    <2>3. [name |-> worker[h].call.name, user |-> worker[h].user, ttl |-> worker[h].call.expiresAt] \in Rows
        BY <2>1, LowerCase DEF StepsMatchCalls, CreateIdentityCalls, Rows, Names
    <2>4. rows' \in SUBSET Rows /\ excused' \in [Handlers -> BOOLEAN] /\ targets' \in SUBSET Rows
        BY <2>3, PutType
    <2>5. contested' \in SUBSET Names
        BY <2>1, LowerCase DEF StepsMatchCalls, CreateIdentityCalls, TypeOK, Names, RowsOf, Rows
    <2>6. QED
        BY <2>2, <2>4, <2>5, WatchType DEF TypeOK
<1>2. StepsMatchCalls'
    BY CallsAreCalls DEF TypeOK, Running, Idle, StepsMatchCalls, AllCalls, CreateUserCalls, CreateIdentityCalls, LookupCalls, ExchangeCalls
<1>3. OneUserPerName'
    BY DEF TypeOK, Running, Rows, Names, Key, OneUserPerName, UnexcusedIsFirst, RowsOf
<1>4. UnexcusedIsFirst'
    BY DEF TypeOK, Running, Idle, UnexcusedIsFirst, RowsOf, Key
<1>5. TargetsAccounted'
    BY DEF TypeOK, Purging, Purged, Idle, TargetsAccounted, Key, DvlaNames, RowsOf, Copies
<1>6. SettledHasOwner'
    <2>1. Gentle
        BY DEF Gentle, TypeOK, Rows, Key
    <2>2. \A k \in Handlers : k # h => worker'[k] = worker[k]
        BY DEF TypeOK
    <2>3. ASSUME settled'[h]
          PROVE  \A q \in RowsOf(rows', Subject(worker'[h].call)) : q.user = worker'[h].user
        <3>1. worker'[h] = Idle
            BY DEF TypeOK
        <3>2. QED
            BY <2>3, <3>1, WatchStep
    <2>4. ASSUME NEW k \in Handlers, settled'[k]
          PROVE  /\ worker'[k] # Idle
                 /\ InOrder(rows', replica', now', worker'[k].call)
                 /\ \A q \in RowsOf(rows', Subject(worker'[k].call)) : q.user = worker'[k].user
        BY <2>1, <2>2, <2>3, <2>4, WatchStep, OwnerStays
    <2>5. QED
        BY <2>4 DEF SettledHasOwner
<1>7. SettledAnswers'
    BY DEF SettledAnswers, StepsMatchCalls, CreateIdentityCalls
<1>8. AnswersDeclared'
    BY CallsAreCalls, DeclaredStatuses DEF TypeOK, Running, Idle, NoAnswer, StepsMatchCalls, AnswersDeclared,
           AllCalls, CreateUserCalls, CreateIdentityCalls, LookupCalls, ExchangeCalls,
           statusOf, ValidationErrors
<1>9. QED
    BY <1>1, <1>2, <1>3, <1>4, <1>5, <1>6, <1>7, <1>8 DEF Kept

LEMMA ReadIdentityKeeps ==
    ASSUME IInv, Watch, NEW h \in Handlers, NEW call \in Calls, NEW t \in Copies, ReadIdentity(h, call, t)
    PROVE  Kept
<1> USE DEF IInv, ReadIdentity, Begin, NotFound, Throw, Answer, tables, api, purging
<1>1. TypeOK'
    <2> HIDE DEF Begin, Answer, Throw
    <2>1. requests' \in 0..MaxRequests
        BY BeginType DEF Begin
    <2>2. CASE NotFound(h, call, t)
        BY <2>1, <2>2, Statuses, ThrowType, WatchType DEF TypeOK
    <2>3. CASE \E r \in getByServiceId(t, call.name) : Answer(h, call, 200, {r})
        <3>1. PICK r \in getByServiceId(t, call.name) : Answer(h, call, 200, {r})
            BY <2>3
        <3>2. {r} \in SUBSET Rows
            BY ReadType
        <3>3. answer' \in Answers /\ worker' \in [Handlers -> Running \cup {Idle}]
            BY <3>1, <3>2, AnswerType
        <3>4. QED
            BY <2>1, <3>3, WatchType DEF TypeOK
    <2>4. QED
        BY <2>2, <2>3
<1>2. StepsMatchCalls'
    BY CallsAreCalls DEF TypeOK, Running, Idle, StepsMatchCalls, AllCalls, CreateUserCalls, CreateIdentityCalls, LookupCalls, ExchangeCalls
<1>3. OneUserPerName'
    BY DEF TypeOK, Running, Rows, Names, Key, OneUserPerName, UnexcusedIsFirst, RowsOf
<1>4. UnexcusedIsFirst'
    BY DEF TypeOK, Running, Idle, UnexcusedIsFirst, RowsOf, Key
<1>5. TargetsAccounted'
    BY DEF TypeOK, Purging, Purged, Idle, TargetsAccounted, Key, DvlaNames, RowsOf, Copies
<1>6. SettledHasOwner'
    <2>1. Gentle
        BY DEF Gentle, TypeOK, Rows, Key
    <2>2. \A k \in Handlers : k # h => worker'[k] = worker[k]
        BY DEF TypeOK
    <2>3. ASSUME settled'[h]
          PROVE  \A q \in RowsOf(rows', Subject(worker'[h].call)) : q.user = worker'[h].user
        <3>1. worker'[h] = Idle
            BY DEF TypeOK
        <3>2. QED
            BY <2>3, <3>1, WatchStep
    <2>4. ASSUME NEW k \in Handlers, settled'[k]
          PROVE  /\ worker'[k] # Idle
                 /\ InOrder(rows', replica', now', worker'[k].call)
                 /\ \A q \in RowsOf(rows', Subject(worker'[k].call)) : q.user = worker'[k].user
        BY <2>1, <2>2, <2>3, <2>4, WatchStep, OwnerStays
    <2>5. QED
        BY <2>4 DEF SettledHasOwner
<1>7. SettledAnswers'
    BY ResolvedCall DEF SettledAnswers, statusOf, RowsOf
<1>8. AnswersDeclared'
    BY CallsAreCalls, DeclaredStatuses DEF TypeOK, Running, Idle, NoAnswer, StepsMatchCalls, AnswersDeclared,
           AllCalls, CreateUserCalls, CreateIdentityCalls, LookupCalls, ExchangeCalls,
           statusOf, ValidationErrors
<1>9. QED
    BY <1>1, <1>2, <1>3, <1>4, <1>5, <1>6, <1>7, <1>8 DEF Kept

LEMMA GetLinkedIdentityKeeps ==
    ASSUME IInv, Watch, NEW h \in Handlers, NEW call \in Calls, NEW t \in Copies, GetLinkedIdentity(h, call, t)
    PROVE  Kept
<1> USE DEF IInv, GetLinkedIdentity, Begin, NotFound, Throw, Answer, Continue, tables, api, purging
<1>1. TypeOK'
    <2> HIDE DEF Begin, Answer, Throw, Continue
    <2>1. requests' \in 0..MaxRequests
        BY BeginType DEF Begin
    <2>2. worker' \in [Handlers -> Running \cup {Idle}] /\ answer' \in Answers \cup {NoAnswer}
        BY ReadType, Statuses, ThrowType, ContinueType
    <2>3. QED
        BY <2>1, <2>2, WatchType DEF TypeOK
<1>2. StepsMatchCalls'
    BY CallsAreCalls DEF TypeOK, Running, Idle, StepsMatchCalls, AllCalls, CreateUserCalls, CreateIdentityCalls, LookupCalls, ExchangeCalls
<1>3. OneUserPerName'
    BY DEF TypeOK, Running, Rows, Names, Key, OneUserPerName, UnexcusedIsFirst, RowsOf
<1>4. UnexcusedIsFirst'
    BY DEF TypeOK, Running, Idle, UnexcusedIsFirst, RowsOf, Key
<1>5. TargetsAccounted'
    BY DEF TypeOK, Purging, Purged, Idle, TargetsAccounted, Key, DvlaNames, RowsOf, Copies
<1>6. SettledHasOwner'
    <2>1. Gentle
        BY DEF Gentle, TypeOK, Rows, Key
    <2>2. \A k \in Handlers : k # h => worker'[k] = worker[k]
        BY DEF TypeOK
    <2>3. ASSUME settled'[h]
          PROVE  \A q \in RowsOf(rows', Subject(worker'[h].call)) : q.user = worker'[h].user
        <3>1. worker'[h] # Idle /\ InOrder(rows, replica, now, worker'[h].call)
            BY <2>3, WatchStep
        <3>2. PICK r \in getByServiceId(t, call.name) :
                 worker'[h] = [pc |-> "queryLinked", call |-> call, user |-> r.user]
            BY <3>1 DEF TypeOK
        <3>3. QED
            BY <3>1, <3>2, ResolvedCall DEF RowsOf
    <2>4. ASSUME NEW k \in Handlers, settled'[k]
          PROVE  /\ worker'[k] # Idle
                 /\ InOrder(rows', replica', now', worker'[k].call)
                 /\ \A q \in RowsOf(rows', Subject(worker'[k].call)) : q.user = worker'[k].user
        BY <2>1, <2>2, <2>3, <2>4, WatchStep, OwnerStays
    <2>5. QED
        BY <2>4 DEF SettledHasOwner
<1>7. SettledAnswers'
    BY ResolvedCall DEF SettledAnswers, statusOf, RowsOf
<1>8. AnswersDeclared'
    BY CallsAreCalls, DeclaredStatuses DEF TypeOK, Running, Idle, NoAnswer, StepsMatchCalls, AnswersDeclared,
           AllCalls, CreateUserCalls, CreateIdentityCalls, LookupCalls, ExchangeCalls,
           statusOf, ValidationErrors
<1>9. QED
    BY <1>1, <1>2, <1>3, <1>4, <1>5, <1>6, <1>7, <1>8 DEF Kept

LEMMA QueryLinkedKeeps ==
    ASSUME IInv, Watch, NEW h \in Handlers, NEW t \in Copies, QueryLinked(h, t)
    PROVE  Kept
<1> USE DEF IInv, QueryLinked, Throw, Answer, tables, api, purging
<1>1. TypeOK'
    <2> HIDE DEF Answer, Throw, Put
    <2>1. worker[h].call \in Calls /\ worker[h].user \in Users
        BY CallType DEF Idle
    <2>2. worker' \in [Handlers -> Running \cup {Idle}] /\ answer' \in Answers
        BY <2>1, ReadType, Statuses, ThrowType, AnswerType
    <2>3. QED
        BY <2>1, <2>2, WatchType DEF TypeOK
<1>2. StepsMatchCalls'
    BY CallsAreCalls DEF TypeOK, Running, Idle, StepsMatchCalls, AllCalls, CreateUserCalls, CreateIdentityCalls, LookupCalls, ExchangeCalls
<1>3. OneUserPerName'
    BY DEF TypeOK, Running, Rows, Names, Key, OneUserPerName, UnexcusedIsFirst, RowsOf
<1>4. UnexcusedIsFirst'
    BY DEF TypeOK, Running, Idle, UnexcusedIsFirst, RowsOf, Key
<1>5. TargetsAccounted'
    BY DEF TypeOK, Purging, Purged, Idle, TargetsAccounted, Key, DvlaNames, RowsOf, Copies
<1>6. SettledHasOwner'
    <2>1. Gentle
        BY DEF Gentle, TypeOK, Rows, Key
    <2>2. \A k \in Handlers : k # h => worker'[k] = worker[k]
        BY DEF TypeOK
    <2>3. ASSUME settled'[h]
          PROVE  \A q \in RowsOf(rows', Subject(worker'[h].call)) : q.user = worker'[h].user
        <3>1. worker'[h] = Idle
            BY DEF TypeOK
        <3>2. QED
            BY <2>3, <3>1, WatchStep
    <2>4. ASSUME NEW k \in Handlers, settled'[k]
          PROVE  /\ worker'[k] # Idle
                 /\ InOrder(rows', replica', now', worker'[k].call)
                 /\ \A q \in RowsOf(rows', Subject(worker'[k].call)) : q.user = worker'[k].user
        BY <2>1, <2>2, <2>3, <2>4, WatchStep, OwnerStays
    <2>5. QED
        BY <2>4 DEF SettledHasOwner
<1>7. SettledAnswers'
    <2> SUFFICES ASSUME answer' # NoAnswer, answer'.settled
                 PROVE  /\ answer'.status # 404
                        /\ \A r \in answer'.items, q \in RowsOf(rows', Subject(answer'.call)) :
                              r.user = q.user
                        /\ answer'.call.op = "getAllLinkedService" /\ answer'.status = 200 =>
                             \A q \in RowsOf(rows', Subject(answer'.call)), r \in rows' \cap replica' :
                                r.user = q.user /\ ~ExpiredAt(r, now') => r \in answer'.items
        BY DEF SettledAnswers
    <2> DEFINE call == worker[h].call
    <2>1. settled[h] /\ InOrder(rows, replica, now, call)
        BY DEF Idle
    <2>2. PICK r \in rows : /\ RowsOf(rows, Subject(call)) = {r}
                            /\ RowsOf(replica, Subject(call)) = {r}
                            /\ ~ExpiredAt(r, now)
                            /\ call.op = "exchangeIdentity" =>
                                 \E q \in rows \cap replica :
                                    q.user = r.user /\ q.name[1] = call.requiredService
        BY <2>1 DEF InOrder
    <2>3. r.user = worker[h].user
        BY <2>1, <2>2 DEF SettledHasOwner
    <2>4. call \in ExchangeCalls /\ call.op = "exchangeIdentity"
        BY DEF StepsMatchCalls, ExchangeCalls
    <2>5. queryLinked(t, r.user, call.requiredService) # {}
      <3>1. r.user \in Users /\ call.requiredService \in ServiceNames
        BY <2>4 DEF TypeOK, Rows, ExchangeCalls
      <3>2. QED
        BY <2>2, <2>4, <3>1, LinkedIsFound
    <2>6. /\ answer'.call = call /\ answer'.status = 200
          /\ answer'.items = queryLinked(t, r.user, call.requiredService)
        BY <2>3, <2>5
    <2>7. \A q \in answer'.items : q.user = r.user
        BY <2>6 DEF queryLinked, queryBySk
    <2>8. QED
        BY <2>2, <2>4, <2>6, <2>7
<1>8. AnswersDeclared'
    BY CallsAreCalls, DeclaredStatuses DEF TypeOK, Running, Idle, NoAnswer, StepsMatchCalls, AnswersDeclared,
           AllCalls, CreateUserCalls, CreateIdentityCalls, LookupCalls, ExchangeCalls,
           statusOf, ValidationErrors
<1>9. QED
    BY <1>1, <1>2, <1>3, <1>4, <1>5, <1>6, <1>7, <1>8 DEF Kept

LEMMA GetAllLinkedServicesKeeps ==
    ASSUME IInv, Watch, NEW h \in Handlers, NEW call \in Calls, NEW t \in Copies, GetAllLinkedServices(h, call, t)
    PROVE  Kept
<1> USE DEF IInv, GetAllLinkedServices, Begin, NotFound, Throw, Answer, Continue, tables, api, purging
<1>1. TypeOK'
    <2> HIDE DEF Begin, Answer, Throw, Continue
    <2>1. requests' \in 0..MaxRequests
        BY BeginType DEF Begin
    <2>2. worker' \in [Handlers -> Running \cup {Idle}] /\ answer' \in Answers \cup {NoAnswer}
        BY ReadType, Statuses, ThrowType, ContinueType
    <2>3. QED
        BY <2>1, <2>2, WatchType DEF TypeOK
<1>2. StepsMatchCalls'
    BY CallsAreCalls DEF TypeOK, Running, Idle, StepsMatchCalls, AllCalls, CreateUserCalls, CreateIdentityCalls, LookupCalls, ExchangeCalls
<1>3. OneUserPerName'
    BY DEF TypeOK, Running, Rows, Names, Key, OneUserPerName, UnexcusedIsFirst, RowsOf
<1>4. UnexcusedIsFirst'
    BY DEF TypeOK, Running, Idle, UnexcusedIsFirst, RowsOf, Key
<1>5. TargetsAccounted'
    BY DEF TypeOK, Purging, Purged, Idle, TargetsAccounted, Key, DvlaNames, RowsOf, Copies
<1>6. SettledHasOwner'
    <2>1. Gentle
        BY DEF Gentle, TypeOK, Rows, Key
    <2>2. \A k \in Handlers : k # h => worker'[k] = worker[k]
        BY DEF TypeOK
    <2>3. ASSUME settled'[h]
          PROVE  \A q \in RowsOf(rows', Subject(worker'[h].call)) : q.user = worker'[h].user
        <3>1. worker'[h] # Idle /\ InOrder(rows, replica, now, worker'[h].call)
            BY <2>3, WatchStep
        <3>2. PICK r \in getByServiceId(t, call.name) :
                 worker'[h] = [pc |-> "queryBySk", call |-> call, user |-> r.user]
            BY <3>1 DEF TypeOK
        <3>3. QED
            BY <3>1, <3>2, ResolvedCall DEF RowsOf
    <2>4. ASSUME NEW k \in Handlers, settled'[k]
          PROVE  /\ worker'[k] # Idle
                 /\ InOrder(rows', replica', now', worker'[k].call)
                 /\ \A q \in RowsOf(rows', Subject(worker'[k].call)) : q.user = worker'[k].user
        BY <2>1, <2>2, <2>3, <2>4, WatchStep, OwnerStays
    <2>5. QED
        BY <2>4 DEF SettledHasOwner
<1>7. SettledAnswers'
    BY ResolvedCall DEF SettledAnswers, statusOf, RowsOf
<1>8. AnswersDeclared'
    BY CallsAreCalls, DeclaredStatuses DEF TypeOK, Running, Idle, NoAnswer, StepsMatchCalls, AnswersDeclared,
           AllCalls, CreateUserCalls, CreateIdentityCalls, LookupCalls, ExchangeCalls,
           statusOf, ValidationErrors
<1>9. QED
    BY <1>1, <1>2, <1>3, <1>4, <1>5, <1>6, <1>7, <1>8 DEF Kept

LEMMA QueryBySkKeeps ==
    ASSUME IInv, Watch, NEW h \in Handlers, NEW t \in Copies, QueryBySk(h, t)
    PROVE  Kept
<1> USE DEF IInv, QueryBySk, Answer, tables, api, purging
<1>1. TypeOK'
    <2> HIDE DEF Answer, Throw, Put
    <2>1. worker[h].call \in Calls /\ worker[h].user \in Users
        BY CallType DEF Idle
    <2>2. worker' \in [Handlers -> Running \cup {Idle}] /\ answer' \in Answers
        BY <2>1, ReadType, AnswerType
    <2>3. QED
        BY <2>1, <2>2, WatchType DEF TypeOK
<1>2. StepsMatchCalls'
    BY CallsAreCalls DEF TypeOK, Running, Idle, StepsMatchCalls, AllCalls, CreateUserCalls, CreateIdentityCalls, LookupCalls, ExchangeCalls
<1>3. OneUserPerName'
    BY DEF TypeOK, Running, Rows, Names, Key, OneUserPerName, UnexcusedIsFirst, RowsOf
<1>4. UnexcusedIsFirst'
    BY DEF TypeOK, Running, Idle, UnexcusedIsFirst, RowsOf, Key
<1>5. TargetsAccounted'
    BY DEF TypeOK, Purging, Purged, Idle, TargetsAccounted, Key, DvlaNames, RowsOf, Copies
<1>6. SettledHasOwner'
    <2>1. Gentle
        BY DEF Gentle, TypeOK, Rows, Key
    <2>2. \A k \in Handlers : k # h => worker'[k] = worker[k]
        BY DEF TypeOK
    <2>3. ASSUME settled'[h]
          PROVE  \A q \in RowsOf(rows', Subject(worker'[h].call)) : q.user = worker'[h].user
        <3>1. worker'[h] = Idle
            BY DEF TypeOK
        <3>2. QED
            BY <2>3, <3>1, WatchStep
    <2>4. ASSUME NEW k \in Handlers, settled'[k]
          PROVE  /\ worker'[k] # Idle
                 /\ InOrder(rows', replica', now', worker'[k].call)
                 /\ \A q \in RowsOf(rows', Subject(worker'[k].call)) : q.user = worker'[k].user
        BY <2>1, <2>2, <2>3, <2>4, WatchStep, OwnerStays
    <2>5. QED
        BY <2>4 DEF SettledHasOwner
<1>7. SettledAnswers'
    <2> SUFFICES ASSUME answer' # NoAnswer, answer'.settled
                 PROVE  /\ answer'.status # 404
                        /\ \A r \in answer'.items, q \in RowsOf(rows', Subject(answer'.call)) :
                              r.user = q.user
                        /\ answer'.call.op = "getAllLinkedService" /\ answer'.status = 200 =>
                             \A q \in RowsOf(rows', Subject(answer'.call)), r \in rows' \cap replica' :
                                r.user = q.user /\ ~ExpiredAt(r, now') => r \in answer'.items
        BY DEF SettledAnswers
    <2> DEFINE call == worker[h].call
    <2>1. settled[h] /\ InOrder(rows, replica, now, call)
        BY DEF Idle
    <2>2. PICK r \in rows : /\ RowsOf(rows, Subject(call)) = {r}
                            /\ RowsOf(replica, Subject(call)) = {r}
                            /\ ~ExpiredAt(r, now)
                            /\ call.op = "exchangeIdentity" =>
                                 \E q \in rows \cap replica :
                                    q.user = r.user /\ q.name[1] = call.requiredService
        BY <2>1 DEF InOrder
    <2>3. r.user = worker[h].user
        BY <2>1, <2>2 DEF SettledHasOwner
    <2>4. /\ answer'.call = call /\ answer'.status = 200
          /\ answer'.items = {q \in queryBySk(t, r.user) : q.ttl = NoTtl \/ q.ttl >= now}
        BY <2>3
    <2>5. \A q \in answer'.items : q.user = r.user
        BY <2>4 DEF queryBySk
    <2>6. ASSUME NEW q \in rows' \cap replica', q.user = r.user, ~ExpiredAt(q, now')
          PROVE  q \in answer'.items
        <3>1. q \in queryBySk(t, r.user)
            BY <2>6 DEF queryBySk, Copies
        <3>2. q.ttl = NoTtl \/ q.ttl >= now
            <4>1. q.ttl \in Times \cup {NoTtl} /\ now \in Times
                BY DEF TypeOK, Rows
            <4>2. q.ttl \in Int /\ now \in Int
                BY <4>1 DEF Times, NoTtl
            <4>3. QED
                BY <2>6, <4>2 DEF ExpiredAt
        <3>3. QED
            BY <2>4, <3>1, <3>2
    <2>7. QED
        BY <2>2, <2>4, <2>5, <2>6
<1>8. AnswersDeclared'
    BY CallsAreCalls, DeclaredStatuses DEF TypeOK, Running, Idle, NoAnswer, StepsMatchCalls, AnswersDeclared,
           AllCalls, CreateUserCalls, CreateIdentityCalls, LookupCalls, ExchangeCalls,
           statusOf, ValidationErrors
<1>9. QED
    BY <1>1, <1>2, <1>3, <1>4, <1>5, <1>6, <1>7, <1>8 DEF Kept

LEMMA DeleteByIdKeeps ==
    ASSUME IInv, Watch, NEW h \in Handlers, NEW call \in Calls, NEW t \in Copies, DeleteById(h, call, t)
    PROVE  Kept
<1> USE DEF IInv, DeleteById, Begin, NotFound, Throw, Answer, Continue, tables, api, purging
<1>1. TypeOK'
    <2> HIDE DEF Begin, Answer, Throw, Continue
    <2>1. requests' \in 0..MaxRequests
        BY BeginType DEF Begin
    <2>2. worker' \in [Handlers -> Running \cup {Idle}] /\ answer' \in Answers \cup {NoAnswer}
        BY ReadType, Statuses, ThrowType, ContinueType
    <2>3. QED
        BY <2>1, <2>2, WatchType DEF TypeOK
<1>2. StepsMatchCalls'
    BY CallsAreCalls DEF TypeOK, Running, Idle, StepsMatchCalls, AllCalls, CreateUserCalls, CreateIdentityCalls, LookupCalls, ExchangeCalls
<1>3. OneUserPerName'
    BY DEF TypeOK, Running, Rows, Names, Key, OneUserPerName, UnexcusedIsFirst, RowsOf
<1>4. UnexcusedIsFirst'
    BY DEF TypeOK, Running, Idle, UnexcusedIsFirst, RowsOf, Key
<1>5. TargetsAccounted'
    BY DEF TypeOK, Purging, Purged, Idle, TargetsAccounted, Key, DvlaNames, RowsOf, Copies
<1>6. SettledHasOwner'
    <2>1. Gentle
        BY DEF Gentle, TypeOK, Rows, Key
    <2>2. \A k \in Handlers : k # h => worker'[k] = worker[k]
        BY DEF TypeOK
    <2>3. ASSUME settled'[h]
          PROVE  \A q \in RowsOf(rows', Subject(worker'[h].call)) : q.user = worker'[h].user
        <3>1. worker'[h] # Idle /\ InOrder(rows, replica, now, worker'[h].call)
            BY <2>3, WatchStep
        <3>2. PICK r \in getByServiceId(t, call.name) :
                 worker'[h] = [pc |-> "delete", call |-> call, user |-> r.user]
            BY <3>1 DEF TypeOK
        <3>3. QED
            BY <3>1, <3>2, ResolvedCall DEF RowsOf
    <2>4. ASSUME NEW k \in Handlers, settled'[k]
          PROVE  /\ worker'[k] # Idle
                 /\ InOrder(rows', replica', now', worker'[k].call)
                 /\ \A q \in RowsOf(rows', Subject(worker'[k].call)) : q.user = worker'[k].user
        BY <2>1, <2>2, <2>3, <2>4, WatchStep, OwnerStays
    <2>5. QED
        BY <2>4 DEF SettledHasOwner
<1>7. SettledAnswers'
    BY ResolvedCall DEF SettledAnswers, statusOf, RowsOf
<1>8. AnswersDeclared'
    BY CallsAreCalls, DeclaredStatuses DEF TypeOK, Running, Idle, NoAnswer, StepsMatchCalls, AnswersDeclared,
           AllCalls, CreateUserCalls, CreateIdentityCalls, LookupCalls, ExchangeCalls,
           statusOf, ValidationErrors
<1>9. QED
    BY <1>1, <1>2, <1>3, <1>4, <1>5, <1>6, <1>7, <1>8 DEF Kept

LEMMA DeleteKeeps ==
    ASSUME IInv, Watch, NEW h \in Handlers, Delete(h)
    PROVE  Kept
<1> USE DEF IInv, Delete, Throw, Answer, tables, api, purging
<1>1. TypeOK'
    <2> HIDE DEF Answer, Throw, Put
    <2>1. worker[h].call \in Calls /\ worker[h].user \in Users
        BY CallType DEF Idle
    <2>2. worker' \in [Handlers -> Running \cup {Idle}] /\ answer' \in Answers
        BY <2>1, Statuses, ThrowType, AnswerType
    <2>3. QED
        BY <2>1, <2>2, WatchType DEF TypeOK
<1>2. StepsMatchCalls'
    BY CallsAreCalls DEF TypeOK, Running, Idle, StepsMatchCalls, AllCalls, CreateUserCalls, CreateIdentityCalls, LookupCalls, ExchangeCalls
<1>3. OneUserPerName'
    BY DEF TypeOK, Running, Rows, Names, Key, OneUserPerName, UnexcusedIsFirst, RowsOf
<1>4. UnexcusedIsFirst'
    BY DEF TypeOK, Running, Idle, UnexcusedIsFirst, RowsOf, Key
<1>5. TargetsAccounted'
    BY DEF TypeOK, Purging, Purged, Idle, TargetsAccounted, Key, DvlaNames, RowsOf, Copies
<1>6. SettledHasOwner'
    <2>1. Gentle
        BY DEF Gentle, TypeOK, Rows, Key
    <2>2. \A k \in Handlers : k # h => worker'[k] = worker[k]
        BY DEF TypeOK
    <2>3. ASSUME settled'[h]
          PROVE  \A q \in RowsOf(rows', Subject(worker'[h].call)) : q.user = worker'[h].user
        <3>1. worker'[h] = Idle
            BY DEF TypeOK
        <3>2. QED
            BY <2>3, <3>1, WatchStep
    <2>4. ASSUME NEW k \in Handlers, settled'[k]
          PROVE  /\ worker'[k] # Idle
                 /\ InOrder(rows', replica', now', worker'[k].call)
                 /\ \A q \in RowsOf(rows', Subject(worker'[k].call)) : q.user = worker'[k].user
        BY <2>1, <2>2, <2>3, <2>4, WatchStep, OwnerStays
    <2>5. QED
        BY <2>4 DEF SettledHasOwner
<1>7. SettledAnswers'
    <2> SUFFICES ASSUME answer' # NoAnswer, answer'.settled
                 PROVE  /\ answer'.status # 404
                        /\ \A r \in answer'.items, q \in RowsOf(rows', Subject(answer'.call)) :
                              r.user = q.user
                        /\ answer'.call.op = "getAllLinkedService" /\ answer'.status = 200 =>
                             \A q \in RowsOf(rows', Subject(answer'.call)), r \in rows' \cap replica' :
                                r.user = q.user /\ ~ExpiredAt(r, now') => r \in answer'.items
        BY DEF SettledAnswers
    <2> DEFINE call == worker[h].call
    <2>1. settled[h] /\ InOrder(rows, replica, now, call)
        BY DEF Idle
    <2>2. PICK r \in rows : /\ RowsOf(rows, Subject(call)) = {r}
                            /\ RowsOf(replica, Subject(call)) = {r}
                            /\ ~ExpiredAt(r, now)
                            /\ call.op = "exchangeIdentity" =>
                                 \E q \in rows \cap replica :
                                    q.user = r.user /\ q.name[1] = call.requiredService
        BY <2>1 DEF InOrder
    <2>3. r.user = worker[h].user
        BY <2>1, <2>2 DEF SettledHasOwner
    <2>4. call.op = "deleteIdentity"
        BY DEF StepsMatchCalls
    <2>5. r.name = <<Lower[call.name[1]], call.name[2]>>
        BY <2>2, <2>4 DEF Subject, RowsOf
    <2>6. answer'.call = call /\ answer'.status = 200 /\ answer'.items = {}
        BY <2>3, <2>5 DEF Key
    <2>7. QED
        BY <2>4, <2>6
<1>8. AnswersDeclared'
    BY CallsAreCalls, DeclaredStatuses DEF TypeOK, Running, Idle, NoAnswer, StepsMatchCalls, AnswersDeclared,
           AllCalls, CreateUserCalls, CreateIdentityCalls, LookupCalls, ExchangeCalls,
           statusOf, ValidationErrors
<1>9. QED
    BY <1>1, <1>2, <1>3, <1>4, <1>5, <1>6, <1>7, <1>8 DEF Kept

LEMMA StartPurgeKeeps ==
    ASSUME IInv, Watch, StartPurge
    PROVE  Kept
<1> USE DEF IInv, StartPurge, tables, api, purging
<1>1. TypeOK'
    <2>1. purge' \in Purging
        BY DEF Purging, DvlaNames
    <2>2. QED
        BY <2>1, WatchType, Bounds DEF TypeOK
<1>2. StepsMatchCalls'
    BY CallsAreCalls DEF TypeOK, Running, Idle, StepsMatchCalls, AllCalls, CreateUserCalls, CreateIdentityCalls, LookupCalls, ExchangeCalls
<1>3. OneUserPerName'
    BY DEF TypeOK, Running, Rows, Names, Key, OneUserPerName, UnexcusedIsFirst, RowsOf
<1>4. UnexcusedIsFirst'
    BY DEF TypeOK, Running, Idle, UnexcusedIsFirst, RowsOf, Key
<1>5. TargetsAccounted'
    BY DEF TypeOK, Purging, Purged, Idle, TargetsAccounted, Key, DvlaNames, RowsOf, Copies
<1>6. SettledHasOwner'
    <2>1. Gentle
        BY DEF Gentle
    <2>2. ASSUME NEW k \in Handlers, settled'[k]
          PROVE  /\ worker'[k] # Idle
                 /\ InOrder(rows', replica', now', worker'[k].call)
                 /\ \A q \in RowsOf(rows', Subject(worker'[k].call)) : q.user = worker'[k].user
        BY <2>1, <2>2, WatchStep, OwnerStays
    <2>3. QED
        BY <2>2 DEF SettledHasOwner
<1>7. SettledAnswers'
    BY DEF SettledAnswers
<1>8. AnswersDeclared'
    BY CallsAreCalls, DeclaredStatuses DEF TypeOK, Running, Idle, NoAnswer, StepsMatchCalls, AnswersDeclared,
           AllCalls, CreateUserCalls, CreateIdentityCalls, LookupCalls, ExchangeCalls,
           statusOf, ValidationErrors
<1>9. QED
    BY <1>1, <1>2, <1>3, <1>4, <1>5, <1>6, <1>7, <1>8 DEF Kept

LEMMA fetchDVLAKeysKeeps ==
    ASSUME IInv, Watch, NEW n \in DvlaNames, NEW t \in Copies, fetchDVLAKeys(n, t)
    PROVE  Kept
<1> USE DEF IInv, fetchDVLAKeys, tables, api, purging
<1>1. TypeOK'
    <2>1. purge \in Purging
        BY DEF TypeOK, Purged, Idle
    <2>2. {Key(r) : r \in RowsOf(t, n)} \in SUBSET (Names \X Users)
        BY ReadType DEF Key, Rows
    <2> DEFINE keys == purge.keys \cup {Key(r) : r \in RowsOf(t, n)}
               left == purge.unscanned \ {n}
    <2>3. keys \in SUBSET (Names \X Users) /\ left \in SUBSET Names
        BY <2>1, <2>2 DEF Purging
    <2> HIDE DEF keys, left
    <2>4. CASE purge' = [purge EXCEPT !.pc = IF left = {} THEN "delete" ELSE "scan",
                                      !.unscanned = left, !.keys = keys]
        BY <2>1, <2>3, <2>4, WatchType DEF TypeOK, Purging
    <2>5. CASE purge' = [pc |-> "purged", failed |-> FALSE]
        BY <2>5, WatchType DEF TypeOK, Purged
    <2>6. QED
        BY <2>4, <2>5 DEF keys, left
<1>2. StepsMatchCalls'
    BY CallsAreCalls DEF TypeOK, Running, Idle, StepsMatchCalls, AllCalls, CreateUserCalls, CreateIdentityCalls, LookupCalls, ExchangeCalls
<1>3. OneUserPerName'
    BY DEF TypeOK, Running, Rows, Names, Key, OneUserPerName, UnexcusedIsFirst, RowsOf
<1>4. UnexcusedIsFirst'
    BY DEF TypeOK, Running, Idle, UnexcusedIsFirst, RowsOf, Key
<1>5. TargetsAccounted'
    <2>1. purge \in Purging /\ purge.pc = "scan"
        BY DEF TypeOK, Purged, Idle
    <2> DEFINE keys == purge.keys \cup {Key(r) : r \in RowsOf(t, n)}
               left == purge.unscanned \ {n}
    <2>2. ASSUME NEW r \in targets \cap rows
          PROVE  /\ r \in replica /\ r.name \in DvlaNames
                 /\ r.name \in left \/ Key(r) \in keys
        BY <2>1 DEF TargetsAccounted, RowsOf, Copies
    <2> HIDE DEF keys, left
    <2>3. CASE /\ left # {} \/ keys # {}
               /\ purge' = [purge EXCEPT !.pc = IF left = {} THEN "delete" ELSE "scan",
                                         !.unscanned = left, !.keys = keys]
        <3>1. /\ purge'.pc = IF left = {} THEN "delete" ELSE "scan"
              /\ purge'.unscanned = left /\ purge'.keys = keys
            BY <2>1, <2>3 DEF Purging
        <3>2. QED
            BY <2>2, <3>1 DEF TargetsAccounted
    <2>4. CASE left = {} /\ keys = {}
        BY <2>2, <2>4 DEF TargetsAccounted
    <2>5. QED
        BY <2>3, <2>4 DEF keys, left
<1>6. SettledHasOwner'
    <2>1. Gentle
        BY DEF Gentle
    <2>2. ASSUME NEW k \in Handlers, settled'[k]
          PROVE  /\ worker'[k] # Idle
                 /\ InOrder(rows', replica', now', worker'[k].call)
                 /\ \A q \in RowsOf(rows', Subject(worker'[k].call)) : q.user = worker'[k].user
        BY <2>1, <2>2, WatchStep, OwnerStays
    <2>3. QED
        BY <2>2 DEF SettledHasOwner
<1>7. SettledAnswers'
    BY DEF SettledAnswers
<1>8. AnswersDeclared'
    BY CallsAreCalls, DeclaredStatuses DEF TypeOK, Running, Idle, NoAnswer, StepsMatchCalls, AnswersDeclared,
           AllCalls, CreateUserCalls, CreateIdentityCalls, LookupCalls, ExchangeCalls,
           statusOf, ValidationErrors
<1>9. QED
    BY <1>1, <1>2, <1>3, <1>4, <1>5, <1>6, <1>7, <1>8 DEF Kept

LEMMA NextBatchKeeps ==
    ASSUME IInv, Watch, NextBatch
    PROVE  Kept
<1> USE DEF IInv, NextBatch, tables, api, purging
<1>1. TypeOK'
    <2>1. purge \in Purging
        BY DEF TypeOK, Purged, Idle
    <2>2. purge' \in Purging
        BY <2>1 DEF Purging
    <2>3. QED
        BY <2>2, WatchType DEF TypeOK
<1>2. StepsMatchCalls'
    BY CallsAreCalls DEF TypeOK, Running, Idle, StepsMatchCalls, AllCalls, CreateUserCalls, CreateIdentityCalls, LookupCalls, ExchangeCalls
<1>3. OneUserPerName'
    BY DEF TypeOK, Running, Rows, Names, Key, OneUserPerName, UnexcusedIsFirst, RowsOf
<1>4. UnexcusedIsFirst'
    BY DEF TypeOK, Running, Idle, UnexcusedIsFirst, RowsOf, Key
<1>5. TargetsAccounted'
    <2>1. purge \in Purging
        BY DEF TypeOK, Purged, Idle
    <2>2. PICK b \in SUBSET purge.keys : purge' = [purge EXCEPT !.batch = b, !.keys = purge.keys \ b]
        OBVIOUS
    <2>3. /\ purge'.pc = "delete" /\ purge'.failed = purge.failed
          /\ purge'.keys \cup purge'.batch = purge.keys \cup purge.batch
        BY <2>1, <2>2 DEF Purging
    <2>4. QED
        BY <2>3 DEF TargetsAccounted
<1>6. SettledHasOwner'
    <2>1. Gentle
        BY DEF Gentle
    <2>2. ASSUME NEW k \in Handlers, settled'[k]
          PROVE  /\ worker'[k] # Idle
                 /\ InOrder(rows', replica', now', worker'[k].call)
                 /\ \A q \in RowsOf(rows', Subject(worker'[k].call)) : q.user = worker'[k].user
        BY <2>1, <2>2, WatchStep, OwnerStays
    <2>3. QED
        BY <2>2 DEF SettledHasOwner
<1>7. SettledAnswers'
    BY DEF SettledAnswers
<1>8. AnswersDeclared'
    BY CallsAreCalls, DeclaredStatuses DEF TypeOK, Running, Idle, NoAnswer, StepsMatchCalls, AnswersDeclared,
           AllCalls, CreateUserCalls, CreateIdentityCalls, LookupCalls, ExchangeCalls,
           statusOf, ValidationErrors
<1>9. QED
    BY <1>1, <1>2, <1>3, <1>4, <1>5, <1>6, <1>7, <1>8 DEF Kept

LEMMA deleteBatchKeeps ==
    ASSUME IInv, Watch, NEW k \in Names \X Users, deleteBatch(k)
    PROVE  Kept
<1> USE DEF IInv, deleteBatch, tables, api, purging
<1>1. TypeOK'
    <2>1. purge \in Purging
        BY DEF TypeOK, Purged, Idle
    <2>2. purge' \in Purging
        BY <2>1 DEF Purging
    <2>3. rows' \subseteq rows
        OBVIOUS
    <2>4. QED
        BY <2>2, <2>3, WatchType DEF TypeOK
<1>2. StepsMatchCalls'
    BY CallsAreCalls DEF TypeOK, Running, Idle, StepsMatchCalls, AllCalls, CreateUserCalls, CreateIdentityCalls, LookupCalls, ExchangeCalls
<1>3. OneUserPerName'
    BY DEF TypeOK, Running, Rows, Names, Key, OneUserPerName, UnexcusedIsFirst, RowsOf
<1>4. UnexcusedIsFirst'
    BY DEF TypeOK, Running, Idle, UnexcusedIsFirst, RowsOf, Key
<1>5. TargetsAccounted'
    <2>1. purge \in Purging
        BY DEF TypeOK, Purged, Idle
    <2>2. CASE /\ rows' = {r \in rows : Key(r) # k}
               /\ purge' = [purge EXCEPT !.batch = purge.batch \ {k}]
        <3>1. /\ purge'.pc = "delete" /\ purge'.failed = purge.failed
              /\ purge'.keys = purge.keys /\ purge'.batch = purge.batch \ {k}
            BY <2>1, <2>2 DEF Purging
        <3>2. QED
            BY <2>2, <3>1 DEF TargetsAccounted
    <2>3. CASE /\ purge' = [purge EXCEPT !.batch = purge.batch \ {k}, !.failed = TRUE]
               /\ UNCHANGED rows
        <3>1. purge'.pc = "delete" /\ purge'.failed
            BY <2>1, <2>3 DEF Purging
        <3>2. QED
            BY <2>3, <3>1 DEF TargetsAccounted
    <2>4. QED
        BY <2>2, <2>3
<1>6. SettledHasOwner'
    <2>1. Gentle
        BY DEF Gentle
    <2>2. ASSUME NEW h \in Handlers, settled'[h]
          PROVE  /\ worker'[h] # Idle
                 /\ InOrder(rows', replica', now', worker'[h].call)
                 /\ \A q \in RowsOf(rows', Subject(worker'[h].call)) : q.user = worker'[h].user
        BY <2>1, <2>2, WatchStep, OwnerStays
    <2>3. QED
        BY <2>2 DEF SettledHasOwner
<1>7. SettledAnswers'
    BY DEF SettledAnswers
<1>8. AnswersDeclared'
    BY CallsAreCalls, DeclaredStatuses DEF TypeOK, Running, Idle, NoAnswer, StepsMatchCalls, AnswersDeclared,
           AllCalls, CreateUserCalls, CreateIdentityCalls, LookupCalls, ExchangeCalls,
           statusOf, ValidationErrors
<1>9. QED
    BY <1>1, <1>2, <1>3, <1>4, <1>5, <1>6, <1>7, <1>8 DEF Kept

LEMMA PurgeEndsKeeps ==
    ASSUME IInv, Watch, PurgeEnds
    PROVE  Kept
<1> USE DEF IInv, PurgeEnds, tables, api, purging
<1>1. TypeOK'
    <2>1. purge \in Purging
        BY DEF TypeOK, Purged, Idle
    <2>2. purge' \in Purged
        BY <2>1 DEF Purging, Purged
    <2>3. QED
        BY <2>2, WatchType DEF TypeOK
<1>2. StepsMatchCalls'
    BY CallsAreCalls DEF TypeOK, Running, Idle, StepsMatchCalls, AllCalls, CreateUserCalls, CreateIdentityCalls, LookupCalls, ExchangeCalls
<1>3. OneUserPerName'
    BY DEF TypeOK, Running, Rows, Names, Key, OneUserPerName, UnexcusedIsFirst, RowsOf
<1>4. UnexcusedIsFirst'
    BY DEF TypeOK, Running, Idle, UnexcusedIsFirst, RowsOf, Key
<1>5. TargetsAccounted'
    BY DEF TypeOK, Purging, Purged, Idle, TargetsAccounted, Key, DvlaNames, RowsOf, Copies
<1>6. SettledHasOwner'
    <2>1. Gentle
        BY DEF Gentle
    <2>2. ASSUME NEW k \in Handlers, settled'[k]
          PROVE  /\ worker'[k] # Idle
                 /\ InOrder(rows', replica', now', worker'[k].call)
                 /\ \A q \in RowsOf(rows', Subject(worker'[k].call)) : q.user = worker'[k].user
        BY <2>1, <2>2, WatchStep, OwnerStays
    <2>3. QED
        BY <2>2 DEF SettledHasOwner
<1>7. SettledAnswers'
    BY DEF SettledAnswers
<1>8. AnswersDeclared'
    BY CallsAreCalls, DeclaredStatuses DEF TypeOK, Running, Idle, NoAnswer, StepsMatchCalls, AnswersDeclared,
           AllCalls, CreateUserCalls, CreateIdentityCalls, LookupCalls, ExchangeCalls,
           statusOf, ValidationErrors
<1>9. QED
    BY <1>1, <1>2, <1>3, <1>4, <1>5, <1>6, <1>7, <1>8 DEF Kept

LEMMA PurgeDiesKeeps ==
    ASSUME IInv, Watch, PurgeDies
    PROVE  Kept
<1> USE DEF IInv, PurgeDies, tables, api, purging
<1>1. TypeOK'
    <2>1. purge' \in Purged
        BY DEF Purged
    <2>2. QED
        BY <2>1, WatchType DEF TypeOK
<1>2. StepsMatchCalls'
    BY CallsAreCalls DEF TypeOK, Running, Idle, StepsMatchCalls, AllCalls, CreateUserCalls, CreateIdentityCalls, LookupCalls, ExchangeCalls
<1>3. OneUserPerName'
    BY DEF TypeOK, Running, Rows, Names, Key, OneUserPerName, UnexcusedIsFirst, RowsOf
<1>4. UnexcusedIsFirst'
    BY DEF TypeOK, Running, Idle, UnexcusedIsFirst, RowsOf, Key
<1>5. TargetsAccounted'
    BY DEF TypeOK, Purging, Purged, Idle, TargetsAccounted, Key, DvlaNames, RowsOf, Copies
<1>6. SettledHasOwner'
    <2>1. Gentle
        BY DEF Gentle
    <2>2. ASSUME NEW k \in Handlers, settled'[k]
          PROVE  /\ worker'[k] # Idle
                 /\ InOrder(rows', replica', now', worker'[k].call)
                 /\ \A q \in RowsOf(rows', Subject(worker'[k].call)) : q.user = worker'[k].user
        BY <2>1, <2>2, WatchStep, OwnerStays
    <2>3. QED
        BY <2>2 DEF SettledHasOwner
<1>7. SettledAnswers'
    BY DEF SettledAnswers
<1>8. AnswersDeclared'
    BY CallsAreCalls, DeclaredStatuses DEF TypeOK, Running, Idle, NoAnswer, StepsMatchCalls, AnswersDeclared,
           AllCalls, CreateUserCalls, CreateIdentityCalls, LookupCalls, ExchangeCalls,
           statusOf, ValidationErrors
<1>9. QED
    BY <1>1, <1>2, <1>3, <1>4, <1>5, <1>6, <1>7, <1>8 DEF Kept

LEMMA ReplicaFollowsKeeps ==
    ASSUME IInv, Watch, ReplicaFollows
    PROVE  Kept
<1> USE DEF IInv, ReplicaFollows, tables, api, purging
<1>1. TypeOK'
    BY WatchType DEF TypeOK
<1>2. StepsMatchCalls'
    BY CallsAreCalls DEF TypeOK, Running, Idle, StepsMatchCalls, AllCalls, CreateUserCalls, CreateIdentityCalls, LookupCalls, ExchangeCalls
<1>3. OneUserPerName'
    BY DEF TypeOK, Running, Rows, Names, Key, OneUserPerName, UnexcusedIsFirst, RowsOf
<1>4. UnexcusedIsFirst'
    BY DEF TypeOK, Running, Idle, UnexcusedIsFirst, RowsOf, Key
<1>5. TargetsAccounted'
    BY DEF TypeOK, Purging, Purged, Idle, TargetsAccounted, Key, DvlaNames, RowsOf, Copies
<1>6. SettledHasOwner'
    <2>1. Gentle
        BY DEF Gentle
    <2>2. ASSUME NEW k \in Handlers, settled'[k]
          PROVE  /\ worker'[k] # Idle
                 /\ InOrder(rows', replica', now', worker'[k].call)
                 /\ \A q \in RowsOf(rows', Subject(worker'[k].call)) : q.user = worker'[k].user
        BY <2>1, <2>2, WatchStep, OwnerStays
    <2>3. QED
        BY <2>2 DEF SettledHasOwner
<1>7. SettledAnswers'
    BY DEF SettledAnswers
<1>8. AnswersDeclared'
    BY CallsAreCalls, DeclaredStatuses DEF TypeOK, Running, Idle, NoAnswer, StepsMatchCalls, AnswersDeclared,
           AllCalls, CreateUserCalls, CreateIdentityCalls, LookupCalls, ExchangeCalls,
           statusOf, ValidationErrors
<1>9. QED
    BY <1>1, <1>2, <1>3, <1>4, <1>5, <1>6, <1>7, <1>8 DEF Kept

LEMMA TtlDeletesKeeps ==
    ASSUME IInv, Watch, NEW r \in rows, TtlDeletes(r)
    PROVE  Kept
<1> USE DEF IInv, TtlDeletes, tables, api, purging
<1>1. TypeOK'
    BY WatchType DEF TypeOK
<1>2. StepsMatchCalls'
    BY CallsAreCalls DEF TypeOK, Running, Idle, StepsMatchCalls, AllCalls, CreateUserCalls, CreateIdentityCalls, LookupCalls, ExchangeCalls
<1>3. OneUserPerName'
    BY DEF TypeOK, Running, Rows, Names, Key, OneUserPerName, UnexcusedIsFirst, RowsOf
<1>4. UnexcusedIsFirst'
    BY DEF TypeOK, Running, Idle, UnexcusedIsFirst, RowsOf, Key
<1>5. TargetsAccounted'
    BY DEF TypeOK, Purging, Purged, Idle, TargetsAccounted, Key, DvlaNames, RowsOf, Copies
<1>6. SettledHasOwner'
    <2>1. Gentle
        BY DEF Gentle
    <2>2. ASSUME NEW k \in Handlers, settled'[k]
          PROVE  /\ worker'[k] # Idle
                 /\ InOrder(rows', replica', now', worker'[k].call)
                 /\ \A q \in RowsOf(rows', Subject(worker'[k].call)) : q.user = worker'[k].user
        BY <2>1, <2>2, WatchStep, OwnerStays
    <2>3. QED
        BY <2>2 DEF SettledHasOwner
<1>7. SettledAnswers'
    BY DEF SettledAnswers
<1>8. AnswersDeclared'
    BY CallsAreCalls, DeclaredStatuses DEF TypeOK, Running, Idle, NoAnswer, StepsMatchCalls, AnswersDeclared,
           AllCalls, CreateUserCalls, CreateIdentityCalls, LookupCalls, ExchangeCalls,
           statusOf, ValidationErrors
<1>9. QED
    BY <1>1, <1>2, <1>3, <1>4, <1>5, <1>6, <1>7, <1>8 DEF Kept

LEMMA TickKeeps ==
    ASSUME IInv, Watch, Tick
    PROVE  Kept
<1> USE DEF IInv, Tick, tables, api, purging
<1>1. TypeOK'
    BY WatchType, Bounds DEF TypeOK, Times
<1>2. StepsMatchCalls'
    BY CallsAreCalls DEF TypeOK, Running, Idle, StepsMatchCalls, AllCalls, CreateUserCalls, CreateIdentityCalls, LookupCalls, ExchangeCalls
<1>3. OneUserPerName'
    BY DEF TypeOK, Running, Rows, Names, Key, OneUserPerName, UnexcusedIsFirst, RowsOf
<1>4. UnexcusedIsFirst'
    BY DEF TypeOK, Running, Idle, UnexcusedIsFirst, RowsOf, Key
<1>5. TargetsAccounted'
    BY DEF TypeOK, Purging, Purged, Idle, TargetsAccounted, Key, DvlaNames, RowsOf, Copies
<1>6. SettledHasOwner'
    <2>1. Gentle
        BY DEF Gentle
    <2>2. ASSUME NEW k \in Handlers, settled'[k]
          PROVE  /\ worker'[k] # Idle
                 /\ InOrder(rows', replica', now', worker'[k].call)
                 /\ \A q \in RowsOf(rows', Subject(worker'[k].call)) : q.user = worker'[k].user
        BY <2>1, <2>2, WatchStep, OwnerStays
    <2>3. QED
        BY <2>2 DEF SettledHasOwner
<1>7. SettledAnswers'
    BY DEF SettledAnswers
<1>8. AnswersDeclared'
    BY CallsAreCalls, DeclaredStatuses DEF TypeOK, Running, Idle, NoAnswer, StepsMatchCalls, AnswersDeclared,
           AllCalls, CreateUserCalls, CreateIdentityCalls, LookupCalls, ExchangeCalls,
           statusOf, ValidationErrors
<1>9. QED
    BY <1>1, <1>2, <1>3, <1>4, <1>5, <1>6, <1>7, <1>8 DEF Kept

LEMMA InitKept == Init => IInv /\ SettledAnswers /\ AnswersDeclared
<1> SUFFICES ASSUME Init PROVE IInv /\ SettledAnswers /\ AnswersDeclared
    OBVIOUS
<1>1. TypeOK
    BY Bounds, InitialTable DEF Init, TypeOK, Rows, Idle, Times
<1>2. StepsMatchCalls /\ UnexcusedIsFirst /\ SettledHasOwner /\ TargetsAccounted
    BY DEF Init, StepsMatchCalls, UnexcusedIsFirst, SettledHasOwner, TargetsAccounted, Idle
<1>3. OneUserPerName
    BY InitialTable DEF Init, OneUserPerName
<1>4. SettledAnswers /\ AnswersDeclared
    BY DEF Init, SettledAnswers, AnswersDeclared
<1>5. QED
    BY <1>1, <1>2, <1>3, <1>4 DEF IInv

-----------------------------------------------------------------------------
(* The theorems.                                                           *)

LEMMA NextKept ==
    ASSUME IInv, Next
    PROVE  Kept
<1>1. Watch
    BY DEF Next
<1>2. ASSUME NEW h \in Handlers, NEW call \in Calls, NEW t \in Copies,
             \/ CreateUser(h, call, t)
             \/ LinkIdentity(h, call, t)
             \/ ReadIdentity(h, call, t)
             \/ GetLinkedIdentity(h, call, t)
             \/ GetAllLinkedServices(h, call, t)
             \/ DeleteById(h, call, t)
      PROVE  Kept
    BY <1>1, <1>2, CreateUserKeeps, LinkIdentityKeeps, ReadIdentityKeeps, GetLinkedIdentityKeeps,
       GetAllLinkedServicesKeeps, DeleteByIdKeeps
<1>3. ASSUME NEW h \in Handlers, HandlerStep(h)
      PROVE  Kept
    BY <1>1, <1>2, <1>3, EndsEarlyKeeps, PutUserKeeps, PutLinkKeeps, QueryLinkedKeeps,
       QueryBySkKeeps, DeleteKeeps, StorageFailsKeeps DEF HandlerStep, Request
<1>4. CASE PurgeStep
    BY <1>1, <1>4, StartPurgeKeeps, fetchDVLAKeysKeeps, NextBatchKeeps, deleteBatchKeeps,
       PurgeEndsKeeps, PurgeDiesKeeps DEF PurgeStep
<1>5. CASE TableStep
    BY <1>1, <1>5, ReplicaFollowsKeeps, TtlDeletesKeeps, TickKeeps DEF TableStep
<1>6. QED
    BY <1>3, <1>4, <1>5 DEF Next

LEMMA Stuttering ==
    ASSUME IInv, SettledAnswers, AnswersDeclared, UNCHANGED vars
    PROVE  Kept
<1> USE DEF vars, tables, api, purging, IInv
<1>1. TypeOK'
    BY DEF TypeOK
<1>2. StepsMatchCalls' /\ OneUserPerName' /\ UnexcusedIsFirst'
    BY DEF StepsMatchCalls, OneUserPerName, UnexcusedIsFirst, RowsOf
<1>3. TargetsAccounted' /\ SettledHasOwner'
    BY DEF TargetsAccounted, SettledHasOwner, InOrder, RowsOf, ExpiredAt
<1>4. SettledAnswers' /\ AnswersDeclared'
    BY DEF SettledAnswers, AnswersDeclared, RowsOf, ExpiredAt
<1>5. QED
    BY <1>1, <1>2, <1>3, <1>4 DEF Kept

\* The inductive invariant, with the two properties of answers beside it:
\* each step establishes those anew.
THEOREM Invariance == Spec => [](IInv /\ SettledAnswers /\ AnswersDeclared)
<1>1. IInv /\ SettledAnswers /\ AnswersDeclared /\ [Next]_vars
        => (IInv /\ SettledAnswers /\ AnswersDeclared)'
    BY NextKept, Stuttering DEF Kept
<1>2. QED
    BY InitKept, <1>1, PTL DEF Spec

\* Every variable keeps its type.
THEOREM TypeCorrect == Spec => []TypeOK
<1>1. IInv => TypeOK
    BY DEF IInv
<1>2. QED
    BY Invariance, <1>1, PTL

\* createAppUser: a name gets a second user only when the check of a
\* creation was escaped, or when it is linked to a second app.
THEOREM UsersAreUnique == Spec => []OneUserPerName
<1>1. IInv => OneUserPerName
    BY DEF IInv
<1>2. QED
    BY Invariance, <1>1, PTL

\* The two calls of a handler never answer 404 for a name in order, nor with
\* another user's identities, nor with an incomplete list.
THEOREM SettledRequestsSucceed == Spec => []SettledAnswers
    BY Invariance, PTL

\* Statuses are those the routes declare, but for one.
THEOREM StatusesAreDeclared == Spec => []AnswersDeclared
    BY Invariance, PTL

\* A purge that reports no failure has deleted every row it could know of.
THEOREM PurgeIsComplete == Spec => []PurgeComplete
<1>1. IInv => PurgeComplete
    BY DEF IInv, TargetsAccounted, PurgeComplete
<1>2. QED
    BY Invariance, <1>1, PTL
=============================================================================

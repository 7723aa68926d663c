---------------------------- MODULE MCIdentity ----------------------------
(* Finite instances of Identity.                                           *)
EXTENDS Identity, TLC

LowerName == [s \in {"app", "dvla", "DVLA"} |-> IF s = "DVLA" THEN "dvla" ELSE s]

\* App identity 1 belongs to user 2 and has a DVLA link that can expire.
OneUserRows ==
    {[name |-> <<"app", 1>>, user |-> 2, ttl |-> NoTtl],
     [name |-> <<"dvla", 2>>, user |-> 2, ttl |-> 1]}

\* One request of each kind that matters for two app identities and one DVLA
\* identity: new and known apps, links that expire or not, a DVLA or an app identity
\* linked to an app, links stored in capitals, lookups in both cases.
ClientCalls ==
    {[op |-> "createUser", appId |-> 2],
     [op |-> "createIdentity", name |-> <<"dvla", 2>>, appId |-> 1, expiresAt |-> NoTtl],
     [op |-> "createIdentity", name |-> <<"DVLA", 2>>, appId |-> 1, expiresAt |-> 2],
     [op |-> "createIdentity", name |-> <<"app", 2>>, appId |-> 1, expiresAt |-> 1],
     [op |-> "readIdentity", name |-> <<"DVLA", 2>>],
     [op |-> "exchangeIdentity", name |-> <<"app", 1>>, requiredService |-> "dvla"],
     [op |-> "getAllLinkedService", name |-> <<"app", 1>>],
     [op |-> "deleteIdentity", name |-> <<"DVLA", 2>>],
     [op |-> "deleteIdentity", name |-> <<"app", 1>>]}

HandlerSymmetry == Permutations(Handlers)
=============================================================================

---------------------------- MODULE ApiContract ----------------------------
(***************************************************************************)
(* What the middleware around every API handler makes of its outcome.      *)
(* zodValidator turns away a request its route's schemas refuse, before    *)
(* the handler runs; udpErrorHandling turns what a handler throws into a   *)
(* status; routes.ts declares the statuses each route may answer, which is *)
(* what the published OpenAPI document is generated from.                  *)
(***************************************************************************)
EXTENDS Naturals, Sequences

\* A route: its method and path, in which "{}" stands for a path parameter and
\* "{+}" for the rest of the path; the actions its function is granted on the
\* two tables; its queue; and the statuses it declares.
Route(method, path, data, identity, queueName, statuses) ==
    [method |-> method, path |-> path, dynamoDbActions |-> data,
     identityTableActions |-> identity, queueName |-> queueName,
     statuses |-> statuses]

IdentityPath == <<"identity", "{}", "{}">>

healthCheckRoute ==
    Route("GET", <<"_health">>, {"DescribeTable"}, {"DescribeTable"}, "", {200, 500})
createUserRoute ==
    Route("POST", <<"user">>, {"PutItem", "GetItem", "Query", "Scan"},
          {"PutItem", "GetItem", "Query", "Scan"}, "", {204, 400, 500})
exchangeIdentityRoute ==
    Route("GET", <<"identity", "exchange">>, {}, {"GetItem", "Query", "Scan"}, "",
          {200, 400, 404, 500})
createIdentityRoute ==
    Route("POST", IdentityPath, {"PutItem", "GetItem", "Query", "Scan"},
          {"PutItem", "GetItem", "Query", "Scan"}, "", {200, 400, 500})
readIdentityRoute ==
    Route("GET", IdentityPath, {"GetItem", "Query"}, {"GetItem", "Query", "Scan"}, "",
          {200, 400, 404, 500})
deleteIdentityRoute ==
    Route("DELETE", IdentityPath, {"DeleteItem", "Query"},
          {"DeleteItem", "GetItem", "Query", "Scan"}, "", {200, 400, 404, 500})
getAllLinkedServiceRoute ==
    Route("GET", IdentityPath \o <<"linked-services">>, {}, {"GetItem", "Query"}, "",
          {200, 400, 404, 500})

postDataRoute ==
    Route("POST", <<"{+}">>, {"PutItem", "Query"}, {"GetItem", "Query"}, "",
          {200, 400, 500})
patchDataRoute ==
    Route("PATCH", <<"{+}">>, {"UpdateItem", "GetItem", "Query"}, {"GetItem", "Query"}, "",
          {200, 400, 500})
getDataRoute ==
    Route("GET", <<"{+}">>, {"GetItem", "Query"}, {"GetItem", "Query"}, "",
          {200, 400, 404, 500})
deleteDataRoute ==
    Route("DELETE", <<"{+}">>, {"DeleteItem", "Query"}, {"GetItem", "Query"}, "",
          {200, 400, 404, 500})

startDsarRoute ==
    Route("POST", <<"dsar">>, {}, {}, "dsarQueue", {202, 400, 500})
startSarRoute ==
    Route("POST", <<"sar">>, {}, {}, "sarQueue", {202, 400, 500})
getSarStatusRoute ==
    Route("GET", <<"sar", "{}">>, {"GetItem"}, {"GetItem", "Query"}, "",
          {200, 400, 404, 500})

routes ==
    [healthCheck |-> healthCheckRoute,
     createUser |-> createUserRoute,
     exchangeIdentity |-> exchangeIdentityRoute,
     createIdentity |-> createIdentityRoute,
     readIdentity |-> readIdentityRoute,
     deleteIdentity |-> deleteIdentityRoute,
     postData |-> postDataRoute,
     patchData |-> patchDataRoute,
     getData |-> getDataRoute,
     deleteData |-> deleteDataRoute,
     startDsar |-> startDsarRoute,
     startSar |-> startSarRoute,
     getSarStatus |-> getSarStatusRoute,
     getAllLinkedService |-> getAllLinkedServiceRoute]

\* Fault: no route is disabled.
EveryRoute == {}

\* The routes with disableRoute
disabledRoutes == {"startDsar", "startSar", "getSarStatus"}

\* The routes with a body: jsonBodyParser runs before their validation.
ParsesBody == {"createUser", "createIdentity"}

Errors ==
    {"ZodValidationError", "IdentityRecordNotFoundError", "DataRecordNotFoundError",
     "SarNotFoundError", "IdentityLinkingInvalidIdentitesError", "EncryptionError",
     "InvalidDynamoKeyError", "MissingEnvironmentVariablesError", "other"}

\* udpErrorHandling: an error it does not know, whether or not it is a
\* BaseUDPError, is answered 500.
statusOf(error) ==
    CASE error = "ZodValidationError" -> 400
      [] error \in {"IdentityRecordNotFoundError", "DataRecordNotFoundError",
                    "SarNotFoundError"} -> 404
      [] OTHER -> 500

\* What a request can throw before its handler runs.  A body that is not JSON
\* makes jsonBodyParser throw an error of its own, not a ZodValidationError.
ValidationErrors(op) ==
    {"ZodValidationError"} \cup (IF op \in ParsesBody THEN {"other"} ELSE {})
=============================================================================

-------------------------------- MODULE Wiring --------------------------------
(***************************************************************************)
(* What the CDK app gives each function - variables, grants, a network -   *)
(* against what its handler asks for: every variable it requires and every *)
(* call to AWS it makes, resolved through the variable that names the      *)
(* resource.  Stacks of single developers, which share the VPC of dev and  *)
(* differ in their names only, are left out.                               *)
(***************************************************************************)
EXTENDS ApiContract, FiniteSets

Environments == {"dev", "stag", "prod"}
isStageOrProd(env) == env \in {"stag", "prod"}
isNotProd(env) == env # "prod"

\* The stacks that hold functions or what they use, and what each waits for.
stacks(env) ==
    {"vpc", "main", "sar", "dvla-pilot"} \cup (IF isNotProd(env) THEN {"live-schema"} ELSE {})

dependencies ==
    [s \in {"vpc", "main", "sar", "dvla-pilot", "live-schema"} |->
        CASE s = "vpc" -> {} [] s = "main" -> {"vpc"} [] OTHER -> {"main"}]

-----------------------------------------------------------------------------
(* The VPC: no way out but its endpoints.                                  *)

vpcEndpoints ==
    {"kms", "execute-api", "cognito-idp", "logs", "codebuild", "ecr", "ecr-docker",
     "secretsmanager", "sqs", "dynamodb", "s3", "sts"}

\* Fault: the policy has what the item operations need.
EndpointWithoutScan(service, action) ==
    service = "dynamodb" =>
        action \in {"BatchGetItem", "BatchWriteItem", "DeleteItem", "DescribeTable",
                    "GetItem", "PutItem", "Query", "UpdateItem"}

\* dynamoDbEndpoint and s3Endpoint have a policy, the others allow everything.
endpointAllows(service, action) ==
    CASE service = "dynamodb" ->
            action \in {"BatchGetItem", "BatchWriteItem", "DeleteItem", "DescribeTable",
                        "GetItem", "PutItem", "Query", "Scan", "UpdateItem"}
      [] service = "s3" ->
            action \in {"GetObject", "GetObjectVersion", "PutObject", "DeleteObject",
                        "ListBucket", "GetBucketLocation", "GetBucketAcl"}
      [] OTHER -> TRUE

\* The TCP ports the two security groups of functions let out, beside DNS.
DSQL_PORT == 5432
lambdaSecurityGroup == {443}
LambdaSg == {443, DSQL_PORT}

-----------------------------------------------------------------------------
(* LambdaApiConstruct.                                                     *)

\* The two together, f where both have a value.
f ++ g == [x \in DOMAIN f \cup DOMAIN g |-> IF x \in DOMAIN f THEN f[x] ELSE g[x]]

On(actions, resource) == actions \X {resource}

TableGrants(tables) == UNION {On(tables[t], t) : t \in DOMAIN tables}
KeyGrants(keys) ==
    {"Encrypt", "Decrypt", "GenerateDataKey"} \X {keys[k] : k \in DOMAIN keys}
QueueGrants(queue) == {"SendMessage"} \X queue

\* tables is a record of the granted actions, with a field for each table the
\* construct is given; keys maps the name of a key property to the key; queue
\* is empty or holds the queue.  What CDK's grant methods add comes in extra.
LambdaApiConstruct(stack, tables, keys, queue, environmentVariables, extra, ports) ==
    LET tableVariable == [data |-> "TABLE_NAME", identity |-> "IDENTITY_TABLE_NAME"]
        variables ==
            [v \in {tableVariable[t] : t \in DOMAIN tables} |->
                CHOOSE t \in DOMAIN tables : tableVariable[t] = v]
            ++ (IF "dbKmsKey" \in DOMAIN keys THEN [KMS_KEY_ID |-> keys.dbKmsKey] ELSE <<>>)
            ++ (IF queue # {} THEN [QUEUE_URL |-> CHOOSE q \in queue : TRUE] ELSE <<>>)
            ++ environmentVariables
    IN  [stack |-> stack,
         variables |-> variables,
         grants |-> TableGrants(tables) \cup KeyGrants(keys) \cup QueueGrants(queue)
                        \cup extra,
         ports |-> ports]

\* What every function but those of the live schemas is given.
Keys == [kmsKey |-> "kmsKey", dbKmsKey |-> "dbKmsKey"]
DynamoDbEndpoint == [DYNAMODB_ENDPOINT |-> "dynamoDbEndpoint"]

-----------------------------------------------------------------------------
(* The stacks' functions.                                                  *)

\* stag and prod have neither function nor method for a disabled route.
setRoutes(env) ==
    IF isStageOrProd(env) THEN DOMAIN routes \ disabledRoutes ELSE DOMAIN routes

createEventQueues(env) == {routes[r].queueName : r \in setRoutes(env)} \ {""}

createLambdaFunctions(env) ==
    [r \in setRoutes(env) |->
        LambdaApiConstruct("main",
            [data |-> routes[r].dynamoDbActions, identity |-> routes[r].identityTableActions],
            Keys, {routes[r].queueName} \cap createEventQueues(env),
            DynamoDbEndpoint, {}, lambdaSecurityGroup)]

dsarRequestLambda ==
    LambdaApiConstruct("sar",
        [data |-> {"GetItem", "Query"}, identity |-> {"GetItem", "Query"}],
        Keys, {"dsarDeleteQueue"}, DynamoDbEndpoint, {}, lambdaSecurityGroup)

dsarDeleteLambda ==
    LambdaApiConstruct("sar",
        [data |-> {"DeleteItem"}, identity |-> {"DeleteItem", "Query", "GetItem"}],
        Keys, {}, DynamoDbEndpoint, {}, lambdaSecurityGroup)

createSarFileLambda ==
    LambdaApiConstruct("sar",
        [data |-> {"GetItem", "Query"}, identity |-> {"GetItem", "Query"}],
        Keys, {"sarDLQueue"},
        DynamoDbEndpoint ++ [BUCKET_NAME |-> "sarBucket", DLQ_URL |-> "sarDLQueue"],
        On({"PutObject", "DeleteObject"}, "sarBucket"), lambdaSecurityGroup)

generateSarPresignedUrlLambda ==
    LambdaApiConstruct("sar", [data |-> {"PutItem"}],
        Keys, {}, DynamoDbEndpoint,
        On({"GetObject", "GetBucket", "ListBucket"}, "sarBucket"), lambdaSecurityGroup)

dvlaPilotPurgeLambda ==
    LambdaApiConstruct("dvla-pilot", [identity |-> {"Scan", "DeleteItem"}],
        Keys, {},
        DynamoDbEndpoint ++ [PURGE_KEY_SECRET_NAME |-> "purgeKeySecret"],
        On({"GetSecretValue"}, "purgeKeySecret")
            \cup On({"Decrypt"}, "udpParamsSecretsEncryptionKey"), lambdaSecurityGroup)

schemaExtractor ==
    LambdaApiConstruct("live-schema", <<>>, Keys, {},
        [DSQL_ENDPOINT |-> "cluster", DATA_TABLE_NAME |-> "data",
         DYNAMO_ENDPOINT |-> "dynamoDbEndpoint", USER_ID_HMAC_KEY_ID |-> "userIdHmacKey"],
        On({"UpdateItem"}, "data") \cup On({"DbConnect"}, "cluster")
            \cup On({"GenerateMac"}, "userIdHmacKey"), LambdaSg)

liveSchemaMigration ==
    LambdaApiConstruct("live-schema", <<>>, [kmsKey |-> "kmsKey"], {},
        [DSQL_ENDPOINT |-> "cluster", SCHEMA_EXTRACTOR_ROLE_ARN |-> "schemaExtractorRole"],
        On({"DbConnectAdmin"}, "cluster"), LambdaSg)

functionsOf(env) ==
    createLambdaFunctions(env)
    ++ [dsarRequest |-> dsarRequestLambda, dsarDelete |-> dsarDeleteLambda,
        createSarFile |-> createSarFileLambda,
        generateSarPresignedUrl |-> generateSarPresignedUrlLambda,
        dvlaPilotPurge |-> dvlaPilotPurgeLambda]
    ++ (IF isNotProd(env)
        THEN [liveSchemaExtractor |-> schemaExtractor, liveSchemaMigration |-> liveSchemaMigration]
        ELSE <<>>)

functions ==
    [dev |-> functionsOf("dev"), stag |-> functionsOf("stag"), prod |-> functionsOf("prod")]

\* Which function consumes what.  The app passes the SAR stack no queue in
\* stag and prod.
eventSources(env) ==
    (IF isStageOrProd(env) THEN {}
     ELSE {<<"dsarRequest", "dsarQueue">>, <<"dsarDelete", "dsarDeleteQueue">>,
           <<"createSarFile", "sarQueue">>})
    \cup {<<"generateSarPresignedUrl", "sarBucket">>}
    \cup (IF isNotProd(env) THEN {<<"liveSchemaExtractor", "stream">>} ELSE {})

-----------------------------------------------------------------------------
(* The handlers: the variables each requires, the one its DynamoDB client  *)
(* takes its endpoint from, and its calls to the resource in a variable.   *)

Handler(requires, calls) ==
    [requires |-> requires, endpoint |-> "DYNAMODB_ENDPOINT", calls |-> calls]

\* The API's handlers read both names, whichever table they use.
ApiHandler(calls) == Handler({"TABLE_NAME", "IDENTITY_TABLE_NAME"}, calls)
Queue(requires) == Handler(requires, On({"SendMessage"}, "QUEUE_URL"))

OnData(actions) == On(actions, "TABLE_NAME")
OnIdentity(actions) == On(actions, "IDENTITY_TABLE_NAME")
Encrypts == On({"GenerateDataKey"}, "KMS_KEY_ID")
Decrypts == On({"Decrypt"}, "KMS_KEY_ID")

\* The identity of a request's headers or path.
getByServiceId == OnIdentity({"Query"}) \cup Decrypts

healthCheckHandler == ApiHandler(OnData({"DescribeTable"}) \cup OnIdentity({"DescribeTable"}))
createUserHandler == ApiHandler(OnIdentity({"Query", "PutItem"}) \cup Encrypts)
createIdentityHandler == ApiHandler(OnIdentity({"Query", "PutItem"}) \cup Encrypts)
readIdentityHandler == ApiHandler(getByServiceId)
exchangeIdentityHandler == ApiHandler(getByServiceId)
deleteIdentityHandler == ApiHandler(getByServiceId \cup OnIdentity({"DeleteItem"}))
getAllLinkedServiceHandler == ApiHandler(getByServiceId)
postDataHandler == ApiHandler(getByServiceId \cup OnData({"PutItem"}) \cup Encrypts)
patchDataHandler ==
    ApiHandler(getByServiceId \cup OnData({"GetItem", "UpdateItem"}) \cup Encrypts)
getDataHandler == ApiHandler(getByServiceId \cup OnData({"GetItem"}))
deleteDataHandler == ApiHandler(getByServiceId \cup OnData({"DeleteItem"}))
getSarStatusHandler == ApiHandler(getByServiceId \cup OnData({"GetItem"}))
startDsarHandler == Queue({"QUEUE_URL"})
startSarHandler == Queue({"QUEUE_URL"})

dsarRequestHandler ==
    Handler({"TABLE_NAME", "IDENTITY_TABLE_NAME", "QUEUE_URL"},
        getByServiceId \cup OnData({"Query"}) \cup On({"SendMessage"}, "QUEUE_URL"))

dsarDeleteHandler ==
    ApiHandler(OnData({"DeleteItem"}) \cup OnIdentity({"Query", "DeleteItem"}))

createSarFileHandler ==
    Handler({"TABLE_NAME", "IDENTITY_TABLE_NAME", "BUCKET_NAME", "DLQ_URL"},
        getByServiceId \cup OnData({"Query"}) \cup On({"PutObject"}, "BUCKET_NAME")
            \cup On({"SendMessage"}, "DLQ_URL"))

\* The bucket is the one its event names.
generateSarPresignedUrlHandler ==
    Handler({"TABLE_NAME"},
        On({"GetObject"}, "sarBucket") \cup OnData({"PutItem"}) \cup Encrypts)

dvlaPilotPurgeHandler ==
    Handler({"IDENTITY_TABLE_NAME", "PURGE_KEY_SECRET_NAME"},
        On({"GetSecretValue"}, "PURGE_KEY_SECRET_NAME") \cup OnIdentity({"Scan", "DeleteItem"}))

liveSchemaExtractorHandler ==
    [requires |-> {"DSQL_ENDPOINT", "DATA_TABLE_NAME", "USER_ID_HMAC_KEY_ID"},
     endpoint |-> "DYNAMO_ENDPOINT",
     calls |-> Decrypts \cup On({"DbConnect"}, "DSQL_ENDPOINT")
                \cup On({"GenerateMac"}, "USER_ID_HMAC_KEY_ID")
                \cup On({"UpdateItem"}, "DATA_TABLE_NAME")]

liveSchemaMigrationHandler ==
    Handler({"DSQL_ENDPOINT", "SCHEMA_EXTRACTOR_ROLE_ARN"},
        On({"DbConnectAdmin"}, "DSQL_ENDPOINT"))

handlers ==
    [healthCheck |-> healthCheckHandler, createUser |-> createUserHandler,
     createIdentity |-> createIdentityHandler, readIdentity |-> readIdentityHandler,
     exchangeIdentity |-> exchangeIdentityHandler, deleteIdentity |-> deleteIdentityHandler,
     getAllLinkedService |-> getAllLinkedServiceHandler, postData |-> postDataHandler,
     patchData |-> patchDataHandler, getData |-> getDataHandler,
     deleteData |-> deleteDataHandler, getSarStatus |-> getSarStatusHandler,
     startDsar |-> startDsarHandler, startSar |-> startSarHandler,
     dsarRequest |-> dsarRequestHandler, dsarDelete |-> dsarDeleteHandler,
     createSarFile |-> createSarFileHandler,
     generateSarPresignedUrl |-> generateSarPresignedUrlHandler,
     dvlaPilotPurge |-> dvlaPilotPurgeHandler,
     liveSchemaExtractor |-> liveSchemaExtractorHandler,
     liveSchemaMigration |-> liveSchemaMigrationHandler]

-----------------------------------------------------------------------------
(* What becomes of a handler's calls.                                      *)

ServiceOf(resource) ==
    CASE resource \in {"data", "identity"} -> "dynamodb"
      [] resource = "sarBucket" -> "s3"
      [] resource = "cluster" -> "dsql"
      [] resource = "purgeKeySecret" -> "secretsmanager"
      [] resource \in {"kmsKey", "dbKmsKey", "userIdHmacKey"} -> "kms"
      [] OTHER -> "sqs"

\* The calls of a key that come with a call to what the key encrypts.
KeyUse(resource) ==
    CASE ServiceOf(resource) = "sqs" -> On({"GenerateDataKey", "Decrypt"}, "kmsKey")
      [] ServiceOf(resource) = "s3" -> On({"GenerateDataKey", "Decrypt"}, "kmsKey")
      [] ServiceOf(resource) = "dynamodb" -> On({"Decrypt"}, "kmsKey")
      [] resource = "purgeKeySecret" -> On({"Decrypt"}, "udpParamsSecretsEncryptionKey")
      [] OTHER -> {}

\* The endpoint of the cluster is the live schema stack's own.  DynamoDB has no
\* private DNS: a client is to be given the endpoint.
Reaches(function, handler, service, action) ==
    /\ (IF service = "dsql" THEN DSQL_PORT ELSE 443) \in function.ports
    /\ service \in vpcEndpoints \cup {"dsql"}
    /\ endpointAllows(service, action)
    /\ service = "dynamodb" => handler.endpoint \in DOMAIN function.variables

resourceOf(function, request) ==
    IF request[2] \in DOMAIN function.variables THEN function.variables[request[2]]
    ELSE request[2]

Makes(function, handler, request) ==
    LET resource == resourceOf(function, request)
    IN  /\ <<request[1], resource>> \in function.grants
        /\ KeyUse(resource) \subseteq function.grants
        /\ Reaches(function, handler, ServiceOf(resource), request[1])

\* The variables a function lacks, and its calls that are not granted or reach
\* nothing.
refusals(function, handler) ==
    {"requires"} \X (handler.requires \ DOMAIN function.variables)
        \cup {request \in handler.calls : ~Makes(function, handler, request)}

refused ==
    UNION {UNION {{<<env, name>>} \X refusals(functions[env][name], handlers[name]) :
                  name \in DOMAIN functions[env]} : env \in Environments}
=============================================================================

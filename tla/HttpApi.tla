------------------------------- MODULE HttpApi -------------------------------
(***************************************************************************)
(* One API process as its clients see it: the middleware of createApp, the *)
(* routes of products and campaigns with their services, GET /health and   *)
(* GET /metrics.  POST /orders is OrderPlacement, GET /orders Pagination.  *)
(*                                                                         *)
(* A step of a request runs from one await to the next.  The id a row gets *)
(* is drawn for the request that creates it, so the request stands for the *)
(* id, and the row's columns are those of its call.                        *)
(***************************************************************************)
EXTENDS Metrics

CONSTANTS
  Requests,
  Calls,      \* Calls[r]: what request r may ask for
  Took,       \* Took[r]: the milliseconds it takes
  Tenants,
  NoTenant,   \* X-Tenant-Id missing, blank or badly formed
  NoCall,
  Skus,
  MaxInt,     \* the largest INT UNSIGNED
  Impatient,  \* requests whose client may close the connection
  Faults      \* calls of MySQL may fail and the process may crash

Route == {"createProduct", "createCampaign", "readProduct", "health", "metrics"}

(* form is what parsers make of the body: no JSON, JSON that the schema    *)
(* refuses, or neither.  amount is the stock of a product or a campaign's  *)
(* max_per_user.  A route looks at the fields that concern it.             *)
Call == [route : Route, tenant : Tenants \cup {NoTenant},
         form : {"malformed", "invalid", "valid"},
         sku : Skus, amount : Nat, product : Requests, start : Nat, end : Nat]

ASSUME ApiAssumption ==
  /\ NoTenant \notin Tenants /\ NoCall \notin Call
  /\ Calls \in [Requests -> SUBSET Call]
  /\ Took \in [Requests -> Nat]
  /\ MaxInt \in Nat
  /\ Impatient \subseteq Requests
  /\ Faults \in BOOLEAN

VARIABLES
  products,    \* the ids in the table `products`
  campaigns,   \* the ids in the table `flash_sale_campaigns`
  at,          \* what each request does next
  call,        \* what it asks for, once it has been sent
  status,      \* the status it was answered with, or 0
  left         \* requests whose client has closed the connection

tableVars == <<products, campaigns>>
httpVars == <<at, call, status, left>>
apiVars == <<tableVars, httpVars, metricsVars>>

(* "answered" is handed over to the socket, "finished" has left it, and    *)
(* "gone" is of a process that has died since.                             *)
Step == {"new", "findSku", "insertProduct", "findProduct", "insertCampaign",
         "readProduct", "queryDatabase", "pingRedis", "answered", "finished",
         "gone"}

-----------------------------------------------------------------------------
Goto(r, step) == at' = [at EXCEPT ![r] = step]

Proceed(r, step) == Goto(r, step) /\ UNCHANGED status

(* Mutant of Answer: next(err) without a return.                           *)
AnswerAndGoOn(r, code) == status' = [status EXCEPT ![r] = code] /\ UNCHANGED at

Answer(r, code) == Goto(r, "answered") /\ status' = [status EXCEPT ![r] = code]

(* Mutant of ErrorHandler: a promise that rejects and nobody catches.      *)
Uncaught(r) == Proceed(r, "lost")

(* What is no HttpError is an INTERNAL_ERROR, through asyncHandler.        *)
ErrorHandler(r) == Answer(r, 500)

TenantRoutes == {"createProduct", "createCampaign", "readProduct"}

(* Mutant of WindowIsEmpty: the end may be the start.                      *)
WindowIsReversed(c) == c.end < c.start

(* INVALID_CAMPAIGN_WINDOW                                                 *)
WindowIsEmpty(c) == c.end <= c.start

(* requireTenant                                                           *)
TenantMissing(c) == c.route \in TenantRoutes /\ c.tenant = NoTenant

(* validateBody, which only the POST routes have.                          *)
BodyRefused(c) == c.route \in {"createProduct", "createCampaign"} /\ c.form = "invalid"

(* What is refused before the first await.                                 *)
BadRequest(c) ==
  \/ TenantMissing(c)
  \/ BodyRefused(c)
  \/ c.route = "createCampaign" /\ WindowIsEmpty(c)

(* The first await of each route.                                          *)
FirstAwait(route) ==
  CASE route = "createProduct"  -> "findSku"
    [] route = "createCampaign" -> "findProduct"
    [] route = "readProduct"    -> "readProduct"
    [] route = "health"         -> "queryDatabase"

(* Mutant of SameSku: a tenant's name is left out of the condition.        *)
SameSkuAnywhere(r, p) == call[p].sku = call[r].sku

SameSku(r, p) == call[p].tenant = call[r].tenant /\ call[p].sku = call[r].sku

Owns(r, p) == p \in products /\ call[p].tenant = call[r].tenant

SkuTaken(r) == \E p \in products : SameSku(r, p)

Fits(r) == call[r].amount <= MaxInt

(* The table has UQ_products_tenant_sku.                                   *)
InsertsProduct(r) == ~SkuTaken(r) /\ Fits(r)

-----------------------------------------------------------------------------
(* express.json comes first: a body it cannot parse never gets to the      *)
(* middleware of the metrics, and its error is no HttpError.               *)
ParseFails(r, c) ==
  /\ at[r] = "new" /\ c.form = "malformed"
  /\ call' = [call EXCEPT ![r] = c]
  /\ ErrorHandler(r)
  /\ UNCHANGED <<tableVars, left, metricsVars>>

Receive(r, c) ==
  /\ at[r] = "new" /\ c.form # "malformed"
  /\ call' = [call EXCEPT ![r] = c]
  /\ IncrementRequestCount
  /\ IF BadRequest(c) THEN Answer(r, 400)
     ELSE IF c.route = "metrics" THEN Answer(r, 200)
     ELSE Proceed(r, FirstAwait(c.route))
  /\ UNCHANGED <<tableVars, left>>

(* ProductsService.create                                                  *)
FindSku(r) ==
  /\ at[r] = "findSku"
  /\ IF SkuTaken(r) THEN Answer(r, 409)
     ELSE Proceed(r, "insertProduct")
  /\ UNCHANGED <<tableVars, call, left, metricsVars>>

InsertProduct(r) ==
  /\ at[r] = "insertProduct"
  /\ IF InsertsProduct(r)
       THEN Answer(r, 201) /\ products' = products \cup {r}
       ELSE ErrorHandler(r) /\ UNCHANGED products
  /\ UNCHANGED <<campaigns, call, left, metricsVars>>

(* CampaignsService.create                                                 *)
FindProduct(r) ==
  /\ at[r] = "findProduct"
  /\ IF Owns(r, call[r].product) THEN Proceed(r, "insertCampaign")
     ELSE Answer(r, 404)
  /\ UNCHANGED <<tableVars, call, left, metricsVars>>

InsertCampaign(r) ==
  /\ at[r] = "insertCampaign"
  /\ IF Fits(r)
       THEN Answer(r, 201) /\ campaigns' = campaigns \cup {r}
       ELSE ErrorHandler(r) /\ UNCHANGED campaigns
  /\ UNCHANGED <<products, call, left, metricsVars>>

(* GET /products/:id                                                       *)
ReadProduct(r) ==
  /\ at[r] = "readProduct"
  /\ Answer(r, IF Owns(r, call[r].product) THEN 200 ELSE 404)
  /\ UNCHANGED <<tableVars, call, left, metricsVars>>

(* GET /health: a probe that throws is part of the answer.                 *)
QueryDatabase(r) ==
  /\ at[r] = "queryDatabase"
  /\ Proceed(r, "pingRedis")
  /\ UNCHANGED <<tableVars, call, left, metricsVars>>

(* maxRetriesPerRequest is null: while Redis is down the ping neither      *)
(* succeeds nor throws, so this step may never come.                       *)
PingRedis(r) ==
  /\ at[r] = "pingRedis"
  /\ Answer(r, 200)
  /\ UNCHANGED <<tableVars, call, left, metricsVars>>

(* The 'finish' of a response, which the middleware of the metrics listens *)
(* to, comes only if its client is still there.                            *)
Finish(r) ==
  /\ at[r] = "answered" /\ r \notin left
  /\ Goto(r, "finished")
  /\ IF call[r].form = "malformed" THEN UNCHANGED metricsVars
     ELSE RecordLatencyMs(Took[r])
  /\ UNCHANGED <<tableVars, call, status, left>>

-----------------------------------------------------------------------------
Leave(r) ==
  /\ r \in Impatient \ left /\ at[r] \notin {"new", "finished", "gone"}
  /\ left' = left \cup {r}
  /\ UNCHANGED <<tableVars, at, call, status, metricsVars>>

QueriesMySQL == {"findSku", "insertProduct", "findProduct", "insertCampaign",
                 "readProduct"}

CallFails(r) ==
  /\ at[r] \in QueriesMySQL
  /\ ErrorHandler(r)
  /\ UNCHANGED <<tableVars, call, left, metricsVars>>

(* The INSERT is committed, and its answer or what save reads back of the  *)
(* row is lost.                                                            *)
InsertUnanswered(r) ==
  /\ \/ /\ at[r] = "insertProduct" /\ InsertsProduct(r)
        /\ products' = products \cup {r}
        /\ UNCHANGED campaigns
     \/ /\ at[r] = "insertCampaign" /\ Fits(r)
        /\ campaigns' = campaigns \cup {r}
        /\ UNCHANGED products
  /\ ErrorHandler(r)
  /\ UNCHANGED <<call, left, metricsVars>>

(* The process dies, and with it its requests and metrics, and starts anew. *)
Crash ==
  /\ at' = [r \in Requests |-> IF at[r] = "new" THEN "new" ELSE "gone"]
  /\ ForgetMetrics
  /\ UNCHANGED <<tableVars, call, status, left>>

-----------------------------------------------------------------------------
Init ==
  /\ products = {} /\ campaigns = {}
  /\ at = [r \in Requests |-> "new"]
  /\ call = [r \in Requests |-> NoCall]
  /\ status = [r \in Requests |-> 0]
  /\ left = {}
  /\ FreshMetrics

Arrive(r) == \E c \in Calls[r] : ParseFails(r, c) \/ Receive(r, c)

Handle(r) ==
  \/ FindSku(r) \/ InsertProduct(r)
  \/ FindProduct(r) \/ InsertCampaign(r)
  \/ ReadProduct(r)
  \/ QueryDatabase(r)
  \/ Finish(r)

Disturbance ==
  \/ \E r \in Requests : Leave(r)
  \/ Faults /\ (Crash \/ \E r \in Requests : CallFails(r) \/ InsertUnanswered(r))

Next ==
  \/ \E r \in Requests : Arrive(r) \/ Handle(r) \/ PingRedis(r)
  \/ Disturbance

Spec == Init /\ [][Next]_apiVars

(* The event loop runs what is ready, and MySQL answers or the driver      *)
(* throws.  Redis need not answer.                                         *)
FairSpec == Spec /\ \A r \in Requests : WF_apiVars(Handle(r))

-----------------------------------------------------------------------------
TypeOK ==
  /\ products \subseteq Requests /\ campaigns \subseteq Requests
  /\ at \in [Requests -> Step]
  /\ call \in [Requests -> Call \cup {NoCall}]
  /\ status \in [Requests -> {0, 200, 201, 400, 404, 409, 500}]
  /\ \A r \in Requests :
       at[r] # "gone" => (status[r] # 0 <=> at[r] \in {"answered", "finished"})
  /\ left \subseteq Requests
  /\ MetricsTypeOK

(* Every campaign is one that the workers may take for granted             *)
(* (AcceptedCampaign of OrderStore): it lasts for some time, and its       *)
(* product is there and belongs to the campaign's tenant.                  *)
CampaignsAccepted ==
  \A c \in campaigns :
    /\ call[c].start < call[c].end
    /\ call[c].product \in products
    /\ call[call[c].product].tenant = call[c].tenant

(* A 201 means a row, a 409 another product of the tenant with the SKU,    *)
(* and what is refused is not stored.  Only a 500 leaves it open.          *)
AnswersAreTrue ==
  \A r \in Requests :
    /\ status[r] = 201 => r \in products \cup campaigns
    /\ status[r] \in {400, 404, 409} => r \notin products \cup campaigns
    /\ status[r] = 409 =>
         \E p \in products :
           call[p].tenant = call[r].tenant /\ call[p].sku = call[r].sku

(* The requests the process has seen the middleware of the metrics count.  *)
Counted == {r \in Requests : at[r] \notin {"new", "gone"} /\ call[r].form # "malformed"}

(* Requests and samples tell the same story: a request is counted once,    *)
(* and timed once if its client has waited for the answer.                 *)
MetricsAgree ==
  /\ requestCount = Cardinality(Counted)
  /\ Len(timings) = Cardinality({r \in Counted : at[r] = "finished"})

(* A request is answered, whatever fails on the way, unless its process    *)
(* dies or it waits for Redis.                                             *)
EveryRequestAnswered ==
  \A r \in Requests :
    at[r] # "new" ~> status[r] # 0 \/ at[r] \in {"gone", "pingRedis"}
=============================================================================

---------------------------- MODULE HttpApiProofs ----------------------------
(***************************************************************************)
(* What the routes of the catalogue keep true of its tables, for any       *)
(* tenants, requests and interleaving of their steps, and what the window  *)
(* of the latencies holds.                                                 *)
(***************************************************************************)
EXTENDS HttpApi, MetricsProofs

(* What has been sent stays as it is; a row's request is done with.        *)
Sent == \A r \in Requests : at[r] # "new" => call[r] \in Call

Stored ==
  \A r \in products \cup campaigns :
    at[r] \in {"answered", "finished", "gone"} /\ status[r] \in {201, 500}

(* What a campaign's request has checked before its INSERT.                *)
Checked ==
  \A r \in Requests :
    /\ at[r] \in {"findProduct", "insertCampaign"} => call[r].start < call[r].end
    /\ at[r] = "insertCampaign" =>
         /\ call[r].product \in products
         /\ call[call[r].product].tenant = call[r].tenant

HttpInv ==
  TypeOK /\ Sent /\ Stored /\ Checked /\ CampaignsAccepted /\ AnswersAreTrue

-----------------------------------------------------------------------------
Codes == {200, 201, 400, 404, 409, 500}

(* What a step does to the request that takes it: it goes on, or it is      *)
(* answered with one of the codes.                                         *)
Moves(r) ==
  \/ /\ \E step \in Step \ {"new", "answered", "finished", "gone"} :
          at' = [at EXCEPT ![r] = step]
     /\ status' = status
  \/ /\ at' = [at EXCEPT ![r] = "answered"]
     /\ \E code \in Codes : status' = [status EXCEPT ![r] = code]

UnderWay(r) == at[r] \notin {"new", "answered", "finished", "gone"}

LEMMA MovesTyped ==
  ASSUME TypeOK, NEW r \in Requests, at[r] = "new" \/ UnderWay(r), Moves(r)
  PROVE  /\ at' \in [Requests -> Step]
         /\ status' \in [Requests -> {0} \cup Codes]
         /\ \A s \in Requests :
              at'[s] # "gone" => (status'[s] # 0 <=> at'[s] \in {"answered", "finished"})
BY DEF TypeOK, Moves, UnderWay, Codes, Step

LEMMA AnswerMoves ==
  ASSUME TypeOK, NEW r \in Requests, NEW code \in Codes, Answer(r, code)
  PROVE  Moves(r) /\ at'[r] = "answered" /\ status'[r] = code
<1>1. /\ at' = [at EXCEPT ![r] = "answered"]
      /\ status' = [status EXCEPT ![r] = code]
  BY DEF Answer, Goto
<1>2. Moves(r)
  BY <1>1 DEF Moves
<1> QED BY <1>1, <1>2 DEF TypeOK

LEMMA ProceedMoves ==
  ASSUME TypeOK, NEW r \in Requests,
         NEW step \in Step \ {"new", "answered", "finished", "gone"}, Proceed(r, step)
  PROVE  Moves(r) /\ at'[r] = step /\ status'[r] = status[r]
<1>1. at' = [at EXCEPT ![r] = step] /\ status' = status
  BY DEF Proceed, Goto
<1>2. Moves(r)
  BY <1>1 DEF Moves
<1> QED BY <1>1, <1>2 DEF TypeOK

(* The requests that arrive.                                               *)
LEMMA ArriveEffect ==
  ASSUME TypeOK, NEW r \in Requests, NEW c \in Call, ParseFails(r, c) \/ Receive(r, c)
  PROVE  /\ at[r] = "new" /\ Moves(r)
         /\ call' = [call EXCEPT ![r] = c]
         /\ UNCHANGED <<products, campaigns, left>>
         /\ at'[r] = "findProduct" => c.start < c.end
         /\ at'[r] # "insertCampaign"
         /\ status'[r] \notin {201, 404, 409}
<1>1. /\ at[r] = "new" /\ call' = [call EXCEPT ![r] = c]
      /\ UNCHANGED <<products, campaigns, left>>
  BY DEF ParseFails, Receive, tableVars
<1>2. CASE Answer(r, 200) \/ Answer(r, 400) \/ Answer(r, 500)
  BY <1>1, <1>2, AnswerMoves DEF Codes
<1>3. CASE ~BadRequest(c) /\ c.route # "metrics" /\ Proceed(r, FirstAwait(c.route))
  <2>1. c.route \in {"createProduct", "createCampaign", "readProduct", "health"}
    BY <1>3 DEF Call, Route
  <2>2. /\ FirstAwait(c.route) \in {"findSku", "findProduct", "readProduct", "queryDatabase"}
        /\ FirstAwait(c.route) = "findProduct" => c.route = "createCampaign"
    BY <2>1 DEF FirstAwait
  <2>3. c.route = "createCampaign" => c.start < c.end
    BY <1>3 DEF BadRequest, TenantMissing, WindowIsEmpty, Call
  <2>4. Moves(r) /\ at'[r] = FirstAwait(c.route) /\ status'[r] = status[r]
    BY <1>3, <2>2, ProceedMoves DEF Step
  <2>5. status[r] = 0
    BY <1>1 DEF TypeOK
  <2> QED BY <1>1, <2>2, <2>3, <2>4, <2>5
<1> QED BY <1>2, <1>3 DEF ParseFails, Receive, ErrorHandler

(* The queries, which leave the tables alone.                              *)
LEMMA QueryEffect ==
  ASSUME TypeOK, NEW r \in Requests,
         \/ FindSku(r) \/ FindProduct(r) \/ ReadProduct(r) \/ QueryDatabase(r)
         \/ PingRedis(r) \/ CallFails(r)
  PROVE  /\ UnderWay(r) /\ Moves(r)
         /\ UNCHANGED <<products, campaigns, call, left, metricsVars>>
         /\ at'[r] # "findProduct"
         /\ at'[r] = "insertCampaign" =>
              at[r] = "findProduct" /\ Owns(r, call[r].product)
         /\ status'[r] # 201
         /\ status'[r] = 409 => SkuTaken(r)
<1> DEFINE Answered(code) == Moves(r) /\ at'[r] = "answered" /\ status'[r] = code
           Went(step)     == Moves(r) /\ at'[r] = step /\ status'[r] = status[r]
<1>1. \A code \in Codes : Answer(r, code) => Answered(code)
  BY AnswerMoves
<1>2. \A step \in {"insertProduct", "insertCampaign", "pingRedis"} :
        Proceed(r, step) => Went(step)
  BY ProceedMoves DEF Step
<1>3. UnderWay(r) => status[r] = 0
  BY DEF TypeOK, UnderWay
<1> HIDE DEF Answered, Went
<1>4. CASE FindSku(r)
  BY <1>1, <1>2, <1>3, <1>4 DEF FindSku, UnderWay, Codes, tableVars, Answered, Went
<1>5. CASE FindProduct(r)
  BY <1>1, <1>2, <1>3, <1>5 DEF FindProduct, UnderWay, Codes, tableVars, Answered, Went
<1>6. CASE ReadProduct(r)
  BY <1>1, <1>6 DEF ReadProduct, UnderWay, Codes, tableVars, Answered
<1>7. CASE QueryDatabase(r)
  BY <1>2, <1>3, <1>7 DEF QueryDatabase, UnderWay, tableVars, Went
<1>8. CASE PingRedis(r)
  BY <1>1, <1>8 DEF PingRedis, UnderWay, Codes, tableVars, Answered
<1>9. CASE CallFails(r)
  BY <1>1, <1>9 DEF CallFails, QueriesMySQL, ErrorHandler, UnderWay, Codes, tableVars, Answered
<1> QED BY <1>4, <1>5, <1>6, <1>7, <1>8, <1>9

(* The INSERTs.                                                            *)
LEMMA InsertEffect ==
  ASSUME TypeOK, NEW r \in Requests,
         InsertProduct(r) \/ InsertCampaign(r) \/ InsertUnanswered(r)
  PROVE  /\ UnderWay(r) /\ Moves(r) /\ at'[r] = "answered"
         /\ UNCHANGED <<call, left, metricsVars>>
         /\ \/ UNCHANGED <<products, campaigns>> /\ status'[r] = 500
            \/ /\ at[r] = "insertProduct"
               /\ products' = products \cup {r} /\ campaigns' = campaigns
               /\ status'[r] \in {201, 500}
            \/ /\ at[r] = "insertCampaign"
               /\ campaigns' = campaigns \cup {r} /\ products' = products
               /\ status'[r] \in {201, 500}
<1> DEFINE Answered(code) == Moves(r) /\ at'[r] = "answered" /\ status'[r] = code
<1>1. \A code \in Codes : Answer(r, code) => Answered(code)
  BY AnswerMoves
<1> HIDE DEF Answered
<1>2. CASE InsertProduct(r)
  BY <1>1, <1>2 DEF InsertProduct, InsertsProduct, ErrorHandler, UnderWay, Codes, Answered
<1>3. CASE InsertCampaign(r)
  BY <1>1, <1>3 DEF InsertCampaign, ErrorHandler, UnderWay, Codes, Answered
<1>4. CASE InsertUnanswered(r)
  BY <1>1, <1>4 DEF InsertUnanswered, InsertsProduct, ErrorHandler, UnderWay, Codes, Answered
<1> QED BY <1>2, <1>3, <1>4

LEMMA HttpInit == Init => HttpInv
<1> SUFFICES ASSUME Init PROVE HttpInv
  OBVIOUS
<1>1. TypeOK
  BY DEF Init, TypeOK, Step, FreshMetrics, MetricsTypeOK
<1> QED BY <1>1 DEF Init, HttpInv, Sent, Stored, Checked, CampaignsAccepted,
                    AnswersAreTrue

(* One lemma per kind of step: what it does to the rest of HttpInv.        *)
Rest == Sent /\ Stored /\ Checked /\ CampaignsAccepted /\ AnswersAreTrue

LEMMA ArriveKeepsRest ==
  ASSUME HttpInv, NEW r \in Requests, NEW c \in Call, ParseFails(r, c) \/ Receive(r, c)
  PROVE  Rest'
<1>1. /\ at[r] = "new" /\ Moves(r)
      /\ call' = [call EXCEPT ![r] = c]
      /\ products' = products /\ campaigns' = campaigns
      /\ at'[r] = "findProduct" => c.start < c.end
      /\ at'[r] # "insertCampaign"
      /\ status'[r] \notin {201, 404, 409}
  BY ArriveEffect DEF HttpInv
<1>2. \A s \in Requests \ {r} : at'[s] = at[s] /\ status'[s] = status[s] /\ call'[s] = call[s]
  BY <1>1 DEF Moves, HttpInv, TypeOK
<1>3. call'[r] = c
  BY <1>1 DEF HttpInv, TypeOK
<1>4. r \notin products \cup campaigns
  BY <1>1 DEF HttpInv, Stored
<1>5. products \subseteq Requests /\ campaigns \subseteq Requests
  BY DEF HttpInv, TypeOK
<1>6. Sent' /\ Stored'
  BY <1>1, <1>2, <1>3, <1>4, <1>5 DEF HttpInv, Sent, Stored
<1>7. Checked'
  BY <1>1, <1>2, <1>3, <1>4, <1>5 DEF HttpInv, Checked
<1>8. CampaignsAccepted'
  BY <1>1, <1>2, <1>4, <1>5 DEF HttpInv, CampaignsAccepted
<1>9. AnswersAreTrue'
  BY <1>1, <1>2, <1>4, <1>5 DEF HttpInv, AnswersAreTrue
<1> QED BY <1>6, <1>7, <1>8, <1>9 DEF Rest

LEMMA QueryKeepsRest ==
  ASSUME HttpInv, NEW r \in Requests,
         \/ FindSku(r) \/ FindProduct(r) \/ ReadProduct(r) \/ QueryDatabase(r)
         \/ PingRedis(r) \/ CallFails(r)
  PROVE  Rest'
<1>1. /\ UnderWay(r) /\ Moves(r)
      /\ products' = products /\ campaigns' = campaigns /\ call' = call
      /\ at'[r] # "findProduct"
      /\ at'[r] = "insertCampaign" => at[r] = "findProduct" /\ Owns(r, call[r].product)
      /\ status'[r] # 201
      /\ status'[r] = 409 => SkuTaken(r)
  BY QueryEffect DEF HttpInv
<1>2. \A s \in Requests \ {r} : at'[s] = at[s] /\ status'[s] = status[s]
  BY <1>1 DEF Moves, HttpInv, TypeOK
<1>3. r \notin products \cup campaigns
  BY <1>1 DEF HttpInv, Stored, UnderWay
<1>4. products \subseteq Requests /\ campaigns \subseteq Requests
  BY DEF HttpInv, TypeOK
<1>5. Sent' /\ Stored'
  BY <1>1, <1>2, <1>3, <1>4 DEF HttpInv, Sent, Stored, UnderWay
<1>6. Checked'
  BY <1>1, <1>2 DEF HttpInv, Checked, Owns
<1>7. CampaignsAccepted'
  BY <1>1 DEF HttpInv, CampaignsAccepted
<1>8. AnswersAreTrue'
  BY <1>1, <1>2, <1>3 DEF HttpInv, AnswersAreTrue, SkuTaken, SameSku
<1> QED BY <1>5, <1>6, <1>7, <1>8 DEF Rest

LEMMA InsertKeepsRest ==
  ASSUME HttpInv, NEW r \in Requests,
         InsertProduct(r) \/ InsertCampaign(r) \/ InsertUnanswered(r)
  PROVE  Rest'
<1>1. /\ UnderWay(r) /\ Moves(r) /\ at'[r] = "answered" /\ call' = call
      /\ \/ products' = products /\ campaigns' = campaigns /\ status'[r] = 500
         \/ /\ at[r] = "insertProduct"
            /\ products' = products \cup {r} /\ campaigns' = campaigns
            /\ status'[r] \in {201, 500}
         \/ /\ at[r] = "insertCampaign"
            /\ campaigns' = campaigns \cup {r} /\ products' = products
            /\ status'[r] \in {201, 500}
  BY InsertEffect DEF HttpInv
<1>2. \A s \in Requests \ {r} : at'[s] = at[s] /\ status'[s] = status[s]
  BY <1>1 DEF Moves, HttpInv, TypeOK
<1>3. status[r] = 0 /\ at[r] # "new"
  BY <1>1 DEF HttpInv, TypeOK, UnderWay
<1>4. Sent' /\ Stored'
  BY <1>1, <1>2, <1>3 DEF HttpInv, Sent, Stored, UnderWay, TypeOK
<1>5. Checked'
  BY <1>1, <1>2 DEF HttpInv, Checked
<1>6. CampaignsAccepted'
  BY <1>1 DEF HttpInv, CampaignsAccepted, Checked
<1>7. AnswersAreTrue'
  <2>1. CASE products' = products /\ campaigns' = campaigns /\ status'[r] = 500
    BY <1>1, <1>2, <2>1 DEF HttpInv, AnswersAreTrue
  <2>2. CASE /\ products' \cup campaigns' = products \cup campaigns \cup {r}
             /\ products \subseteq products'
             /\ status'[r] \in {201, 500}
    BY <1>1, <1>2, <2>2 DEF HttpInv, AnswersAreTrue
  <2> QED BY <1>1, <2>1, <2>2
<1> QED BY <1>4, <1>5, <1>6, <1>7 DEF Rest

(* Steps that only end requests: they leave tables, calls and answers alone. *)
LEMMA EndKeepsRest ==
  ASSUME HttpInv,
         UNCHANGED <<products, campaigns, call, status>>,
         \A r \in Requests : at'[r] = at[r] \/ (at[r] # "new" /\ at'[r] \in {"finished", "gone"})
  PROVE  Rest'
<1>1. products \subseteq Requests /\ campaigns \subseteq Requests
  BY DEF HttpInv, TypeOK
<1>2. Sent' /\ Stored'
  BY <1>1 DEF HttpInv, Sent, Stored
<1>3. Checked'
  BY DEF HttpInv, Checked
<1>4. CampaignsAccepted' /\ AnswersAreTrue'
  BY DEF HttpInv, CampaignsAccepted, AnswersAreTrue
<1> QED BY <1>2, <1>3, <1>4 DEF Rest

LEMMA FinishEffect ==
  ASSUME TypeOK, NEW r \in Requests, Finish(r)
  PROVE  /\ at[r] = "answered" /\ at' = [at EXCEPT ![r] = "finished"]
         /\ UNCHANGED <<products, campaigns, call, status, left>>
         /\ MetricsTypeOK'
<1>1. UNCHANGED metricsVars \/ RecordLatencyMs(Took[r])
  BY DEF Finish
<1>2. Took[r] \in Nat
  BY ApiAssumption
<1>3. MetricsTypeOK'
  BY <1>1, <1>2, MetricsStayTyped DEF TypeOK
<1> QED BY <1>3 DEF Finish, Goto, tableVars

LEMMA HttpStep ==
  ASSUME HttpInv, [Next]_apiVars
  PROVE  HttpInv'
<1> USE DEF HttpInv
<1>1. ASSUME NEW r \in Requests, NEW c \in Call, ParseFails(r, c) \/ Receive(r, c)
      PROVE  HttpInv'
  <2>1. MetricsTypeOK'
    BY <1>1, MetricsStayTyped DEF ParseFails, Receive, TypeOK
  <2>2. TypeOK'
    BY <1>1, <2>1, ArriveEffect, MovesTyped DEF TypeOK, Codes
  <2> QED BY <1>1, <2>2, ArriveKeepsRest DEF Rest
<1>2. ASSUME NEW r \in Requests,
             \/ FindSku(r) \/ FindProduct(r) \/ ReadProduct(r) \/ QueryDatabase(r)
             \/ PingRedis(r) \/ CallFails(r)
      PROVE  HttpInv'
  <2>1. /\ UnderWay(r) /\ Moves(r)
        /\ UNCHANGED <<products, campaigns, call, left>> /\ UNCHANGED metricsVars
    BY <1>2, QueryEffect
  <2>2. MetricsTypeOK'
    BY <2>1, MetricsStayTyped DEF TypeOK
  <2>3. TypeOK'
    BY <2>1, <2>2, MovesTyped DEF TypeOK, Codes
  <2> QED BY <1>2, <2>3, QueryKeepsRest DEF Rest
<1>3. ASSUME NEW r \in Requests, InsertProduct(r) \/ InsertCampaign(r) \/ InsertUnanswered(r)
      PROVE  HttpInv'
  <2>1. /\ UnderWay(r) /\ Moves(r)
        /\ UNCHANGED <<call, left>> /\ UNCHANGED metricsVars
        /\ products' \subseteq products \cup {r} /\ campaigns' \subseteq campaigns \cup {r}
    BY <1>3, InsertEffect
  <2>2. MetricsTypeOK'
    BY <2>1, MetricsStayTyped DEF TypeOK
  <2>3. TypeOK'
    BY <2>1, <2>2, MovesTyped DEF TypeOK, Codes
  <2> QED BY <1>3, <2>3, InsertKeepsRest DEF Rest
<1>4. ASSUME NEW r \in Requests, Finish(r)
      PROVE  HttpInv'
  <2>1. /\ at[r] = "answered" /\ at' = [at EXCEPT ![r] = "finished"]
        /\ UNCHANGED <<products, campaigns, call, status, left>> /\ MetricsTypeOK'
    BY <1>4, FinishEffect
  <2>2. TypeOK'
    BY <2>1 DEF TypeOK, Step
  <2>3. Rest'
    BY <2>1, EndKeepsRest DEF TypeOK
  <2> QED BY <2>2, <2>3 DEF Rest
<1>5. ASSUME NEW r \in Requests, Leave(r)
      PROVE  HttpInv'
  <2>1. /\ UNCHANGED <<products, campaigns, at, call, status>> /\ UNCHANGED metricsVars
        /\ left' = left \cup {r}
    BY <1>5 DEF Leave, tableVars
  <2>2. MetricsTypeOK'
    BY <2>1, MetricsStayTyped DEF TypeOK
  <2>3. TypeOK'
    BY <2>1, <2>2 DEF TypeOK
  <2>4. Rest'
    BY <2>1, EndKeepsRest
  <2> QED BY <2>3, <2>4 DEF Rest
<1>6. CASE Crash
  <2>1. /\ UNCHANGED <<products, campaigns, call, status, left>> /\ ForgetMetrics
        /\ at' = [r \in Requests |-> IF at[r] = "new" THEN "new" ELSE "gone"]
    BY <1>6 DEF Crash, tableVars
  <2>2. MetricsTypeOK'
    BY <2>1, MetricsStayTyped DEF TypeOK
  <2>3. TypeOK'
    BY <2>1, <2>2 DEF TypeOK, Step
  <2>4. Rest'
    BY <2>1, EndKeepsRest
  <2> QED BY <2>3, <2>4 DEF Rest
<1>7. CASE UNCHANGED apiVars
  BY <1>7 DEF apiVars, tableVars, httpVars, metricsVars, TypeOK, MetricsTypeOK, Sent, Stored,
              Checked, CampaignsAccepted, AnswersAreTrue
<1>8. \A r \in Requests : Calls[r] \subseteq Call
  BY ApiAssumption
<1> QED BY <1>1, <1>2, <1>3, <1>4, <1>5, <1>6, <1>7, <1>8 DEF Next, Arrive, Handle, Disturbance

LEMMA WindowStep ==
  ASSUME TypeOK, WindowIsNewest, [Next]_apiVars
  PROVE  WindowIsNewest'
<1>2. ASSUME UNCHANGED <<latencies, timings>> PROVE WindowIsNewest'
  BY <1>2 DEF WindowIsNewest, Newest
<1>3. ASSUME NEW ms \in Nat, RecordLatencyMs(ms) PROVE WindowIsNewest'
  <2>1. latencies' = Newest(timings')
    BY <1>3, WindowMoves DEF RecordLatencyMs, WindowIsNewest, TypeOK, MetricsTypeOK
  <2> QED BY <2>1 DEF WindowIsNewest, Newest
<1>4. CASE ForgetMetrics
  BY <1>4, MetricsAssumption DEF ForgetMetrics, WindowIsNewest, Newest
<1>5. UNCHANGED <<latencies, timings>> \/ ForgetMetrics \/ \E ms \in Nat : RecordLatencyMs(ms)
  <2>1. \A r \in Requests : Took[r] \in Nat
    BY ApiAssumption
  <2>2. ASSUME NEW r \in Requests, NEW c \in Calls[r], ParseFails(r, c) \/ Receive(r, c)
        PROVE  UNCHANGED <<latencies, timings>>
    BY <2>2 DEF ParseFails, Receive, IncrementRequestCount, metricsVars
  <2>3. ASSUME NEW r \in Requests, PingRedis(r) \/ Handle(r), ~Finish(r)
        PROVE  UNCHANGED <<latencies, timings>>
    BY <2>3 DEF PingRedis, Handle, FindSku, InsertProduct, FindProduct, InsertCampaign,
                ReadProduct, QueryDatabase, metricsVars
  <2>4. ASSUME NEW r \in Requests, Finish(r)
        PROVE  UNCHANGED <<latencies, timings>> \/ RecordLatencyMs(Took[r])
    BY <2>4 DEF Finish, metricsVars
  <2>5. ASSUME Disturbance, ~Crash
        PROVE  UNCHANGED <<latencies, timings>>
    BY <2>5 DEF Disturbance, Leave, CallFails, InsertUnanswered, metricsVars
  <2>6. ASSUME Crash PROVE ForgetMetrics
    BY <2>6 DEF Crash
  <2>7. CASE UNCHANGED apiVars
    BY <2>7 DEF apiVars, metricsVars
  <2> QED BY <2>1, <2>2, <2>3, <2>4, <2>5, <2>6, <2>7 DEF Next, Arrive, Handle
<1> QED BY <1>2, <1>3, <1>4, <1>5

-----------------------------------------------------------------------------
(* Only finitely many requests have been counted, however many there are.  *)
TimedOf == {r \in Counted : at[r] = "finished"}

MetricsInv == MetricsAgree /\ IsFiniteSet(Counted)

(* What a step may do to the two counts.                                   *)
CountsOne(r) ==
  /\ r \notin Counted /\ Counted' = Counted \cup {r} /\ TimedOf' = TimedOf
  /\ IncrementRequestCount

TimesOne(r) ==
  /\ Counted' = Counted /\ r \notin TimedOf /\ TimedOf' = TimedOf \cup {r}
  /\ RecordLatencyMs(Took[r])

CountsNothing ==
  Counted' = Counted /\ TimedOf' = TimedOf /\ UNCHANGED metricsVars

ForgetsAll == Counted' = {} /\ ForgetMetrics

LEMMA MoveCounts ==
  ASSUME TypeOK, NEW r \in Requests, UnderWay(r), Moves(r), UNCHANGED call
  PROVE  Counted' = Counted /\ TimedOf' = TimedOf
<1>1. \A s \in Requests \ {r} : at'[s] = at[s]
  BY DEF Moves, TypeOK
<1>2. at'[r] \notin {"new", "gone", "finished"}
  BY DEF Moves, TypeOK
<1> QED BY <1>1, <1>2 DEF Counted, TimedOf, UnderWay

LEMMA MetricsEffect ==
  ASSUME HttpInv, [Next]_apiVars
  PROVE  \/ CountsNothing \/ ForgetsAll
         \/ \E r \in Requests : CountsOne(r) \/ TimesOne(r)
<1> USE DEF HttpInv
<1>1. ASSUME NEW r \in Requests, NEW c \in Call, ParseFails(r, c) \/ Receive(r, c)
      PROVE  CountsNothing \/ CountsOne(r)
  <2>1. at[r] = "new" /\ Moves(r) /\ call' = [call EXCEPT ![r] = c]
    BY <1>1, ArriveEffect
  <2>2. \A s \in Requests \ {r} : at'[s] = at[s] /\ call'[s] = call[s]
    BY <2>1 DEF Moves, TypeOK
  <2>3. at'[r] \notin {"new", "gone", "finished"} /\ call'[r] = c
    BY <2>1 DEF Moves, TypeOK
  <2>4. r \notin Counted
    BY <2>1 DEF Counted
  <2>5. TimedOf' = TimedOf
    BY <2>2, <2>3, <2>4 DEF TimedOf, Counted
  <2>6. CASE ParseFails(r, c)
    <3>1. Counted' = Counted
      BY <2>2, <2>3, <2>4, <2>6 DEF ParseFails, Counted
    <3> QED BY <2>5, <2>6, <3>1 DEF ParseFails, CountsNothing
  <2>7. CASE Receive(r, c)
    <3>1. Counted' = Counted \cup {r}
      BY <2>2, <2>3, <2>4, <2>7 DEF Receive, Counted
    <3> QED BY <2>4, <2>5, <2>7, <3>1 DEF Receive, CountsOne
  <2> QED BY <1>1, <2>6, <2>7
<1>2. ASSUME NEW r \in Requests,
             \/ FindSku(r) \/ FindProduct(r) \/ ReadProduct(r) \/ QueryDatabase(r)
             \/ PingRedis(r) \/ CallFails(r)
      PROVE  CountsNothing
  BY <1>2, QueryEffect, MoveCounts DEF CountsNothing
<1>3. ASSUME NEW r \in Requests, InsertProduct(r) \/ InsertCampaign(r) \/ InsertUnanswered(r)
      PROVE  CountsNothing
  BY <1>3, InsertEffect, MoveCounts DEF CountsNothing
<1>4. ASSUME NEW r \in Requests, Finish(r)
      PROVE  CountsNothing \/ TimesOne(r)
  <2>1. /\ at[r] = "answered" /\ at' = [at EXCEPT ![r] = "finished"]
        /\ UNCHANGED call
    BY <1>4, FinishEffect
  <2>2. /\ at'[r] = "finished" /\ \A s \in Requests \ {r} : at'[s] = at[s]
    BY <2>1 DEF TypeOK
  <2>3. Counted' = Counted /\ r \notin TimedOf
    BY <2>1, <2>2 DEF Counted, TimedOf
  <2>4. CASE call[r].form = "malformed"
    <3>1. TimedOf' = TimedOf
      BY <2>1, <2>2, <2>3, <2>4 DEF Counted, TimedOf
    <3> QED BY <1>4, <2>3, <2>4, <3>1 DEF Finish, CountsNothing
  <2>5. CASE call[r].form # "malformed"
    <3>1. TimedOf' = TimedOf \cup {r}
      BY <2>1, <2>2, <2>3, <2>5 DEF Counted, TimedOf
    <3> QED BY <1>4, <2>3, <2>5, <3>1 DEF Finish, TimesOne
  <2> QED BY <2>4, <2>5
<1>5. ASSUME NEW r \in Requests, Leave(r) PROVE CountsNothing
  BY <1>5 DEF Leave, CountsNothing, Counted, TimedOf
<1>6. CASE Crash
  <2>1. Counted' = {}
    BY <1>6 DEF Crash, Counted
  <2> QED BY <1>6, <2>1 DEF Crash, ForgetsAll
<1>7. CASE UNCHANGED apiVars
  BY <1>7 DEF apiVars, httpVars, CountsNothing, Counted, TimedOf
<1>8. \A r \in Requests : Calls[r] \subseteq Call
  BY ApiAssumption
<1> QED BY <1>1, <1>2, <1>3, <1>4, <1>5, <1>6, <1>7, <1>8 DEF Next, Arrive, Handle, Disturbance

LEMMA MetricsInvStep ==
  ASSUME HttpInv, MetricsInv, [Next]_apiVars
  PROVE  MetricsInv'
<1> USE DEF MetricsInv
<1>1. IsFiniteSet(TimedOf)
  BY FS_Subset DEF TimedOf
<1>2. /\ requestCount = Cardinality(Counted) /\ Len(timings) = Cardinality(TimedOf)
      /\ IsFiniteSet(Counted) /\ timings \in Seq(Nat)
  BY DEF MetricsAgree, TimedOf, HttpInv, TypeOK, MetricsTypeOK
<1>3. SUFFICES /\ requestCount' = Cardinality(Counted') /\ IsFiniteSet(Counted')
               /\ Len(timings') = Cardinality(TimedOf')
  BY DEF MetricsAgree, TimedOf
<1>4. CASE CountsNothing
  BY <1>2, <1>4 DEF CountsNothing, metricsVars
<1>5. CASE ForgetsAll
  <2>1. Counted' = {} /\ TimedOf' = {} /\ requestCount' = 0 /\ Len(timings') = 0
    BY <1>5 DEF ForgetsAll, ForgetMetrics, TimedOf
  <2> HIDE DEF MetricsInv
  <2> QED BY <2>1, FS_EmptySet
<1>6. ASSUME NEW r \in Requests, CountsOne(r)
      PROVE  /\ requestCount' = Cardinality(Counted') /\ IsFiniteSet(Counted')
             /\ Len(timings') = Cardinality(TimedOf')
  <2>1. /\ r \notin Counted /\ Counted' = Counted \cup {r} /\ TimedOf' = TimedOf
        /\ requestCount' = requestCount + 1 /\ timings' = timings
    BY <1>6 DEF CountsOne, IncrementRequestCount
  <2>2. IsFiniteSet(Counted \cup {r}) /\ Cardinality(Counted \cup {r}) = Cardinality(Counted) + 1
    BY <1>2, <2>1, FS_AddElement
  <2> QED BY <1>2, <2>1, <2>2
<1>7. ASSUME NEW r \in Requests, TimesOne(r)
      PROVE  /\ requestCount' = Cardinality(Counted') /\ IsFiniteSet(Counted')
             /\ Len(timings') = Cardinality(TimedOf')
  <2>1. /\ Counted' = Counted /\ r \notin TimedOf /\ TimedOf' = TimedOf \cup {r}
        /\ requestCount' = requestCount /\ timings' = Append(timings, Took[r])
    BY <1>7 DEF TimesOne, RecordLatencyMs
  <2>2. Cardinality(TimedOf \cup {r}) = Cardinality(TimedOf) + 1
    BY <1>1, <2>1, FS_AddElement
  <2>3. Len(timings') = Len(timings) + 1
    BY <1>2, <2>1
  <2> QED BY <1>2, <2>1, <2>2, <2>3
<1> QED BY <1>4, <1>5, <1>6, <1>7, MetricsEffect

-----------------------------------------------------------------------------
LEMMA HttpInvariant == Spec => []HttpInv
BY HttpInit, HttpStep, PTL DEF Spec

(* Every request of the API is answered once or not yet, with one of its   *)
(* status codes, and the counters keep their types.                        *)
THEOREM AnswersAreTyped == Spec => []TypeOK
<1>1. HttpInv => TypeOK
  BY DEF HttpInv
<1> QED BY <1>1, HttpInvariant, PTL

(* What OrderStore assumes of campaigns is what POST /campaigns lets into  *)
(* the table.                                                              *)
THEOREM CampaignsAreAcceptable == Spec => []CampaignsAccepted
<1>1. HttpInv => CampaignsAccepted
  BY DEF HttpInv
<1> QED BY <1>1, HttpInvariant, PTL

(* Created means stored, refused means not stored, and a SKU_EXISTS names  *)
(* a product that exists.                                                  *)
THEOREM AnswersTellTheTruth == Spec => []AnswersAreTrue
<1>1. HttpInv => AnswersAreTrue
  BY DEF HttpInv
<1> QED BY <1>1, HttpInvariant, PTL

(* The sample of GET /metrics is the newest latencies of the process, as   *)
(* many as fit, whatever the size of the window.                           *)
THEOREM WindowStaysNewest == Spec => []WindowIsNewest
<1>1. Init => WindowIsNewest
  BY MetricsAssumption DEF Init, FreshMetrics, WindowIsNewest, Newest
<1>2. TypeOK /\ WindowIsNewest /\ [Next]_apiVars => WindowIsNewest'
  BY WindowStep
<1> QED BY <1>1, <1>2, AnswersAreTyped, PTL DEF Spec

(* The counter and the samples agree with the requests that the process    *)
(* has seen: none is counted or timed twice, whatever fails or leaves.      *)
THEOREM CountersTellTheSameStory == Spec => []MetricsAgree
<1>1. Init => MetricsInv
  <2> SUFFICES ASSUME Init PROVE MetricsInv
    OBVIOUS
  <2>1. Counted = {} /\ requestCount = 0 /\ Len(timings) = 0
    BY DEF Init, Counted, FreshMetrics
  <2>2. {r \in Counted : at[r] = "finished"} = {}
    BY <2>1
  <2> QED BY <2>1, <2>2, FS_EmptySet DEF MetricsInv, MetricsAgree
<1>2. HttpInv /\ MetricsInv /\ [Next]_apiVars => MetricsInv'
  BY MetricsInvStep
<1>3. MetricsInv => MetricsAgree
  BY DEF MetricsInv
<1> QED BY <1>1, <1>2, <1>3, HttpInvariant, PTL DEF Spec

(* Of the samples behind GET /metrics at least a twentieth are as slow as  *)
(* the p95 it reports, and hardly more than a twentieth are slower, for    *)
(* windows of any size.                                                    *)
THEOREM SlowestTwentiethIsMarkedOff == Spec => []P95MarksTheSlowest
<1>1. TypeOK => P95MarksTheSlowest
  BY P95Marks DEF TypeOK
<1> QED BY <1>1, AnswersAreTyped, PTL
=============================================================================

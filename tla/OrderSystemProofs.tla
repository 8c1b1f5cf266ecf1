-------------------------- MODULE OrderSystemProofs --------------------------
(***************************************************************************)
(* Requests and workers together.  What a request does to the store leaves *)
(* the workers' invariant alone, and what a worker does is allowed by the  *)
(* environment that OrderPlacement assumes: so what was proved of each     *)
(* side holds of the system.                                               *)
(***************************************************************************)
EXTENDS OrderSystem, OrderProcessingProofs

(* The key of a request that was received is an order, which is about to   *)
(* be queued only once it has a row.                                       *)
RequestsReady ==
  /\ at \in [Requests -> API!Call] /\ key \in [Requests -> Orders \cup {NoKey}]
  /\ \A r \in Requests :
       /\ at[r] # "new" => key[r] \in Orders
       /\ at[r] = "enqueue" => orders[key[r]].status # "ABSENT"

SystemSafeInv == SafeInv /\ RequestsReady

SystemInv == OwnInv /\ RequestsReady

(* What a request, or the expiry of a key or a job, does to what it shares *)
(* with the workers.                                                       *)
PlacesRow(o) ==
  /\ orders[o] = Absent
  /\ orders' = [orders EXCEPT ![o] = Pending]
  /\ UNCHANGED jobs

QueuesJob(o) ==
  /\ jobs[o] = NoJob /\ orders[o] # Absent
  /\ jobs' = [jobs EXCEPT ![o] = NewJob]
  /\ UNCHANGED orders

DropsJob(o) ==
  /\ jobs[o].state \in {"completed", "failed"}
  /\ jobs' = [jobs EXCEPT ![o] = NoJob]
  /\ UNCHANGED orders

ApiEffect ==
  /\ cache' \in [Orders -> Row]
  /\ UNCHANGED <<stock, workerVars>>
  /\ \/ UNCHANGED <<orders, jobs>>
     \/ \E o \in Orders : PlacesRow(o) \/ QueuesJob(o) \/ DropsJob(o)

LEMMA SystemInvIsSafe == SystemInv => SystemSafeInv
BY DEF SystemInv, OwnInv, SystemSafeInv

(* The two sides mean the same by their names for rows and jobs.           *)
LEMMA SameNames ==
  /\ API!Absent = Absent /\ API!Pending = Pending
  /\ API!NoJob = NoJob /\ API!NewJob = NewJob
BY DEF API!Absent, API!Pending, API!NoJob, API!NewJob, Absent, Pending, NoJob, NewJob

LEMMA InsertPlacesRow ==
  ASSUME SafeInv, NEW r \in Requests, key[r] \in Orders, API!Inserts(r), UNCHANGED jobs
  PROVE  PlacesRow(key[r])
BY SameNames DEF API!Inserts, API!Duplicates, PlacesRow, SafeInv, TypeOK, StoreTypeOK

LEMMA ApiStepEffect ==
  ASSUME SystemSafeInv, ApiStep
  PROVE  ApiEffect /\ RequestsReady'
<1> USE SameNames DEF SystemSafeInv, SafeInv, TypeOK, StoreTypeOK, RequestsReady, API!Call,
            API!Goto, API!Reply, API!Remember, API!storeVars, ApiEffect
<1>0. UNCHANGED workerVars
  BY DEF ApiStep
<1>1. ASSUME NEW r \in Requests, NEW o \in Orders, API!Receive(r, o)
      PROVE  ApiEffect /\ RequestsReady'
  BY <1>0, <1>1 DEF API!Receive
<1>2. ASSUME NEW r \in Requests,
             \/ API!GetCached(r) \/ API!ReadMain(r) \/ API!SetLock(r) \/ API!CheckMain(r)
             \/ API!DelLock(r) \/ API!GetAgain(r) \/ API!GetRetry(r)
             \/ API!FindOrder(r) \/ API!GetCachedAgain(r)
      PROVE  ApiEffect /\ RequestsReady'
  <2>1. UNCHANGED <<orders, stock, cache, jobs, key>>
    BY <1>2
    DEF API!GetCached, API!ReadMain, API!SetLock, API!CheckMain, API!DelLock, API!GetAgain,
        API!GetRetry, API!FindOrder, API!GetCachedAgain
  <2>2. PICK next \in API!Call \ {"new", "enqueue"} :
          at[r] \notin {"new", "gone"} /\ at' = [at EXCEPT ![r] = next]
    BY <1>2
    DEF API!GetCached, API!ReadMain, API!SetLock, API!CheckMain, API!DelLock, API!GetAgain,
        API!GetRetry, API!FindOrder, API!GetCachedAgain
  <2> QED BY <1>0, <2>1, <2>2
<1>3. ASSUME NEW r \in Requests, API!SetMain(r) PROVE ApiEffect /\ RequestsReady'
  BY <1>0, <1>3, Rows DEF API!SetMain
<1>4. ASSUME NEW r \in Requests, API!Insert(r) \/ API!InsertUnanswered(r)
      PROVE  ApiEffect /\ RequestsReady'
  <2>1. key[r] \in Orders /\ at[r] = "insert" /\ UNCHANGED <<stock, cache, jobs, key>>
    BY <1>4 DEF API!Insert, API!InsertUnanswered
  <2>2. CASE API!Inserts(r) /\ at' \in {[at EXCEPT ![r] = "enqueue"], [at EXCEPT ![r] = "findOrder"]}
    <3>1. PlacesRow(key[r])
      BY <2>1, <2>2, InsertPlacesRow
    <3>2. orders' \in [Orders -> Row] /\ Pending.status # "ABSENT"
      BY <3>1, Rows DEF PlacesRow, Pending
    <3> QED BY <1>0, <2>1, <2>2, <3>1, <3>2 DEF PlacesRow
  <2>3. CASE UNCHANGED orders /\ at' = [at EXCEPT ![r] = "findOrder"]
    BY <1>0, <2>1, <2>3
  <2> QED BY <1>4, <2>2, <2>3 DEF API!Insert, API!InsertUnanswered, API!AfterFailedInsert
<1>5. ASSUME NEW r \in Requests, API!Enqueue(r) PROVE ApiEffect /\ RequestsReady'
  <2>1. key[r] \in Orders /\ orders[key[r]] # Absent
    BY <1>5 DEF API!Enqueue, Absent
  <2>2. UNCHANGED jobs \/ QueuesJob(key[r])
    BY <1>5, <2>1 DEF API!Enqueue, QueuesJob
  <2> QED BY <1>0, <1>5, <2>1, <2>2 DEF API!Enqueue
<1>6. ASSUME NEW r \in Requests, API!CallFails(r) \/ API!LockResent(r) \/ API!Crash(r)
      PROVE  ApiEffect /\ RequestsReady'
  <2>1. UNCHANGED <<orders, stock, cache, jobs, key>>
    BY <1>6 DEF API!CallFails, API!LockResent, API!Crash
  <2>2. PICK next \in {"delLock", "findOrder", "getRetry", "gone"} :
          at[r] \notin {"new", "gone"} /\ at' = [at EXCEPT ![r] = next]
    BY <1>6 DEF API!CallFails, API!LockResent, API!Crash, API!AfterFailedInsert
  <2> QED BY <1>0, <2>1, <2>2
<1>7. ASSUME NEW o \in Orders, API!LockExpires(o) \/ API!CacheExpires(o)
      PROVE  ApiEffect /\ RequestsReady'
  BY <1>0, <1>7, Rows DEF API!LockExpires, API!CacheExpires, API!requestVars
<1>8. ASSUME NEW o \in Orders, API!RemoveJob(o) PROVE ApiEffect /\ RequestsReady'
  <2>1. DropsJob(o)
    BY <1>8 DEF API!RemoveJob, DropsJob
  <2> QED BY <1>0, <1>8, <2>1 DEF API!RemoveJob, API!requestVars
<1> QED
  BY <1>1, <1>2, <1>3, <1>4, <1>5, <1>6, <1>7, <1>8
  DEF ApiStep, API!PlaceOrder, API!Handle, API!Disturbance, API!Expiry

(* No request or expiry disturbs a worker: it touches only orders without  *)
(* a row, orders without a job and jobs that are over.                     *)
LEMMA ApiStepKeepsSafeInv ==
  ASSUME SafeInv, ApiEffect
  PROVE  /\ SafeInv'
         /\ \A o \in Orders :
              orders'[o] = orders[o] \/ (orders[o] = Absent /\ orders'[o] = Pending)
<1> USE DEF SafeInv, TypeOK, StoreTypeOK, JobsTypeOK, ApiEffect, workerVars
<1>1. ASSUME NEW o \in Orders
      PROVE  orders'[o] = orders[o] \/ (orders[o] = Absent /\ orders'[o] = Pending)
  BY DEF PlacesRow, QueuesJob, DropsJob
<1>2. orders' \in [Orders -> Row] /\ JobsTypeOK' /\ JobsBounded'
  BY Rows, FreshJobs DEF PlacesRow, QueuesJob, DropsJob, JobsBounded
<1>3. TypeOK' /\ Guarded' /\ Exclusive'
  BY <1>2 DEF Guarded, Started, Exclusive, LocksProduct, SharesProduct
<1>4. ConfirmedOnlyOnceOpen'
  BY <1>1 DEF ConfirmedOnlyOnceOpen, Pending
<1> QED BY <1>1, <1>2, <1>3, <1>4

LEMMA ApiStepKeepsOwnInv ==
  ASSUME OwnInv, ApiEffect
  PROVE  OwnInv'
<1> USE DEF OwnInv, SafeInv, TypeOK, StoreTypeOK, JobsTypeOK, ApiEffect, workerVars
<1>1. ASSUME NEW o \in Orders
      PROVE  orders'[o] = orders[o] \/ (orders[o] = Absent /\ orders'[o] = Pending)
  BY ApiStepKeepsSafeInv
<1>2. SafeInv'
  BY ApiStepKeepsSafeInv
<1>5. ASSUME LiveStalls = FALSE PROVE Owned'
  <2> SUFFICES ASSUME NEW w \in Workers, phase[w] # "idle" PROVE jobs'[cur[w]] = jobs[cur[w]]
    BY <1>5 DEF Owned, Owns
  <2>1. jobs[cur[w]].state = "active" /\ cur[w] \in Orders
    BY <1>5 DEF Owned, Owns, Guarded
  <2> QED BY <2>1 DEF PlacesRow, QueuesJob, DropsJob, NoJob
<1>6. Alone'
  <2>1. \A w \in Workers : phase[w] # "idle" => orders'[cur[w]] = orders[cur[w]]
    BY <1>1 DEF Alone, Guarded
  <2> QED BY <2>1 DEF Alone, InTransaction
<1>7. Clean'
  <2>1. \A o \in Orders : jobs'[o] # NoJob => jobs[o] # NoJob \/ orders[o] # Absent
    BY DEF PlacesRow, QueuesJob, DropsJob
  <2> QED BY <1>1, <2>1, PendingIsUndecided DEF Clean
<1> QED BY <1>2, <1>5, <1>6, <1>7

LEMMA SystemInvInit == SystemInit => SystemInv
<1> SUFFICES ASSUME SystemInit PROVE SystemInv
  OBVIOUS
<1> USE SameNames DEF SystemInit, API!Init, WorkersStart
<1>1. TypeOK
  BY Rows, FreshJobs, ProductAssumption, HorizonAssumption
  DEF AcceptedProduct, TypeOK, StoreTypeOK, JobsTypeOK, Phase
<1>2. JobsBounded
  BY FreshJobs DEF JobsBounded
<1>3. Guarded /\ Exclusive /\ ConfirmedOnlyOnceOpen
  BY DEF Guarded, Exclusive, LocksProduct, ConfirmedOnlyOnceOpen, Absent
<1>4. Owned /\ Alone /\ Clean
  BY DEF Owned, Alone, InTransaction, Clean
<1>5. RequestsReady
  BY DEF RequestsReady, API!Call
<1> QED BY <1>1, <1>2, <1>3, <1>4, <1>5 DEF SystemInv, OwnInv, SafeInv

(* A row that was placed stays, even if two workers overwrite each other's *)
(* columns of it.                                                          *)
LEMMA SystemSafeInvStep ==
  ASSUME SystemSafeInv, [SystemNext]_systemVars
  PROVE  SystemSafeInv'
<1>1. CASE ApiStep
  BY <1>1, ApiStepEffect, ApiStepKeepsSafeInv DEF SystemSafeInv
<1>2. CASE WorkerStep \/ UNCHANGED systemVars
  <2>1. [Next]_vars /\ UNCHANGED <<at, key>>
    BY <1>2 DEF WorkerStep, apiVars, systemVars, workerVars, vars
  <2>2. SafeInv'
    BY <2>1, SafeInvStep DEF SystemSafeInv
  <2>3. ASSUME NEW w \in Workers, phase[w] = "commit", ApplyWrites(w), NEW o \in Orders,
               orders[o].status # "ABSENT"
        PROVE  orders'[o].status # "ABSENT"
    <3>1. verdict[w].status # "ABSENT" /\ cur[w] \in Orders /\ orders \in [Orders -> Row]
      BY <2>3
      DEF SystemSafeInv, SafeInv, TypeOK, StoreTypeOK, Guarded, Outcome, Confirmed, Rejected
    <3> QED BY <2>3, <3>1 DEF ApplyWrites, Saved
  <2>4. \A o \in Orders : orders[o].status # "ABSENT" => orders'[o].status # "ABSENT"
    BY <2>1, <2>3, OnlyCommitsWrite
  <2>5. RequestsReady'
    BY <2>1, <2>4 DEF SystemSafeInv, RequestsReady
  <2> QED BY <2>2, <2>5 DEF SystemSafeInv
<1> QED BY <1>1, <1>2 DEF SystemNext

LEMMA SystemInvStep ==
  ASSUME Undisturbed, SystemInv, [SystemNext]_systemVars
  PROVE  SystemInv'
<1>0. SystemSafeInv /\ RequestsReady'
  BY SystemInvIsSafe, SystemSafeInvStep DEF SystemSafeInv
<1>1. CASE ApiStep
  BY <1>0, <1>1, ApiStepEffect, ApiStepKeepsOwnInv DEF SystemInv
<1>2. CASE WorkerStep \/ UNCHANGED systemVars
  <2>1. [Next]_vars
    BY <1>2 DEF WorkerStep, apiVars, systemVars, workerVars, vars
  <2>2. OwnInv'
    BY <2>1, OwnInvStep DEF SystemInv
  <2> QED BY <1>0, <2>2 DEF SystemInv
<1> QED BY <1>1, <1>2 DEF SystemNext

-----------------------------------------------------------------------------
(* An outcome that a worker has decided on is one that the environment of  *)
(* OrderPlacement may choose.                                              *)
LEMMA DecisionsAllowed ==
  ASSUME OwnInv, NEW w \in Workers, phase[w] \in {"publish", "commit"}
  PROVE  verdict[w] \in API!Outcome /\ API!MayBecome(cur[w], verdict[w])
<1>1. /\ cur[w] \in Orders /\ verdict[w] \in Outcome /\ orders[cur[w]] = Pending
      /\ verdict[w] = Confirmed =>
           /\ Started(cur[w])
           /\ stock[Request[cur[w]].product] >= Request[cur[w]].quantity
  BY DEF OwnInv, SafeInv, Guarded, Alone, InTransaction
<1>2. verdict[w] = Confirmed => ProductFound(cur[w])
  BY <1>1, MatchingCampaignHasProduct DEF Started
<1>3. /\ API!Outcome = Outcome /\ API!Confirmed = Confirmed
      /\ API!ProductFound(cur[w]) <=> ProductFound(cur[w])
  BY DEF API!Outcome, Outcome, API!Confirmed, Confirmed, API!Rejected, Rejected,
         API!RejectionReasonCode, RejectionReasonCode, API!ProductFound, ProductFound
<1> QED BY <1>1, <1>2, <1>3, SameNames DEF API!MayBecome

(* What a step of a worker does to the outcomes that are yet to be         *)
(* committed: nothing, if the worker is at none of them before or after.   *)
LEMMA UncommittedStays ==
  ASSUME \A v \in Workers :
           /\ phase'[v] = "commit" <=> phase[v] = "commit"
           /\ phase[v] = "commit" => cur'[v] = cur[v] /\ verdict'[v] = verdict[v]
  PROVE  UNCHANGED Uncommitted
<1>1. \A o \in Orders :
        {verdict'[w] : w \in {v \in Workers : phase'[v] = "commit" /\ cur'[v] = o}}
        = {verdict[w] : w \in {v \in Workers : phase[v] = "commit" /\ cur[v] = o}}
  OBVIOUS
<1> QED BY <1>1 DEF Uncommitted

(* While every worker owns its job, it is the only one at its order.       *)
LEMMA UncommittedMoves ==
  ASSUME LiveStalls = FALSE, OwnInv, NEW w \in Workers, phase[w] # "idle",
         \A v \in Workers \ {w} :
           phase'[v] = phase[v] /\ cur'[v] = cur[v] /\ verdict'[v] = verdict[v]
  PROVE  /\ phase[w] # "commit" => Uncommitted[cur[w]] = {}
         /\ phase[w] = "commit" => Uncommitted[cur[w]] = {verdict[w]}
         /\ phase'[w] # "commit" => Uncommitted' = [Uncommitted EXCEPT ![cur[w]] = {}]
         /\ phase'[w] = "commit" /\ cur'[w] = cur[w] =>
              Uncommitted' = [Uncommitted EXCEPT ![cur[w]] = {verdict'[w]}]
<1>1. cur[w] \in Orders
  BY DEF OwnInv, SafeInv, Guarded
<1>2. \A v \in Workers \ {w} : ~(phase[v] = "commit" /\ cur[v] = cur[w])
  BY DEF OwnInv, Owned, Owns
<1> DEFINE At(o)  == {v \in Workers : phase[v] = "commit" /\ cur[v] = o}
           Next_(o) == {v \in Workers : phase'[v] = "commit" /\ cur'[v] = o}
<1>3. /\ phase[w] # "commit" => At(cur[w]) = {}
      /\ phase[w] = "commit" => At(cur[w]) = {w}
  BY <1>2
<1>4. /\ phase'[w] # "commit" => Next_(cur[w]) = {}
      /\ phase'[w] = "commit" /\ cur'[w] = cur[w] => Next_(cur[w]) = {w}
  BY <1>2
<1>5. ASSUME NEW o \in Orders \ {cur[w]}, phase'[w] # "commit" \/ cur'[w] = cur[w]
      PROVE  {verdict'[v] : v \in Next_(o)} = {verdict[v] : v \in At(o)}
  BY <1>5
<1> HIDE DEF At, Next_
<1>6. /\ Uncommitted = [o \in Orders |-> {verdict[v] : v \in At(o)}]
      /\ Uncommitted' = [o \in Orders |-> {verdict'[v] : v \in Next_(o)}]
  BY DEF Uncommitted, At, Next_
<1>7. /\ {verdict[v] : v \in {}} = {} /\ {verdict'[v] : v \in {}} = {}
      /\ {verdict[v] : v \in {w}} = {verdict[w]} /\ {verdict'[v] : v \in {w}} = {verdict'[w]}
  OBVIOUS
<1>8. /\ phase[w] # "commit" => Uncommitted[cur[w]] = {}
      /\ phase[w] = "commit" => Uncommitted[cur[w]] = {verdict[w]}
  BY <1>1, <1>3, <1>6, <1>7
<1>9. phase'[w] # "commit" => Uncommitted' = [Uncommitted EXCEPT ![cur[w]] = {}]
  BY <1>1, <1>4, <1>5, <1>6, <1>7
<1>10. phase'[w] = "commit" /\ cur'[w] = cur[w] =>
         Uncommitted' = [Uncommitted EXCEPT ![cur[w]] = {verdict'[w]}]
  BY <1>1, <1>4, <1>5, <1>6, <1>7
<1> QED BY <1>8, <1>9, <1>10

LEMMA WorkerStepAllowed ==
  ASSUME LiveStalls = FALSE, OwnInv, WorkerStep
  PROVE  API!Environment \/ UNCHANGED API!placementVars
<1> USE DEF OwnInv, apiVars, API!requestVars, API!storeVars, storeVars
<1>0. /\ UNCHANGED apiVars
      /\ \A w \in Workers :
           phase[w] # "idle" =>
             /\ cur[w] \in Orders /\ Owns(w, cur[w]) /\ API!Owns(w, cur[w])
             /\ jobs[cur[w]].state = "active"
  BY DEF WorkerStep, Owned, Owns, API!Owns, SafeInv, Guarded
<1> DEFINE Stands(w) ==
             \A v \in Workers \ {w} :
               phase'[v] = phase[v] /\ cur'[v] = cur[v] /\ verdict'[v] = verdict[v]
<1>1. ASSUME NEW w \in Workers, NEW o \in Orders, Fetch(w, o) PROVE API!WorkerTakes(o)
  <2>1. UNCHANGED Uncommitted
    BY <1>1, UncommittedStays DEF Fetch, Goto, SafeInv, TypeOK
  <2> QED
    BY <1>0, <1>1, <2>1 DEF Fetch, Take, Available, API!WorkerTakes, API!Take, API!Available
<1>2. ASSUME NEW w \in Workers, Replay(w) PROVE API!WorkerPublishes(cur[w])
  <2>1. verdict[w] \in API!Outcome /\ verdict[w] = orders[cur[w]]
    BY <1>2
    DEF Replay, Alone, API!Outcome, Outcome, API!Confirmed, Confirmed, API!Rejected, Rejected,
        API!RejectionReasonCode, RejectionReasonCode
  <2>2. UNCHANGED Uncommitted
    BY <1>2, UncommittedStays DEF Replay, Goto, SafeInv, TypeOK
  <2> QED
    BY <1>0, <1>2, <2>1, <2>2 DEF Replay, UpdateFinal, API!WorkerPublishes, API!UpdateFinal
<1>3. ASSUME NEW w \in Workers, Publish(w) PROVE API!WorkerPublishes(cur[w])
  <2>1. verdict[w] \in API!Outcome /\ API!MayBecome(cur[w], verdict[w])
    BY <1>3, DecisionsAllowed DEF Publish
  <2>2. /\ phase[w] = "publish" /\ phase'[w] = "commit"
        /\ UNCHANGED <<cur, verdict>> /\ Stands(w)
    BY <1>3 DEF Publish, Goto, SafeInv, TypeOK
  <2>3. /\ Uncommitted[cur[w]] = {}
        /\ Uncommitted' = [Uncommitted EXCEPT ![cur[w]] = {verdict[w]}]
    BY <2>2, UncommittedMoves
  <2> QED
    BY <1>0, <1>3, <2>1, <2>3 DEF Publish, UpdateFinal, API!WorkerPublishes, API!UpdateFinal
<1>4. ASSUME NEW w \in Workers, FailAttempt(w, cur[w]), phase[w] # "idle"
      PROVE  API!WorkerFails(cur[w])
  BY <1>0, <1>4
  DEF FailAttempt, AttemptsUsed, Owns, API!WorkerFails, API!FailAttempt, API!AttemptsUsed, API!Owns
<1>5. ASSUME NEW w \in Workers,
             \/ Commit(w) \/ CommitUnanswered(w) \/ Complete(w)
             \/ Deadlock(w) \/ CallFails(w) \/ Crash(w)
      PROVE  /\ phase[w] # "idle" /\ API!Withdrawn(cur[w])
             /\ phase[w] = "commit" => Uncommitted[cur[w]] = {verdict[w]}
  <2>1. /\ phase[w] # "idle" /\ phase'[w] # "commit" /\ Stands(w)
    BY <1>5
    DEF Commit, CommitUnanswered, Complete, Deadlock, CallFails, Crash, Abort, Idle, Goto,
        SafeInv, TypeOK
  <2> QED BY <2>1, UncommittedMoves DEF API!Withdrawn
<1>6. ASSUME NEW w \in Workers, Commit(w) \/ CommitUnanswered(w)
      PROVE  API!WorkerDecides(cur[w])
  <2>1. phase[w] = "commit" /\ ApplyWrites(w) /\ UNCHANGED cache
    BY <1>6 DEF Commit, CommitUnanswered
  <2>2. verdict[w] \in Uncommitted[cur[w]] /\ API!MayBecome(cur[w], verdict[w])
    BY <1>5, <1>6, <2>1, DecisionsAllowed
  <2>3. /\ orders' = [orders EXCEPT ![cur[w]] = verdict[w]]
        /\ stock' = API!Deducted(cur[w], verdict[w])
    BY <2>1, CommitDecides DEF ApplyWrites, Deducted, API!Deducted, API!Confirmed, Confirmed
  <2>4. UNCHANGED jobs \/ API!WorkerFails(cur[w])
    BY <1>4, <1>6 DEF Commit, CommitUnanswered
  <2> QED BY <1>0, <1>5, <1>6, <2>1, <2>2, <2>3, <2>4 DEF API!WorkerDecides
<1>7. ASSUME NEW w \in Workers, Complete(w) PROVE API!WorkerReturns(cur[w])
  <2>1. API!Decided(orders[cur[w]])
    BY <1>7, PendingIsUndecided DEF Complete, Alone, API!Decided, Decided
  <2>2. API!Finish(w, cur[w])
    BY <1>7 DEF Complete, Finish, Owns, API!Finish, API!Owns
  <2> QED BY <1>0, <1>5, <1>7, <2>1, <2>2 DEF Complete, API!WorkerReturns
<1>8. ASSUME NEW w \in Workers, Deadlock(w) \/ CallFails(w) \/ Crash(w)
      PROVE  API!WorkerReturns(cur[w])
  BY <1>0, <1>4, <1>5, <1>8 DEF Deadlock, CallFails, Crash, Abort, API!WorkerReturns
<1>9. ASSUME NEW o \in Orders, LoseLock(o) PROVE API!WorkerReturns(o)
  <2>1. UNCHANGED Uncommitted
    BY <1>9, UncommittedStays DEF LoseLock, localVars
  <2>2. \A v \in Workers : ~(phase[v] = "commit" /\ cur[v] = o)
    BY <1>0, <1>9 DEF LoseLock, Orphaned
  <2>3. {v \in Workers : phase[v] = "commit" /\ cur[v] = o} = {}
    BY <2>2
  <2>4. Uncommitted[o] = {}
    BY <2>3 DEF Uncommitted
  <2>5. API!Withdrawn(o)
    BY <2>1, <2>4 DEF API!Withdrawn, Uncommitted
  <2> QED BY <1>0, <1>9, <2>5 DEF LoseLock, Stall, API!WorkerReturns, API!Stall
<1>10. ASSUME NEW w \in Workers,
              \/ FindDecided(w) \/ FindPending(w) \/ Begin(w) \/ ShareProduct(w)
              \/ SendDeduction(w) \/ Deduct(w) \/ SaveOrder(w)
       PROVE  UNCHANGED API!placementVars
  <2>1. UNCHANGED Uncommitted
    <3>1. /\ phase[w] # "commit" /\ phase'[w] # "commit" /\ UNCHANGED cur
          /\ \A v \in Workers \ {w} : phase'[v] = phase[v] /\ verdict'[v] = verdict[v]
      BY <1>10
      DEF FindDecided, FindPending, Begin, ShareProduct, SendDeduction, Deduct, SaveOrder, Goto,
          Decide, SafeInv, TypeOK
    <3> QED BY <3>1, UncommittedStays
  <2> QED
    BY <1>0, <1>10, <2>1
    DEF FindDecided, FindPending, Begin, ShareProduct, SendDeduction, Deduct, SaveOrder,
        API!placementVars
<1>11. CASE Tick
  BY <1>0, <1>11 DEF Tick, localVars, Uncommitted, API!placementVars
<1>12. ASSUME NEW w \in Workers, Replay(w) \/ Publish(w) \/ Commit(w) \/ Complete(w)
                                 \/ Deadlock(w) \/ CallFails(w) \/ CommitUnanswered(w)
                                 \/ Crash(w)
       PROVE  cur[w] \in Orders
  BY <1>0, <1>12
  DEF Replay, Publish, Commit, Complete, Deadlock, CallFails, CommitUnanswered, Crash
<1> QED
  BY <1>1, <1>2, <1>3, <1>6, <1>7, <1>8, <1>9, <1>10, <1>11, <1>12
  DEF WorkerStep, Next, Progress, Disturbance, API!Environment

(* The real workers are workers as OrderPlacement assumes them, so what it *)
(* proves of the requests holds of the system.                             *)
THEOREM SystemImplementsPlacement ==
  ASSUME LiveStalls = FALSE
  PROVE  SystemSpec => ImplementsPlacement
<1>1. SystemInit => API!Init
  BY DEF SystemInit
<1>2. SystemInv /\ [SystemNext]_systemVars => SystemInv'
  BY SystemInvStep DEF Undisturbed
<1>3. SystemInv /\ [SystemNext]_systemVars => [API!Next]_(API!placementVars)
  <2> SUFFICES ASSUME SystemInv, [SystemNext]_systemVars
               PROVE  API!Next \/ UNCHANGED API!placementVars
    OBVIOUS
  <2>1. CASE ApiStep
    BY <2>1 DEF ApiStep, API!Next
  <2>2. CASE WorkerStep
    BY <2>2, WorkerStepAllowed DEF SystemInv, API!Next
  <2>3. CASE UNCHANGED systemVars
    BY <2>3 DEF systemVars, apiVars, workerVars, Uncommitted, API!placementVars
  <2> QED BY <2>1, <2>2, <2>3 DEF SystemNext
<1> QED BY SystemInvInit, <1>1, <1>2, <1>3, PTL DEF SystemSpec, ImplementsPlacement, API!Spec

-----------------------------------------------------------------------------
(* To the tables a step of the requests' is a row that is placed, or       *)
(* nothing; it confirms no order.                                          *)
LEMMA ApiStepPlaces ==
  ASSUME SystemSafeInv, ApiStep
  PROVE  /\ UNCHANGED <<stock, workerVars>>
         /\ UNCHANGED orders \/ \E o \in Orders : PlacesRow(o)
         /\ \A o \in Orders : orders'[o] = orders[o] \/ (orders[o] = Absent /\ orders'[o] = Pending)
         /\ \A S \in SUBSET Orders : ConfirmedOf(S)' = ConfirmedOf(S)
<1>1. /\ UNCHANGED <<stock, workerVars>>
      /\ UNCHANGED orders \/ \E o \in Orders : PlacesRow(o)
  BY ApiStepEffect DEF ApiEffect, QueuesJob, DropsJob
<1>2. \A o \in Orders : orders'[o] = orders[o] \/ (orders[o] = Absent /\ orders'[o] = Pending)
  BY <1>1 DEF PlacesRow, SystemSafeInv, SafeInv, TypeOK, StoreTypeOK
<1>3. \A o \in Orders : orders'[o].status = "CONFIRMED" <=> orders[o].status = "CONFIRMED"
  BY <1>2 DEF Absent, Pending
<1> QED BY <1>1, <1>2, <1>3 DEF ConfirmedOf

LEMMA SystemSteps ==
  ASSUME [SystemNext]_systemVars
  PROVE  ApiStep \/ [Next]_vars
BY DEF SystemNext, WorkerStep, systemVars, workerVars, vars

(* The tables of the whole system behave as Inventory does.                *)
THEOREM SystemImplementsInventory ==
  ASSUME Undisturbed
  PROVE  SystemSpec => ImplementsInventory
<1>1. SystemInit => Tables!Init
  BY SameNames DEF SystemInit, API!Init, Tables!Init, Absent
<1>2. SystemInv /\ [SystemNext]_systemVars => SystemInv'
  BY SystemInvStep
<1>3. SystemInv /\ [SystemNext]_systemVars => [Tables!Next]_(Tables!invVars)
  <2> SUFFICES ASSUME SystemInv, [SystemNext]_systemVars
               PROVE  [Tables!Next]_(Tables!invVars)
    OBVIOUS
  <2>1. ASSUME NEW o \in Orders, PlacesRow(o), UNCHANGED stock PROVE Tables!Accept(o)
    <3>1. orders \in [Orders -> Row] /\ orders' \in [Orders -> Row]
      BY <2>1, Rows DEF PlacesRow, SystemInv, OwnInv, SafeInv, TypeOK, StoreTypeOK
    <3>2. \A x \in Orders : orders'[x].status = IF x = o THEN "PENDING" ELSE orders[x].status
      BY <2>1, <3>1 DEF PlacesRow, Pending
    <3>3. orders[o].status = "ABSENT"
      BY <2>1 DEF PlacesRow, Absent
    <3> QED BY <2>1, <3>2, <3>3 DEF Tables!Accept
  <2>2. CASE ApiStep
    <3>1. CASE UNCHANGED <<orders, stock>>
      BY <3>1 DEF Tables!invVars
    <3>2. CASE ~UNCHANGED orders
      BY <2>1, <2>2, <3>2, SystemInvIsSafe, ApiStepPlaces DEF Tables!Next
    <3> QED BY <2>2, <3>1, <3>2, SystemInvIsSafe, ApiStepPlaces
  <2>3. CASE [Next]_vars
    BY <2>3, StepRefines DEF SystemInv
  <2> QED BY <2>2, <2>3, SystemSteps
<1> QED BY SystemInvInit, <1>1, <1>2, <1>3, PTL DEF SystemSpec, ImplementsInventory, Tables!Spec

(* Stock is conserved with orders coming in while others are decided.      *)
THEOREM SystemConservesStock ==
  ASSUME Undisturbed, IsFiniteSet(Orders)
  PROVE  SystemSpec => []StockConserved
<1>1. SystemInit => StockConserved
  <2> SUFFICES ASSUME SystemInit PROVE StockConserved
    OBVIOUS
  <2>1. \A o \in Orders : orders[o].status # "CONFIRMED"
    BY SameNames DEF SystemInit, API!Init, Absent
  <2>2. \A p \in Products : stock[p] = Product[p].stock /\ stock[p] \in Nat
    BY ProductAssumption DEF AcceptedProduct, SystemInit, API!Init
  <2>3. \A p \in Products : Units(ConfirmedOf({o \in Orders : Request[o].product = p})) = 0
    BY <2>1, NothingConfirmedYet
  <2> QED BY <2>2, <2>3 DEF StockConserved
<1>2. SystemInv /\ [SystemNext]_systemVars => SystemInv'
  BY SystemInvStep
<1>3. SystemInv /\ StockConserved /\ [SystemNext]_systemVars => StockConserved'
  <2> SUFFICES ASSUME SystemInv, StockConserved, [SystemNext]_systemVars PROVE StockConserved'
    OBVIOUS
  <2>1. CASE ApiStep
    BY <2>1, SystemInvIsSafe, ApiStepPlaces DEF StockConserved
  <2>2. CASE [Next]_vars /\ UNCHANGED <<orders, stock>>
    BY <2>2 DEF StockConserved, ConfirmedOf
  <2>3. ASSUME NEW w \in Workers, phase[w] = "commit", ApplyWrites(w) PROVE StockConserved'
    BY <2>3, CommitConserves DEF SystemInv
  <2> QED BY <2>1, <2>2, <2>3, SystemSteps, OnlyCommitsWrite
<1> QED BY SystemInvInit, <1>1, <1>2, <1>3, PTL DEF SystemSpec

(* No refusal is ever wrong in hindsight, in the whole system either.      *)
THEOREM SystemRefusesJustly ==
  ASSUME Undisturbed, IsFiniteSet(Orders)
  PROVE  SystemSpec => []RefusalsJustified
<1>1. SystemInit => RefusalInv
  BY SameNames DEF SystemInit, API!Init, WorkersStart, RefusalInv, RightlyRefused, Absent
<1>2. SystemInv /\ [SystemNext]_systemVars => SystemInv'
  BY SystemInvStep
<1>3. SystemInv /\ RefusalInv /\ [SystemNext]_systemVars => RefusalInv'
  <2> SUFFICES ASSUME SystemInv, RefusalInv, [SystemNext]_systemVars PROVE RefusalInv'
    OBVIOUS
  <2>1. CASE ApiStep
    <3>1. /\ UNCHANGED <<stock, phase, cur, verdict>>
          /\ \A o \in Orders : orders'[o] = orders[o] \/ orders'[o] = Pending
          /\ \A o : ConfirmedOf(SameBuyer(o))' = ConfirmedOf(SameBuyer(o))
      <4>1. \A o : SameBuyer(o) \in SUBSET Orders
        BY DEF SameBuyer
      <4> QED BY <2>1, <4>1, SystemInvIsSafe, ApiStepPlaces DEF workerVars, SameBuyer
    <3>2. \A o : (Short(o) <=> Short(o)') /\ (Full(o) <=> Full(o)')
      BY <3>1 DEF Short, Full, ProductFound, CampaignFound, OverLimit, Reaches
    <3> QED BY <3>1, <3>2 DEF RefusalInv, RightlyRefused, Pending
  <2>2. CASE [Next]_vars
    BY <2>2, RefusalInvStep DEF SystemInv
  <2> QED BY <2>1, <2>2, SystemSteps
<1>4. RefusalInv => RefusalsJustified
  BY DEF RefusalInv, RightlyRefused, Short, Full, RefusalsJustified
<1> QED BY SystemInvInit, <1>1, <1>2, <1>3, <1>4, PTL DEF SystemSpec

(* What a buyer can exceed a limit by does not depend on the requests that *)
(* come in: they confirm nothing and take no order past its check.         *)
LEMMA SystemTakenInv ==
  ASSUME IsFiniteSet(Orders), IsFiniteSet(Workers)
  PROVE  SystemSpec => [](SystemSafeInv /\ TakenInv)
<1>1. SystemInit => TakenInv
  <2> SUFFICES ASSUME SystemInit, NEW o \in Orders PROVE Taken(SameBuyer(o)) = {}
    BY DEF TakenInv
  <2> QED
    BY SameNames
    DEF SystemInit, API!Init, WorkersStart, Absent, Taken, ConfirmedOf, Passing, PassedCheck, SameBuyer
<1>2. SystemSafeInv /\ [SystemNext]_systemVars => SystemSafeInv'
  BY SystemSafeInvStep
<1>3. SystemSafeInv /\ TakenInv /\ [SystemNext]_systemVars => TakenInv'
  <2> SUFFICES ASSUME SystemSafeInv, TakenInv, [SystemNext]_systemVars PROVE TakenInv'
    OBVIOUS
  <2>1. CASE ApiStep
    <3>1. \A o \in Orders : Taken(SameBuyer(o))' = Taken(SameBuyer(o))
      <4>1. \A o \in Orders : SameBuyer(o) \in SUBSET Orders
        BY DEF SameBuyer
      <4>2. \A S \in SUBSET Orders : ConfirmedOf(S)' = ConfirmedOf(S) /\ Passing(S)' = Passing(S)
        BY <2>1, ApiStepPlaces DEF Passing, PassedCheck, workerVars
      <4> QED BY <4>1, <4>2 DEF Taken, SameBuyer
    <3> QED BY <3>1 DEF TakenInv, Limited, LargestIs, Allowance, SameBuyer, CampaignFound
  <2>2. CASE [Next]_vars
    BY <2>2, TakenInvStep DEF SystemSafeInv
  <2> QED BY <2>1, <2>2, SystemSteps
<1>4. SystemInit => SystemSafeInv
  BY SystemInvInit, SystemInvIsSafe
<1> QED BY <1>1, <1>2, <1>3, <1>4, PTL DEF SystemSpec

(* In the whole system too a buyer exceeds a limit by no more than one     *)
(* order for each worker beyond the first.                                 *)
THEOREM SystemOverrunIsBounded ==
  ASSUME IsFiniteSet(Orders), IsFiniteSet(Workers)
  PROVE  SystemSpec => []LimitNearlyRespected
<1>1. SystemSafeInv /\ TakenInv => LimitNearlyRespected
  BY TakenIsEnough DEF SystemSafeInv
<1> QED BY SystemTakenInv, <1>1, PTL

(* With one worker the system keeps the limits of its campaigns, however   *)
(* many requests race and however often they are repeated.                 *)
THEOREM SystemRespectsLimit ==
  ASSUME OneWorker, IsFiniteSet(Orders)
  PROVE  SystemSpec => []LimitRespected
<1>1. SystemSafeInv /\ TakenInv => LimitRespected
  BY OneWorkerIsFew, TakenIsEnough, AloneWithinLimit DEF SystemSafeInv
<1>2. SystemSpec => [](SystemSafeInv /\ TakenInv)
  BY OneWorkerIsFew, SystemTakenInv
<1> QED BY <1>1, <1>2, PTL

-----------------------------------------------------------------------------
(* What OrderPlacementProofs proves of the requests, for the system.  The  *)
(* instance P and the instance API of OrderSystem are of one module under  *)
(* one substitution: with every name expanded, they say the same.          *)
P == INSTANCE OrderPlacementProofs WITH published <- Uncommitted

LEMMA SamePlacement ==
  /\ P!Init <=> API!Init
  /\ [P!Next]_(P!placementVars) <=> [API!Next]_(API!placementVars)
<1>1. P!Init <=> API!Init
  BY DEF P!Init, P!Absent, P!NoJob, API!Init, API!Absent, API!NoJob
<1>2. [P!Next]_(P!placementVars) <=> [API!Next]_(API!placementVars)
  BY Zenon
  DEF P!Next, P!placementVars, P!requestVars, P!storeVars, P!PlaceOrder, P!Receive,
      P!Handle, P!Disturbance, P!Expiry, P!Environment, P!GetCached, P!ReadMain,
      P!SetLock, P!CheckMain, P!SetMain, P!DelLock, P!GetAgain, P!GetRetry,
      P!Insert, P!FindOrder, P!GetCachedAgain, P!Enqueue, P!CallFails,
      P!InsertUnanswered, P!LockResent, P!Crash, P!LockExpires, P!CacheExpires,
      P!RemoveJob, P!WorkerTakes, P!WorkerPublishes, P!Withdrawn, P!WorkerDecides,
      P!WorkerReturns, P!WorkerFails, P!MayBecome, P!Claims, P!HoldsLock,
      P!InFlight, P!AfterFailedInsert, P!Inserts, P!Duplicates, P!SeenUnderLock,
      P!CachedOr, P!Cached, P!Locks, P!Unlocks, P!Reply, P!Remember, P!Goto, P!Take,
      P!Available, P!Finish, P!FailAttempt, P!AttemptsUsed, P!Owns, P!Stall,
      P!NewJob, P!NoJob, P!UpdateFinal, P!Deducted, P!Outcome, P!Confirmed,
      P!Rejected, P!RejectionReasonCode, P!Pending, P!Absent, P!Decided,
      P!ProductFound, API!Next, API!placementVars, API!requestVars, API!storeVars,
      API!PlaceOrder, API!Receive, API!Handle, API!Disturbance, API!Expiry,
      API!Environment, API!GetCached, API!ReadMain, API!SetLock, API!CheckMain,
      API!SetMain, API!DelLock, API!GetAgain, API!GetRetry, API!Insert,
      API!FindOrder, API!GetCachedAgain, API!Enqueue, API!CallFails,
      API!InsertUnanswered, API!LockResent, API!Crash, API!LockExpires,
      API!CacheExpires, API!RemoveJob, API!WorkerTakes, API!WorkerPublishes, API!Withdrawn,
      API!WorkerDecides, API!WorkerReturns, API!WorkerFails, API!MayBecome,
      API!Claims, API!HoldsLock, API!InFlight, API!AfterFailedInsert, API!Inserts,
      API!Duplicates, API!SeenUnderLock, API!CachedOr, API!Cached, API!Locks,
      API!Unlocks, API!Reply, API!Remember, API!Goto, API!Take, API!Available,
      API!Finish, API!FailAttempt, API!AttemptsUsed, API!Owns, API!Stall,
      API!NewJob, API!NoJob, API!UpdateFinal, API!Deducted, API!Outcome,
      API!Confirmed, API!Rejected, API!RejectionReasonCode, API!Pending, API!Absent,
      API!Decided, API!ProductFound
<1> QED BY <1>1, <1>2

(* With the real workers, however often they fail and are retried: a job   *)
(* never lacks its row, no two requests queue one order, and a prompt key  *)
(* is claimed by one request at a time.                                    *)
THEOREM SystemPlacesOnce ==
  ASSUME LiveStalls = FALSE
  PROVE  SystemSpec => [](API!JobsHaveRows /\ API!QueuedAtMostOnce /\ API!ClaimsExclusive)
<1>1. SystemSpec => API!Spec
  BY SystemImplementsPlacement DEF ImplementsPlacement
<1>2. API!Spec => P!Spec
  BY SamePlacement, PTL DEF API!Spec, P!Spec
<1>3. /\ P!Spec => []P!JobsHaveRows
      /\ P!Spec => []P!QueuedAtMostOnce
      /\ P!Spec => []P!ClaimsExclusive
  BY P!JobsAlwaysHaveRows, P!OneRequestQueues, P!ClaimsAreExclusive,
     RequestAssumption, ProductAssumption, CampaignAssumption, NoWorkerAssumption,
     MaxAttemptsAssumption, MaxStallsAssumption, RequestsAssumption, FaultsAssumption
  DEF P!AcceptedOrder, P!AcceptedProduct, P!AcceptedCampaign,
      AcceptedOrder, AcceptedProduct, AcceptedCampaign
<1>4. /\ P!JobsHaveRows => API!JobsHaveRows
      /\ P!QueuedAtMostOnce => API!QueuedAtMostOnce
      /\ P!ClaimsExclusive => API!ClaimsExclusive
  BY DEF P!JobsHaveRows, P!QueuedAtMostOnce, P!ClaimsExclusive, P!MayEnqueue, P!InFlight,
         P!NoJob, P!Absent, P!Pending,
         API!JobsHaveRows, API!QueuedAtMostOnce, API!ClaimsExclusive, API!MayEnqueue,
         API!InFlight, API!NoJob, API!Absent, API!Pending
<1> QED BY <1>1, <1>2, <1>3, <1>4, PTL

-----------------------------------------------------------------------------
(* What clients are told.  An answer comes from Redis, or from the row     *)
(* that a refused INSERT ran into: its own order's row only if no other    *)
(* key of the tenant has the same column.                                  *)
KeysDiffer ==
  \A o, x \in Orders : Column[o] = Column[x] /\ Column[o] # TooLong => o = x

Final == {"CONFIRMED", "REJECTED"}

Settled(o, status) ==
  o \in Orders /\ \E row \in Outcome : row.status = status /\ Behind(o, row)

RowsFit == \A o \in Orders : orders[o] # Absent => Column[o] # TooLong

(* Whatever outcome a request remembers or was answered stands.            *)
RequestsInformed ==
  /\ memo = [r \in Requests |-> memo[r]] /\ answer = [r \in Requests |-> answer[r]]
  /\ \A r \in Requests :
       /\ at[r] = "new" => memo[r] = "nothing" /\ answer[r] = "NONE"
       /\ memo[r] \in Final => Settled(key[r], memo[r])
       /\ answer[r] \in Final => Settled(key[r], answer[r])

AnsweredInv == PublishedInv /\ RowsFit /\ RequestsInformed

LEMMA SettledStays ==
  ASSUME Undisturbed, Faults = FALSE, SystemInv, [SystemNext]_systemVars,
         NEW o, NEW status, Settled(o, status)
  PROVE  Settled(o, status)'
<1>1. PICK row \in Outcome : o \in Orders /\ row.status = status /\ Behind(o, row)
  BY DEF Settled
<1>2. CASE ApiStep
  BY <1>1, <1>2, SystemInvIsSafe, ApiStepPlaces, PendingIsUndecided DEF Settled, Behind, workerVars
<1>3. CASE [Next]_vars
  BY <1>1, <1>3, BehindStays DEF Settled, SystemInv
<1> QED BY <1>2, <1>3, SystemSteps

(* A final status found in Redis or in a row stands.                       *)
LEMMA FoundStatusStands ==
  ASSUME SystemInv, PublishedInv, NEW o \in Orders
  PROVE  /\ cache[o].status \in Final => Settled(o, cache[o].status)
         /\ orders[o].status \in Final => Settled(o, orders[o].status)
<1>1. ASSUME cache[o].status \in Final PROVE Settled(o, cache[o].status)
  BY <1>1 DEF Final, PublishedInv, Decided, Settled
<1>2. ASSUME orders[o].status \in Final PROVE Settled(o, orders[o].status)
  <2>1. orders[o] \in Outcome
    BY <1>2 DEF SystemInv, OwnInv, Clean, Final, Absent, Pending
  <2> QED BY <2>1 DEF Settled, Behind
<1> QED BY <1>1, <1>2

(* The duplicate that an order runs into is the order itself.              *)
LEMMA OwnDuplicate ==
  ASSUME KeysDiffer, RowsFit, NEW o \in Orders, NEW x \in API!Duplicates(o)
  PROVE  x = o
BY SameNames DEF KeysDiffer, RowsFit, API!Duplicates

(* Whatever a request comes to know stood when it was looked up.           *)
Informed ==
  /\ memo' = [r \in Requests |-> memo'[r]] /\ answer' = [r \in Requests |-> answer'[r]]
  /\ \A r \in Requests :
       /\ at'[r] = "new" => memo'[r] = "nothing" /\ answer'[r] = "NONE"
       /\ memo'[r] \in Final => Settled(key'[r], memo'[r])
       /\ answer'[r] \in Final => Settled(key'[r], answer'[r])

LEMMA RequestsLearn ==
  ASSUME Faults = FALSE, KeysDiffer, SystemInv, AnsweredInv, ApiStep
  PROVE  Informed
<1> USE DEF SystemInv, RequestsReady, AnsweredInv, RequestsInformed, Informed
<1>1. ASSUME NEW r \in Requests, NEW o \in Orders, API!Receive(r, o) PROVE Informed
  BY <1>1 DEF API!Receive, API!Goto, Final
<1>2. ASSUME NEW r \in Requests, at[r] \notin {"new", "gone"},
             NEW next \in API!Call \ {"new"}, at' = [at EXCEPT ![r] = next],
             NEW m, memo' \in {memo, [memo EXCEPT ![r] = m]}, m \in Final => Settled(key[r], m),
             NEW a, answer' \in {answer, [answer EXCEPT ![r] = a]}, a \in Final => Settled(key[r], a),
             key' = key
      PROVE  Informed
  BY <1>2
<1>3. ASSUME NEW r \in Requests, NEW other, other \in Final => Settled(key[r], other), key[r] \in Orders
      PROVE  API!CachedOr(r, other) \in Final => Settled(key[r], API!CachedOr(r, other))
  BY <1>3, FoundStatusStands DEF API!CachedOr
<1>4. ASSUME NEW r \in Requests, API!GetCached(r) PROVE Informed
  <2>1. key[r] \in Orders /\ (cache[key[r]].status \in Final => Settled(key[r], cache[key[r]].status))
    BY <1>4, FoundStatusStands DEF API!GetCached
  <2> QED BY <1>4, <2>1 DEF API!GetCached, API!Reply, API!Goto
<1>5. ASSUME NEW r \in Requests, API!GetAgain(r) \/ API!GetRetry(r) PROVE Informed
  <2>1. key[r] \in Orders
    BY <1>5 DEF API!GetAgain, API!GetRetry
  <2>2. \A other \in {"PENDING", "IDEMPOTENCY_CONTENTION"} :
          API!CachedOr(r, other) \in Final => Settled(key[r], API!CachedOr(r, other))
    BY <1>3, <2>1 DEF Final
  <2> QED BY <1>5, <2>2 DEF API!GetAgain, API!GetRetry, API!Reply, API!Goto
<1>6. ASSUME NEW r \in Requests, API!GetCachedAgain(r) PROVE Informed
  <2>1. key[r] \in Orders
    BY <1>6 DEF API!GetCachedAgain
  <2>2. API!CachedOr(r, memo[r]) \in Final => Settled(key[r], API!CachedOr(r, memo[r]))
    BY <1>3, <2>1
  <2> QED BY <1>6, <2>2 DEF API!GetCachedAgain, API!Reply, API!Goto
<1>7. ASSUME NEW r \in Requests, API!FindOrder(r) PROVE Informed
  <2>1. key[r] \in Orders /\ at[r] = "findOrder"
    BY <1>7 DEF API!FindOrder
  <2>2. ASSUME NEW x \in API!Duplicates(key[r])
        PROVE  orders[x].status \in Final => Settled(key[r], orders[x].status)
    BY <2>1, <2>2, OwnDuplicate, FoundStatusStands
  <2> QED BY <1>7, <2>1, <2>2 DEF API!FindOrder, API!Reply, API!Remember, API!Goto, Final
<1>8. ASSUME NEW r \in Requests,
             \/ API!ReadMain(r) \/ API!SetLock(r) \/ API!CheckMain(r) \/ API!SetMain(r)
             \/ API!DelLock(r) \/ API!Insert(r) \/ API!Enqueue(r)
      PROVE  Informed
  BY <1>8
  DEF API!ReadMain, API!SetLock, API!CheckMain, API!SetMain, API!DelLock, API!Insert,
      API!Enqueue, API!AfterFailedInsert, API!Reply, API!Remember, API!Goto, Final
<1>9. CASE API!Expiry
  BY <1>9 DEF API!Expiry, API!LockExpires, API!CacheExpires, API!RemoveJob, API!requestVars
<1> QED
  BY <1>1, <1>4, <1>5, <1>6, <1>7, <1>8, <1>9
  DEF ApiStep, API!PlaceOrder, API!Handle, API!Disturbance, API!CallFails,
      API!InsertUnanswered, API!LockResent, API!Crash

(* A request never writes an outcome to Redis, and inserts no row that     *)
(* does not fit.                                                           *)
LEMMA RequestsWrite ==
  ASSUME SystemInv, RowsFit, ApiStep
  PROVE  /\ \A o \in Orders : Decided(cache'[o]) => cache'[o] = cache[o]
         /\ RowsFit'
<1> USE PendingIsUndecided, SameNames
    DEF SystemInv, RequestsReady, OwnInv, SafeInv, TypeOK, StoreTypeOK, API!storeVars, RowsFit
<1>1. ASSUME NEW r \in Requests, API!Inserts(r), UNCHANGED cache, key[r] \in Orders
      PROVE  /\ \A o \in Orders : Decided(cache'[o]) => cache'[o] = cache[o]
             /\ RowsFit'
  BY <1>1 DEF API!Inserts
<1>2. ASSUME NEW r \in Requests, API!SetMain(r)
      PROVE  /\ \A o \in Orders : Decided(cache'[o]) => cache'[o] = cache[o]
             /\ RowsFit'
  BY <1>2 DEF API!SetMain
<1>3. ASSUME NEW o \in Orders, API!CacheExpires(o)
      PROVE  /\ \A x \in Orders : Decided(cache'[x]) => cache'[x] = cache[x]
             /\ RowsFit'
  BY <1>3 DEF API!CacheExpires
<1>4. CASE UNCHANGED <<orders, cache>>
  BY <1>4
<1> QED
  BY <1>1, <1>2, <1>3, <1>4
  DEF ApiStep, API!PlaceOrder, API!Receive, API!Handle, API!Disturbance, API!Expiry,
      API!GetCached, API!ReadMain, API!SetLock, API!CheckMain, API!DelLock, API!GetAgain,
      API!GetRetry, API!Insert, API!FindOrder, API!GetCachedAgain, API!Enqueue,
      API!CallFails, API!InsertUnanswered, API!LockResent, API!Crash, API!LockExpires, API!RemoveJob

LEMMA AnsweredInvStep ==
  ASSUME Undisturbed, Faults = FALSE, KeysDiffer, SystemInv, AnsweredInv,
         [SystemNext]_systemVars
  PROVE  AnsweredInv'
<1>1. CASE ApiStep
  <2>1. PublishedInv'
    <3> SUFFICES ASSUME NEW o \in Orders, Decided(cache'[o])
                 PROVE  cache'[o] \in Outcome /\ Behind(o, cache[o])'
      BY DEF PublishedInv
    <3>1. cache'[o] = cache[o]
      BY <1>1, RequestsWrite DEF AnsweredInv
    <3>2. cache[o] \in Outcome /\ Behind(o, cache[o])
      BY <3>1 DEF AnsweredInv, PublishedInv
    <3> QED BY <1>1, <3>1, <3>2, SystemInvIsSafe, ApiStepPlaces, PendingIsUndecided DEF Behind, workerVars
  <2>2. RowsFit'
    BY <1>1, RequestsWrite DEF AnsweredInv
  <2>3. RequestsInformed'
    BY <1>1, RequestsLearn, SettledStays DEF Informed, RequestsInformed
  <2> QED BY <2>1, <2>2, <2>3 DEF AnsweredInv
<1>2. CASE [Next]_vars /\ UNCHANGED apiVars
  <2>1. PublishedInv'
    BY <1>2, PublishedInvStep DEF AnsweredInv, SystemInv
  <2>2. RowsFit'
    <3>1. ASSUME NEW w \in Workers, phase[w] = "commit", ApplyWrites(w)
          PROVE  \A o \in Orders : orders'[o] # Absent => orders[o] # Absent
      BY <3>1, CommitDecides, PendingIsUndecided
      DEF SystemInv, OwnInv, SafeInv, TypeOK, StoreTypeOK
    <3> QED BY <1>2, <3>1, OnlyCommitsWrite DEF AnsweredInv, RowsFit
  <2>3. RequestsInformed'
    BY <1>2, SettledStays DEF AnsweredInv, RequestsInformed, apiVars
  <2> QED BY <2>1, <2>2, <2>3 DEF AnsweredInv
<1>3. ApiStep \/ ([Next]_vars /\ UNCHANGED apiVars)
  BY DEF SystemNext, WorkerStep, systemVars, workerVars, vars
<1> QED BY <1>1, <1>2, <1>3

LEMMA AnsweredInvariant ==
  ASSUME Undisturbed, Faults = FALSE, KeysDiffer
  PROVE  SystemSpec => [](SystemInv /\ AnsweredInv)
<1>1. SystemInit => AnsweredInv
  BY SameNames, PendingIsUndecided
  DEF SystemInit, API!Init, AnsweredInv, PublishedInv, RowsFit, RequestsInformed, Final
<1>2. SystemInv /\ [SystemNext]_systemVars => SystemInv'
  BY SystemInvStep
<1>3. SystemInv /\ AnsweredInv /\ [SystemNext]_systemVars => AnsweredInv'
  BY AnsweredInvStep
<1> QED BY SystemInvInit, <1>1, <1>2, <1>3, PTL DEF SystemSpec

LEMMA ToldIsSettled ==
  ASSUME AnsweredInv, NEW o \in Orders, NEW status \in Final, Told(o, status)
  PROVE  Settled(o, status)
BY DEF AnsweredInv, RequestsInformed, Told

LEMMA SettledIsBacked ==
  ASSUME NEW o, NEW status, Settled(o, status)
  PROVE  Backed(o, status)
BY DEF Settled, Behind, Backed

(* Without failures no client is told an outcome that its order does not   *)
(* have or get at once, and the row never turns to another one, however    *)
(* many requests share a key and whenever they ask: unless two keys of a   *)
(* tenant are one to MySQL.                                                *)
THEOREM AnswersAreFinal ==
  ASSUME Undisturbed, Faults = FALSE, KeysDiffer
  PROVE  SystemSpec => AnswersStand
<1>1. ASSUME NEW o \in Orders, NEW status \in Final
      PROVE  SystemSpec => [](Told(o, status) => [](Backed(o, status)))
  <2>1. AnsweredInv /\ Told(o, status) => Settled(o, status)
    BY ToldIsSettled
  <2>2. SystemInv /\ Settled(o, status) /\ [SystemNext]_systemVars => Settled(o, status)'
    BY SettledStays
  <2>3. Settled(o, status) => Backed(o, status)
    BY SettledIsBacked
  <2> QED BY AnsweredInvariant, <2>1, <2>2, <2>3, PTL DEF SystemSpec
<1> QED BY <1>1 DEF AnswersStand, Final

-----------------------------------------------------------------------------
(* What a PENDING promises.  Where nothing fails and the only worker meets *)
(* no deadlock, a job that was queued is waiting, in the worker's hands or *)
(* has decided its order: also if its lock runs out under the worker, as   *)
(* long as that does not fail it at once.                                  *)
NothingLost ==
  /\ OneWorker /\ Faults = FALSE
  /\ LiveStalls = FALSE \/ MaxStalls # 0
  /\ KeysDiffer /\ \A o \in Orders : Column[o] # TooLong

(* A job whose lock ran out before its order was decided is waiting again  *)
(* while the worker is still at work on it, so it will find the order      *)
(* decided.                                                                *)
JobsInHand ==
  \A o \in Orders :
    /\ jobs[o].state = "active" => \E w \in Workers : Owns(w, o) /\ cur[w] = o /\ phase[w] # "idle"
    /\ jobs[o].stalls # 0 /\ ~Decided(orders[o]) =>
         /\ jobs[o].state = "waiting"
         /\ \E w \in Workers : cur[w] = o /\ phase[w] # "idle"
    /\ jobs[o].state \in {"completed", "failed"} => Decided(orders[o])
    /\ jobs[o].state = "absent" => jobs[o] = NoJob

(* A row is queued or about to be; and what lets a client be told PENDING, *)
(* an answer in Redis or a request that has seen one, means that there is  *)
(* a row or a request with the claim to insert it.                         *)
RowsQueued ==
  \A o \in Orders :
    orders[o] # Absent => Queued(o) \/ \E r \in Requests : key[r] = o /\ at[r] = "enqueue"

Claimed(r) == at[r] = "insert" \/ (at[r] = "delLock" /\ memo[r] = "claimed")

SaidPending(r) ==
  \/ answer[r] = "PENDING"
  \/ at[r] \in {"getAgain", "getCachedAgain"}
  \/ at[r] = "delLock" /\ memo[r] = "exists"

Promised(o) ==
  cache[o] # Absent \/ \E r \in Requests : key[r] = o /\ SaidPending(r)

Placed(o) ==
  orders[o] # Absent \/ \E r \in Requests : key[r] = o /\ Claimed(r)

PromisesPlaced == \A o \in Orders : Promised(o) => Placed(o)

PromiseInv == JobsInHand /\ RowsQueued /\ PromisesPlaced

(* No job of an undecided order leaves the queue.                          *)
LEMMA WorkersKeepJobs ==
  ASSUME NothingLost, OwnInv, JobsInHand, [Next]_vars
  PROVE  JobsInHand' /\ \A o \in Orders : Queued(o) => Queued(o)'
<1> DEFINE Kept == JobsInHand' /\ \A o \in Orders : Queued(o) => Queued(o)'
<1> USE DEF OwnInv, SafeInv, TypeOK, StoreTypeOK, JobsTypeOK
<1>0. \A o \in Orders : Decided(orders[o]) => orders'[o] = orders[o]
  <2>1. ASSUME NEW w \in Workers, phase[w] = "commit", ApplyWrites(w), NEW o \in Orders,
               Decided(orders[o])
        PROVE  orders'[o] = orders[o]
    BY <2>1, CommitDecides, PendingIsUndecided
  <2> QED BY <2>1, OnlyCommitsWrite
<1>1. ASSUME NEW w \in Workers, NEW o \in Orders, Fetch(w, o) PROVE Kept
  <2>1. \A x \in Orders :
          jobs[x].state # "active" /\ (jobs[x].stalls # 0 => Decided(orders[x]))
    BY <1>1 DEF Fetch, JobsInHand, NothingLost, OneWorker
  <2> QED BY <1>1, <2>1 DEF Fetch, Take, Available, Goto, storeVars, JobsInHand, Queued, Owns, Job
<1>2. ASSUME UNCHANGED <<jobs, cur>>, \A w \in Workers : phase[w] # "idle" => phase'[w] # "idle"
      PROVE  Kept
  BY <1>0, <1>2 DEF JobsInHand, Queued, Owns
<1>3. ASSUME NEW w \in Workers,
             \/ FindDecided(w) \/ FindPending(w) \/ Replay(w) \/ Begin(w) \/ ShareProduct(w)
             \/ SendDeduction(w) \/ Deduct(w) \/ SaveOrder(w) \/ Publish(w) \/ Commit(w)
      PROVE  Kept
  BY <1>2, <1>3
  DEF FindDecided, FindPending, Replay, Begin, ShareProduct, SendDeduction, Deduct,
      SaveOrder, Publish, Commit, Goto
<1>4. ASSUME NEW w \in Workers, Complete(w) PROVE Kept
  <2>1. cur[w] \in Orders /\ Decided(orders[cur[w]])
    BY <1>4, PendingIsUndecided DEF Complete, Alone, Guarded
  <2>2. \A o \in Orders \ {cur[w]} :
          jobs[o].state # "active" /\ (jobs[o].stalls # 0 => Decided(orders[o]))
    BY <2>1 DEF JobsInHand, NothingLost, OneWorker
  <2>3. jobs[cur[w]].state = "active" => Owns(w, cur[w])
    BY <2>1 DEF JobsInHand, NothingLost, OneWorker
  <2> QED
    BY <1>4, <2>1, <2>2, <2>3 DEF Complete, Finish, Owns, storeVars, JobsInHand, Queued, Job
<1>5. ASSUME NEW w \in Workers, Deadlock(w) PROVE FALSE
  BY <1>5 DEF Deadlock, NothingLost, OneWorker
<1>6. ASSUME NEW o \in Orders, LoseLock(o) PROVE Kept
  <2>1. UNCHANGED <<orders, phase, cur>> /\ jobs[o].state = "active"
    BY <1>6 DEF LoseLock, Stall, storeVars, localVars
  <2>2. \A x \in Orders \ {o} : jobs'[x] = jobs[x]
    BY <1>6 DEF LoseLock, Stall
  <2>3. jobs'[o].state \in {"waiting", "failed"}
    BY <1>6 DEF LoseLock, Stall, Job
  <2>4. ~Decided(orders[o]) =>
          /\ jobs'[o].state = "waiting"
          /\ \E w \in Workers : cur[w] = o /\ phase[w] # "idle"
    <3>1. ~Decided(orders[o]) => LiveStalls /\ jobs[o].stalls = 0
      BY <1>6, <2>1 DEF LoseLock, Orphaned, JobsInHand
    <3>2. ~Decided(orders[o]) => jobs[o].stalls < MaxStalls
      BY <3>1, MaxStallsAssumption DEF NothingLost
    <3> QED BY <1>6, <2>1, <3>2 DEF LoseLock, Stall, Job, JobsInHand
  <2> QED BY <2>1, <2>2, <2>3, <2>4 DEF JobsInHand, Queued, Owns
<1>7. CASE Tick \/ UNCHANGED vars
  BY <1>2, <1>7 DEF Tick, vars, localVars
<1> QED
  BY <1>1, <1>3, <1>4, <1>5, <1>6, <1>7
  DEF Next, Progress, Disturbance, CallFails, CommitUnanswered, Crash, NothingLost

LEMMA RequestsKeepJobs ==
  ASSUME SystemInv, JobsInHand, ApiStep
  PROVE  JobsInHand' /\ \A o \in Orders : Queued(o) => Queued(o)'
<1>1. \A o \in Orders : Decided(orders[o]) => orders'[o] = orders[o]
  BY SystemInvIsSafe, ApiStepPlaces, PendingIsUndecided
<1>2. UNCHANGED <<phase, cur>>
  BY SystemInvIsSafe, ApiStepPlaces DEF workerVars
<1>3. UNCHANGED jobs \/ \E o \in Orders : QueuesJob(o) \/ DropsJob(o)
  BY SystemInvIsSafe, ApiStepEffect DEF ApiEffect, PlacesRow
<1> QED
  BY <1>1, <1>2, <1>3
  DEF JobsInHand, Queued, Owns, QueuesJob, DropsJob, NewJob, NoJob, SystemInv, OwnInv, SafeInv,
      TypeOK, JobsTypeOK

(* A row, once there, is there for good.                                   *)
LEMMA RowsStay ==
  ASSUME Undisturbed, SystemInv, [SystemNext]_systemVars
  PROVE  \A o \in Orders : orders[o] # Absent => orders'[o] # Absent
<1>1. ASSUME NEW w \in Workers, phase[w] = "commit", ApplyWrites(w)
      PROVE  \A o \in Orders : orders[o] # Absent => orders'[o] # Absent
  BY <1>1, CommitDecides, PendingIsUndecided DEF SystemInv, OwnInv, SafeInv, TypeOK, StoreTypeOK
<1>2. CASE ApiStep
  BY <1>2, SystemInvIsSafe, ApiStepPlaces
<1> QED BY <1>1, <1>2, SystemSteps, OnlyCommitsWrite

(* The request that places a row goes on to queue it.                      *)
LEMMA RequestsKeepRowsQueued ==
  ASSUME NothingLost, SystemInv, AnsweredInv, JobsInHand, RowsQueued, ApiStep
  PROVE  RowsQueued'
<1> USE DEF SystemInv, RequestsReady, OwnInv, SafeInv, TypeOK, StoreTypeOK, JobsTypeOK
<1>0. \A o \in Orders : Queued(o) => Queued(o)'
  BY RequestsKeepJobs
<1>1. ASSUME UNCHANGED orders,
             \A r \in Requests : at[r] = "enqueue" => at'[r] = "enqueue" /\ key'[r] = key[r]
      PROVE  RowsQueued'
  BY <1>0, <1>1 DEF RowsQueued
<1>2. ASSUME NEW r \in Requests, API!Insert(r) PROVE RowsQueued'
  <2>1. CASE API!Inserts(r) /\ API!Goto(r, "enqueue")
    <3>1. key[r] \in Orders /\ PlacesRow(key[r]) /\ key' = key
      BY <1>2, <2>1, InsertPlacesRow DEF API!Insert
    <3>2. \A o \in Orders \ {key[r]} : orders'[o] = orders[o]
      BY <3>1 DEF PlacesRow
    <3>3. \A s \in Requests : at[s] = "enqueue" => at'[s] = "enqueue"
      BY <2>1 DEF API!Goto
    <3>4. at'[r] = "enqueue"
      BY <2>1 DEF API!Goto
    <3> QED BY <1>0, <3>1, <3>2, <3>3, <3>4 DEF RowsQueued
  <2>2. CASE UNCHANGED orders /\ API!Goto(r, "findOrder")
    BY <1>1, <1>2, <2>2 DEF API!Insert, API!Goto
  <2> QED BY <1>2, <2>1, <2>2 DEF API!Insert
<1>3. ASSUME NEW r \in Requests, API!Enqueue(r) PROVE RowsQueued'
  <2>1. key[r] \in Orders /\ Queued(key[r])'
    BY <1>3, SameNames
    DEF API!Enqueue, API!storeVars, Queued, JobsInHand, NewJob, NoJob, Job, JobState
  <2>2. orders' = orders /\ key' = key /\ \A s \in Requests \ {r} : at'[s] = at[s]
    BY <1>3 DEF API!Enqueue, API!Reply, API!Goto, API!storeVars
  <2> QED BY <1>0, <2>1, <2>2 DEF RowsQueued
<1> QED
  BY <1>1, <1>2, <1>3
  DEF ApiStep, API!PlaceOrder, API!Receive, API!Handle, API!Disturbance, API!Expiry,
      API!GetCached, API!ReadMain, API!SetLock, API!CheckMain, API!SetMain, API!DelLock,
      API!GetAgain, API!GetRetry, API!FindOrder, API!GetCachedAgain, API!CallFails,
      API!InsertUnanswered, API!LockResent, API!Crash, API!LockExpires, API!CacheExpires,
      API!RemoveJob, API!requestVars, API!storeVars, API!Reply, API!Goto, NothingLost
(* A request is told PENDING only where it, or another one, has the claim  *)
(* or the row: what was promised was placed.                               *)
LEMMA RequestsKeepPromises ==
  ASSUME NothingLost, SystemInv, AnsweredInv, PromisesPlaced, ApiStep
  PROVE  PromisesPlaced'
<1> USE SameNames
    DEF SystemInv, RequestsReady, OwnInv, SafeInv, TypeOK, StoreTypeOK, AnsweredInv,
        RequestsInformed
<1>0. \A o \in Orders : orders[o] # Absent => orders'[o] # Absent
  BY RowsStay DEF NothingLost, Undisturbed, SystemNext
<1>1. ASSUME \A s \in Requests : \A o \in Orders : key[s] = o /\ Claimed(s) => Placed(o)',
             \A o \in Orders : cache'[o] # Absent => cache[o] # Absent \/ Placed(o)',
             \A s \in Requests : \A o \in Orders :
               key'[s] = o /\ SaidPending(s)' => Promised(o) \/ Placed(o)'
      PROVE  PromisesPlaced'
  <2> SUFFICES ASSUME NEW o \in Orders, Promised(o)' PROVE Placed(o)'
    BY DEF PromisesPlaced
  <2>1. Promised(o) \/ Placed(o)'
    BY <1>1 DEF Promised
  <2>2. Placed(o) => Placed(o)'
    BY <1>0, <1>1 DEF Placed
  <2> QED BY <2>1, <2>2 DEF PromisesPlaced
<1>2. ASSUME NEW r \in Requests, UNCHANGED key, key[r] \in Orders,
             \A s \in Requests \ {r} :
               at'[s] = at[s] /\ memo'[s] = memo[s] /\ answer'[s] = answer[s],
             Claimed(r) => Claimed(r)' \/ orders'[key[r]] # Absent,
             SaidPending(r)' => Promised(key[r]) \/ Placed(key[r])',
             \A o \in Orders : cache'[o] # Absent => cache[o] # Absent \/ Placed(o)'
      PROVE  PromisesPlaced'
  <2>1. \A s \in Requests \ {r} :
          (Claimed(s)' <=> Claimed(s)) /\ (SaidPending(s)' <=> SaidPending(s))
    BY <1>2 DEF Claimed, SaidPending
  <2>2. \A s \in Requests : \A o \in Orders : key[s] = o /\ Claimed(s) => Placed(o)'
    BY <1>2, <2>1 DEF Placed
  <2>3. \A s \in Requests : \A o \in Orders :
          key'[s] = o /\ SaidPending(s)' => Promised(o) \/ Placed(o)'
    BY <1>2, <2>1 DEF Promised
  <2> QED BY <1>1, <1>2, <2>2, <2>3
<1>3. ASSUME NEW r \in Requests, NEW o \in Orders, API!Receive(r, o) PROVE PromisesPlaced'
  <2>1. \A s \in Requests : Claimed(s) => Claimed(s)' /\ key'[s] = key[s]
    BY <1>3 DEF API!Receive, API!Goto, Claimed
  <2>2. \A s \in Requests : SaidPending(s)' => SaidPending(s) /\ key'[s] = key[s]
    BY <1>3 DEF API!Receive, API!Goto, SaidPending
  <2>3. UNCHANGED cache
    BY <1>3 DEF API!Receive, API!storeVars
  <2> QED BY <1>1, <2>1, <2>2, <2>3 DEF Placed, Promised
<1>4. ASSUME NEW r \in Requests, API!GetCached(r) \/ API!ReadMain(r) PROVE PromisesPlaced'
  <2>1. key[r] \in Orders /\ ~Claimed(r)
    BY <1>4 DEF API!GetCached, API!ReadMain, Claimed
  <2>2. SaidPending(r)' => SaidPending(r) \/ cache[key[r]] # Absent
    BY <1>4 DEF API!GetCached, API!ReadMain, API!Reply, API!Goto, API!Cached, SaidPending
  <2> QED
    BY <1>2, <1>4, <2>1, <2>2
    DEF API!GetCached, API!ReadMain, API!Reply, API!Goto, API!storeVars, Promised
<1>5. ASSUME NEW r \in Requests, API!SetLock(r) \/ API!CheckMain(r) PROVE PromisesPlaced'
  <2>1. key[r] \in Orders /\ ~Claimed(r)
    BY <1>5 DEF API!SetLock, API!CheckMain, Claimed
  <2>2. SaidPending(r)' => SaidPending(r) \/ cache[key[r]] # Absent
    BY <1>5
    DEF API!SetLock, API!CheckMain, API!SeenUnderLock, API!Cached, API!Goto, API!Remember,
        SaidPending
  <2> QED
    BY <1>2, <1>5, <2>1, <2>2
    DEF API!SetLock, API!CheckMain, API!Remember, API!Goto, API!storeVars, Promised
<1>6. ASSUME NEW r \in Requests, API!SetMain(r) PROVE PromisesPlaced'
  <2>1. key[r] \in Orders /\ ~Claimed(r) /\ Claimed(r)' /\ UNCHANGED key
    BY <1>6 DEF API!SetMain, API!Goto, API!Remember, Claimed
  <2>2. \A o \in Orders \ {key[r]} : cache'[o] = cache[o]
    BY <1>6 DEF API!SetMain
  <2>3. Placed(key[r])'
    BY <2>1 DEF Placed
  <2> QED BY <1>2, <1>6, <2>1, <2>2, <2>3 DEF API!SetMain, API!Goto, API!Remember
<1>7. ASSUME NEW r \in Requests, API!DelLock(r) PROVE PromisesPlaced'
  <2>1. key[r] \in Orders /\ (Claimed(r) => Claimed(r)')
    BY <1>7 DEF API!DelLock, API!Goto, Claimed
  <2>2. SaidPending(r)' => SaidPending(r)
    BY <1>7 DEF API!DelLock, API!Reply, API!Goto, SaidPending
  <2> QED
    BY <1>2, <1>7, <2>1, <2>2
    DEF API!DelLock, API!Reply, API!Goto, API!storeVars, Promised
<1>8. ASSUME NEW r \in Requests, API!GetAgain(r) \/ API!GetRetry(r) \/ API!GetCachedAgain(r)
      PROVE  PromisesPlaced'
  <2>1. key[r] \in Orders /\ ~Claimed(r)
    BY <1>8 DEF API!GetAgain, API!GetRetry, API!GetCachedAgain, Claimed
  <2>2. SaidPending(r)' => SaidPending(r) \/ cache[key[r]] # Absent
    BY <1>8
    DEF API!GetAgain, API!GetRetry, API!GetCachedAgain, API!CachedOr, API!Cached, API!Reply,
        API!Goto, SaidPending
  <2> QED
    BY <1>2, <1>8, <2>1, <2>2
    DEF API!GetAgain, API!GetRetry, API!GetCachedAgain, API!Reply, API!Goto, API!storeVars,
        Promised
<1>9. ASSUME NEW r \in Requests, API!Insert(r) PROVE PromisesPlaced'
  <2>1. key[r] \in Orders /\ (SaidPending(r)' => SaidPending(r))
    BY <1>9 DEF API!Insert, API!Goto, SaidPending
  <2>2. orders'[key[r]] # Absent
    <3>1. CASE API!Inserts(r)
      BY <2>1, <3>1, PendingIsUndecided DEF API!Inserts, Absent, Pending
    <3>2. CASE API!Duplicates(key[r]) # {} /\ UNCHANGED orders
      BY <2>1, <3>2, OwnDuplicate DEF API!Duplicates, NothingLost
    <3> QED BY <1>9, <2>1, <3>1, <3>2 DEF API!Insert, NothingLost
  <2> QED BY <1>2, <1>9, <2>1, <2>2 DEF API!Insert, API!Goto, Promised
<1>10. ASSUME NEW r \in Requests, API!FindOrder(r) PROVE PromisesPlaced'
  <2>1. key[r] \in Orders /\ ~Claimed(r) /\ UNCHANGED orders
    BY <1>10 DEF API!FindOrder, API!storeVars, Claimed
  <2>2. SaidPending(r)' => SaidPending(r) \/ orders[key[r]] # Absent
    <3>1. API!Duplicates(key[r]) # {} => orders[key[r]] # Absent
      BY <2>1, OwnDuplicate DEF API!Duplicates, NothingLost
    <3> QED BY <1>10, <3>1 DEF API!FindOrder, API!Reply, API!Remember, API!Goto, SaidPending
  <2> QED
    BY <1>2, <1>10, <2>1, <2>2
    DEF API!FindOrder, API!Reply, API!Remember, API!Goto, API!storeVars, Promised, Placed
<1>11. ASSUME NEW r \in Requests, API!Enqueue(r) PROVE PromisesPlaced'
  <2>1. key[r] \in Orders /\ ~Claimed(r) /\ orders'[key[r]] # Absent
    BY <1>11 DEF API!Enqueue, API!storeVars, Claimed, Absent
  <2> QED BY <1>2, <1>11, <2>1 DEF API!Enqueue, API!Reply, API!Goto, API!storeVars, Placed
<1>12. CASE API!Expiry
  <2>1. UNCHANGED <<key, at, memo, answer>>
    BY <1>12 DEF API!Expiry, API!LockExpires, API!CacheExpires, API!RemoveJob, API!requestVars
  <2>2. \A o \in Orders : cache'[o] # Absent => cache[o] # Absent
    BY <1>12
    DEF API!Expiry, API!LockExpires, API!CacheExpires, API!RemoveJob, API!storeVars
  <2> QED BY <1>1, <2>1, <2>2 DEF Claimed, SaidPending, Placed, Promised
<1> QED
  BY <1>3, <1>4, <1>5, <1>6, <1>7, <1>8, <1>9, <1>10, <1>11, <1>12
  DEF ApiStep, API!PlaceOrder, API!Handle, API!Disturbance, API!CallFails,
      API!InsertUnanswered, API!LockResent, API!Crash, NothingLost

LEMMA PromiseInvStep ==
  ASSUME NothingLost, SystemInv, AnsweredInv, PromiseInv, [SystemNext]_systemVars
  PROVE  PromiseInv'
<1>1. CASE ApiStep
  BY <1>1, RequestsKeepJobs, RequestsKeepRowsQueued, RequestsKeepPromises DEF PromiseInv
<1>2. CASE [Next]_vars /\ UNCHANGED apiVars
  <2>1. JobsInHand' /\ \A o \in Orders : Queued(o) => Queued(o)'
    BY <1>2, WorkersKeepJobs DEF PromiseInv, SystemInv
  <2>2. \A o \in Orders : orders'[o] # Absent => orders[o] # Absent
    <3>1. ASSUME NEW w \in Workers, phase[w] = "commit", ApplyWrites(w)
          PROVE  \A o \in Orders : orders'[o] # Absent => orders[o] # Absent
      BY <3>1, CommitDecides, PendingIsUndecided
      DEF SystemInv, OwnInv, SafeInv, TypeOK, StoreTypeOK
    <3> QED BY <1>2, <3>1, OnlyCommitsWrite
  <2>3. RowsQueued'
    BY <1>2, <2>1, <2>2 DEF PromiseInv, RowsQueued, apiVars
  <2>4. \A o \in Orders : cache'[o] # Absent => cache[o] # Absent \/ orders[o] # Absent
    <3>1. CASE cache' # cache
      BY <1>2, <3>1, PublishedWhen, PendingIsUndecided
      DEF SystemInv, OwnInv, SafeInv, TypeOK, StoreTypeOK
    <3> QED BY <3>1
  <2>5. \A o \in Orders : orders[o] # Absent => orders'[o] # Absent
    BY RowsStay DEF NothingLost, Undisturbed
  <2>6. \A r \in Requests : (Claimed(r)' <=> Claimed(r)) /\ (SaidPending(r)' <=> SaidPending(r))
    BY <1>2 DEF apiVars, Claimed, SaidPending
  <2>7. PromisesPlaced'
    BY <1>2, <2>4, <2>5, <2>6 DEF PromiseInv, PromisesPlaced, Promised, Placed, apiVars
  <2> QED BY <2>1, <2>3, <2>7 DEF PromiseInv
<1> QED
  BY <1>1, <1>2 DEF SystemNext, WorkerStep, systemVars, workerVars, vars

(* Where nothing is lost a PENDING is never the last that is heard of an   *)
(* order, however many requests share its key and whatever has expired.    *)
THEOREM PendingIsAlwaysQueued ==
  ASSUME NothingLost
  PROVE  SystemSpec => [](PromisesQueued /\ API!PendingIsQueued)
<1>1. SystemInit => PromiseInv
  BY SameNames, PendingIsUndecided
  DEF SystemInit, API!Init, PromiseInv, JobsInHand, RowsQueued, PromisesPlaced, Promised,
      SaidPending, NoJob
<1>2. SystemSpec => [](SystemInv /\ AnsweredInv)
  BY AnsweredInvariant DEF NothingLost, Undisturbed
<1>3. SystemInv /\ AnsweredInv /\ PromiseInv /\ [SystemNext]_systemVars => PromiseInv'
  BY PromiseInvStep
<1>4. SystemInv /\ AnsweredInv /\ PromiseInv => PromisesQueued /\ API!PendingIsQueued
  <2> SUFFICES ASSUME SystemInv, AnsweredInv, PromiseInv, NEW r \in Requests,
                      answer[r] = "PENDING",
                      \A s \in Requests : ~API!InFlight(s, key[r])
               PROVE  key[r] \in Orders /\ Queued(key[r])
    BY SameNames DEF PromisesQueued, API!PendingIsQueued, Queued, NoJob, API!Decided, Decided
  <2>1. key[r] \in Orders
    BY DEF SystemInv, RequestsReady, AnsweredInv, RequestsInformed
  <2>2. Placed(key[r])
    BY <2>1 DEF PromiseInv, PromisesPlaced, Promised, SaidPending
  <2>3. orders[key[r]] # Absent
    BY <2>2 DEF Placed, Claimed, API!InFlight
  <2> QED BY <2>1, <2>3 DEF PromiseInv, RowsQueued, API!InFlight
<1> QED BY <1>1, <1>2, <1>3, <1>4, PTL DEF SystemSpec
=============================================================================

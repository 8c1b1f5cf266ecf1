--------------------------- MODULE OrderPlacement ---------------------------
(***************************************************************************)
(* The API's side of an order: OrdersService.placeOrder and the claim of   *)
(* IdempotencyService, run by any number of API processes for requests     *)
(* that may carry the same idempotency key.  A step is one call to Redis   *)
(* or MySQL; between two calls of a request anything may happen.           *)
(*                                                                         *)
(* The workers, which OrderProcessing models, appear here only by what a   *)
(* request can see of them: a row that gets decided, a final answer in     *)
(* Redis, a job that is finished and later removed.  OrderSystem puts the  *)
(* real ones in their place.                                               *)
(***************************************************************************)
EXTENDS JobQueue

CONSTANTS
  Requests,   \* calls of POST /orders
  Column,     \* Column[o]: what the column idempotency_key makes of o's key
  TooLong,    \* the Column of a key that does not fit VARCHAR(128)
  Nobody,
  NoKey,
  SlowKeys,   \* the keys whose requests may outlast a time to live
  Faults      \* calls may fail and API processes may crash

ASSUME PlacementAssumption ==
  /\ Nobody \notin Requests
  /\ NoKey \notin Orders
  /\ TooLong \notin Orders /\ Column \in [Orders -> Orders \cup {TooLong}]
  /\ SlowKeys \subseteq Orders
  /\ Faults \in BOOLEAN

VARIABLES
  published,  \* the outcomes that workers wrote to Redis and have yet to commit
  lock,     \* Redis `tenant:{tenant}:idem:lock:{key}`: which request set it
  at,       \* the call each request makes next
  key,      \* the order it asks for
  memo,     \* what it remembers: its claim, or the status it has looked up
  answer    \* what it was answered

requestVars == <<at, key, memo, answer>>
placementVars == <<orders, stock, cache, jobs, published, lock, at, key, memo, answer>>

(* "new" has not been sent; "gone" is answered or died with its process.   *)
Call == {"new", "getCached", "readMain", "setLock", "checkMain", "setMain",
         "delLock", "getAgain", "getRetry", "insert", "findOrder",
         "getCachedAgain", "enqueue", "gone"}

Memo == {"nothing", "claimed", "exists", "failed"} \cup OrderStatus

Answer == OrderStatus \cup {"NONE", "IDEMPOTENCY_CONTENTION", "ERROR"}

-----------------------------------------------------------------------------
Goto(r, call) == at' = [at EXCEPT ![r] = call]

Remember(r, fact) == memo' = [memo EXCEPT ![r] = fact]

Reply(r, what) ==
  /\ Goto(r, "gone")
  /\ answer' = [answer EXCEPT ![r] = what]

Cached(r) == cache[key[r]] # Absent

(* Mutant of CachedOr: no fallback for an answer that has expired.         *)
CachedUnchecked(r, other) == cache[key[r]].status

(* The status in the cached answer, or another one if there is none.       *)
CachedOr(r, other) == IF Cached(r) THEN cache[key[r]].status ELSE other

Locks(r)   == lock' = [lock EXCEPT ![key[r]] = r]
Unlocks(r) == lock' = [lock EXCEPT ![key[r]] = Nobody]

(* A request is between two calls on the key.                              *)
InFlight(r, o) == key[r] = o /\ at[r] # "gone"

-----------------------------------------------------------------------------
Receive(r, o) ==
  /\ at[r] = "new"
  /\ key' = [key EXCEPT ![r] = o]
  /\ Goto(r, "getCached")
  /\ UNCHANGED <<storeVars, jobs, published, lock, memo, answer>>

(* A key that was used before is answered from Redis.                      *)
GetCached(r) ==
  /\ at[r] = "getCached"
  /\ IF Cached(r)
       THEN Reply(r, cache[key[r]].status)
       ELSE Goto(r, "readMain") /\ UNCHANGED answer
  /\ UNCHANGED <<storeVars, jobs, published, lock, key, memo>>

-----------------------------------------------------------------------------
(* tryClaimEnqueue: read, lock, read again, write, unlock.                 *)
ReadMain(r) ==
  /\ at[r] = "readMain"
  /\ Goto(r, IF Cached(r) THEN "getAgain" ELSE "setLock")
  /\ UNCHANGED <<storeVars, jobs, published, lock, key, memo, answer>>

SetLock(r) ==
  /\ at[r] = "setLock"
  /\ IF lock[key[r]] = Nobody
       THEN Locks(r) /\ Goto(r, "checkMain")
       ELSE Goto(r, "getRetry") /\ UNCHANGED lock
  /\ UNCHANGED <<storeVars, jobs, published, key, memo, answer>>

(* Mutant of SeenUnderLock: no second read under the lock.                 *)
NotSeen(r) == FALSE

SeenUnderLock(r) == Cached(r)

CheckMain(r) ==
  /\ at[r] = "checkMain"
  /\ IF SeenUnderLock(r)
       THEN Goto(r, "delLock") /\ Remember(r, "exists")
       ELSE Goto(r, "setMain") /\ UNCHANGED memo
  /\ UNCHANGED <<storeVars, jobs, published, lock, key, answer>>

SetMain(r) ==
  /\ at[r] = "setMain"
  /\ cache' = [cache EXCEPT ![key[r]] = Pending]
  /\ Remember(r, "claimed")
  /\ Goto(r, "delLock")
  /\ UNCHANGED <<orders, stock, jobs, published, lock, key, answer>>

(* The finally block deletes the lock whoever holds it by now.             *)
DelLock(r) ==
  /\ at[r] = "delLock"
  /\ Unlocks(r)
  /\ \/ memo[r] = "claimed" /\ Goto(r, "insert")   /\ UNCHANGED answer
     \/ memo[r] = "exists"  /\ Goto(r, "getAgain") /\ UNCHANGED answer
     \/ memo[r] = "failed"  /\ Reply(r, "ERROR")
  /\ UNCHANGED <<storeVars, jobs, published, key, memo>>

-----------------------------------------------------------------------------
(* The claim was somebody else's: already made ...                         *)
GetAgain(r) ==
  /\ at[r] = "getAgain"
  /\ Reply(r, CachedOr(r, "PENDING"))
  /\ UNCHANGED <<storeVars, jobs, published, lock, key, memo>>

(* ... or about to be made, 50 ms ago.                                     *)
GetRetry(r) ==
  /\ at[r] = "getRetry"
  /\ Reply(r, CachedOr(r, "IDEMPOTENCY_CONTENTION"))
  /\ UNCHANGED <<storeVars, jobs, published, lock, key, memo>>

(* Mutant of Duplicates: no unique index.                                  *)
NoDuplicates(o) == {}

(* The orders whose rows MySQL takes for o's: its default collation, which *)
(* the migration does not change, does not tell "a" from "A", though the   *)
(* keys of Redis and the ids of jobs do.                                   *)
Duplicates(o) == {x \in Orders : Column[x] = Column[o] /\ orders[x] # Absent}

Inserts(r) ==
  /\ Column[key[r]] # TooLong
  /\ Duplicates(key[r]) = {}
  /\ orders' = [orders EXCEPT ![key[r]] = Pending]

(* The claim was made: INSERT, which MySQL refuses for a key that is too   *)
(* long and the unique index on (tenant_id, idempotency_key) for one that  *)
(* has a row.                                                              *)
Insert(r) ==
  /\ at[r] = "insert"
  /\ \/ Inserts(r) /\ Goto(r, "enqueue")
     \/ /\ Column[key[r]] = TooLong \/ Duplicates(key[r]) # {}
        /\ Goto(r, "findOrder")
        /\ UNCHANGED orders
  /\ UNCHANGED <<stock, cache, jobs, published, lock, key, memo, answer>>

(* save threw: for a duplicate there is an order to be found.              *)
FindOrder(r) ==
  /\ at[r] = "findOrder"
  /\ \/ \E x \in Duplicates(key[r]) :
          /\ Remember(r, orders[x].status)
          /\ Goto(r, "getCachedAgain")
          /\ UNCHANGED answer
     \/ Duplicates(key[r]) = {} /\ Reply(r, "ERROR") /\ UNCHANGED memo
  /\ UNCHANGED <<storeVars, jobs, published, lock, key>>

GetCachedAgain(r) ==
  /\ at[r] = "getCachedAgain"
  /\ Reply(r, CachedOr(r, memo[r]))
  /\ UNCHANGED <<storeVars, jobs, published, lock, key, memo>>

(* queue.add does nothing when there is a job of that id, in any state.    *)
Enqueue(r) ==
  /\ at[r] = "enqueue"
  /\ jobs' = IF jobs[key[r]] = NoJob
               THEN [jobs EXCEPT ![key[r]] = NewJob]
               ELSE jobs
  /\ Reply(r, "PENDING")
  /\ UNCHANGED <<storeVars, published, lock, key, memo>>

-----------------------------------------------------------------------------
(* Mutant of AfterFailedInsert: a failed INSERT is passed over.            *)
PassedOver == "enqueue"

AfterFailedInsert == "findOrder"

(* A call throws.  From inside the claim the finally block still runs; a   *)
(* failed INSERT is taken for a duplicate at first; any other error is     *)
(* the request's answer.                                                   *)
CallFails(r) ==
  /\ Faults
  /\ \/ /\ at[r] \in {"checkMain", "setMain"}
        /\ Remember(r, "failed")
        /\ Goto(r, "delLock")
        /\ UNCHANGED answer
     \/ /\ at[r] = "insert"
        /\ Goto(r, AfterFailedInsert)
        /\ UNCHANGED <<memo, answer>>
     \/ /\ at[r] \notin {"new", "checkMain", "setMain", "insert", "gone"}
        /\ Reply(r, "ERROR")
        /\ UNCHANGED memo
  /\ UNCHANGED <<storeVars, jobs, published, lock, key>>

(* The INSERT was executed but its answer got lost: the request finds its  *)
(* own row and takes it for a duplicate's.                                 *)
InsertUnanswered(r) ==
  /\ Faults
  /\ at[r] = "insert"
  /\ Inserts(r)
  /\ Goto(r, AfterFailedInsert)
  /\ UNCHANGED <<stock, cache, jobs, published, lock, key, memo, answer>>

(* The connection to Redis is lost while SET NX is under way: ioredis      *)
(* sends it again, and the request is refused by the lock it has set.      *)
LockResent(r) ==
  /\ Faults
  /\ at[r] = "setLock"
  /\ lock[key[r]] = Nobody
  /\ Locks(r)
  /\ Goto(r, "getRetry")
  /\ UNCHANGED <<storeVars, jobs, published, key, memo, answer>>

Crash(r) ==
  /\ Faults
  /\ at[r] \notin {"new", "gone"}
  /\ Goto(r, "gone")
  /\ UNCHANGED <<storeVars, jobs, published, lock, key, memo, answer>>

-----------------------------------------------------------------------------
(* The lock lives 30 s: longer than any claim, unless its key is slow.     *)
HoldsLock(r) == at[r] \in {"checkMain", "setMain", "delLock"}

(* Mutant of LockExpires: SET without EX.                                  *)
LockStays(o) == FALSE /\ UNCHANGED placementVars

LockExpires(o) ==
  /\ lock[o] # Nobody
  /\ HoldsLock(lock[o]) => o \in SlowKeys
  /\ lock' = [lock EXCEPT ![o] = Nobody]
  /\ UNCHANGED <<storeVars, jobs, published, requestVars>>

(* The answer lives IDEMPOTENCY_TTL_SECONDS from the write on: longer than *)
(* the request that wrote it, unless its key is slow.                      *)
Claims(r, o) == InFlight(r, o) /\ memo[r] \notin {"nothing", "exists"}

CacheExpires(o) ==
  /\ cache[o] # Absent
  /\ (\E r \in Requests : Claims(r, o)) => o \in SlowKeys
  /\ cache' = [cache EXCEPT ![o] = Absent]
  /\ UNCHANGED <<orders, stock, jobs, published, lock, requestVars>>

-----------------------------------------------------------------------------
(* An undecided order may still get any outcome that the stock allows.     *)
MayBecome(o, row) ==
  /\ orders[o] = Pending
  /\ row = Confirmed =>
       ProductFound(o) /\ stock[Request[o].product] >= Request[o].quantity

(* What the workers do to an order that is queued: they take its job, ...  *)
WorkerTakes(o) ==
  /\ \E w \in Workers : Take(w, o)
  /\ UNCHANGED <<storeVars, published, lock, requestVars>>

(* ... write to Redis the outcome that the row has already or that their   *)
(* transaction is about to commit, whether or not MySQL will have it, ...  *)
WorkerPublishes(o) ==
  /\ jobs[o].state = "active"
  /\ \E row \in Outcome :
       /\ \/ row = orders[o] /\ UNCHANGED published
          \/ /\ MayBecome(o, row) /\ published[o] = {}
             /\ published' = [published EXCEPT ![o] = {row}]
       /\ UpdateFinal(o, row)
  /\ UNCHANGED <<orders, stock, jobs, lock, requestVars>>

(* The transaction has come to its end.                                    *)
Withdrawn(o) == published' = [published EXCEPT ![o] = {}]

WorkerFails(o) == \E w \in Workers : Owns(w, o) /\ FailAttempt(w, o)

(* ... commit what they have published, taking the units of a confirmation *)
(* (and fail all the same, if they are not told that it went well), ...    *)
WorkerDecides(o) ==
  /\ jobs[o].state = "active"
  /\ \E row \in published[o] :
       /\ MayBecome(o, row)
       /\ orders' = [orders EXCEPT ![o] = row]
       /\ stock' = Deducted(o, row)
  /\ Withdrawn(o)
  /\ UNCHANGED jobs \/ WorkerFails(o)
  /\ UNCHANGED <<cache, lock, requestVars>>

(* ... and complete the job of a decided order, fail it, or die, which the *)
(* queue notices later.  A transaction that was open is rolled back.       *)
WorkerReturns(o) ==
  /\ \/ Decided(orders[o]) /\ \E w \in Workers : Owns(w, o) /\ Finish(w, o)
     \/ WorkerFails(o)
     \/ Faults /\ jobs[o].state = "active" /\ UNCHANGED jobs
     \/ Stall(o)
  /\ Withdrawn(o)
  /\ UNCHANGED <<storeVars, lock, requestVars>>

(* removeOnComplete: 1000, removeOnFail: 5000.                             *)
RemoveJob(o) ==
  /\ jobs[o].state \in {"completed", "failed"}
  /\ jobs' = [jobs EXCEPT ![o] = NoJob]
  /\ UNCHANGED <<storeVars, published, lock, requestVars>>

-----------------------------------------------------------------------------
Init ==
  /\ orders = [o \in Orders |-> Absent]
  /\ stock  = [p \in Products |-> Product[p].stock]
  /\ cache  = [o \in Orders |-> Absent]
  /\ jobs   = [o \in Orders |-> NoJob]
  /\ published = [o \in Orders |-> {}]
  /\ lock   = [o \in Orders |-> Nobody]
  /\ at     = [r \in Requests |-> "new"]
  /\ key    = [r \in Requests |-> NoKey]
  /\ memo   = [r \in Requests |-> "nothing"]
  /\ answer = [r \in Requests |-> "NONE"]

Handle(r) ==
  \/ GetCached(r) \/ ReadMain(r) \/ SetLock(r) \/ CheckMain(r) \/ SetMain(r)
  \/ DelLock(r) \/ GetAgain(r) \/ GetRetry(r) \/ Insert(r) \/ FindOrder(r)
  \/ GetCachedAgain(r) \/ Enqueue(r)

Disturbance(r) == CallFails(r) \/ InsertUnanswered(r) \/ LockResent(r) \/ Crash(r)

Expiry == \E o \in Orders : LockExpires(o) \/ CacheExpires(o) \/ RemoveJob(o)

Environment ==
  \E o \in Orders :
    WorkerTakes(o) \/ WorkerPublishes(o) \/ WorkerDecides(o) \/ WorkerReturns(o)

PlaceOrder(r) == (\E o \in Orders : Receive(r, o)) \/ Handle(r) \/ Disturbance(r)

Next == (\E r \in Requests : PlaceOrder(r)) \/ Expiry \/ Environment

(* A request in a live process goes on, and Redis drops expired keys.      *)
Fairness ==
  /\ \A r \in Requests : WF_placementVars(Handle(r))
  /\ \A o \in Orders : WF_placementVars(LockExpires(o))

Spec == Init /\ [][Next]_placementVars

FairSpec == Spec /\ Fairness

-----------------------------------------------------------------------------
TypeOK ==
  /\ StoreTypeOK
  /\ JobsTypeOK
  /\ published \in [Orders -> SUBSET Outcome]
  /\ lock \in [Orders -> Requests \cup {Nobody}]
  /\ at \in [Requests -> Call]
  /\ key \in [Requests -> Orders \cup {NoKey}]
  /\ memo \in [Requests -> Memo]
  /\ answer \in [Requests -> Answer]

(* A job always finds its order's row: processOrder counts on it, since    *)
(* without it every replayed job would create another order.               *)
JobsHaveRows == \A o \in Orders : jobs[o] # NoJob => orders[o] # Absent

(* However many requests, retries, crashes and expired keys there are, at  *)
(* most one request ever queues an order: the claims in Redis may fail to  *)
(* keep requests apart, but the unique index does not.                     *)
MayEnqueue(r, o) == key[r] = o /\ at[r] = "enqueue"

QueuedAtMostOnce ==
  /\ \A r, s \in Requests : \A o \in Orders :
       MayEnqueue(r, o) /\ MayEnqueue(s, o) => r = s
  /\ \A r \in Requests : \A o \in Orders :
       MayEnqueue(r, o) => orders[o] = Pending /\ jobs[o] = NoJob

(* While requests are faster than the times to live, a key has at most one *)
(* request between its claim and its answer.                               *)
ClaimsExclusive ==
  \A o \in Orders \ SlowKeys : \A r, s \in Requests :
    /\ InFlight(r, o) /\ memo[r] = "claimed"
    /\ InFlight(s, o) /\ memo[s] = "claimed"
    => r = s

(* No key is blocked for good, whatever becomes of the request that locked *)
(* it.                                                                     *)
LocksAreReleased == \A o \in Orders : lock[o] # Nobody ~> lock[o] = Nobody

(* An order a client was told is PENDING is stored, and queued unless it   *)
(* is decided, once no request is at work on it.                           *)
PendingIsQueued ==
  \A r \in Requests :
    /\ answer[r] = "PENDING"
    /\ \A s \in Requests : ~InFlight(s, key[r])
    => Decided(orders[key[r]]) \/ jobs[key[r]] # NoJob

(* Redis does not say PENDING of a decided order, once no request is at    *)
(* work on it.                                                             *)
NoStalePending ==
  \A o \in Orders :
    /\ Decided(orders[o])
    /\ \A r \in Requests : ~InFlight(r, o)
    => cache[o] # Pending
=============================================================================

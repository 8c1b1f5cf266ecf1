------------------------ MODULE OrderPlacementProofs ------------------------
(***************************************************************************)
(* What holds of placeOrder for every set of orders and of requests.       *)
(***************************************************************************)
EXTENDS OrderPlacement, JobQueueProofs

(* Where a request is says which key it has and what it remembers.         *)
Consistent ==
  \A r \in Requests :
    /\ at[r] = "new" => key[r] = NoKey
    /\ at[r] \notin {"new", "gone"} => key[r] \in Orders
    /\ at[r] \in {"new", "getCached", "readMain", "setLock", "checkMain",
                  "setMain", "getRetry"} => memo[r] = "nothing"
    /\ at[r] = "delLock" => memo[r] \in {"claimed", "exists", "failed"}
    /\ at[r] = "getCachedAgain" => memo[r] \in OrderStatus

(* A row or an answer that exists has a status.                            *)
Clean ==
  \A o \in Orders :
    /\ orders[o] # Absent => orders[o].status \in OrderStatus
    /\ cache[o] # Absent => cache[o].status \in OrderStatus

(* The invariant behind the exclusive claims.  Between setLock and delLock *)
(* a request of a prompt key holds the key's lock; a claim keeps the key   *)
(* in Redis; so who finds the key missing under the lock is alone.         *)
Held ==
  \A r \in Requests :
    HoldsLock(r) /\ key[r] \notin SlowKeys => lock[key[r]] = r

ClaimedIsCached ==
  \A r \in Requests : \A o \in Orders \ SlowKeys :
    InFlight(r, o) /\ memo[r] = "claimed" => cache[o] # Absent

SetterAlone ==
  \A r, s \in Requests : \A o \in Orders \ SlowKeys :
    at[r] = "setMain" /\ key[r] = o => ~(InFlight(s, o) /\ memo[s] = "claimed")

PlacedInv ==
  /\ TypeOK /\ JobsBounded /\ Consistent /\ Clean
  /\ JobsHaveRows /\ QueuedAtMostOnce
  /\ Held /\ ClaimedIsCached /\ SetterAlone /\ ClaimsExclusive

-----------------------------------------------------------------------------
LEMMA Values ==
  /\ Absent \in Row /\ Pending \in Row /\ Absent # Pending
  /\ Pending.status \in OrderStatus
  /\ \A row \in Outcome :
       row \in Row /\ row # Absent /\ row.status \in OrderStatus
  /\ NoJob \in Job /\ NewJob \in Job /\ NewJob # NoJob /\ NoJob.state = "absent"
  /\ NewJob.attempts < MaxAttempts
  /\ "claimed" \notin OrderStatus /\ "nothing" \notin OrderStatus
BY FreshJobs
DEF Absent, Pending, Outcome, Confirmed, Rejected, Row, OrderStatus, RejectionReasonCode

(* An INSERT that goes through makes a row where there was none.           *)
LEMMA InsertedRow ==
  ASSUME TypeOK, NEW r \in Requests, key[r] \in Orders, Inserts(r)
  PROVE  /\ orders[key[r]] = Absent
         /\ orders' = [orders EXCEPT ![key[r]] = Pending]
BY DEF Inserts, Duplicates

LEMMA PlacedInvInit == Init => PlacedInv
<1> SUFFICES ASSUME Init PROVE PlacedInv
  OBVIOUS
<1>1. TypeOK /\ JobsBounded /\ Consistent /\ Clean
  BY Values, ProductAssumption, PlacementAssumption
  DEF AcceptedProduct, Init, TypeOK, StoreTypeOK, JobsTypeOK, JobsBounded, Call, Memo, Answer,
      Consistent, Clean
<1>2. JobsHaveRows /\ QueuedAtMostOnce
  BY DEF Init, JobsHaveRows, QueuedAtMostOnce, MayEnqueue
<1>3. Held /\ ClaimedIsCached /\ SetterAlone /\ ClaimsExclusive
  BY DEF Init, Held, HoldsLock, ClaimedIsCached, SetterAlone, ClaimsExclusive
<1> QED BY <1>1, <1>2, <1>3 DEF PlacedInv

(* What the workers do between them: they decide an order that is pending  *)
(* and being worked on, they write outcomes to Redis, and they move jobs   *)
(* about without adding or removing any.                                   *)
WorkersEffect ==
  /\ orders' \in [Orders -> Row] /\ stock' \in [Products -> Nat] /\ cache' \in [Orders -> Row]
  /\ JobsTypeOK' /\ JobsBounded' /\ published' \in [Orders -> SUBSET Outcome]
  /\ UNCHANGED <<lock, requestVars>>
  /\ \A o \in Orders :
       /\ orders'[o] # orders[o] => jobs[o] # NoJob /\ orders'[o] \in Outcome
       /\ cache'[o] # cache[o] => cache'[o] \in Outcome
       /\ jobs'[o] # NoJob => jobs[o] # NoJob

LEMMA WorkersDoNoMore ==
  ASSUME PlacedInv, NEW o \in Orders,
         WorkerTakes(o) \/ WorkerPublishes(o) \/ WorkerDecides(o) \/ WorkerReturns(o)
  PROVE  WorkersEffect
<1> USE DEF PlacedInv, TypeOK, StoreTypeOK, WorkersEffect
<1>1. ASSUME NEW w \in Workers, Take(w, o) \/ Finish(w, o) \/ FailAttempt(w, o)
      PROVE  /\ JobsTypeOK' /\ JobsBounded'
             /\ \A x \in Orders : jobs'[x] # NoJob => jobs[x] # NoJob
  <2>1. JobsTypeOK' /\ JobsBounded'
    BY <1>1, QueueSteps
  <2> QED BY <1>1, <2>1 DEF Take, Available, Finish, FailAttempt, Owns, NoJob, JobsTypeOK
<1>2. ASSUME Stall(o)
      PROVE  /\ JobsTypeOK' /\ JobsBounded'
             /\ \A x \in Orders : jobs'[x] # NoJob => jobs[x] # NoJob
  <2>1. JobsTypeOK' /\ JobsBounded'
    BY <1>2, StallSteps
  <2> QED BY <1>2, <2>1 DEF Stall, NoJob, JobsTypeOK
<1>3. CASE WorkerTakes(o)
  BY <1>1, <1>3 DEF WorkerTakes, storeVars
<1>4. CASE WorkerPublishes(o)
  BY <1>4, Values DEF WorkerPublishes, UpdateFinal, JobsTypeOK, JobsBounded
<1>5. CASE WorkerDecides(o)
  <2>1. /\ JobsTypeOK' /\ JobsBounded'
        /\ \A x \in Orders : jobs'[x] # NoJob => jobs[x] # NoJob
    BY <1>1, <1>5 DEF WorkerDecides, WorkerFails, JobsTypeOK, JobsBounded
  <2>2. PICK row \in Outcome :
          /\ MayBecome(o, row)
          /\ orders' = [orders EXCEPT ![o] = row]
          /\ stock' = Deducted(o, row)
    BY <1>5 DEF WorkerDecides, TypeOK
  <2>3. stock' \in [Products -> Nat]
    BY <2>2, DeductionFits DEF MayBecome
  <2>4. jobs[o] # NoJob
    BY <1>5 DEF WorkerDecides, NoJob
  <2> QED BY <1>5, <2>1, <2>2, <2>3, <2>4, Values DEF WorkerDecides, Withdrawn
<1>6. CASE WorkerReturns(o)
  <2>1. /\ JobsTypeOK' /\ JobsBounded'
        /\ \A x \in Orders : jobs'[x] # NoJob => jobs[x] # NoJob
    BY <1>1, <1>2, <1>6 DEF WorkerReturns, WorkerFails, JobsTypeOK, JobsBounded
  <2> QED BY <1>6, <2>1 DEF WorkerReturns, Withdrawn, storeVars
<1> QED BY <1>3, <1>4, <1>5, <1>6

LEMMA WorkersKeepPlacedInv ==
  ASSUME PlacedInv, NEW o \in Orders,
         WorkerTakes(o) \/ WorkerPublishes(o) \/ WorkerDecides(o) \/ WorkerReturns(o)
  PROVE  PlacedInv'
<1> USE WorkersDoNoMore DEF PlacedInv, WorkersEffect, requestVars
<1>1. TypeOK' /\ JobsBounded'
  BY DEF TypeOK, StoreTypeOK
<1>2. Consistent' /\ Clean'
  BY Values DEF Consistent, Clean
<1>3. JobsHaveRows' /\ QueuedAtMostOnce'
  BY Values DEF JobsHaveRows, QueuedAtMostOnce, MayEnqueue
<1>4. Held' /\ ClaimedIsCached' /\ SetterAlone' /\ ClaimsExclusive'
  BY Values DEF Held, HoldsLock, ClaimedIsCached, SetterAlone, ClaimsExclusive, InFlight
<1> QED BY <1>1, <1>2, <1>3, <1>4

LEMMA PlacedInvStep == PlacedInv /\ [Next]_placementVars => PlacedInv'
<1> SUFFICES ASSUME PlacedInv, [Next]_placementVars PROVE PlacedInv'
  OBVIOUS
<1> USE PlacementAssumption DEF PlacedInv, TypeOK, StoreTypeOK, JobsTypeOK
<1>1. ASSUME NEW r \in Requests, NEW o \in Orders, Receive(r, o) PROVE PlacedInv'
  <2> USE <1>1 DEF Receive, Goto, storeVars
  <2>1. TypeOK' /\ JobsBounded'
    BY Values DEF Call, JobsBounded
  <2>2. Consistent' /\ Clean'
    BY Values DEF Consistent, Clean
  <2>3. JobsHaveRows' /\ QueuedAtMostOnce'
    BY Values DEF JobsHaveRows, QueuedAtMostOnce, MayEnqueue, Consistent
  <2>4. Held'
    BY DEF Held, HoldsLock, Consistent
  <2>5. ClaimedIsCached'
    BY Values DEF ClaimedIsCached, InFlight, Claims, Consistent
  <2>6. SetterAlone'
    BY Values DEF SetterAlone, ClaimedIsCached, InFlight, Held, HoldsLock, Consistent
  <2>7. ClaimsExclusive'
    BY Values DEF ClaimsExclusive, SetterAlone, InFlight, Consistent
  <2> QED BY <2>1, <2>2, <2>3, <2>4, <2>5, <2>6, <2>7
<1>2. ASSUME NEW r \in Requests, GetCached(r) PROVE PlacedInv'
  <2> USE <1>2 DEF GetCached, Goto, Reply, Cached, storeVars
  <2>1. TypeOK' /\ JobsBounded'
    BY Values DEF JobsBounded, Call, Answer, Clean, Consistent, OrderStatus
  <2>2. Consistent' /\ Clean'
    BY Values DEF Consistent, Clean
  <2>3. JobsHaveRows' /\ QueuedAtMostOnce'
    BY Values DEF JobsHaveRows, QueuedAtMostOnce, MayEnqueue, Consistent
  <2>4. Held'
    BY DEF Held, HoldsLock, Consistent
  <2>5. ClaimedIsCached'
    BY Values DEF ClaimedIsCached, InFlight, Claims, Consistent
  <2>6. SetterAlone'
    BY Values DEF SetterAlone, ClaimedIsCached, InFlight, Held, HoldsLock, Consistent
  <2>7. ClaimsExclusive'
    BY Values DEF ClaimsExclusive, SetterAlone, InFlight, Consistent
  <2> QED BY <2>1, <2>2, <2>3, <2>4, <2>5, <2>6, <2>7
<1>3. ASSUME NEW r \in Requests, ReadMain(r) PROVE PlacedInv'
  <2> USE <1>3 DEF ReadMain, Goto, Cached, storeVars
  <2>1. TypeOK' /\ JobsBounded'
    BY Values DEF JobsBounded, Call, Clean, Consistent
  <2>2. Consistent' /\ Clean'
    BY Values DEF Consistent, Clean
  <2>3. JobsHaveRows' /\ QueuedAtMostOnce'
    BY Values DEF JobsHaveRows, QueuedAtMostOnce, MayEnqueue, Consistent
  <2>4. Held'
    BY DEF Held, HoldsLock, Consistent
  <2>5. ClaimedIsCached'
    BY Values DEF ClaimedIsCached, InFlight, Claims, Consistent
  <2>6. SetterAlone'
    BY Values DEF SetterAlone, ClaimedIsCached, InFlight, Held, HoldsLock, Consistent
  <2>7. ClaimsExclusive'
    BY Values DEF ClaimsExclusive, SetterAlone, InFlight, Consistent
  <2> QED BY <2>1, <2>2, <2>3, <2>4, <2>5, <2>6, <2>7
<1>4. ASSUME NEW r \in Requests, SetLock(r) PROVE PlacedInv'
  <2> USE <1>4 DEF SetLock, Goto, Locks, storeVars
  <2>1. TypeOK' /\ JobsBounded'
    BY Values DEF Call, JobsBounded
  <2>2. Consistent' /\ Clean'
    BY Values DEF Consistent, Clean
  <2>3. JobsHaveRows' /\ QueuedAtMostOnce'
    BY Values DEF JobsHaveRows, QueuedAtMostOnce, MayEnqueue, Consistent
  <2>4. Held'
    BY DEF Held, HoldsLock, Consistent
  <2>5. ClaimedIsCached'
    BY Values DEF ClaimedIsCached, InFlight, Claims, Consistent
  <2>6. SetterAlone'
    BY Values DEF SetterAlone, ClaimedIsCached, InFlight, Held, HoldsLock, Consistent
  <2>7. ClaimsExclusive'
    BY Values DEF ClaimsExclusive, SetterAlone, InFlight, Consistent
  <2> QED BY <2>1, <2>2, <2>3, <2>4, <2>5, <2>6, <2>7
<1>5. ASSUME NEW r \in Requests, CheckMain(r) PROVE PlacedInv'
  <2> USE <1>5 DEF CheckMain, SeenUnderLock, Goto, Remember, Cached, storeVars
  <2>1. TypeOK' /\ JobsBounded'
    BY Values DEF JobsBounded, Call, Memo, Clean, Consistent
  <2>2. Consistent' /\ Clean'
    BY Values DEF Consistent, Clean
  <2>3. JobsHaveRows' /\ QueuedAtMostOnce'
    BY Values DEF JobsHaveRows, QueuedAtMostOnce, MayEnqueue, Consistent
  <2>4. Held'
    BY DEF Held, HoldsLock, Consistent
  <2>5. ClaimedIsCached'
    BY Values DEF ClaimedIsCached, InFlight, Claims, Consistent
  <2>6. SetterAlone'
    BY Values DEF SetterAlone, ClaimedIsCached, InFlight, Held, HoldsLock, Consistent
  <2>7. ClaimsExclusive'
    BY Values DEF ClaimsExclusive, SetterAlone, InFlight, Consistent
  <2> QED BY <2>1, <2>2, <2>3, <2>4, <2>5, <2>6, <2>7
<1>6. ASSUME NEW r \in Requests, SetMain(r) PROVE PlacedInv'
  <2> USE <1>6 DEF SetMain, Goto, Remember
  <2>1. TypeOK' /\ JobsBounded'
    BY Values DEF JobsBounded, Call, Memo
  <2>2. Consistent' /\ Clean'
    BY Values DEF Consistent, Clean
  <2>3. JobsHaveRows' /\ QueuedAtMostOnce'
    BY Values DEF JobsHaveRows, QueuedAtMostOnce, MayEnqueue, Consistent
  <2>4. Held'
    BY DEF Held, HoldsLock, Consistent
  <2>5. ClaimedIsCached'
    BY Values DEF ClaimedIsCached, InFlight, Claims, Consistent
  <2>6. SetterAlone'
    BY Values DEF SetterAlone, ClaimedIsCached, InFlight, Held, HoldsLock, Consistent
  <2>7. ClaimsExclusive'
    BY Values DEF ClaimsExclusive, SetterAlone, InFlight, Consistent
  <2> QED BY <2>1, <2>2, <2>3, <2>4, <2>5, <2>6, <2>7
<1>7. ASSUME NEW r \in Requests, DelLock(r) PROVE PlacedInv'
  <2> USE <1>7 DEF DelLock, Goto, Reply, Unlocks, storeVars
  <2>1. TypeOK' /\ JobsBounded'
    BY Values DEF JobsBounded, Call, Answer, OrderStatus
  <2>2. Consistent' /\ Clean'
    BY Values DEF Consistent, Clean
  <2>3. JobsHaveRows' /\ QueuedAtMostOnce'
    BY Values DEF JobsHaveRows, QueuedAtMostOnce, MayEnqueue, Consistent
  <2>4. Held'
    BY DEF Held, HoldsLock, Consistent
  <2>5. ClaimedIsCached'
    BY Values DEF ClaimedIsCached, InFlight, Claims, Consistent
  <2>6. SetterAlone'
    BY Values DEF SetterAlone, ClaimedIsCached, InFlight, Held, HoldsLock, Consistent
  <2>7. ClaimsExclusive'
    BY Values DEF ClaimsExclusive, SetterAlone, InFlight, Consistent
  <2> QED BY <2>1, <2>2, <2>3, <2>4, <2>5, <2>6, <2>7
<1>8. ASSUME NEW r \in Requests, GetAgain(r) PROVE PlacedInv'
  <2> USE <1>8 DEF GetAgain, Goto, Reply, Cached, CachedOr, storeVars
  <2>1. TypeOK' /\ JobsBounded'
    BY Values DEF JobsBounded, Call, Answer, Clean, Consistent, OrderStatus
  <2>2. Consistent' /\ Clean'
    BY Values DEF Consistent, Clean
  <2>3. JobsHaveRows' /\ QueuedAtMostOnce'
    BY Values DEF JobsHaveRows, QueuedAtMostOnce, MayEnqueue, Consistent
  <2>4. Held'
    BY DEF Held, HoldsLock, Consistent
  <2>5. ClaimedIsCached'
    BY Values DEF ClaimedIsCached, InFlight, Claims, Consistent
  <2>6. SetterAlone'
    BY Values DEF SetterAlone, ClaimedIsCached, InFlight, Held, HoldsLock, Consistent
  <2>7. ClaimsExclusive'
    BY Values DEF ClaimsExclusive, SetterAlone, InFlight, Consistent
  <2> QED BY <2>1, <2>2, <2>3, <2>4, <2>5, <2>6, <2>7
<1>9. ASSUME NEW r \in Requests, GetRetry(r) PROVE PlacedInv'
  <2> USE <1>9 DEF GetRetry, Goto, Reply, Cached, CachedOr, storeVars
  <2>1. TypeOK' /\ JobsBounded'
    BY Values DEF JobsBounded, Call, Answer, Clean, Consistent, OrderStatus
  <2>2. Consistent' /\ Clean'
    BY Values DEF Consistent, Clean
  <2>3. JobsHaveRows' /\ QueuedAtMostOnce'
    BY Values DEF JobsHaveRows, QueuedAtMostOnce, MayEnqueue, Consistent
  <2>4. Held'
    BY DEF Held, HoldsLock, Consistent
  <2>5. ClaimedIsCached'
    BY Values DEF ClaimedIsCached, InFlight, Claims, Consistent
  <2>6. SetterAlone'
    BY Values DEF SetterAlone, ClaimedIsCached, InFlight, Held, HoldsLock, Consistent
  <2>7. ClaimsExclusive'
    BY Values DEF ClaimsExclusive, SetterAlone, InFlight, Consistent
  <2> QED BY <2>1, <2>2, <2>3, <2>4, <2>5, <2>6, <2>7
<1>10. ASSUME NEW r \in Requests, Insert(r) PROVE PlacedInv'
  <2>0. /\ key[r] \in Orders
        /\ Inserts(r) => orders[key[r]] = Absent /\ orders' = [orders EXCEPT ![key[r]] = Pending]
    BY <1>10, InsertedRow DEF Insert, Consistent
  <2> USE <1>10, <2>0 DEF Insert, Goto
  <2>1. TypeOK' /\ JobsBounded'
    BY Values DEF Call, JobsBounded
  <2>2. Consistent' /\ Clean'
    BY Values DEF Consistent, Clean
  <2>3. JobsHaveRows' /\ QueuedAtMostOnce'
    BY Values DEF JobsHaveRows, QueuedAtMostOnce, MayEnqueue, Consistent
  <2>4. Held'
    BY DEF Held, HoldsLock, Consistent
  <2>5. ClaimedIsCached'
    BY Values DEF ClaimedIsCached, InFlight, Claims, Consistent
  <2>6. SetterAlone'
    BY Values DEF SetterAlone, ClaimedIsCached, InFlight, Held, HoldsLock, Consistent
  <2>7. ClaimsExclusive'
    BY Values DEF ClaimsExclusive, SetterAlone, InFlight, Consistent
  <2> QED BY <2>1, <2>2, <2>3, <2>4, <2>5, <2>6, <2>7
<1>11. ASSUME NEW r \in Requests, FindOrder(r) PROVE PlacedInv'
  <2> USE <1>11 DEF FindOrder, Duplicates, Goto, Remember, Reply, storeVars
  <2>1. TypeOK' /\ JobsBounded'
    BY Values DEF JobsBounded, Call, Memo, Answer, Clean, Consistent, OrderStatus
  <2>2. Consistent' /\ Clean'
    BY Values DEF Consistent, Clean
  <2>3. JobsHaveRows' /\ QueuedAtMostOnce'
    BY Values DEF JobsHaveRows, QueuedAtMostOnce, MayEnqueue, Consistent
  <2>4. Held'
    BY DEF Held, HoldsLock, Consistent
  <2>5. ClaimedIsCached'
    BY Values DEF Clean, ClaimedIsCached, InFlight, Claims, Consistent
  <2>6. SetterAlone'
    BY Values DEF Clean, SetterAlone, ClaimedIsCached, InFlight, Held, HoldsLock, Consistent
  <2>7. ClaimsExclusive'
    BY Values DEF Clean, ClaimsExclusive, SetterAlone, InFlight, Consistent
  <2> QED BY <2>1, <2>2, <2>3, <2>4, <2>5, <2>6, <2>7
<1>12. ASSUME NEW r \in Requests, GetCachedAgain(r) PROVE PlacedInv'
  <2> USE <1>12 DEF GetCachedAgain, Goto, Reply, Cached, CachedOr, storeVars
  <2>1. TypeOK' /\ JobsBounded'
    BY Values DEF JobsBounded, Call, Answer, Clean, Consistent, OrderStatus
  <2>2. Consistent' /\ Clean'
    BY Values DEF Consistent, Clean
  <2>3. JobsHaveRows' /\ QueuedAtMostOnce'
    BY Values DEF JobsHaveRows, QueuedAtMostOnce, MayEnqueue, Consistent
  <2>4. Held'
    BY DEF Held, HoldsLock, Consistent
  <2>5. ClaimedIsCached'
    BY Values DEF ClaimedIsCached, InFlight, Claims, Consistent
  <2>6. SetterAlone'
    BY Values DEF SetterAlone, ClaimedIsCached, InFlight, Held, HoldsLock, Consistent
  <2>7. ClaimsExclusive'
    BY Values DEF ClaimsExclusive, SetterAlone, InFlight, Consistent
  <2> QED BY <2>1, <2>2, <2>3, <2>4, <2>5, <2>6, <2>7
<1>13. ASSUME NEW r \in Requests, Enqueue(r) PROVE PlacedInv'
  <2> USE <1>13 DEF Enqueue, Goto, Reply, storeVars
  <2>1. TypeOK' /\ JobsBounded'
    BY Values DEF JobsBounded, Call, Answer, OrderStatus
  <2>2. Consistent' /\ Clean'
    BY Values DEF Consistent, Clean
  <2>3. JobsHaveRows' /\ QueuedAtMostOnce'
    BY Values DEF JobsHaveRows, QueuedAtMostOnce, MayEnqueue, Consistent
  <2>4. Held'
    BY DEF Held, HoldsLock, Consistent
  <2>5. ClaimedIsCached'
    BY Values DEF ClaimedIsCached, InFlight, Claims, Consistent
  <2>6. SetterAlone'
    BY Values DEF SetterAlone, ClaimedIsCached, InFlight, Held, HoldsLock, Consistent
  <2>7. ClaimsExclusive'
    BY Values DEF ClaimsExclusive, SetterAlone, InFlight, Consistent
  <2> QED BY <2>1, <2>2, <2>3, <2>4, <2>5, <2>6, <2>7
<1>14. ASSUME NEW r \in Requests, CallFails(r) PROVE PlacedInv'
  <2> USE <1>14 DEF CallFails, AfterFailedInsert, Goto, Remember, Reply, storeVars
  <2>1. TypeOK' /\ JobsBounded'
    BY Values DEF JobsBounded, Call, Memo, Answer, OrderStatus
  <2>2. Consistent' /\ Clean'
    BY Values DEF Consistent, Clean
  <2>3. JobsHaveRows' /\ QueuedAtMostOnce'
    BY Values DEF JobsHaveRows, QueuedAtMostOnce, MayEnqueue, Consistent
  <2>4. Held'
    BY DEF Held, HoldsLock, Consistent
  <2>5. ClaimedIsCached'
    BY Values DEF ClaimedIsCached, InFlight, Claims, Consistent
  <2>6. SetterAlone'
    BY Values DEF SetterAlone, ClaimedIsCached, InFlight, Held, HoldsLock, Consistent
  <2>7. ClaimsExclusive'
    BY Values DEF ClaimsExclusive, SetterAlone, InFlight, Consistent
  <2> QED BY <2>1, <2>2, <2>3, <2>4, <2>5, <2>6, <2>7
<1>15. ASSUME NEW r \in Requests, InsertUnanswered(r) PROVE PlacedInv'
  <2>0. /\ key[r] \in Orders
        /\ orders[key[r]] = Absent /\ orders' = [orders EXCEPT ![key[r]] = Pending]
    BY <1>15, InsertedRow DEF InsertUnanswered, Consistent
  <2> USE <1>15, <2>0 DEF InsertUnanswered, AfterFailedInsert, Goto
  <2>1. TypeOK' /\ JobsBounded'
    BY Values DEF Call, JobsBounded
  <2>2. Consistent' /\ Clean'
    BY Values DEF Consistent, Clean
  <2>3. JobsHaveRows' /\ QueuedAtMostOnce'
    BY Values DEF JobsHaveRows, QueuedAtMostOnce, MayEnqueue, Consistent
  <2>4. Held'
    BY DEF Held, HoldsLock, Consistent
  <2>5. ClaimedIsCached'
    BY Values DEF ClaimedIsCached, InFlight, Claims, Consistent
  <2>6. SetterAlone'
    BY Values DEF SetterAlone, ClaimedIsCached, InFlight, Held, HoldsLock, Consistent
  <2>7. ClaimsExclusive'
    BY Values DEF ClaimsExclusive, SetterAlone, InFlight, Consistent
  <2> QED BY <2>1, <2>2, <2>3, <2>4, <2>5, <2>6, <2>7
<1>16. ASSUME NEW r \in Requests, LockResent(r) PROVE PlacedInv'
  <2> USE <1>16 DEF LockResent, Goto, Locks, storeVars
  <2>1. TypeOK' /\ JobsBounded'
    BY Values DEF Call, JobsBounded
  <2>2. Consistent' /\ Clean'
    BY Values DEF Consistent, Clean
  <2>3. JobsHaveRows' /\ QueuedAtMostOnce'
    BY Values DEF JobsHaveRows, QueuedAtMostOnce, MayEnqueue, Consistent
  <2>4. Held'
    BY DEF Held, HoldsLock, Consistent
  <2>5. ClaimedIsCached'
    BY Values DEF ClaimedIsCached, InFlight, Claims, Consistent
  <2>6. SetterAlone'
    BY Values DEF SetterAlone, ClaimedIsCached, InFlight, Held, HoldsLock, Consistent
  <2>7. ClaimsExclusive'
    BY Values DEF ClaimsExclusive, SetterAlone, InFlight, Consistent
  <2> QED BY <2>1, <2>2, <2>3, <2>4, <2>5, <2>6, <2>7
<1>17. ASSUME NEW r \in Requests, Crash(r) PROVE PlacedInv'
  <2> USE <1>17 DEF Crash, Goto, storeVars
  <2>1. TypeOK' /\ JobsBounded'
    BY Values DEF Call, JobsBounded
  <2>2. Consistent' /\ Clean'
    BY Values DEF Consistent, Clean
  <2>3. JobsHaveRows' /\ QueuedAtMostOnce'
    BY Values DEF JobsHaveRows, QueuedAtMostOnce, MayEnqueue, Consistent
  <2>4. Held'
    BY DEF Held, HoldsLock, Consistent
  <2>5. ClaimedIsCached'
    BY Values DEF ClaimedIsCached, InFlight, Claims, Consistent
  <2>6. SetterAlone'
    BY Values DEF SetterAlone, ClaimedIsCached, InFlight, Held, HoldsLock, Consistent
  <2>7. ClaimsExclusive'
    BY Values DEF ClaimsExclusive, SetterAlone, InFlight, Consistent
  <2> QED BY <2>1, <2>2, <2>3, <2>4, <2>5, <2>6, <2>7
<1>18. ASSUME NEW o \in Orders, LockExpires(o) PROVE PlacedInv'
  <2> USE <1>18 DEF LockExpires, storeVars, requestVars
  <2>1. TypeOK' /\ JobsBounded'
    BY Values DEF JobsBounded
  <2>2. Consistent' /\ Clean'
    BY Values DEF Consistent, Clean
  <2>3. JobsHaveRows' /\ QueuedAtMostOnce'
    BY Values DEF JobsHaveRows, QueuedAtMostOnce, MayEnqueue, Consistent
  <2>4. Held'
    BY DEF Held, HoldsLock, Consistent
  <2>5. ClaimedIsCached'
    BY Values DEF ClaimedIsCached, InFlight, Claims, Consistent
  <2>6. SetterAlone'
    BY Values DEF SetterAlone, ClaimedIsCached, InFlight, Held, HoldsLock, Consistent
  <2>7. ClaimsExclusive'
    BY Values DEF ClaimsExclusive, SetterAlone, InFlight, Consistent
  <2> QED BY <2>1, <2>2, <2>3, <2>4, <2>5, <2>6, <2>7
<1>19. ASSUME NEW o \in Orders, CacheExpires(o) PROVE PlacedInv'
  <2> USE <1>19 DEF CacheExpires, requestVars
  <2>1. TypeOK' /\ JobsBounded'
    BY Values DEF JobsBounded
  <2>2. Consistent' /\ Clean'
    BY Values DEF Consistent, Clean
  <2>3. JobsHaveRows' /\ QueuedAtMostOnce'
    BY Values DEF JobsHaveRows, QueuedAtMostOnce, MayEnqueue, Consistent
  <2>4. Held'
    BY DEF Held, HoldsLock, Consistent
  <2>5. ClaimedIsCached'
    BY Values DEF ClaimedIsCached, InFlight, Claims, Consistent
  <2>6. SetterAlone'
    BY Values DEF SetterAlone, ClaimedIsCached, InFlight, Held, HoldsLock, Consistent
  <2>7. ClaimsExclusive'
    BY Values DEF ClaimsExclusive, SetterAlone, InFlight, Consistent
  <2> QED BY <2>1, <2>2, <2>3, <2>4, <2>5, <2>6, <2>7
<1>20. ASSUME NEW o \in Orders,
              WorkerTakes(o) \/ WorkerPublishes(o) \/ WorkerDecides(o) \/ WorkerReturns(o)
       PROVE  PlacedInv'
  BY <1>20, WorkersKeepPlacedInv
<1>21. ASSUME NEW o \in Orders, RemoveJob(o) PROVE PlacedInv'
  <2> USE <1>21 DEF RemoveJob, storeVars, requestVars
  <2>1. TypeOK' /\ JobsBounded'
    BY Values DEF JobsBounded, Job, JobState
  <2>2. Consistent' /\ Clean'
    BY Values DEF Consistent, Clean
  <2>3. JobsHaveRows' /\ QueuedAtMostOnce'
    BY Values DEF JobsHaveRows, QueuedAtMostOnce, MayEnqueue, Consistent
  <2>4. Held'
    BY DEF Held, HoldsLock, Consistent
  <2>5. ClaimedIsCached'
    BY Values DEF ClaimedIsCached, InFlight, Claims, Consistent
  <2>6. SetterAlone'
    BY Values DEF SetterAlone, ClaimedIsCached, InFlight, Held, HoldsLock, Consistent
  <2>7. ClaimsExclusive'
    BY Values DEF ClaimsExclusive, SetterAlone, InFlight, Consistent
  <2> QED BY <2>1, <2>2, <2>3, <2>4, <2>5, <2>6, <2>7
<1>22. CASE UNCHANGED placementVars
  BY <1>22 DEF placementVars, JobsBounded, Consistent, Clean, JobsHaveRows, QueuedAtMostOnce, MayEnqueue,
       Held, HoldsLock, ClaimedIsCached, SetterAlone, ClaimsExclusive, InFlight
<1> QED
  BY <1>1, <1>2, <1>3, <1>4, <1>5, <1>6, <1>7, <1>8, <1>9, <1>10, <1>11, <1>12, <1>13, <1>14, <1>15, <1>16, <1>17, <1>18, <1>19, <1>20, <1>21, <1>22
  DEF Next, PlaceOrder, Handle, Disturbance, Expiry, Environment

(* Every value keeps its type, whatever order the calls run in.            *)
THEOREM PlacementTypes == Spec => []TypeOK
<1>1. PlacedInv => TypeOK
  BY DEF PlacedInv
<1> QED BY PlacedInvInit, PlacedInvStep, <1>1, PTL DEF Spec

(* A job never lacks its row.                                              *)
THEOREM JobsAlwaysHaveRows == Spec => []JobsHaveRows
<1>1. PlacedInv => JobsHaveRows
  BY DEF PlacedInv
<1> QED BY PlacedInvInit, PlacedInvStep, <1>1, PTL DEF Spec

(* The unique index lets one request through to the queue, even where the  *)
(* claims in Redis have run out.                                           *)
THEOREM OneRequestQueues == Spec => []QueuedAtMostOnce
<1>1. PlacedInv => QueuedAtMostOnce
  BY DEF PlacedInv
<1> QED BY PlacedInvInit, PlacedInvStep, <1>1, PTL DEF Spec

(* The lock and the second read make a prompt key's claim exclusive.       *)
THEOREM ClaimsAreExclusive == Spec => []ClaimsExclusive
<1>1. PlacedInv => ClaimsExclusive
  BY DEF PlacedInv
<1> QED BY PlacedInvInit, PlacedInvStep, <1>1, PTL DEF Spec
=============================================================================

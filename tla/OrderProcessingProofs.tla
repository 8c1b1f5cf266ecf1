------------------------ MODULE OrderProcessingProofs ------------------------
(***************************************************************************)
(* What holds of the order workers for every set of orders, products,      *)
(* campaigns and workers, every number of attempts and every clock.        *)
(***************************************************************************)
EXTENDS OrderProcessing, JobQueueProofs

-----------------------------------------------------------------------------
(* The invariant behind the type invariant.  Stock stays a natural number  *)
(* because whoever has decided to confirm holds the product's row alone    *)
(* until it commits, and has seen enough stock there.                      *)
Started(o) == CampaignFound(o) /\ now >= Campaign[Request[o].campaign].start

Guarded ==
  \A w \in Workers :
    /\ phase[w] # "idle" => cur[w] \in Orders
    /\ phase[w] \in {"share", "deduct", "upgrade"} => Started(cur[w])
    /\ phase[w] \in {"save", "publish", "commit"} =>
         /\ verdict[w] \in Outcome
         /\ verdict[w] = Confirmed =>
              /\ Started(cur[w])
              /\ stock[Request[cur[w]].product] >= Request[cur[w]].quantity

Exclusive ==
  \A v, w \in Workers : \A p \in Products :
    v # w /\ LocksProduct(v, p) => ~LocksProduct(w, p) /\ ~SharesProduct(w, p)

SafeInv == TypeOK /\ JobsBounded /\ Guarded /\ Exclusive /\ ConfirmedOnlyOnceOpen

-----------------------------------------------------------------------------
(* A campaign is created only for a product of its own tenant, so an order *)
(* that matches its campaign also finds its product: the branch of         *)
(* processOrder for a missing product is never taken.                      *)
LEMMA MatchingCampaignHasProduct ==
  \A o \in Orders : CampaignFound(o) => ProductFound(o)
BY CampaignAssumption DEF AcceptedCampaign, CampaignFound, ProductFound

LEMMA SafeInvInit == Init => SafeInv
<1> SUFFICES ASSUME Init PROVE SafeInv
  OBVIOUS
<1>1. TypeOK
  BY Rows, ProductAssumption, MaxAttemptsAssumption, MaxStallsAssumption, HorizonAssumption
  DEF AcceptedProduct, Init, WorkersStart, TypeOK, StoreTypeOK, JobsTypeOK, Job, JobState, NewJob, NoJob, Phase
<1>2. JobsBounded
  BY MaxAttemptsAssumption DEF Init, WorkersStart, JobsBounded, NewJob, NoJob
<1>3. Guarded
  BY DEF Init, WorkersStart, Guarded
<1>4. Exclusive
  BY DEF Init, WorkersStart, Exclusive, LocksProduct
<1>5. ConfirmedOnlyOnceOpen
  BY DEF Init, WorkersStart, ConfirmedOnlyOnceOpen, Pending
<1> QED BY <1>1, <1>2, <1>3, <1>4, <1>5 DEF SafeInv

(* A worker that gives up its job drops its locks and its decision.        *)
LEMMA IdleIsSafe ==
  ASSUME SafeInv, NEW w \in Workers, Idle(w), UNCHANGED <<storeVars, now>>,
         JobsTypeOK', JobsBounded'
  PROVE  SafeInv'
<1> USE DEF SafeInv, Idle, storeVars
<1>1. TypeOK'
  BY Rows DEF TypeOK, StoreTypeOK, Phase
<1>2. Guarded'
  BY DEF TypeOK, Guarded, Started
<1>3. Exclusive'
  BY DEF TypeOK, Exclusive, LocksProduct, SharesProduct
<1>4. ConfirmedOnlyOnceOpen'
  BY DEF ConfirmedOnlyOnceOpen
<1> QED BY <1>1, <1>2, <1>3, <1>4

(* A commit takes no more than the stock its worker has seen, and nothing  *)
(* that another worker has seen.                                           *)
LEMMA CommittedWritesAreSafe ==
  ASSUME SafeInv, NEW w \in Workers, phase[w] = "commit", ApplyWrites(w), now' = now
  PROVE  /\ orders' \in [Orders -> Row]
         /\ stock' \in [Products -> Nat]
         /\ ConfirmedOnlyOnceOpen'
         /\ \A v \in Workers \ {w} :
              phase[v] \in {"save", "publish", "commit"} /\ verdict[v] = Confirmed
                => stock'[Request[cur[v]].product] >= Request[cur[v]].quantity
<1> USE DEF SafeInv, TypeOK, StoreTypeOK
<1>1. /\ cur[w] \in Orders /\ Request[cur[w]].quantity \in Nat
      /\ verdict[w] = Confirmed =>
           /\ Started(cur[w]) /\ ProductFound(cur[w])
           /\ Request[cur[w]].product \in Products
           /\ stock[Request[cur[w]].product] >= Request[cur[w]].quantity
  BY MatchingCampaignHasProduct, RequestAssumption DEF AcceptedOrder, Guarded, Started, ProductFound
<1>2. orders' \in [Orders -> Row]
  BY <1>1, Rows DEF ApplyWrites
<1>3. stock' \in [Products -> Nat]
  BY <1>1 DEF ApplyWrites, Deducted
<1>4. ConfirmedOnlyOnceOpen'
  <2> SUFFICES ASSUME NEW o \in Orders, orders'[o].status = "CONFIRMED"
               PROVE  CampaignFound(o) /\ now >= Campaign[Request[o].campaign].start
    BY DEF ConfirmedOnlyOnceOpen
  <2>1. CASE orders[o].status = "CONFIRMED"
    BY <2>1 DEF ConfirmedOnlyOnceOpen
  <2>2. CASE orders[o].status # "CONFIRMED"
    <3>1. o = cur[w] /\ verdict[w].status = "CONFIRMED"
      BY <2>2, <1>1 DEF ApplyWrites, Saved
    <3>2. verdict[w] = Confirmed
      BY <3>1 DEF Guarded, Outcome, Rejected
    <3> QED BY <3>1, <3>2, <1>1 DEF Started
  <2> QED BY <2>1, <2>2
<1>5. ASSUME NEW v \in Workers \ {w},
             phase[v] \in {"save", "publish", "commit"}, verdict[v] = Confirmed
      PROVE  stock'[Request[cur[v]].product] >= Request[cur[v]].quantity
  <2>1. /\ cur[v] \in Orders
        /\ LocksProduct(v, Request[cur[v]].product)
        /\ Request[cur[v]].product \in Products
        /\ stock[Request[cur[v]].product] >= Request[cur[v]].quantity
    BY <1>5, MatchingCampaignHasProduct
    DEF Guarded, Started, LocksProduct, DeductionTried, Confirmed, ProductFound
  <2>2. CASE verdict[w] = Confirmed
    <3>1. LocksProduct(w, Request[cur[w]].product)
      BY <2>2, <1>1 DEF LocksProduct, DeductionTried, Confirmed
    <3>2. Request[cur[v]].product # Request[cur[w]].product
      BY <2>1, <3>1, <1>1 DEF Exclusive
    <3> QED BY <2>1, <3>2, <2>2, <1>1 DEF ApplyWrites, Deducted
  <2>3. CASE verdict[w] # Confirmed
    BY <2>1, <2>3 DEF ApplyWrites, Deducted
  <2> QED BY <2>2, <2>3
<1> QED BY <1>2, <1>3, <1>4, <1>5

LEMMA SafeInvStep == SafeInv /\ [Next]_vars => SafeInv'
<1> SUFFICES ASSUME SafeInv, [Next]_vars PROVE SafeInv'
  OBVIOUS
<1> USE DEF SafeInv, TypeOK, StoreTypeOK
<1>1. ASSUME NEW w \in Workers, NEW o \in Orders, Fetch(w, o) PROVE SafeInv'
  <2>1. JobsTypeOK' /\ JobsBounded'
    BY <1>1, QueueSteps DEF Fetch
  <2>2. TypeOK'
    BY <1>1, <2>1 DEF Fetch, Goto, storeVars, Phase
  <2>3. Guarded'
    BY <1>1 DEF Fetch, Goto, storeVars, Guarded, Started
  <2>4. Exclusive'
    BY <1>1 DEF Fetch, Goto, storeVars, Exclusive, LocksProduct, SharesProduct
  <2>5. ConfirmedOnlyOnceOpen'
    BY <1>1 DEF Fetch, storeVars, ConfirmedOnlyOnceOpen
  <2> QED BY <2>1, <2>2, <2>3, <2>4, <2>5
<1>2. ASSUME NEW w \in Workers, FindDecided(w) PROVE SafeInv'
  <2> USE <1>2 DEF FindDecided, Goto, Decide, storeVars
  <2>1. TypeOK' /\ JobsBounded'
    BY DEF Phase, JobsTypeOK, JobsBounded, Guarded
  <2>2. Guarded'
    BY DEF Guarded, Started
  <2>3. Exclusive'
    BY DEF Exclusive, LocksProduct, SharesProduct
  <2>4. ConfirmedOnlyOnceOpen'
    BY DEF ConfirmedOnlyOnceOpen
  <2> QED BY <2>1, <2>2, <2>3, <2>4
<1>3. ASSUME NEW w \in Workers, FindPending(w) PROVE SafeInv'
  <2> USE <1>3 DEF FindPending, Goto, Decide, storeVars
  <2>1. TypeOK' /\ JobsBounded'
    BY DEF Phase, JobsTypeOK, JobsBounded, Guarded
  <2>2. Guarded'
    BY DEF Guarded, Started
  <2>3. Exclusive'
    BY DEF Exclusive, LocksProduct, SharesProduct
  <2>4. ConfirmedOnlyOnceOpen'
    BY DEF ConfirmedOnlyOnceOpen
  <2> QED BY <2>1, <2>2, <2>3, <2>4
<1>4. ASSUME NEW w \in Workers, Replay(w) PROVE SafeInv'
  <2> USE <1>4 DEF Replay, Goto, Decide, storeVars, UpdateFinal
  <2>1. TypeOK' /\ JobsBounded'
    BY Rows DEF Phase, RejectionReasonCode, Outcome, JobsTypeOK, JobsBounded, Guarded
  <2>2. Guarded'
    BY Rows DEF Guarded, Started
  <2>3. Exclusive'
    BY Rows DEF Exclusive, LocksProduct, SharesProduct
  <2>4. ConfirmedOnlyOnceOpen'
    BY DEF ConfirmedOnlyOnceOpen
  <2> QED BY <2>1, <2>2, <2>3, <2>4
<1>5. ASSUME NEW w \in Workers, Begin(w) PROVE SafeInv'
  <2> USE <1>5 DEF Begin, Goto, Decide, storeVars
  <2>1. TypeOK' /\ JobsBounded'
    BY Rows DEF Phase, RejectionReasonCode, Outcome, JobsTypeOK, JobsBounded, Guarded
  <2>2. Guarded'
    BY Rows DEF Guarded, Started, ValidAt, RejectionReasonCode
  <2>3. Exclusive'
    BY Rows DEF Exclusive, LocksProduct, SharesProduct, DeductionTried, Rejected
  <2>4. ConfirmedOnlyOnceOpen'
    BY DEF ConfirmedOnlyOnceOpen
  <2> QED BY <2>1, <2>2, <2>3, <2>4
<1>6. ASSUME NEW w \in Workers, ShareProduct(w) PROVE SafeInv'
  <2> USE <1>6 DEF ShareProduct, Goto, Decide, storeVars
  <2>1. TypeOK' /\ JobsBounded'
    BY Rows DEF Phase, RejectionReasonCode, Outcome, JobsTypeOK, JobsBounded, Guarded
  <2>2. Guarded'
    BY Rows, MatchingCampaignHasProduct DEF Guarded, Started, RejectionReasonCode
  <2>3. Exclusive'
    BY Rows, MatchingCampaignHasProduct DEF Exclusive, LocksProduct, SharesProduct, DeductionTried, Rejected, AwaitsProduct
  <2>4. ConfirmedOnlyOnceOpen'
    BY DEF ConfirmedOnlyOnceOpen
  <2> QED BY <2>1, <2>2, <2>3, <2>4
<1>7. ASSUME NEW w \in Workers, SendDeduction(w) PROVE SafeInv'
  <2> USE <1>7 DEF SendDeduction, Goto, Decide, storeVars
  <2>1. TypeOK' /\ JobsBounded'
    BY DEF Phase, JobsTypeOK, JobsBounded, Guarded
  <2>2. Guarded'
    BY DEF Guarded, Started
  <2>3. Exclusive'
    BY DEF Exclusive, LocksProduct, SharesProduct
  <2>4. ConfirmedOnlyOnceOpen'
    BY DEF ConfirmedOnlyOnceOpen
  <2> QED BY <2>1, <2>2, <2>3, <2>4
<1>8. ASSUME NEW w \in Workers, Deduct(w) PROVE SafeInv'
  <2> USE <1>8 DEF Deduct, Suffices, Goto, Decide, storeVars
  <2>1. TypeOK' /\ JobsBounded'
    BY Rows DEF Phase, RejectionReasonCode, Outcome, JobsTypeOK, JobsBounded, Guarded
  <2>2. Guarded'
    BY Rows, MatchingCampaignHasProduct DEF Guarded, Started, RejectionReasonCode, Outcome
  <2>3. Exclusive'
    BY Rows, MatchingCampaignHasProduct DEF Exclusive, LocksProduct, SharesProduct, DeductionTried
  <2>4. ConfirmedOnlyOnceOpen'
    BY DEF ConfirmedOnlyOnceOpen
  <2> QED BY <2>1, <2>2, <2>3, <2>4
<1>9. ASSUME NEW w \in Workers, SaveOrder(w) PROVE SafeInv'
  <2> USE <1>9 DEF SaveOrder, Goto, Decide, storeVars
  <2>1. TypeOK' /\ JobsBounded'
    BY DEF Phase, JobsTypeOK, JobsBounded, Guarded
  <2>2. Guarded'
    BY DEF Guarded, Started
  <2>3. Exclusive'
    BY DEF Exclusive, LocksProduct, SharesProduct
  <2>4. ConfirmedOnlyOnceOpen'
    BY DEF ConfirmedOnlyOnceOpen
  <2> QED BY <2>1, <2>2, <2>3, <2>4
<1>10. ASSUME NEW w \in Workers, Publish(w) PROVE SafeInv'
  <2> USE <1>10 DEF Publish, Goto, Decide, storeVars, UpdateFinal
  <2>1. TypeOK' /\ JobsBounded'
    BY Rows DEF Phase, RejectionReasonCode, Outcome, JobsTypeOK, JobsBounded, Guarded
  <2>2. Guarded'
    BY Rows DEF Guarded, Started
  <2>3. Exclusive'
    BY Rows DEF Exclusive, LocksProduct, SharesProduct
  <2>4. ConfirmedOnlyOnceOpen'
    BY DEF ConfirmedOnlyOnceOpen
  <2> QED BY <2>1, <2>2, <2>3, <2>4
<1>11. ASSUME NEW w \in Workers, Commit(w) PROVE SafeInv'
  <2> USE <1>11 DEF Commit, Goto
  <2>1. TypeOK' /\ JobsBounded'
    BY CommittedWritesAreSafe DEF Phase, JobsTypeOK, JobsBounded
  <2>2. Guarded'
    BY CommittedWritesAreSafe DEF Guarded, Started
  <2>3. Exclusive'
    BY DEF Exclusive, LocksProduct, SharesProduct
  <2> QED BY <2>1, <2>2, <2>3, CommittedWritesAreSafe
<1>12. ASSUME NEW w \in Workers, Complete(w) PROVE SafeInv'
  <2>1. cur[w] \in Orders
    BY <1>12 DEF Complete, Guarded
  <2> QED BY <1>12, <2>1, QueueSteps, IdleIsSafe DEF Complete
<1>13. ASSUME NEW w \in Workers, phase[w] # "idle", Abort(w) PROVE SafeInv'
  <2>1. cur[w] \in Orders
    BY <1>13 DEF Guarded
  <2> QED BY <1>13, <2>1, QueueSteps, IdleIsSafe DEF Abort
<1>14. ASSUME NEW w \in Workers, CommitUnanswered(w) PROVE SafeInv'
  <2> USE <1>14 DEF CommitUnanswered, Idle
  <2>1. JobsTypeOK' /\ JobsBounded'
    BY QueueSteps DEF Guarded
  <2>2. TypeOK'
    BY <2>1, Rows, CommittedWritesAreSafe DEF Phase
  <2>3. Guarded'
    BY CommittedWritesAreSafe DEF Guarded, Started
  <2>4. Exclusive'
    BY DEF Exclusive, LocksProduct, SharesProduct
  <2> QED BY <2>1, <2>2, <2>3, <2>4, CommittedWritesAreSafe
<1>15. ASSUME NEW w \in Workers, Crash(w) PROVE SafeInv'
  BY <1>15, IdleIsSafe DEF Crash, JobsTypeOK, JobsBounded
<1>16. ASSUME NEW o \in Orders, LoseLock(o) PROVE SafeInv'
  <2> USE <1>16 DEF LoseLock, storeVars, localVars
  <2>1. JobsTypeOK' /\ JobsBounded'
    BY StallSteps
  <2>2. TypeOK'
    BY <2>1
  <2>3. Guarded' /\ Exclusive' /\ ConfirmedOnlyOnceOpen'
    BY DEF Guarded, Started, Exclusive, LocksProduct, SharesProduct, ConfirmedOnlyOnceOpen
  <2> QED BY <2>1, <2>2, <2>3
<1>17. CASE Tick
  <2> USE <1>17 DEF Tick, storeVars, localVars
  <2>1. TypeOK' /\ JobsBounded'
    BY HorizonAssumption DEF JobsTypeOK, JobsBounded
  <2>2. Guarded'
    BY CampaignAssumption DEF AcceptedCampaign, Guarded, Started, CampaignFound
  <2>3. Exclusive' 
    BY DEF Exclusive, LocksProduct, SharesProduct
  <2>4. ConfirmedOnlyOnceOpen'
    BY CampaignAssumption DEF AcceptedCampaign, ConfirmedOnlyOnceOpen, CampaignFound
  <2> QED BY <2>1, <2>2, <2>3, <2>4
<1>18. CASE UNCHANGED vars
  BY <1>18 DEF vars, JobsTypeOK, JobsBounded, Guarded, Started, Exclusive, LocksProduct,
       SharesProduct, ConfirmedOnlyOnceOpen
<1> QED
  BY <1>1, <1>2, <1>3, <1>4, <1>5, <1>6, <1>7, <1>8, <1>9, <1>10, <1>11, <1>12, <1>13, <1>14, <1>15, <1>16, <1>17, <1>18
  DEF Next, Progress, Disturbance, Deadlock, CallFails

(* Stock never becomes negative, whatever is interleaved, retried or lost, *)
(* and even when two workers are at work on the same job.                  *)
THEOREM TypeCorrect == Spec => []TypeOK
<1>1. SafeInv => TypeOK
  BY DEF SafeInv
<1> QED BY SafeInvInit, SafeInvStep, <1>1, PTL DEF Spec

(* No order is confirmed before its campaign starts or against a campaign  *)
(* that is not its own.                                                    *)
THEOREM NothingConfirmedEarly == Spec => []ConfirmedOnlyOnceOpen
<1>1. SafeInv => ConfirmedOnlyOnceOpen
  BY DEF SafeInv
<1> QED BY SafeInvInit, SafeInvStep, <1>1, PTL DEF Spec

-----------------------------------------------------------------------------
(* What keeps an order from being confirmed once its campaign is over: no  *)
(* worker is between its look at the clock and the end of its transaction  *)
(* with anything but a refusal.                                            *)
Shut(o) ==
  /\ Over(o)
  /\ orders[o].status # "CONFIRMED"
  /\ \A w \in Workers :
       cur[w] = o =>
         /\ phase[w] \notin {"share", "deduct", "upgrade"}
         /\ phase[w] \in {"save", "publish", "commit"} => verdict[w] # Confirmed

LEMMA ShutStays ==
  ASSUME NEW o \in Orders, SafeInv, Shut(o), [Next]_vars
  PROVE  Shut(o)'
<1> USE DEF Shut, Over, SafeInv, TypeOK, StoreTypeOK
<1>1. ASSUME NEW w \in Workers, NEW x \in Orders, Fetch(w, x) PROVE Shut(o)'
  BY <1>1 DEF Fetch, Goto, storeVars
<1>2. ASSUME NEW w \in Workers, FindDecided(w) \/ FindPending(w) \/ Replay(w)
      PROVE  Shut(o)'
  BY <1>2 DEF FindDecided, FindPending, Replay, Goto, Decide, storeVars
<1>3. ASSUME NEW w \in Workers, Begin(w) PROVE Shut(o)'
  <2>1. cur[w] = o => ~ValidAt(Request[cur[w]].campaign, now)
    BY CampaignAssumption DEF AcceptedCampaign, ValidAt, CampaignFound
  <2> QED BY <1>3, <2>1 DEF Begin, Goto, Decide, storeVars, Rejected, Confirmed
<1>4. ASSUME NEW w \in Workers,
             ShareProduct(w) \/ SendDeduction(w) \/ Deduct(w) \/ SaveOrder(w) \/ Publish(w)
      PROVE  Shut(o)'
  BY <1>4 DEF ShareProduct, SendDeduction, Deduct, SaveOrder, Publish, Goto, Decide, storeVars
<1>5. ASSUME NEW w \in Workers, phase[w] = "commit", ApplyWrites(w)
      PROVE  orders'[o].status # "CONFIRMED"
  <2>1. CASE cur[w] = o
    <3>1. verdict[w].status # "CONFIRMED"
      BY <1>5, <2>1 DEF Guarded, Outcome, Rejected
    <3> QED BY <1>5, <2>1, <3>1 DEF ApplyWrites, Saved
  <2>2. CASE cur[w] # o
    BY <1>5, <2>2 DEF ApplyWrites
  <2> QED BY <2>1, <2>2
<1>6. ASSUME NEW w \in Workers, Commit(w) PROVE Shut(o)'
  BY <1>5, <1>6 DEF Commit, Goto
<1>7. ASSUME NEW w \in Workers, CommitUnanswered(w) PROVE Shut(o)'
  BY <1>5, <1>7, NoOrderAssumption DEF CommitUnanswered, Idle
<1>8. ASSUME NEW w \in Workers, Idle(w), UNCHANGED <<storeVars, now>> PROVE Shut(o)'
  BY <1>8, NoOrderAssumption DEF Idle, storeVars
<1>9. CASE (\E x \in Orders : LoseLock(x)) \/ UNCHANGED vars
  BY <1>9 DEF LoseLock, vars, storeVars, localVars
<1>10. CASE Tick
  BY <1>10, CampaignAssumption DEF AcceptedCampaign, Tick, storeVars, localVars, CampaignFound
<1> QED
  BY <1>1, <1>2, <1>3, <1>4, <1>6, <1>7, <1>8, <1>9, <1>10
  DEF Next, Progress, Disturbance, Complete, Deadlock, CallFails, Abort, Crash

(* An order still undecided when its campaign ends is never confirmed.     *)
THEOREM NothingConfirmedLate == Spec => ClosedCampaignsConfirmNothing
<1>1. ASSUME NEW o \in Orders
      PROVE  Spec => [](Over(o) /\ orders[o].status = "PENDING" /\ ~PastWindowCheck(o)
                          => [](orders[o].status # "CONFIRMED"))
  <2>1. Over(o) /\ orders[o].status = "PENDING" /\ ~PastWindowCheck(o) => Shut(o)
    BY DEF Shut, PastWindowCheck
  <2>2. SafeInv /\ Shut(o) /\ [Next]_vars => Shut(o)'
    BY ShutStays
  <2>3. Shut(o) => orders[o].status # "CONFIRMED"
    BY DEF Shut
  <2> QED BY SafeInvInit, SafeInvStep, <2>1, <2>2, <2>3, PTL DEF Spec
<1> QED BY <1>1 DEF ClosedCampaignsConfirmNothing

-----------------------------------------------------------------------------
(* The invariant behind the refinement.  It needs that no two workers get  *)
(* at one order: because locks run out only under dead workers, so that    *)
(* whoever works on an order owns its job, or because there is only one    *)
(* worker.  A worker is then alone with the order's row: the row it found  *)
(* undecided stays so until it commits.                                    *)
OneWorker == \A v, w \in Workers : v = w

Undisturbed == LiveStalls = FALSE \/ OneWorker

InTransaction == {"share", "deduct", "upgrade", "save", "publish", "commit"}

Owned == \A w \in Workers : phase[w] # "idle" => Owns(w, cur[w])

Alone ==
  \A w \in Workers :
    /\ phase[w] # "idle" => orders[cur[w]] # Absent
    /\ phase[w] = "replay" =>
         orders[cur[w]] = verdict[w] /\ verdict[w] \in Outcome
    /\ phase[w] \in {"begin"} \cup InTransaction => orders[cur[w]] = Pending
    /\ phase[w] \in InTransaction => view[w] = Pending
    /\ phase[w] = "done" => orders[cur[w]] \in Outcome

Clean ==
  \A o \in Orders :
    /\ orders[o] \in {Absent, Pending} \cup Outcome
    /\ jobs[o] # NoJob => orders[o] # Absent

OwnInv == SafeInv /\ (LiveStalls = FALSE => Owned) /\ Alone /\ Clean

-----------------------------------------------------------------------------
(* Two workers never have the same order.                                  *)
LEMMA NobodyElse ==
  ASSUME Undisturbed, OwnInv, NEW v \in Workers, NEW w \in Workers, v # w,
         phase[v] # "idle", phase[w] # "idle"
  PROVE  cur[v] # cur[w]
BY DEF Undisturbed, OneWorker, OwnInv, Owned, Owns

(* What a commit leaves in the row of an order that was pending.           *)
LEMMA SavedPending ==
  \A row \in Outcome : Saved(Pending, Pending, row) = row
BY DEF Saved, Pending, Outcome, Confirmed, Rejected, RejectionReasonCode

LEMMA PendingIsUndecided ==
  /\ ~Decided(Pending) /\ ~Decided(Absent) /\ Pending # Absent
  /\ \A row \in Outcome : Decided(row) /\ row # Pending /\ row # Absent
BY DEF Decided, Absent, Pending, Outcome, Confirmed, Rejected

LEMMA OwnInvInit == Init => OwnInv
<1> SUFFICES ASSUME Init PROVE OwnInv
  OBVIOUS
<1>1. SafeInv
  BY SafeInvInit
<1>2. Owned /\ Alone
  BY DEF Init, WorkersStart, Owned, Alone, InTransaction
<1>3. Clean
  BY PendingIsUndecided DEF Init, Clean
<1> QED BY <1>1, <1>2, <1>3 DEF OwnInv

(* The commit of an order that nobody else works on.                       *)
LEMMA CommitDecides ==
  ASSUME OwnInv, NEW w \in Workers, phase[w] = "commit", ApplyWrites(w)
  PROVE  /\ cur[w] \in Orders /\ orders[cur[w]] = Pending
         /\ verdict[w] \in Outcome
         /\ orders' = [orders EXCEPT ![cur[w]] = verdict[w]]
BY SavedPending DEF OwnInv, SafeInv, TypeOK, StoreTypeOK, Guarded, Alone, InTransaction, ApplyWrites

(* A job's worker is its owner as long as locks run out only under the     *)
(* dead: nobody else takes or finishes it.                                 *)
LEMMA OwnedStep ==
  ASSUME LiveStalls = FALSE, OwnInv, [Next]_vars
  PROVE  Owned'
<1> USE DEF OwnInv, SafeInv, TypeOK, JobsTypeOK
<1>0. \A w \in Workers : phase[w] # "idle" => cur[w] \in Orders
  BY DEF Guarded
<1>1. ASSUME NEW w \in Workers, NEW o \in Orders, Fetch(w, o) PROVE Owned'
  <2>1. \A v \in Workers : phase[v] # "idle" => cur[v] # o
    BY <1>1 DEF Fetch, Take, Available, Owned, Owns
  <2> QED BY <1>1, <1>0, <2>1 DEF Fetch, Take, Goto, Owned, Owns, Job
<1>2. ASSUME NEW w \in Workers, phase[w] # "idle", UNCHANGED <<jobs, cur>>,
             NEW next \in Phase, Goto(w, next)
      PROVE  Owned'
  BY <1>2 DEF Goto, Owned, Owns
<1>3. ASSUME NEW w \in Workers, phase[w] # "idle", Idle(w),
             \A o \in Orders \ {cur[w]} : jobs'[o] = jobs[o]
      PROVE  Owned'
  <2> SUFFICES ASSUME NEW v \in Workers, phase'[v] # "idle" PROVE Owns(v, cur[v])'
    BY DEF Owned
  <2>1. v # w /\ phase[v] # "idle" /\ cur'[v] = cur[v]
    BY <1>3 DEF Idle
  <2>2. cur[v] \in Orders \ {cur[w]}
    BY <1>0, <1>3, <2>1, NobodyElse DEF Undisturbed
  <2> QED BY <1>3, <2>1, <2>2 DEF Owned, Owns
<1>4. ASSUME NEW w \in Workers, Finish(w, cur[w]) \/ FailAttempt(w, cur[w])
      PROVE  \A o \in Orders \ {cur[w]} : jobs'[o] = jobs[o]
  BY <1>4 DEF Finish, FailAttempt
<1>5. ASSUME NEW o \in Orders, LoseLock(o) PROVE Owned'
  <2>1. \A w \in Workers : phase[w] # "idle" => cur[w] # o
    BY <1>5 DEF LoseLock, Orphaned, Owned
  <2> QED BY <1>0, <1>5, <2>1 DEF LoseLock, Stall, localVars, Owned, Owns
<1>6. CASE Tick \/ UNCHANGED vars
  BY <1>6 DEF Tick, vars, localVars, Owned, Owns
<1>7. ASSUME NEW w \in Workers, Progress(w) PROVE Owned'
  <2>1. CASE FindDecided(w) \/ FindPending(w) \/ Replay(w) \/ Begin(w) \/ ShareProduct(w)
          \/ SendDeduction(w) \/ Deduct(w) \/ SaveOrder(w) \/ Publish(w) \/ Commit(w)
    BY <1>2, <2>1
    DEF FindDecided, FindPending, Replay, Begin, ShareProduct, SendDeduction, Deduct,
        SaveOrder, Publish, Commit, Phase
  <2>2. CASE Complete(w) \/ Deadlock(w)
    BY <1>3, <1>4, <2>2 DEF Complete, Deadlock, Abort
  <2> QED BY <1>7, <2>1, <2>2 DEF Progress
<1>8. ASSUME NEW w \in Workers, Disturbance(w) PROVE Owned'
  BY <1>3, <1>4, <1>8 DEF Disturbance, CallFails, CommitUnanswered, Crash, Abort
<1> QED BY <1>1, <1>5, <1>6, <1>7, <1>8 DEF Next

(* What a commit leaves of everybody's claims to be alone.                 *)
LEMMA CommitKeepsAlone ==
  ASSUME Undisturbed, OwnInv, NEW w \in Workers, phase[w] = "commit", ApplyWrites(w),
         (Goto(w, "done") /\ UNCHANGED <<cur, view, verdict>>) \/ Idle(w),
         \A o \in Orders : jobs'[o] # NoJob => jobs[o] # NoJob
  PROVE  Alone' /\ Clean'
<1>0. /\ cur[w] \in Orders /\ orders[cur[w]] = Pending
      /\ verdict[w] \in Outcome
      /\ orders' = [orders EXCEPT ![cur[w]] = verdict[w]]
  BY CommitDecides
<1> USE DEF OwnInv, SafeInv, TypeOK, StoreTypeOK
<1>1. \A v \in Workers : v # w /\ phase[v] # "idle" => cur[v] \in Orders \ {cur[w]}
  BY NobodyElse DEF Guarded
<1>2. Clean'
  BY <1>0, PendingIsUndecided DEF Clean
<1>3. Alone'
  <2> SUFFICES ASSUME NEW v \in Workers
               PROVE  /\ phase'[v] # "idle" => orders'[cur'[v]] # Absent
                      /\ phase'[v] = "replay" =>
                           orders'[cur'[v]] = verdict'[v] /\ verdict'[v] \in Outcome
                      /\ phase'[v] \in {"begin"} \cup InTransaction => orders'[cur'[v]] = Pending
                      /\ phase'[v] \in InTransaction => view'[v] = Pending
                      /\ phase'[v] = "done" => orders'[cur'[v]] \in Outcome
    BY DEF Alone
  <2>1. CASE v = w
    <3>1. orders'[cur[w]] \in Outcome
      BY <1>0
    <3>2. phase'[w] = "idle" \/ (phase'[w] = "done" /\ cur'[w] = cur[w])
      BY DEF Goto, Idle
    <3> QED BY <2>1, <3>1, <3>2, PendingIsUndecided DEF InTransaction
  <2>2. CASE v # w
    <3>1. phase'[v] = phase[v] /\ cur'[v] = cur[v] /\ view'[v] = view[v] /\ verdict'[v] = verdict[v]
      BY <2>2 DEF Goto, Idle
    <3>2. phase[v] # "idle" => orders'[cur[v]] = orders[cur[v]]
      BY <1>0, <1>1, <2>2
    <3>3. CASE phase[v] = "idle"
      BY ONLY <3>1, <3>3 DEF InTransaction
    <3>4. CASE phase[v] # "idle"
      BY ONLY <3>1, <3>2, <3>4, Alone, v \in Workers DEF Alone, InTransaction
    <3> QED BY <3>3, <3>4
  <2> QED BY <2>1, <2>2
<1> QED BY <1>2, <1>3

LEMMA OwnInvStep ==
  ASSUME Undisturbed, OwnInv, [Next]_vars
  PROVE  OwnInv'
<1>0. SafeInv' /\ (LiveStalls = FALSE => Owned')
  BY SafeInvStep, OwnedStep DEF OwnInv
<1> SUFFICES Alone' /\ Clean'
  BY <1>0 DEF OwnInv
<1> USE DEF OwnInv, SafeInv, TypeOK, StoreTypeOK, JobsTypeOK
<1>1. ASSUME NEW w \in Workers, NEW o \in Orders, Fetch(w, o) PROVE Alone' /\ Clean'
  <2> USE <1>1 DEF Fetch, Take, Available, Goto, storeVars
  <2>1. jobs[o] # NoJob /\ orders[o] # Absent
    BY DEF Clean, NoJob
  <2>2. Alone'
    BY <2>1 DEF Alone, InTransaction
  <2>3. Clean'
    BY <2>1 DEF Clean
  <2> QED BY <2>2, <2>3
<1>2. ASSUME NEW w \in Workers, FindDecided(w) \/ FindPending(w) PROVE Alone' /\ Clean'
  <2> USE <1>2 DEF FindDecided, FindPending, DecidedBefore, Goto, Decide, storeVars
  <2>1. cur[w] \in Orders /\ orders[cur[w]] \in {Pending} \cup Outcome
    BY DEF Guarded, Alone, Clean
  <2>2. Alone'
    BY <2>1, PendingIsUndecided DEF Alone, InTransaction
  <2>3. Clean'
    BY DEF Clean
  <2> QED BY <2>2, <2>3
<1>3. ASSUME NEW w \in Workers,
             \/ Replay(w) \/ Begin(w) \/ ShareProduct(w) \/ SendDeduction(w)
             \/ Deduct(w) \/ SaveOrder(w) \/ Publish(w)
      PROVE  Alone' /\ Clean'
  BY <1>3, PendingIsUndecided
  DEF Replay, Begin, ShareProduct, SendDeduction, Deduct, SaveOrder, Publish,
      Goto, Decide, storeVars, Alone, InTransaction, Clean
<1>4. ASSUME NEW w \in Workers, Commit(w) PROVE Alone' /\ Clean'
  BY <1>4, CommitKeepsAlone DEF Commit
<1>5. ASSUME NEW w \in Workers, Finish(w, cur[w]) \/ FailAttempt(w, cur[w])
      PROVE  \A o \in Orders : jobs'[o] # NoJob => jobs[o] # NoJob
  BY <1>5 DEF Finish, FailAttempt, Owns, NoJob
<1>6. ASSUME NEW w \in Workers, CommitUnanswered(w) PROVE Alone' /\ Clean'
  BY <1>5, <1>6, CommitKeepsAlone DEF CommitUnanswered
<1>7. ASSUME NEW w \in Workers, Idle(w), UNCHANGED storeVars,
             \A o \in Orders : jobs'[o] # NoJob => jobs[o] # NoJob
      PROVE  Alone' /\ Clean'
  BY <1>7 DEF Idle, storeVars, Alone, InTransaction, Clean
<1>8. ASSUME NEW w \in Workers, Complete(w) \/ Abort(w) \/ Crash(w) PROVE Alone' /\ Clean'
  BY <1>5, <1>7, <1>8 DEF Complete, Abort, Crash, storeVars
<1>9. ASSUME NEW o \in Orders, LoseLock(o) PROVE Alone' /\ Clean'
  BY <1>9 DEF LoseLock, Stall, NoJob, storeVars, localVars, Alone, Clean
<1>10. CASE Tick \/ UNCHANGED vars
  BY <1>10 DEF Tick, vars, storeVars, localVars, Alone, Clean
<1> QED
  BY <1>1, <1>2, <1>3, <1>4, <1>6, <1>8, <1>9, <1>10
  DEF Next, Progress, Disturbance, Deadlock, CallFails

-----------------------------------------------------------------------------
(* A commit is one step of Inventory.                                      *)
LEMMA CommitIsOneStep ==
  ASSUME OwnInv, NEW w \in Workers, phase[w] = "commit", ApplyWrites(w)
  PROVE  Tables!Next
<1> USE DEF OwnInv, SafeInv, TypeOK, StoreTypeOK
<1> PICK o \in Orders : o = cur[w]
  BY CommitDecides
<1> DEFINE p == Request[o].product
           status == [x \in Orders |-> orders[x].status]
<1>0. orders[o] = Pending /\ orders' = [orders EXCEPT ![o] = verdict[w]]
  BY CommitDecides
<1>1. /\ status[o] = "PENDING"
      /\ status' = [status EXCEPT ![o] = verdict[w].status]
  <2>1. orders \in [Orders -> Row] /\ orders' \in [Orders -> Row]
    BY <1>0, CommitDecides, Rows
  <2>2. status[o] = "PENDING"
    BY <1>0 DEF Pending
  <2>3. \A x \in Orders :
          orders'[x].status = IF x = o THEN verdict[w].status ELSE orders[x].status
    BY <1>0, <2>1
  <2>4. status' = [status EXCEPT ![o] = verdict[w].status]
    BY <2>3
  <2> QED BY <2>2, <2>4
<1>2. CASE verdict[w] = Confirmed
  <2>1. ProductFound(o) /\ stock[p] >= Request[o].quantity
    BY <1>2, MatchingCampaignHasProduct DEF Guarded, Started
  <2>2. stock' = [stock EXCEPT ![p] = @ - Request[o].quantity]
    BY <1>2 DEF ApplyWrites, Deducted
  <2>3. Tables!Confirm(o)
    BY <1>1, <1>2, <2>1, <2>2 DEF Tables!Confirm, ProductFound, Confirmed
  <2> QED BY <2>3 DEF Tables!Next
<1>3. CASE verdict[w] # Confirmed
  <2>1. verdict[w].status = "REJECTED"
    <3>1. verdict[w] \in Outcome
      BY CommitDecides
    <3> QED BY <1>3, <3>1 DEF Outcome, Rejected
  <2>2. Tables!Reject(o)
    BY <1>1, <1>3, <2>1 DEF Tables!Reject, ApplyWrites, Deducted
  <2> QED BY <2>2 DEF Tables!Next
<1> QED BY <1>2, <1>3

(* Every step of the workers is one step of Inventory or none.             *)
LEMMA StepRefines ==
  ASSUME OwnInv, [Next]_vars
  PROVE  [Tables!Next]_(Tables!invVars)
<1>1. ASSUME NEW w \in Workers, Commit(w) \/ CommitUnanswered(w)
      PROVE  Tables!Next
  BY <1>1, CommitIsOneStep DEF Commit, CommitUnanswered
<1>2. CASE UNCHANGED <<orders, stock>>
  BY <1>2 DEF Tables!invVars
<1> QED
  BY <1>1, <1>2
  DEF Next, Progress, Disturbance, Fetch, FindDecided, FindPending, Replay, Begin,
      ShareProduct, SendDeduction, Deduct, SaveOrder, Publish, Complete, Deadlock,
      CallFails, Abort, Crash, LoseLock, Tick, storeVars, vars

(* MySQL's tables behave as Inventory does: every order is decided at most *)
(* once, and together with its deduction.                                  *)
THEOREM WorkersImplementInventory ==
  ASSUME Undisturbed
  PROVE  Spec => ImplementsInventory
<1>1. Init => Tables!Init
  BY DEF Init, Tables!Init, Pending
<1>2. OwnInv /\ [Next]_vars => OwnInv'
  BY OwnInvStep
<1>3. OwnInv /\ [Next]_vars => [Tables!Next]_(Tables!invVars)
  BY StepRefines
<1> QED BY OwnInvInit, <1>1, <1>2, <1>3, PTL DEF Spec, ImplementsInventory, Tables!Spec

-----------------------------------------------------------------------------
(* The invariant behind the agreement of a completed job with row and      *)
(* cache: who is alone with an order publishes the outcome that it commits *)
(* and completes the job with.                                             *)
AnswerInv ==
  /\ \A w \in Workers :
       /\ phase[w] # "idle" => jobs[cur[w]].state # "completed"
       /\ phase[w] = "commit" => cache[cur[w]] = verdict[w]
       /\ phase[w] = "done" => cache[cur[w]] = orders[cur[w]]
  /\ CompletedJobsAgree

LEMMA AnswerInvStep ==
  ASSUME Undisturbed, OwnInv, AnswerInv, [Next]_vars
  PROVE  AnswerInv'
<1> USE DEF OwnInv, SafeInv, TypeOK, StoreTypeOK, JobsTypeOK
<1>0. \A w \in Workers : phase[w] # "idle" => cur[w] \in Orders
  BY DEF Guarded
<1>1. ASSUME NEW w \in Workers, NEW o \in Orders, Fetch(w, o) PROVE AnswerInv'
  BY <1>0, <1>1 DEF Fetch, Take, Available, Goto, storeVars, Job, AnswerInv, CompletedJobsAgree
<1>2. ASSUME NEW w \in Workers,
             \/ FindDecided(w) \/ FindPending(w) \/ Begin(w) \/ ShareProduct(w)
             \/ SendDeduction(w) \/ Deduct(w) \/ SaveOrder(w)
      PROVE  AnswerInv'
  BY <1>2 DEF FindDecided, FindPending, Begin, ShareProduct, SendDeduction, Deduct, SaveOrder,
              Goto, Decide, storeVars, AnswerInv, CompletedJobsAgree
<1>3. ASSUME NEW w \in Workers, Replay(w) \/ Publish(w) PROVE AnswerInv'
  <2>1. cur[w] \in Orders /\ jobs[cur[w]].state # "completed"
    BY <1>0, <1>3 DEF Replay, Publish, AnswerInv
  <2>2. \A v \in Workers : v # w /\ phase[v] # "idle" => cur[v] \in Orders \ {cur[w]}
    BY <1>0, <1>3, NobodyElse DEF Replay, Publish
  <2>3. cache' = [cache EXCEPT ![cur[w]] = verdict[w]] /\ UNCHANGED <<orders, jobs, cur, verdict>>
    BY <1>3 DEF Replay, Publish, UpdateFinal
  <2>4. CompletedJobsAgree'
    BY <2>1, <2>3 DEF AnswerInv, CompletedJobsAgree
  <2>5. Replay(w) => orders[cur[w]] = verdict[w]
    BY DEF Replay, Alone
  <2> QED BY <1>3, <2>1, <2>2, <2>3, <2>4, <2>5 DEF Replay, Publish, Goto, AnswerInv
<1>4. ASSUME NEW w \in Workers, Commit(w) PROVE AnswerInv'
  <2>1. cur[w] \in Orders /\ jobs[cur[w]].state # "completed"
    BY <1>0, <1>4 DEF Commit, AnswerInv
  <2>2. \A v \in Workers : v # w /\ phase[v] # "idle" => cur[v] \in Orders \ {cur[w]}
    BY <1>0, <1>4, NobodyElse DEF Commit
  <2>3. orders' = [orders EXCEPT ![cur[w]] = verdict[w]]
    BY <1>4, CommitDecides DEF Commit
  <2> QED BY <1>4, <2>1, <2>2, <2>3 DEF Commit, Goto, AnswerInv, CompletedJobsAgree
<1>5. ASSUME NEW w \in Workers, FailAttempt(w, cur[w])
      PROVE  \A o \in Orders : jobs'[o].state = "completed" => jobs[o].state = "completed"
  BY <1>5 DEF FailAttempt, Job
<1>6. ASSUME NEW w \in Workers, CommitUnanswered(w) PROVE AnswerInv'
  <2>1. cur[w] \in Orders /\ jobs[cur[w]].state # "completed"
    BY <1>0, <1>6 DEF CommitUnanswered, AnswerInv
  <2>2. \A v \in Workers : v # w /\ phase[v] # "idle" => cur[v] \in Orders \ {cur[w]}
    BY <1>0, <1>6, NobodyElse DEF CommitUnanswered
  <2>3. orders' = [orders EXCEPT ![cur[w]] = verdict[w]]
    BY <1>6, CommitDecides DEF CommitUnanswered
  <2>4. \A o \in Orders : jobs'[o].state = "completed" => jobs[o].state = "completed"
    BY <1>5, <1>6 DEF CommitUnanswered
  <2> QED BY <1>0, <1>6, <2>1, <2>2, <2>3, <2>4 DEF CommitUnanswered, Idle, AnswerInv, CompletedJobsAgree
<1>7. ASSUME NEW w \in Workers, Complete(w) PROVE AnswerInv'
  <2>1. /\ cur[w] \in Orders
        /\ Decided(orders[cur[w]]) /\ cache[cur[w]] = orders[cur[w]]
    BY <1>0, <1>7, PendingIsUndecided DEF Complete, Alone, AnswerInv
  <2>2. \A v \in Workers : v # w /\ phase[v] # "idle" => cur[v] \in Orders \ {cur[w]}
    BY <1>0, <1>7, NobodyElse DEF Complete
  <2>3. \A o \in Orders \ {cur[w]} : jobs'[o] = jobs[o]
    BY <1>7 DEF Complete, Finish
  <2> QED BY <1>7, <2>1, <2>2, <2>3 DEF Complete, Idle, storeVars, AnswerInv, CompletedJobsAgree
<1>8. ASSUME NEW w \in Workers, Idle(w), UNCHANGED storeVars,
             \A o \in Orders : jobs'[o].state = "completed" => jobs[o].state = "completed"
      PROVE  AnswerInv'
  BY <1>0, <1>8 DEF Idle, storeVars, AnswerInv, CompletedJobsAgree
<1>9. ASSUME NEW w \in Workers, Abort(w) \/ Crash(w) PROVE AnswerInv'
  BY <1>5, <1>8, <1>9 DEF Abort, Crash, storeVars
<1>10. ASSUME NEW o \in Orders, LoseLock(o) PROVE AnswerInv'
  BY <1>0, <1>10 DEF LoseLock, Stall, Job, storeVars, localVars, AnswerInv, CompletedJobsAgree
<1>11. CASE Tick \/ UNCHANGED vars
  BY <1>11 DEF Tick, vars, storeVars, localVars, AnswerInv, CompletedJobsAgree
<1> QED
  BY <1>1, <1>2, <1>3, <1>4, <1>6, <1>7, <1>9, <1>10, <1>11
  DEF Next, Progress, Disturbance, Deadlock, CallFails

(* A completed job has left MySQL, Redis and the queue in agreement.       *)
THEOREM CompletedJobsAreAnswered ==
  ASSUME Undisturbed
  PROVE  Spec => []CompletedJobsAgree
<1>1. Init => AnswerInv
  BY DEF Init, WorkersStart, AnswerInv, CompletedJobsAgree, NewJob, NoJob
<1>2. OwnInv /\ [Next]_vars => OwnInv'
  BY OwnInvStep
<1>3. OwnInv /\ AnswerInv /\ [Next]_vars => AnswerInv'
  BY AnswerInvStep
<1>4. AnswerInv => CompletedJobsAgree
  BY DEF AnswerInv
<1> QED BY OwnInvInit, <1>1, <1>2, <1>3, <1>4, PTL DEF Spec

-----------------------------------------------------------------------------
(* What stands behind a final answer: the row has the outcome, or a worker *)
(* has published it and is about to commit.  Without failures the commit   *)
(* cannot miss, and nobody else has the order meanwhile.                   *)
Behind(o, row) ==
  \/ orders[o] = row
  \/ \E w \in Workers : phase[w] = "commit" /\ cur[w] = o /\ verdict[w] = row

PublishedInv ==
  \A o \in Orders : Decided(cache[o]) => cache[o] \in Outcome /\ Behind(o, cache[o])

LEMMA BehindStays ==
  ASSUME Undisturbed, Faults = FALSE, OwnInv, [Next]_vars,
         NEW o \in Orders, NEW row \in Outcome, Behind(o, row)
  PROVE  Behind(o, row)'
<1> USE DEF OwnInv, SafeInv, TypeOK, StoreTypeOK
<1>1. ASSUME NEW w \in Workers, Commit(w) PROVE Behind(o, row)'
  <2>1. orders' = [orders EXCEPT ![cur[w]] = verdict[w]] /\ orders[cur[w]] = Pending
    BY <1>1, CommitDecides DEF Commit
  <2>2. CASE orders[o] = row
    BY <2>1, <2>2, PendingIsUndecided DEF Behind
  <2>3. ASSUME NEW v \in Workers, phase[v] = "commit", cur[v] = o, verdict[v] = row
        PROVE  Behind(o, row)'
    <3>1. CASE v = w
      BY <2>1, <2>3, <3>1 DEF Behind
    <3>2. CASE v # w
      BY <1>1, <2>3, <3>2 DEF Commit, Goto, Behind
    <3> QED BY <3>1, <3>2
  <2> QED BY <2>2, <2>3 DEF Behind
<1>2. ASSUME UNCHANGED orders,
             \A w \in Workers :
               phase[w] = "commit" => UNCHANGED <<phase[w], cur[w], verdict[w]>>
      PROVE  Behind(o, row)'
  BY <1>2 DEF Behind
<1>3. ASSUME NEW w \in Workers, NEW x \in Orders, Fetch(w, x) PROVE Behind(o, row)'
  BY <1>2, <1>3 DEF Fetch, Goto, storeVars
<1>4. ASSUME NEW w \in Workers,
             \/ FindDecided(w) \/ FindPending(w) \/ Replay(w) \/ Begin(w) \/ ShareProduct(w)
             \/ SendDeduction(w) \/ Deduct(w) \/ SaveOrder(w) \/ Publish(w)
      PROVE  Behind(o, row)'
  BY <1>2, <1>4
  DEF FindDecided, FindPending, Replay, Begin, ShareProduct, SendDeduction, Deduct,
      SaveOrder, Publish, Goto, Decide, storeVars
<1>5. ASSUME NEW w \in Workers, Complete(w) \/ Deadlock(w) PROVE Behind(o, row)'
  BY <1>2, <1>5 DEF Complete, Deadlock, Abort, Idle, storeVars
<1>6. CASE (\E x \in Orders : LoseLock(x)) \/ Tick \/ UNCHANGED vars
  BY <1>2, <1>6 DEF LoseLock, Tick, vars, storeVars, localVars
<1> QED
  BY <1>1, <1>3, <1>4, <1>5, <1>6
  DEF Next, Progress, Disturbance, CallFails, CommitUnanswered, Crash

(* Redis is written by whoever replays the outcome of a decided order, or  *)
(* is about to decide it.                                                  *)
LEMMA PublishedWhen ==
  ASSUME OwnInv, [Next]_vars, cache' # cache
  PROVE  \E w \in Workers :
           /\ cur[w] \in Orders /\ verdict[w] \in Outcome
           /\ cache' = [cache EXCEPT ![cur[w]] = verdict[w]]
          /\ UNCHANGED <<cur, verdict>>
           /\ UNCHANGED <<cur, verdict>>
           /\ \/ phase[w] = "replay" /\ orders[cur[w]] = verdict[w] /\ UNCHANGED orders
              \/ /\ phase[w] = "publish" /\ orders[cur[w]] = Pending
                 /\ phase'[w] = "commit"
<1> USE DEF OwnInv, SafeInv, TypeOK, StoreTypeOK
<1>1. PICK w \in Workers : Replay(w) \/ Publish(w)
  BY DEF Next, Progress, Disturbance, Fetch, FindDecided, FindPending, Begin, ShareProduct,
         SendDeduction, Deduct, SaveOrder, Commit, Complete, Deadlock, CallFails,
         CommitUnanswered, Abort, Crash, LoseLock, Tick, storeVars, vars
<1>2. CASE Replay(w)
  BY <1>2 DEF Replay, UpdateFinal, Guarded, Alone
<1>3. CASE Publish(w)
  BY <1>3 DEF Publish, UpdateFinal, Goto, Guarded, Alone, InTransaction
<1> QED BY <1>1, <1>2, <1>3

LEMMA PublishedInvStep ==
  ASSUME Undisturbed, Faults = FALSE, OwnInv, PublishedInv, [Next]_vars
  PROVE  PublishedInv' /\ \A o \in Orders : Decided(cache[o]) => cache'[o] = cache[o]
<1> USE DEF OwnInv, SafeInv, TypeOK, StoreTypeOK
<1>1. CASE cache' = cache
  BY <1>1, BehindStays DEF PublishedInv
<1>2. CASE cache' # cache
  <2>1. PICK w \in Workers :
          /\ cur[w] \in Orders /\ verdict[w] \in Outcome
          /\ cache' = [cache EXCEPT ![cur[w]] = verdict[w]]
          /\ UNCHANGED <<cur, verdict>>
          /\ \/ phase[w] = "replay" /\ orders[cur[w]] = verdict[w] /\ UNCHANGED orders
             \/ /\ phase[w] = "publish" /\ orders[cur[w]] = Pending
                /\ phase'[w] = "commit"
    BY <1>2, PublishedWhen
  <2>2. \A v \in Workers : phase[v] = "commit" => cur[v] # cur[w]
    BY <2>1, NobodyElse
  <2>3. Decided(cache[cur[w]]) => cache[cur[w]] = verdict[w]
    BY <2>1, <2>2, PendingIsUndecided DEF PublishedInv, Behind
  <2>4. Behind(cur[w], verdict[w])'
    BY <2>1 DEF Behind
  <2>5. ASSUME NEW o \in Orders, o # cur[w], Decided(cache[o])
        PROVE  cache'[o] = cache[o] /\ cache[o] \in Outcome /\ Behind(o, cache[o])'
    BY <2>1, <2>5, BehindStays DEF PublishedInv
  <2>6. cache'[cur[w]] = verdict[w] /\ verdict[w] \in Outcome /\ Behind(cur[w], cache[cur[w]])'
    BY <2>1, <2>4 DEF Behind
  <2>7. \A o \in Orders : o # cur[w] => cache'[o] = cache[o]
    BY <2>1
  <2>8. PublishedInv'
    <3> SUFFICES ASSUME NEW o \in Orders, Decided(cache'[o])
                 PROVE  cache'[o] \in Outcome /\ Behind(o, cache[o])'
      BY DEF PublishedInv
    <3>1. CASE o = cur[w]
      BY <2>1, <2>6, <3>1 DEF Behind
    <3>2. CASE o # cur[w]
      BY <2>5, <2>7, <3>2 DEF Behind
    <3> QED BY <3>1, <3>2
  <2> QED BY <2>3, <2>5, <2>6, <2>8
<1> QED BY <1>1, <1>2

(* Without failures a final answer in Redis is never replaced by another,  *)
(* although it is written before the commit and may be written again.      *)
THEOREM FinalAnswersAreKept ==
  ASSUME Undisturbed, Faults = FALSE
  PROVE  Spec => FinalAnswersKept
<1>1. Init => PublishedInv
  BY PendingIsUndecided DEF Init, PublishedInv
<1>2. OwnInv /\ [Next]_vars => OwnInv'
  BY OwnInvStep
<1>3. OwnInv /\ PublishedInv /\ [Next]_vars => PublishedInv'
  BY PublishedInvStep
<1>4. OwnInv /\ PublishedInv /\ [Next]_vars
        => [\A o \in Orders : Decided(cache[o]) => cache'[o] = cache[o]]_cache
  BY PublishedInvStep
<1> QED BY OwnInvInit, <1>1, <1>2, <1>3, <1>4, PTL DEF Spec, FinalAnswersKept

-----------------------------------------------------------------------------
(* What a commit does to the units that are confirmed among any orders.    *)
LEMMA ConfirmedUnits ==
  ASSUME IsFiniteSet(Orders), OwnInv, NEW S \in SUBSET Orders,
         NEW w \in Workers, phase[w] = "commit", ApplyWrites(w)
  PROVE  /\ Units(ConfirmedOf(S)) \in Nat
         /\ Units(ConfirmedOf(S)') =
              IF cur[w] \in S /\ verdict[w] = Confirmed
                THEN Units(ConfirmedOf(S)) + Quantity(cur[w])
                ELSE Units(ConfirmedOf(S))
<1> DEFINE C == ConfirmedOf(S)
<1>1. C \in SUBSET Orders /\ IsFiniteSet(C)
  BY FS_Subset DEF ConfirmedOf
<1>2. /\ cur[w] \in Orders /\ orders[cur[w]] = Pending
      /\ verdict[w] \in Outcome
      /\ orders' = [orders EXCEPT ![cur[w]] = verdict[w]]
      /\ orders \in [Orders -> Row]
  BY CommitDecides DEF OwnInv, SafeInv, TypeOK, StoreTypeOK
<1>3. verdict[w].status = "CONFIRMED" <=> verdict[w] = Confirmed
  BY <1>2 DEF Outcome, Confirmed, Rejected
<1>4. cur[w] \in Orders \ C
  BY <1>2 DEF ConfirmedOf, Pending
<1>5. CASE cur[w] \in S /\ verdict[w] = Confirmed
  <2>1. ConfirmedOf(S)' = C \cup {cur[w]}
    BY <1>2, <1>3, <1>5 DEF ConfirmedOf
  <2> HIDE DEF C
  <2>2. Units(C \cup {cur[w]}) = Units(C) + Quantity(cur[w])
    BY <1>1, <1>4, UnitsAdd
  <2> QED BY <1>1, <1>5, <2>1, <2>2, UnitsType DEF C
<1>6. CASE ~(cur[w] \in S /\ verdict[w] = Confirmed)
  <2>1. ConfirmedOf(S)' = C
    <3> SUFFICES ASSUME NEW o \in S
                 PROVE  orders'[o].status = "CONFIRMED" <=> orders[o].status = "CONFIRMED"
      BY DEF ConfirmedOf
    <3>1. CASE o = cur[w]
      BY <1>2, <1>3, <1>6, <3>1 DEF Pending
    <3>2. CASE o # cur[w]
      BY <1>2, <3>2
    <3> QED BY <3>1, <3>2
  <2> QED BY <1>1, <1>6, <2>1, UnitsType
<1> QED BY <1>5, <1>6

(* A commit conserves stock.                                               *)
LEMMA CommitConserves ==
  ASSUME IsFiniteSet(Orders), OwnInv, StockConserved,
         NEW w \in Workers, phase[w] = "commit", ApplyWrites(w)
  PROVE  StockConserved'
<1> SUFFICES ASSUME NEW p \in Products
             PROVE  stock'[p] + Units(ConfirmedOf({o \in Orders : Request[o].product = p})')
                      = Product[p].stock
  BY DEF StockConserved
<1> DEFINE S == {o \in Orders : Request[o].product = p}
<1>1. stock[p] + Units(ConfirmedOf(S)) = Product[p].stock /\ stock[p] \in Nat
  BY DEF StockConserved, OwnInv, SafeInv, TypeOK, StoreTypeOK
<1>2. /\ Units(ConfirmedOf(S)) \in Nat
      /\ Units(ConfirmedOf(S)') =
           IF cur[w] \in S /\ verdict[w] = Confirmed
             THEN Units(ConfirmedOf(S)) + Quantity(cur[w])
             ELSE Units(ConfirmedOf(S))
  BY ConfirmedUnits
<1>3. cur[w] \in Orders /\ Quantity(cur[w]) \in Nat
  BY CommitDecides, QuantityType
<1>4. stock'[p] = IF cur[w] \in S /\ verdict[w] = Confirmed
                    THEN stock[p] - Quantity(cur[w]) ELSE stock[p]
  BY <1>3 DEF ApplyWrites, Deducted, Quantity, OwnInv, SafeInv, TypeOK, StoreTypeOK
<1> HIDE DEF S
<1> QED BY <1>1, <1>2, <1>3, <1>4 DEF S

(* Only a commit writes the tables.                                        *)
LEMMA OnlyCommitsWrite ==
  ASSUME [Next]_vars
  PROVE  \/ UNCHANGED <<orders, stock>>
         \/ \E w \in Workers : phase[w] = "commit" /\ ApplyWrites(w)
<1>1. ASSUME NEW w \in Workers, Commit(w) \/ CommitUnanswered(w)
      PROVE  phase[w] = "commit" /\ ApplyWrites(w)
  BY <1>1 DEF Commit, CommitUnanswered
<1>2. CASE UNCHANGED <<orders, stock>>
  BY <1>2
<1> QED
  BY <1>1, <1>2
  DEF Next, Progress, Disturbance, Fetch, FindDecided, FindPending, Replay, Begin,
      ShareProduct, SendDeduction, Deduct, SaveOrder, Publish, Complete, Deadlock,
      CallFails, Abort, Crash, LoseLock, Tick, storeVars, vars

LEMMA NothingConfirmedYet ==
  ASSUME \A o \in Orders : orders[o].status # "CONFIRMED", NEW S \in SUBSET Orders
  PROVE  Units(ConfirmedOf(S)) = 0
<1>1. ConfirmedOf(S) = {}
  BY DEF ConfirmedOf
<1> QED BY <1>1, UnitsEmpty

(* No unit is sold twice and none is lost: a product's stock and its       *)
(* confirmed orders always add up to what it had.                          *)
THEOREM StockIsConserved ==
  ASSUME Undisturbed, IsFiniteSet(Orders)
  PROVE  Spec => []StockConserved
<1>1. Init => StockConserved
  <2> SUFFICES ASSUME Init PROVE StockConserved
    OBVIOUS
  <2>1. \A o \in Orders : orders[o].status # "CONFIRMED"
    BY DEF Init, Pending
  <2>2. \A p \in Products : stock[p] = Product[p].stock /\ stock[p] \in Nat
    BY ProductAssumption DEF AcceptedProduct, Init
  <2>3. \A p \in Products : Units(ConfirmedOf({o \in Orders : Request[o].product = p})) = 0
    BY <2>1, NothingConfirmedYet
  <2> QED BY <2>2, <2>3 DEF StockConserved
<1>2. OwnInv /\ [Next]_vars => OwnInv'
  BY OwnInvStep
<1>3. OwnInv /\ StockConserved /\ [Next]_vars => StockConserved'
  <2> SUFFICES ASSUME OwnInv, StockConserved, [Next]_vars PROVE StockConserved'
    OBVIOUS
  <2>1. CASE UNCHANGED <<orders, stock>>
    BY <2>1 DEF StockConserved, ConfirmedOf
  <2>2. ASSUME NEW w \in Workers, phase[w] = "commit", ApplyWrites(w) PROVE StockConserved'
    BY <2>2, CommitConserves
  <2> QED BY <2>1, <2>2, OnlyCommitsWrite
<1> QED BY OwnInvInit, <1>1, <1>2, <1>3, PTL DEF Spec

-----------------------------------------------------------------------------
(* The two refusals that depend on what others have bought.  They stay     *)
(* right: stock only falls, and what a buyer has confirmed only grows.     *)
Short(o) == ProductFound(o) /\ stock[Request[o].product] < Request[o].quantity

Full(o) == CampaignFound(o) /\ OverLimit(o)

LEMMA RefusalsStayRight ==
  ASSUME IsFiniteSet(Orders), OwnInv, [Next]_vars, NEW o \in Orders
  PROVE  (Short(o) => Short(o)') /\ (Full(o) => Full(o)')
<1>1. CASE UNCHANGED <<orders, stock>>
  BY <1>1 DEF Short, Full, ProductFound, CampaignFound, OverLimit, Reaches, ConfirmedOf
<1>2. ASSUME NEW w \in Workers, phase[w] = "commit", ApplyWrites(w)
      PROVE  (Short(o) => Short(o)') /\ (Full(o) => Full(o)')
  <2>1. cur[w] \in Orders /\ Quantity(cur[w]) \in Nat /\ Quantity(o) \in Nat
    BY <1>2, CommitDecides, QuantityType
  <2>2. Short(o) => Short(o)'
    <3> SUFFICES ASSUME Short(o) PROVE stock'[Request[o].product] < Request[o].quantity
      BY DEF Short, ProductFound
    <3>1. stock \in [Products -> Nat] /\ Request[o].product \in Products
      BY DEF Short, ProductFound, OwnInv, SafeInv, TypeOK, StoreTypeOK
    <3>2. stock'[Request[o].product] \in {stock[Request[o].product],
                                          stock[Request[o].product] - Quantity(cur[w])}
      BY <1>2, <2>1, <3>1 DEF ApplyWrites, Deducted, Quantity
    <3> QED BY <2>1, <3>1, <3>2 DEF Short, Quantity
  <2>3. Full(o) => Full(o)'
    <3> DEFINE C == ConfirmedOf(SameBuyer(o))
               max == Campaign[Request[o].campaign].maxPerUser
    <3> SUFFICES ASSUME Full(o) PROVE Units(C') + Request[o].quantity > max
      BY DEF Full, CampaignFound, OverLimit, Reaches, SameBuyer, ConfirmedOf
    <3>1. Units(C) \in Nat /\ Units(C') \in {Units(C), Units(C) + Quantity(cur[w])}
      <4>1. SameBuyer(o) \in SUBSET Orders
        BY DEF SameBuyer
      <4> HIDE DEF C
      <4> QED BY <1>2, <4>1, ConfirmedUnits DEF C
    <3>2. max \in Nat /\ Units(C) + Quantity(o) > max
      BY CampaignAssumption DEF AcceptedCampaign, Full, CampaignFound, OverLimit, Reaches, Quantity
    <3> HIDE DEF C, max
    <3> QED BY <2>1, <3>1, <3>2 DEF Quantity
  <2> QED BY <2>2, <2>3
<1> QED BY <1>1, <1>2, OnlyCommitsWrite

(* Decisions that are not committed yet are right as well.                 *)
RightlyRefused(o, row) ==
  /\ row.reason = "OUT_OF_STOCK" => Short(o)
  /\ row.reason = "LIMIT_EXCEEDED" => Full(o)

RefusalInv ==
  /\ \A o \in Orders : RightlyRefused(o, orders[o])
  /\ \A w \in Workers :
       phase[w] \in {"save", "publish", "commit"} => RightlyRefused(cur[w], verdict[w])

LEMMA RefusalInvStep ==
  ASSUME IsFiniteSet(Orders), Undisturbed, OwnInv, RefusalInv, [Next]_vars
  PROVE  RefusalInv'
<1> USE DEF OwnInv, SafeInv, TypeOK, StoreTypeOK
<1>0. \A o \in Orders : (Short(o) => Short(o)') /\ (Full(o) => Full(o)')
  BY RefusalsStayRight
<1>1. \A o \in Orders : RightlyRefused(o, orders[o])'
  <2> SUFFICES ASSUME NEW o \in Orders
               PROVE  /\ orders'[o].reason = "OUT_OF_STOCK" => Short(o)'
                      /\ orders'[o].reason = "LIMIT_EXCEEDED" => Full(o)'
    BY DEF RightlyRefused
  <2>1. CASE orders'[o] = orders[o]
    BY <1>0, <2>1 DEF RefusalInv, RightlyRefused
  <2>2. ASSUME NEW w \in Workers, phase[w] = "commit", ApplyWrites(w), orders'[o] # orders[o]
        PROVE  /\ orders'[o].reason = "OUT_OF_STOCK" => Short(o)'
               /\ orders'[o].reason = "LIMIT_EXCEEDED" => Full(o)'
    <3>1. o = cur[w] /\ orders'[o] = verdict[w]
      BY <2>2, CommitDecides
    <3> QED BY <1>0, <2>2, <3>1 DEF RefusalInv, RightlyRefused
  <2> QED BY <2>1, <2>2, OnlyCommitsWrite
<1>2. ASSUME NEW w \in Workers, phase'[w] \in {"save", "publish", "commit"}
      PROVE  RightlyRefused(cur[w], verdict[w])'
  <2>1. CASE /\ phase[w] \in {"save", "publish", "commit"}
             /\ cur'[w] = cur[w] /\ verdict'[w] = verdict[w]
    <3>1. cur[w] \in Orders
      BY <2>1 DEF Guarded
    <3> QED BY <1>0, <2>1, <3>1 DEF RefusalInv, RightlyRefused
  <2>2. ASSUME Begin(w) PROVE RightlyRefused(cur[w], verdict[w])'
    <3>1. /\ phase[w] = "begin" /\ cur'[w] = cur[w] /\ cur[w] \in Orders
          /\ \/ verdict'[w] = Rejected("CAMPAIGN_INACTIVE")
             \/ verdict'[w] = Rejected("LIMIT_EXCEEDED") /\ Full(cur[w])
      BY <1>2, <2>2 DEF Begin, Goto, Decide, Guarded, Full
    <3> QED BY <1>0, <3>1 DEF RightlyRefused, Rejected
  <2>3. ASSUME ShareProduct(w) PROVE RightlyRefused(cur[w], verdict[w])'
    <3>1. phase[w] = "share" /\ ~ProductFound(cur[w])
      BY <1>2, <2>3 DEF ShareProduct, Goto
    <3> QED BY <3>1, MatchingCampaignHasProduct DEF Guarded, Started
  <2>4. ASSUME Deduct(w) PROVE RightlyRefused(cur[w], verdict[w])'
    <3>1. /\ phase[w] = "upgrade" /\ cur'[w] = cur[w] /\ cur[w] \in Orders
          /\ ProductFound(cur[w])
          /\ verdict'[w] = IF Suffices(cur[w]) THEN Confirmed ELSE Rejected("OUT_OF_STOCK")
      BY <2>4, MatchingCampaignHasProduct DEF Deduct, Goto, Decide, Guarded, Started
    <3>2. /\ stock[Request[cur[w]].product] \in Nat
          /\ Request[cur[w]].quantity \in Nat
      BY <3>1, RequestAssumption DEF AcceptedOrder, ProductFound
    <3>3. ~Suffices(cur[w]) => Short(cur[w])
      BY <3>1, <3>2 DEF Suffices, Short
    <3> QED BY <1>0, <3>1, <3>3 DEF RightlyRefused, Rejected, Confirmed
  <2>5. \/ /\ phase[w] \in {"save", "publish", "commit"}
           /\ cur'[w] = cur[w] /\ verdict'[w] = verdict[w]
        \/ Begin(w) \/ ShareProduct(w) \/ Deduct(w)
    <3>1. ASSUME NEW v \in Workers, v # w, phase'[v] # phase[v]
          PROVE  UNCHANGED <<phase[w], cur[w], verdict[w]>>
      BY <3>1
      DEF Next, Progress, Disturbance, Fetch, FindDecided, FindPending, Replay, Begin,
          ShareProduct, SendDeduction, Deduct, SaveOrder, Publish, Commit, Complete, Deadlock,
          CallFails, CommitUnanswered, Abort, Crash, LoseLock, Tick, Goto, Decide, Idle,
          localVars, vars
    <3> QED
      BY <1>2, <3>1
      DEF Next, Progress, Disturbance, Fetch, FindDecided, FindPending, Replay, Begin,
          ShareProduct, SendDeduction, Deduct, SaveOrder, Publish, Commit, Complete, Deadlock,
          CallFails, CommitUnanswered, Abort, Crash, LoseLock, Tick, Goto, Decide, Idle,
          localVars, vars
  <2> QED BY <2>1, <2>2, <2>3, <2>4, <2>5
<1> QED BY <1>1, <1>2 DEF RefusalInv

(* Whoever was refused for lack of stock or of room under the limit would  *)
(* be refused again: no refusal rests on a read that was out of date.      *)
THEOREM RefusalsAreJustified ==
  ASSUME Undisturbed, IsFiniteSet(Orders)
  PROVE  Spec => []RefusalsJustified
<1>1. Init => RefusalInv
  BY DEF Init, WorkersStart, RefusalInv, RightlyRefused, Pending
<1>2. OwnInv /\ [Next]_vars => OwnInv'
  BY OwnInvStep
<1>3. OwnInv /\ RefusalInv /\ [Next]_vars => RefusalInv'
  BY RefusalInvStep
<1>4. RefusalInv => RefusalsJustified
  BY DEF RefusalInv, RightlyRefused, Short, Full, RefusalsJustified
<1> QED BY OwnInvInit, <1>1, <1>2, <1>3, <1>4, PTL DEF Spec

-----------------------------------------------------------------------------
(* The limit of a buyer is checked on a read view, and nothing stands      *)
(* between the check and the commit.  What a buyer can come to have is     *)
(* therefore not only what is confirmed, but also every order that has     *)
(* passed its check in some worker.                                        *)
PassedCheck(w) ==
  \/ phase[w] \in {"share", "deduct", "upgrade"}
  \/ phase[w] \in {"save", "publish", "commit"} /\ verdict[w] = Confirmed

Passing(S) == {o \in S : \E w \in Workers : PassedCheck(w) /\ cur[w] = o}

Taken(S) == ConfirmedOf(S) \cup Passing(S)

Limited(o) ==
  CampaignFound(o) /\ Campaign[Request[o].campaign].maxPerUser # NoLimit

(* With m units as the largest quantity the buyer of o asks for: the limit *)
(* and one order for each worker but one.                                  *)
LargestIs(o, m) == \A x \in SameBuyer(o) : Request[x].quantity <= m

Allowance(o, m) ==
  Campaign[Request[o].campaign].maxPerUser + (Cardinality(Workers) - 1) * m

(* What the unlocked check does guarantee: a buyer gets more than the      *)
(* campaign's max_per_user by no more than one order per other worker.     *)
LimitNearlyRespected ==
  \A o \in Orders : \A m \in 1..100 :
    /\ orders[o].status = "CONFIRMED"
    /\ Campaign[Request[o].campaign].maxPerUser # NoLimit
    /\ LargestIs(o, m)
    => Units(ConfirmedOf(SameBuyer(o))) <= Allowance(o, m)

TakenInv ==
  \A o \in Orders : \A m \in 1..100 :
    Limited(o) /\ LargestIs(o, m) /\ Taken(SameBuyer(o)) # {}
      => Units(Taken(SameBuyer(o))) <= Allowance(o, m)

(* A worker passes the check when it begins its transaction, at no other   *)
(* moment.                                                                 *)
PassesNow(w) ==
  /\ ~PassedCheck(w)
  /\ cur[w] \in Orders /\ CampaignFound(cur[w]) /\ ~OverLimit(cur[w])
  /\ UNCHANGED <<orders, cur>>
  /\ \A v \in Workers \ {w} : PassedCheck(v)' => PassedCheck(v)

LEMMA CheckIsPassedAtBegin ==
  ASSUME SafeInv, [Next]_vars
  PROVE  \/ \E w \in Workers : PassesNow(w)
         \/ \A w \in Workers : PassedCheck(w)' => PassedCheck(w) /\ cur'[w] = cur[w]
<1> USE DEF SafeInv, TypeOK, PassedCheck
<1>1. ASSUME NEW w \in Workers, Begin(w)
      PROVE  PassesNow(w) \/ (\A v \in Workers : PassedCheck(v)' => PassedCheck(v) /\ cur'[v] = cur[v])
  BY <1>1 DEF Begin, Goto, Decide, storeVars, Guarded, PassesNow, Rejected, Confirmed
<1>2. CASE UNCHANGED <<phase, cur, verdict>>
  BY <1>2
<1>3. ASSUME NEW w \in Workers,
             \/ FindDecided(w) \/ FindPending(w) \/ Replay(w) \/ ShareProduct(w)
             \/ SendDeduction(w) \/ Deduct(w) \/ SaveOrder(w) \/ Publish(w) \/ Commit(w)
      PROVE  \A v \in Workers : PassedCheck(v)' => PassedCheck(v) /\ cur'[v] = cur[v]
  BY <1>3
  DEF FindDecided, FindPending, Replay, ShareProduct, SendDeduction, Deduct, SaveOrder,
      Publish, Commit, Goto, Decide, Rejected, Confirmed
<1>4. ASSUME NEW w \in Workers, Idle(w)
      PROVE  \A v \in Workers : PassedCheck(v)' => PassedCheck(v) /\ cur'[v] = cur[v]
  BY <1>4 DEF Idle
<1>5. ASSUME NEW w \in Workers, NEW o \in Orders, Fetch(w, o)
      PROVE  \A v \in Workers : PassedCheck(v)' => PassedCheck(v) /\ cur'[v] = cur[v]
  BY <1>5 DEF Fetch, Goto
<1> QED
  BY <1>1, <1>2, <1>3, <1>4, <1>5
  DEF Next, Progress, Disturbance, Complete, Deadlock, CallFails, CommitUnanswered, Crash,
      Abort, LoseLock, Tick, localVars, vars

(* Only an order that has passed the check becomes confirmed.              *)
LEMMA ConfirmedHasPassed ==
  ASSUME SafeInv, [Next]_vars, NEW o \in Orders, orders'[o].status = "CONFIRMED"
  PROVE  \/ orders[o].status = "CONFIRMED"
         \/ \E w \in Workers : PassedCheck(w) /\ cur[w] = o
<1>1. CASE UNCHANGED <<orders, stock>>
  BY <1>1
<1>2. ASSUME NEW w \in Workers, phase[w] = "commit", ApplyWrites(w),
             orders[o].status # "CONFIRMED"
      PROVE  PassedCheck(w) /\ cur[w] = o
  <2>1. verdict[w] \in Outcome /\ orders \in [Orders -> Row]
    BY <1>2 DEF SafeInv, Guarded, TypeOK, StoreTypeOK
  <2>2. cur[w] = o /\ verdict[w].status = "CONFIRMED"
    BY <1>2, <2>1 DEF ApplyWrites, Saved
  <2> QED BY <1>2, <2>1, <2>2 DEF PassedCheck, Outcome, Rejected
<1> QED BY <1>1, <1>2, OnlyCommitsWrite

(* A step that lets no order pass the check adds nothing to what is taken. *)
LEMMA TakenShrinks ==
  ASSUME SafeInv, [Next]_vars, NEW S \in SUBSET Orders,
         \A w \in Workers : PassedCheck(w)' => PassedCheck(w) /\ cur'[w] = cur[w]
  PROVE  Taken(S)' \subseteq Taken(S)
<1> SUFFICES ASSUME NEW o \in S, o \in Taken(S)' PROVE o \in Taken(S)
  BY DEF Taken, ConfirmedOf, Passing
<1>1. CASE orders'[o].status = "CONFIRMED"
  BY <1>1, ConfirmedHasPassed DEF Taken, ConfirmedOf, Passing
<1>2. CASE \E w \in Workers : PassedCheck(w)' /\ cur'[w] = o
  BY <1>2 DEF Taken, Passing
<1> QED BY <1>1, <1>2 DEF Taken, ConfirmedOf, Passing

(* There is at most one order per worker in any set of orders that are in  *)
(* different workers' hands.                                               *)
LEMMA OneOrderPerWorker ==
  ASSUME IsFiniteSet(Workers), NEW W \in SUBSET Workers, NEW F,
         \A o \in F : \E w \in W : cur[w] = o
  PROVE  /\ IsFiniteSet(F) /\ Cardinality(F) \in Nat /\ Cardinality(W) \in Nat
         /\ Cardinality(F) <= Cardinality(W)
<1> DEFINE hand == [o \in F |-> CHOOSE w \in W : cur[w] = o]
<1>1. \A o \in F : hand[o] \in W /\ cur[hand[o]] = o
  OBVIOUS
<1>2. hand \in [F -> W]
  BY <1>1
<1> HIDE DEF hand
<1>3. hand \in Injection(F, W)
  BY <1>1, <1>2 DEF Injection, IsInjective
<1>4. IsFiniteSet(W)
  BY FS_Subset
<1> QED BY <1>3, <1>4, FS_Injection, FS_CardinalityType

(* The order that passes the check fits beside what is confirmed, and what *)
(* the other workers may still confirm is one order each.                  *)
LEMMA PassingFits ==
  ASSUME IsFiniteSet(Orders), IsFiniteSet(Workers), SafeInv,
         NEW w \in Workers, PassesNow(w),
         NEW o \in Orders, NEW m \in 1..100, Limited(o), LargestIs(o, m),
         cur[w] \in SameBuyer(o)
  PROVE  Units(Taken(SameBuyer(o))') <= Allowance(o, m)
<1> DEFINE S == SameBuyer(o)
           x == cur[w]
           max == Campaign[Request[o].campaign].maxPerUser
           C == ConfirmedOf(S)
           F == {y \in S : \E v \in Workers \ {w} : PassedCheck(v) /\ cur[v] = y}
           n == Cardinality(Workers)
<1>1. S \in SUBSET Orders /\ C \in SUBSET Orders /\ F \in SUBSET Orders /\ {x} \in SUBSET Orders
  BY DEF SameBuyer, ConfirmedOf, PassesNow
<1>2. Taken(S)' \subseteq (C \cup {x}) \cup F
  BY DEF Taken, ConfirmedOf, Passing, PassesNow, SameBuyer
<1>3. max \in Nat /\ Units(C) + Quantity(x) <= max
  <2>1. Request[x].campaign = Request[o].campaign /\ SameBuyer(x) = S
    BY DEF SameBuyer
  <2>2. max \in Nat
    BY CampaignAssumption DEF AcceptedCampaign, Limited, CampaignFound
  <2>3. ~(Units(C) + Quantity(x) > max)
    BY <2>1 DEF Limited, PassesNow, OverLimit, Reaches, Quantity
  <2>4. Units(C) \in Nat /\ Quantity(x) \in Nat
    BY <1>1, FS_Subset, UnitsType, QuantityType DEF PassesNow
  <2> HIDE DEF C, x, max
  <2> QED BY <2>2, <2>3, <2>4
<1>4. Units(F) <= (n - 1) * m /\ n \in Nat
  <2>1. Workers \ {w} \in SUBSET Workers /\ \A y \in F : \E v \in Workers \ {w} : cur[v] = y
    OBVIOUS
  <2>2. Cardinality(Workers \ {w}) = n - 1 /\ n \in Nat
    BY FS_RemoveElement, FS_CardinalityType
  <2>3. \A y \in F : Quantity(y) <= m
    BY DEF LargestIs, Quantity
  <2> HIDE DEF F, n
  <2>4. Cardinality(F) \in Nat /\ Cardinality(F) <= n - 1
    BY <2>1, <2>2, OneOrderPerWorker
  <2>5. Units(F) <= Cardinality(F) * m
    BY <1>1, <2>3, FS_Subset, UnitsAtMost
  <2>6. Cardinality(F) * m <= (n - 1) * m
    BY <2>2, <2>4
  <2>7. Units(F) \in Nat
    BY <1>1, FS_Subset, UnitsType
  <2>8. Cardinality(F) * m \in Int /\ (n - 1) * m \in Int
    BY <2>2, <2>4
  <2> QED BY <2>2, <2>5, <2>6, <2>7, <2>8
<1>5. Units(C \cup {x}) <= Units(C) + Quantity(x)
  <2>1. CASE x \in C
    <3>1. C \cup {x} = C
      BY <2>1
    <3>2. Units(C \cup {x}) = Units(C)
      BY <3>1
    <3>3. Units(C) \in Nat /\ Quantity(x) \in Nat
      BY <1>1, FS_Subset, UnitsType, QuantityType
    <3> HIDE DEF C, x
    <3> QED BY <3>2, <3>3
  <2>2. CASE x \notin C
    <3> HIDE DEF C
    <3>1. Units(C \cup {x}) = Units(C) + Quantity(x)
      BY <1>1, <2>2, FS_Subset, UnitsAdd
    <3>2. Units(C) \in Nat /\ Quantity(x) \in Nat
      BY <1>1, FS_Subset, UnitsType, QuantityType
    <3> QED BY <3>1, <3>2
  <2> QED BY <2>1, <2>2
<1> HIDE DEF C, F, S, x, n, max
<1>6. /\ C \cup {x} \in SUBSET Orders /\ (C \cup {x}) \cup F \in SUBSET Orders
      /\ IsFiniteSet(C \cup {x}) /\ IsFiniteSet(F) /\ IsFiniteSet((C \cup {x}) \cup F)
  BY <1>1, FS_Subset, FS_Union
<1>7. Units(Taken(S)') <= Units((C \cup {x}) \cup F)
  BY <1>2, <1>6, UnitsMonotone
<1>8. Units((C \cup {x}) \cup F) <= Units(C \cup {x}) + Units(F)
  BY <1>1, <1>6, UnitsUnion
<1>9. Taken(S)' \in SUBSET Orders /\ IsFiniteSet(Taken(S)')
  BY <1>2, <1>6, FS_Subset
<1>10. /\ Units(Taken(S)') \in Nat /\ Units((C \cup {x}) \cup F) \in Nat
       /\ Units(C \cup {x}) \in Nat /\ Units(F) \in Nat /\ Units(C) \in Nat /\ Quantity(x) \in Nat
  BY <1>1, <1>6, <1>9, FS_Subset, UnitsType, QuantityType
<1>11. (n - 1) * m \in Int
  BY <1>4
<1>12. Units(Taken(S)') <= max + (n - 1) * m
  BY <1>3, <1>4, <1>5, <1>7, <1>8, <1>10, <1>11
<1> QED BY <1>12 DEF Allowance, S, max, n

LEMMA TakenInvStep ==
  ASSUME IsFiniteSet(Orders), IsFiniteSet(Workers), SafeInv, TakenInv, [Next]_vars
  PROVE  TakenInv'
<1> SUFFICES ASSUME NEW o \in Orders, NEW m \in 1..100, Limited(o), LargestIs(o, m),
                    Taken(SameBuyer(o))' # {}
             PROVE  Units(Taken(SameBuyer(o))') <= Allowance(o, m)
  BY DEF TakenInv, Limited, LargestIs, Allowance, SameBuyer, CampaignFound
<1> DEFINE S == SameBuyer(o)
<1>1. S \in SUBSET Orders
  BY DEF SameBuyer
<1>2. ASSUME Taken(S)' \subseteq Taken(S)
      PROVE  Units(Taken(S)') <= Allowance(o, m)
  <2>1. Taken(S) \in SUBSET Orders /\ IsFiniteSet(Taken(S))
    BY <1>1, FS_Subset DEF Taken, ConfirmedOf, Passing
  <2>2. Units(Taken(S)) <= Allowance(o, m)
    BY <1>2 DEF TakenInv
  <2>3. Units(Taken(S)') <= Units(Taken(S))
    BY <1>2, <2>1, UnitsMonotone
  <2>4. Units(Taken(S)) \in Nat /\ Units(Taken(S)') \in Nat
    BY <1>2, <2>1, UnitsType, FS_Subset
  <2>5. Allowance(o, m) \in Int
    <3>1. Campaign[Request[o].campaign].maxPerUser \in Nat
      BY CampaignAssumption DEF AcceptedCampaign, Limited, CampaignFound
    <3>2. Cardinality(Workers) \in Nat
      BY FS_CardinalityType
    <3> QED BY <3>1, <3>2 DEF Allowance
  <2> QED BY <2>2, <2>3, <2>4, <2>5
<1>3. ASSUME NEW w \in Workers, PassesNow(w) PROVE Units(Taken(S)') <= Allowance(o, m)
  <2>1. CASE cur[w] \in S
    BY <1>3, <2>1, PassingFits
  <2>2. CASE cur[w] \notin S
    <3>1. Taken(S)' \subseteq Taken(S)
      BY <1>3, <2>2 DEF PassesNow, Taken, ConfirmedOf, Passing, SameBuyer
    <3> QED BY <1>2, <3>1
  <2> QED BY <2>1, <2>2
<1>4. CASE \A w \in Workers : PassedCheck(w)' => PassedCheck(w) /\ cur'[w] = cur[w]
  <2>1. Taken(S)' \subseteq Taken(S)
    <3> HIDE DEF S
    <3> SUFFICES Taken(S)' \subseteq Taken(S)
      OBVIOUS
    <3> QED BY <1>1, <1>4, TakenShrinks
  <2> QED BY <1>2, <2>1
<1> QED BY <1>3, <1>4, CheckIsPassedAtBegin

LEMMA TakenInvInit == Init => TakenInv
<1> SUFFICES ASSUME Init, NEW o \in Orders PROVE Taken(SameBuyer(o)) = {}
  BY DEF TakenInv
<1> QED BY DEF Init, WorkersStart, Pending, Taken, ConfirmedOf, Passing, PassedCheck, SameBuyer

LEMMA TakenIsEnough ==
  ASSUME IsFiniteSet(Orders), IsFiniteSet(Workers), SafeInv, TakenInv
  PROVE  LimitNearlyRespected
<1> SUFFICES ASSUME NEW o \in Orders, NEW m \in 1..100,
                    orders[o].status = "CONFIRMED",
                    Campaign[Request[o].campaign].maxPerUser # NoLimit,
                    LargestIs(o, m)
             PROVE  Units(ConfirmedOf(SameBuyer(o))) <= Allowance(o, m)
  BY DEF LimitNearlyRespected
<1> DEFINE T == Taken(SameBuyer(o))
           C == ConfirmedOf(SameBuyer(o))
<1>1. Limited(o)
  BY DEF SafeInv, ConfirmedOnlyOnceOpen, Limited
<1>2. o \in T /\ C \in SUBSET T /\ T \in SUBSET Orders
  BY DEF Taken, ConfirmedOf, Passing, SameBuyer
<1>3. Units(T) <= Allowance(o, m)
  BY <1>1, <1>2 DEF TakenInv
<1>4. IsFiniteSet(T) /\ IsFiniteSet(C)
  BY <1>2, FS_Subset
<1>5. Units(C) <= Units(T) /\ Units(C) \in Nat /\ Units(T) \in Nat
  <2> HIDE DEF T, C
  <2> QED BY <1>2, <1>4, UnitsMonotone, UnitsType
<1>6. Allowance(o, m) \in Int
  <2>1. Campaign[Request[o].campaign].maxPerUser \in Nat
    BY <1>1, CampaignAssumption DEF AcceptedCampaign, Limited, CampaignFound
  <2>2. Cardinality(Workers) \in Nat
    BY FS_CardinalityType
  <2> QED BY <2>1, <2>2 DEF Allowance
<1> QED BY <1>3, <1>5, <1>6

(* However workers race, fail, stall or work on one job together: a buyer  *)
(* exceeds the limit of a campaign by at most one order for every worker   *)
(* beyond the first.                                                       *)
THEOREM OverrunIsBounded ==
  ASSUME IsFiniteSet(Orders), IsFiniteSet(Workers)
  PROVE  Spec => []LimitNearlyRespected
<1>1. SafeInv /\ TakenInv /\ [Next]_vars => TakenInv'
  BY TakenInvStep
<1>2. SafeInv /\ TakenInv => LimitNearlyRespected
  BY TakenIsEnough
<1> QED BY SafeInvInit, SafeInvStep, TakenInvInit, <1>1, <1>2, PTL DEF Spec

LEMMA OneWorkerIsFew ==
  ASSUME OneWorker
  PROVE  IsFiniteSet(Workers) /\ Cardinality(Workers) \in {0, 1}
<1>1. CASE Workers = {}
  BY <1>1, FS_EmptySet
<1>2. ASSUME NEW w \in Workers
      PROVE  IsFiniteSet(Workers) /\ Cardinality(Workers) = 1
  <2>1. Workers = {w}
    BY DEF OneWorker
  <2> QED BY <2>1, FS_Singleton
<1> QED BY <1>1, <1>2

(* One worker alone keeps the limit: it sees every commit there is.        *)
LEMMA AloneWithinLimit ==
  ASSUME OneWorker, IsFiniteSet(Orders), SafeInv, LimitNearlyRespected
  PROVE  LimitRespected
<1> SUFFICES ASSUME NEW o \in Orders,
                    orders[o].status = "CONFIRMED",
                    Campaign[Request[o].campaign].maxPerUser # NoLimit
             PROVE  Units(ConfirmedOf(SameBuyer(o))) <= Campaign[Request[o].campaign].maxPerUser
  BY DEF LimitRespected
<1> DEFINE max == Campaign[Request[o].campaign].maxPerUser
           C == ConfirmedOf(SameBuyer(o))
<1>1. LargestIs(o, 100)
  BY QuantityType DEF LargestIs, SameBuyer, Quantity
<1>2. Units(C) <= Allowance(o, 100)
  BY <1>1 DEF LimitNearlyRespected
<1>3. max \in Nat
  BY CampaignAssumption DEF AcceptedCampaign, CampaignFound, SafeInv, ConfirmedOnlyOnceOpen
<1>4. C \in SUBSET Orders
  BY DEF ConfirmedOf, SameBuyer
<1> HIDE DEF C
<1>5. Units(C) \in Nat
  BY <1>4, FS_Subset, UnitsType
<1> HIDE DEF max
<1>6. Allowance(o, 100) \in {max, max - 100}
  BY <1>3, OneWorkerIsFew DEF Allowance, max
<1>7. Units(C) <= max
  BY <1>2, <1>3, <1>5, <1>6
<1> QED BY <1>7 DEF max, C

(* With one worker nobody exceeds the limit of a campaign, whatever fails  *)
(* and however often a job is delivered.                                   *)
THEOREM OneWorkerRespectsLimit ==
  ASSUME OneWorker, IsFiniteSet(Orders)
  PROVE  Spec => []LimitRespected
<1>1. SafeInv /\ LimitNearlyRespected => LimitRespected
  BY AloneWithinLimit
<1>2. Spec => []LimitNearlyRespected
  BY OneWorkerIsFew, OverrunIsBounded
<1> QED BY SafeInvInit, SafeInvStep, <1>1, <1>2, PTL DEF Spec
=============================================================================

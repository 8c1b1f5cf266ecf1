--------------------------- MODULE OrderProcessing ---------------------------
(***************************************************************************)
(* The order workers: worker.ts takes a job and calls                      *)
(* OrderProcessingService.processOrder, which decides the order in one     *)
(* MySQL transaction and publishes the outcome in Redis.                   *)
(*                                                                         *)
(* A worker handles one job at a time (BullMQ's default concurrency), and  *)
(* there may be several workers.  A step is what happens at one await:     *)
(* between two steps of a worker the others run.  Transactions are         *)
(* InnoDB's, at REPEATABLE READ: plain SELECTs read the view taken by the  *)
(* first of them, locking reads and UPDATEs act on the current row, and    *)
(* row locks are held to the end.  Which locks a worker holds follows from *)
(* where it is, so they are state functions and not variables.             *)
(***************************************************************************)
EXTENDS JobQueue

CONSTANTS
  NoOrder,
  Horizon,      \* the last instant of the clock
  Faults,       \* calls may fail and workers may crash
  LiveStalls    \* a job's lock may run out while its worker still runs

ASSUME NoOrderAssumption == NoOrder \notin Orders
ASSUME HorizonAssumption == Horizon \in Nat
ASSUME FaultsAssumption == Faults \in BOOLEAN /\ LiveStalls \in BOOLEAN

VARIABLES
  now,      \* the clock validateActive reads
  phase,    \* what each worker does next
  cur,      \* the order of its job
  view,     \* that order's row as its transaction sees it
  verdict   \* the row it has decided on

localVars == <<phase, cur, view, verdict>>
vars == <<orders, stock, cache, jobs, now, phase, cur, view, verdict>>

Phase == {"idle", "fetched", "replay", "begin", "share", "deduct", "upgrade",
          "save", "publish", "commit", "done"}

-----------------------------------------------------------------------------
(* Locks on a product's row.  A transaction shares it from its locking     *)
(* read on, then queues for the exclusive lock with its UPDATE, and while  *)
(* it queues nobody else gets to share the row.  A refusal for lack of     *)
(* stock holds the exclusive lock too: the UPDATE locks the row by primary *)
(* key before it looks at the stock.                                       *)
DeductionTried(row) == row.status = "CONFIRMED" \/ row.reason = "OUT_OF_STOCK"

SharesProduct(w, p) ==
  phase[w] \in {"deduct", "upgrade"} /\ Request[cur[w]].product = p

AwaitsProduct(w, p) ==
  phase[w] = "upgrade" /\ Request[cur[w]].product = p

LocksProduct(w, p) ==
  /\ phase[w] \in {"save", "publish", "commit"}
  /\ DeductionTried(verdict[w])
  /\ ProductFound(cur[w])
  /\ Request[cur[w]].product = p

WritesOrder(w) == verdict[w] # view[w]

LocksOrder(w, o) ==
  phase[w] \in {"publish", "commit"} /\ cur[w] = o /\ WritesOrder(w)

(* Bookkeeping of a worker: go on to a phase, or give up the job.          *)
Goto(w, next) == phase' = [phase EXCEPT ![w] = next]

Decide(w, row) == verdict' = [verdict EXCEPT ![w] = row]

Idle(w) ==
  /\ phase'   = [phase EXCEPT ![w] = "idle"]
  /\ cur'     = [cur EXCEPT ![w] = NoOrder]
  /\ view'    = [view EXCEPT ![w] = Absent]
  /\ verdict' = [verdict EXCEPT ![w] = Absent]

-----------------------------------------------------------------------------
(* worker.ts: BullMQ hands the worker a job.                               *)
Fetch(w, o) ==
  /\ phase[w] = "idle"
  /\ Take(w, o)
  /\ Goto(w, "fetched")
  /\ cur' = [cur EXCEPT ![w] = o]
  /\ UNCHANGED <<storeVars, now, view, verdict>>

(* Mutants of DecidedBefore: the status found is not looked at, and the    *)
(* order is taken for undecided, or for decided.                           *)
NeverDecidedBefore(w) == FALSE

AlwaysDecidedBefore(w) == TRUE

(* The read before the transaction: an order decided by an earlier attempt *)
(* is only published again ...                                             *)
DecidedBefore(w) == Decided(orders[cur[w]])

FindDecided(w) ==
  /\ phase[w] = "fetched"
  /\ DecidedBefore(w)
  /\ Decide(w, orders[cur[w]])
  /\ Goto(w, "replay")
  /\ UNCHANGED <<storeVars, jobs, now, cur, view>>

(* ... and any other goes on to the transaction.                           *)
FindPending(w) ==
  /\ phase[w] = "fetched"
  /\ ~DecidedBefore(w)
  /\ Goto(w, "begin")
  /\ UNCHANGED <<storeVars, jobs, now, cur, view, verdict>>

Replay(w) ==
  /\ phase[w] = "replay"
  /\ UpdateFinal(cur[w], verdict[w])
  /\ Goto(w, "done")
  /\ UNCHANGED <<orders, stock, jobs, now, cur, view, verdict>>

-----------------------------------------------------------------------------
(* The transaction.  Its first SELECT, of the campaign, takes the read     *)
(* view; the sum of the limit check is read from that view, so it is       *)
(* computed here.                                                          *)
Begin(w) ==
  LET o == cur[w]
      active == CampaignFound(o) /\ ValidAt(Request[o].campaign, now)
  IN  /\ phase[w] = "begin"
      /\ view' = [view EXCEPT ![w] = orders[o]]
      /\ \/ /\ ~active
            /\ Decide(w, Rejected("CAMPAIGN_INACTIVE"))
            /\ Goto(w, "save")
         \/ /\ active
            /\ OverLimit(o)
            /\ Decide(w, Rejected("LIMIT_EXCEEDED"))
            /\ Goto(w, "save")
         \/ /\ active
            /\ ~OverLimit(o)
            /\ Goto(w, "share")
            /\ UNCHANGED verdict
      /\ UNCHANGED <<storeVars, jobs, now, cur>>

(* SELECT ... LOCK IN SHARE MODE on the product (pessimistic_read).        *)
ShareProduct(w) ==
  LET o == cur[w]
      p == Request[o].product
  IN  /\ phase[w] = "share"
      /\ \A v \in Workers \ {w} : ~AwaitsProduct(v, p) /\ ~LocksProduct(v, p)
      /\ IF ProductFound(o)
           THEN Goto(w, "deduct") /\ UNCHANGED verdict
           ELSE Goto(w, "save") /\ Decide(w, Rejected("OUT_OF_STOCK"))
      /\ UNCHANGED <<storeVars, jobs, now, cur, view>>

(* deductAtomic sends UPDATE products SET stock = stock - q WHERE ... AND  *)
(* stock >= q, which needs the row exclusively.                            *)
SendDeduction(w) ==
  /\ phase[w] = "deduct"
  /\ Goto(w, "upgrade")
  /\ UNCHANGED <<storeVars, jobs, now, cur, view, verdict>>

(* Mutants of Suffices: no condition on the stock; the last unit is kept.  *)
SufficesAlways(o) == TRUE

SufficesAbove(o) == stock[Request[o].product] > Request[o].quantity

Suffices(o) == stock[Request[o].product] >= Request[o].quantity

(* The lock is granted and the UPDATE runs on the current row; the new     *)
(* stock shows at the commit.                                              *)
Deduct(w) ==
  LET p == Request[cur[w]].product
  IN  /\ phase[w] = "upgrade"
      /\ \A v \in Workers \ {w} : ~SharesProduct(v, p) /\ ~LocksProduct(v, p)
      /\ Decide(w, IF Suffices(cur[w]) THEN Confirmed ELSE Rejected("OUT_OF_STOCK"))
      /\ Goto(w, "save")
      /\ UNCHANGED <<storeVars, jobs, now, cur, view>>

(* manager.save: UPDATE of the order's row, which waits for another        *)
(* transaction's lock on it.                                               *)
SaveOrder(w) ==
  /\ phase[w] = "save"
  /\ WritesOrder(w) => \A v \in Workers \ {w} : ~LocksOrder(v, cur[w])
  /\ Goto(w, "publish")
  /\ UNCHANGED <<storeVars, jobs, now, cur, view, verdict>>

(* finalizeIdempotency: still inside the transaction.                      *)
Publish(w) ==
  /\ phase[w] = "publish"
  /\ UpdateFinal(cur[w], verdict[w])
  /\ Goto(w, "commit")
  /\ UNCHANGED <<orders, stock, jobs, now, cur, view, verdict>>

(* COMMIT makes both writes visible and drops the locks.                   *)
ApplyWrites(w) ==
  /\ orders' = [orders EXCEPT ![cur[w]] = Saved(@, view[w], verdict[w])]
  /\ stock' = Deducted(cur[w], verdict[w])

Commit(w) ==
  /\ phase[w] = "commit"
  /\ ApplyWrites(w)
  /\ Goto(w, "done")
  /\ UNCHANGED <<cache, jobs, now, cur, view, verdict>>

(* processOrder returned: the job is completed if its lock is still held.  *)
Complete(w) ==
  /\ phase[w] = "done"
  /\ Finish(w, cur[w])
  /\ Idle(w)
  /\ UNCHANGED <<storeVars, now>>

-----------------------------------------------------------------------------
(* What else can end an attempt.  An exception rolls the transaction back, *)
(* but not what was published, and fails the attempt.                      *)
Abort(w) ==
  /\ FailAttempt(w, cur[w])
  /\ Idle(w)
  /\ UNCHANGED <<storeVars, now>>

(* Two transactions share the product's row and both queue to update it:   *)
(* InnoDB rolls one of them back.                                          *)
Deadlock(w) ==
  /\ phase[w] = "upgrade"
  /\ \E v \in Workers \ {w} : AwaitsProduct(v, Request[cur[w]].product)
  /\ Abort(w)

(* A call to MySQL or Redis throws; a lock wait timeout is one such.       *)
CallFails(w) ==
  /\ Faults
  /\ phase[w] \notin {"idle", "done"}
  /\ Abort(w)

(* The COMMIT was executed but its answer got lost.                        *)
CommitUnanswered(w) ==
  /\ Faults
  /\ phase[w] = "commit"
  /\ ApplyWrites(w)
  /\ FailAttempt(w, cur[w])
  /\ Idle(w)
  /\ UNCHANGED <<cache, now>>

(* The worker process dies and is started again; its job stays active.     *)
Crash(w) ==
  /\ Faults
  /\ phase[w] # "idle"
  /\ Idle(w)
  /\ UNCHANGED <<storeVars, jobs, now>>

(* The lock of a job runs out: its worker is gone, or it failed to renew   *)
(* the lock in time and is still at work.                                  *)
Orphaned(o) == \A w \in Workers : Owns(w, o) => cur[w] # o

LoseLock(o) ==
  /\ Orphaned(o) \/ LiveStalls
  /\ Stall(o)
  /\ UNCHANGED <<storeVars, now, localVars>>

Tick ==
  /\ now < Horizon
  /\ now' = now + 1
  /\ UNCHANGED <<storeVars, jobs, localVars>>

-----------------------------------------------------------------------------
WorkersStart ==
  /\ now     = 0
  /\ phase   = [w \in Workers |-> "idle"]
  /\ cur     = [w \in Workers |-> NoOrder]
  /\ view    = [w \in Workers |-> Absent]
  /\ verdict = [w \in Workers |-> Absent]

(* Every order is accepted and queued: how that comes about is the API's   *)
(* part, and to a worker an order not yet placed is a job not yet taken.   *)
Init ==
  /\ orders = [o \in Orders |-> Pending]
  /\ stock  = [p \in Products |-> Product[p].stock]
  /\ cache  = [o \in Orders |-> Pending]
  /\ jobs   = [o \in Orders |-> NewJob]
  /\ WorkersStart

(* The steps a running worker takes of itself.                             *)
Progress(w) ==
  \/ FindDecided(w) \/ FindPending(w) \/ Replay(w)
  \/ Begin(w) \/ ShareProduct(w) \/ SendDeduction(w) \/ Deduct(w)
  \/ SaveOrder(w) \/ Publish(w) \/ Commit(w) \/ Complete(w)
  \/ Deadlock(w)

Disturbance(w) == CallFails(w) \/ CommitUnanswered(w) \/ Crash(w)

Next ==
  \/ \E w \in Workers :
       \/ \E o \in Orders : Fetch(w, o)
       \/ Progress(w)
       \/ Disturbance(w)
  \/ \E o \in Orders : LoseLock(o)
  \/ Tick

(* Node's event loop runs every ready continuation, InnoDB resolves every  *)
(* deadlock, BullMQ offers waiting jobs to idle workers and looks for      *)
(* stalled ones.  Nothing that goes wrong is fair.                         *)
Fairness ==
  /\ \A w \in Workers : WF_vars(Progress(w))
  /\ \A w \in Workers : WF_vars(\E o \in Orders : Fetch(w, o))
  /\ \A o \in Orders : WF_vars(Orphaned(o) /\ LoseLock(o))

Spec == Init /\ [][Next]_vars

FairSpec == Spec /\ Fairness

-----------------------------------------------------------------------------
TypeOK ==
  /\ StoreTypeOK
  /\ JobsTypeOK
  /\ now \in 0..Horizon
  /\ phase \in [Workers -> Phase]
  /\ cur \in [Workers -> Orders \cup {NoOrder}]
  /\ view \in [Workers -> Row]
  /\ verdict \in [Workers -> Row]

(* Seen from the two tables the workers implement Inventory: an order is   *)
(* decided once and for all, and a confirmation and its deduction are one  *)
(* step, whatever is interleaved, retried, rolled back or delivered twice. *)
Tables == INSTANCE Inventory WITH
            status <- [o \in Orders |-> orders[o].status],
            level  <- stock

ImplementsInventory == Tables!Spec

(* A job that ended well left its order decided and its cached answer      *)
(* equal to the order's row: MySQL, Redis and the queue agree, although    *)
(* processOrder writes Redis before it knows whether MySQL will commit.    *)
CompletedJobsAgree ==
  \A o \in Orders :
    jobs[o].state = "completed" => Decided(orders[o]) /\ cache[o] = orders[o]

(* A campaign that is over confirms nothing more: an order that is still   *)
(* undecided and not past the check of the window in any worker when       *)
(* end_time is reached never becomes CONFIRMED, however late its job runs  *)
(* and however often it is tried.                                          *)
Over(o) == CampaignFound(o) /\ now >= Campaign[Request[o].campaign].end

PastWindowCheck(o) ==
  \E w \in Workers : cur[w] = o /\ phase[w] \notin {"fetched", "replay", "begin"}

ClosedCampaignsConfirmNothing ==
  \A o \in Orders :
    [](Over(o) /\ orders[o].status = "PENDING" /\ ~PastWindowCheck(o)
         => [](orders[o].status # "CONFIRMED"))

(* Nothing is confirmed before its campaign starts, or against a campaign  *)
(* of another tenant or of another product.                                *)
ConfirmedOnlyOnceOpen ==
  \A o \in Orders :
    orders[o].status = "CONFIRMED" =>
      CampaignFound(o) /\ now >= Campaign[Request[o].campaign].start

(* A final answer the client could read in Redis is never replaced by a    *)
(* different one.                                                          *)
FinalAnswersKept ==
  [][\A o \in Orders : Decided(cache[o]) => cache'[o] = cache[o]]_cache

(* Every accepted order is decided in the end.                             *)
EveryOrderDecided == \A o \in Orders : <>Decided(orders[o])

(* No job is retried forever and none is forgotten, whatever fails.        *)
EveryJobSettles ==
  \A o \in Orders : <>[](jobs[o].state \in {"completed", "failed"})
=============================================================================

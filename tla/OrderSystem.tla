----------------------------- MODULE OrderSystem -----------------------------
(***************************************************************************)
(* The whole order pipeline: the API's requests (OrderPlacement) and the   *)
(* workers (OrderProcessing) over one pair of tables, one Redis and one    *)
(* queue.  A step is one of a worker or one of a request, or an answer, a  *)
(* lock or a job that Redis drops; the two sides meet in the store only.   *)
(***************************************************************************)
EXTENDS OrderProcessing

CONSTANTS Requests, Nobody, NoKey, Column, TooLong, SlowKeys

(* As OrderPlacement assumes them.                                         *)
ASSUME RequestsAssumption ==
  /\ Nobody \notin Requests
  /\ NoKey \notin Orders
  /\ TooLong \notin Orders /\ Column \in [Orders -> Orders \cup {TooLong}]
  /\ SlowKeys \subseteq Orders

VARIABLES lock, at, key, memo, answer

(* The outcomes that workers have published and not committed yet.         *)
Uncommitted ==
  [o \in Orders |->
     {verdict[w] : w \in {v \in Workers : phase[v] = "commit" /\ cur[v] = o}}]

API == INSTANCE OrderPlacement WITH published <- Uncommitted

apiVars == <<lock, at, key, memo, answer>>
workerVars == <<now, phase, cur, view, verdict>>
systemVars == <<orders, stock, cache, jobs, workerVars, apiVars>>

-----------------------------------------------------------------------------
SystemInit == WorkersStart /\ API!Init

ApiStep ==
  /\ UNCHANGED workerVars
  /\ (\E r \in Requests : API!PlaceOrder(r)) \/ API!Expiry

WorkerStep == Next /\ UNCHANGED apiVars

SystemNext == ApiStep \/ WorkerStep

(* Each side is scheduled as on its own.                                   *)
SystemFairness ==
  /\ \A r \in Requests : WF_systemVars(UNCHANGED workerVars /\ API!Handle(r))
  /\ \A o \in Orders : WF_systemVars(UNCHANGED workerVars /\ API!LockExpires(o))
  /\ \A w \in Workers :
       /\ WF_systemVars(Progress(w) /\ UNCHANGED apiVars)
       /\ WF_systemVars((\E o \in Orders : Fetch(w, o)) /\ UNCHANGED apiVars)
  /\ \A o \in Orders : WF_systemVars(Orphaned(o) /\ LoseLock(o) /\ UNCHANGED apiVars)

SystemSpec == SystemInit /\ [][SystemNext]_systemVars

FairSystemSpec == SystemSpec /\ SystemFairness

-----------------------------------------------------------------------------
(* The workers do to an order only what OrderPlacement lets them do, so    *)
(* what holds of the requests there holds here.                            *)
ImplementsPlacement == API!Spec

Told(o, status) == \E r \in Requests : key[r] = o /\ answer[r] = status

(* Without failures an outcome that a client was told is never ahead of    *)
(* MySQL by more than a commit, and never taken back: from then on the     *)
(* order's row has it, or a worker is about to commit it and has nothing   *)
(* else left to do.                                                        *)
Backed(o, status) ==
  \/ orders[o].status = status
  \/ \E w \in Workers :
       phase[w] = "commit" /\ cur[w] = o /\ verdict[w].status = status

AnswersStand ==
  \A o \in Orders : \A status \in {"CONFIRMED", "REJECTED"} :
    [](Told(o, status) => [](Backed(o, status)))

(* Without failures and with one worker, an order whose client was told    *)
(* PENDING and that no request is at work on any more is waiting for the   *)
(* worker, in its hands or decided, whoever claimed it and whatever has    *)
(* expired since.                                                          *)
Queued(o) == jobs[o].state \in {"waiting", "active"} \/ Decided(orders[o])

PromisesQueued ==
  \A r \in Requests :
    /\ answer[r] = "PENDING"
    /\ \A s \in Requests : ~API!InFlight(s, key[r])
    => Queued(key[r])

(* Without failures a final answer is final: once a client was told an     *)
(* outcome, the order's row gets it and keeps it, although the answer may  *)
(* come from Redis before MySQL has committed.                             *)
FinalAnswersHold ==
  \A o \in Orders : \A status \in {"CONFIRMED", "REJECTED"} :
    Told(o, status) ~> [](orders[o].status = status)

(* Without failures an order whose client was told PENDING is decided,     *)
(* also if the answer came from another request's claim, or while the job  *)
(* was still to be queued.                                                 *)
PromisesKept == \A o \in Orders : Told(o, "PENDING") ~> Decided(orders[o])
=============================================================================

------------------------------ MODULE JobQueue ------------------------------
(***************************************************************************)
(* The BullMQ queue `orders`, as far as the code relies on it.  A job is   *)
(* named by its jobId, `{tenantId}:{idempotencyKey}`, so by its order.     *)
(* Delivery is at least once: a worker holds a job under a lock it renews, *)
(* and a job whose lock ran out is given to a worker again.  A delayed job *)
(* (exponential backoff) is a waiting one that nobody happens to take yet. *)
(***************************************************************************)
EXTENDS OrderStore

CONSTANTS
  Workers,
  NoWorker,
  MaxAttempts,  \* `attempts` of the job options: 3
  MaxStalls     \* BullMQ's default maxStalledCount: 1

VARIABLE jobs

ASSUME NoWorkerAssumption == NoWorker \notin Workers
ASSUME MaxAttemptsAssumption == MaxAttempts \in Nat \ {0}
ASSUME MaxStallsAssumption == MaxStalls \in Nat

JobState == {"absent", "waiting", "active", "completed", "failed"}

Job == [state    : JobState,
        owner    : Workers \cup {NoWorker},
        attempts : 0..MaxAttempts,
        stalls   : 0..MaxStalls]

NoJob ==
  [state |-> "absent", owner |-> NoWorker, attempts |-> 0, stalls |-> 0]

NewJob == [NoJob EXCEPT !.state = "waiting"]

Owns(w, o) == jobs[o].state = "active" /\ jobs[o].owner = w

Available(o) == jobs[o].state = "waiting"

(* A worker takes a waiting job and locks it.                              *)
Take(w, o) ==
  /\ Available(o)
  /\ jobs' = [jobs EXCEPT ![o].state = "active", ![o].owner = w]

(* moveToCompleted: refused, with no effect, when the lock is gone.        *)
Finish(w, o) ==
  jobs' = IF Owns(w, o)
            THEN [jobs EXCEPT ![o].state = "completed", ![o].owner = NoWorker]
            ELSE jobs

(* Mutant of AttemptsUsed: attempts are not counted.                       *)
AttemptsUncounted(o) == jobs[o].attempts

AttemptsUsed(o) == jobs[o].attempts + 1

(* moveToFailed after the processor threw: the job waits for another       *)
(* attempt until it has used them all.                                     *)
FailAttempt(w, o) ==
  LET used == AttemptsUsed(o)
  IN  jobs' = IF Owns(w, o)
                THEN [jobs EXCEPT
                        ![o].state = IF used < MaxAttempts THEN "waiting" ELSE "failed",
                        ![o].owner = NoWorker,
                        ![o].attempts = used]
                ELSE jobs

(* The stalled-job check finds the lock of an active job expired.          *)
Stall(o) ==
  /\ jobs[o].state = "active"
  /\ jobs' = IF jobs[o].stalls < MaxStalls
               THEN [jobs EXCEPT ![o].state = "waiting", ![o].owner = NoWorker,
                                 ![o].stalls = @ + 1]
               ELSE [jobs EXCEPT ![o].state = "failed", ![o].owner = NoWorker]

JobsTypeOK == jobs \in [Orders -> Job]
=============================================================================

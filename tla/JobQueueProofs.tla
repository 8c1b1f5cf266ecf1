--------------------------- MODULE JobQueueProofs ---------------------------
(***************************************************************************)
(* What the queue's operations preserve, whoever calls them.               *)
(***************************************************************************)
EXTENDS JobQueue, OrderStoreProofs

(* A job that can still be worked on has an attempt left.                  *)
JobsBounded ==
  \A o \in Orders :
    jobs[o].state \in {"waiting", "active"} => jobs[o].attempts < MaxAttempts

LEMMA FreshJobs ==
  /\ NoJob \in Job /\ NewJob \in Job /\ NewJob # NoJob
  /\ NoJob.state = "absent" /\ NewJob.attempts < MaxAttempts
BY MaxAttemptsAssumption, MaxStallsAssumption DEF NoJob, NewJob, Job, JobState

(* No queue operation brings a job beyond its bounds: the counter of       *)
(* attempts stops at MaxAttempts because a job with none left is failed.   *)
LEMMA QueueSteps ==
  ASSUME JobsTypeOK, JobsBounded, NEW w \in Workers, NEW o \in Orders,
         Take(w, o) \/ Finish(w, o) \/ FailAttempt(w, o)
  PROVE  JobsTypeOK' /\ JobsBounded'
<1> USE MaxAttemptsAssumption, MaxStallsAssumption
<1>1. CASE Take(w, o)
  BY <1>1 DEF Take, Available, JobsTypeOK, JobsBounded, Job, JobState
<1>2. CASE Finish(w, o)
  BY <1>2 DEF Finish, Owns, JobsTypeOK, JobsBounded, Job, JobState
<1>3. CASE FailAttempt(w, o)
  BY <1>3 DEF FailAttempt, AttemptsUsed, Owns, JobsTypeOK, JobsBounded, Job, JobState
<1> QED BY <1>1, <1>2, <1>3

LEMMA StallSteps ==
  ASSUME JobsTypeOK, JobsBounded, NEW o \in Orders, Stall(o)
  PROVE  JobsTypeOK' /\ JobsBounded'
<1> USE MaxAttemptsAssumption, MaxStallsAssumption DEF JobsTypeOK, JobsBounded, Job, JobState
<1>1. CASE jobs[o].stalls < MaxStalls
  BY <1>1 DEF Stall
<1>2. CASE ~(jobs[o].stalls < MaxStalls)
  BY <1>2 DEF Stall
<1> QED BY <1>1, <1>2
=============================================================================

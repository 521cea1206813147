----------------------------- MODULE BullQueue -----------------------------
(***************************************************************************)
(* One job of a BullMQ queue, as far as apps/api uses the library: every   *)
(* task has at most one job, because orchestration.service.ts gives it the *)
(* stable id task-<taskId>.  BullMQ is not under src/; the operators say   *)
(* what each library call does to that job, "none" being the absence of a  *)
(* job with that id.  Waiting stands for BullMQ's waiting, prioritized and *)
(* paused lists.                                                           *)
(***************************************************************************)
EXTENDS Naturals

CONSTANTS MaxAttempts,   \* the `attempts` option of addTaskJob (3 in the code)
          MaxStalls      \* BullMQ's maxStalledCount (default 1)

ASSUME AttemptsAssumption == MaxAttempts \in Nat \ {0} /\ MaxStalls \in Nat

JobState == {"none", "waiting", "active", "delayed", "completed", "failed"}

Job == [state : JobState, attempts : 0..MaxAttempts, stalls : 0..MaxStalls]

NoJob == [state |-> "none", attempts |-> 0, stalls |-> 0]

\* queue.add with a jobId that exists already changes nothing.
Added(j) == IF j.state = "none" THEN [NoJob EXCEPT !.state = "waiting"] ELSE j

\* job.remove is refused while a worker holds the job's lock.
Removed(j) == IF j.state = "active" THEN j ELSE NoJob

\* A worker takes the job, or a delayed job's backoff has passed.
Pulled(j)   == [j EXCEPT !.state = "active"]
Promoted(j) == [j EXCEPT !.state = "waiting"]

\* The processor returned, or threw with or without an attempt left.
Completed(j) == [j EXCEPT !.state = "completed"]
Thrown(j)    ==
  IF j.attempts + 1 < MaxAttempts
  THEN [j EXCEPT !.state = "delayed", !.attempts = @ + 1]
  ELSE [j EXCEPT !.state = "failed", !.attempts = MaxAttempts]

\* The lock of an active job ran out without its worker renewing it.
Stalled(j) ==
  IF j.stalls < MaxStalls
  THEN [j EXCEPT !.state = "waiting", !.stalls = @ + 1]
  ELSE [j EXCEPT !.state = "failed"]
=============================================================================

--------------------------- MODULE TaskQueueProofs ---------------------------
(***************************************************************************)
(* What holds of TaskQueue for every number of tasks, slots, sessions and  *)
(* requests, every set of operations and any number of restarts: proofs    *)
(* checked by TLAPS.                                                       *)
(***************************************************************************)
EXTENDS TaskQueue, TLAPS

-----------------------------------------------------------------------------
(* BullMQ's operations on a job. *)

\* Every library call leaves a job of the queue a job of the queue.
LEMMA JobOpsType ==
  ASSUME NEW j \in Job
  PROVE  /\ NoJob \in Job /\ Added(j) \in Job /\ Removed(j) \in Job
         /\ Pulled(j) \in Job /\ Promoted(j) \in Job /\ Completed(j) \in Job
         /\ Thrown(j) \in Job /\ Stalled(j) \in Job
<1> USE AttemptsAssumption DEF Job, JobState, NoJob
<1>1. NoJob \in Job /\ Added(j) \in Job /\ Removed(j) \in Job
  BY DEF Added, Removed
<1>2. Pulled(j) \in Job /\ Promoted(j) \in Job /\ Completed(j) \in Job
  BY DEF Pulled, Promoted, Completed
<1>3. Thrown(j) \in Job
  <2>1. CASE j.attempts + 1 < MaxAttempts
    <3>1. Thrown(j) = [state |-> "delayed", attempts |-> j.attempts + 1, stalls |-> j.stalls]
      BY <2>1 DEF Thrown
    <3> QED
      BY <2>1, <3>1
  <2>2. CASE ~(j.attempts + 1 < MaxAttempts)
    <3>1. Thrown(j) = [state |-> "failed", attempts |-> MaxAttempts, stalls |-> j.stalls]
      BY <2>2 DEF Thrown
    <3> QED
      BY <3>1
  <2> QED
    BY <2>1, <2>2
<1>4. Stalled(j) \in Job
  <2>1. CASE j.stalls < MaxStalls
    <3>1. Stalled(j) = [state |-> "waiting", attempts |-> j.attempts, stalls |-> j.stalls + 1]
      BY <2>1 DEF Stalled
    <3> QED
      BY <2>1, <3>1
  <2>2. CASE ~(j.stalls < MaxStalls)
    BY <2>2 DEF Stalled
  <2> QED
    BY <2>1, <2>2
<1> QED
  BY <1>1, <1>2, <1>3, <1>4

\* Neither adding nor removing disturbs a job that a worker holds.
LEMMA ActiveJobStays ==
  ASSUME NEW j \in Job, j.state = "active"
  PROVE  Added(j) = j /\ Removed(j) = j
BY DEF Added, Removed

-----------------------------------------------------------------------------
(* Type correctness.  A slot that works holds a task, not NoTask: this is   *)
(* the part of SlotsHoldJobs the types rest on.                             *)

\* A step of a worker slot keeps every variable within its type.
LEMMA SlotStepType ==
  ASSUME TypeOK, SlotsHoldJobs, NEW s \in Slots, SlotStep(s)
  PROVE  TypeOK'
<1> USE DEF TypeOK, SlotsHoldJobs, taskVars, orgVars, sessVars, dockerVars, threadVars,
            Go, SlotPC, BeforeClaim, AfterClaim, SetStatus, SetSession, SessRef, TaskRef
<1>1. CASE ReadTask(s)
  BY <1>1 DEF ReadTask, Claimable, Status
<1>2. CASE CheckLive(s)
  BY <1>2 DEF CheckLive, Live, Status
<1>3. CASE CheckPaused(s)
  BY <1>3 DEF CheckPaused, Status
<1>4. CASE Hold(s)
  BY <1>4 DEF Hold, Exists, Status
<1>5. CASE Claim(s)
  BY <1>5 DEF Claim, Claimable, Status
<1>6. CASE CreateSession(s)
  BY <1>6 DEF CreateSession, Status
<1>7. CASE RollBack(s)
  BY <1>7 DEF RollBack, Exists, Status
<1>8. CASE LinkSession(s)
  BY <1>8 DEF LinkSession, Exists, HasRow, Status
<1>9. CASE StartContainer(s)
  BY <1>9 DEF StartContainer, HasRow, Status
<1>10. CASE SetRunning(s)
  BY <1>10 DEF SetRunning, HasRow, Status
<1>11. CASE StartFailed(s)
  BY <1>11 DEF StartFailed, HasRow, Status
<1>12. CASE WaitForRunning(s)
  BY <1>12 DEF WaitForRunning, Status
<1>13. CASE Launch(s)
  BY <1>13 DEF Launch, HasRow, Status
<1>14. CASE AwaitDone(s)
  BY <1>14 DEF AwaitDone, Status
<1>15. CASE ReadStatus(s)
  BY <1>15 DEF ReadStatus, Status
<1>16. CASE WriteResult(s)
  BY <1>16 DEF WriteResult, Exists, Status
<1>17. CASE StopOwnBox(s)
  BY <1>17 DEF StopOwnBox, StopContainer, TakenForDown, HasRow, BoxStops, Status
<1>18. CASE StopOwnMark(s)
  BY <1>18 DEF StopOwnMark, HasRow, Status
<1>19. CASE Ack(s)
  BY <1>19, JobOpsType DEF Ack, FreeSlot, Status
<1>20. CASE Nack(s)
  <2>1. job' \in [Tasks -> Job]
    BY <1>20, JobOpsType DEF Nack
  <2>2. status' \in [Tasks -> Status]
    BY <1>20 DEF Nack, Status
  <2>3. pc' \in [Slots -> SlotPC] /\ cur' \in [Slots -> TaskRef] /\ hand' \in [Slots -> SessRef]
        /\ seen' \in [Slots -> Status]
    BY <1>20 DEF Nack, FreeSlot, Status
  <2> QED
    BY <1>20, <2>1, <2>2, <2>3 DEF Nack
<1>21. CASE GiveUp(s)
  BY <1>21, JobOpsType DEF GiveUp, FreeSlot, Status
<1> QED
  BY <1>1, <1>2, <1>3, <1>4, <1>5, <1>6, <1>7, <1>8, <1>9, <1>10, <1>11, <1>12, <1>13, <1>14,
     <1>15, <1>16, <1>17, <1>18, <1>19, <1>20, <1>21 DEF SlotStep

\* The end of a thread and its way back from a list are places of a thread.
LEMMA ThreadPlaces ==
  ASSUME TypeOK, NEW h \in Threads
  PROVE  /\ Rest(h) \in ThreadPC /\ AfterItem(h) \in ThreadPC /\ AfterStop(h) \in ThreadPC
         /\ \A i \in Row : FirstStep(h, i) \in ThreadPC
BY DEF Rest, AfterItem, AfterStop, FirstStep, ThreadPC

\* Where a thread goes on, its row and its operation keep their types.
LEMMA JumpType ==
  ASSUME TypeOK, NEW h \in Threads, NEW l \in ThreadPC, NEW i \in Row, JumpWith(h, l, i)
  PROVE  /\ at' \in [Threads -> ThreadPC]
         /\ op' \in [Threads -> OpName \cup Sweeps]
         /\ item' \in [Threads -> Row]
<1>1. NoRow \in Row
  BY DEF NoRow, Row, TaskRef, SessRef, Status
<1> QED
  BY <1>1 DEF TypeOK, JumpWith, OpName

\* A step of a request or a sweep keeps every variable within its type.
LEMMA ThreadStepType ==
  ASSUME TypeOK, NEW h \in Threads, ThreadStep(h)
  PROVE  TypeOK'
<1>1. item[h] \in Row /\ todo[h] \in SUBSET Row
  BY DEF TypeOK
<1>2. \A l \in ThreadPC : Jump(h, l) =>
        at' \in [Threads -> ThreadPC] /\ op' \in [Threads -> OpName \cup Sweeps] /\ item' \in [Threads -> Row]
  BY <1>1, JumpType DEF Jump
<1>3. {"done", "idle", "next", "drop", "add", "gate", "find", "stopBox", "stopMark", "unlink", "queue",
       "fail", "jobCheck", "heldCheck", "promote", "dropRow"} \subseteq ThreadPC
  BY DEF ThreadPC
<1>4. \A t \in Tasks : RowOf(t) \in Row
  BY DEF TypeOK, RowOf, Row, TaskRef, SessRef
<1> USE <1>1, <1>2, <1>3, ThreadPlaces
    DEF TypeOK, taskVars, orgVars, sessVars, dockerVars, slotVars, SetStatus, SetSession
<1>5. CASE Detach(h)
  BY <1>5, JumpType DEF Detach, NoRow, Row, SessRef, TaskRef
<1>6. CASE StopBox(h)
  BY <1>6 DEF StopBox, StopContainer, TakenForDown, HasRow, BoxStops, NoRow
<1>7. CASE StopMark(h)
  BY <1>7 DEF StopMark, HasRow, NoRow
<1>8. CASE Unlink(h)
  BY <1>8 DEF Unlink, TakenForDown, NoRow, SessRef
<1>9. CASE Queue(h)
  BY <1>9 DEF Queue, Exists, NoRow, Status
<1>10. CASE Gate(h)
  BY <1>10 DEF Gate, NoRow
<1>11. CASE FindPendingJob(h)
  BY <1>11 DEF FindPendingJob, NoRow
<1>12. CASE DropStaleJob(h)
  BY <1>12, JobOpsType DEF DropStaleJob, NoRow
<1>13. CASE AddJob(h)
  BY <1>13, JobOpsType DEF AddJob, NoRow
<1>14. CASE CancelWrite(h)
  BY <1>14 DEF CancelWrite, Exists, NoRow, Status
<1>15. CASE ListQueued(h)
  BY <1>15, <1>4 DEF ListQueued, NoRow
<1>16. CASE ListJobs(h)
  BY <1>16, <1>4 DEF ListJobs, NoRow
<1>17. CASE NextRow(h)
  BY <1>17, JumpType DEF NextRow, NoRow
<1>18. CASE PurgeJob(h)
  BY <1>18, JobOpsType DEF PurgeJob, NoRow
<1>19. CASE Inspect(h)
  BY <1>19 DEF Inspect, NoRow
<1>20. CASE FailTask(h)
  BY <1>20 DEF FailTask, Exists, NoRow, Status
<1>21. CASE SkipLive(h)
  BY <1>21 DEF SkipLive, NoRow
<1>22. CASE SkipPending(h)
  BY <1>22 DEF SkipPending, NoRow
<1>23. CASE SkipPaused(h)
  BY <1>23 DEF SkipPaused, NoRow
<1>24. CASE PromoteTask(h)
  BY <1>24 DEF PromoteTask, Exists, NoRow, Status
<1>25. CASE ListBoxes(h)
  BY <1>25 DEF ListBoxes, NoRow
<1>26. CASE RemoveBox(h)
  BY <1>26 DEF RemoveBox, BoxGoes, BoxStops, NoRow
<1>27. CASE DropRow(h)
  BY <1>27 DEF DropRow, TakenForDown, HasRow, NoRow, SessRef
<1> QED
  BY <1>5, <1>6, <1>7, <1>8, <1>9, <1>10, <1>11, <1>12, <1>13, <1>14, <1>15, <1>16, <1>17, <1>18,
     <1>19, <1>20, <1>21, <1>22, <1>23, <1>24, <1>25, <1>26, <1>27 DEF ThreadStep

\* The first step of a request keeps every variable within its type.
LEMMA RequestStartType ==
  ASSUME TypeOK, NEW r \in Requests, RequestStart(r)
  PROVE  TypeOK'
<1>1. NoRow \in Row /\ (\A t \in Tasks : RowOf(t) \in Row) /\ \A x \in Sessions : RowOfSess(x) \in Row
  BY DEF TypeOK, NoRow, RowOf, RowOfSess, Row, TaskRef, SessRef, Status
<1>2. ASSUME NEW o, NEW i \in Row, NEW l \in ThreadPC, Receive(r, o, i, l)
      PROVE  /\ at' \in [Threads -> ThreadPC]
             /\ op' \in [Threads -> OpName \cup Sweeps]
             /\ item' \in [Threads -> Row]
             /\ UNCHANGED <<todo, slotVars, crashes>>
  BY <1>1, <1>2, QueueAssumption DEF TypeOK, Receive, OpName, Threads
<1>3. {"done", "detach", "queue", "cancel", "listJobs", "listQueued", "stopBox", "dropRow", "removeBox"}
        \subseteq ThreadPC
  BY DEF ThreadPC
<1> USE <1>1, <1>2, <1>3 DEF TypeOK, taskVars, orgVars, sessVars, dockerVars, slotVars, SetStatus
<1>4. ASSUME NEW t \in Tasks, Enqueue(r, t) PROVE TypeOK'
  BY <1>4 DEF Enqueue
<1>5. ASSUME NEW t \in Tasks, StartBuild(r, t) PROVE TypeOK'
  BY <1>5 DEF StartBuild
<1>6. ASSUME NEW t \in Tasks, Cancel(r, t) PROVE TypeOK'
  BY <1>6 DEF Cancel
<1>7. ASSUME NEW t \in Tasks, Close(r, t) PROVE TypeOK'
  BY <1>7 DEF Close, Status
<1>8. ASSUME NEW t \in Tasks, Reopen(r, t) PROVE TypeOK'
  BY <1>8 DEF Reopen, Status
<1>9. ASSUME NEW t \in Tasks, Update(r, t) PROVE TypeOK'
  BY <1>9, MoveAssumption DEF Update
<1>10. ASSUME NEW t \in Tasks, Remove(r, t) PROVE TypeOK'
  BY <1>10 DEF Remove, Status, SessRef
<1>11. CASE SetQueuePaused(r)
  BY <1>11 DEF SetQueuePaused
<1>12. CASE SetAutoPull(r)
  BY <1>12 DEF SetAutoPull
<1>13. ASSUME NEW x \in Sessions, StopSession(r, x) PROVE TypeOK'
  BY <1>13 DEF StopSession
<1>14. ASSUME NEW x \in Sessions, DropSession(r, x) PROVE TypeOK'
  BY <1>14 DEF DropSession
<1> QED
  BY <1>4, <1>5, <1>6, <1>7, <1>8, <1>9, <1>10, <1>11, <1>12, <1>13, <1>14 DEF RequestStart

\* The beginning of a sweep keeps every variable within its type.
LEMMA WatchdogType ==
  ASSUME TypeOK, Watchdog
  PROVE  TypeOK'
<1>1. (\A t \in Tasks : RowOf(t) \in Row) /\ \A x \in Sessions : RowOfSess(x) \in Row
  BY DEF TypeOK, RowOf, RowOfSess, Row, TaskRef, SessRef, Status
<1>2. ASSUME NEW h, NEW rows \in SUBSET Row, NEW l \in {"next", "listBoxes"}, Scan(h, rows, l)
      PROVE  TypeOK'
  <2>1. h \in Threads /\ item[h] \in Row /\ l \in ThreadPC
    BY <1>2 DEF Scan, Threads, TypeOK, ThreadPC
  <2>2. JumpWith(h, l, item[h])
    BY <1>2 DEF Scan, Jump
  <2> QED
    BY <1>2, <2>1, <2>2, JumpType
    DEF Scan, TypeOK, taskVars, orgVars, sessVars, dockerVars, slotVars
<1>3. CASE ScanStuck
  BY <1>1, <1>2, <1>3 DEF ScanStuck
<1>4. CASE ScanIdleWorkers
  BY <1>1, <1>2, <1>4 DEF ScanIdleWorkers
<1>5. CASE ScanUnstarted
  BY <1>1, <1>2, <1>5 DEF ScanUnstarted
<1>6. CASE ScanOrphans
  BY <1>1, <1>2, <1>6 DEF ScanOrphans
<1> QED
  BY <1>3, <1>4, <1>5, <1>6 DEF Watchdog

\* What happens around the server keeps every variable within its type, and
\* so does its restart.
LEMMA EnvironmentType ==
  ASSUME TypeOK, Environment
  PROVE  TypeOK'
<1> USE DEF TypeOK, taskVars, orgVars, sessVars, dockerVars, slotVars, threadVars, SetStatus, SetSession
<1>1. ASSUME NEW x \in Sessions, AgentExits(x) PROVE TypeOK'
  BY <1>1 DEF AgentExits
<1>2. ASSUME NEW x \in Sessions, BoxDies(x) PROVE TypeOK'
  BY <1>2 DEF BoxDies, BoxStops
<1>3. ASSUME NEW x \in Sessions, SyncContainerState(x) PROVE TypeOK'
  BY <1>3 DEF SyncContainerState, TakenForDown
<1>4. ASSUME NEW x \in Sessions, NEW v \in WorkerMaySet, SetWorkerStatus(x, v) PROVE TypeOK'
  BY <1>4 DEF SetWorkerStatus, WorkerMaySet, Status
<1>5. CASE Crash
  <2>1. NoRow \in Row
    BY DEF NoRow, Row, TaskRef, SessRef, Status
  <2>2. crashes' \in 0..MaxCrashes
    BY <1>5, QueueAssumption DEF Crash
  <2>3. at' \in [Threads -> ThreadPC] /\ op' \in [Threads -> OpName \cup Sweeps]
    BY <1>5 DEF Crash, ThreadPC, OpName
  <2>4. pc' \in [Slots -> SlotPC] /\ cur' \in [Slots -> TaskRef] /\ hand' \in [Slots -> SessRef]
    BY <1>5 DEF Crash, SlotPC, TaskRef, SessRef
  <2> QED
    BY <1>5, <2>1, <2>2, <2>3, <2>4 DEF Crash, Status
<1> QED
  BY <1>1, <1>2, <1>3, <1>4, <1>5, RequestStartType DEF Environment

\* The queue's own steps: a job handed out, retried or found stalled.
LEMMA JobStepType ==
  ASSUME TypeOK, NEW t \in Tasks,
         Retry(t) \/ Stall(t) \/ \E s \in Slots : Pull(s, t)
  PROVE  TypeOK'
<1> USE JobOpsType DEF TypeOK, taskVars, orgVars, sessVars, dockerVars, slotVars, threadVars, Go
<1>1. CASE Retry(t)
  BY <1>1 DEF Retry
<1>2. CASE Stall(t)
  BY <1>2 DEF Stall
<1>3. ASSUME NEW s \in Slots, Pull(s, t) PROVE TypeOK'
  BY <1>3 DEF Pull, SlotPC, BeforeClaim, TaskRef
<1> QED
  BY <1>1, <1>2, <1>3

\* Every step keeps every variable within its type.
LEMMA NextType == TypeOK /\ SlotsHoldJobs /\ [Next]_vars => TypeOK'
<1> SUFFICES ASSUME TypeOK, SlotsHoldJobs, [Next]_vars PROVE TypeOK'
  OBVIOUS
<1>1. CASE Next
  BY <1>1, SlotStepType, JobStepType, ThreadStepType, WatchdogType, EnvironmentType DEF Next
<1>2. CASE UNCHANGED vars
  BY <1>2 DEF vars, TypeOK, taskVars, orgVars, sessVars, dockerVars, slotVars, threadVars
<1> QED
  BY <1>1, <1>2

-----------------------------------------------------------------------------
(* One run per task.  OneRunPerTask is not inductive alone: that Pull cannot *)
(* hand out the job of a task at work needs SlotsHoldJobs, and that a slot   *)
(* which lets go of its job leaves the other slots theirs needs              *)
(* OneRunPerTask.                                                            *)

QueueInv == TypeOK /\ SlotsHoldJobs /\ OneRunPerTask

\* A step that leaves the slots where they are and every active job alone.
SlotsUndisturbed ==
  /\ UNCHANGED <<pc, cur>>
  /\ \A t \in Tasks : job[t].state = "active" => job'[t].state = "active"

\* A step that leaves the slots and the jobs they hold alone keeps both facts
\* about them.
LEMMA UndisturbedInv ==
  ASSUME QueueInv, SlotsUndisturbed
  PROVE  SlotsHoldJobs' /\ OneRunPerTask'
BY DEF QueueInv, SlotsUndisturbed, SlotsHoldJobs, OneRunPerTask

\* A step of slot s that keeps its task and job, or lets go of both.
LEMMA SlotMovesInv ==
  ASSUME QueueInv, NEW s \in Slots, pc[s] # "idle",
         \/ \E l : UNCHANGED <<job, cur>> /\ Go(s, l)
         \/ FreeSlot(s) /\ \E j : job' = [job EXCEPT ![cur[s]] = j]
  PROVE  SlotsHoldJobs' /\ OneRunPerTask'
<1> USE DEF QueueInv, TypeOK, SlotsHoldJobs, OneRunPerTask
<1>1. CASE \E l : UNCHANGED <<job, cur>> /\ Go(s, l)
  BY <1>1 DEF Go
<1>2. CASE FreeSlot(s) /\ \E j : job' = [job EXCEPT ![cur[s]] = j]
  <2>1. PICK j : job' = [job EXCEPT ![cur[s]] = j]
    BY <1>2
  <2>2. pc'[s] = "idle" /\ \A z \in Slots \ {s} : pc'[z] = pc[z] /\ cur'[z] = cur[z]
    BY <1>2 DEF FreeSlot, Go
  <2>3. \A z \in Slots \ {s} : pc[z] # "idle" => cur[z] # cur[s]
    OBVIOUS
  <2>4. \A z \in Slots \ {s} : pc[z] # "idle" => job'[cur[z]] = job[cur[z]]
    BY <2>1, <2>3
  <2> QED
    BY <2>2, <2>4
<1> QED
  BY <1>1, <1>2

\* A slot keeps the task and the job it has taken until it lets go of both.
LEMMA SlotStepInv ==
  ASSUME QueueInv, NEW s \in Slots, SlotStep(s)
  PROVE  SlotsHoldJobs' /\ OneRunPerTask'
<1>1. CASE ReadTask(s)
  BY <1>1, SlotMovesInv DEF ReadTask
<1>2. CASE CheckLive(s)
  BY <1>2, SlotMovesInv DEF CheckLive
<1>3. CASE CheckPaused(s)
  BY <1>3, SlotMovesInv DEF CheckPaused
<1>4. CASE Hold(s)
  BY <1>4, SlotMovesInv DEF Hold
<1>5. CASE Claim(s)
  BY <1>5, SlotMovesInv DEF Claim
<1>6. CASE CreateSession(s)
  BY <1>6, SlotMovesInv DEF CreateSession
<1>7. CASE RollBack(s)
  BY <1>7, SlotMovesInv DEF RollBack
<1>8. CASE LinkSession(s)
  BY <1>8, SlotMovesInv DEF LinkSession
<1>9. CASE StartContainer(s)
  BY <1>9, SlotMovesInv DEF StartContainer
<1>10. CASE SetRunning(s)
  BY <1>10, SlotMovesInv DEF SetRunning
<1>11. CASE StartFailed(s)
  BY <1>11, SlotMovesInv DEF StartFailed
<1>12. CASE WaitForRunning(s)
  BY <1>12, SlotMovesInv DEF WaitForRunning
<1>13. CASE Launch(s)
  BY <1>13, SlotMovesInv DEF Launch
<1>14. CASE AwaitDone(s)
  BY <1>14, SlotMovesInv DEF AwaitDone
<1>15. CASE ReadStatus(s)
  BY <1>15, SlotMovesInv DEF ReadStatus
<1>16. CASE WriteResult(s)
  BY <1>16, SlotMovesInv DEF WriteResult
<1>17. CASE StopOwnBox(s)
  BY <1>17, SlotMovesInv DEF StopOwnBox
<1>18. CASE StopOwnMark(s)
  BY <1>18, SlotMovesInv DEF StopOwnMark
<1>19. CASE Ack(s)
  BY <1>19, SlotMovesInv DEF Ack
<1>20. CASE Nack(s)
  BY <1>20, SlotMovesInv DEF Nack
<1>21. CASE GiveUp(s)
  BY <1>21, SlotMovesInv DEF GiveUp
<1> QED
  BY <1>1, <1>2, <1>3, <1>4, <1>5, <1>6, <1>7, <1>8, <1>9, <1>10, <1>11, <1>12, <1>13, <1>14,
     <1>15, <1>16, <1>17, <1>18, <1>19, <1>20, <1>21 DEF SlotStep

\* A job is handed out to an idle slot only while no slot holds it.
LEMMA PullInv ==
  ASSUME QueueInv, NEW s \in Slots, NEW t \in Tasks, Pull(s, t)
  PROVE  SlotsHoldJobs' /\ OneRunPerTask'
<1> USE DEF QueueInv, TypeOK, SlotsHoldJobs, OneRunPerTask
<1>1. \A z \in Slots : pc[z] # "idle" => cur[z] # t
  BY DEF Pull
<1>2. /\ pc'[s] = "read" /\ cur'[s] = t /\ job'[t].state = "active"
      /\ \A z \in Slots \ {s} : pc'[z] = pc[z] /\ cur'[z] = cur[z]
      /\ \A u \in Tasks \ {t} : job'[u] = job[u]
  BY DEF Pull, Pulled, Go, Job
<1> QED
  BY <1>1, <1>2

\* Requests and sweeps add and remove jobs, but no active one.
LEMMA ThreadStepInv ==
  ASSUME QueueInv, NEW h \in Threads, ThreadStep(h)
  PROVE  SlotsUndisturbed
<1>1. ASSUME NEW t, \/ job' = [job EXCEPT ![t] = Removed(@)]
                    \/ job' = [job EXCEPT ![t] = Added(@)]
      PROVE  \A u \in Tasks : job[u].state = "active" => job'[u].state = "active"
  BY <1>1, ActiveJobStays DEF QueueInv, TypeOK
<1> USE DEF SlotsUndisturbed, slotVars
<1>2. CASE Detach(h)
  BY <1>2 DEF Detach
<1>3. CASE StopBox(h)
  BY <1>3 DEF StopBox
<1>4. CASE StopMark(h)
  BY <1>4 DEF StopMark
<1>5. CASE Unlink(h)
  BY <1>5 DEF Unlink
<1>6. CASE Queue(h)
  BY <1>6 DEF Queue
<1>7. CASE Gate(h)
  BY <1>7 DEF Gate
<1>8. CASE FindPendingJob(h)
  BY <1>8 DEF FindPendingJob
<1>9. CASE DropStaleJob(h)
  BY <1>9, <1>1 DEF DropStaleJob
<1>10. CASE AddJob(h)
  BY <1>10, <1>1 DEF AddJob
<1>11. CASE CancelWrite(h)
  BY <1>11 DEF CancelWrite
<1>12. CASE ListQueued(h)
  BY <1>12 DEF ListQueued
<1>13. CASE ListJobs(h)
  BY <1>13 DEF ListJobs
<1>14. CASE NextRow(h)
  BY <1>14 DEF NextRow
<1>15. CASE PurgeJob(h)
  BY <1>15, <1>1 DEF PurgeJob
<1>16. CASE Inspect(h)
  BY <1>16 DEF Inspect
<1>17. CASE FailTask(h)
  BY <1>17 DEF FailTask
<1>18. CASE SkipLive(h)
  BY <1>18 DEF SkipLive
<1>19. CASE SkipPending(h)
  BY <1>19 DEF SkipPending
<1>20. CASE SkipPaused(h)
  BY <1>20 DEF SkipPaused
<1>21. CASE PromoteTask(h)
  BY <1>21 DEF PromoteTask
<1>22. CASE ListBoxes(h)
  BY <1>22 DEF ListBoxes
<1>23. CASE RemoveBox(h)
  BY <1>23 DEF RemoveBox
<1>24. CASE DropRow(h)
  BY <1>24 DEF DropRow
<1> QED
  BY <1>2, <1>3, <1>4, <1>5, <1>6, <1>7, <1>8, <1>9, <1>10, <1>11, <1>12, <1>13, <1>14, <1>15,
     <1>16, <1>17, <1>18, <1>19, <1>20, <1>21, <1>22, <1>23, <1>24 DEF ThreadStep

\* No request begins by touching a slot or a job.
LEMMA RequestStartInv ==
  ASSUME QueueInv, NEW r \in Requests, RequestStart(r)
  PROVE  SlotsUndisturbed
<1> USE DEF SlotsUndisturbed, slotVars, Receive
<1>1. ASSUME NEW t \in Tasks, Enqueue(r, t) PROVE SlotsUndisturbed
  BY <1>1 DEF Enqueue
<1>2. ASSUME NEW t \in Tasks, StartBuild(r, t) PROVE SlotsUndisturbed
  BY <1>2 DEF StartBuild
<1>3. ASSUME NEW t \in Tasks, Cancel(r, t) PROVE SlotsUndisturbed
  BY <1>3 DEF Cancel
<1>4. ASSUME NEW t \in Tasks, Close(r, t) PROVE SlotsUndisturbed
  BY <1>4 DEF Close
<1>5. ASSUME NEW t \in Tasks, Reopen(r, t) PROVE SlotsUndisturbed
  BY <1>5 DEF Reopen
<1>6. ASSUME NEW t \in Tasks, Update(r, t) PROVE SlotsUndisturbed
  BY <1>6 DEF Update
<1>7. ASSUME NEW t \in Tasks, Remove(r, t) PROVE SlotsUndisturbed
  BY <1>7 DEF Remove
<1>8. CASE SetQueuePaused(r)
  BY <1>8 DEF SetQueuePaused
<1>9. CASE SetAutoPull(r)
  BY <1>9 DEF SetAutoPull
<1>10. ASSUME NEW x \in Sessions, StopSession(r, x) PROVE SlotsUndisturbed
  BY <1>10 DEF StopSession
<1>11. ASSUME NEW x \in Sessions, DropSession(r, x) PROVE SlotsUndisturbed
  BY <1>11 DEF DropSession
<1> QED
  BY <1>1, <1>2, <1>3, <1>4, <1>5, <1>6, <1>7, <1>8, <1>9, <1>10, <1>11 DEF RequestStart

\* No sweep begins by touching a slot or a job.
LEMMA WatchdogInv ==
  ASSUME Watchdog
  PROVE  SlotsUndisturbed
BY DEF Watchdog, ScanStuck, ScanIdleWorkers, ScanUnstarted, ScanOrphans, Scan, SlotsUndisturbed, slotVars

\* A restart empties every slot; nothing else around the server touches one.
LEMMA EnvironmentInv ==
  ASSUME QueueInv, Environment
  PROVE  SlotsHoldJobs' /\ OneRunPerTask'
<1>1. ASSUME NEW x \in Sessions,
             \/ AgentExits(x) \/ BoxDies(x) \/ SyncContainerState(x)
             \/ \E v \in WorkerMaySet : SetWorkerStatus(x, v)
      PROVE  SlotsUndisturbed
  BY <1>1 DEF AgentExits, BoxDies, SyncContainerState, SetWorkerStatus, SlotsUndisturbed, slotVars
<1>2. CASE Crash
  BY <1>2 DEF Crash, SlotsHoldJobs, OneRunPerTask
<1> QED
  BY <1>1, <1>2, RequestStartInv, UndisturbedInv DEF Environment

\* Retries and stalls concern jobs that no slot holds.
LEMMA JobStepInv ==
  ASSUME QueueInv, NEW t \in Tasks, Retry(t) \/ Stall(t)
  PROVE  SlotsHoldJobs' /\ OneRunPerTask'
<1> USE DEF QueueInv, TypeOK, SlotsHoldJobs, OneRunPerTask, slotVars
<1>1. \A s \in Slots : pc[s] # "idle" => cur[s] # t
  BY DEF Retry, Stall
<1>2. UNCHANGED <<pc, cur>> /\ \A u \in Tasks \ {t} : job'[u] = job[u]
  BY DEF Retry, Stall
<1> QED
  BY <1>1, <1>2

\* The inductive invariant holds when the server starts on a fresh database.
LEMMA QueueInvInit == Init => QueueInv
<1> SUFFICES ASSUME Init PROVE QueueInv
  OBVIOUS
<1>1. TypeOK
  <2>1. NoRow \in Row /\ NoJob \in Job
    BY AttemptsAssumption DEF NoRow, Row, TaskRef, SessRef, Status, NoJob, Job, JobState
  <2>2. at \in [Threads -> ThreadPC] /\ op \in [Threads -> OpName \cup Sweeps]
    BY DEF Init, ThreadPC, OpName, Threads
  <2>3. crashes \in 0..MaxCrashes
    BY QueueAssumption DEF Init
  <2> QED
    BY <2>1, <2>2, <2>3 DEF Init, TypeOK, Status, SessRef, TaskRef, SlotPC
<1>2. SlotsHoldJobs /\ OneRunPerTask
  BY DEF Init, SlotsHoldJobs, OneRunPerTask
<1> QED
  BY <1>1, <1>2 DEF QueueInv

\* Every step keeps the inductive invariant.
LEMMA QueueInvNext == QueueInv /\ [Next]_vars => QueueInv'
<1> SUFFICES ASSUME QueueInv, [Next]_vars PROVE QueueInv'
  OBVIOUS
<1>1. TypeOK'
  BY NextType DEF QueueInv
<1>2. SlotsHoldJobs' /\ OneRunPerTask'
  <2>1. CASE Next
    BY <2>1, SlotStepInv, PullInv, JobStepInv, ThreadStepInv, WatchdogInv, EnvironmentInv, UndisturbedInv
    DEF Next
  <2>2. CASE UNCHANGED vars
    BY <2>2, UndisturbedInv DEF vars, SlotsUndisturbed, slotVars
  <2> QED
    BY <2>1, <2>2
<1> QED
  BY <1>1, <1>2 DEF QueueInv

\* Every reachable state satisfies the inductive invariant.
THEOREM QueueInvariant == Spec => []QueueInv
BY QueueInvInit, QueueInvNext, PTL DEF Spec

\* Every variable stays within its type, whatever is requested, retried, lost
\* or restarted: TaskQueue's handlers only ever store what its readers expect.
THEOREM TypeCorrect == Spec => []TypeOK
<1>1. QueueInv => TypeOK
  BY DEF QueueInv
<1> QED
  BY <1>1, QueueInvariant, PTL

\* addTaskJob's find, remove and add never put a second job of a task to work
\* while the first is: no two slots of the processor execute the same task.
THEOREM RunsAreExclusive == Spec => []OneRunPerTask
<1>1. QueueInv => OneRunPerTask
  BY DEF QueueInv
<1> QED
  BY <1>1, QueueInvariant, PTL

\* No request, sweep, retry or stall takes the job of a slot at work away.
THEOREM JobsAreHeld == Spec => []SlotsHoldJobs
<1>1. QueueInv => SlotsHoldJobs
  BY DEF QueueInv
<1> QED
  BY <1>1, QueueInvariant, PTL

-----------------------------------------------------------------------------
(* Links between tasks and sessions.  LinkedToOwnWorker is not inductive     *)
(* alone: the link is written a step after the session was created, so the   *)
(* slot in between must still hold a session of its own task.                *)

LinkInv ==
  /\ LinkedToOwnWorker
  /\ \A s \in Slots : pc[s] = "link" =>
       hand[s] \in Sessions /\ sstat[hand[s]] # "UNUSED" /\ owner[hand[s]] = cur[s]

\* A step that may unlink tasks and move sessions on, but creates no session,
\* deletes none and brings no slot to the link.
LinksUndisturbed ==
  /\ UNCHANGED owner
  /\ \A t \in Tasks : sess'[t] \in {sess[t], NoSession}
  /\ \A x \in Sessions : /\ HasRow(x) => HasRow(x)'
                         /\ sstat[x] # "UNUSED" => sstat'[x] # "UNUSED"
  /\ \A s \in Slots : pc'[s] = "link" => pc[s] = "link" /\ hand'[s] = hand[s] /\ cur'[s] = cur[s]

\* A step that creates no row, and takes no row from a task linked to it, keeps
\* the links.
LEMMA UndisturbedLinks ==
  ASSUME TypeOK, LinkInv, LinksUndisturbed
  PROVE  LinkInv'
BY DEF TypeOK, LinkInv, LinkedToOwnWorker, LinksUndisturbed, SessRef, HasRow

\* executeTask links a task only to the session it has created for it.
LEMMA SlotStepLinks ==
  ASSUME QueueInv, LinkInv, NEW s \in Slots, SlotStep(s)
  PROVE  LinkInv'
<1> USE DEF QueueInv, TypeOK
<1>1. ASSUME UNCHANGED <<sess, sstat, owner>>,
             \/ \E l : l # "link" /\ Go(s, l) /\ \A z \in Slots \ {s} : cur'[z] = cur[z] /\ hand'[z] = hand[z]
             \/ FreeSlot(s)
      PROVE  LinkInv'
  <2>1. LinksUndisturbed
    BY <1>1 DEF LinksUndisturbed, Go, FreeSlot, HasRow
  <2> QED
    BY <2>1, UndisturbedLinks
<1>2. ASSUME UNCHANGED <<sess, owner, cur, hand>>, HasRow(hand[s]),
             NEW v \in {"RUNNING", "COMPLETED", "FAILED"}, SetSession(hand[s], v),
             NEW l, l # "link", Go(s, l)
      PROVE  LinkInv'
  <2>1. LinksUndisturbed
    BY <1>2 DEF LinksUndisturbed, Go, SetSession, HasRow
  <2> QED
    BY <2>1, UndisturbedLinks
<1> USE DEF taskVars, sessVars
<1>3. CASE ReadTask(s)
  BY <1>1, <1>3 DEF ReadTask
<1>4. CASE CheckLive(s)
  BY <1>1, <1>4 DEF CheckLive
<1>5. CASE CheckPaused(s)
  BY <1>1, <1>5 DEF CheckPaused
<1>6. CASE Hold(s)
  BY <1>1, <1>6 DEF Hold
<1>7. CASE Claim(s)
  BY <1>1, <1>7 DEF Claim
<1>8. CASE CreateSession(s)
  <2>1. ASSUME NEW x \in Sessions, sstat[x] = "UNUSED", SetSession(x, "CREATING"),
               owner' = [owner EXCEPT ![x] = cur[s]], hand' = [hand EXCEPT ![s] = x], Go(s, "link"),
               UNCHANGED <<taskVars, cur>>
        PROVE  LinkInv'
    BY <2>1 DEF LinkInv, LinkedToOwnWorker, SetSession, Go, HasRow, SessRef
  <2> QED
    BY <1>1, <1>8, <2>1 DEF CreateSession
<1>9. CASE RollBack(s)
  BY <1>1, <1>9 DEF RollBack
<1>10. CASE LinkSession(s)
  BY <1>10 DEF LinkSession, LinkInv, LinkedToOwnWorker, SlotsHoldJobs, HasRow, Go, SessRef
<1>11. CASE StartContainer(s)
  BY <1>1, <1>11 DEF StartContainer
<1>12. CASE SetRunning(s)
  BY <1>1, <1>2, <1>12 DEF SetRunning
<1>13. CASE StartFailed(s)
  BY <1>1, <1>2, <1>13 DEF StartFailed
<1>14. CASE WaitForRunning(s)
  BY <1>1, <1>14 DEF WaitForRunning
<1>15. CASE Launch(s)
  BY <1>1, <1>15 DEF Launch
<1>16. CASE AwaitDone(s)
  BY <1>1, <1>16 DEF AwaitDone
<1>17. CASE ReadStatus(s)
  BY <1>1, <1>17 DEF ReadStatus
<1>18. CASE WriteResult(s)
  BY <1>1, <1>18 DEF WriteResult
<1>19. CASE StopOwnBox(s)
  BY <1>1, <1>19 DEF StopOwnBox, StopContainer
<1>20. CASE StopOwnMark(s)
  BY <1>1, <1>2, <1>20 DEF StopOwnMark
<1>21. CASE Ack(s)
  BY <1>1, <1>21 DEF Ack
<1>22. CASE Nack(s)
  BY <1>1, <1>22 DEF Nack
<1>23. CASE GiveUp(s)
  BY <1>1, <1>23 DEF GiveUp
<1> QED
  BY <1>3, <1>4, <1>5, <1>6, <1>7, <1>8, <1>9, <1>10, <1>11, <1>12, <1>13, <1>14, <1>15, <1>16,
     <1>17, <1>18, <1>19, <1>20, <1>21, <1>22, <1>23 DEF SlotStep

\* Only deleting a session takes a row away, and it unlinks the tasks of it.
LEMMA ThreadStepLinks ==
  ASSUME QueueInv, LinkInv, NEW h \in Threads, ThreadStep(h)
  PROVE  LinkInv'
<1> USE DEF QueueInv, TypeOK
<1>1. ASSUME UNCHANGED <<sstat, owner, slotVars>>, \A t \in Tasks : sess'[t] \in {sess[t], NoSession}
      PROVE  LinkInv'
  BY <1>1, UndisturbedLinks DEF LinksUndisturbed, slotVars, HasRow
<1> USE DEF taskVars, sessVars
<1>2. CASE Detach(h)
  BY <1>1, <1>2 DEF Detach
<1>3. CASE StopBox(h)
  BY <1>1, <1>3 DEF StopBox, StopContainer
<1>4. CASE StopMark(h)
  <2>1. LinksUndisturbed
    BY <1>4 DEF StopMark, LinksUndisturbed, SetSession, slotVars, HasRow
  <2> QED
    BY <2>1, UndisturbedLinks
<1>5. CASE Unlink(h)
  BY <1>1, <1>5 DEF Unlink
<1>6. CASE Queue(h)
  BY <1>1, <1>6 DEF Queue
<1>7. CASE Gate(h)
  BY <1>1, <1>7 DEF Gate
<1>8. CASE FindPendingJob(h)
  BY <1>1, <1>8 DEF FindPendingJob
<1>9. CASE DropStaleJob(h)
  BY <1>1, <1>9 DEF DropStaleJob
<1>10. CASE AddJob(h)
  BY <1>1, <1>10 DEF AddJob
<1>11. CASE CancelWrite(h)
  BY <1>1, <1>11 DEF CancelWrite
<1>12. CASE ListQueued(h)
  BY <1>1, <1>12 DEF ListQueued
<1>13. CASE ListJobs(h)
  BY <1>1, <1>13 DEF ListJobs
<1>14. CASE NextRow(h)
  BY <1>1, <1>14 DEF NextRow
<1>15. CASE PurgeJob(h)
  BY <1>1, <1>15 DEF PurgeJob
<1>16. CASE Inspect(h)
  BY <1>1, <1>16 DEF Inspect
<1>17. CASE FailTask(h)
  BY <1>1, <1>17 DEF FailTask
<1>18. CASE SkipLive(h)
  BY <1>1, <1>18 DEF SkipLive
<1>19. CASE SkipPending(h)
  BY <1>1, <1>19 DEF SkipPending
<1>20. CASE SkipPaused(h)
  BY <1>1, <1>20 DEF SkipPaused
<1>21. CASE PromoteTask(h)
  BY <1>1, <1>21 DEF PromoteTask
<1>22. CASE ListBoxes(h)
  BY <1>1, <1>22 DEF ListBoxes
<1>23. CASE RemoveBox(h)
  BY <1>1, <1>23 DEF RemoveBox
<1>24. CASE DropRow(h)
  BY <1>24 DEF DropRow, LinkInv, LinkedToOwnWorker, SetSession, slotVars, HasRow, SessRef
<1> QED
  BY <1>2, <1>3, <1>4, <1>5, <1>6, <1>7, <1>8, <1>9, <1>10, <1>11, <1>12, <1>13, <1>14, <1>15,
     <1>16, <1>17, <1>18, <1>19, <1>20, <1>21, <1>22, <1>23, <1>24 DEF ThreadStep

\* A request begins by unlinking at most the task it removes.
LEMMA RequestStartLinks ==
  ASSUME TypeOK, LinkInv, NEW r \in Requests, RequestStart(r)
  PROVE  LinkInv'
<1>1. ASSUME UNCHANGED <<sstat, owner, slotVars>>, \A t \in Tasks : sess'[t] \in {sess[t], NoSession}
      PROVE  LinkInv'
  BY <1>1, UndisturbedLinks DEF LinksUndisturbed, slotVars, HasRow
<1> USE <1>1 DEF Receive, taskVars, sessVars, slotVars
<1>2. ASSUME NEW t \in Tasks, Enqueue(r, t) PROVE LinkInv'
  BY <1>2 DEF Enqueue
<1>3. ASSUME NEW t \in Tasks, StartBuild(r, t) PROVE LinkInv'
  BY <1>3 DEF StartBuild
<1>4. ASSUME NEW t \in Tasks, Cancel(r, t) PROVE LinkInv'
  BY <1>4 DEF Cancel
<1>5. ASSUME NEW t \in Tasks, Close(r, t) PROVE LinkInv'
  BY <1>5 DEF Close
<1>6. ASSUME NEW t \in Tasks, Reopen(r, t) PROVE LinkInv'
  BY <1>6 DEF Reopen
<1>7. ASSUME NEW t \in Tasks, Update(r, t) PROVE LinkInv'
  BY <1>7 DEF Update
<1>8. ASSUME NEW t \in Tasks, Remove(r, t) PROVE LinkInv'
  BY <1>8 DEF Remove, TypeOK
<1>9. CASE SetQueuePaused(r)
  BY <1>9 DEF SetQueuePaused
<1>10. CASE SetAutoPull(r)
  BY <1>10 DEF SetAutoPull
<1>11. ASSUME NEW x \in Sessions, StopSession(r, x) PROVE LinkInv'
  BY <1>11 DEF StopSession
<1>12. ASSUME NEW x \in Sessions, DropSession(r, x) PROVE LinkInv'
  BY <1>12 DEF DropSession
<1> QED
  BY <1>2, <1>3, <1>4, <1>5, <1>6, <1>7, <1>8, <1>9, <1>10, <1>11, <1>12 DEF RequestStart

\* Every step keeps the links of tasks to their own sessions.
LEMMA LinkInvNext == QueueInv /\ LinkInv /\ [Next]_vars => LinkInv'
<1> SUFFICES ASSUME QueueInv, LinkInv, [Next]_vars PROVE LinkInv'
  OBVIOUS
<1>0. TypeOK
  BY DEF QueueInv
<1>1. ASSUME NEW s \in Slots, NEW t \in Tasks, Pull(s, t) PROVE LinkInv'
  BY <1>0, <1>1, UndisturbedLinks
  DEF Pull, LinksUndisturbed, Go, taskVars, sessVars, HasRow, TypeOK
<1>2. ASSUME NEW t \in Tasks, Retry(t) \/ Stall(t) PROVE LinkInv'
  BY <1>0, <1>2, UndisturbedLinks DEF Retry, Stall, LinksUndisturbed, taskVars, sessVars,
     slotVars, HasRow
<1>3. CASE Watchdog
  BY <1>0, <1>3, UndisturbedLinks
  DEF Watchdog, ScanStuck, ScanIdleWorkers, ScanUnstarted, ScanOrphans, Scan,
      LinksUndisturbed, taskVars, sessVars, slotVars, HasRow
<1>4. CASE Environment
  <2>1. ASSUME NEW x \in Sessions, SyncContainerState(x) PROVE LinkInv'
    BY <1>0, <2>1, UndisturbedLinks
    DEF SyncContainerState, LinksUndisturbed, SetSession, taskVars, slotVars, HasRow, TypeOK
  <2>2. ASSUME NEW x \in Sessions,
               AgentExits(x) \/ BoxDies(x) \/ \E v \in WorkerMaySet : SetWorkerStatus(x, v)
        PROVE  LinkInv'
    BY <1>0, <2>2, UndisturbedLinks
    DEF AgentExits, BoxDies, SetWorkerStatus, LinksUndisturbed, taskVars, sessVars, slotVars, HasRow
  <2>3. CASE Crash
    BY <1>0, <2>3, UndisturbedLinks DEF Crash, LinksUndisturbed, taskVars, sessVars, HasRow
  <2> QED
    BY <1>0, <1>4, <2>1, <2>2, <2>3, RequestStartLinks DEF Environment
<1>5. CASE UNCHANGED vars
  BY <1>0, <1>5, UndisturbedLinks DEF vars, LinksUndisturbed, taskVars, sessVars, slotVars, HasRow
<1> QED
  BY <1>1, <1>2, <1>3, <1>4, <1>5, SlotStepLinks, ThreadStepLinks DEF Next

\* A task is only ever linked to an existing session that was created for it:
\* executeTask's link, a step after the create, never picks up another task's
\* worker or one that a concurrent delete has removed.
THEOREM LinksAreOwn == Spec => []LinkedToOwnWorker
<1>1. Init => LinkInv
  BY QueueAssumption DEF Init, LinkInv, LinkedToOwnWorker
<1>2. LinkInv => LinkedToOwnWorker
  BY DEF LinkInv
<1> QED
  BY <1>1, <1>2, LinkInvNext, QueueInvariant, PTL DEF Spec

-----------------------------------------------------------------------------
(* The queue implements WorkerPool: a claim begins a run, the step to the   *)
(* acknowledgement or out of the processor ends it, a restart ends all.     *)

\* A step of slot s that stays on its side of the claim.
LEMMA SameSide ==
  ASSUME QueueInv, NEW s \in Slots, NEW l, Go(s, l), UNCHANGED cur,
         pc[s] \in AfterClaim <=> l \in AfterClaim
  PROVE  UNCHANGED Running
BY DEF QueueInv, TypeOK, Running, Go

\* A step of slot s back over the claim ends its run.
LEMMA RunEnds ==
  ASSUME QueueInv, NEW s \in Slots, pc[s] \in AfterClaim,
         FreeSlot(s) \/ (Go(s, "ack") /\ UNCHANGED cur)
  PROVE  Pool!End(s)
<1>1. Running[s] # NoTask
  BY QueueAssumption DEF QueueInv, SlotsHoldJobs, Running, AfterClaim
<1>2. Running' = [Running EXCEPT ![s] = NoTask]
  BY DEF QueueInv, TypeOK, Running, FreeSlot, Go, AfterClaim
<1> QED
  BY <1>1, <1>2 DEF Pool!End

\* Every step of a slot begins a run, ends one, or leaves the runs alone.
LEMMA SlotStepRuns ==
  ASSUME QueueInv, NEW s \in Slots, SlotStep(s)
  PROVE  Pool!End(s) \/ (\E t \in Tasks : Pool!Begin(s, t)) \/ UNCHANGED Running
<1>1. CASE Claim(s)
  <2>1. CASE Go(s, "ack")
    BY <1>1, <2>1, SameSide DEF Claim, AfterClaim
  <2>2. CASE Go(s, "create")
    <3>1. /\ cur[s] \in Tasks /\ Running[s] = NoTask
          /\ Running' = [Running EXCEPT ![s] = cur[s]]
      BY <1>1, <2>2 DEF Claim, Go, QueueInv, TypeOK, SlotsHoldJobs, Running, AfterClaim
    <3>2. \A z \in Slots : Running[z] # cur[s]
      BY <1>1, <3>1, QueueAssumption DEF Claim, QueueInv, OneRunPerTask, Running, AfterClaim
    <3> QED
      BY <3>1, <3>2 DEF Pool!Begin
  <2> QED
    BY <1>1, <2>1, <2>2 DEF Claim
<1>2. CASE ReadTask(s)
  BY <1>2, SameSide DEF ReadTask, AfterClaim
<1>3. CASE CheckLive(s)
  BY <1>3, SameSide DEF CheckLive, AfterClaim
<1>4. CASE CheckPaused(s)
  BY <1>4, SameSide DEF CheckPaused, AfterClaim
<1>5. CASE Hold(s)
  BY <1>5, SameSide DEF Hold, AfterClaim
<1>6. CASE CreateSession(s)
  BY <1>6, SameSide DEF CreateSession, AfterClaim
<1>7. CASE RollBack(s)
  BY <1>7, SameSide DEF RollBack, AfterClaim
<1>8. CASE LinkSession(s)
  BY <1>8, SameSide DEF LinkSession, AfterClaim
<1>9. CASE StartContainer(s)
  BY <1>9, SameSide DEF StartContainer, AfterClaim
<1>10. CASE SetRunning(s)
  BY <1>10, SameSide DEF SetRunning, AfterClaim
<1>11. CASE StartFailed(s)
  BY <1>11, SameSide DEF StartFailed, AfterClaim
<1>12. CASE WaitForRunning(s)
  BY <1>12, SameSide DEF WaitForRunning, AfterClaim
<1>13. CASE Launch(s)
  BY <1>13, SameSide DEF Launch, AfterClaim
<1>14. CASE AwaitDone(s)
  BY <1>14, SameSide DEF AwaitDone, AfterClaim
<1>15. CASE ReadStatus(s)
  BY <1>15, SameSide DEF ReadStatus, AfterClaim
<1>16. CASE StopOwnBox(s)
  BY <1>16, SameSide DEF StopOwnBox, AfterClaim
<1>17. CASE StopOwnMark(s)
  BY <1>17, SameSide DEF StopOwnMark, AfterClaim
<1>18. CASE Ack(s)
  <2>1. Running' = Running
    BY <1>18 DEF Ack, FreeSlot, Go, QueueInv, TypeOK, Running, AfterClaim
  <2> QED
    BY <2>1
<1>19. CASE WriteResult(s)
  BY <1>19, SameSide, RunEnds DEF WriteResult, AfterClaim
<1>20. CASE Nack(s)
  BY <1>20, SameSide, RunEnds DEF Nack, AfterClaim
<1>21. CASE GiveUp(s)
  BY <1>21, SameSide, RunEnds DEF GiveUp, AfterClaim
<1> QED
  BY <1>1, <1>2, <1>3, <1>4, <1>5, <1>6, <1>7, <1>8, <1>9, <1>10, <1>11, <1>12, <1>13, <1>14,
     <1>15, <1>16, <1>17, <1>18, <1>19, <1>20, <1>21 DEF SlotStep

\* Every step of the queue is a step of the pool, or leaves the runs alone.
LEMMA NextRuns == QueueInv /\ [Next]_vars => [Pool!Next]_Running
<1> SUFFICES ASSUME QueueInv, [Next]_vars PROVE Pool!Next \/ UNCHANGED Running
  OBVIOUS
<1>1. ASSUME UNCHANGED <<pc, cur>> PROVE UNCHANGED Running
  BY <1>1 DEF Running
<1>2. ASSUME NEW s \in Slots, SlotStep(s) PROVE Pool!Next \/ UNCHANGED Running
  BY <1>2, SlotStepRuns DEF Pool!Next
<1>3. ASSUME NEW s \in Slots, NEW t \in Tasks, Pull(s, t) PROVE UNCHANGED Running
  BY <1>3 DEF Pull, Go, QueueInv, TypeOK, Running, AfterClaim
<1>4. ASSUME NEW t \in Tasks, Retry(t) \/ Stall(t) PROVE UNCHANGED Running
  BY <1>1, <1>4 DEF Retry, Stall, slotVars
<1>5. ASSUME NEW h \in Threads, ThreadStep(h) PROVE UNCHANGED Running
  BY <1>1, <1>5, ThreadStepInv DEF SlotsUndisturbed
<1>6. CASE Watchdog
  BY <1>1, <1>6, WatchdogInv DEF SlotsUndisturbed
<1>7. CASE Environment
  <2>1. ASSUME NEW r \in Requests, RequestStart(r) PROVE UNCHANGED Running
    BY <1>1, <2>1, RequestStartInv DEF SlotsUndisturbed
  <2>2. ASSUME NEW x \in Sessions,
               \/ AgentExits(x) \/ BoxDies(x) \/ SyncContainerState(x)
               \/ \E v \in WorkerMaySet : SetWorkerStatus(x, v)
        PROVE  UNCHANGED Running
    BY <1>1, <2>2 DEF AgentExits, BoxDies, SyncContainerState, SetWorkerStatus, slotVars
  <2>3. CASE Crash
    BY <2>3 DEF Crash, Running, AfterClaim, Pool!Next, Pool!Restart
  <2> QED
    BY <1>7, <2>1, <2>2, <2>3 DEF Environment
<1>8. CASE UNCHANGED vars
  BY <1>1, <1>8 DEF vars, slotVars
<1> QED
  BY <1>2, <1>3, <1>4, <1>5, <1>6, <1>7, <1>8 DEF Next

\* The worker queue implements the pool of workers: whatever requests, sweeps,
\* retries, stalls and restarts do, runs begin one at a time, on an idle slot,
\* for a task that no slot is running, and end one at a time.
THEOREM QueueIsPool == Spec => PoolSpec
<1>1. Init => Pool!Init
  BY DEF Init, Pool!Init, Running, AfterClaim
<1> QED
  BY <1>1, NextRuns, QueueInvariant, PTL DEF Spec, PoolSpec, Pool!Spec

-----------------------------------------------------------------------------
(* One agent per task.  OneAgentPerTask rests on who may stop or start what: *)
(* a slot that starts Claude works on a task without an agent, a session is  *)
(* marked stopped, deleted or unlinked only once it is down, and one of      *)
(* which this is not true is astray from then on.                            *)

\* Claude runs, or has run, in the container of x, nobody has ended it, and
\* nothing takes it for ended.
Busy(x) == agent[x] # "none" /\ x \notin astray

\* The container of x was started and is down, or x is taken for down.  Nothing
\* brings such a session back.
Down(x) == x \in astray \/ box[x] \in {"stopped", "gone"}

\* The places of a slot from the live check to the start of Claude, and those
\* where it has a session of its own in hand.
BeforeAgent == {"pauseCheck", "hold", "claim", "create", "link", "start", "setRunning",
                "startFailed", "ready", "launch"}
Driving == {"link", "start", "setRunning", "startFailed", "ready", "launch", "await",
            "decide", "write", "stopBox", "stopMark"}

\* A session whose container is up is taken for a live worker or astray, and
\* only there Claude runs.
SessionOK(x) ==
  /\ sstat[x] = "UNUSED" => box[x] = "none"
  /\ box[x] = "running" /\ x \notin astray => sstat[x] \in {"CREATING", "RUNNING"}
  /\ Busy(x) => box[x] = "running"

\* The session of a running agent is the one its task is linked to.
LinkedToAgent ==
  \A t \in Tasks : \A x \in Sessions : Busy(x) /\ owner[x] = t /\ Exists(t) => sess[t] = x

\* A slot up to the start of Claude works on a task no agent is busy with.
SlotOK(s) ==
  /\ pc[s] = "liveCheck" => \A x \in Sessions : Busy(x) /\ owner[x] = cur[s] => x = hand[s]
  /\ pc[s] \in BeforeAgent => \A x \in Sessions : owner[x] = cur[s] => ~Busy(x)
  /\ pc[s] \in Driving =>
       hand[s] \in Sessions /\ owner[hand[s]] = cur[s] /\ sstat[hand[s]] # "UNUSED"
  /\ pc[s] \in {"link", "start"} =>
       box[hand[s]] = "none" /\ (sstat[hand[s]] = "CREATING" \/ hand[s] \in astray)
  /\ pc[s] \in {"start", "setRunning", "ready", "launch"} /\ Exists(cur[s]) =>
       sess[cur[s]] = hand[s] \/ Down(hand[s])
  /\ pc[s] \in {"startFailed", "stopMark"} => box[hand[s]] # "running" \/ hand[s] \in astray

\* A request or sweep marks only sessions as stopped that are taken for it.
ThreadOK(h) == at[h] = "stopMark" /\ item[h].sess \in Sessions => Down(item[h].sess)

AgentInv ==
  /\ \A x \in Sessions : SessionOK(x)
  /\ LinkedToAgent
  /\ \A s \in Slots : SlotOK(s)
  /\ \A h \in Threads : ThreadOK(h)
  /\ \A x, y \in Sessions : Busy(x) /\ Busy(y) /\ owner[x] = owner[y] => x = y

\* A session that is down or taken for it stays so.
StaysDown(x) == Down(x) => Down(x)'

\* What a step leaves true of session x when it starts nothing in it.
Calm(x) ==
  /\ owner'[x] = owner[x]
  /\ x \in astray => x \in astray'
  /\ Busy(x)' => Busy(x)
  /\ box'[x] = "running" => box[x] = "running"
  /\ box[x] = "none" => box'[x] = "none"
  /\ box[x] \in {"stopped", "gone"} => box'[x] \in {"stopped", "gone"}
  /\ sstat[x] # "UNUSED" => sstat'[x] # "UNUSED"
  /\ sstat[x] = "CREATING" /\ box[x] = "none" => sstat'[x] = "CREATING" \/ x \in astray'

\* A step that brings no removed task back, and takes a task only from a
\* session that is down or taken for it.
TasksCalm ==
  \A t \in Tasks : Exists(t)' =>
    /\ Exists(t)
    /\ sess'[t] = sess[t] \/ \A x \in Sessions : sess[t] = x => Down(x)'

\* What is taken for down is down, or astray.
LEMMA TakenIsDown ==
  ASSUME NEW x, TakenForDown(x)
  PROVE  /\ \A y \in Sessions : y \in astray => y \in astray'
         /\ \A y \in Sessions : y # x => (y \in astray' <=> y \in astray)
         /\ x \in Sessions => Down(x)'
BY DEF TakenForDown, Off, Down

\* A slot stays as it should while others start no agent on its task and leave
\* the session it drives alone.
LEMMA SlotKept ==
  ASSUME QueueInv, NEW s \in Slots, SlotOK(s),
         pc'[s] = pc[s], cur'[s] = cur[s], hand'[s] = hand[s],
         \A x \in Sessions : owner'[x] = cur[s] /\ Busy(x)' => owner[x] = cur[s] /\ Busy(x),
         pc[s] \in Driving => Calm(hand[s]),
         pc[s] # "idle" => (Exists(cur[s])' =>
           /\ Exists(cur[s])
           /\ sess'[cur[s]] = sess[cur[s]] \/ \A x \in Sessions : sess[cur[s]] = x => Down(x)')
  PROVE  SlotOK(s)'
<1>1. pc[s] \in BeforeAgent \cup Driving \cup {"liveCheck", "start", "setRunning", "ready", "launch"} => pc[s] # "idle"
  BY DEF BeforeAgent, Driving
<1>2. /\ pc[s] = "liveCheck" => \A x \in Sessions : Busy(x)' /\ owner'[x] = cur[s] => x = hand[s]
      /\ pc[s] \in BeforeAgent => \A x \in Sessions : owner'[x] = cur[s] => ~Busy(x)'
  BY DEF SlotOK
<1>3. pc[s] \in Driving =>
        hand[s] \in Sessions /\ owner'[hand[s]] = cur[s] /\ sstat'[hand[s]] # "UNUSED"
  BY DEF SlotOK, Calm
<1>4. pc[s] \in {"link", "start"} =>
        box'[hand[s]] = "none" /\ (sstat'[hand[s]] = "CREATING" \/ hand[s] \in astray')
  BY DEF SlotOK, Calm, Driving
<1>5. pc[s] \in {"start", "setRunning", "ready", "launch"} /\ Exists(cur[s])' =>
        sess'[cur[s]] = hand[s] \/ Down(hand[s])'
  <2>1. SUFFICES ASSUME pc[s] \in {"start", "setRunning", "ready", "launch"}, Exists(cur[s])'
                 PROVE  sess'[cur[s]] = hand[s] \/ Down(hand[s])'
    OBVIOUS
  <2>2. pc[s] \in Driving /\ hand[s] \in Sessions
    BY <1>3, <2>1 DEF Driving
  <2>3. Down(hand[s]) => Down(hand[s])'
    BY <2>2 DEF Calm, Down
  <2>4. sess[cur[s]] = hand[s] \/ Down(hand[s])
    BY <1>1, <2>1 DEF SlotOK
  <2> QED
    BY <1>1, <2>1, <2>2, <2>3, <2>4
<1>6. pc[s] \in {"startFailed", "stopMark"} => box'[hand[s]] # "running" \/ hand[s] \in astray'
  BY DEF SlotOK, Calm, Driving
<1> QED
  BY <1>2, <1>3, <1>4, <1>5, <1>6 DEF SlotOK, Busy, Exists, Down

\* The sessions stay as they should while nothing is started in them.
LEMMA SessionsKept ==
  ASSUME QueueInv, AgentInv, TasksCalm, \A x \in Sessions : Calm(x) /\ SessionOK(x)'
  PROVE  /\ LinkedToAgent'
         /\ \A x, y \in Sessions : (Busy(x) /\ Busy(y) /\ owner[x] = owner[y])' => x = y
<1>1. ASSUME NEW t \in Tasks, NEW x \in Sessions, (Busy(x) /\ owner[x] = t /\ Exists(t))'
      PROVE  sess'[t] = x
  <2>1. Busy(x) /\ owner[x] = t
    BY <1>1 DEF Calm
  <2>2. Exists(t) /\ (sess'[t] = sess[t] \/ \A y \in Sessions : sess[t] = y => Down(y)')
    BY <1>1 DEF TasksCalm
  <2>3. sess[t] = x
    BY <2>1, <2>2 DEF AgentInv, LinkedToAgent
  <2>4. ~Down(x)'
    BY <1>1 DEF Down, Busy, SessionOK
  <2> QED
    BY <2>2, <2>3, <2>4
<1>2. \A x, y \in Sessions : (Busy(x) /\ Busy(y) /\ owner[x] = owner[y])' => x = y
  BY DEF AgentInv, Calm
<1> QED
  BY <1>1, <1>2 DEF LinkedToAgent

\* A request or sweep that does not move stays as it should.
LEMMA ThreadKept ==
  ASSUME NEW h \in Threads, ThreadOK(h), at'[h] = at[h], item'[h] = item[h],
         \A x \in Sessions : StaysDown(x)
  PROVE  ThreadOK(h)'
<1>1. at[h] = "stopMark" /\ item[h].sess \in Sessions => Down(item[h].sess)'
  BY DEF ThreadOK, StaysDown
<1> QED
  BY <1>1 DEF ThreadOK, Down

\* A step of slot s that touches no session and no container.
LEMMA PlainSlotStep ==
  ASSUME QueueInv, AgentInv, NEW s \in Slots,
         UNCHANGED <<sess, sstat, owner, astray, dockerVars, threadVars>>,
         \A t \in Tasks : Exists(t)' => Exists(t),
         \A z \in Slots \ {s} : pc'[z] = pc[z] /\ cur'[z] = cur[z] /\ hand'[z] = hand[z],
         SlotOK(s)'
  PROVE  AgentInv'
<1> USE DEF dockerVars, threadVars
<1>1. TasksCalm
  BY DEF TasksCalm
<1>2. \A x \in Sessions : Calm(x) /\ SessionOK(x)' /\ StaysDown(x)
  BY DEF AgentInv, Calm, SessionOK, Busy, StaysDown, Down
<1>3. ASSUME NEW z \in Slots \ {s} PROVE SlotOK(z)'
  <2>1. SlotOK(z) /\ (pc[z] \in Driving => Calm(hand[z]))
    BY <1>2 DEF AgentInv, SlotOK
  <2>2. pc[z] # "idle" => (Exists(cur[z])' =>
           /\ Exists(cur[z])
           /\ sess'[cur[z]] = sess[cur[z]] \/ \A x \in Sessions : sess[cur[z]] = x => Down(x)')
    BY <1>1, <1>3 DEF QueueInv, SlotsHoldJobs, TasksCalm
  <2>3. \A x \in Sessions : owner'[x] = cur[z] /\ Busy(x)' => owner[x] = cur[z] /\ Busy(x)
    BY DEF Busy
  <2> QED
    BY <1>3, <2>1, <2>2, <2>3, SlotKept
<1>4. ASSUME NEW h \in Threads PROVE ThreadOK(h)'
  BY <1>2, ThreadKept DEF AgentInv
<1> QED
  BY <1>1, <1>2, <1>3, <1>4, SessionsKept DEF AgentInv

\* Two slots never drive one session.
LEMMA OneDriver ==
  ASSUME QueueInv, AgentInv, NEW s \in Slots, NEW z \in Slots,
         pc[s] \in Driving, pc[z] \in Driving, hand[s] = hand[z]
  PROVE  s = z
<1>1. pc[s] # "idle" /\ pc[z] # "idle"
  BY DEF Driving
<1>2. cur[s] = cur[z]
  BY DEF AgentInv, SlotOK
<1> QED
  BY <1>1, <1>2 DEF QueueInv, OneRunPerTask

\* A step of slot s on session x, which no other slot drives and no request or
\* sweep stops: what it must establish for the rest to stay as it should.
LEMMA SlotStepOn ==
  ASSUME QueueInv, AgentInv, NEW s \in Slots, NEW x \in Sessions, TasksCalm, UNCHANGED threadVars,
         \A y \in Sessions \ {x} :
           /\ sstat'[y] = sstat[y] /\ owner'[y] = owner[y] /\ box'[y] = box[y] /\ agent'[y] = agent[y]
           /\ y \in astray' <=> y \in astray,
         \A z \in Slots \ {s} : pc'[z] = pc[z] /\ cur'[z] = cur[z] /\ hand'[z] = hand[z],
         \A z \in Slots \ {s} : pc[z] \in Driving => hand[z] # x,
         \A z \in Slots \ {s} : pc[z] # "idle" /\ owner'[x] = cur[z] /\ Busy(x)' =>
           owner[x] = cur[z] /\ Busy(x),
         SessionOK(x)', StaysDown(x), SlotOK(s)', LinkedToAgent',
         \A y \in Sessions \ {x} : Busy(x)' /\ Busy(y) => owner'[x] # owner[y]
  PROVE  AgentInv'
<1>1. \A y \in Sessions : SessionOK(y)' /\ StaysDown(y)
  BY DEF AgentInv, SessionOK, Busy, StaysDown, Down
<1>2. ASSUME NEW z \in Slots \ {s} PROVE SlotOK(z)'
  <2>1. SlotOK(z) /\ (pc[z] \in Driving => hand[z] \in Sessions \ {x})
    BY DEF AgentInv, SlotOK
  <2>2. pc[z] # "idle" => cur[z] \in Tasks
    BY DEF QueueInv, SlotsHoldJobs
  <2>3. CASE pc[z] = "idle"
    BY <1>2, <2>3 DEF SlotOK, BeforeAgent, Driving
  <2>4. CASE pc[z] # "idle"
    <3>1. \A y \in Sessions : owner'[y] = cur[z] /\ Busy(y)' => owner[y] = cur[z] /\ Busy(y)
      BY <2>4 DEF Busy
    <3>2. pc[z] \in Driving => Calm(hand[z])
      BY <2>1 DEF Calm, Busy
    <3> QED
      BY <1>2, <2>1, <2>2, <3>1, <3>2, SlotKept DEF TasksCalm
  <2> QED
    BY <2>3, <2>4
<1>3. ASSUME NEW h \in Threads PROVE ThreadOK(h)'
  BY <1>1, ThreadKept DEF AgentInv, threadVars
<1>4. \A y, w \in Sessions : (Busy(y) /\ Busy(w) /\ owner[y] = owner[w])' => y = w
  <2> SUFFICES ASSUME NEW y \in Sessions, NEW w \in Sessions, (Busy(y) /\ Busy(w) /\ owner[y] = owner[w])'
               PROVE  y = w
    OBVIOUS
  <2>1. CASE y = x /\ w # x
    BY <2>1 DEF Busy
  <2>2. CASE y # x /\ w = x
    BY <2>2 DEF Busy
  <2>3. CASE y # x /\ w # x
    BY <2>3 DEF AgentInv, Busy
  <2> QED
    BY <2>1, <2>2, <2>3
<1> QED
  BY <1>1, <1>2, <1>3, <1>4 DEF AgentInv

\* A step of slot s on the session x it drives that starts nothing in it.
LEMMA SlotStepOnOwn ==
  ASSUME QueueInv, AgentInv, NEW s \in Slots, NEW x \in Sessions, x = hand[s], pc[s] \in Driving,
         UNCHANGED <<status, sess, owner, threadVars>>,
         \A y \in Sessions \ {x} :
           /\ sstat'[y] = sstat[y] /\ box'[y] = box[y] /\ agent'[y] = agent[y]
           /\ y \in astray' <=> y \in astray,
         \A z \in Slots \ {s} : pc'[z] = pc[z] /\ cur'[z] = cur[z] /\ hand'[z] = hand[z],
         Busy(x)' => Busy(x), SessionOK(x)', StaysDown(x), SlotOK(s)'
  PROVE  AgentInv'
<1>1. \A z \in Slots \ {s} : pc[z] \in Driving => hand[z] # x
  BY OneDriver
<1>2. \A y \in Sessions : Busy(y)' => Busy(y)
  BY DEF Busy
<1>3. LinkedToAgent' /\ TasksCalm
  BY <1>2 DEF AgentInv, LinkedToAgent, TasksCalm, Exists
<1>4. \A y \in Sessions \ {x} : Busy(x)' /\ Busy(y) => owner'[x] # owner[y]
  BY DEF AgentInv
<1> QED
  BY <1>1, <1>2, <1>3, <1>4, SlotStepOn

\* A slot that goes where nothing is promised of it keeps its promises.
LEMMA SlotOKElsewhere ==
  ASSUME QueueInv, NEW s \in Slots, NEW l, Go(s, l),
         l \notin BeforeAgent \cup Driving \cup {"liveCheck"}
  PROVE  SlotOK(s)'
<1>1. pc'[s] = l
  BY DEF QueueInv, TypeOK, Go
<1>2. pc'[s] \notin {"link", "start", "setRunning", "ready", "launch", "startFailed", "stopMark"}
  BY <1>1 DEF BeforeAgent, Driving
<1> QED
  BY <1>1, <1>2 DEF SlotOK

\* The steps of executeTask before the session is created, and those after
\* Claude has been started up to the acknowledgement.
LEMMA PlainSteps ==
  ASSUME QueueInv, AgentInv, NEW s \in Slots,
         \/ ReadTask(s) \/ CheckLive(s) \/ CheckPaused(s) \/ Hold(s) \/ Claim(s) \/ RollBack(s)
         \/ WaitForRunning(s) \/ AwaitDone(s) \/ ReadStatus(s) \/ WriteResult(s)
         \/ Ack(s) \/ Nack(s) \/ GiveUp(s)
  PROVE  AgentInv'
<1>0. SlotOK(s)
  BY DEF AgentInv
<1> USE DEF QueueInv, TypeOK, taskVars, sessVars, dockerVars, threadVars
<1>1. /\ UNCHANGED <<sess, sstat, owner, astray, dockerVars, threadVars>>
      /\ \A z \in Slots \ {s} : pc'[z] = pc[z] /\ cur'[z] = cur[z] /\ hand'[z] = hand[z]
  BY DEF ReadTask, CheckLive, CheckPaused, Hold, Claim, RollBack, WaitForRunning, AwaitDone,
         ReadStatus, WriteResult, Ack, Nack, GiveUp, FreeSlot, Go
<1>2. \A t \in Tasks : Exists(t)' => Exists(t)
  BY DEF ReadTask, CheckLive, CheckPaused, Hold, Claim, RollBack, WaitForRunning, AwaitDone,
         ReadStatus, WriteResult, Ack, Nack, GiveUp, SetStatus, Exists, Claimable
<1>3. ASSUME cur'[s] = cur[s], hand'[s] = hand[s], NEW l, Go(s, l), l \in Driving \ {"link", "start"},
             pc[s] \in Driving, l \notin {"startFailed", "stopMark"}, l \in BeforeAgent => pc[s] \in BeforeAgent,
             l \in {"setRunning", "ready", "launch"} => pc[s] \in {"start", "setRunning", "ready", "launch"}
      PROVE  SlotOK(s)'
  <2>1. pc'[s] = l
    BY <1>3 DEF Go
  <2>2. l \in {"setRunning", "ready", "launch"} /\ Exists(cur[s])' => sess[cur[s]] = hand[s] \/ Down(hand[s])
    <3>1. pc[s] # "idle"
      BY <1>3 DEF Driving
    <3> QED
      BY <3>1, <1>0, <1>2, <1>3 DEF SlotOK, SlotsHoldJobs
  <2> QED
    BY <1>0, <1>1, <1>3, <2>1, <2>2 DEF SlotOK, Driving, Busy, Exists, Down
<1>4. ASSUME cur'[s] = cur[s], NEW l, Go(s, l), l \in {"pauseCheck", "hold", "claim", "create"},
             \A x \in Sessions : owner[x] = cur[s] => ~Busy(x)
      PROVE  SlotOK(s)'
  <2>1. pc'[s] = l
    BY <1>4 DEF Go
  <2> QED
    BY <1>1, <1>4, <2>1 DEF SlotOK, Driving, Busy
<1>5. CASE ReadTask(s)
  <2> SUFFICES SlotOK(s)'
    BY <1>1, <1>2, PlainSlotStep
  <2>1. CASE Go(s, "ack")
    BY <2>1, SlotOKElsewhere DEF BeforeAgent, Driving
  <2>2. CASE status[cur[s]] \in Claimable /\ Go(s, IF sess[cur[s]] = NoSession THEN "pauseCheck" ELSE "liveCheck")
    <3>1. cur[s] \in Tasks /\ cur'[s] = cur[s] /\ hand'[s] = sess[cur[s]] /\ Exists(cur[s])
      BY <1>5, <2>2 DEF ReadTask, SlotsHoldJobs, Claimable, Exists
    <3>2. \A x \in Sessions : Busy(x) /\ owner[x] = cur[s] => x = sess[cur[s]]
      BY <3>1 DEF AgentInv, LinkedToAgent
    <3>3. CASE sess[cur[s]] = NoSession
      BY <1>4, <2>2, <3>1, <3>2, <3>3, QueueAssumption
    <3>4. CASE sess[cur[s]] # NoSession
      <4>1. pc'[s] = "liveCheck"
        BY <2>2, <3>4 DEF Go
      <4> QED
        BY <1>1, <3>1, <3>2, <4>1 DEF SlotOK, BeforeAgent, Driving, Busy
    <3> QED
      BY <3>3, <3>4
  <2> QED
    BY <1>5, <2>1, <2>2 DEF ReadTask
<1>6. CASE CheckLive(s)
  <2>1. CASE Live(hand[s])
    BY <1>1, <1>2, <1>6, <2>1, SlotOKElsewhere, PlainSlotStep DEF CheckLive, BeforeAgent, Driving
  <2>2. CASE ~Live(hand[s])
    <3>1. \A x \in Sessions : owner[x] = cur[s] => ~Busy(x)
      <4> SUFFICES ASSUME NEW x \in Sessions, owner[x] = cur[s], Busy(x) PROVE FALSE
        OBVIOUS
      <4>1. x = hand[s] /\ x # NoSession
        BY <1>0, <1>6, QueueAssumption DEF CheckLive, SlotOK
      <4>2. SessionOK(x)
        BY DEF AgentInv
      <4>3. sstat[x] \in {"CREATING", "RUNNING"}
        BY <4>2 DEF SessionOK, Busy
      <4> QED
        BY <2>2, <4>1, <4>3 DEF Live
    <3> QED
      BY <1>1, <1>2, <1>4, <1>6, <2>2, <3>1, PlainSlotStep DEF CheckLive
  <2> QED
    BY <2>1, <2>2
<1>7. CASE CheckPaused(s)
  BY <1>0, <1>1, <1>2, <1>4, <1>7, PlainSlotStep DEF CheckPaused, SlotOK, BeforeAgent
<1>8. CASE Hold(s)
  BY <1>1, <1>2, <1>8, SlotOKElsewhere, PlainSlotStep DEF Hold, BeforeAgent, Driving
<1>9. CASE Claim(s)
  <2>1. CASE Go(s, "ack")
    BY <1>1, <1>2, <2>1, SlotOKElsewhere, PlainSlotStep DEF BeforeAgent, Driving
  <2>2. CASE Go(s, "create")
    BY <1>0, <1>1, <1>2, <1>4, <1>9, <2>2, PlainSlotStep DEF Claim, SlotOK, BeforeAgent
  <2> QED
    BY <1>9, <2>1, <2>2 DEF Claim
<1>10. CASE RollBack(s)
  BY <1>1, <1>2, <1>10, SlotOKElsewhere, PlainSlotStep DEF RollBack, BeforeAgent, Driving
<1>11. CASE WaitForRunning(s)
  BY <1>1, <1>2, <1>3, <1>11, PlainSlotStep DEF WaitForRunning, BeforeAgent, Driving
<1>12. CASE AwaitDone(s)
  BY <1>1, <1>2, <1>3, <1>12, PlainSlotStep DEF AwaitDone, BeforeAgent, Driving
<1>13. CASE ReadStatus(s)
  BY <1>1, <1>2, <1>3, <1>13, PlainSlotStep DEF ReadStatus, BeforeAgent, Driving
<1>14. CASE WriteResult(s)
  <2>1. CASE Go(s, "ack")
    BY <1>1, <1>2, <2>1, SlotOKElsewhere, PlainSlotStep DEF BeforeAgent, Driving
  <2>2. CASE Go(s, "stopBox")
    BY <1>1, <1>2, <1>3, <1>14, <2>2, PlainSlotStep DEF WriteResult, BeforeAgent, Driving
  <2> QED
    BY <1>14, <2>1, <2>2 DEF WriteResult
<1>15. ASSUME FreeSlot(s) PROVE SlotOK(s)'
  BY <1>15, SlotOKElsewhere DEF FreeSlot, BeforeAgent, Driving
<1>16. CASE Ack(s)
  BY <1>1, <1>2, <1>15, <1>16, PlainSlotStep DEF Ack
<1>17. CASE Nack(s)
  <2>1. CASE FreeSlot(s)
    BY <1>1, <1>2, <1>15, <2>1, PlainSlotStep
  <2>2. CASE Go(s, "giveUp")
    BY <1>1, <1>2, <2>2, SlotOKElsewhere, PlainSlotStep DEF BeforeAgent, Driving
  <2> QED
    BY <1>17, <2>1, <2>2 DEF Nack
<1>18. CASE GiveUp(s)
  BY <1>1, <1>2, <1>15, <1>18, PlainSlotStep DEF GiveUp
<1> QED
  BY <1>5, <1>6, <1>7, <1>8, <1>9, <1>10, <1>11, <1>12, <1>13, <1>14, <1>16, <1>17, <1>18

\* A new session is of no other slot, and no agent runs in it yet.
LEMMA CreateAgents ==
  ASSUME QueueInv, AgentInv, NEW s \in Slots, CreateSession(s)
  PROVE  AgentInv'
<1>0. SlotOK(s) /\ cur[s] \in Tasks
  BY DEF CreateSession, AgentInv, QueueInv, SlotsHoldJobs
<1>1. CASE Go(s, "rollback") /\ UNCHANGED <<sstat, owner, hand>>
  <2>1. SlotOK(s)'
    BY <1>1, SlotOKElsewhere DEF BeforeAgent, Driving
  <2> QED
    BY <1>1, <2>1, PlainSlotStep
    DEF CreateSession, QueueInv, TypeOK, Go, taskVars, dockerVars, Exists
<1>2. ASSUME NEW x \in Sessions, sstat[x] = "UNUSED", SetSession(x, "CREATING"),
             owner' = [owner EXCEPT ![x] = cur[s]], hand' = [hand EXCEPT ![s] = x], Go(s, "link"),
             UNCHANGED <<taskVars, astray, dockerVars, cur, threadVars>>
      PROVE  AgentInv'
  <2> USE DEF QueueInv, TypeOK, taskVars, dockerVars
  <2>1. box[x] = "none" /\ ~Busy(x)
    BY <1>2 DEF AgentInv, SessionOK
  <2>2. /\ sstat'[x] = "CREATING" /\ owner'[x] = cur[s] /\ hand'[s] = x /\ cur'[s] = cur[s] /\ pc'[s] = "link"
        /\ \A y \in Sessions \ {x} : sstat'[y] = sstat[y] /\ owner'[y] = owner[y]
        /\ \A z \in Slots \ {s} : pc'[z] = pc[z] /\ cur'[z] = cur[z] /\ hand'[z] = hand[z]
    BY <1>2 DEF SetSession, Go
  <2>3. \A z \in Slots : pc[z] \in Driving => hand[z] # x
    BY <1>2 DEF AgentInv, SlotOK
  <2>4. SessionOK(x)' /\ StaysDown(x)
    BY <1>2, <2>1, <2>2 DEF SessionOK, StaysDown, Down, Busy
  <2>5. SlotOK(s)'
    <3>1. \A y \in Sessions : owner'[y] = cur[s] => ~Busy(y)'
      BY <1>0, <1>2, <2>1, <2>2 DEF CreateSession, SlotOK, BeforeAgent, Busy
    <3> QED
      BY <1>2, <2>1, <2>2, <3>1 DEF SlotOK, Driving
  <2>6. TasksCalm
    BY <1>2 DEF TasksCalm, Exists
  <2>7. LinkedToAgent'
    BY <1>2, <2>1, <2>2 DEF AgentInv, LinkedToAgent, Busy, Exists
  <2> QED
    BY <1>2, <2>1, <2>2, <2>3, <2>4, <2>5, <2>6, <2>7, SlotStepOn DEF Busy
<1> QED
  BY <1>1, <1>2 DEF CreateSession

\* The link: the task has no agent, so its new session may become its worker.
LEMMA LinkAgents ==
  ASSUME QueueInv, AgentInv, NEW s \in Slots, LinkSession(s)
  PROVE  AgentInv'
<1>0. SlotOK(s) /\ cur[s] \in Tasks /\ pc[s] = "link" /\ hand[s] \in Sessions
  BY DEF LinkSession, AgentInv, QueueInv, SlotsHoldJobs, SlotOK, Driving
<1> USE DEF QueueInv, TypeOK, taskVars, sessVars, dockerVars
<1>1. CASE Go(s, "nack") /\ UNCHANGED sess
  <2>1. SlotOK(s)'
    BY <1>1, SlotOKElsewhere DEF BeforeAgent, Driving
  <2> QED
    BY <1>1, <2>1, PlainSlotStep DEF LinkSession, Go, Exists
<1>2. CASE Go(s, "start") /\ sess' = [sess EXCEPT ![cur[s]] = hand[s]]
  <2>1. /\ pc'[s] = "start" /\ sess'[cur[s]] = hand[s]
        /\ \A t \in Tasks \ {cur[s]} : sess'[t] = sess[t]
        /\ \A z \in Slots \ {s} : pc'[z] = pc[z]
    BY <1>0, <1>2 DEF Go
  <2>2. UNCHANGED <<status, sstat, owner, astray, box, agent, cur, hand, threadVars>>
    BY DEF LinkSession
  <2>3. \A x \in Sessions : Calm(x) /\ SessionOK(x)' /\ StaysDown(x)
    BY <2>2 DEF AgentInv, Calm, SessionOK, Busy, Down, StaysDown
  <2>4. ASSUME NEW z \in Slots PROVE SlotOK(z)'
    <3>1. CASE z = s
      BY <1>0, <2>1, <2>2, <3>1 DEF SlotOK, BeforeAgent, Driving, Busy
    <3>2. CASE z # s
      <4>1. SlotOK(z) /\ (pc[z] # "idle" => cur[z] \in Tasks \ {cur[s]})
        BY <1>0, <3>2 DEF AgentInv, SlotsHoldJobs, OneRunPerTask
      <4>2. pc[z] # "idle" => (Exists(cur[z])' => Exists(cur[z]) /\ sess'[cur[z]] = sess[cur[z]])
        BY <2>1, <2>2, <4>1 DEF Exists
      <4>3. pc[z] \in Driving => Calm(hand[z])
        BY <2>3, <4>1 DEF SlotOK
      <4>4. pc'[z] = pc[z] /\ cur'[z] = cur[z] /\ hand'[z] = hand[z]
        BY <2>1, <2>2, <3>2
      <4>5. \A x \in Sessions : owner'[x] = cur[z] /\ Busy(x)' => owner[x] = cur[z] /\ Busy(x)
        BY <2>2 DEF Busy
      <4> QED
        BY <4>1, <4>2, <4>3, <4>4, <4>5, SlotKept
    <3> QED
      BY <3>1, <3>2
  <2>5. ASSUME NEW h \in Threads PROVE ThreadOK(h)'
    BY <2>2, <2>3, ThreadKept DEF AgentInv, threadVars
  <2>6. LinkedToAgent'
    <3>1. \A x \in Sessions : owner[x] = cur[s] => ~Busy(x)
      BY <1>0 DEF SlotOK, BeforeAgent
    <3> QED
      BY <2>1, <2>2, <3>1 DEF AgentInv, LinkedToAgent, Busy, Exists
  <2>7. \A x, y \in Sessions : (Busy(x) /\ Busy(y) /\ owner[x] = owner[y])' => x = y
    BY <2>2 DEF AgentInv, Busy
  <2> QED
    BY <2>3, <2>4, <2>5, <2>6, <2>7 DEF AgentInv
<1>3. CASE Go(s, "nack") /\ sess' = [sess EXCEPT ![cur[s]] = @]
  BY <1>1, <1>3
<1> QED
  BY <1>1, <1>2, <1>3 DEF LinkSession

\* The container starts: only the slot that created the session starts it.
LEMMA StartAgents ==
  ASSUME QueueInv, AgentInv, NEW s \in Slots, StartContainer(s)
  PROVE  AgentInv'
<1>0. SlotOK(s) /\ pc[s] = "start" /\ hand[s] \in Sessions /\ pc[s] \in Driving
  BY DEF StartContainer, AgentInv, SlotOK, Driving
<1> SUFFICES ASSUME NEW x \in Sessions, x = hand[s] PROVE AgentInv'
  BY <1>0
<1> USE DEF QueueInv, TypeOK, taskVars, sessVars, dockerVars
<1>1. UNCHANGED <<status, sess, sstat, owner, astray, agent, cur, hand, threadVars>>
  BY DEF StartContainer
<1>2. TasksCalm /\ \A z \in Slots \ {s} : pc'[z] = pc[z]
  BY DEF StartContainer, TasksCalm, Exists, Go
<1>3. CASE Go(s, "startFailed") /\ UNCHANGED box
  <2>1. SlotOK(s)'
    BY <1>0, <1>1, <1>3 DEF Go, SlotOK, BeforeAgent, Driving, Busy
  <2> QED
    BY <1>1, <1>2, <1>3, <2>1, PlainSlotStep DEF Exists
<1>4. CASE Go(s, "setRunning") /\ box' = [box EXCEPT ![hand[s]] = "running"]
  <2>1. pc'[s] = "setRunning" /\ box'[x] = "running" /\ \A y \in Sessions \ {x} : box'[y] = box[y]
    BY <1>0, <1>4 DEF Go
  <2>2. box[x] = "none" /\ (sstat[x] = "CREATING" \/ x \in astray) /\ ~Busy(x) /\ owner[x] = cur[s]
    BY <1>0 DEF SlotOK, BeforeAgent, Driving
  <2>3. StaysDown(x)
    BY <1>1, <2>2 DEF StaysDown, Down
  <2>4. SlotOK(s)'
    <3>1. Exists(cur[s])' => sess[cur[s]] = x \/ Down(x)'
      BY <1>0, <1>1, <2>3 DEF SlotOK, StaysDown, Exists
    <3>2. \A y \in Sessions : owner'[y] = cur[s] => ~Busy(y)'
      BY <1>0, <1>1 DEF SlotOK, BeforeAgent, Busy
    <3>3. owner'[x] = cur[s] /\ sstat'[x] # "UNUSED"
      BY <1>0, <1>1 DEF SlotOK
    <3> QED
      BY <1>1, <2>1, <3>1, <3>2, <3>3 DEF SlotOK, Exists, Down, Busy
  <2>5. SessionOK(x)' /\ LinkedToAgent'
    BY <1>0, <1>1, <2>1, <2>2 DEF AgentInv, SessionOK, LinkedToAgent, Busy, Exists, SlotOK, Driving
  <2>6. \A z \in Slots \ {s} : pc[z] \in Driving => hand[z] # x
    BY <1>0, OneDriver
  <2> QED
    BY <1>0, <1>1, <1>2, <2>1, <2>2, <2>3, <2>4, <2>5, <2>6, SlotStepOn DEF Busy
<1> QED
  BY <1>3, <1>4 DEF StartContainer

\* The steps that write the status of the session in hand, or stop its container.
LEMMA OwnSessionSteps ==
  ASSUME QueueInv, AgentInv, NEW s \in Slots,
         SetRunning(s) \/ StartFailed(s) \/ StopOwnBox(s) \/ StopOwnMark(s)
  PROVE  AgentInv'
<1>0. SlotOK(s) /\ hand[s] \in Sessions /\ pc[s] \in Driving
  BY DEF SetRunning, StartFailed, StopOwnBox, StopOwnMark, AgentInv, SlotOK, Driving
<1> SUFFICES ASSUME NEW x \in Sessions, x = hand[s] PROVE AgentInv'
  BY <1>0
<1> USE DEF QueueInv, TypeOK, taskVars, sessVars, dockerVars
<1>1. UNCHANGED <<status, sess, owner, cur, hand, threadVars>> /\ \A z \in Slots \ {s} : pc'[z] = pc[z]
  BY DEF SetRunning, StartFailed, StopOwnBox, StopOwnMark, StopContainer, Go
<1>2. SessionOK(x) /\ sstat[x] # "UNUSED" /\ owner[x] = cur[s]
  BY <1>0 DEF AgentInv, SlotOK
<1>3. ASSUME UNCHANGED <<astray, dockerVars>>, NEW v, v # "UNUSED",
             sstat' = [sstat EXCEPT ![x] = v] \/ UNCHANGED sstat,
             box[x] = "running" /\ x \notin astray => sstat'[x] \in {"CREATING", "RUNNING"}, SlotOK(s)'
      PROVE  AgentInv'
  <2>1. SessionOK(x)' /\ StaysDown(x) /\ (Busy(x)' => Busy(x))
    BY <1>2, <1>3 DEF SessionOK, StaysDown, Down, Busy
  <2>2. \A y \in Sessions \ {x} : sstat'[y] = sstat[y]
    BY <1>3
  <2> QED
    BY <1>0, <1>1, <1>3, <2>1, <2>2, SlotStepOnOwn
<1>4. ASSUME Go(s, "nack") PROVE SlotOK(s)'
  BY <1>4, SlotOKElsewhere DEF BeforeAgent, Driving
<1>5. CASE SetRunning(s)
  <2>1. CASE HasRow(x)
    <3>1. pc'[s] = "ready" /\ sstat' = [sstat EXCEPT ![x] = "RUNNING"] /\ UNCHANGED <<astray, dockerVars>>
      BY <1>0, <1>5, <2>1 DEF SetRunning, SetSession, Go
    <3>2. SlotOK(s)'
      <4>1. Exists(cur[s])' => sess[cur[s]] = x \/ Down(x)
        BY <1>0, <1>1, <1>5 DEF SetRunning, SlotOK, Exists
      <4>2. \A y \in Sessions : owner'[y] = cur[s] => ~Busy(y)'
        BY <1>0, <1>1, <1>5, <3>1 DEF SetRunning, SlotOK, BeforeAgent, Busy
      <4> QED
        BY <1>1, <1>2, <3>1, <4>1, <4>2 DEF SlotOK, Exists, Down, Busy
    <3> QED
      BY <1>3, <3>1, <3>2
  <2>2. CASE ~HasRow(x)
    <3>1. pc'[s] = "startFailed" /\ UNCHANGED <<sstat, astray, dockerVars>>
      BY <1>0, <1>5, <2>2 DEF SetRunning, Go
    <3>2. box[x] # "running" \/ x \in astray
      BY <1>0, <1>2, <2>2, QueueAssumption DEF SessionOK, HasRow
    <3>3. \A y \in Sessions : owner'[y] = cur[s] => ~Busy(y)'
      BY <1>0, <1>1, <1>5, <3>1 DEF SetRunning, SlotOK, BeforeAgent, Busy
    <3>4. SlotOK(s)'
      BY <1>1, <1>2, <3>1, <3>2, <3>3 DEF SlotOK, Busy
    <3> QED
      BY <1>3, <3>1, <3>2, <3>4
  <2> QED
    BY <2>1, <2>2
<1>6. CASE StartFailed(s)
  <2>1. pc'[s] = "nack" /\ Go(s, "nack") /\ UNCHANGED <<astray, dockerVars>>
        /\ (sstat' = [sstat EXCEPT ![x] = "FAILED"] \/ UNCHANGED sstat)
    BY <1>0, <1>6 DEF StartFailed, SetSession, Go
  <2>2. box[x] # "running" \/ x \in astray
    BY <1>0, <1>6 DEF StartFailed, SlotOK
  <2> QED
    BY <1>3, <1>4, <2>1, <2>2
<1>7. CASE StopOwnMark(s)
  <2>1. pc'[s] = "nack" /\ Go(s, "nack") /\ UNCHANGED <<astray, dockerVars>>
        /\ (sstat' = [sstat EXCEPT ![x] = "COMPLETED"] \/ UNCHANGED sstat)
    BY <1>0, <1>7 DEF StopOwnMark, SetSession, Go
  <2>2. box[x] # "running" \/ x \in astray
    BY <1>0, <1>7 DEF StopOwnMark, SlotOK
  <2> QED
    BY <1>3, <1>4, <2>1, <2>2
<1>8. CASE StopOwnBox(s)
  <2>1. CASE Go(s, "nack") /\ UNCHANGED <<sessVars, dockerVars>>
    BY <1>1, <1>4, <2>1, PlainSlotStep DEF Exists
  <2>2. CASE StopContainer(x) /\ Go(s, "stopMark")
    <3>1. /\ UNCHANGED sstat /\ pc'[s] = "stopMark" /\ TakenForDown(x)
          /\ BoxStops(x) \/ UNCHANGED dockerVars
      BY <2>2 DEF StopContainer, Go
    <3>2. /\ \A y \in Sessions \ {x} : box'[y] = box[y] /\ agent'[y] = agent[y] /\ (y \in astray' <=> y \in astray)
          /\ x \in astray => x \in astray'
          /\ Down(x)'
      BY <3>1, TakenIsDown DEF BoxStops
    <3>3. agent'[x] # "none" => agent[x] # "none" /\ box'[x] = box[x]
      BY <3>1 DEF BoxStops
    <3>4. box'[x] = "running" => box[x] = "running"
      BY <3>1 DEF BoxStops
    <3>5. box[x] = "none" => box'[x] = "none"
      BY <3>1 DEF BoxStops
    <3>6. SessionOK(x)' /\ StaysDown(x) /\ (Busy(x)' => Busy(x))
      BY <1>2, <3>1, <3>2, <3>3, <3>4, <3>5 DEF SessionOK, StaysDown, Down, Busy
    <3>7. SlotOK(s)'
      BY <1>1, <1>2, <3>1, <3>2 DEF SlotOK, BeforeAgent, Driving, Down
    <3> QED
      BY <1>0, <1>1, <3>1, <3>2, <3>6, <3>7, SlotStepOnOwn
  <2> QED
    BY <1>8, <2>1, <2>2 DEF StopOwnBox
<1> QED
  BY <1>5, <1>6, <1>7, <1>8

\* The start of Claude: no other agent is busy with the task, and the session
\* is the one the task is linked to.
LEMMA LaunchAgents ==
  ASSUME QueueInv, AgentInv, NEW s \in Slots, Launch(s)
  PROVE  AgentInv'
<1>0. SlotOK(s) /\ hand[s] \in Sessions /\ pc[s] = "launch" /\ cur[s] \in Tasks /\ pc[s] \in Driving
  BY DEF Launch, AgentInv, SlotOK, Driving, QueueInv, SlotsHoldJobs
<1> SUFFICES ASSUME NEW x \in Sessions, x = hand[s] PROVE AgentInv'
  BY <1>0
<1> USE DEF QueueInv, TypeOK, taskVars, sessVars, dockerVars
<1>1. UNCHANGED <<status, sess, sstat, owner, astray, box, cur, hand, threadVars>> /\ TasksCalm
  BY DEF Launch, TasksCalm, Exists
<1>2. \A z \in Slots \ {s} : pc'[z] = pc[z]
  BY DEF Launch, Go
<1>3. CASE Go(s, "stopBox") /\ UNCHANGED agent
  <2>1. SlotOK(s)'
    BY <1>0, <1>1, <1>3 DEF Go, SlotOK, BeforeAgent, Driving
  <2> QED
    BY <1>1, <1>2, <1>3, <2>1, PlainSlotStep DEF Exists
<1>4. CASE box[x] = "running" /\ agent' = [agent EXCEPT ![x] = "working"] /\ Go(s, "await")
  <2>1. pc'[s] = "await" /\ \A y \in Sessions \ {x} : agent'[y] = agent[y]
    BY <1>0, <1>4 DEF Go
  <2>2. owner[x] = cur[s] /\ \A y \in Sessions : owner[y] = cur[s] => ~Busy(y)
    BY <1>0 DEF SlotOK, BeforeAgent, Driving
  <2>3. SlotOK(s)'
    BY <1>0, <1>1, <2>1 DEF SlotOK, BeforeAgent, Driving
  <2>4. SessionOK(x)' /\ StaysDown(x)
    BY <1>1, <1>4 DEF AgentInv, SessionOK, StaysDown, Down, Busy
  <2>5. LinkedToAgent'
    <3>1. Exists(cur[s]) => sess[cur[s]] = x \/ x \in astray
      BY <1>0, <1>4 DEF SlotOK, Down
    <3> QED
      BY <1>1, <2>1, <2>2, <3>1 DEF AgentInv, LinkedToAgent, Busy, Exists
  <2>6. \A z \in Slots \ {s} : (pc[z] \in Driving => hand[z] # x) /\ (pc[z] # "idle" => owner[x] # cur[z])
    <3>1. pc[s] # "idle"
      BY <1>0
    <3> QED
      BY <1>0, <2>2, <3>1, OneDriver DEF OneRunPerTask
  <2>7. \A y \in Sessions \ {x} : Busy(x)' /\ Busy(y) => owner'[x] # owner[y]
    BY <1>1, <2>2
  <2> QED
    BY <1>1, <1>2, <2>1, <2>3, <2>4, <2>5, <2>6, <2>7, SlotStepOn
<1> QED
  BY <1>3, <1>4 DEF Launch

\* A step that moves no slot and starts nothing in any session.
LEMMA SlotsStand ==
  ASSUME QueueInv, AgentInv, UNCHANGED <<pc, cur, hand>>, TasksCalm,
         \A x \in Sessions : Calm(x) /\ SessionOK(x)'
  PROVE  (\A h \in Threads : ThreadOK(h)') => AgentInv'
<1>1. ASSUME NEW s \in Slots PROVE SlotOK(s)'
  <2>1. SlotOK(s) /\ (pc[s] \in Driving => hand[s] \in Sessions) /\ (pc[s] # "idle" => cur[s] \in Tasks)
    BY DEF AgentInv, SlotOK, QueueInv, SlotsHoldJobs
  <2>2. \A x \in Sessions : owner'[x] = cur[s] /\ Busy(x)' => owner[x] = cur[s] /\ Busy(x)
    BY DEF Calm
  <2> QED
    BY <2>1, <2>2, SlotKept DEF TasksCalm
<1> QED
  BY <1>1, SessionsKept DEF AgentInv

\* A request or sweep h moves on with row i: no other one moves, and it may go
\* to mark a session as stopped once that session is down or taken for it.
LEMMA ThreadMoves ==
  ASSUME QueueInv, AgentInv, NEW h \in Threads, NEW l, NEW i, JumpWith(h, l, i),
         UNCHANGED slotVars, TasksCalm, \A x \in Sessions : Calm(x) /\ SessionOK(x)',
         l = "stopMark" /\ i.sess \in Sessions => Down(i.sess)'
  PROVE  AgentInv'
<1>1. at'[h] = l /\ (l = "stopMark" => item'[h] = i)
  BY DEF QueueInv, TypeOK, JumpWith
<1>2. ThreadOK(h)'
  BY <1>1 DEF ThreadOK, Down
<1>3. \A x \in Sessions : StaysDown(x)
  BY DEF StaysDown, Down, Calm
<1>4. ASSUME NEW g \in Threads \ {h} PROVE ThreadOK(g)'
  <2>1. at'[g] = at[g] /\ item'[g] = item[g]
    BY DEF JumpWith, QueueInv, TypeOK
  <2> QED
    BY <1>3, <2>1, ThreadKept DEF AgentInv
<1> QED
  BY <1>2, <1>4, SlotsStand DEF slotVars

\* Where a request or sweep goes after a stop or a row, it marks nothing.
LEMMA RestPlaces ==
  ASSUME NEW h \in Threads
  PROVE  "stopMark" \notin {Rest(h), AfterItem(h), AfterStop(h)}
BY DEF Rest, AfterItem, AfterStop

\* The steps of requests and sweeps that read, list, queue and write tasks.
LEMMA PlainThreadSteps ==
  ASSUME QueueInv, AgentInv, NEW h \in Threads,
         \/ Detach(h) \/ Queue(h) \/ Gate(h) \/ FindPendingJob(h) \/ DropStaleJob(h) \/ AddJob(h)
         \/ CancelWrite(h) \/ ListQueued(h) \/ ListJobs(h) \/ NextRow(h) \/ PurgeJob(h) \/ Inspect(h)
         \/ FailTask(h) \/ SkipLive(h) \/ SkipPending(h) \/ SkipPaused(h) \/ PromoteTask(h) \/ ListBoxes(h)
  PROVE  AgentInv'
<1>1. UNCHANGED <<sess, sessVars, dockerVars, slotVars>> /\ \A t \in Tasks : Exists(t)' => Exists(t)
  <2> USE DEF taskVars, SetStatus, Exists, QueueInv, TypeOK
  <2>1. CASE Queue(h) \/ CancelWrite(h) \/ FailTask(h) \/ PromoteTask(h)
    BY <2>1 DEF Queue, CancelWrite, FailTask, PromoteTask
  <2>2. CASE \/ Detach(h) \/ Gate(h) \/ FindPendingJob(h) \/ DropStaleJob(h) \/ AddJob(h) \/ ListQueued(h)
             \/ ListJobs(h) \/ NextRow(h) \/ PurgeJob(h) \/ Inspect(h) \/ SkipLive(h) \/ SkipPending(h)
             \/ SkipPaused(h) \/ ListBoxes(h)
    BY <2>2 DEF Detach, Gate, FindPendingJob, DropStaleJob, AddJob, ListQueued, ListJobs, NextRow, PurgeJob,
                Inspect, SkipLive, SkipPending, SkipPaused, ListBoxes
  <2> QED
    BY <2>1, <2>2
<1>2. TasksCalm /\ \A x \in Sessions : Calm(x) /\ SessionOK(x)'
  BY <1>1 DEF AgentInv, TasksCalm, Calm, SessionOK, Busy, sessVars, dockerVars
<1>3. ASSUME NEW l, NEW i, JumpWith(h, l, i), l # "stopMark" PROVE AgentInv'
  BY <1>1, <1>2, <1>3, ThreadMoves
<1> USE RestPlaces DEF Jump
<1>4. CASE Detach(h)
  BY <1>3, <1>4 DEF Detach
<1>5. CASE Queue(h)
  BY <1>3, <1>5 DEF Queue
<1>6. CASE Gate(h)
  BY <1>3, <1>6 DEF Gate
<1>7. CASE FindPendingJob(h)
  BY <1>3, <1>7 DEF FindPendingJob
<1>8. CASE DropStaleJob(h)
  BY <1>3, <1>8 DEF DropStaleJob
<1>9. CASE AddJob(h)
  BY <1>3, <1>9 DEF AddJob
<1>10. CASE CancelWrite(h)
  BY <1>3, <1>10 DEF CancelWrite
<1>11. CASE ListQueued(h)
  BY <1>3, <1>11 DEF ListQueued
<1>12. CASE ListJobs(h)
  BY <1>3, <1>12 DEF ListJobs
<1>13. CASE NextRow(h)
  <2>1. \A i : FirstStep(h, i) # "stopMark"
    BY DEF FirstStep
  <2> QED
    BY <1>3, <1>13, <2>1 DEF NextRow
<1>14. CASE PurgeJob(h)
  BY <1>3, <1>14 DEF PurgeJob
<1>15. CASE Inspect(h)
  BY <1>3, <1>15 DEF Inspect
<1>16. CASE FailTask(h)
  BY <1>3, <1>16 DEF FailTask
<1>17. CASE SkipLive(h)
  BY <1>3, <1>17 DEF SkipLive
<1>18. CASE SkipPending(h)
  BY <1>3, <1>18 DEF SkipPending
<1>19. CASE SkipPaused(h)
  BY <1>3, <1>19 DEF SkipPaused
<1>20. CASE PromoteTask(h)
  BY <1>3, <1>20 DEF PromoteTask
<1>21. CASE ListBoxes(h)
  BY <1>3, <1>21 DEF ListBoxes
<1> QED
  BY <1>4, <1>5, <1>6, <1>7, <1>8, <1>9, <1>10, <1>11, <1>12, <1>13, <1>14, <1>15, <1>16, <1>17, <1>18,
     <1>19, <1>20, <1>21

\* The ways Docker answers a stop or a removal leave a session calm, whatever
\* becomes of what the code thinks of it.
LEMMA BoxesCalm ==
  ASSUME QueueInv, AgentInv, NEW x, UNCHANGED <<sstat, owner>>,
         BoxStops(x) \/ BoxGoes(x) \/ UNCHANGED dockerVars,
         \A y \in Sessions : y \in astray => y \in astray'
  PROVE  \A y \in Sessions : Calm(y) /\ SessionOK(y)'
<1> SUFFICES ASSUME NEW y \in Sessions PROVE Calm(y) /\ SessionOK(y)'
  OBVIOUS
<1>1. SessionOK(y)
  BY DEF AgentInv
<1>2. /\ agent'[y] # "none" => agent'[y] = agent[y] /\ box'[y] = box[y]
      /\ box'[y] = "running" => box[y] = "running"
      /\ box[y] = "none" => box'[y] = "none"
      /\ box[y] \in {"stopped", "gone"} => box'[y] \in {"stopped", "gone"}
  <2> USE DEF QueueInv, TypeOK
  <2>1. CASE BoxStops(x)
    BY <2>1 DEF BoxStops
  <2>2. CASE BoxGoes(x)
    BY <2>2 DEF BoxGoes
  <2>3. CASE UNCHANGED dockerVars
    BY <2>3 DEF dockerVars
  <2> QED
    BY <2>1, <2>2, <2>3
<1> QED
  BY <1>1, <1>2 DEF Calm, SessionOK, Busy

\* The steps that write the row of a session which is down or taken for it.
LEMMA MarksCalm ==
  ASSUME QueueInv, AgentInv, NEW x, NEW v \in {"COMPLETED", "DELETED"},
         sstat' = [sstat EXCEPT ![x] = v] \/ UNCHANGED sstat,
         UNCHANGED <<owner, dockerVars>>, x \in Sessions => Down(x)',
         \A y \in Sessions : y \in astray => y \in astray'
  PROVE  \A y \in Sessions : Calm(y) /\ SessionOK(y)'
<1> SUFFICES ASSUME NEW y \in Sessions PROVE Calm(y) /\ SessionOK(y)'
  OBVIOUS
<1>1. SessionOK(y)
  BY DEF AgentInv
<1>2. CASE y = x
  <2>1. sstat'[y] \in {v, sstat[y]} /\ Down(y)' /\ box'[y] = box[y] /\ agent'[y] = agent[y]
    BY <1>2 DEF QueueInv, TypeOK, dockerVars
  <2> QED
    BY <1>1, <2>1 DEF Calm, SessionOK, Busy, Down
<1>3. CASE y # x
  <2>1. sstat'[y] = sstat[y] /\ box'[y] = box[y] /\ agent'[y] = agent[y]
    BY <1>3 DEF QueueInv, TypeOK, dockerVars
  <2> QED
    BY <1>1, <2>1 DEF Calm, SessionOK, Busy
<1> QED
  BY <1>2, <1>3

\* Stopping, marking, unlinking, removing: each takes its session for down.
LEMMA StopSteps ==
  ASSUME QueueInv, AgentInv, NEW h \in Threads,
         StopBox(h) \/ StopMark(h) \/ Unlink(h) \/ RemoveBox(h) \/ DropRow(h)
  PROVE  AgentInv'
<1>0. ThreadOK(h)
  BY DEF AgentInv
<1> SUFFICES ASSUME NEW x, x = item[h].sess PROVE AgentInv'
  OBVIOUS
<1>1. UNCHANGED slotVars /\ UNCHANGED status /\ UNCHANGED owner
  BY DEF StopBox, StopMark, Unlink, RemoveBox, DropRow, StopContainer, taskVars, sessVars
<1>2. (UNCHANGED sess) => TasksCalm
  BY <1>1 DEF TasksCalm, Exists
<1>3. CASE StopBox(h)
  <2>1. TasksCalm
    BY <1>2, <1>3 DEF StopBox, taskVars
  <2>2. CASE JumpWith(h, AfterStop(h), item[h]) /\ UNCHANGED <<sessVars, dockerVars>>
    <3>1. \A y \in Sessions : Calm(y) /\ SessionOK(y)'
      BY <2>2, BoxesCalm DEF sessVars
    <3> QED
      BY <1>1, <2>1, <2>2, <3>1, RestPlaces, ThreadMoves
  <2>3. CASE StopContainer(x) /\ JumpWith(h, "stopMark", item[h])
    <3>1. TakenForDown(x)
      BY <2>3 DEF StopContainer
    <3>2. (\A y \in Sessions : y \in astray => y \in astray') /\ (x \in Sessions => Down(x)')
      BY <3>1, TakenIsDown
    <3>3. \A y \in Sessions : Calm(y) /\ SessionOK(y)'
      BY <2>3, <3>2, BoxesCalm DEF StopContainer
    <3>4. ASSUME NEW i, i = item[h] PROVE AgentInv'
      BY <1>1, <2>1, <2>3, <3>2, <3>3, <3>4, ThreadMoves
    <3> QED
      BY <3>4
  <2> QED
    BY <1>3, <2>2, <2>3 DEF StopBox, Jump
<1>4. CASE StopMark(h)
  <2>1. TasksCalm /\ JumpWith(h, AfterStop(h), item[h]) /\ UNCHANGED <<astray, dockerVars>>
    BY <1>2, <1>4 DEF StopMark, Jump, taskVars
  <2>2. x \in Sessions => Down(x)'
    BY <1>0, <1>4, <2>1 DEF StopMark, ThreadOK, Down, dockerVars
  <2>3. sstat' = [sstat EXCEPT ![x] = "COMPLETED"] \/ UNCHANGED sstat
    BY <1>4 DEF StopMark, SetSession
  <2>4. \A y \in Sessions : Calm(y) /\ SessionOK(y)'
    BY <1>1, <2>1, <2>2, <2>3, MarksCalm
  <2> QED
    BY <1>1, <2>1, <2>4, RestPlaces, ThreadMoves
<1>5. CASE Unlink(h)
  <2> SUFFICES ASSUME NEW y, y = sess[item[h].task] PROVE AgentInv'
    OBVIOUS
  <2>1. /\ sess' = [sess EXCEPT ![item[h].task] = NoSession]
        /\ TakenForDown(y) /\ JumpWith(h, "queue", item[h]) /\ UNCHANGED <<sstat, owner, dockerVars>>
    BY <1>5 DEF Unlink, Jump
  <2>2. (\A z \in Sessions : z \in astray => z \in astray') /\ (y \in Sessions => Down(y)')
    BY <2>1, TakenIsDown
  <2>3. TasksCalm
    <3>1. \A t \in Tasks : t # item[h].task => sess'[t] = sess[t]
      BY <2>1 DEF QueueInv, TypeOK
    <3>2. \A t \in Tasks : t = item[h].task => sess[t] = y
      OBVIOUS
    <3> QED
      BY <1>1, <2>2, <3>1, <3>2 DEF TasksCalm, Exists
  <2>4. \A z \in Sessions : Calm(z) /\ SessionOK(z)'
    BY <2>1, <2>2, BoxesCalm
  <2> QED
    BY <1>1, <2>1, <2>3, <2>4, ThreadMoves
<1>6. CASE RemoveBox(h)
  <2>1. /\ TasksCalm /\ UNCHANGED <<sstat, owner, astray>>
        /\ BoxGoes(x) \/ BoxStops(x) \/ UNCHANGED dockerVars
    BY <1>2, <1>6 DEF RemoveBox, taskVars, sessVars
  <2>2. \A y \in Sessions : Calm(y) /\ SessionOK(y)'
    BY <2>1, BoxesCalm
  <2>3. JumpWith(h, "dropRow", item[h]) \/ JumpWith(h, AfterItem(h), item[h])
    BY <1>6 DEF RemoveBox, Jump
  <2> QED
    BY <1>1, <2>1, <2>2, <2>3, RestPlaces, ThreadMoves
<1>7. CASE DropRow(h)
  <2>1. /\ sess' = [t \in Tasks |-> IF sess[t] = x THEN NoSession ELSE sess[t]]
        /\ TakenForDown(x) /\ JumpWith(h, Rest(h), item[h]) /\ UNCHANGED dockerVars
        /\ sstat' = [sstat EXCEPT ![x] = "DELETED"] \/ UNCHANGED sstat
    BY <1>7 DEF DropRow, SetSession, Jump
  <2>2. (\A y \in Sessions : y \in astray => y \in astray') /\ (x \in Sessions => Down(x)')
    BY <2>1, TakenIsDown
  <2>3. TasksCalm
    BY <1>1, <2>1, <2>2 DEF TasksCalm, Exists
  <2>4. \A y \in Sessions : Calm(y) /\ SessionOK(y)'
    BY <1>1, <2>1, <2>2, MarksCalm
  <2> QED
    BY <1>1, <2>1, <2>3, <2>4, RestPlaces, ThreadMoves
<1> QED
  BY <1>3, <1>4, <1>5, <1>6, <1>7

\* Every step of a request or sweep keeps one agent per task.
LEMMA ThreadStepAgents ==
  ASSUME QueueInv, AgentInv, NEW h \in Threads, ThreadStep(h)
  PROVE  AgentInv'
BY PlainThreadSteps, StopSteps DEF ThreadStep

\* Every step of a slot keeps one agent per task.
LEMMA SlotStepAgents ==
  ASSUME QueueInv, AgentInv, NEW s \in Slots, SlotStep(s)
  PROVE  AgentInv'
BY PlainSteps, CreateAgents, LinkAgents, StartAgents, OwnSessionSteps, LaunchAgents DEF SlotStep

\* A step that leaves sessions, containers and slots alone and moves a request
\* or sweep h from where it waits to a place l where it marks nothing.
LEMMA BeginAgents ==
  ASSUME QueueInv, AgentInv, NEW h \in Threads, NEW l, TasksCalm, l # "stopMark",
         UNCHANGED <<sessVars, dockerVars, slotVars>>, at' = [at EXCEPT ![h] = l],
         \A g \in Threads \ {h} : item'[g] = item[g]
  PROVE  AgentInv'
<1> USE DEF sessVars, dockerVars, slotVars
<1>1. \A x \in Sessions : Calm(x) /\ SessionOK(x)' /\ StaysDown(x)
  BY DEF AgentInv, Calm, SessionOK, Busy, StaysDown, Down
<1>2. at'[h] = l /\ \A g \in Threads \ {h} : at'[g] = at[g]
  BY DEF QueueInv, TypeOK
<1>3. ThreadOK(h)'
  BY <1>2 DEF ThreadOK
<1>4. ASSUME NEW g \in Threads \ {h} PROVE ThreadOK(g)'
  BY <1>1, <1>2, ThreadKept DEF AgentInv
<1> QED
  BY <1>1, <1>3, <1>4, SlotsStand

\* Every request that is let in begins without disturbing the agents.
LEMMA RequestStartAgents ==
  ASSUME QueueInv, AgentInv, NEW r \in Requests, RequestStart(r)
  PROVE  AgentInv'
<1>0. r \in Threads
  BY DEF Threads
<1> USE DEF QueueInv, TypeOK, sessVars, dockerVars, slotVars
<1>1. ASSUME NEW o, NEW i, NEW l, Receive(r, o, i, l), TasksCalm, UNCHANGED <<sessVars, dockerVars>>,
             l # "stopMark"
      PROVE  AgentInv'
  <2>1. at' = [at EXCEPT ![r] = l] /\ \A g \in Threads \ {r} : item'[g] = item[g]
    BY <1>0, <1>1 DEF Receive
  <2> QED
    BY <1>0, <1>1, <2>1, BeginAgents DEF Receive
<1> USE DEF TasksCalm, taskVars, SetStatus, Exists
<1>2. ASSUME NEW t \in Tasks, Enqueue(r, t) PROVE AgentInv'
  BY <1>1, <1>2 DEF Enqueue
<1>3. ASSUME NEW t \in Tasks, StartBuild(r, t) PROVE AgentInv'
  BY <1>1, <1>3 DEF StartBuild
<1>4. ASSUME NEW t \in Tasks, Cancel(r, t) PROVE AgentInv'
  BY <1>1, <1>4 DEF Cancel
<1>5. ASSUME NEW t \in Tasks, Close(r, t) PROVE AgentInv'
  BY <1>1, <1>5 DEF Close
<1>6. ASSUME NEW t \in Tasks, Reopen(r, t) PROVE AgentInv'
  BY <1>1, <1>6 DEF Reopen
<1>7. ASSUME NEW t \in Tasks, Update(r, t) PROVE AgentInv'
  BY <1>1, <1>7 DEF Update
<1>8. ASSUME NEW t \in Tasks, Remove(r, t) PROVE AgentInv'
  BY <1>1, <1>8 DEF Remove
<1>9. CASE SetQueuePaused(r) \/ SetAutoPull(r)
  BY <1>1, <1>9 DEF SetQueuePaused, SetAutoPull
<1>10. ASSUME NEW x \in Sessions, StopSession(r, x) PROVE AgentInv'
  BY <1>1, <1>10 DEF StopSession
<1>11. ASSUME NEW x \in Sessions, DropSession(r, x) PROVE AgentInv'
  BY <1>1, <1>11 DEF DropSession
<1> QED
  BY <1>2, <1>3, <1>4, <1>5, <1>6, <1>7, <1>8, <1>9, <1>10, <1>11 DEF RequestStart

\* A sweep reads its list.
LEMMA WatchdogAgents ==
  ASSUME QueueInv, AgentInv, Watchdog
  PROVE  AgentInv'
<1>1. ASSUME NEW h, NEW rows, NEW l \in {"next", "listBoxes"}, Scan(h, rows, l) PROVE AgentInv'
  <2>1. /\ h \in Threads /\ JumpWith(h, l, item[h]) /\ UNCHANGED <<taskVars, sessVars, dockerVars, slotVars>>
    BY <1>1 DEF Scan, Threads, Jump
  <2>2. at' = [at EXCEPT ![h] = l] /\ \A g \in Threads \ {h} : item'[g] = item[g]
    BY <2>1 DEF JumpWith, QueueInv, TypeOK
  <2>3. TasksCalm
    BY <2>1 DEF TasksCalm, Exists, taskVars
  <2> QED
    BY <1>1, <2>1, <2>2, <2>3, BeginAgents
<1>2. CASE ScanStuck
  BY <1>1, <1>2 DEF ScanStuck
<1>3. CASE ScanIdleWorkers
  BY <1>1, <1>3 DEF ScanIdleWorkers
<1>4. CASE ScanUnstarted
  BY <1>1, <1>4 DEF ScanUnstarted
<1>5. CASE ScanOrphans
  BY <1>1, <1>5 DEF ScanOrphans
<1> QED
  BY <1>2, <1>3, <1>4, <1>5 DEF Watchdog

\* The agent, Docker, a reader of the session list and a restart of the server
\* start no agent.
LEMMA EnvironmentAgents ==
  ASSUME QueueInv, AgentInv, Environment
  PROVE  AgentInv'
<1>1. ASSUME UNCHANGED <<sess, slotVars, threadVars>>, \A t \in Tasks : Exists(t)' => Exists(t),
             \A y \in Sessions : Calm(y) /\ SessionOK(y)'
      PROVE  AgentInv'
  <2>1. \A y \in Sessions : StaysDown(y)
    BY <1>1 DEF Calm, StaysDown, Down
  <2>2. \A h \in Threads : ThreadOK(h)'
    BY <1>1, <2>1, ThreadKept DEF AgentInv, threadVars
  <2>3. TasksCalm
    BY <1>1 DEF TasksCalm
  <2> QED
    BY <1>1, <2>2, <2>3, SlotsStand DEF slotVars
<1>2. ASSUME NEW x \in Sessions, \E v \in WorkerMaySet : SetWorkerStatus(x, v) PROVE AgentInv'
  <2>1. UNCHANGED <<sess, sessVars, dockerVars, slotVars, threadVars>>
    BY <1>2 DEF SetWorkerStatus
  <2>2. \A t \in Tasks : Exists(t)' => Exists(t)
    BY <1>2 DEF SetWorkerStatus, SetStatus, Exists, QueueInv, TypeOK
  <2>3. \A y \in Sessions : Calm(y) /\ SessionOK(y)'
    BY <2>1, BoxesCalm DEF sessVars
  <2> QED
    BY <1>1, <2>1, <2>2, <2>3
<1>3. ASSUME NEW x \in Sessions, AgentExits(x) PROVE AgentInv'
  <2>1. /\ UNCHANGED <<taskVars, sessVars, box, slotVars, threadVars>>
        /\ \A y \in Sessions : agent'[y] # "none" => agent[y] # "none"
    BY <1>3 DEF AgentExits, QueueInv, TypeOK
  <2>2. \A y \in Sessions : Calm(y) /\ SessionOK(y)'
    BY <2>1 DEF AgentInv, Calm, SessionOK, Busy, sessVars
  <2> QED
    BY <1>1, <2>1, <2>2 DEF taskVars, Exists
<1>4. ASSUME NEW x \in Sessions, BoxDies(x) PROVE AgentInv'
  <2>1. UNCHANGED <<taskVars, sessVars, slotVars, threadVars>> /\ BoxStops(x)
    BY <1>4 DEF BoxDies
  <2>2. \A y \in Sessions : Calm(y) /\ SessionOK(y)'
    BY <2>1, BoxesCalm DEF sessVars
  <2> QED
    BY <1>1, <2>1, <2>2 DEF taskVars, Exists
<1>5. ASSUME NEW x \in Sessions, SyncContainerState(x) PROVE AgentInv'
  <2>1. UNCHANGED <<taskVars, owner, dockerVars, slotVars, threadVars>>
    BY <1>5 DEF SyncContainerState
  <2>2. CASE sstat[x] = "CREATING" /\ box[x] = "running" /\ SetSession(x, "RUNNING") /\ UNCHANGED astray
    <3>1. sstat'[x] = "RUNNING" /\ \A y \in Sessions \ {x} : sstat'[y] = sstat[y]
      BY <2>2 DEF SetSession, QueueInv, TypeOK
    <3>2. \A y \in Sessions : Calm(y) /\ SessionOK(y)'
      BY <2>1, <2>2, <3>1 DEF AgentInv, Calm, SessionOK, Busy, dockerVars
    <3> QED
      BY <1>1, <2>1, <3>2 DEF taskVars, Exists
  <2>3. CASE SetSession(x, "COMPLETED") /\ TakenForDown(x)
    <3>1. (\A y \in Sessions : y \in astray => y \in astray') /\ Down(x)'
      BY <2>3, TakenIsDown
    <3>2. \A y \in Sessions : Calm(y) /\ SessionOK(y)'
      BY <2>1, <2>3, <3>1, MarksCalm DEF SetSession
    <3> QED
      BY <1>1, <2>1, <3>2 DEF taskVars, Exists
  <2> QED
    BY <1>5, <2>2, <2>3 DEF SyncContainerState
<1>6. CASE Crash
  <2>1. PICK old \in SUBSET {x \in Sessions : box[x] \in {"running", "stopped"}} :
          /\ box' = [x \in Sessions |-> IF x \in old THEN "gone" ELSE box[x]]
          /\ agent' = [x \in Sessions |-> IF x \in old THEN "none" ELSE agent[x]]
    BY <1>6 DEF Crash
  <2>2. UNCHANGED <<taskVars, sessVars>>
    BY <1>6 DEF Crash
  <2>3. \A x \in Sessions : Calm(x) /\ SessionOK(x)'
    BY <2>1, <2>2 DEF AgentInv, Calm, SessionOK, Busy, sessVars
  <2>4. \A s \in Slots : SlotOK(s)'
    BY <1>6 DEF Crash, SlotOK, BeforeAgent, Driving
  <2>5. \A h \in Threads : ThreadOK(h)'
    BY <1>6 DEF Crash, ThreadOK
  <2>6. TasksCalm
    BY <2>2 DEF TasksCalm, Exists, taskVars
  <2> QED
    BY <2>3, <2>4, <2>5, <2>6, SessionsKept DEF AgentInv
<1> QED
  BY <1>2, <1>3, <1>4, <1>5, <1>6, RequestStartAgents DEF Environment

\* A job handed out, retried or found stalled starts no agent.
LEMMA JobStepAgents ==
  ASSUME QueueInv, AgentInv, NEW t \in Tasks, Retry(t) \/ Stall(t) \/ \E s \in Slots : Pull(s, t)
  PROVE  AgentInv'
<1> USE DEF QueueInv, TypeOK, taskVars, sessVars, dockerVars, slotVars, threadVars
<1>1. TasksCalm /\ \A x \in Sessions : Calm(x) /\ SessionOK(x)' /\ StaysDown(x)
  BY DEF Retry, Stall, Pull, TasksCalm, Exists, AgentInv, Calm, SessionOK, Busy, StaysDown, Down
<1>2. CASE Retry(t) \/ Stall(t)
  <2>1. \A h \in Threads : ThreadOK(h)'
    BY <1>1, <1>2, ThreadKept DEF Retry, Stall, AgentInv
  <2> QED
    BY <1>1, <1>2, <2>1, SlotsStand DEF Retry, Stall
<1>3. ASSUME NEW s \in Slots, Pull(s, t) PROVE AgentInv'
  <2>1. SlotOK(s)'
    BY <1>3, SlotOKElsewhere DEF Pull, BeforeAgent, Driving
  <2>2. \A z \in Slots \ {s} : pc'[z] = pc[z] /\ cur'[z] = cur[z] /\ hand'[z] = hand[z]
    BY <1>3 DEF Pull, Go
  <2> QED
    BY <1>1, <1>3, <2>1, <2>2, PlainSlotStep DEF Pull, Exists
<1> QED
  BY <1>2, <1>3

\* On a fresh database there is no agent.
LEMMA AgentInvInit == Init => AgentInv
<1> SUFFICES ASSUME Init PROVE AgentInv
  OBVIOUS
<1>1. \A h \in Threads : ThreadOK(h)
  BY DEF Init, ThreadOK
<1>2. \A s \in Slots : SlotOK(s)
  BY DEF Init, SlotOK, BeforeAgent, Driving
<1>3. LinkedToAgent /\ \A x \in Sessions : SessionOK(x) /\ ~Busy(x)
  BY DEF Init, LinkedToAgent, SessionOK, Busy
<1> QED
  BY <1>1, <1>2, <1>3 DEF AgentInv

\* Every step keeps one agent per task.
LEMMA AgentInvNext == QueueInv /\ AgentInv /\ [Next]_vars => AgentInv'
<1> SUFFICES ASSUME QueueInv, AgentInv, [Next]_vars PROVE AgentInv'
  OBVIOUS
<1>1. CASE Next
  BY <1>1, SlotStepAgents, JobStepAgents, ThreadStepAgents, WatchdogAgents, EnvironmentAgents DEF Next
<1>2. CASE UNCHANGED vars
  <2> USE <1>2 DEF vars, taskVars, sessVars, dockerVars, slotVars, threadVars
  <2>1. TasksCalm /\ \A x \in Sessions : Calm(x) /\ SessionOK(x)' /\ StaysDown(x)
    BY DEF TasksCalm, Exists, AgentInv, Calm, SessionOK, Busy, StaysDown, Down
  <2>2. \A h \in Threads : ThreadOK(h)'
    BY <2>1, ThreadKept DEF AgentInv
  <2> QED
    BY <2>1, <2>2, SlotsStand
<1> QED
  BY <1>1, <1>2

\* executeTask never puts a second agent to work on a task that has one, alive,
\* retried, stopped, re-queued or left over from before a restart, whatever
\* requests, sweeps and Docker do: two agents meet only where the code has
\* taken the session of one of them for down while it was not.
THEOREM AgentsAreExclusive == Spec => []OneAgentPerTask
<1>1. AgentInv => OneAgentPerTask
  BY DEF AgentInv, OneAgentPerTask, Working, Busy
<1> QED
  BY <1>1, AgentInvNext, AgentInvInit, QueueInvariant, PTL DEF Spec
=============================================================================

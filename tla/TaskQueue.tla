----------------------------- MODULE TaskQueue -----------------------------
(***************************************************************************)
(* The worker queue of the orchestration service: the tasks of one         *)
(* organization, the BullMQ job of each, the worker slots that execute     *)
(* them in session containers, the HTTP requests that change them, and the *)
(* sweeps of the watchdog.                                                 *)
(*                                                                         *)
(* Sources: modules/mcp/orchestration/orchestration.service.ts,            *)
(* infrastructure/queue/processors/task-queue.processor.ts,                *)
(* modules/tasks, and what they call of modules/sessions.  A step is one   *)
(* await of the code: two consecutive reads are one step where no write of *)
(* another process between them could change what the second one decides   *)
(* (the README lists them).  A value read before an await and used after   *)
(* it is kept in the process (hand, seen, item).                           *)
(*                                                                         *)
(* An operator that stands right before the action whose name it begins    *)
(* with (CheckLiveDropped, AddJobWithFreshId, ...) is that action with a   *)
(* plausible bug; no specification uses it, it tests the properties.       *)
(***************************************************************************)
EXTENDS BullQueue, FiniteSets

CONSTANTS Tasks,        \* the tasks of the organization
          NoTask,       \* the task of no task
          Slots,        \* the concurrent job slots of TaskQueueProcessor
          Sessions,     \* the session rows that may ever be created (a bound)
          NoSession,    \* task.sessionId = null
          Sweeps,       \* the watchdog's sweeps that take part
          Requests,     \* the HTTP requests of a behaviour (a bound)
          Ops,          \* the operations those requests may be
          MoveTargets,  \* the statuses PUT /tasks/:id may write
          MaxCrashes,   \* how often the API server may restart (a bound)
          ExecTimeout,  \* may Claude outlive WORKER_EXEC_TIMEOUT_MS?
          DockerFails   \* may Docker refuse a stop or leave an inspection unanswered?

Threads == Requests \cup Sweeps

OpName == {"none", "enqueue", "build", "cancel", "close", "reopen", "update", "remove",
           "pause", "resume", "pullOn", "pullOff", "stopSession", "dropSession"}

ASSUME QueueAssumption ==
  /\ NoTask \notin Tasks
  /\ NoSession \notin Sessions
  /\ Sweeps \subseteq {"stuck", "reap", "reconcile", "orphans"}
  /\ Requests \cap Sweeps = {}
  /\ Ops \subseteq OpName
  /\ MaxCrashes \in Nat
  /\ ExecTimeout \in BOOLEAN /\ DockerFails \in BOOLEAN

Status == {"PENDING", "QUEUED", "ANALYZING", "IN_PROGRESS", "REVIEW",
           "COMPLETED", "FAILED", "CANCELLED", "DELETED"}

ASSUME MoveAssumption == MoveTargets \subseteq Status \ {"DELETED"}

VARIABLES
  status,     \* Task.status, "DELETED" when the row is gone
  sess,       \* Task.sessionId
  paused,     \* Organization.queuePaused
  autoPull,   \* Organization.autoPull
  job,        \* the BullMQ job task-<id> of each task
  sstat,      \* AgentSession.status, "UNUSED" before and "DELETED" after the row
  owner,      \* the CITSHE_TASK_ID given to the session's container
  named,      \* the sessions whose AgentSession.containerId is set
  astray,     \* history: those taken for down that were up, or yet to be started
  box,        \* the session's Docker container, "none" before and "gone" after it
  agent,      \* the Claude run in that container
  pc, cur, hand, seen,   \* a worker slot: where it is, its task and session, a status read
  at, op, item, todo,    \* a request or sweep: where it is, which one, its row, rows left
  crashes

taskVars   == <<status, sess>>
orgVars    == <<paused, autoPull>>
sessVars   == <<sstat, owner, named, astray>>
dockerVars == <<box, agent>>
slotVars   == <<pc, cur, hand, seen>>
threadVars == <<at, op, item, todo>>
vars == <<taskVars, orgVars, job, sessVars, dockerVars, slotVars, threadVars, crashes>>

-----------------------------------------------------------------------------
(* Vocabulary. *)

Claimable   == {"PENDING", "QUEUED", "ANALYZING", "FAILED"}
Cancellable == {"PENDING", "ANALYZING", "IN_PROGRESS"}
Finished    == {"REVIEW", "COMPLETED", "FAILED", "CANCELLED"}
WorkerMaySet == {"IN_PROGRESS", "REVIEW", "COMPLETED"}

SessRef == Sessions \cup {NoSession}
TaskRef == Tasks \cup {NoTask}

\* The rows a sweep or a drain has read and not handled yet.
Row == [task : TaskRef, sess : SessRef, status : Status]

RowOf(t)     == [task |-> t, sess |-> sess[t], status |-> status[t]]
RowOfSess(x) == [task |-> owner[x], sess |-> x, status |-> "DELETED"]
NoRow        == [task |-> NoTask, sess |-> NoSession, status |-> "DELETED"]

Exists(t) == status[t] # "DELETED"
HasRow(x) == x # NoSession /\ sstat[x] \notin {"UNUSED", "DELETED"}

\* A session the code takes for a live worker.
Live(x) == x # NoSession /\ sstat[x] \in {"CREATING", "RUNNING"}

\* findPendingJob: a job that is neither active nor completed is pending.
HasPendingJob(t) == job[t].state \notin {"none", "active", "completed"}

BeforeClaim == {"read", "liveCheck", "pauseCheck", "hold", "claim"}
AfterClaim  == {"create", "rollback", "link", "start", "setRunning", "startFailed",
                "ready", "launch", "await", "decide", "write", "stopBox",
                "stopMark", "nack", "giveUp"}
SlotPC   == {"idle", "ack"} \cup BeforeClaim \cup AfterClaim

ThreadPC == {"new", "idle", "next", "done", "detach", "stopBox", "stopMark", "unlink",
             "queue", "gate", "find", "drop", "add", "cancel", "listQueued", "listJobs",
             "purge", "inspect", "fail", "liveCheck", "jobCheck", "heldCheck",
             "promote", "listBoxes", "removeBox", "dropRow"}

\* The slot s is working on task t past the claim of executeTask.
Runs(s, t) == pc[s] \in AfterClaim /\ cur[s] = t

\* The slot s is driving session x.
Drives(s, x) ==
  /\ hand[s] = x
  /\ pc[s] \in {"link", "start", "setRunning", "startFailed", "ready", "launch",
                "await", "decide", "write", "stopBox", "stopMark"}

\* 30 minutes without an update of an IN_PROGRESS row: a run that has launched
\* Claude is over within WORKER_READY_TIMEOUT_MS + WORKER_EXEC_TIMEOUT_MS, and
\* only the start of a container has no time limit.
Untouched(t) == \A s \in Slots : Runs(s, t) => pc[s] = "start"

\* 30 minutes since a session was created, by the same limits.
IdleLong(x) == \A s \in Slots : ~Drives(s, x)

Init ==
  /\ status = [t \in Tasks |-> "PENDING"]
  /\ sess = [t \in Tasks |-> NoSession]
  /\ paused = FALSE
  /\ autoPull = FALSE
  /\ job = [t \in Tasks |-> NoJob]
  /\ sstat = [x \in Sessions |-> "UNUSED"]
  /\ owner = [x \in Sessions |-> NoTask]
  /\ named = {}
  /\ astray = {}
  /\ box = [x \in Sessions |-> "none"]
  /\ agent = [x \in Sessions |-> "none"]
  /\ pc = [s \in Slots |-> "idle"]
  /\ cur = [s \in Slots |-> NoTask]
  /\ hand = [s \in Slots |-> NoSession]
  /\ seen = [s \in Slots |-> "PENDING"]
  /\ at = [h \in Threads |-> IF h \in Requests THEN "new" ELSE "idle"]
  /\ op = [h \in Threads |-> IF h \in Requests THEN "none" ELSE h]
  /\ item = [h \in Threads |-> NoRow]
  /\ todo = [h \in Threads |-> {}]
  /\ crashes = 0

SetStatus(t, v)  == status' = [status EXCEPT ![t] = v]
SetSession(x, v) == sstat' = [sstat EXCEPT ![x] = v]

\* A container that stops or is removed takes the process in it along.
BoxStops(x) ==
  /\ box' = [box EXCEPT ![x] = IF @ = "running" THEN "stopped" ELSE @]
  /\ agent' = [agent EXCEPT ![x] = "none"]

BoxGoes(x) ==
  /\ box' = [box EXCEPT ![x] = IF @ = "none" THEN "none" ELSE "gone"]
  /\ agent' = [agent EXCEPT ![x] = "none"]

\* From this step on the code takes session x for down: if it is not, it has
\* gone astray.
Off == {x \in Sessions : box[x] \in {"stopped", "gone"}}
TakenForDown(x) == astray' = astray \cup (({x} \cap Sessions) \ Off')

\* stopContainer, called when the row holds an id: Docker's refusal is logged,
\* and the session counts as stopped.
StopContainer(x) ==
  /\ \/ x \in named /\ BoxStops(x)
     \/ (x \notin named \/ DockerFails) /\ UNCHANGED dockerVars
  /\ TakenForDown(x)
  /\ UNCHANGED <<sstat, owner, named>>

-----------------------------------------------------------------------------
(* A worker slot: TaskQueueProcessor.process and executeTask. *)

Go(s, l) == pc' = [pc EXCEPT ![s] = l]

\* The processor's promise has settled: the slot forgets what it held.
FreeSlot(s) ==
  /\ Go(s, "idle")
  /\ cur' = [cur EXCEPT ![s] = NoTask]
  /\ hand' = [hand EXCEPT ![s] = NoSession]
  /\ seen' = [seen EXCEPT ![s] = "PENDING"]

\* BullMQ hands a waiting job to an idle slot.  The order among waiting jobs
\* (their priority) is left open.
Pull(s, t) ==
  /\ pc[s] = "idle" /\ job[t].state = "waiting"
  /\ job' = [job EXCEPT ![t] = Pulled(@)]
  /\ Go(s, "read") /\ cur' = [cur EXCEPT ![s] = t]
  /\ UNCHANGED <<taskVars, orgVars, sessVars, dockerVars, hand, seen, threadVars, crashes>>

\* The task row, read once: skipped when gone or already past dispatching.
ReadTask(s) ==
  LET t == cur[s] IN
  /\ pc[s] = "read"
  /\ hand' = [hand EXCEPT ![s] = sess[t]]
  /\ \/ status[t] \notin Claimable /\ Go(s, "ack")
     \/ status[t] \in Claimable /\ Go(s, IF sess[t] = NoSession THEN "pauseCheck" ELSE "liveCheck")
  /\ UNCHANGED <<taskVars, orgVars, job, sessVars, dockerVars, cur, seen, threadVars, crashes>>

\* A task whose worker is live is not started again.
CheckLiveDropped(s) ==
  /\ pc[s] = "liveCheck"
  /\ Go(s, "pauseCheck")
  /\ UNCHANGED <<taskVars, orgVars, job, sessVars, dockerVars, cur, hand, seen, threadVars, crashes>>
CheckLive(s) ==
  /\ pc[s] = "liveCheck"
  /\ Go(s, IF Live(hand[s]) THEN "ack" ELSE "pauseCheck")
  /\ UNCHANGED <<taskVars, orgVars, job, sessVars, dockerVars, cur, hand, seen, threadVars, crashes>>

CheckPaused(s) ==
  /\ pc[s] = "pauseCheck"
  /\ Go(s, IF paused THEN "hold" ELSE "claim")
  /\ UNCHANGED <<taskVars, orgVars, job, sessVars, dockerVars, cur, hand, seen, threadVars, crashes>>

\* Paused: the task is held QUEUED, whatever its status has become meanwhile.
Hold(s) ==
  LET t == cur[s] IN
  /\ pc[s] = "hold"
  /\ IF Exists(t) THEN SetStatus(t, "QUEUED") ELSE UNCHANGED status
  /\ Go(s, "ack")
  /\ UNCHANGED <<sess, orgVars, job, sessVars, dockerVars, cur, hand, seen, threadVars, crashes>>

\* The atomic claim: updateMany with the dispatchable statuses.
Claim(s) ==
  LET t == cur[s] IN
  /\ pc[s] = "claim"
  /\ \/ /\ status[t] \in Claimable
        /\ SetStatus(t, "IN_PROGRESS")
        /\ Go(s, "create")
     \/ /\ status[t] \notin Claimable
        /\ Go(s, "ack")
        /\ UNCHANGED status
  /\ UNCHANGED <<sess, orgVars, job, sessVars, dockerVars, cur, hand, seen, threadVars, crashes>>

\* sessionsService.create inserts a CREATING row, or throws.
CreateSession(s) ==
  /\ pc[s] = "create"
  /\ \/ \E x \in Sessions :
          /\ sstat[x] = "UNUSED"
          /\ SetSession(x, "CREATING")
          /\ owner' = [owner EXCEPT ![x] = cur[s]]
          /\ hand' = [hand EXCEPT ![s] = x]
          /\ Go(s, "link")
     \/ Go(s, "rollback") /\ UNCHANGED <<sstat, owner, hand>>
  /\ UNCHANGED <<taskVars, orgVars, job, named, astray, dockerVars, cur, seen, threadVars, crashes>>

\* The rollback of a failed create, so that the retry can claim again.
RollBack(s) ==
  LET t == cur[s] IN
  /\ pc[s] = "rollback"
  /\ IF Exists(t) THEN SetStatus(t, "QUEUED") ELSE UNCHANGED status
  /\ Go(s, "nack")
  /\ UNCHANGED <<sess, orgVars, job, sessVars, dockerVars, cur, hand, seen, threadVars, crashes>>

\* task.update({ sessionId }) throws when the task was removed meanwhile.
LinkSession(s) ==
  LET t == cur[s] IN
  /\ pc[s] = "link"
  /\ \/ Exists(t) /\ sess' = [sess EXCEPT ![t] = IF HasRow(hand[s]) THEN hand[s] ELSE @]
                  /\ Go(s, IF HasRow(hand[s]) THEN "start" ELSE "nack")
     \/ ~Exists(t) /\ Go(s, "nack") /\ UNCHANGED sess
  /\ UNCHANGED <<status, orgVars, job, sessVars, dockerVars, cur, hand, seen, threadVars, crashes>>

\* createAndStart: the container runs and its id is stored, where there is a
\* row to store it in, or Docker refuses.
StartContainer(s) ==
  LET x == hand[s] IN
  /\ pc[s] = "start"
  /\ \/ /\ box' = [box EXCEPT ![x] = "running"]
        /\ named' = IF HasRow(x) THEN named \cup {x} ELSE named
        /\ Go(s, "setRunning")
     \/ Go(s, "startFailed") /\ UNCHANGED <<box, named>>
  /\ UNCHANGED <<taskVars, orgVars, job, sstat, owner, astray, agent, cur, hand, seen, threadVars, crashes>>

\* updateStatus(RUNNING, containerId) is unconditional; it throws when the row
\* is gone.
SetRunning(s) ==
  LET x == hand[s] IN
  /\ pc[s] = "setRunning"
  /\ \/ HasRow(x) /\ SetSession(x, "RUNNING") /\ named' = named \cup {x} /\ Go(s, "ready")
     \/ ~HasRow(x) /\ Go(s, "startFailed") /\ UNCHANGED <<sstat, named>>
  /\ UNCHANGED <<taskVars, orgVars, job, owner, astray, dockerVars, cur, hand, seen, threadVars, crashes>>

\* The session is marked FAILED (this throws too when its row is gone), and
\* the task stays IN_PROGRESS.
StartFailed(s) ==
  LET x == hand[s] IN
  /\ pc[s] = "startFailed"
  /\ IF HasRow(x) THEN SetSession(x, "FAILED") ELSE UNCHANGED sstat
  /\ Go(s, "nack")
  /\ UNCHANGED <<taskVars, orgVars, job, owner, named, astray, dockerVars, cur, hand, seen, threadVars, crashes>>

\* waitForRunning: any status but RUNNING ends in failure, at once or after
\* WORKER_READY_TIMEOUT_MS.
WaitForRunning(s) ==
  /\ pc[s] = "ready"
  /\ Go(s, IF sstat[hand[s]] = "RUNNING" THEN "launch" ELSE "stopBox")
  /\ UNCHANGED <<taskVars, orgVars, job, sessVars, dockerVars, cur, hand, seen, threadVars, crashes>>

\* runClaudeInTmux starts Claude in the container of the row; docker exec fails
\* unless it runs.
Launch(s) ==
  LET x == hand[s]
      reachable == HasRow(x) /\ x \in named /\ box[x] = "running"
  IN
  /\ pc[s] = "launch"
  /\ \/ reachable /\ agent' = [agent EXCEPT ![x] = "working"] /\ Go(s, "await")
     \/ ~reachable /\ Go(s, "stopBox") /\ UNCHANGED agent
  /\ UNCHANGED <<taskVars, orgVars, job, sessVars, box, cur, hand, seen, threadVars, crashes>>

\* The poll of the done-file: Claude is done, or the time is up (exit code -1,
\* which counts as success), or the container is gone.
AwaitDoneForEver(s) ==
  LET x == hand[s] IN
  /\ pc[s] = "await"
  /\ \/ box[x] = "running" /\ agent[x] = "ok" /\ Go(s, "decide")
     \/ agent[x] = "error" /\ Go(s, "stopBox")
  /\ UNCHANGED <<taskVars, orgVars, job, sessVars, dockerVars, cur, hand, seen, threadVars, crashes>>
AwaitDone(s) ==
  LET x == hand[s] IN
  /\ pc[s] = "await"
  /\ \/ /\ box[x] = "running"
        /\ agent[x] = "ok" \/ (ExecTimeout /\ agent[x] = "working")
        /\ Go(s, "decide")
     \/ /\ box[x] # "running" \/ agent[x] = "error"
        /\ Go(s, "stopBox")
  /\ UNCHANGED <<taskVars, orgVars, job, sessVars, dockerVars, cur, hand, seen, threadVars, crashes>>

\* The status the agent has set is kept; without one it becomes REVIEW.
ReadStatus(s) ==
  LET now == status[cur[s]] IN
  /\ pc[s] = "decide"
  /\ seen' = [seen EXCEPT ![s] = IF now \in {"IN_PROGRESS", "ANALYZING", "DELETED"} THEN "REVIEW" ELSE now]
  /\ Go(s, "write")
  /\ UNCHANGED <<taskVars, orgVars, job, sessVars, dockerVars, cur, hand, threadVars, crashes>>

WriteResult(s) ==
  LET t == cur[s] IN
  /\ pc[s] = "write"
  /\ \/ Exists(t) /\ SetStatus(t, seen[s]) /\ Go(s, "ack")
     \/ ~Exists(t) /\ Go(s, "stopBox") /\ UNCHANGED status
  /\ UNCHANGED <<sess, orgVars, job, sessVars, dockerVars, cur, hand, seen, threadVars, crashes>>

\* stopWorker after a failed run; findOne throws when the session is gone.
StopOwnBox(s) ==
  LET x == hand[s] IN
  /\ pc[s] = "stopBox"
  /\ \/ HasRow(x) /\ StopContainer(x) /\ Go(s, "stopMark")
     \/ ~HasRow(x) /\ Go(s, "nack") /\ UNCHANGED <<sessVars, dockerVars>>
  /\ UNCHANGED <<taskVars, orgVars, job, cur, hand, seen, threadVars, crashes>>

StopOwnMark(s) ==
  LET x == hand[s] IN
  /\ pc[s] = "stopMark"
  /\ IF HasRow(x) THEN SetSession(x, "COMPLETED") ELSE UNCHANGED sstat
  /\ Go(s, "nack")
  /\ UNCHANGED <<taskVars, orgVars, job, owner, named, astray, dockerVars, cur, hand, seen, threadVars, crashes>>

\* The processor returned: BullMQ completes the job and frees the slot.
Ack(s) ==
  /\ pc[s] = "ack"
  /\ job' = [job EXCEPT ![cur[s]] = Completed(@)]
  /\ FreeSlot(s)
  /\ UNCHANGED <<taskVars, orgVars, sessVars, dockerVars, threadVars, crashes>>

\* The processor's catch: on the last attempt the task is marked FAILED first.
Nack(s) ==
  LET t == cur[s] IN
  /\ pc[s] = "nack"
  /\ \/ /\ job[t].attempts + 1 < MaxAttempts
        /\ job' = [job EXCEPT ![t] = Thrown(@)]
        /\ FreeSlot(s)
        /\ UNCHANGED status
     \/ /\ job[t].attempts + 1 >= MaxAttempts
        /\ IF Exists(t) THEN SetStatus(t, "FAILED") ELSE UNCHANGED status
        /\ Go(s, "giveUp")
        /\ UNCHANGED <<job, cur, hand, seen>>
  /\ UNCHANGED <<sess, orgVars, sessVars, dockerVars, threadVars, crashes>>

GiveUp(s) ==
  /\ pc[s] = "giveUp"
  /\ job' = [job EXCEPT ![cur[s]] = Thrown(@)]
  /\ FreeSlot(s)
  /\ UNCHANGED <<taskVars, orgVars, sessVars, dockerVars, threadVars, crashes>>

SlotStep(s) ==
  \/ ReadTask(s) \/ CheckLive(s) \/ CheckPaused(s) \/ Hold(s) \/ Claim(s)
  \/ CreateSession(s) \/ RollBack(s) \/ LinkSession(s) \/ StartContainer(s)
  \/ SetRunning(s) \/ StartFailed(s) \/ WaitForRunning(s) \/ Launch(s)
  \/ AwaitDone(s) \/ ReadStatus(s) \/ WriteResult(s) \/ StopOwnBox(s)
  \/ StopOwnMark(s) \/ Ack(s) \/ Nack(s) \/ GiveUp(s)

-----------------------------------------------------------------------------
(* The HTTP requests.  One at "new" begins with the operation's first read *)
(* or its only write; Rest is where a request or a sweep is done.          *)

Rest(h) == IF h \in Requests THEN "done" ELSE "idle"
AfterItem(h) == IF todo[h] = {} THEN Rest(h) ELSE "next"

\* Where stopTaskWorker and stopWorker return to.
AfterStop(h) ==
  IF op[h] = "enqueue" THEN "unlink" ELSE IF op[h] = "reap" THEN AfterItem(h) ELSE Rest(h)

\* The first step on a row of a list read before.
FirstStep(h, i) ==
  CASE op[h] \in {"resume", "pullOn"} -> "find"
    [] op[h] \in {"pause", "pullOff"} -> "purge"
    [] op[h] = "stuck"     -> "inspect"
    [] op[h] = "reap"      -> "stopBox"
    [] op[h] = "reconcile" -> IF i.sess = NoSession THEN "jobCheck" ELSE "liveCheck"
    [] OTHER               -> "removeBox"

\* Thread h goes on at l with row i, and forgets row and operation at its end.
JumpWith(h, l, i) ==
  /\ at' = [at EXCEPT ![h] = l]
  /\ item' = [item EXCEPT ![h] = IF l \in {"done", "idle", "next"} THEN NoRow ELSE i]
  /\ op' = [op EXCEPT ![h] = IF l = "done" THEN "none" ELSE @]

Jump(h, l) == JumpWith(h, l, item[h])

\* The request r performs o on row i and goes on at l.
Receive(r, o, i, l) ==
  /\ at[r] = "new" /\ o \in Ops
  /\ at' = [at EXCEPT ![r] = l]
  /\ op' = [op EXCEPT ![r] = IF l = "done" THEN "none" ELSE o]
  /\ item' = [item EXCEPT ![r] = IF l = "done" THEN NoRow ELSE i]
  /\ UNCHANGED <<todo, slotVars, crashes>>

\* enqueueTask: no status is refused; the worker of a REVIEW or COMPLETED task
\* is stopped and unlinked first.
Enqueue(r, t) ==
  /\ Exists(t)
  /\ Receive(r, "enqueue", RowOf(t),
             IF sess[t] # NoSession /\ status[t] \in {"REVIEW", "COMPLETED"}
             THEN "detach" ELSE "queue")
  /\ UNCHANGED <<taskVars, orgVars, job, sessVars, dockerVars>>

StartBuild(r, t) ==
  /\ Exists(t)
  /\ Receive(r, "build", RowOf(t), "queue")
  /\ UNCHANGED <<taskVars, orgVars, job, sessVars, dockerVars>>

\* cancel: the check, whose write is a step of its own (a READ COMMITTED
\* transaction locks no row it reads).
Cancel(r, t) ==
  /\ status[t] \in Cancellable
  /\ Receive(r, "cancel", RowOf(t), "cancel")
  /\ UNCHANGED <<taskVars, orgVars, job, sessVars, dockerVars>>

\* close: COMPLETED at once, then the worker is put to sleep.
Close(r, t) ==
  /\ Exists(t)
  /\ Receive(r, "close", RowOf(t), "detach")
  /\ SetStatus(t, "COMPLETED")
  /\ UNCHANGED <<sess, orgVars, job, sessVars, dockerVars>>

\* reopen: the worker stays linked.
Reopen(r, t) ==
  /\ Exists(t)
  /\ Receive(r, "reopen", RowOf(t), "done")
  /\ SetStatus(t, "PENDING")
  /\ UNCHANGED <<sess, orgVars, job, sessVars, dockerVars>>

\* PUT /tasks/:id writes any status over any other (a card dragged on the board).
Update(r, t) ==
  /\ Exists(t)
  /\ Receive(r, "update", RowOf(t), "done")
  /\ \E v \in MoveTargets : SetStatus(t, v)
  /\ UNCHANGED <<sess, orgVars, job, sessVars, dockerVars>>

\* DELETE /tasks/:id removes the row and nothing else.
Remove(r, t) ==
  /\ Exists(t)
  /\ Receive(r, "remove", RowOf(t), "done")
  /\ SetStatus(t, "DELETED")
  /\ sess' = [sess EXCEPT ![t] = NoSession]
  /\ UNCHANGED <<orgVars, job, sessVars, dockerVars>>

\* setQueuePaused and setAutoPull: the flag, then the jobs.
SetQueuePaused(r) ==
  /\ \/ Receive(r, "pause", NoRow, "listJobs") /\ paused' = TRUE
     \/ Receive(r, "resume", NoRow, "listQueued") /\ paused' = FALSE
  /\ UNCHANGED <<taskVars, autoPull, job, sessVars, dockerVars>>

SetAutoPull(r) ==
  /\ \/ Receive(r, "pullOn", NoRow, "listQueued") /\ autoPull' = TRUE
     \/ Receive(r, "pullOff", NoRow, "listJobs") /\ autoPull' = FALSE
  /\ UNCHANGED <<taskVars, paused, job, sessVars, dockerVars>>

\* POST /sessions/:id/stop and DELETE /sessions/:id, of a worker's session.
StopSession(r, x) ==
  /\ sstat[x] = "RUNNING"
  /\ Receive(r, "stopSession", RowOfSess(x), "stopBox")
  /\ UNCHANGED <<taskVars, orgVars, job, sessVars, dockerVars>>

DropSession(r, x) ==
  /\ HasRow(x)
  /\ Receive(r, "dropSession", RowOfSess(x), IF x \in named THEN "removeBox" ELSE "dropRow")
  /\ UNCHANGED <<taskVars, orgVars, job, sessVars, dockerVars>>

RequestStart(r) ==
  \/ \E t \in Tasks :
       \/ Enqueue(r, t) \/ StartBuild(r, t) \/ Cancel(r, t) \/ Close(r, t)
       \/ Reopen(r, t) \/ Update(r, t) \/ Remove(r, t)
  \/ SetQueuePaused(r) \/ SetAutoPull(r)
  \/ \E x \in Sessions : StopSession(r, x) \/ DropSession(r, x)

-----------------------------------------------------------------------------
(* The watchdog's sweeps: each begins by reading its list. *)

Scan(h, rows, l) ==
  /\ h \in Sweeps /\ at[h] = "idle" /\ rows # {}
  /\ todo' = [todo EXCEPT ![h] = rows]
  /\ Jump(h, l)
  /\ UNCHANGED <<taskVars, orgVars, job, sessVars, dockerVars, slotVars, crashes>>

ScanStuck ==
  Scan("stuck", {RowOf(t) : t \in {u \in Tasks : status[u] = "IN_PROGRESS" /\ Untouched(u)}}, "next")

ScanIdleWorkersReviewed ==
  Scan("reap",
       {RowOfSess(x) : x \in {y \in Sessions :
          /\ sstat[y] = "RUNNING" /\ IdleLong(y)
          /\ \E t \in Tasks : sess[t] = y /\ status[t] \in {"REVIEW", "COMPLETED"}}},
       "next")
ScanIdleWorkers ==
  Scan("reap",
       {RowOfSess(x) : x \in {y \in Sessions :
          /\ sstat[y] = "RUNNING" /\ IdleLong(y)
          /\ \E t \in Tasks : sess[t] = y /\ status[t] \in Finished}},
       "next")

ScanUnstarted ==
  Scan("reconcile", {RowOf(t) : t \in {u \in Tasks : status[u] \in {"PENDING", "QUEUED"}}}, "next")

\* sweepOrphanedDockerResources reads the ids in the database first; whatever
\* is not among them and has a container when Docker lists them is removed.
ScanOrphans ==
  Scan("orphans", {RowOfSess(x) : x \in {y \in Sessions : ~HasRow(y)}}, "listBoxes")

-----------------------------------------------------------------------------
(* The steps requests and sweeps share. *)

\* stopTaskWorker reads the task's session anew.
Detach(h) ==
  LET x == IF item[h].task = NoTask THEN NoSession ELSE sess[item[h].task] IN
  /\ at[h] = "detach"
  /\ JumpWith(h, IF Live(x) THEN "stopBox" ELSE AfterStop(h), [item[h] EXCEPT !.sess = x])
  /\ UNCHANGED <<taskVars, orgVars, job, sessVars, dockerVars, slotVars, todo, crashes>>

StopBox(h) ==
  LET x == item[h].sess IN
  /\ at[h] = "stopBox"
  /\ \/ HasRow(x) /\ StopContainer(x) /\ Jump(h, "stopMark")
     \/ ~HasRow(x) /\ Jump(h, AfterStop(h)) /\ UNCHANGED <<sessVars, dockerVars>>
  /\ UNCHANGED <<taskVars, orgVars, job, slotVars, todo, crashes>>

StopMark(h) ==
  LET x == item[h].sess IN
  /\ at[h] = "stopMark"
  /\ IF HasRow(x) THEN SetSession(x, "COMPLETED") ELSE UNCHANGED sstat
  /\ Jump(h, AfterStop(h))
  /\ UNCHANGED <<taskVars, orgVars, job, owner, named, astray, dockerVars, slotVars, todo, crashes>>

\* Whatever session the task has by now is unlinked.
Unlink(h) ==
  LET t == item[h].task IN
  /\ at[h] = "unlink"
  /\ sess' = [sess EXCEPT ![t] = NoSession]
  /\ Jump(h, "queue")
  /\ UNCHANGED <<status, orgVars, job, sstat, owner, named, dockerVars, slotVars, todo, crashes>>
  /\ TakenForDown(sess[t])

\* The write of QUEUED throws when the task has been removed meanwhile.
Queue(h) ==
  LET t == item[h].task IN
  /\ at[h] = "queue"
  /\ \/ Exists(t) /\ SetStatus(t, "QUEUED") /\ Jump(h, "gate")
     \/ ~Exists(t) /\ Jump(h, Rest(h)) /\ UNCHANGED status
  /\ UNCHANGED <<sess, orgVars, job, sessVars, dockerVars, slotVars, todo, crashes>>

Gate(h) ==
  /\ at[h] = "gate"
  /\ Jump(h, IF paused THEN Rest(h) ELSE "find")
  /\ UNCHANGED <<taskVars, orgVars, job, sessVars, dockerVars, slotVars, todo, crashes>>

\* addTaskJob: findPendingJob, then the removal of a stale job, then the add.
FindPendingJob(h) ==
  /\ at[h] = "find"
  /\ Jump(h, IF HasPendingJob(item[h].task) THEN AfterItem(h) ELSE "drop")
  /\ UNCHANGED <<taskVars, orgVars, job, sessVars, dockerVars, slotVars, todo, crashes>>

DropStaleJobForgotten(h) ==
  /\ at[h] = "drop"
  /\ Jump(h, "add")
  /\ UNCHANGED <<taskVars, orgVars, job, sessVars, dockerVars, slotVars, todo, crashes>>
DropStaleJob(h) ==
  /\ at[h] = "drop"
  /\ job' = [job EXCEPT ![item[h].task] = Removed(@)]
  /\ Jump(h, "add")
  /\ UNCHANGED <<taskVars, orgVars, sessVars, dockerVars, slotVars, todo, crashes>>

AddJobWithFreshId(h) ==
  /\ at[h] = "add"
  /\ job' = [job EXCEPT ![item[h].task] = Added(NoJob)]
  /\ Jump(h, AfterItem(h))
  /\ UNCHANGED <<taskVars, orgVars, sessVars, dockerVars, slotVars, todo, crashes>>
AddJob(h) ==
  /\ at[h] = "add"
  /\ job' = [job EXCEPT ![item[h].task] = Added(@)]
  /\ Jump(h, AfterItem(h))
  /\ UNCHANGED <<taskVars, orgVars, sessVars, dockerVars, slotVars, todo, crashes>>

CancelWriteMisspelt(h) ==
  /\ at[h] = "cancel"
  /\ SetStatus(item[h].task, "CANCELED")
  /\ Jump(h, Rest(h))
  /\ UNCHANGED <<sess, orgVars, job, sessVars, dockerVars, slotVars, todo, crashes>>
CancelWrite(h) ==
  LET t == item[h].task IN
  /\ at[h] = "cancel"
  /\ IF Exists(t) THEN SetStatus(t, "CANCELLED") ELSE UNCHANGED status
  /\ Jump(h, Rest(h))
  /\ UNCHANGED <<sess, orgVars, job, sessVars, dockerVars, slotVars, todo, crashes>>

\* enqueueOrgQueue lists the QUEUED tasks unless paused or auto-pull is off;
\* removeOrgPendingJobs lists the jobs not yet active.
ListQueued(h) ==
  /\ at[h] = "listQueued"
  /\ \/ /\ paused \/ ~autoPull
        /\ Jump(h, Rest(h)) /\ UNCHANGED todo
     \/ /\ ~paused /\ autoPull
        /\ todo' = [todo EXCEPT ![h] = {RowOf(t) : t \in {u \in Tasks : status[u] = "QUEUED"}}]
        /\ Jump(h, "next")
  /\ UNCHANGED <<taskVars, orgVars, job, sessVars, dockerVars, slotVars, crashes>>

ListJobs(h) ==
  /\ at[h] = "listJobs"
  /\ todo' = [todo EXCEPT ![h] =
       {RowOf(t) : t \in {u \in Tasks : job[u].state \in {"waiting", "delayed"}}}]
  /\ Jump(h, "next")
  /\ UNCHANGED <<taskVars, orgVars, job, sessVars, dockerVars, slotVars, crashes>>

\* The next row of the list read before, in any order.
NextRow(h) ==
  /\ at[h] = "next"
  /\ \/ todo[h] = {} /\ Jump(h, Rest(h)) /\ UNCHANGED todo
     \/ \E i \in todo[h] :
          /\ todo' = [todo EXCEPT ![h] = @ \ {i}]
          /\ JumpWith(h, FirstStep(h, i), i)
  /\ UNCHANGED <<taskVars, orgVars, job, sessVars, dockerVars, slotVars, crashes>>

PurgeJob(h) ==
  /\ at[h] = "purge"
  /\ job' = [job EXCEPT ![item[h].task] = Removed(@)]
  /\ Jump(h, AfterItem(h))
  /\ UNCHANGED <<taskVars, orgVars, sessVars, dockerVars, slotVars, todo, crashes>>

\* sweepStuckTasks: the session read with the list, then its container, which
\* counts as gone when Docker does not answer.
InspectByRow(h) ==
  LET x == item[h].sess IN
  /\ at[h] = "inspect"
  /\ Jump(h, IF x # NoSession /\ sstat[x] = "RUNNING" THEN AfterItem(h) ELSE "fail")
  /\ UNCHANGED <<taskVars, orgVars, job, sessVars, dockerVars, slotVars, todo, crashes>>
Inspect(h) ==
  LET x == item[h].sess
      alive == x # NoSession /\ sstat[x] = "RUNNING" /\ x \in named /\ box[x] = "running"
  IN
  /\ at[h] = "inspect"
  /\ \/ alive /\ Jump(h, AfterItem(h))
     \/ (~alive \/ DockerFails) /\ Jump(h, "fail")
  /\ UNCHANGED <<taskVars, orgVars, job, sessVars, dockerVars, slotVars, todo, crashes>>

\* failTask writes FAILED over whatever the status is by now.
FailTask(h) ==
  LET t == item[h].task IN
  /\ at[h] = "fail"
  /\ IF Exists(t) THEN SetStatus(t, "FAILED") ELSE UNCHANGED status
  /\ Jump(h, AfterItem(h))
  /\ UNCHANGED <<sess, orgVars, job, sessVars, dockerVars, slotVars, todo, crashes>>

\* reconcileUnstartedTasks: no live worker, no pending job, not paused.
SkipLive(h) ==
  /\ at[h] = "liveCheck"
  /\ Jump(h, IF Live(item[h].sess) THEN AfterItem(h) ELSE "jobCheck")
  /\ UNCHANGED <<taskVars, orgVars, job, sessVars, dockerVars, slotVars, todo, crashes>>

SkipPending(h) ==
  /\ at[h] = "jobCheck"
  /\ Jump(h, IF HasPendingJob(item[h].task) THEN AfterItem(h) ELSE "heldCheck")
  /\ UNCHANGED <<taskVars, orgVars, job, sessVars, dockerVars, slotVars, todo, crashes>>

SkipPaused(h) ==
  /\ at[h] = "heldCheck"
  /\ Jump(h, IF paused THEN AfterItem(h)
             ELSE IF item[h].status = "QUEUED" THEN "find" ELSE "promote")
  /\ UNCHANGED <<taskVars, orgVars, job, sessVars, dockerVars, slotVars, todo, crashes>>

PromoteTask(h) ==
  LET t == item[h].task IN
  /\ at[h] = "promote"
  /\ IF Exists(t) THEN SetStatus(t, "QUEUED") ELSE UNCHANGED status
  /\ Jump(h, "find")
  /\ UNCHANGED <<sess, orgVars, job, sessVars, dockerVars, slotVars, todo, crashes>>

ListBoxes(h) ==
  /\ at[h] = "listBoxes"
  /\ todo' = [todo EXCEPT ![h] = {i \in @ : box[i.sess] \in {"running", "stopped"}}]
  /\ Jump(h, "next")
  /\ UNCHANGED <<taskVars, orgVars, job, sessVars, dockerVars, slotVars, crashes>>

\* A session goes even when Docker refuses to stop or to remove its container.
RemoveBoxStopping(h) ==
  /\ at[h] = "removeBox"
  /\ BoxStops(item[h].sess)
  /\ Jump(h, IF op[h] = "dropSession" THEN "dropRow" ELSE AfterItem(h))
  /\ UNCHANGED <<taskVars, orgVars, job, sessVars, slotVars, todo, crashes>>
RemoveBox(h) ==
  /\ at[h] = "removeBox"
  /\ \/ BoxGoes(item[h].sess)
     \/ /\ op[h] = "dropSession" /\ DockerFails
        /\ BoxStops(item[h].sess) \/ UNCHANGED dockerVars
  /\ Jump(h, IF op[h] = "dropSession" THEN "dropRow" ELSE AfterItem(h))
  /\ UNCHANGED <<taskVars, orgVars, job, sessVars, slotVars, todo, crashes>>

\* The session row goes; its foreign key sets task.sessionId to null.
DropRowNotUnlinking(h) ==
  LET x == item[h].sess IN
  /\ at[h] = "dropRow"
  /\ IF HasRow(x) THEN SetSession(x, "DELETED") ELSE UNCHANGED sstat
  /\ Jump(h, Rest(h))
  /\ UNCHANGED <<taskVars, orgVars, job, owner, named, dockerVars, slotVars, todo, crashes>>
  /\ TakenForDown(x)
DropRow(h) ==
  LET x == item[h].sess IN
  /\ at[h] = "dropRow"
  /\ IF HasRow(x) THEN SetSession(x, "DELETED") ELSE UNCHANGED sstat
  /\ sess' = [t \in Tasks |-> IF sess[t] = x THEN NoSession ELSE sess[t]]
  /\ Jump(h, Rest(h))
  /\ UNCHANGED <<status, orgVars, job, owner, named, dockerVars, slotVars, todo, crashes>>
  /\ TakenForDown(x)

ThreadStep(h) ==
  \/ Detach(h) \/ StopBox(h) \/ StopMark(h) \/ Unlink(h) \/ Queue(h) \/ Gate(h)
  \/ FindPendingJob(h) \/ DropStaleJob(h) \/ AddJob(h) \/ CancelWrite(h)
  \/ ListQueued(h) \/ ListJobs(h) \/ NextRow(h) \/ PurgeJob(h) \/ Inspect(h)
  \/ FailTask(h) \/ SkipLive(h) \/ SkipPending(h) \/ SkipPaused(h)
  \/ PromoteTask(h) \/ ListBoxes(h) \/ RemoveBox(h) \/ DropRow(h)

-----------------------------------------------------------------------------
(* BullMQ, Docker, the agent, a reader of the session list, a restart. *)

Retry(t) ==
  /\ job[t].state = "delayed"
  /\ job' = [job EXCEPT ![t] = Promoted(@)]
  /\ UNCHANGED <<taskVars, orgVars, sessVars, dockerVars, slotVars, threadVars, crashes>>

\* A job whose slot went away with a restart.
Stall(t) ==
  /\ job[t].state = "active"
  /\ \A s \in Slots : pc[s] = "idle" \/ cur[s] # t
  /\ job' = [job EXCEPT ![t] = Stalled(@)]
  /\ UNCHANGED <<taskVars, orgVars, sessVars, dockerVars, slotVars, threadVars, crashes>>

\* The agent (or a person continuing in its container) calls citshe-status.
SetWorkerStatus(x, v) ==
  /\ box[x] = "running" /\ agent[x] # "none" /\ Exists(owner[x])
  /\ v # status[owner[x]]
  /\ SetStatus(owner[x], v)
  /\ UNCHANGED <<sess, orgVars, job, sessVars, dockerVars, slotVars, threadVars, crashes>>

AgentExits(x) ==
  /\ box[x] = "running" /\ agent[x] = "working"
  /\ \E a \in {"ok", "error"} : agent' = [agent EXCEPT ![x] = a]
  /\ UNCHANGED <<taskVars, orgVars, job, sessVars, box, slotVars, threadVars, crashes>>

BoxDies(x) ==
  /\ box[x] = "running"
  /\ BoxStops(x)
  /\ UNCHANGED <<taskVars, orgVars, job, sessVars, slotVars, threadVars, crashes>>

\* syncContainerStates, for every list of sessions the panel asks for: a
\* container counts as gone when Docker does not answer.
SyncContainerState(x) ==
  /\ sstat[x] \in {"CREATING", "RUNNING"} /\ x \in named
  /\ UNCHANGED <<taskVars, orgVars, job, owner, dockerVars, slotVars, threadVars, crashes>>
  /\ \/ /\ sstat[x] = "CREATING" /\ box[x] = "running"
        /\ SetSession(x, "RUNNING")
        /\ UNCHANGED <<named, astray>>
     \/ /\ box[x] # "running" \/ DockerFails
        /\ SetSession(x, "COMPLETED")
        /\ named' = named \ {x}
        /\ TakenForDown(x)

\* The API server stops at any await and starts again.  The database and Redis
\* stay as they are; the containers older than 48 hours are removed.
Crash ==
  /\ crashes < MaxCrashes
  /\ crashes' = crashes + 1
  /\ \E old \in SUBSET {x \in Sessions : box[x] \in {"running", "stopped"}} :
       /\ box' = [x \in Sessions |-> IF x \in old THEN "gone" ELSE box[x]]
       /\ agent' = [x \in Sessions |-> IF x \in old THEN "none" ELSE agent[x]]
  /\ pc' = [s \in Slots |-> "idle"]
  /\ at' = [h \in Threads |-> IF h \in Sweeps THEN "idle"
                              ELSE IF at[h] = "new" THEN "new" ELSE "done"]
  /\ cur' = [s \in Slots |-> NoTask]
  /\ hand' = [s \in Slots |-> NoSession]
  /\ seen' = [s \in Slots |-> "PENDING"]
  /\ op' = [h \in Threads |-> IF h \in Sweeps THEN h ELSE "none"]
  /\ item' = [h \in Threads |-> NoRow]
  /\ todo' = [h \in Threads |-> {}]
  /\ UNCHANGED <<taskVars, orgVars, job, sessVars>>

Watchdog == ScanStuck \/ ScanIdleWorkers \/ ScanUnstarted \/ ScanOrphans

Environment ==
  \/ \E r \in Requests : RequestStart(r)
  \/ \E x \in Sessions :
       \/ AgentExits(x) \/ BoxDies(x) \/ SyncContainerState(x)
       \/ \E v \in WorkerMaySet : SetWorkerStatus(x, v)
  \/ Crash

Next ==
  \/ \E s \in Slots : SlotStep(s) \/ \E t \in Tasks : Pull(s, t)
  \/ \E t \in Tasks : Retry(t) \/ Stall(t)
  \/ \E h \in Threads : ThreadStep(h)
  \/ Watchdog
  \/ Environment

Spec == Init /\ [][Next]_vars

\* What runs by itself: the server's own steps, BullMQ's timers and the
\* watchdog's interval.  Nothing is assumed of users, agents or Docker.
Fairness ==
  /\ \A s \in Slots : WF_vars(SlotStep(s))
  /\ \A h \in Threads : WF_vars(ThreadStep(h))
  /\ \A t \in Tasks :
       WF_vars(\E s \in Slots : Pull(s, t)) /\ WF_vars(Retry(t)) /\ WF_vars(Stall(t))
  /\ WF_vars(ScanStuck) /\ WF_vars(ScanIdleWorkers)
  /\ WF_vars(ScanUnstarted) /\ WF_vars(ScanOrphans)

FairSpec == Spec /\ Fairness

-----------------------------------------------------------------------------
(* Safety. *)

\* Every variable stays within its type.
TypeOK ==
  /\ status \in [Tasks -> Status]
  /\ sess \in [Tasks -> SessRef]
  /\ paused \in BOOLEAN /\ autoPull \in BOOLEAN
  /\ job \in [Tasks -> Job]
  /\ sstat \in [Sessions -> {"UNUSED", "CREATING", "RUNNING", "COMPLETED", "FAILED", "DELETED"}]
  /\ owner \in [Sessions -> TaskRef]
  /\ named \subseteq Sessions /\ astray \subseteq Sessions
  /\ box \in [Sessions -> {"none", "running", "stopped", "gone"}]
  /\ agent \in [Sessions -> {"none", "working", "ok", "error"}]
  /\ pc \in [Slots -> SlotPC]
  /\ cur \in [Slots -> TaskRef]
  /\ hand \in [Slots -> SessRef]
  /\ seen \in [Slots -> Status]
  /\ at \in [Threads -> ThreadPC]
  /\ op \in [Threads -> OpName \cup Sweeps]
  /\ item \in [Threads -> Row]
  /\ todo \in [Threads -> SUBSET Row]
  /\ crashes \in 0..MaxCrashes

\* No two slots ever execute the same task: addTaskJob never makes a second
\* job for a task whose job is being worked on.
OneRunPerTask ==
  \A s, z \in Slots : pc[s] # "idle" /\ pc[z] # "idle" /\ cur[s] = cur[z] => s = z

\* The job of a slot at work is locked for as long as the slot works on it: no
\* request, sweep or timer of BullMQ takes the job away or hands it out again.
SlotsHoldJobs ==
  \A s \in Slots : pc[s] # "idle" => cur[s] \in Tasks /\ job[cur[s]].state = "active"

\* A task is only ever linked to a session row that exists and was created for
\* it, whatever was deleted, restarted or re-queued meanwhile.
LinkedToOwnWorker ==
  \A t \in Tasks : sess[t] # NoSession => HasRow(sess[t]) /\ owner[sess[t]] = t

Working(x) == box[x] = "running" /\ agent[x] = "working"

\* Two agents work on one task only where the code has taken one of them for
\* down while it was not: Docker had refused the stop or not answered, or the
\* task was closed, re-queued or its session deleted before the container was
\* up or in spite of it.  Nothing else lets a second agent in, no retry,
\* restart, sweep, removal or re-run.
OneAgentPerTask ==
  \A x, y \in Sessions :
    Working(x) /\ Working(y) /\ owner[x] = owner[y] => x = y \/ x \in astray \/ y \in astray

\* The task each slot executes, counted from the claim on.
Running == [s \in Slots |-> IF pc[s] \in AfterClaim THEN cur[s] ELSE NoTask]

\* The queue implements the pool of workers of WorkerPool: runs begin one at a
\* time and never for a task that is being run, and end one at a time.
Pool == INSTANCE WorkerPool WITH Workers <- Slots, Free <- NoTask, run <- Running
PoolSpec == Pool!Spec

-----------------------------------------------------------------------------
(* Liveness. *)

\* A slot that has taken a job comes free again, whatever happens to the
\* container, the session, the task or the agent.
SlotsComeFree == \A s \in Slots : pc[s] # "idle" ~> pc[s] = "idle"

Waits(t) ==
  status[t] = "QUEUED" /\ ~paused /\ ~Live(sess[t]) /\ job[t].state # "failed"

\* A QUEUED task does not wait for ever in an unpaused queue, even when the
\* request or the server that should have added its job did not get to it.
\* (Not so when its job has failed for good, see FinishedJobsMakeRoom, or
\* while executeTask takes its old worker for a live one.)
WaitingTasksStart == \A t \in Tasks : Waits(t) ~> ~Waits(t)

Ghost(t) ==
  /\ status[t] = "IN_PROGRESS"
  /\ sess[t] # NoSession => ~(sstat[sess[t]] = "RUNNING" /\ box[sess[t]] = "running")

\* A task does not stay IN_PROGRESS when its worker has died.
GhostsEnd == \A t \in Tasks : Ghost(t) ~> ~Ghost(t)

Idles(x) ==
  /\ sstat[x] = "RUNNING" /\ box[x] = "running" /\ x \notin astray
  /\ \E t \in Tasks : sess[t] = x /\ status[t] \in Finished

\* The container of a finished task's worker does not stay up for ever: it goes
\* down, unless Docker refuses the stop (no sweep tries again: the session is
\* astray, and COMPLETED) or the task is taken up again or removed.
FinishedWorkersStop ==
  \A x \in Sessions :
    Idles(x) ~> \/ box[x] # "running" \/ x \in astray
                \/ ~\E t \in Tasks : sess[t] = x /\ status[t] \in Finished

\* A container whose session row is gone is removed in the end.
OrphansRemoved ==
  LET Left(x) == sstat[x] = "DELETED" /\ box[x] \in {"running", "stopped"}
  IN  \A x \in Sessions : Left(x) ~> ~Left(x)

-----------------------------------------------------------------------------
(* What comments of the code say and the code does not do: each of these   *)
(* is violated, in a run of its own.                                       *)

\* "Remove any leftover finished job first so add() actually enqueues": a
\* QUEUED task without a live worker starts, its old job failed or not.
FinishedJobsMakeRoom ==
  LET Wait(t) == status[t] = "QUEUED" /\ ~paused /\ ~Live(sess[t])
  IN  \A t \in Tasks : Wait(t) ~> ~Wait(t)

\* "failures re-throw so BullMQ retries": a retry is not skipped because its
\* own failed attempt has left the task IN_PROGRESS.
RetriesRun ==
  [][\A s \in Slots : pc[s] = "read" /\ pc'[s] = "ack" /\ job[cur[s]].attempts > 0 =>
       status[cur[s]] # "IN_PROGRESS"]_vars

\* "Closing a task sleeps its worker terminal: stop the container now": a
\* session marked COMPLETED does not keep a running container for ever.
CompletedWorkersSleep ==
  LET Awake(x) == sstat[x] = "COMPLETED" /\ box[x] = "running"
  IN  \A x \in Sessions : Awake(x) ~> ~Awake(x)
=============================================================================

------------------------------- MODULE Schedules -------------------------------
(***************************************************************************)
(* One schedule of the panel: its row, the BullMQ job scheduler it is kept *)
(* in step with (schedules.service.ts), and the firings                    *)
(* (schedules.processor.ts).                                               *)
(*                                                                         *)
(* A request is a create, an update or a remove; a step is one await.  A   *)
(* plan is a cron pattern with its time zone.                              *)
(***************************************************************************)
EXTENDS Naturals

CONSTANTS MaxEdits, \* requests (a bound)
          Firings,  \* the jobs of the queue
          Plans,    \* the patterns a schedule may have
          NoPlan

ASSUME ScheduleAssumption == MaxEdits \in Nat /\ NoPlan \notin Plans

Edits == 1..MaxEdits

VARIABLES
  plan,       \* the row's pattern; NoPlan: there is no row
  enabled,    \* the row's switch
  scheduler,  \* the pattern of the job scheduler; NoPlan: there is none
  edit,       \* where each request is
  row,        \* the row it has written and goes on with
  alone,      \* no other request has been under way with it
  insync,     \* the last request has ended, alone and without an error
  firing,     \* where each job is
  tasks,      \* the tasks each job has created
  stalls      \* its restarts

scheduleVars == <<plan, enabled, scheduler, edit, row, alone, insync, firing, tasks, stalls>>

NoScheduleRow == [plan |-> NoPlan, enabled |-> FALSE]

ScheduleInit ==
  /\ plan = NoPlan /\ enabled = FALSE /\ scheduler = NoPlan
  /\ edit = [e \in Edits |-> "new"] /\ row = [e \in Edits |-> NoScheduleRow]
  /\ alone = [e \in Edits |-> TRUE] /\ insync = TRUE
  /\ firing = [j \in Firings |-> "none"]
  /\ tasks = [j \in Firings |-> 0] /\ stalls = [j \in Firings |-> 0]

EditAt(e, s) == edit' = [edit EXCEPT ![e] = s]
Forget(e) == row' = [row EXCEPT ![e] = NoScheduleRow]
EditsUnderWay == {e \in Edits : edit[e] \notin {"new", "over"}}

\* Request e begins: it and all that are under way have company then.
Joins(e) ==
  /\ edit[e] = "new" /\ \A x \in 1..e - 1 : edit[x] # "new"
  /\ alone' = [x \in Edits |-> IF x = e THEN EditsUnderWay = {} ELSE alone[x] /\ x \notin EditsUnderWay]
  /\ insync' = FALSE

-----------------------------------------------------------------------------
(* The requests. *)

CreateSchedule(e) ==
  /\ Joins(e) /\ plan = NoPlan
  /\ \E p \in Plans, on \in BOOLEAN :
       /\ plan' = p /\ enabled' = on
       /\ row' = [row EXCEPT ![e] = [plan |-> p, enabled |-> on]]
  /\ EditAt(e, "clear")
  /\ UNCHANGED <<scheduler, firing, tasks, stalls>>

\* getOr404, of an update or a remove.
FindSchedule(e) ==
  /\ Joins(e) /\ plan # NoPlan
  /\ \E s \in {"update", "remove"} : EditAt(e, s)
  /\ UNCHANGED <<plan, enabled, scheduler, row, firing, tasks, stalls>>

\* What the request does not name stays; a row that is gone is an error.
UpdateRow(e) ==
  /\ edit[e] = "update"
  /\ IF plan = NoPlan THEN EditAt(e, "over") /\ UNCHANGED <<plan, enabled, row>>
     ELSE \E p \in Plans, on \in BOOLEAN :
            /\ plan' = p /\ enabled' = on
            /\ row' = [row EXCEPT ![e] = [plan |-> p, enabled |-> on]]
            /\ EditAt(e, "clear")
  /\ UNCHANGED <<scheduler, alone, insync, firing, tasks, stalls>>

\* syncScheduler: a scheduler it cannot remove is passed over.
ClearSchedulerIfEnabled(e) ==
  /\ edit[e] = "clear"
  /\ scheduler' = IF row[e].enabled THEN NoPlan ELSE scheduler
  /\ IF row[e].enabled THEN EditAt(e, "upsert") /\ UNCHANGED row ELSE EditAt(e, "over") /\ Forget(e)
  /\ insync' = (alone[e] /\ ~row[e].enabled)
  /\ UNCHANGED <<plan, enabled, alone, firing, tasks, stalls>>
ClearScheduler(e) ==
  /\ edit[e] = "clear"
  /\ \/ scheduler' = NoPlan /\ insync' = (alone[e] /\ ~row[e].enabled)
     \/ UNCHANGED scheduler /\ insync' = FALSE
  /\ IF row[e].enabled THEN EditAt(e, "upsert") /\ UNCHANGED row ELSE EditAt(e, "over") /\ Forget(e)
  /\ UNCHANGED <<plan, enabled, alone, firing, tasks, stalls>>

UpsertScheduler(e) ==
  /\ edit[e] = "upsert"
  /\ \/ scheduler' = row[e].plan /\ insync' = alone[e]
     \/ UNCHANGED scheduler /\ insync' = FALSE
  /\ EditAt(e, "over") /\ Forget(e)
  /\ UNCHANGED <<plan, enabled, alone, firing, tasks, stalls>>

RemoveScheduler(e) ==
  /\ edit[e] = "remove"
  /\ \/ scheduler' = NoPlan /\ UNCHANGED alone
     \/ UNCHANGED scheduler /\ alone' = [alone EXCEPT ![e] = FALSE]
  /\ EditAt(e, "delete")
  /\ UNCHANGED <<plan, enabled, row, insync, firing, tasks, stalls>>

DeleteRow(e) ==
  /\ edit[e] = "delete"
  /\ plan' = NoPlan /\ enabled' = FALSE
  /\ insync' = (alone[e] /\ plan # NoPlan)
  /\ EditAt(e, "over")
  /\ UNCHANGED <<scheduler, row, alone, firing, tasks, stalls>>

\* The server restarts between two steps.
EditCut ==
  /\ EditsUnderWay # {}
  /\ edit' = [e \in Edits |-> IF e \in EditsUnderWay THEN "over" ELSE edit[e]]
  /\ row' = [e \in Edits |-> NoScheduleRow]
  /\ UNCHANGED <<plan, enabled, scheduler, alone, insync, firing, tasks, stalls>>

-----------------------------------------------------------------------------
(* The firings. *)

FiringAt(j, s) == firing' = [firing EXCEPT ![j] = s]

\* The clock of the scheduler, or "Run now".
FireSchedule(j) ==
  /\ firing[j] = "none" /\ (scheduler # NoPlan \/ plan # NoPlan)
  /\ FiringAt(j, "read")
  /\ UNCHANGED <<plan, enabled, scheduler, edit, row, alone, insync, tasks, stalls>>

ReadSchedule(j) ==
  /\ firing[j] = "read"
  /\ FiringAt(j, IF plan # NoPlan /\ enabled THEN "create" ELSE "over")
  /\ UNCHANGED <<plan, enabled, scheduler, edit, row, alone, insync, tasks, stalls>>

\* tasksService.create throws where the repository is gone.
CreateTask(j) ==
  /\ firing[j] = "create"
  /\ \/ tasks' = [tasks EXCEPT ![j] = @ + 1] /\ FiringAt(j, "stamp")
     \/ UNCHANGED tasks /\ FiringAt(j, "over")
  /\ UNCHANGED <<plan, enabled, scheduler, edit, row, alone, insync, stalls>>

\* lastRunAt; it throws when the row is gone.  A failed job is not tried again.
StampRunRetried(j) ==
  /\ firing[j] = "stamp"
  /\ FiringAt(j, IF plan = NoPlan THEN "create" ELSE "over")
  /\ UNCHANGED <<plan, enabled, scheduler, edit, row, alone, insync, tasks, stalls>>
StampRun(j) ==
  /\ firing[j] = "stamp"
  /\ FiringAt(j, "over")
  /\ UNCHANGED <<plan, enabled, scheduler, edit, row, alone, insync, tasks, stalls>>

\* The job of a server that died is run once more from its beginning.
StallFiring(j) ==
  /\ firing[j] \in {"read", "create", "stamp"}
  /\ stalls' = [stalls EXCEPT ![j] = 1]
  /\ FiringAt(j, IF stalls[j] = 0 THEN "read" ELSE "over")
  /\ UNCHANGED <<plan, enabled, scheduler, edit, row, alone, insync, tasks>>

ScheduleNext ==
  \/ \E e \in Edits : \/ CreateSchedule(e) \/ FindSchedule(e) \/ UpdateRow(e) \/ ClearScheduler(e)
                      \/ UpsertScheduler(e) \/ RemoveScheduler(e) \/ DeleteRow(e)
  \/ EditCut
  \/ \E j \in Firings : FireSchedule(j) \/ ReadSchedule(j) \/ CreateTask(j) \/ StampRun(j) \/ StallFiring(j)

ScheduleSpec == ScheduleInit /\ [][ScheduleNext]_scheduleVars

-----------------------------------------------------------------------------
\* Every variable of the schedule stays within its type.
ScheduleTypeOK ==
  /\ plan \in Plans \cup {NoPlan} /\ scheduler \in Plans \cup {NoPlan}
  /\ enabled \in BOOLEAN /\ insync \in BOOLEAN
  /\ edit \in [Edits -> {"new", "update", "clear", "upsert", "remove", "delete", "over"}]
  /\ row \in [Edits -> [plan : Plans \cup {NoPlan}, enabled : BOOLEAN]]
  /\ alone \in [Edits -> BOOLEAN]
  /\ firing \in [Firings -> {"none", "read", "create", "stamp", "over"}]
  /\ tasks \in [Firings -> Nat] /\ stalls \in [Firings -> {0, 1}]

\* "Each enabled schedule owns one job scheduler [...] Disabling or deleting a
\* schedule removes its scheduler": a request that ends well and had no company
\* leaves them in step, whatever overlaps, errors and restarts came before it.
SchedulerFollowsRow ==
  insync => scheduler = IF enabled THEN plan ELSE NoPlan

\* A firing creates one task, and a second one only when the server died in it;
\* a stamp that fails after the task was created brings no retry.
FiresOnce == \A j \in Firings : tasks[j] <= 1 + stalls[j]
=============================================================================

-------------------------- MODULE SessionLifecycle --------------------------
(***************************************************************************)
(* One session of the panel: its row, the containers it has had one after  *)
(* another, and where the work done in it is kept (sessions.controller.ts, *)
(* sessions.service.ts, session-container.service.ts), whether it was      *)
(* created in the panel or imported by the command line                    *)
(* (session-import.service.ts).                                            *)
(*                                                                         *)
(* A request is a chain of awaits on the database and on Docker; it keeps  *)
(* the container it read at its start.  The requests, the creation, its    *)
(* 5-minute timer and the list a panel shows all interleave, and a restart *)
(* of the API server ends all of them where they are.                      *)
(*                                                                         *)
(* An operator right before the action whose name it begins with is that   *)
(* action with a plausible bug; it tests the properties.                   *)
(***************************************************************************)
EXTENDS Naturals, FiniteSets

CONSTANTS Requests,   \* calls of the session API (a bound)
          Ops,        \* what they may ask for
          Origins,    \* how the session may have been made
          NoBox,      \* containerId is null
          MaxBoxes,   \* containers the session may have in all (a bound)
          MaxCrashes, \* restarts of the API server (a bound)
          DockerFails \* may Docker refuse a call, or leave an inspection unanswered?

ASSUME SessionAssumption ==
  /\ Ops \subseteq {"stop", "pause", "resume", "recreate", "delete"}
  /\ Origins \subseteq {"create", "import"}
  /\ {"creation", "timer", "panel"} \cap Requests = {}
  /\ MaxBoxes \in Nat /\ NoBox \notin 1..MaxBoxes
  /\ Requests \cap ((1..MaxBoxes) \cup {NoBox}) = {}
  /\ MaxCrashes \in Nat /\ DockerFails \in BOOLEAN

Boxes  == 1..MaxBoxes
Actors == Requests \cup {"creation", "timer", "panel"}
Status == {"CREATING", "RUNNING", "PAUSED", "COMPLETED", "FAILED", "DELETED"}
Place  == {"idle", "done", "apply", "inspect", "inspectNew", "commit", "halt", "remove",
           "erase", "build", "start", "persist", "restart", "mark", "fail",
           "unimage", "stage", "armed", "promote", "drop"}

VARIABLES
  row,     \* the AgentSession: status and containerId; DELETED: there is none
  box,     \* each container: none yet, stopped, running or gone
  worked,  \* somebody has worked in the session
  kept,    \* where that work is: in containers, and in the snapshots of requests
  op,      \* what each actor does
  pc,      \* where it is
  cid,     \* the container it has read or made
  snap,    \* the recreates that have made a snapshot
  blind,   \* history: a recreate did not see the work it removes, or the cleanup
           \* at a start of the server removed the last of it
  crashes

vars == <<row, box, worked, kept, op, pc, cid, snap, blind, crashes>>

Init ==
  /\ row = [status |-> "CREATING", cid |-> NoBox]
  /\ box = [b \in Boxes |-> "none"]
  /\ worked = FALSE /\ kept = {} /\ snap = {} /\ blind = FALSE
  /\ \E o \in Origins :
       /\ op = [a \in Actors |-> IF a = "creation" THEN o ELSE "none"]
       /\ pc = [a \in Actors |-> CASE a = "creation" -> "build"
                                   [] a = "timer" /\ o = "create" -> "armed"
                                   [] OTHER -> "idle"]
  /\ cid = [a \in Actors |-> NoBox]
  /\ crashes = 0

-----------------------------------------------------------------------------
Exists == row.status # "DELETED"

\* Actor a goes on at p, and forgets its container when it is through.
Go(a, p) ==
  /\ pc' = [pc EXCEPT ![a] = p]
  /\ cid' = IF p \in {"idle", "done"} THEN [cid EXCEPT ![a] = NoBox] ELSE cid
\* It goes on with container b.
GoWith(a, p, b) == pc' = [pc EXCEPT ![a] = p] /\ cid' = [cid EXCEPT ![a] = b]

\* updateStatus: throws when the row is gone.
SetStatus(s) == row' = IF Exists THEN [row EXCEPT !.status = s] ELSE row

\* A call that Docker may refuse, and whose failure is only logged.
TryBox(b, s) == box' = [box EXCEPT ![b] = s] \/ (DockerFails /\ UNCHANGED box)

\* stop() acts on what runs.
Stopped(b) == IF box[b] = "running" THEN "stopped" ELSE box[b]

\* Docker gives a name to one container at a time.
NameFree == \A b \in Boxes : box[b] \in {"none", "gone"}

-----------------------------------------------------------------------------
(* The requests. *)

\* findOne and the check of the status.
Receive(r, o, from, first) ==
  /\ pc[r] = "idle" /\ row.status \in from
  /\ op' = [op EXCEPT ![r] = o]
  /\ GoWith(r, first, row.cid)
  /\ UNCHANGED <<row, box, worked, kept, snap, blind, crashes>>

AskPause(r)  == Receive(r, "pause", {"RUNNING"}, "mark")
AskResume(r) == row.cid # NoBox /\ Receive(r, "resume", {"PAUSED", "COMPLETED"}, "inspect")
AskStop(r)   == Receive(r, "stop", {"RUNNING", "PAUSED"}, IF row.cid = NoBox THEN "mark" ELSE "halt")
AskDelete(r) == Receive(r, "delete", Status \ {"DELETED"}, IF row.cid = NoBox THEN "erase" ELSE "halt")
AskRecreate(r) == Receive(r, "recreate", {"COMPLETED", "FAILED"}, "apply")

Request(r) ==
  \/ "pause" \in Ops /\ AskPause(r)
  \/ "resume" \in Ops /\ AskResume(r)
  \/ "stop" \in Ops /\ AskStop(r)
  \/ "delete" \in Ops /\ AskDelete(r)
  \/ "recreate" \in Ops /\ AskRecreate(r)

\* applyRecreateConfig: from here on the request goes on in the background.
Apply(r) ==
  /\ pc[r] = "apply"
  /\ IF Exists THEN /\ row' = [status |-> "CREATING", cid |-> NoBox]
                    /\ Go(r, IF cid[r] = NoBox THEN "build" ELSE "inspect")
               ELSE UNCHANGED row /\ Go(r, "done")
  /\ UNCHANGED <<box, worked, kept, op, snap, blind, crashes>>

\* getContainerState of a recreate: what is there is snapshotted, and what
\* Docker does not answer for counts as gone.
InspectOldRunningOnly(r) ==
  /\ pc[r] = "inspect" /\ op[r] = "recreate"
  /\ Go(r, IF box[cid[r]] # "running" THEN "halt" ELSE "commit")
  /\ UNCHANGED <<row, box, worked, kept, op, snap, blind, crashes>>
InspectOld(r) ==
  /\ pc[r] = "inspect" /\ op[r] = "recreate"
  /\ \/ box[cid[r]] # "gone" /\ Go(r, "commit") /\ UNCHANGED blind
     \/ /\ DockerFails \/ box[cid[r]] = "gone"
        /\ Go(r, "halt")
        /\ blind' = (blind \/ cid[r] \in kept)
  /\ UNCHANGED <<row, box, worked, kept, op, snap, crashes>>

Commit(r) ==
  /\ pc[r] = "commit"
  /\ \/ /\ box[cid[r]] # "gone"
        /\ snap' = snap \cup {r}
        /\ kept' = IF cid[r] \in kept THEN kept \cup {r} ELSE kept
        /\ Go(r, "halt")
     \/ UNCHANGED <<snap, kept>> /\ Go(r, "fail")
  /\ UNCHANGED <<row, box, worked, op, blind, crashes>>

\* stopContainer.
Halt(r) ==
  /\ pc[r] = "halt"
  /\ TryBox(cid[r], Stopped(cid[r]))
  /\ Go(r, IF op[r] = "stop" THEN "mark" ELSE "remove")
  /\ UNCHANGED <<row, worked, kept, op, snap, blind, crashes>>

\* removeContainer.
Remove(r) ==
  /\ pc[r] = "remove"
  /\ TryBox(cid[r], "gone")
  /\ kept' = {k \in kept : k \in Boxes => box'[k] # "gone"}
  /\ Go(r, IF op[r] = "delete" THEN "erase" ELSE "build")
  /\ UNCHANGED <<row, worked, op, snap, blind, crashes>>

Erase(r) ==
  /\ pc[r] = "erase"
  /\ row' = [status |-> "DELETED", cid |-> NoBox]
  /\ Go(r, "done")
  /\ UNCHANGED <<box, worked, kept, op, snap, blind, crashes>>

\* getContainerState of a resume: nothing to do for a container that runs.
InspectResume(r) ==
  /\ pc[r] = "inspect" /\ op[r] = "resume"
  /\ \/ (DockerFails \/ box[cid[r]] = "gone") /\ Go(r, "done")
     \/ box[cid[r]] = "stopped" /\ Go(r, "restart")
     \/ box[cid[r]] = "running" /\ Go(r, "mark")
  /\ UNCHANGED <<row, box, worked, kept, op, snap, blind, crashes>>

\* restartContainer: an error ends the request.
Restart(r) ==
  /\ pc[r] = "restart"
  /\ \/ box[cid[r]] = "stopped" /\ box' = [box EXCEPT ![cid[r]] = "running"] /\ Go(r, "mark")
     \/ UNCHANGED box /\ Go(r, "done")
  /\ UNCHANGED <<row, worked, kept, op, snap, blind, crashes>>

-----------------------------------------------------------------------------
(* createAndStart, of the creation and of a recreate. *)

\* What a recreate reads before it may fail as well.
Build(a) ==
  /\ pc[a] = "build"
  /\ \/ \E b \in Boxes :
          /\ NameFree /\ box[b] = "none" /\ \A c \in Boxes : c < b => box[c] # "none"
          /\ box' = [box EXCEPT ![b] = "stopped"]
          /\ kept' = IF a \in snap \cap kept THEN kept \cup {b} ELSE kept
          /\ GoWith(a, "start", b)
     \/ UNCHANGED <<box, kept>> /\ Go(a, "fail")
  /\ UNCHANGED <<row, worked, op, snap, blind, crashes>>

Start(a) ==
  /\ pc[a] = "start"
  /\ \/ box[cid[a]] = "stopped" /\ box' = [box EXCEPT ![cid[a]] = "running"] /\ Go(a, "persist")
     \/ UNCHANGED box /\ Go(a, "fail")
  /\ UNCHANGED <<row, worked, kept, op, snap, blind, crashes>>

\* onStarted; the copy of a local folder that follows may fail.
Persist(a) ==
  /\ pc[a] = "persist"
  /\ row' = IF Exists THEN [row EXCEPT !.cid = cid[a]] ELSE row
  /\ \E p \in {"mark", "fail"} : (p = "fail" => op[a] = "create") /\ Go(a, p)
  /\ UNCHANGED <<box, worked, kept, op, snap, blind, crashes>>

MarkStarted(a) ==
  /\ pc[a] = "mark" /\ op[a] \in {"create", "import", "recreate"}
  /\ IF Exists THEN /\ row' = [status |-> "RUNNING", cid |-> cid[a]]
                    /\ Go(a, CASE a \in snap -> "unimage" [] op[a] = "import" -> "stage" [] OTHER -> "done")
               ELSE UNCHANGED row /\ Go(a, "fail")
  /\ UNCHANGED <<box, worked, kept, op, snap, blind, crashes>>

\* An import puts the history into the container and resumes it there; a
\* failure leaves the container as it is.
Stage(a) ==
  /\ pc[a] = "stage"
  /\ \/ box[cid[a]] = "running" /\ Go(a, "done")
     \/ Go(a, "fail")
  /\ UNCHANGED <<row, box, worked, kept, op, snap, blind, crashes>>

FailCreationOnly(a) ==
  /\ pc[a] = "fail"
  /\ IF op[a] = "create" THEN SetStatus("FAILED") ELSE UNCHANGED row
  /\ Go(a, "done")
  /\ UNCHANGED <<box, worked, kept, op, snap, blind, crashes>>
Fail(a) ==
  /\ pc[a] = "fail"
  /\ SetStatus("FAILED")
  /\ Go(a, "done")
  /\ UNCHANGED <<box, worked, kept, op, snap, blind, crashes>>

\* removeImage: Docker may refuse it while a container uses the image.
Unimage(r) ==
  /\ pc[r] = "unimage"
  /\ kept' \in {kept, kept \ {r}}
  /\ Go(r, "done")
  /\ UNCHANGED <<row, box, worked, op, snap, blind, crashes>>

-----------------------------------------------------------------------------
(* What the other requests, the timer and the list write in the end. *)

MarkRequestShort(r) ==
  /\ pc[r] = "mark" /\ op[r] \in {"pause", "resume", "stop"}
  /\ SetStatus(CASE op[r] = "pause" -> "PAUSE" [] op[r] = "resume" -> "RUNNING" [] OTHER -> "COMPLETED")
  /\ Go(r, "done")
  /\ UNCHANGED <<box, worked, kept, op, snap, blind, crashes>>
MarkRequest(r) ==
  /\ pc[r] = "mark" /\ op[r] \in {"pause", "resume", "stop"}
  /\ SetStatus(CASE op[r] = "pause" -> "PAUSED" [] op[r] = "resume" -> "RUNNING" [] OTHER -> "COMPLETED")
  /\ Go(r, "done")
  /\ UNCHANGED <<box, worked, kept, op, snap, blind, crashes>>

\* 5 minutes after the request that created the session.
TimerFires ==
  /\ pc["timer"] = "armed"
  /\ Go("timer", IF row.status = "CREATING" THEN "mark" ELSE "done")
  /\ UNCHANGED <<row, box, worked, kept, op, snap, blind, crashes>>

TimerMarks ==
  /\ pc["timer"] = "mark"
  /\ SetStatus("FAILED")
  /\ Go("timer", "done")
  /\ UNCHANGED <<box, worked, kept, op, snap, blind, crashes>>

\* syncContainerStates, on the row the list was made from.
ListSessions ==
  /\ pc["panel"] = "idle" /\ row.status \in {"RUNNING", "CREATING"} /\ row.cid # NoBox
  /\ GoWith("panel", IF row.status = "CREATING" THEN "inspectNew" ELSE "inspect", row.cid)
  /\ UNCHANGED <<row, box, worked, kept, op, snap, blind, crashes>>

InspectListedGone ==
  /\ pc["panel"] \in {"inspect", "inspectNew"}
  /\ LET state == box[cid["panel"]]
     IN  Go("panel", CASE state = "gone" -> "drop" [] pc["panel"] = "inspectNew" -> "promote"
                       [] OTHER -> "idle")
  /\ UNCHANGED <<row, box, worked, kept, op, snap, blind, crashes>>
InspectListed ==
  /\ pc["panel"] \in {"inspect", "inspectNew"}
  /\ LET up == box[cid["panel"]] = "running"
     IN  \/ (DockerFails \/ ~up) /\ Go("panel", "drop")
         \/ up /\ Go("panel", IF pc["panel"] = "inspectNew" THEN "promote" ELSE "idle")
  /\ UNCHANGED <<row, box, worked, kept, op, snap, blind, crashes>>

Promote ==
  /\ pc["panel"] = "promote"
  /\ SetStatus("RUNNING")
  /\ Go("panel", "idle")
  /\ UNCHANGED <<box, worked, kept, op, snap, blind, crashes>>

Drop ==
  /\ pc["panel"] = "drop"
  /\ row' = IF Exists THEN [status |-> "COMPLETED", cid |-> NoBox] ELSE row
  /\ Go("panel", "idle")
  /\ UNCHANGED <<box, worked, kept, op, snap, blind, crashes>>

-----------------------------------------------------------------------------
(* The environment. *)

\* A recreate has looked at the container, and not yet removed it.
Doomed(b) == \E r \in Requests : op[r] = "recreate" /\ cid[r] = b /\ pc[r] \in {"halt", "remove"}

\* Somebody, or an agent, works in the container.  What is done between the
\* look of a recreate and its removal is lost; it is not the work followed here.
Work(b) ==
  /\ box[b] = "running" /\ ~worked /\ ~Doomed(b)
  /\ worked' = TRUE /\ kept' = {b}
  /\ UNCHANGED <<row, box, op, pc, cid, snap, blind, crashes>>

\* A container exits, or the host restarts.
BoxDies(b) ==
  /\ box[b] = "running"
  /\ box' = [box EXCEPT ![b] = "stopped"]
  /\ UNCHANGED <<row, worked, kept, op, pc, cid, snap, blind, crashes>>

\* The API server stops and starts again: nothing of what it did goes on, and
\* the containers older than 48 hours are removed, the work in them with them.
Crash ==
  /\ crashes < MaxCrashes
  /\ crashes' = crashes + 1
  /\ pc' = [a \in Actors |-> IF pc[a] = "idle" \/ a = "panel" THEN "idle" ELSE "done"]
  /\ cid' = [a \in Actors |-> NoBox]
  /\ \E old \in SUBSET {b \in Boxes : box[b] \in {"stopped", "running"}} :
       /\ box' = [b \in Boxes |-> IF b \in old THEN "gone" ELSE box[b]]
       /\ kept' = kept \ old
       /\ blind' = (blind \/ (kept # {} /\ kept \subseteq old))
  /\ UNCHANGED <<row, worked, op, snap>>

-----------------------------------------------------------------------------
Creating(a) == Build(a) \/ Start(a) \/ Persist(a) \/ MarkStarted(a) \/ Stage(a) \/ Fail(a)

Serve(r) ==
  \/ Apply(r) \/ InspectOld(r) \/ Commit(r) \/ Halt(r) \/ Remove(r) \/ Erase(r)
  \/ InspectResume(r) \/ Restart(r) \/ Creating(r) \/ Unimage(r) \/ MarkRequest(r)

Timer == TimerFires \/ TimerMarks
Panel == ListSessions \/ InspectListed \/ Promote \/ Drop

Environment == (\E b \in Boxes : Work(b) \/ BoxDies(b)) \/ Crash

Next ==
  \/ \E r \in Requests : Request(r) \/ Serve(r)
  \/ Creating("creation") \/ Timer \/ Panel \/ Environment

Spec == Init /\ [][Next]_vars

\* The server goes on with what it has begun (every request, the creation and
\* the timer end, so one condition does for all of them), and while a panel is
\* open it asks for the list again and again.
Server == (\E r \in Requests : Serve(r)) \/ Creating("creation") \/ Timer
FairSpec == Spec /\ WF_vars(Server) /\ WF_vars(Panel)

-----------------------------------------------------------------------------
\* Every variable stays within its type.
TypeOK ==
  /\ row \in [status : Status, cid : Boxes \cup {NoBox}]
  /\ box \in [Boxes -> {"none", "stopped", "running", "gone"}]
  /\ worked \in BOOLEAN
  /\ kept \subseteq Boxes \cup Requests
  /\ op \in [Actors -> Ops \cup Origins \cup {"none"}]
  /\ pc \in [Actors -> Place]
  /\ cid \in [Actors -> Boxes \cup {NoBox}]
  /\ snap \subseteq Requests
  /\ blind \in BOOLEAN
  /\ crashes \in 0..MaxCrashes

DeletionAsked == \E r \in Requests : op[r] = "delete"

\* recreate "preserves session ID and workspace": whatever requests overlap,
\* fail or are cut off by a restart, the work done in a session is still
\* somewhere, in a container or in a snapshot.  It is lost in three ways only:
\* its deletion was asked for, a recreate took its container for gone because
\* Docker did not answer, or the cleanup of a start removed, for its age, the
\* last container that held it.
WorkKept == worked /\ ~DeletionAsked /\ ~blind => kept # {}

\* A session does not stay CREATING: the creation and every recreate end with
\* RUNNING or FAILED, unless the server restarts under them.
CreatingEnds == row.status = "CREATING" ~> row.status # "CREATING" \/ crashes > 0

\* "Check RUNNING/CREATING sessions against actual Docker container state": a
\* row does not go on saying RUNNING of a container that is down.
Mismatch == row.status = "RUNNING" /\ row.cid # NoBox /\ box[row.cid] # "running"
MismatchEnds == Mismatch ~> ~Mismatch

Quiet == \A a \in Actors : pc[a] \in {"idle", "done", "armed"}

\* "Restart a stopped container (e.g. after host reboot / Exited 255)": when
\* nothing is going on, a stopped session with a container still names it, so
\* that resume can start it again.
StoppedCanResume ==
  Quiet /\ row.status = "COMPLETED" => NameFree \/ row.cid # NoBox
=============================================================================

----------------------- MODULE SessionLifecycleProofs -----------------------
(***************************************************************************)
(* The work done in a session stays somewhere, however many requests       *)
(* overlap and however often the server restarts, but for the three ways   *)
(* of losing it that WorkKept names: proofs checked by TLAPS.              *)
(***************************************************************************)
EXTENDS SessionLifecycle, TLAPS

Copying == {"halt", "remove"}
Built   == {"start", "persist", "mark", "unimage"}

\* Every container that somebody names has been made.
Known ==
  /\ row.cid \in Boxes => box[row.cid] # "none"
  /\ \A a \in Actors : cid[a] \in Boxes => box[cid[a]] # "none"

\* What a request is for, where the code tells it by where it is.
Roles ==
  /\ \A r \in snap : op[r] = "recreate"
  /\ \A r \in Requests :
       /\ pc[r] = "idle" => op[r] = "none"
       /\ pc[r] = "commit" => op[r] = "recreate"
       /\ pc[r] = "halt" => op[r] \in {"stop", "delete", "recreate"}
       /\ pc[r] = "remove" => op[r] \in {"delete", "recreate"}
       /\ pc[r] = "restart" => op[r] = "resume"

\* The work is in containers that exist and in snapshots that were made.
Places ==
  /\ ~worked => kept = {}
  /\ kept \cap Requests \subseteq snap
  /\ \A b \in Boxes : b \in kept => box[b] \in {"stopped", "running"}

\* A recreate that is about to remove the container with the work has a
\* snapshot with it, unless it was blind.
Copied ==
  ~blind => \A r \in Requests :
    op[r] = "recreate" /\ pc[r] \in Copying /\ cid[r] \in kept => r \in kept

\* The recreates whose snapshot may go, since a container was made of it.
Used == {r \in snap : pc[r] \in Built}

\* The work survives the removal of all of these at once.
Safe == worked /\ ~DeletionAsked /\ ~blind => kept \ Used # {}

SInv == TypeOK /\ Known /\ Roles /\ Places /\ Copied /\ Safe

-----------------------------------------------------------------------------
LEMMA InitHolds == Init => SInv
<1> SUFFICES ASSUME Init PROVE SInv
  OBVIOUS
<1>1. TypeOK
  <2>1. pc \in [Actors -> Place]
    BY DEF Init, Place
  <2>2. /\ row \in [status : Status, cid : Boxes \cup {NoBox}]
        /\ box \in [Boxes -> {"none", "stopped", "running", "gone"}]
        /\ cid \in [Actors -> Boxes \cup {NoBox}]
        /\ crashes \in 0..MaxCrashes
    BY SessionAssumption DEF Init, Status
  <2>3. op \in [Actors -> Ops \cup Origins \cup {"none"}]
    BY DEF Init
  <2> QED
    BY <2>1, <2>2, <2>3 DEF Init, TypeOK
<1>2. Known /\ Roles
  BY SessionAssumption DEF Init, Known, Roles, Boxes, Actors
<1>3. Places /\ Copied /\ Safe
  BY SessionAssumption DEF Init, Places, Copied, Safe, Actors
<1> QED
  BY <1>1, <1>2, <1>3 DEF SInv

\* A step of one actor that makes and removes nothing, at most starts or stops
\* a container, keeps the invariant wherever it may go.
LEMMA PlainStep ==
  ASSUME SInv, NEW a \in Actors, NEW p \in Place, Go(a, p),
         UNCHANGED <<worked, kept, op, snap, crashes>>, blind' \in BOOLEAN, blind => blind',
         row' \in [status : Status, cid : Boxes \cup {NoBox}],
         row'.cid \in {row.cid, NoBox, cid[a]},
         box' \in [Boxes -> {"none", "stopped", "running", "gone"}],
         \A b \in Boxes : \/ box'[b] = box[b]
                          \/ {box[b], box'[b]} \subseteq {"stopped", "running"},
         a \in Requests => p # "idle",
         p = "commit" => op[a] = "recreate",
         p = "restart" => op[a] = "resume",
         p = "halt" => op[a] = "recreate" /\ (cid[a] \in kept => blind'),
         p = "remove" => pc[a] = "halt" /\ op[a] # "stop",
         p \in Built => pc[a] \in Built \/ a \notin snap
  PROVE  SInv'
<1>1. /\ pc \in [Actors -> Place] /\ cid \in [Actors -> Boxes \cup {NoBox}]
      /\ snap \subseteq Requests /\ Requests \subseteq Actors
  BY DEF SInv, TypeOK, Actors
<1>2. /\ pc' = [pc EXCEPT ![a] = p]
      /\ \A c \in Actors : cid'[c] = cid[c] \/ (cid'[c] = NoBox /\ c = a /\ p \in {"idle", "done"})
      /\ cid' \in [Actors -> Boxes \cup {NoBox}]
  BY <1>1 DEF Go
<1>3. TypeOK'
  BY <1>1, <1>2 DEF SInv, TypeOK
<1>4. NoBox \notin Boxes
  BY SessionAssumption DEF Boxes
<1>5. Known'
  BY <1>1, <1>2, <1>4 DEF SInv, Known
<1>6. Roles'
  BY <1>1, <1>2 DEF SInv, Roles
<1>7. Places'
  BY DEF SInv, Places
<1>8. Copied'
  <2> SUFFICES ASSUME ~blind', NEW r \in Requests, op[r] = "recreate", pc'[r] \in Copying,
                      cid'[r] \in kept
               PROVE  r \in kept
    BY DEF Copied
  <2>1. cid'[r] = cid[r]
    BY <1>1, <1>2 DEF Copying
  <2>2. CASE pc[r] \in Copying
    BY <1>1, <2>1, <2>2 DEF SInv, Copied
  <2>3. CASE pc[r] \notin Copying
    <3>1. r = a /\ p = "halt"
      BY <1>1, <1>2, <2>3 DEF Copying
    <3> QED
      BY <2>1, <3>1
  <2> QED
    BY <2>2, <2>3
<1>9. Safe'
  <2>1. Used' \subseteq Used
    BY <1>1, <1>2 DEF Used
  <2>2. DeletionAsked' <=> DeletionAsked
    BY DEF DeletionAsked
  <2> QED
    BY <2>1, <2>2 DEF SInv, Safe
<1> QED
  BY <1>3, <1>5, <1>6, <1>7, <1>8, <1>9 DEF SInv

\* A request arrives, or the list is asked for: the actor takes the container
\* of the row with it.
LEMMA ArrivalStep ==
  ASSUME SInv, NEW a \in Actors, NEW p \in Place, pc[a] = "idle",
         GoWith(a, p, row.cid), UNCHANGED <<row, box, worked, kept, snap, blind, crashes>>,
         NEW o \in Ops \cup Origins \cup {"none"}, op' = [op EXCEPT ![a] = o],
         a \in Requests => p \in {"apply", "inspect", "halt", "erase", "mark"},
         a \notin Requests => o = op[a],
         p = "halt" => o \in {"stop", "delete"}
  PROVE  SInv'
<1>1. /\ pc \in [Actors -> Place] /\ cid \in [Actors -> Boxes \cup {NoBox}]
      /\ op \in [Actors -> Ops \cup Origins \cup {"none"}]
      /\ row \in [status : Status, cid : Boxes \cup {NoBox}]
      /\ snap \subseteq Requests /\ Requests \subseteq Actors
  BY DEF SInv, TypeOK, Actors
<1>2. pc' = [pc EXCEPT ![a] = p] /\ cid' = [cid EXCEPT ![a] = row.cid]
  BY DEF GoWith
<1>3. TypeOK'
  BY <1>1, <1>2 DEF SInv, TypeOK
<1>4. Known'
  BY <1>1, <1>2 DEF SInv, Known
<1>5. a \notin snap
  BY <1>1 DEF SInv, Roles
<1>6. Roles'
  BY <1>1, <1>2, <1>5 DEF SInv, Roles
<1>7. Places'
  BY DEF SInv, Places
<1>8. Copied'
  BY <1>1, <1>2 DEF SInv, Copied, Copying
<1>9. Safe'
  <2>1. Used' = Used
    BY <1>1, <1>2, <1>5 DEF Used
  <2>2. DeletionAsked => DeletionAsked'
    BY <1>1 DEF DeletionAsked, SInv, Roles
  <2> QED
    BY <2>1, <2>2 DEF SInv, Safe
<1> QED
  BY <1>3, <1>4, <1>6, <1>7, <1>8, <1>9 DEF SInv

\* The types most steps need.
LEMMA Types ==
  ASSUME SInv
  PROVE  /\ pc \in [Actors -> Place] /\ cid \in [Actors -> Boxes \cup {NoBox}]
         /\ op \in [Actors -> Ops \cup Origins \cup {"none"}]
         /\ row \in [status : Status, cid : Boxes \cup {NoBox}]
         /\ box \in [Boxes -> {"none", "stopped", "running", "gone"}]
         /\ kept \subseteq Boxes \cup Requests
         /\ snap \subseteq Requests /\ Requests \subseteq Actors /\ blind \in BOOLEAN
         /\ "panel" \in Actors \ Requests /\ "creation" \in Actors \ Requests
         /\ "timer" \in Actors \ Requests
         /\ NoBox \notin Boxes \cup Requests /\ Requests \cap Boxes = {}
BY SessionAssumption DEF SInv, TypeOK, Actors, Boxes

\* A snapshot is taken of the container, with what is in it.
LEMMA CommitStep ==
  ASSUME SInv, NEW r \in Requests, Commit(r)
  PROVE  SInv'
<1>1. pc[r] = "commit" /\ op[r] = "recreate" /\ UNCHANGED <<row, box, worked, op, blind, crashes>>
  BY DEF Commit, SInv, Roles
<1>2. CASE UNCHANGED <<snap, kept>> /\ Go(r, "fail")
  BY <1>1, <1>2, Types, PlainStep DEF Place, Built
<1>3. CASE /\ snap' = snap \cup {r}
           /\ kept' = IF cid[r] \in kept THEN kept \cup {r} ELSE kept
           /\ Go(r, "halt")
  <2>1. pc' = [pc EXCEPT ![r] = "halt"] /\ cid' = cid
    BY <1>3 DEF Go
  <2>2. TypeOK'
    BY <1>1, <1>3, <2>1, Types DEF SInv, TypeOK, Place
  <2>3. Known' /\ Roles'
    BY <1>1, <1>3, <2>1, Types DEF SInv, Known, Roles
  <2>4. Places'
    BY <1>1, <1>3, Types DEF SInv, Places
  <2>5. Copied'
    BY <1>1, <1>3, <2>1, Types DEF SInv, Copied, Copying
  <2>6. Safe'
    <3>1. Used' = Used
      BY <1>1, <1>3, <2>1, Types DEF Used, Built
    <3>2. kept \subseteq kept'
      BY <1>3
    <3> QED
      BY <1>1, <3>1, <3>2 DEF SInv, Safe, DeletionAsked
  <2> QED
    BY <2>2, <2>3, <2>4, <2>5, <2>6 DEF SInv
<1> QED
  BY <1>2, <1>3 DEF Commit

\* A container is removed: by a deletion, or by a recreate that has a copy of
\* what is in it.
LEMMA RemoveStep ==
  ASSUME SInv, NEW r \in Requests, Remove(r)
  PROVE  SInv'
<1> DEFINE next == IF op[r] = "delete" THEN "erase" ELSE "build"
<1>1. /\ pc[r] = "remove" /\ op[r] \in {"delete", "recreate"}
      /\ pc' = [pc EXCEPT ![r] = next] /\ cid' = cid
      /\ UNCHANGED <<row, worked, op, snap, blind, crashes>>
      /\ kept' = {k \in kept : k \in Boxes => box'[k] # "gone"}
      /\ box' = [box EXCEPT ![cid[r]] = "gone"] \/ box' = box
  BY DEF Remove, TryBox, Go, SInv, Roles
<1>2. /\ box' \in [Boxes -> {"none", "stopped", "running", "gone"}]
      /\ \A b \in Boxes : box'[b] = box[b] \/ (b = cid[r] /\ box'[b] = "gone")
  BY <1>1, Types
<1>3. TypeOK'
  BY <1>1, <1>2 DEF SInv, TypeOK, Place
<1>4. Known'
  BY <1>1, <1>2, Types DEF SInv, Known
<1>5. Roles'
  BY <1>1, Types DEF SInv, Roles
<1>6. Places'
  BY <1>1, <1>2, Types DEF SInv, Places
<1>7. \A k \in kept : k \notin Boxes => k \in kept'
  BY <1>1
<1>8. Copied'
  <2> SUFFICES ASSUME ~blind, NEW q \in Requests, op[q] = "recreate", pc'[q] \in Copying,
                      cid[q] \in kept'
               PROVE  q \in kept'
    BY <1>1 DEF Copied
  <2>1. q # r /\ pc[q] \in Copying /\ cid[q] \in kept
    BY <1>1, Types DEF Copying
  <2>2. q \in kept /\ q \notin Boxes
    BY <2>1, Types DEF SInv, Copied
  <2> QED
    BY <1>7, <2>2
<1>9. Safe'
  <2> SUFFICES ASSUME worked, ~DeletionAsked', ~blind
               PROVE  kept' \ Used' # {}
    BY <1>1 DEF Safe
  <2>1. ~DeletionAsked /\ op[r] = "recreate"
    BY <1>1, Types DEF DeletionAsked
  <2>2. Used' = Used /\ r \notin Used
    BY <1>1, Types DEF Used, Built
  <2>3. PICK k : k \in kept \ Used
    BY <1>1, <2>1 DEF SInv, Safe
  <2>4. CASE k \in kept'
    BY <2>2, <2>3, <2>4
  <2>5. CASE k \notin kept'
    <3>1. k = cid[r]
      BY <1>1, <1>2, <2>3, <2>5 DEF SInv, Places
    <3>2. r \in kept
      BY <1>1, <2>1, <2>3, <3>1 DEF SInv, Copied, Copying
    <3> QED
      BY <1>7, <2>2, <3>2, Types
  <2> QED
    BY <2>4, <2>5
<1> QED
  BY <1>3, <1>4, <1>5, <1>6, <1>8, <1>9 DEF SInv

\* A container is made, from the snapshot if there is one: the snapshot may go
\* from now on.
LEMMA BuildStep ==
  ASSUME SInv, NEW a \in Actors, Build(a)
  PROVE  SInv'
<1>1. pc[a] = "build" /\ UNCHANGED <<row, worked, op, snap, blind, crashes>>
  BY DEF Build
<1>2. CASE UNCHANGED <<box, kept>> /\ Go(a, "fail")
  BY <1>1, <1>2, Types, PlainStep DEF Place, Built
<1>3. CASE \E b \in Boxes :
             /\ box[b] = "none"
             /\ box' = [box EXCEPT ![b] = "stopped"]
             /\ kept' = IF a \in snap \cap kept THEN kept \cup {b} ELSE kept
             /\ GoWith(a, "start", b)
  <2>1. PICK b \in Boxes :
             /\ box[b] = "none"
             /\ box' = [box EXCEPT ![b] = "stopped"]
             /\ kept' = IF a \in snap \cap kept THEN kept \cup {b} ELSE kept
             /\ GoWith(a, "start", b)
    BY <1>3
  <2>2. /\ pc' = [pc EXCEPT ![a] = "start"] /\ cid' = [cid EXCEPT ![a] = b]
        /\ kept \subseteq kept' /\ kept' \subseteq kept \cup {b}
    BY <2>1 DEF GoWith
  <2>3. TypeOK'
    BY <1>1, <2>1, <2>2, Types DEF SInv, TypeOK, Place
  <2>4. Known'
    BY <1>1, <2>1, <2>2, Types DEF SInv, Known
  <2>5. Roles'
    BY <1>1, <2>2, Types DEF SInv, Roles
  <2>6. Places'
    <3>1. b \notin Requests
      BY Types
    <3>2. ~worked => kept' = {}
      BY <2>1 DEF SInv, Places
    <3> QED
      BY <1>1, <2>1, <2>2, <3>1, <3>2, Types DEF SInv, Places
  <2>7. Copied'
    <3> SUFFICES ASSUME ~blind, NEW q \in Requests, op[q] = "recreate", pc'[q] \in Copying,
                        cid'[q] \in kept'
                 PROVE  q \in kept'
      BY <1>1 DEF Copied
    <3>1. q # a /\ cid'[q] = cid[q] /\ pc[q] \in Copying
      BY <2>2, Types DEF Copying
    <3>2. cid[q] # b
      BY <2>1, Types DEF SInv, Known
    <3>3. q \in kept
      BY <2>2, <3>1, <3>2 DEF SInv, Copied
    <3> QED
      BY <2>2, <3>3
  <2>8. Safe'
    <3> SUFFICES ASSUME worked, ~DeletionAsked, ~blind
                 PROVE  kept' \ Used' # {}
      BY <1>1 DEF Safe, DeletionAsked
    <3>1. PICK k : k \in kept \ Used
      BY DEF SInv, Safe
    <3>2. \A q \in snap : q # a => (q \in Used' <=> q \in Used)
      BY <1>1, <2>2, Types DEF Used
    <3>3. CASE k # a
      <4>1. k \notin Used'
        BY <1>1, <3>1, <3>2, <3>3 DEF Used
      <4> QED
        BY <2>2, <3>1, <4>1
    <3>4. CASE k = a /\ a \in Requests
      <4>1. a \in snap \cap kept
        BY <3>1, <3>4 DEF SInv, Places
      <4>2. b \in kept' /\ b \notin Used'
        BY <1>1, <2>1, <4>1, Types DEF Used
      <4> QED
        BY <4>2
    <3>5. CASE k \notin Requests
      <4>1. k \in kept' /\ k \notin Used'
        BY <1>1, <2>2, <3>1, <3>5, Types DEF Used
      <4> QED
        BY <4>1
    <3> QED
      BY <3>3, <3>4, <3>5
  <2> QED
    BY <2>3, <2>4, <2>5, <2>6, <2>7, <2>8 DEF SInv
<1> QED
  BY <1>2, <1>3 DEF Build

\* The snapshot goes: the work is somewhere else by then.
LEMMA UnimageStep ==
  ASSUME SInv, NEW r \in Requests, Unimage(r)
  PROVE  SInv'
<1>1. /\ pc[r] = "unimage" /\ kept' \in {kept, kept \ {r}}
      /\ pc' = [pc EXCEPT ![r] = "done"] /\ cid' = [cid EXCEPT ![r] = NoBox]
      /\ UNCHANGED <<row, box, worked, op, snap, blind, crashes>>
  BY DEF Unimage, Go
<1>2. TypeOK'
  BY <1>1, Types DEF SInv, TypeOK, Place
<1>3. Known' /\ Roles'
  BY <1>1, Types DEF SInv, Known, Roles
<1>4. Places'
  BY <1>1 DEF SInv, Places
<1>5. Copied'
  BY <1>1, Types DEF SInv, Copied, Copying
<1>6. Safe'
  <2>1. kept \ Used \subseteq kept' \ Used'
    <3>1. Used' \subseteq Used
      BY <1>1, Types DEF Used, Built
    <3>2. r \in kept => r \in Used
      BY <1>1 DEF SInv, Places, Used, Built
    <3> QED
      BY <1>1, <3>1, <3>2
  <2> QED
    BY <1>1, <2>1 DEF SInv, Safe, DeletionAsked
<1> QED
  BY <1>2, <1>3, <1>4, <1>5, <1>6 DEF SInv

\* Users, agents, Docker and restarts.
LEMMA EnvironmentStep ==
  ASSUME SInv, Environment
  PROVE  SInv'
<1>1. CASE \E b \in Boxes : Work(b)
  <2>1. PICK b \in Boxes : Work(b)
    BY <1>1
  <2>2. /\ box[b] = "running" /\ ~worked /\ ~Doomed(b) /\ worked' = TRUE /\ kept' = {b}
        /\ UNCHANGED <<row, box, op, pc, cid, snap, blind, crashes>>
    BY <2>1 DEF Work
  <2>3. TypeOK' /\ Known' /\ Roles'
    BY <2>2 DEF SInv, TypeOK, Known, Roles
  <2>4. Places'
    BY <2>2, Types DEF SInv, Places
  <2>5. Copied'
    BY <2>2 DEF Copied, Copying, Doomed
  <2>6. Safe'
    BY <2>2, Types DEF Safe, Used
  <2> QED
    BY <2>3, <2>4, <2>5, <2>6 DEF SInv
<1>2. CASE \E b \in Boxes : BoxDies(b)
  <2>1. PICK b \in Boxes : /\ box[b] = "running" /\ box' = [box EXCEPT ![b] = "stopped"]
                           /\ UNCHANGED <<row, worked, kept, op, pc, cid, snap, blind, crashes>>
    BY <1>2 DEF BoxDies
  <2>2. TypeOK' /\ Known' /\ Roles' /\ Places'
    BY <2>1, Types DEF SInv, TypeOK, Known, Roles, Places
  <2>3. Copied'
    BY <2>1, Types DEF SInv, Copied
  <2>4. Safe'
    BY <2>1 DEF SInv, Safe, Used, DeletionAsked
  <2> QED
    BY <2>2, <2>3, <2>4 DEF SInv
<1>3. CASE Crash
  <2>1. PICK old \in SUBSET {b \in Boxes : box[b] \in {"stopped", "running"}} :
          /\ box' = [b \in Boxes |-> IF b \in old THEN "gone" ELSE box[b]]
          /\ kept' = kept \ old
          /\ blind' = (blind \/ (kept # {} /\ kept \subseteq old))
    BY <1>3 DEF Crash
  <2>2. /\ crashes < MaxCrashes /\ crashes' = crashes + 1
        /\ pc' = [a \in Actors |-> IF pc[a] = "idle" \/ a = "panel" THEN "idle" ELSE "done"]
        /\ cid' = [a \in Actors |-> NoBox]
        /\ UNCHANGED <<row, worked, op, snap>>
    BY <1>3 DEF Crash
  <2>3. TypeOK'
    <3>1. box' \in [Boxes -> {"none", "stopped", "running", "gone"}]
      BY <2>1, Types
    <3> QED
      BY <2>1, <2>2, <3>1, Types, SessionAssumption DEF SInv, TypeOK, Place
  <2>4. Known'
    BY <2>1, <2>2, Types DEF SInv, Known
  <2>5. Roles' /\ Copied'
    BY <2>1, <2>2, Types DEF SInv, Roles, Copied, Copying
  <2>6. Places'
    BY <2>1, <2>2, Types DEF SInv, Places
  <2>7. Safe'
    <3>1. Used' = {}
      BY <2>2, Types DEF Used, Built
    <3> QED
      BY <2>1, <2>2, <3>1 DEF SInv, Safe, DeletionAsked
  <2> QED
    BY <2>3, <2>4, <2>5, <2>6, <2>7 DEF SInv
<1> QED
  BY <1>1, <1>2, <1>3 DEF Environment

\* The steps of a request, the creation, the timer and the list that make and
\* remove nothing.
LEMMA RequestStep ==
  ASSUME SInv, NEW r \in Requests, Request(r)
  PROVE  SInv'
<1> USE Types DEF Receive, Place
<1>1. CASE "pause" \in Ops /\ AskPause(r)
  BY <1>1, ArrivalStep DEF AskPause
<1>2. CASE "resume" \in Ops /\ AskResume(r)
  BY <1>2, ArrivalStep DEF AskResume
<1>3. CASE "stop" \in Ops /\ AskStop(r)
  BY <1>3, ArrivalStep DEF AskStop
<1>4. CASE "delete" \in Ops /\ AskDelete(r)
  BY <1>4, ArrivalStep DEF AskDelete
<1>5. CASE "recreate" \in Ops /\ AskRecreate(r)
  BY <1>5, ArrivalStep DEF AskRecreate
<1> QED
  BY <1>1, <1>2, <1>3, <1>4, <1>5 DEF Request

LEMMA CreatingStep ==
  ASSUME SInv, NEW a \in Actors, Creating(a)
  PROVE  SInv'
<1>1. CASE Build(a)
  BY <1>1, BuildStep
<1>2. CASE Start(a)
  BY <1>2, Types, PlainStep DEF Start, Place, Built
<1>3. CASE Persist(a)
  BY <1>3, Types, PlainStep DEF Persist, Place, Built
<1>4. CASE MarkStarted(a)
  BY <1>4, Types, PlainStep DEF MarkStarted, Place, Built, Status
<1>5. CASE Stage(a)
  BY <1>5, Types, PlainStep DEF Stage, Place, Built
<1>6. CASE Fail(a)
  BY <1>6, Types, PlainStep DEF Fail, SetStatus, Place, Built, Status
<1> QED
  BY <1>1, <1>2, <1>3, <1>4, <1>5, <1>6 DEF Creating

LEMMA ServeStep ==
  ASSUME SInv, NEW r \in Requests, Serve(r)
  PROVE  SInv'
<1>1. CASE Apply(r)
  BY <1>1, Types, PlainStep DEF Apply, Place, Built, Status
<1>2. CASE InspectOld(r)
  <2>1. /\ pc[r] = "inspect" /\ op[r] = "recreate"
        /\ UNCHANGED <<row, box, worked, kept, op, snap, crashes>>
    BY <1>2 DEF InspectOld
  <2>2. CASE Go(r, "commit") /\ UNCHANGED blind
    BY <2>1, <2>2, Types, PlainStep DEF Place, Built
  <2>3. CASE Go(r, "halt") /\ blind' = (blind \/ cid[r] \in kept)
    <3>1. blind' \in BOOLEAN /\ (blind => blind')
      BY <2>3, Types
    <3>2. cid[r] \in kept => blind'
      BY <2>3
    <3> QED
      BY <2>1, <2>3, <3>1, <3>2, Types, PlainStep DEF Place, Built
  <2> QED
    BY <1>2, <2>2, <2>3 DEF InspectOld
<1>3. CASE Commit(r)
  BY <1>3, CommitStep
<1>4. CASE Halt(r)
  <2>1. op[r] \in {"stop", "delete", "recreate"} /\ pc[r] = "halt"
    BY <1>4 DEF Halt, SInv, Roles
  <2>2. op[r] = "stop" => r \notin snap
    BY DEF SInv, Roles
  <2> QED
    BY <1>4, <2>1, <2>2, Types, PlainStep DEF Halt, TryBox, Stopped, Place, Built
<1>5. CASE Remove(r)
  BY <1>5, RemoveStep
<1>6. CASE Erase(r)
  BY <1>6, Types, PlainStep DEF Erase, Place, Built, Status
<1>7. CASE InspectResume(r)
  <2>1. r \notin snap
    BY <1>7 DEF InspectResume, SInv, Roles
  <2> QED
    BY <1>7, <2>1, Types, PlainStep DEF InspectResume, Place, Built
<1>8. CASE Restart(r)
  <2>1. r \notin snap
    BY <1>8 DEF Restart, SInv, Roles
  <2> QED
    BY <1>8, <2>1, Types, PlainStep DEF Restart, Place, Built
<1>9. CASE Creating(r)
  BY <1>9, CreatingStep, Types
<1>10. CASE Unimage(r)
  BY <1>10, UnimageStep
<1>11. CASE MarkRequest(r)
  BY <1>11, Types, PlainStep DEF MarkRequest, SetStatus, Place, Built, Status
<1> QED
  BY <1>1, <1>2, <1>3, <1>4, <1>5, <1>6, <1>7, <1>8, <1>9, <1>10, <1>11 DEF Serve

LEMMA TimerAndPanelStep ==
  ASSUME SInv, Timer \/ Panel
  PROVE  SInv'
<1>1. CASE TimerFires
  BY <1>1, Types, PlainStep DEF TimerFires, Place, Built
<1>2. CASE TimerMarks
  BY <1>2, Types, PlainStep DEF TimerMarks, SetStatus, Place, Built, Status
<1>3. CASE ListSessions
  BY <1>3, Types, ArrivalStep DEF ListSessions, Place
<1>4. CASE InspectListed
  BY <1>4, Types, PlainStep DEF InspectListed, Place, Built
<1>5. CASE Promote
  BY <1>5, Types, PlainStep DEF Promote, SetStatus, Place, Built, Status
<1>6. CASE Drop
  BY <1>6, Types, PlainStep DEF Drop, Place, Built, Status
<1> QED
  BY <1>1, <1>2, <1>3, <1>4, <1>5, <1>6 DEF Timer, Panel

-----------------------------------------------------------------------------
\* The parts of the invariant hold together, for any number of requests,
\* containers and restarts.
THEOREM SessionInvariant == Spec => []SInv
<1>1. Init => SInv
  BY InitHolds
<1>2. SInv /\ [Next]_vars => SInv'
  <2> SUFFICES ASSUME SInv, [Next]_vars PROVE SInv'
    OBVIOUS
  <2>1. CASE \E r \in Requests : Request(r) \/ Serve(r)
    BY <2>1, RequestStep, ServeStep
  <2>2. CASE Creating("creation")
    BY <2>2, CreatingStep, Types
  <2>3. CASE Timer \/ Panel
    BY <2>3, TimerAndPanelStep
  <2>4. CASE Environment
    BY <2>4, EnvironmentStep
  <2>5. CASE UNCHANGED vars
    BY <2>5 DEF vars, SInv, TypeOK, Known, Roles, Places, Copied, Safe, Used, DeletionAsked
  <2> QED
    BY <2>1, <2>2, <2>3, <2>4, <2>5 DEF Next
<1> QED
  BY <1>1, <1>2, PTL DEF Spec

\* Every variable stays within its type.
THEOREM SessionTypeCorrect == Spec => []TypeOK
<1>1. SInv => TypeOK
  BY DEF SInv
<1> QED
  BY <1>1, SessionInvariant, PTL

\* For any number of requests, containers and restarts: the work done in a
\* session is kept somewhere, but for a deletion asked for, a recreate that took
\* its container for gone, and the cleanup of old containers.
THEOREM WorkIsKept == Spec => []WorkKept
<1>1. SInv => WorkKept
  BY DEF SInv, Safe, WorkKept
<1> QED
  BY <1>1, SessionInvariant, PTL

-----------------------------------------------------------------------------
(* The safety half of CreatingEnds: whoever has to end it is at work. *)

\* Actor a is on the way to a container that runs, or to giving up.
Makers == Requests \cup {"creation"}
Makes(a) ==
  /\ op[a] \in {"create", "import", "recreate"}
  /\ pc[a] \in {"inspect", "commit", "halt", "remove", "build", "start", "persist", "mark", "fail"}

\* A session that says CREATING, on a server that has not restarted, is being
\* made by somebody.
Attended == row.status = "CREATING" /\ crashes = 0 => \E a \in Makers : Makes(a)

\* What a request applies is a recreate.
ApplyRecreates == \A r \in Requests : pc[r] = "apply" => op[r] = "recreate"

AttendedInv == ApplyRecreates /\ Attended

LEMMA AttendedAtFirst == Init => AttendedInv
<1> SUFFICES ASSUME Init PROVE AttendedInv
  OBVIOUS
<1>1. "creation" \in Actors /\ "creation" \notin Requests /\ Requests \subseteq Actors
  BY SessionAssumption DEF Actors
<1>2. op["creation"] \in {"create", "import"} /\ pc["creation"] = "build"
  BY <1>1, SessionAssumption DEF Init
<1>3. \A r \in Requests : pc[r] = "idle"
  BY <1>1, SessionAssumption DEF Init
<1> QED
  BY <1>2, <1>3 DEF AttendedInv, ApplyRecreates, Attended, Makers, Makes

\* One actor moves; what it is for stays.  The session says CREATING afterwards
\* only when it did before, and the actor makes it still, or when it does now.
LEMMA OneMoves ==
  ASSUME SInv, AttendedInv, NEW a \in Actors, NEW p \in Place, pc' = [pc EXCEPT ![a] = p],
         UNCHANGED <<op, crashes>>, p # "apply",
         row'.status = "CREATING" =>
           \/ row.status = "CREATING" /\ (a \in Makers /\ Makes(a) => Makes(a)')
           \/ a \in Makers /\ Makes(a)'
  PROVE  AttendedInv'
<1>1. pc \in [Actors -> Place] /\ Makers \subseteq Actors
  BY Types DEF Makers, Actors
<1>2. \A c \in Makers \ {a} : Makes(c) => Makes(c)'
  BY <1>1 DEF Makes
<1>3. Attended'
  BY <1>1, <1>2 DEF AttendedInv, Attended
<1>4. ApplyRecreates'
  BY <1>1, Types DEF AttendedInv, ApplyRecreates
<1> QED
  BY <1>3, <1>4 DEF AttendedInv

\* A request arrives: it was not making anything.
LEMMA ArrivalAttended ==
  ASSUME SInv, AttendedInv, NEW r \in Requests, Request(r)
  PROVE  AttendedInv'
<1>1. PICK o \in {"pause", "resume", "stop", "delete", "recreate"}, p \in Place :
        /\ pc[r] = "idle" /\ op' = [op EXCEPT ![r] = o] /\ pc' = [pc EXCEPT ![r] = p]
        /\ p = "apply" => o = "recreate"
        /\ UNCHANGED <<row, crashes>>
  BY DEF Request, AskPause, AskResume, AskStop, AskDelete, AskRecreate, Receive, GoWith, Place
<1>2. ~Makes(r)
  BY <1>1 DEF Makes
<1>3. \A a \in Makers : Makes(a) => a # r /\ Makes(a)'
  <2> SUFFICES ASSUME NEW a \in Makers, Makes(a) PROVE a # r /\ Makes(a)'
    OBVIOUS
  <2>1. a # r /\ a \in Actors /\ r \in Actors
    BY <1>2, Types DEF Makers
  <2>2. op'[a] = op[a] /\ pc'[a] = pc[a]
    BY <1>1, <2>1, Types
  <2> QED
    BY <2>1, <2>2 DEF Makes
<1>4. ApplyRecreates'
  BY <1>1, Types DEF AttendedInv, ApplyRecreates
<1> QED
  BY <1>1, <1>3, <1>4 DEF AttendedInv, Attended

\* The steps that make a container, of a recreate or the creation.
LEMMA CreatingAttended ==
  ASSUME SInv, AttendedInv, NEW a \in Makers, Creating(a)
  PROVE  AttendedInv'
<1>0. a \in Actors /\ pc \in [Actors -> Place]
  BY Types DEF Makers
<1> USE DEF Go, GoWith, Makes, Place
<1>1. CASE Build(a)
  BY <1>0, <1>1, OneMoves DEF Build
<1>2. CASE Start(a)
  BY <1>0, <1>2, OneMoves DEF Start
<1>3. CASE Persist(a)
  <2>1. row'.status = row.status
    BY <1>3, Types DEF Persist
  <2> QED
    BY <1>0, <1>3, <2>1, OneMoves DEF Persist
<1>4. CASE MarkStarted(a)
  <2>1. row'.status # "CREATING"
    BY <1>4, Types DEF MarkStarted, Exists
  <2> QED
    BY <1>0, <1>4, <2>1, OneMoves DEF MarkStarted
<1>5. CASE Stage(a)
  BY <1>0, <1>5, OneMoves DEF Stage
<1>6. CASE Fail(a)
  <2>1. row'.status # "CREATING"
    BY <1>6, Types DEF Fail, SetStatus, Exists
  <2> QED
    BY <1>0, <1>6, <2>1, OneMoves DEF Fail
<1> QED
  BY <1>1, <1>2, <1>3, <1>4, <1>5, <1>6 DEF Creating

LEMMA ServeAttended ==
  ASSUME SInv, AttendedInv, NEW r \in Requests, Serve(r)
  PROVE  AttendedInv'
<1>0. r \in Actors /\ r \in Makers /\ pc \in [Actors -> Place]
  BY Types DEF Makers
<1>r. /\ pc[r] = "commit" => op[r] = "recreate"
      /\ pc[r] = "restart" => op[r] = "resume"
      /\ pc[r] = "apply" => op[r] = "recreate"
  BY DEF SInv, Roles, AttendedInv, ApplyRecreates
<1> USE DEF Go, GoWith, Makes, Place
<1>1. CASE Apply(r)
  BY <1>0, <1>r, <1>1, OneMoves DEF Apply, Exists
<1>2. CASE InspectOld(r)
  BY <1>0, <1>2, OneMoves DEF InspectOld
<1>3. CASE Commit(r)
  BY <1>0, <1>r, <1>3, OneMoves DEF Commit
<1>4. CASE Halt(r)
  BY <1>0, <1>4, OneMoves DEF Halt
<1>5. CASE Remove(r)
  BY <1>0, <1>5, OneMoves DEF Remove
<1>6. CASE Erase(r)
  <2>1. row'.status # "CREATING"
    BY <1>6 DEF Erase
  <2> QED
    BY <1>0, <1>6, <2>1, OneMoves DEF Erase
<1>7. CASE InspectResume(r)
  BY <1>0, <1>7, OneMoves DEF InspectResume
<1>8. CASE Restart(r)
  BY <1>0, <1>r, <1>8, OneMoves DEF Restart
<1>9. CASE Creating(r)
  BY <1>0, <1>9, CreatingAttended
<1>10. CASE Unimage(r)
  BY <1>0, <1>10, OneMoves DEF Unimage
<1>11. CASE MarkRequest(r)
  <2>1. row'.status # "CREATING" \/ row' = row
    BY <1>11, Types DEF MarkRequest, SetStatus, Exists
  <2> QED
    BY <1>0, <1>11, <2>1, OneMoves DEF MarkRequest
<1> QED
  BY <1>1, <1>2, <1>3, <1>4, <1>5, <1>6, <1>7, <1>8, <1>9, <1>10, <1>11 DEF Serve

LEMMA OthersAttended ==
  ASSUME SInv, AttendedInv, Timer \/ Panel
  PROVE  AttendedInv'
<1>0. /\ "timer" \in Actors /\ "panel" \in Actors /\ pc \in [Actors -> Place]
      /\ "timer" \notin Makers /\ "panel" \notin Makers
  BY Types DEF Makers
<1>1. row'.status # "CREATING" \/ row'.status = row.status
  BY Types DEF Timer, Panel, TimerFires, TimerMarks, ListSessions, InspectListed, Promote, Drop,
               SetStatus, Exists
<1> USE DEF Go, GoWith, Place
<1>2. CASE Timer
  <2>1. UNCHANGED <<op, crashes>> /\ \E p \in {"mark", "done"} : pc' = [pc EXCEPT !["timer"] = p]
    BY <1>2 DEF Timer, TimerFires, TimerMarks
  <2> QED
    BY <1>0, <1>1, <2>1, OneMoves
<1>3. CASE Panel
  <2>1. /\ UNCHANGED <<op, crashes>>
        /\ \E p \in {"inspectNew", "inspect", "drop", "promote", "idle"} :
             pc' = [pc EXCEPT !["panel"] = p]
    BY <1>3 DEF Panel, ListSessions, InspectListed, Promote, Drop
  <2> QED
    BY <1>0, <1>1, <2>1, OneMoves
<1> QED
  BY <1>2, <1>3

\* A session stays CREATING no longer than somebody is at work on it, unless
\* the server restarts: for any number of requests that overlap.
THEOREM CreatingIsAttended == Spec => []Attended
<1>1. SInv /\ AttendedInv /\ [Next]_vars => AttendedInv'
  <2> SUFFICES ASSUME SInv, AttendedInv, [Next]_vars PROVE AttendedInv'
    OBVIOUS
  <2>1. CASE \E r \in Requests : Request(r) \/ Serve(r)
    BY <2>1, ArrivalAttended, ServeAttended
  <2>2. CASE Creating("creation")
    BY <2>2, CreatingAttended DEF Makers
  <2>3. CASE Timer \/ Panel
    BY <2>3, OthersAttended
  <2>4. CASE \E b \in Boxes : Work(b) \/ BoxDies(b)
    BY <2>4 DEF Work, BoxDies, AttendedInv, ApplyRecreates, Attended, Makes
  <2>5. CASE Crash
    <3>1. crashes' # 0
      BY <2>5 DEF Crash, SInv, TypeOK
    <3>2. ApplyRecreates'
      <4>1. \A r \in Requests : pc'[r] # "apply"
        BY <2>5, Types DEF Crash
      <4> QED
        BY <4>1 DEF ApplyRecreates
    <3> QED
      BY <3>1, <3>2 DEF AttendedInv, Attended
  <2>6. CASE UNCHANGED vars
    BY <2>6 DEF vars, AttendedInv, ApplyRecreates, Attended, Makes
  <2> QED
    BY <2>1, <2>2, <2>3, <2>4, <2>5, <2>6 DEF Next, Environment
<1>2. AttendedInv => Attended
  BY DEF AttendedInv
<1> QED
  BY <1>1, <1>2, SessionInvariant, AttendedAtFirst, PTL DEF Spec
=============================================================================

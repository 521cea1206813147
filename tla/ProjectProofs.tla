---------------------------- MODULE ProjectProofs ----------------------------
(***************************************************************************)
(* Proofs about what people ask for, for any number of presses, services,  *)
(* keys and firings: the request that creates a project (NewProject), the  *)
(* pages that send it (Wizard) and the schedules of a project (Schedules). *)
(***************************************************************************)
EXTENDS NewProject, Wizard, Schedules, TLAPS

(* The request. *)

\* Who has the name on GitHub keeps it until its rows are written or its
\* repository is deleted again; what is saved before that was answered late.
HoldsRepo ==
  \A r \in Presses :
    /\ press[r] \in {"commit", "undo"} => repo = r
    /\ press[r] \in {"new", "create", "commit"} => r \notin saved
    /\ press[r] = "undo" /\ r \in saved => r \in unsure

ProjectInv == ProjectTypeOK /\ HoldsRepo /\ PortalsHaveRepos /\ NothingMeansNothing

-----------------------------------------------------------------------------
LEMMA ProjectInitially == ProjectInit => ProjectInv
BY ProjectAssumption
   DEF ProjectAssumption, ProjectInit, ProjectInv, ProjectTypeOK, HoldsRepo,
       PortalsHaveRepos, NothingMeansNothing, PressSteps

LEMMA ProjectPreserved == ProjectInv /\ [ProjectNext]_projectVars => ProjectInv'
<1> SUFFICES ASSUME ProjectInv, [ProjectNext]_projectVars PROVE ProjectInv'
  OBVIOUS
<1> USE ProjectAssumption DEF ProjectAssumption, ProjectInv
<1> USE DEF ProjectTypeOK, HoldsRepo, PortalsHaveRepos, NothingMeansNothing, PressSteps
<1>1. CASE EngineTurns
  BY <1>1 DEF EngineTurns
<1>2. CASE TidyRepo
  BY <1>2 DEF TidyRepo
<1>3. ASSUME NEW r \in Presses, DeletePortal(r) PROVE ProjectInv'
  BY <1>3 DEF DeletePortal
<1>4. ASSUME NEW r \in Presses, AskEngine(r) PROVE ProjectInv'
  BY <1>4 DEF AskEngine, PressAt
<1>5. ASSUME NEW r \in Presses, CreateRepo(r) PROVE ProjectInv'
  BY <1>5 DEF CreateRepo, PressAt
<1>6. ASSUME NEW r \in Presses, CommitPortal(r) PROVE ProjectInv'
  BY <1>6 DEF CommitPortal, PressAt
<1>7. ASSUME NEW r \in Presses, UndoRepo(r) PROVE ProjectInv'
  <2> USE DEF UndoRepo, PressAt
  <2>1. repo = r /\ (r \in saved => r \in unsure) /\ (repo' = NoPress \/ repo' = repo)
    BY <1>7
  <2>2. ProjectTypeOK'
    BY <1>7, <2>1
  <2>3. HoldsRepo'
    BY <1>7, <2>1
  <2>4. PortalsHaveRepos'
    <3>1. r \notin saved \ unsure
      BY <2>1
    <3>2. saved \ unsure = {}
      BY <2>1, <3>1
    <3> QED
      BY <1>7, <3>2
  <2>5. NothingMeansNothing'
    <3> SUFFICES ASSUME NEW q \in Presses \ unsure', press'[q] = "nothing saved"
                 PROVE  q \notin saved' /\ repo' # q
      OBVIOUS
    <3>1. CASE q = r
      <4>1. repo' = NoPress /\ UNCHANGED <<saved, unsure>>
        BY <1>7, <3>1
      <4> QED
        BY <2>1, <3>1, <4>1
    <3>2. CASE q # r
      <4>1. press'[q] = press[q] /\ UNCHANGED <<saved, unsure>>
        BY <1>7, <3>2
      <4> QED
        BY <2>1, <4>1
    <3> QED
      BY <3>1, <3>2
  <2> QED
    BY <2>2, <2>3, <2>4, <2>5
<1>8. ASSUME NEW r \in Presses, StartPressedBuild(r) PROVE ProjectInv'
  BY <1>8 DEF StartPressedBuild, PressAt
<1>9. ASSUME NEW r \in Presses, CutOff(r) PROVE ProjectInv'
  BY <1>9 DEF CutOff, PressAt
<1>10. CASE UNCHANGED projectVars
  BY <1>10 DEF projectVars
<1> QED
  BY <1>1, <1>2, <1>3, <1>4, <1>5, <1>6, <1>7, <1>8, <1>9, <1>10 DEF ProjectNext

\* The inductive invariant behind the theorems about the request.
THEOREM ProjectInvariant == ProjectSpec => []ProjectInv
BY ProjectInitially, ProjectPreserved, PTL DEF ProjectSpec

\* A portal that is saved has its repository, however many ask for one name and
\* whatever fails: UndoRepo deletes by name, but only what its own press made.
THEOREM SavedPortalsHaveRepos == ProjectSpec => []PortalsHaveRepos
<1>1. ProjectInv => PortalsHaveRepos
  BY DEF ProjectInv
<1> QED
  BY <1>1, ProjectInvariant, PTL

\* "Nothing was saved" is true for every number of presses.
THEOREM NothingIsLeft == ProjectSpec => []NothingMeansNothing
<1>1. ProjectInv => NothingMeansNothing
  BY DEF ProjectInv
<1> QED
  BY <1>1, ProjectInvariant, PTL

-----------------------------------------------------------------------------
(* The pages. *)

\* What a screen asks for is there once one is past it.
ScreensPassed ==
  /\ screen > 2 => described /\ (renews => url)
  /\ screen > 3 => keys[Required] # NoKey
  /\ screen > 4 => repoOK

KeysAccepted == \A x \in Tools : keys[x] \in GoodKeys \cup {NoKey}

WizardInv == WizardTypeOK /\ ScreensPassed /\ KeysAccepted /\ BuildsAreSound

\* The screens by their numbers.
LEMMA ScreenNumbers ==
  /\ Len(Screens) = 5
  /\ Screens[1] = "type" /\ Screens[2] = "describe" /\ Screens[3] = "access"
  /\ Screens[4] = "repo" /\ Screens[5] = "review"
BY DEF Screens

LEMMA OnMeans ==
  ASSUME WizardTypeOK
  PROVE  /\ On("type") => screen = 1
         /\ On("describe") <=> screen = 2 /\ submit # "done"
         /\ On("access") <=> screen = 3 /\ submit # "done"
         /\ On("repo") <=> screen = 4 /\ submit # "done"
         /\ On("review") => screen = 5
<1>1. screen \in 1..5
  BY ScreenNumbers DEF WizardTypeOK
<1>2. screen = 1 \/ screen = 2 \/ screen = 3 \/ screen = 4 \/ screen = 5
  BY <1>1
<1> QED
  BY <1>2, ScreenNumbers DEF On

LEMMA WizardInitially == WizardInit => WizardInv
<1> SUFFICES ASSUME WizardInit PROVE WizardInv
  OBVIOUS
<1> USE DEF WizardInit, NoDraft
<1>1. /\ screen \in 1..Len(Screens) /\ keys \in [Tools -> Keys \cup {NoKey}]
      /\ draft \in [Tools -> Keys \cup {NoKey}]
  BY ScreenNumbers
<1>2. request \in [described : BOOLEAN, repoOK : BOOLEAN, keys : [Tools -> Keys \cup {NoKey}]]
  BY DEF Nothing
<1>3. WizardTypeOK
  BY <1>1, <1>2 DEF WizardTypeOK
<1>4. ScreensPassed /\ KeysAccepted /\ BuildsAreSound
  BY DEF ScreensPassed, KeysAccepted, BuildsAreSound
<1> QED
  BY <1>3, <1>4 DEF WizardInv

\* A screen more needs what the present one asks for.
LEMMA Continues ==
  ASSUME WizardInv, Advance
  PROVE  ScreensPassed'
<1> USE DEF WizardInv
<1>1. screen \in 1..5 /\ screen < 5 /\ screen' = screen + 1 /\ UNCHANGED <<form, keys>>
  BY ScreenNumbers DEF Advance, WizardTypeOK
<1>2. /\ screen = 2 => described /\ (renews => url)
      /\ screen = 3 => keys[Required] # NoKey
      /\ screen = 4 => repoOK
  BY OnMeans DEF Advance, CanContinue
<1> QED
  BY <1>1, <1>2 DEF ScreensPassed, form

LEMMA WizardPreserved == WizardInv /\ [WizardNext]_wizardVars => WizardInv'
<1> SUFFICES ASSUME WizardInv, [WizardNext]_wizardVars PROVE WizardInv'
  OBVIOUS
<1>t. WizardTypeOK /\ ScreensPassed /\ KeysAccepted /\ BuildsAreSound
  BY DEF WizardInv
<1>s. screen \in 1..5 /\ Len(Screens) = 5
  BY <1>t, ScreenNumbers DEF WizardTypeOK
<1> USE WizardAssumption DEF WizardAssumption, form
<1>1. ASSUME ChooseMode PROVE WizardInv'
  <2>1. screen = 1
    BY <1>t, <1>1, OnMeans DEF ChooseMode
  <2> QED
    BY <1>t, <1>1, <2>1
       DEF ChooseMode, WizardInv, WizardTypeOK, ScreensPassed, KeysAccepted, BuildsAreSound
<1>2. ASSUME Describe PROVE WizardInv'
  <2>1. screen = 2
    BY <1>t, <1>2, OnMeans DEF Describe
  <2> QED
    BY <1>t, <1>2, <2>1
       DEF Describe, WizardInv, WizardTypeOK, ScreensPassed, KeysAccepted, BuildsAreSound
<1>3. ASSUME NameRepo PROVE WizardInv'
  <2>1. screen = 4
    BY <1>t, <1>3, OnMeans DEF NameRepo
  <2> QED
    BY <1>t, <1>3, <2>1
       DEF NameRepo, WizardInv, WizardTypeOK, ScreensPassed, KeysAccepted, BuildsAreSound
<1>4. ASSUME Advance PROVE WizardInv'
  <2>1. ScreensPassed'
    BY <1>4, Continues
  <2>2. WizardTypeOK'
    BY <1>t, <1>s, <1>4 DEF Advance, WizardTypeOK, NoDraft
  <2>3. KeysAccepted' /\ BuildsAreSound'
    BY <1>t, <1>4 DEF Advance, KeysAccepted, BuildsAreSound
  <2> QED
    BY <2>1, <2>2, <2>3 DEF WizardInv
<1>5. ASSUME GoBack PROVE WizardInv'
  <2>1. ScreensPassed'
    BY <1>t, <1>s, <1>5 DEF GoBack, ScreensPassed
  <2>2. WizardTypeOK'
    BY <1>t, <1>s, <1>5 DEF GoBack, WizardTypeOK, NoDraft
  <2>3. KeysAccepted' /\ BuildsAreSound'
    BY <1>t, <1>5 DEF GoBack, KeysAccepted, BuildsAreSound
  <2> QED
    BY <2>1, <2>2, <2>3 DEF WizardInv
<1>6. ASSUME NEW x \in Tools, NEW k \in Keys, TypeKey(x, k) PROVE WizardInv'
  BY <1>t, <1>6 DEF TypeKey, WizardInv, WizardTypeOK, ScreensPassed, KeysAccepted, BuildsAreSound
<1>7. ASSUME NEW x \in Tools, Validate(x) PROVE WizardInv'
  <2>1. checks' \subseteq Tools \X Keys
    BY <1>t, <1>7 DEF Validate, WizardTypeOK
  <2> QED
    BY <1>t, <1>7, <2>1
       DEF Validate, WizardInv, WizardTypeOK, ScreensPassed, KeysAccepted, BuildsAreSound
<1>8. ASSUME NEW c \in checks, KeyChecked(c) PROVE WizardInv'
  <2>1. c[1] \in Tools /\ c[2] \in Keys
    BY <1>t DEF WizardTypeOK
  <2>2. /\ keys' \in [Tools -> Keys \cup {NoKey}]
        /\ \A x \in Tools : keys'[x] = keys[x] \/ keys'[x] \in GoodKeys
    BY <1>t, <1>8, <2>1 DEF KeyChecked, WizardTypeOK
  <2>3. WizardTypeOK'
    BY <1>t, <1>8, <2>2 DEF KeyChecked, WizardTypeOK
  <2>4. ScreensPassed' /\ KeysAccepted' /\ BuildsAreSound'
    BY <1>t, <1>8, <2>2 DEF KeyChecked, ScreensPassed, KeysAccepted, BuildsAreSound
  <2> QED
    BY <2>3, <2>4 DEF WizardInv
<1>9. ASSUME NEW x \in Tools, DisconnectKey(x) PROVE WizardInv'
  <2>1. screen = 3
    BY <1>t, <1>9, OnMeans DEF DisconnectKey
  <2>2. /\ keys' \in [Tools -> Keys \cup {NoKey}] /\ draft' \in [Tools -> Keys \cup {NoKey}]
        /\ \A y \in Tools : keys'[y] = keys[y] \/ keys'[y] = NoKey
    BY <1>t, <1>9 DEF DisconnectKey, WizardTypeOK
  <2>3. WizardTypeOK'
    BY <1>t, <1>9, <2>2 DEF DisconnectKey, WizardTypeOK
  <2>4. ScreensPassed' /\ KeysAccepted' /\ BuildsAreSound'
    BY <1>t, <1>9, <2>1, <2>2 DEF DisconnectKey, ScreensPassed, KeysAccepted, BuildsAreSound
  <2> QED
    BY <2>3, <2>4 DEF WizardInv
<1>10. ASSUME PressBuild PROVE WizardInv'
  <2>1. screen = 5
    BY <1>t, <1>10, OnMeans DEF PressBuild
  <2>2. described /\ (renews => url) /\ keys[Required] # NoKey /\ repoOK
    BY <1>t, <2>1 DEF ScreensPassed
  <2>3. WizardTypeOK'
    BY <1>t, <1>10 DEF PressBuild, WizardTypeOK
  <2>4. ScreensPassed' /\ KeysAccepted'
    BY <1>t, <1>10 DEF PressBuild, ScreensPassed, KeysAccepted
  <2>5. BuildsAreSound'
    BY <1>t, <1>10, <2>2 DEF PressBuild, KeysAccepted, BuildsAreSound
  <2> QED
    BY <2>3, <2>4, <2>5 DEF WizardInv
<1>11. ASSUME BuildGoesOn PROVE WizardInv'
  <2>1. \/ request' = request /\ submit' \in {"project", "switch", "done"} /\ submit # "no"
        \/ request' = Nothing /\ submit' = "no"
    BY <1>11 DEF BuildGoesOn
  <2>2. WizardTypeOK'
    <3>1. Nothing \in [described : BOOLEAN, repoOK : BOOLEAN, keys : [Tools -> Keys \cup {NoKey}]]
      BY DEF Nothing, NoDraft
    <3>2. /\ submit' \in {"no", "engine", "project", "switch", "done"}
          /\ request' \in [described : BOOLEAN, repoOK : BOOLEAN, keys : [Tools -> Keys \cup {NoKey}]]
      BY <1>t, <2>1, <3>1 DEF WizardTypeOK
    <3> QED
      BY <1>t, <1>11, <3>2 DEF BuildGoesOn, WizardTypeOK
  <2>3. ScreensPassed' /\ KeysAccepted'
    BY <1>t, <1>11 DEF BuildGoesOn, ScreensPassed, KeysAccepted
  <2>4. BuildsAreSound'
    BY <1>t, <2>1 DEF BuildsAreSound
  <2> QED
    BY <2>2, <2>3, <2>4 DEF WizardInv
<1>12. CASE UNCHANGED wizardVars
  BY <1>t, <1>12
     DEF wizardVars, WizardInv, WizardTypeOK, ScreensPassed, KeysAccepted, BuildsAreSound
<1> QED
  BY <1>1, <1>2, <1>3, <1>4, <1>5, <1>6, <1>7, <1>8, <1>9, <1>10, <1>11, <1>12 DEF WizardNext

\* Every request the pages send is complete and has accepted keys only, for any
\* number of services and keys.
THEOREM SoundBuilds == WizardSpec => []BuildsAreSound
<1>1. WizardInv => BuildsAreSound
  BY DEF WizardInv
<1> QED
  BY <1>1, WizardInitially, WizardPreserved, PTL DEF WizardSpec

-----------------------------------------------------------------------------
(* The schedules. *)

\* A request without company is the only one under way, and knows the row.
AloneKnows ==
  \A e \in EditsUnderWay : alone[e] =>
    /\ EditsUnderWay = {e}
    /\ edit[e] \in {"clear", "upsert"} => row[e] = [plan |-> plan, enabled |-> enabled]
    /\ edit[e] = "upsert" => enabled
    /\ edit[e] = "delete" => scheduler = NoPlan

\* They are in step only when nobody is at work.
QuietInSync == insync => EditsUnderWay = {}

\* The tasks of a firing, by where it is.
TasksCounted ==
  \A j \in Firings :
    /\ firing[j] = "none" => tasks[j] = 0
    /\ firing[j] \in {"read", "create"} => tasks[j] <= stalls[j]

ScheduleInv ==
  ScheduleTypeOK /\ AloneKnows /\ QuietInSync /\ SchedulerFollowsRow /\ TasksCounted /\ FiresOnce

-----------------------------------------------------------------------------
LEMMA ScheduleInitially == ScheduleInit => ScheduleInv
<1> SUFFICES ASSUME ScheduleInit PROVE ScheduleInv
  OBVIOUS
<1> USE ScheduleAssumption DEF ScheduleAssumption, ScheduleInit
<1>1. ScheduleTypeOK
  BY DEF ScheduleTypeOK, NoScheduleRow
<1>2. EditsUnderWay = {}
  BY DEF EditsUnderWay
<1>3. AloneKnows /\ QuietInSync /\ SchedulerFollowsRow
  BY <1>2 DEF AloneKnows, QuietInSync, SchedulerFollowsRow
<1>4. TasksCounted /\ FiresOnce
  BY DEF TasksCounted, FiresOnce
<1> QED
  BY <1>1, <1>3, <1>4 DEF ScheduleInv

\* A step of a firing leaves the requests alone, and the other way round.
LEMMA FiringsApart ==
  ASSUME ScheduleInv, UNCHANGED <<plan, enabled, scheduler, edit, row, alone, insync>>
  PROVE  AloneKnows' /\ QuietInSync' /\ SchedulerFollowsRow'
<1>1. EditsUnderWay' = EditsUnderWay
  BY DEF EditsUnderWay
<1> QED
  BY <1>1 DEF ScheduleInv, AloneKnows, QuietInSync, SchedulerFollowsRow

LEMMA EditsApart ==
  ASSUME ScheduleInv, UNCHANGED <<firing, tasks, stalls>>
  PROVE  TasksCounted' /\ FiresOnce'
BY DEF ScheduleInv, TasksCounted, FiresOnce

\* A request that begins.
LEMMA RequestBegins ==
  ASSUME ScheduleInv, NEW e \in Edits, Joins(e), NEW s \in {"clear", "update", "remove"}, EditAt(e, s)
  PROVE  /\ edit' \in [Edits -> {"new", "update", "clear", "upsert", "remove", "delete", "over"}]
         /\ alone' \in [Edits -> BOOLEAN] /\ insync' = FALSE
         /\ EditsUnderWay' = EditsUnderWay \cup {e}
         /\ \A x \in EditsUnderWay' : alone'[x] => x = e /\ EditsUnderWay' = {e}
<1> USE DEF ScheduleInv, ScheduleTypeOK, EditsUnderWay, Joins, EditAt
<1>1. edit' = [edit EXCEPT ![e] = s] /\ edit[e] = "new"
  OBVIOUS
<1>2. EditsUnderWay' = EditsUnderWay \cup {e}
  BY <1>1
<1> QED
  BY <1>1, <1>2

\* A request that goes on, and one that ends.
LEMMA RequestGoesOn ==
  ASSUME ScheduleInv, NEW e \in EditsUnderWay, NEW s \in {"clear", "upsert", "delete"}, EditAt(e, s)
  PROVE  /\ edit' \in [Edits -> {"new", "update", "clear", "upsert", "remove", "delete", "over"}]
         /\ EditsUnderWay' = EditsUnderWay
         /\ insync = FALSE
         /\ \A x \in EditsUnderWay : x # e => ~alone[x]
<1> USE DEF ScheduleInv, ScheduleTypeOK, EditsUnderWay, EditAt, AloneKnows, QuietInSync
<1>1. edit' = [edit EXCEPT ![e] = s] /\ e \in Edits
  OBVIOUS
<1>2. insync = FALSE
  OBVIOUS
<1>3. \A x \in EditsUnderWay : x # e => ~alone[x]
  OBVIOUS
<1>4. EditsUnderWay' = EditsUnderWay
  BY <1>1
<1> QED
  BY <1>1, <1>2, <1>3, <1>4

LEMMA RequestEnds ==
  ASSUME ScheduleInv, NEW e \in EditsUnderWay, EditAt(e, "over")
  PROVE  /\ edit' \in [Edits -> {"new", "update", "clear", "upsert", "remove", "delete", "over"}]
         /\ EditsUnderWay' = EditsUnderWay \ {e}
         /\ insync = FALSE
         /\ \A x \in EditsUnderWay' : ~alone[x]
         /\ alone[e] => EditsUnderWay' = {}
<1> USE DEF ScheduleInv, ScheduleTypeOK, EditsUnderWay, EditAt, AloneKnows, QuietInSync
<1>1. edit' = [edit EXCEPT ![e] = "over"] /\ e \in Edits
  OBVIOUS
<1>2. insync = FALSE
  OBVIOUS
<1>3. \A x \in EditsUnderWay : x # e => ~alone[x]
  OBVIOUS
<1>4. EditsUnderWay' = EditsUnderWay \ {e}
  BY <1>1
<1>5. alone[e] => EditsUnderWay = {e}
  OBVIOUS
<1> QED
  BY <1>1, <1>2, <1>3, <1>4, <1>5

LEMMA SchedulePreserved == ScheduleInv /\ [ScheduleNext]_scheduleVars => ScheduleInv'
<1> SUFFICES ASSUME ScheduleInv, [ScheduleNext]_scheduleVars PROVE ScheduleInv'
  OBVIOUS
<1>t. ScheduleTypeOK /\ AloneKnows /\ QuietInSync /\ SchedulerFollowsRow /\ TasksCounted /\ FiresOnce
  BY DEF ScheduleInv
<1> USE ScheduleAssumption DEF ScheduleAssumption
<1>1. ASSUME NEW e \in Edits, CreateSchedule(e) PROVE ScheduleInv'
  <2>1. Joins(e) /\ EditAt(e, "clear") /\ UNCHANGED <<scheduler, firing, tasks, stalls>>
    BY <1>1 DEF CreateSchedule
  <2>2. /\ plan' \in Plans /\ enabled' \in BOOLEAN
        /\ row' = [row EXCEPT ![e] = [plan |-> plan', enabled |-> enabled']]
    BY <1>1 DEF CreateSchedule
  <2>3. ScheduleTypeOK'
    BY <1>t, <2>1, <2>2, RequestBegins DEF ScheduleTypeOK
  <2>a. \A x \in EditsUnderWay' : alone'[x] => x = e /\ EditsUnderWay' = {e}
    BY <2>1, RequestBegins
  <2>b. edit'[e] = "clear" /\ row'[e] = [plan |-> plan', enabled |-> enabled']
    BY <1>t, <2>1, <2>2 DEF EditAt, ScheduleTypeOK
  <2>4. AloneKnows'
    BY <2>a, <2>b DEF AloneKnows
  <2>5. QuietInSync' /\ SchedulerFollowsRow'
    BY <2>1, RequestBegins DEF QuietInSync, SchedulerFollowsRow
  <2> QED
    BY <2>1, <2>3, <2>4, <2>5, EditsApart DEF ScheduleInv
<1>2. ASSUME NEW e \in Edits, FindSchedule(e) PROVE ScheduleInv'
  <2>1. Joins(e) /\ UNCHANGED <<plan, enabled, scheduler, row, firing, tasks, stalls>>
    BY <1>2 DEF FindSchedule
  <2>2. PICK s \in {"update", "remove"} : EditAt(e, s)
    BY <1>2 DEF FindSchedule
  <2>3. ScheduleTypeOK'
    BY <1>t, <2>1, <2>2, RequestBegins DEF ScheduleTypeOK
  <2>a. \A x \in EditsUnderWay' : alone'[x] => x = e /\ EditsUnderWay' = {e}
    BY <2>1, <2>2, RequestBegins
  <2>b. edit'[e] \in {"update", "remove"}
    BY <1>t, <2>2 DEF EditAt, ScheduleTypeOK
  <2>4. AloneKnows'
    BY <2>a, <2>b DEF AloneKnows
  <2>5. QuietInSync' /\ SchedulerFollowsRow'
    BY <2>1, <2>2, RequestBegins DEF QuietInSync, SchedulerFollowsRow
  <2> QED
    BY <2>1, <2>3, <2>4, <2>5, EditsApart DEF ScheduleInv
<1>3. ASSUME NEW e \in Edits, UpdateRow(e) PROVE ScheduleInv'
  <2>1. e \in EditsUnderWay /\ UNCHANGED <<scheduler, alone, insync, firing, tasks, stalls>>
    BY <1>3 DEF UpdateRow, EditsUnderWay
  <2>2. CASE EditAt(e, "over") /\ UNCHANGED <<plan, enabled, row>>
    <3>1. ScheduleTypeOK'
      BY <1>t, <2>1, <2>2, RequestEnds DEF ScheduleTypeOK
    <3>2. AloneKnows' /\ QuietInSync' /\ SchedulerFollowsRow'
      BY <2>1, <2>2, RequestEnds DEF AloneKnows, QuietInSync, SchedulerFollowsRow
    <3> QED
      BY <2>1, <3>1, <3>2, EditsApart DEF ScheduleInv
  <2>3. CASE /\ EditAt(e, "clear") /\ plan' \in Plans /\ enabled' \in BOOLEAN
             /\ row' = [row EXCEPT ![e] = [plan |-> plan', enabled |-> enabled']]
    <3>1. ScheduleTypeOK'
      BY <1>t, <2>1, <2>3, RequestGoesOn DEF ScheduleTypeOK
    <3>2. AloneKnows'
      BY <1>t, <2>1, <2>3, RequestGoesOn DEF AloneKnows, EditAt, ScheduleTypeOK, EditsUnderWay
    <3>3. QuietInSync' /\ SchedulerFollowsRow'
      BY <2>1, <2>3, RequestGoesOn DEF QuietInSync, SchedulerFollowsRow
    <3> QED
      BY <2>1, <3>1, <3>2, <3>3, EditsApart DEF ScheduleInv
  <2> QED
    BY <1>3, <2>2, <2>3 DEF UpdateRow
<1>4. ASSUME NEW e \in Edits, ClearScheduler(e) PROVE ScheduleInv'
  <2>1. /\ e \in EditsUnderWay /\ edit[e] = "clear"
        /\ UNCHANGED <<plan, enabled, alone, firing, tasks, stalls>>
    BY <1>4 DEF ClearScheduler, EditsUnderWay
  <2>2. /\ scheduler' \in {NoPlan, scheduler}
        /\ insync' => alone[e] /\ ~row[e].enabled /\ scheduler' = NoPlan
    BY <1>4 DEF ClearScheduler
  <2>3. alone[e] => row[e] = [plan |-> plan, enabled |-> enabled] /\ EditsUnderWay = {e}
    BY <1>t, <2>1 DEF AloneKnows
  <2>4. CASE row[e].enabled
    <3>1. EditAt(e, "upsert") /\ UNCHANGED row /\ insync' = FALSE
      BY <1>4, <2>2, <2>4 DEF ClearScheduler
    <3>2. ScheduleTypeOK'
      BY <1>t, <2>1, <2>2, <3>1, RequestGoesOn DEF ScheduleTypeOK
    <3>3. \A x \in EditsUnderWay : x # e => ~alone'[x]
      BY <2>1, <3>1, RequestGoesOn
    <3>4. edit'[e] = "upsert" /\ EditsUnderWay' = EditsUnderWay
      BY <1>t, <2>1, <3>1, RequestGoesOn DEF EditAt, ScheduleTypeOK, EditsUnderWay
    <3>5. AloneKnows'
      BY <2>1, <2>3, <2>4, <3>1, <3>3, <3>4 DEF AloneKnows
    <3> QED
      BY <2>1, <3>1, <3>2, <3>5, EditsApart DEF ScheduleInv, QuietInSync, SchedulerFollowsRow
  <2>5. CASE ~row[e].enabled
    <3>1. EditAt(e, "over") /\ Forget(e)
      BY <1>4, <2>5 DEF ClearScheduler
    <3>2. ScheduleTypeOK'
      BY <1>t, <1>4, <2>1, <2>2, <3>1, RequestEnds
         DEF ScheduleTypeOK, Forget, NoScheduleRow, ClearScheduler
    <3>3. AloneKnows' /\ QuietInSync'
      BY <2>1, <2>2, <3>1, RequestEnds DEF AloneKnows, QuietInSync
    <3>4. SchedulerFollowsRow'
      BY <2>1, <2>2, <2>3 DEF SchedulerFollowsRow
    <3> QED
      BY <2>1, <3>2, <3>3, <3>4, EditsApart DEF ScheduleInv
  <2> QED
    BY <2>4, <2>5
<1>5. ASSUME NEW e \in Edits, UpsertScheduler(e) PROVE ScheduleInv'
  <2>1. /\ e \in EditsUnderWay /\ edit[e] = "upsert"
        /\ EditAt(e, "over") /\ Forget(e) /\ UNCHANGED <<plan, enabled, alone, firing, tasks, stalls>>
    BY <1>5 DEF UpsertScheduler, EditsUnderWay
  <2>2. /\ scheduler' \in {row[e].plan, scheduler} /\ insync' \in BOOLEAN
        /\ insync' => alone[e] /\ scheduler' = row[e].plan
    BY <1>t, <1>5 DEF UpsertScheduler, ScheduleTypeOK
  <2>3. alone[e] => row[e] = [plan |-> plan, enabled |-> enabled] /\ enabled
    BY <1>t, <2>1 DEF AloneKnows
  <2>a. e \in Edits /\ row[e].plan \in Plans \cup {NoPlan}
    BY <1>t, <2>1 DEF ScheduleTypeOK, EditsUnderWay
  <2>b. row' \in [Edits -> [plan : Plans \cup {NoPlan}, enabled : BOOLEAN]]
    BY <1>t, <2>1 DEF ScheduleTypeOK, Forget, NoScheduleRow
  <2>4. ScheduleTypeOK'
    BY <1>t, <2>1, <2>2, <2>a, <2>b, RequestEnds DEF ScheduleTypeOK
  <2>5. AloneKnows' /\ QuietInSync'
    BY <2>1, <2>2, RequestEnds DEF AloneKnows, QuietInSync
  <2>6. SchedulerFollowsRow'
    BY <2>1, <2>2, <2>3 DEF SchedulerFollowsRow
  <2> QED
    BY <2>1, <2>4, <2>5, <2>6, EditsApart DEF ScheduleInv
<1>6. ASSUME NEW e \in Edits, RemoveScheduler(e) PROVE ScheduleInv'
  <2>1. /\ e \in EditsUnderWay /\ EditAt(e, "delete")
        /\ UNCHANGED <<plan, enabled, row, insync, firing, tasks, stalls>>
    BY <1>6 DEF RemoveScheduler, EditsUnderWay
  <2>2. \/ scheduler' = NoPlan /\ alone' = alone
        \/ scheduler' = scheduler /\ alone' = [alone EXCEPT ![e] = FALSE]
    BY <1>6 DEF RemoveScheduler
  <2>3. ScheduleTypeOK'
    BY <1>t, <2>1, <2>2, RequestGoesOn DEF ScheduleTypeOK, EditsUnderWay
  <2>4. /\ edit'[e] = "delete" /\ EditsUnderWay' = EditsUnderWay /\ insync' = FALSE
        /\ \A x \in EditsUnderWay : x # e => ~alone'[x]
        /\ alone'[e] => alone[e] /\ scheduler' = NoPlan
    BY <1>t, <2>1, <2>2, RequestGoesOn DEF EditAt, ScheduleTypeOK, EditsUnderWay
  <2>5. AloneKnows'
    BY <1>t, <2>1, <2>4 DEF AloneKnows
  <2> QED
    BY <2>1, <2>3, <2>4, <2>5, EditsApart DEF ScheduleInv, QuietInSync, SchedulerFollowsRow
<1>7. ASSUME NEW e \in Edits, DeleteRow(e) PROVE ScheduleInv'
  <2>1. /\ e \in EditsUnderWay /\ edit[e] = "delete" /\ EditAt(e, "over")
        /\ plan' = NoPlan /\ enabled' = FALSE /\ insync' = (alone[e] /\ plan # NoPlan)
        /\ UNCHANGED <<scheduler, row, alone, firing, tasks, stalls>>
    BY <1>7 DEF DeleteRow, EditsUnderWay
  <2>2. alone[e] => scheduler = NoPlan
    BY <1>t, <2>1 DEF AloneKnows
  <2>3. ScheduleTypeOK'
    BY <1>t, <2>1, RequestEnds DEF ScheduleTypeOK, EditsUnderWay
  <2>4. AloneKnows' /\ QuietInSync'
    BY <2>1, RequestEnds DEF AloneKnows, QuietInSync
  <2>5. SchedulerFollowsRow'
    BY <2>1, <2>2 DEF SchedulerFollowsRow
  <2> QED
    BY <2>1, <2>3, <2>4, <2>5, EditsApart DEF ScheduleInv
<1>8. ASSUME EditCut PROVE ScheduleInv'
  <2>1. UNCHANGED <<plan, enabled, scheduler, alone, insync, firing, tasks, stalls>> /\ insync = FALSE
    BY <1>t, <1>8 DEF EditCut, QuietInSync, ScheduleTypeOK
  <2>2. ScheduleTypeOK'
    BY <1>t, <1>8 DEF EditCut, ScheduleTypeOK, NoScheduleRow
  <2>3. EditsUnderWay' = {}
    BY <1>t, <1>8 DEF EditCut, ScheduleTypeOK, EditsUnderWay
  <2> QED
    BY <2>1, <2>2, <2>3, EditsApart DEF ScheduleInv, AloneKnows, QuietInSync, SchedulerFollowsRow
<1>9. ASSUME NEW j \in Firings, FireSchedule(j) PROVE ScheduleInv'
  <2>1. ScheduleTypeOK' /\ TasksCounted' /\ FiresOnce'
    BY <1>t, <1>9 DEF FireSchedule, FiringAt, ScheduleTypeOK, TasksCounted, FiresOnce
  <2> QED
    BY <1>9, <2>1, FiringsApart DEF FireSchedule, ScheduleInv
<1>10. ASSUME NEW j \in Firings, ReadSchedule(j) PROVE ScheduleInv'
  <2>1. ScheduleTypeOK' /\ TasksCounted' /\ FiresOnce'
    BY <1>t, <1>10 DEF ReadSchedule, FiringAt, ScheduleTypeOK, TasksCounted, FiresOnce
  <2> QED
    BY <1>10, <2>1, FiringsApart DEF ReadSchedule, ScheduleInv
<1>11. ASSUME NEW j \in Firings, CreateTask(j) PROVE ScheduleInv'
  <2>1. ScheduleTypeOK' /\ TasksCounted' /\ FiresOnce'
    BY <1>t, <1>11 DEF CreateTask, FiringAt, ScheduleTypeOK, TasksCounted, FiresOnce
  <2> QED
    BY <1>11, <2>1, FiringsApart DEF CreateTask, ScheduleInv
<1>12. ASSUME NEW j \in Firings, StampRun(j) PROVE ScheduleInv'
  <2>1. ScheduleTypeOK' /\ TasksCounted' /\ FiresOnce'
    BY <1>t, <1>12 DEF StampRun, FiringAt, ScheduleTypeOK, TasksCounted, FiresOnce
  <2> QED
    BY <1>12, <2>1, FiringsApart DEF StampRun, ScheduleInv
<1>13. ASSUME NEW j \in Firings, StallFiring(j) PROVE ScheduleInv'
  <2>1. ScheduleTypeOK'
    BY <1>t, <1>13 DEF StallFiring, FiringAt, ScheduleTypeOK
  <2>2. TasksCounted' /\ FiresOnce'
    BY <1>t, <1>13 DEF StallFiring, FiringAt, ScheduleTypeOK, TasksCounted, FiresOnce
  <2> QED
    BY <1>13, <2>1, <2>2, FiringsApart DEF StallFiring, ScheduleInv
<1>14. CASE UNCHANGED scheduleVars
  <2>1. ScheduleTypeOK'
    BY <1>t, <1>14 DEF scheduleVars, ScheduleTypeOK
  <2> QED
    BY <1>14, <2>1, FiringsApart, EditsApart DEF scheduleVars, ScheduleInv
<1> QED
  BY <1>1, <1>2, <1>3, <1>4, <1>5, <1>6, <1>7, <1>8, <1>9, <1>10, <1>11, <1>12, <1>13, <1>14
     DEF ScheduleNext

THEOREM ScheduleInvariant == ScheduleSpec => []ScheduleInv
BY ScheduleInitially, SchedulePreserved, PTL DEF ScheduleSpec

\* A request that ends well and had no company leaves the scheduler as the row
\* says, for any number of requests before it.
THEOREM SchedulersFollow == ScheduleSpec => []SchedulerFollowsRow
<1>1. ScheduleInv => SchedulerFollowsRow
  BY DEF ScheduleInv
<1> QED
  BY <1>1, ScheduleInvariant, PTL

\* No firing creates more tasks than it was begun.
THEOREM FiringsAreOnce == ScheduleSpec => []FiresOnce
<1>1. ScheduleInv => FiresOnce
  BY DEF ScheduleInv
<1> QED
  BY <1>1, ScheduleInvariant, PTL
=============================================================================

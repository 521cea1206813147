------------------------------ MODULE NewProject ------------------------------
(***************************************************************************)
(* The wizard's one request for a whole project (create of                 *)
(* new-project.service.ts): the repository on GitHub first, then all rows  *)
(* of the portal in one transaction, with the repository deleted again     *)
(* when that fails, then the start of the build.                           *)
(*                                                                         *)
(* All requests here ask for the same name on the same GitHub account;     *)
(* a request is one press of the button, a press after an error a new one. *)
(***************************************************************************)
EXTENDS Naturals

CONSTANTS Presses,  \* the requests
          NoPress   \* the name is free on GitHub

ASSUME ProjectAssumption == NoPress \notin Presses

VARIABLES
  engineOK,  \* does the Claude engine answer, with a login?
  repo,      \* the request whose repository has the name on GitHub
  saved,     \* the requests whose portal, repository and task rows are there
  building,  \* those whose task is queued
  press,     \* where each request is, or what it has answered
  unsure     \* the requests that lost the answer of GitHub or of a commit

projectVars == <<engineOK, repo, saved, building, press, unsure>>

PressSteps == {"new", "create", "commit", "undo", "start",
               "built", "no engine", "no repo", "nothing saved", "repo left", "cut off"}

ProjectInit ==
  /\ engineOK = TRUE /\ repo = NoPress
  /\ saved = {} /\ building = {} /\ unsure = {}
  /\ press = [r \in Presses |-> "new"]

PressAt(r, s) == press' = [press EXCEPT ![r] = s]

-----------------------------------------------------------------------------
\* The engine loses its login, or gets one; people delete what they own.
EngineTurns ==
  /\ engineOK' = ~engineOK
  /\ UNCHANGED <<repo, saved, building, press, unsure>>

DeletePortal(r) ==
  /\ r \in saved
  /\ saved' = saved \ {r} /\ building' = building \ {r}
  /\ UNCHANGED <<engineOK, repo, press, unsure>>

\* Only a repository no portal needs.
TidyRepo ==
  /\ repo # NoPress /\ repo \notin saved /\ press[repo] \notin {"commit", "undo"}
  /\ repo' = NoPress
  /\ UNCHANGED <<engineOK, saved, building, press, unsure>>

-----------------------------------------------------------------------------
\* "Do this BEFORE the GitHub repo so a dead engine leaves nothing."
AskEngine(r) ==
  /\ press[r] = "new"
  /\ PressAt(r, IF engineOK THEN "create" ELSE "no engine")
  /\ UNCHANGED <<engineOK, repo, saved, building, unsure>>

\* GitHub refuses a token, or a name that is taken; its answer may be lost.
CreateRepo(r) ==
  /\ press[r] = "create"
  /\ \/ repo = NoPress /\ repo' = r /\ PressAt(r, "commit") /\ UNCHANGED unsure
     \/ repo = NoPress /\ repo' = r /\ PressAt(r, "no repo") /\ unsure' = unsure \cup {r}
     \/ PressAt(r, "no repo") /\ UNCHANGED <<repo, unsure>>
  /\ UNCHANGED <<engineOK, saved, building>>

\* All rows or none; the answer of the commit may be lost.
CommitPortal(r) ==
  /\ press[r] = "commit"
  /\ \/ saved' = saved \cup {r} /\ PressAt(r, "start") /\ UNCHANGED unsure
     \/ saved' = saved \cup {r} /\ PressAt(r, "undo") /\ unsure' = unsure \cup {r}
     \/ PressAt(r, "undo") /\ UNCHANGED <<saved, unsure>>
  /\ UNCHANGED <<engineOK, repo, building>>

\* deleteRepository, by name: a token without delete_repo may not, and the
\* answer may be lost.
UndoRepoSilently(r) ==
  /\ press[r] = "undo"
  /\ \E deleted \in BOOLEAN : repo' = IF deleted THEN NoPress ELSE repo
  /\ PressAt(r, "nothing saved")
  /\ UNCHANGED <<engineOK, saved, building, unsure>>
UndoRepo(r) ==
  /\ press[r] = "undo"
  /\ \/ repo # NoPress /\ repo' = NoPress /\ \E s \in {"nothing saved", "repo left"} : PressAt(r, s)
     \/ UNCHANGED repo /\ PressAt(r, "repo left")
  /\ UNCHANGED <<engineOK, saved, building, unsure>>

\* startBuildTask; a failure is only logged.
StartBuildOrUndo(r) ==
  /\ press[r] = "start"
  /\ \/ building' = building \cup ({r} \cap saved) /\ PressAt(r, "built")
     \/ UNCHANGED building /\ PressAt(r, "undo")
  /\ UNCHANGED <<engineOK, repo, saved, unsure>>
StartPressedBuild(r) ==
  /\ press[r] = "start"
  /\ \E queued \in BOOLEAN : building' = IF queued THEN building \cup ({r} \cap saved) ELSE building
  /\ PressAt(r, "built")
  /\ UNCHANGED <<engineOK, repo, saved, unsure>>

\* A restart of the server between two steps.
CutOff(r) ==
  /\ press[r] \in {"create", "commit", "undo", "start"}
  /\ PressAt(r, "cut off")
  /\ UNCHANGED <<engineOK, repo, saved, building, unsure>>

ProjectNext ==
  \/ EngineTurns \/ TidyRepo
  \/ \E r \in Presses : \/ DeletePortal(r) \/ AskEngine(r) \/ CreateRepo(r) \/ CommitPortal(r)
                        \/ UndoRepo(r) \/ StartPressedBuild(r) \/ CutOff(r)

ProjectSpec == ProjectInit /\ [][ProjectNext]_projectVars

-----------------------------------------------------------------------------
\* Every variable of the requests stays within its type.
ProjectTypeOK ==
  /\ engineOK \in BOOLEAN
  /\ repo \in Presses \cup {NoPress}
  /\ saved \subseteq Presses /\ building \subseteq saved /\ unsure \subseteq Presses
  /\ press \in [Presses -> PressSteps]

\* "ONE Prisma transaction" after the repository: a portal that is saved has
\* its repository on GitHub, whatever fails later and whoever else asks for the
\* same name, unless the answer of its commit was lost and it was undone.
PortalsHaveRepos == \A r \in saved \ unsure : repo = r

\* "Nothing was saved - please try again": when a request says so, neither its
\* portal nor its repository is there, so the next press does not meet the name.
NothingMeansNothing ==
  \A r \in Presses \ unsure : press[r] = "nothing saved" => r \notin saved /\ repo # r
=============================================================================

----------------------------- MODULE RepoAnalysis -----------------------------
(***************************************************************************)
(* The repositories of a portal and their analysis: imports                *)
(* (repositories.service.ts), the analysis an import starts in the         *)
(* background and the one a person asks for (repo-analysis.service.ts).    *)
(*                                                                         *)
(* A row is known by its number, since a repository that is disconnected   *)
(* and imported again has another row.  A step is one await.               *)
(***************************************************************************)
EXTENDS Naturals

CONSTANTS Repos,   \* repositories on GitHub
          Imports, \* requests that import
          Clicks,  \* requests that analyze one repository
          MaxRows, \* rows ever made (a bound)
          NoRepo

ASSUME RepoAssumption == MaxRows \in Nat /\ NoRepo \notin Repos

Rows == 1..MaxRows

VARIABLES
  made,      \* rows made so far
  repoOf,    \* the repository of each row; NoRepo: no such row
  analysis,  \* Repository.analysisStatus
  reqAt,     \* where each request is
  chosen,    \* the repositories an import still has to write
  rest,      \* the rows a background analysis still has to go through
  on,        \* the row a request is analyzing; 0: none
  listed,    \* the rows an import has found to analyze, or a person has asked about
  down       \* the server has restarted

repoVars == <<made, repoOf, analysis, reqAt, chosen, rest, on, listed, down>>

Requests == Imports \cup Clicks
Alive == {n \in Rows : repoOf[n] # NoRepo}
Imported == {repoOf[n] : n \in Alive}

RepoSteps == {"idle", "write", "stamp", "list", "next", "find", "mark", "look", "store", "fail", "over"}

RepoInit ==
  /\ made = 0
  /\ repoOf = [n \in Rows |-> NoRepo] /\ analysis = [n \in Rows |-> "none"]
  /\ reqAt = [i \in Requests |-> "idle"]
  /\ chosen = [i \in Imports |-> {}] /\ rest = [i \in Imports |-> {}]
  /\ on = [i \in Requests |-> 0] /\ listed = {}
  /\ down = FALSE

RequestAt(i, s) == reqAt' = [reqAt EXCEPT ![i] = s]

\* A row that is made is still to be analyzed.
NewRow(r) ==
  /\ r \notin Imported /\ made < MaxRows
  /\ made' = made + 1
  /\ repoOf' = [repoOf EXCEPT ![made + 1] = r]
  /\ analysis' = [analysis EXCEPT ![made + 1] = "pending"]

-----------------------------------------------------------------------------
(* Other requests. *)

\* createNew, or a portal with a new repository: nobody analyzes it by itself.
CreateNew(r) ==
  /\ NewRow(r)
  /\ UNCHANGED <<reqAt, chosen, rest, on, listed, down>>

\* remove and bulkDelete, at any time.
RemoveRepo(n) ==
  /\ n \in Alive
  /\ repoOf' = [repoOf EXCEPT ![n] = NoRepo] /\ analysis' = [analysis EXCEPT ![n] = "none"]
  /\ UNCHANGED <<made, reqAt, chosen, rest, on, listed, down>>

-----------------------------------------------------------------------------
(* An import. *)

\* The remote list has what one may choose from; what it lacks is left out, and
\* without a list or an integration the request fails.
ListRemote(i) ==
  /\ reqAt[i] = "idle"
  /\ \/ \E S \in SUBSET Repos : chosen' = [chosen EXCEPT ![i] = S] /\ RequestAt(i, "write")
     \/ UNCHANGED chosen /\ RequestAt(i, "over")
  /\ UNCHANGED <<made, repoOf, analysis, rest, on, listed, down>>

\* One upsert; a row there is keeps its analysis.  An error is passed over.
UpsertRepo(i, r) ==
  /\ reqAt[i] = "write" /\ r \in chosen[i]
  /\ chosen' = [chosen EXCEPT ![i] = @ \ {r}]
  /\ NewRow(r) \/ UNCHANGED <<made, repoOf, analysis>>
  /\ UNCHANGED <<reqAt, rest, on, listed, down>>

\* lastSyncAt of the integration, and the answer.  Only a selective import goes
\* on in the background; the other two kinds end here.
StampImport(i) ==
  /\ reqAt[i] = "write" /\ chosen[i] = {}
  /\ \E s \in {"list", "over"} : RequestAt(i, s)
  /\ UNCHANGED <<made, repoOf, analysis, chosen, rest, on, listed, down>>

\* analyzePending: the rows of the whole portal that nobody has analyzed.
ListPending(i) ==
  /\ reqAt[i] = "list"
  /\ rest' = [rest EXCEPT ![i] = {n \in Rows : analysis[n] = "pending"}]
  /\ listed' = listed \cup {n \in Rows : analysis[n] = "pending"}
  /\ RequestAt(i, "next")
  /\ UNCHANGED <<made, repoOf, analysis, chosen, on, down>>

NextPending(i) ==
  /\ reqAt[i] = "next"
  /\ \/ /\ rest[i] = {} /\ RequestAt(i, "over") /\ UNCHANGED <<rest, on>>
     \/ \E n \in rest[i] :
          /\ rest' = [rest EXCEPT ![i] = @ \ {n}] /\ on' = [on EXCEPT ![i] = n]
          /\ RequestAt(i, "find")
  /\ UNCHANGED <<made, repoOf, analysis, chosen, listed, down>>

-----------------------------------------------------------------------------
(* The analysis of one row. *)

\* A person asks for it, also again.
AskAnalysis(i, n) ==
  /\ i \in Clicks /\ reqAt[i] = "idle" /\ n \in Alive
  /\ on' = [on EXCEPT ![i] = n] /\ RequestAt(i, "find")
  /\ listed' = listed \cup {n}
  /\ UNCHANGED <<made, repoOf, analysis, chosen, rest, down>>

\* The analysis has ended, well or with an error, which the loop of
\* analyzePending passes over.
AnalysisOver(i) ==
  /\ RequestAt(i, IF i \in Imports THEN "next" ELSE "over")
  /\ on' = [on EXCEPT ![i] = 0]

FindRepo(i) ==
  /\ reqAt[i] = "find"
  /\ IF on[i] \in Alive THEN RequestAt(i, "mark") /\ UNCHANGED on ELSE AnalysisOver(i)
  /\ UNCHANGED <<made, repoOf, analysis, chosen, rest, listed, down>>

MarkAnalyzing(i) ==
  /\ reqAt[i] = "mark"
  /\ IF on[i] \in Alive
     THEN analysis' = [analysis EXCEPT ![on[i]] = "analyzing"] /\ RequestAt(i, "look") /\ UNCHANGED on
     ELSE AnalysisOver(i) /\ UNCHANGED analysis
  /\ UNCHANGED <<made, repoOf, chosen, rest, listed, down>>

\* The stack, the CI, the summary and the related repositories; the adapter or
\* the model may refuse.
LookInto(i) ==
  /\ reqAt[i] = "look"
  /\ \E s \in {"store", "fail"} : RequestAt(i, s)
  /\ UNCHANGED <<made, repoOf, analysis, chosen, rest, on, listed, down>>

StoreAnalysis(i) ==
  /\ reqAt[i] = "store"
  /\ IF on[i] \in Alive
     THEN analysis' = [analysis EXCEPT ![on[i]] = "done"] /\ AnalysisOver(i)
     ELSE RequestAt(i, "fail") /\ UNCHANGED <<analysis, on>>
  /\ UNCHANGED <<made, repoOf, chosen, rest, listed, down>>

StoreFailureOfFirst(i) ==
  /\ reqAt[i] = "fail"
  /\ analysis' = IF on[i] \in Alive THEN [analysis EXCEPT ![on[i]] = "failed"] ELSE analysis
  /\ RequestAt(i, "over") /\ on' = [on EXCEPT ![i] = 0]
  /\ UNCHANGED <<made, repoOf, chosen, rest, listed, down>>
StoreFailure(i) ==
  /\ reqAt[i] = "fail"
  /\ analysis' = IF on[i] \in Alive THEN [analysis EXCEPT ![on[i]] = "failed"] ELSE analysis
  /\ AnalysisOver(i)
  /\ UNCHANGED <<made, repoOf, chosen, rest, listed, down>>

\* The server restarts: nothing goes on that was under way.
ServerRestart ==
  /\ ~down /\ down' = TRUE
  /\ reqAt' = [i \in Requests |-> IF reqAt[i] = "idle" THEN "idle" ELSE "over"]
  /\ chosen' = [i \in Imports |-> {}] /\ rest' = [i \in Imports |-> {}]
  /\ on' = [i \in Requests |-> 0]
  /\ UNCHANGED <<made, repoOf, analysis, listed>>

ImportGoesOn(i) ==
  \/ \E r \in Repos : UpsertRepo(i, r)
  \/ StampImport(i) \/ ListPending(i) \/ NextPending(i)

AnalysisGoesOn(i) ==
  FindRepo(i) \/ MarkAnalyzing(i) \/ LookInto(i) \/ StoreAnalysis(i) \/ StoreFailure(i)

RepoStep(i) == (i \in Imports /\ ImportGoesOn(i)) \/ AnalysisGoesOn(i)

RepoNext ==
  \/ \E r \in Repos : CreateNew(r)
  \/ \E n \in Rows : RemoveRepo(n)
  \/ \E i \in Imports : ListRemote(i)
  \/ \E i \in Clicks, n \in Rows : AskAnalysis(i, n)
  \/ \E i \in Requests : RepoStep(i)
  \/ ServerRestart

RepoSpec == RepoInit /\ [][RepoNext]_repoVars

\* Nobody cancels a request, and calls to GitHub and the model return.
FairRepoSpec == RepoSpec /\ WF_repoVars(\E i \in Requests : RepoStep(i))

-----------------------------------------------------------------------------
\* Every variable of the repositories stays within its type.
RepoTypeOK ==
  /\ made \in 0..MaxRows
  /\ repoOf \in [Rows -> Repos \cup {NoRepo}]
  /\ analysis \in [Rows -> {"none", "pending", "analyzing", "done", "failed"}]
  /\ reqAt \in [Requests -> RepoSteps]
  /\ chosen \in [Imports -> SUBSET Repos] /\ rest \in [Imports -> SUBSET Rows]
  /\ on \in [Requests -> 0..MaxRows] /\ listed \subseteq Rows
  /\ down \in BOOLEAN

\* "failures are swallowed per-repo": what an import has left to analyze, and
\* what is being analyzed, is done or failed in the end, or was disconnected:
\* the failure of one repository, a second analysis of the same one, or its
\* disconnection meanwhile does not leave the others behind.  Only a restart of
\* the server does, and nothing takes them up again.
AnalysesEnd ==
  <>[](down \/ \A n \in Rows : /\ analysis[n] # "analyzing"
                               /\ n \in listed => analysis[n] # "pending")
=============================================================================

-------------------------------- MODULE Wizard --------------------------------
(***************************************************************************)
(* The pages of the panel that ask for a new project (NewPortalPage and    *)
(* ConnectBlock of new-portal-page.tsx): five screens one goes forward and *)
(* back through, keys that are validated by the server before they are     *)
(* taken over, and the press of "Build project", whose request NewProject  *)
(* goes on with.  A handler goes on, after each await, with the values of  *)
(* the render that it was called from.                                     *)
(***************************************************************************)
EXTENDS Naturals, Sequences

CONSTANTS Tools,     \* the services one may connect
          Required,  \* GitHub
          Keys,      \* what may be typed as a key
          GoodKeys,  \* those the server accepts
          NoKey

ASSUME WizardAssumption == Required \in Tools /\ GoodKeys \subseteq Keys /\ NoKey \notin Keys

Screens == <<"type", "describe", "access", "repo", "review">>

VARIABLES
  screen,   \* the index of the step
  renews,   \* mode = "refresh"
  described, \* are there a name and a prompt?
  url,      \* is sourceUrl one?
  repoOK,   \* is the repository name one?
  keys,     \* the keys taken over
  draft,    \* what is typed into each block
  checks,   \* the validations under way
  submit,    \* where the press of "Build project" is
  request    \* what the last press sends

wizardVars == <<screen, renews, described, url, repoOK, keys, draft, checks, submit, request>>

NoDraft == [x \in Tools |-> NoKey]
Nothing == [described |-> FALSE, repoOK |-> FALSE, keys |-> NoDraft]

WizardInit ==
  /\ screen = 1 /\ submit = "no" /\ request = Nothing
  /\ renews = FALSE /\ described = FALSE /\ url = FALSE /\ repoOK = TRUE
  /\ keys = NoDraft /\ draft = NoDraft /\ checks = {}

On(s) == Screens[screen] = s /\ submit # "done"
form == <<renews, described, url, repoOK>>

-----------------------------------------------------------------------------
(* The screens. *)

ChooseMode ==
  /\ On("type") /\ renews' = ~renews
  /\ UNCHANGED <<screen, described, url, repoOK, keys, draft, checks, submit, request>>

Describe ==
  /\ On("describe")
  /\ \E d, u \in BOOLEAN : described' = d /\ url' = u /\ (d # described \/ u # url)
  /\ UNCHANGED <<screen, renews, repoOK, keys, draft, checks, submit, request>>

NameRepo ==
  /\ On("repo") /\ repoOK' = ~repoOK
  /\ UNCHANGED <<screen, renews, described, url, keys, draft, checks, submit, request>>

CanContinue ==
  /\ On("describe") => described /\ (renews => url)
  /\ On("access") => keys[Required] # NoKey
  /\ On("repo") => repoOK

\* A block that leaves the screen forgets what was typed into it.
Advance ==
  /\ screen < Len(Screens) /\ submit # "done" /\ CanContinue
  /\ screen' = screen + 1 /\ draft' = NoDraft
  /\ UNCHANGED <<form, keys, checks, submit, request>>

GoBack ==
  /\ screen > 1 /\ submit # "done"
  /\ screen' = screen - 1 /\ draft' = NoDraft
  /\ UNCHANGED <<form, keys, checks, submit, request>>

-----------------------------------------------------------------------------
(* A block of the access screen. *)

TypeKey(x, k) ==
  /\ On("access") /\ keys[x] = NoKey /\ draft[x] # k
  /\ draft' = [draft EXCEPT ![x] = k]
  /\ UNCHANGED <<screen, form, keys, checks, submit, request>>

\* Enter validates again while a validation is under way.
Validate(x) ==
  /\ On("access") /\ keys[x] = NoKey /\ draft[x] # NoKey
  /\ checks' = checks \cup {<<x, draft[x]>>}
  /\ UNCHANGED <<screen, form, keys, draft, submit, request>>

\* The key is lifted once it validates, wherever one has gone meanwhile; the
\* server may also be out of reach.
KeyCheckedByDraft(c) ==
  /\ c \in checks
  /\ checks' = checks \ {c}
  /\ \/ c[2] \in GoodKeys /\ keys' = [keys EXCEPT ![c[1]] = draft[c[1]]]
     \/ UNCHANGED keys
  /\ UNCHANGED <<screen, form, draft, submit, request>>
KeyChecked(c) ==
  /\ c \in checks
  /\ checks' = checks \ {c}
  /\ \/ c[2] \in GoodKeys /\ keys' = [keys EXCEPT ![c[1]] = c[2]]
     \/ UNCHANGED keys
  /\ UNCHANGED <<screen, form, draft, submit, request>>

DisconnectKey(x) ==
  /\ On("access") /\ keys[x] # NoKey
  /\ keys' = [keys EXCEPT ![x] = NoKey] /\ draft' = [draft EXCEPT ![x] = NoKey]
  /\ UNCHANGED <<screen, form, checks, submit, request>>

-----------------------------------------------------------------------------
(* The build. *)

PressBuild ==
  /\ On("review") /\ submit = "no"
  /\ submit' = "engine"
  /\ request' = [described |-> described /\ (renews => url), repoOK |-> repoOK, keys |-> keys]
  /\ UNCHANGED <<screen, form, keys, draft, checks>>

\* The engine is asked, then the project; an error lets one press again.
BuildGoesOn ==
  /\ submit \in {"engine", "project", "switch"}
  /\ \/ /\ submit' = (CASE submit = "engine" -> "project" [] submit = "project" -> "switch" [] OTHER -> "done")
        /\ UNCHANGED request
     \/ submit # "switch" /\ submit' = "no" /\ request' = Nothing
  /\ UNCHANGED <<screen, form, keys, draft, checks>>

WizardNext ==
  \/ ChooseMode \/ Describe \/ NameRepo \/ Advance \/ GoBack \/ PressBuild \/ BuildGoesOn
  \/ \E x \in Tools : Validate(x) \/ DisconnectKey(x) \/ \E k \in Keys : TypeKey(x, k)
  \/ \E c \in checks : KeyChecked(c)

WizardSpec == WizardInit /\ [][WizardNext]_wizardVars

-----------------------------------------------------------------------------
\* Every variable of the wizard stays within its type.
WizardTypeOK ==
  /\ screen \in 1..Len(Screens)
  /\ renews \in BOOLEAN /\ described \in BOOLEAN /\ url \in BOOLEAN /\ repoOK \in BOOLEAN
  /\ keys \in [Tools -> Keys \cup {NoKey}] /\ draft \in [Tools -> Keys \cup {NoKey}]
  /\ checks \subseteq Tools \X Keys
  /\ submit \in {"no", "engine", "project", "switch", "done"}
  /\ request \in [described : BOOLEAN, repoOK : BOOLEAN, keys : [Tools -> Keys \cup {NoKey}]]

\* "A set key is always a good key": the request of a press has all that a
\* project needs and only keys the server has accepted, however one went back
\* and forth, disconnected and typed anew while validations were under way.
BuildsAreSound ==
  submit # "no" =>
    /\ request.described /\ request.repoOK /\ request.keys[Required] # NoKey
    /\ \A x \in Tools : request.keys[x] \in GoodKeys \cup {NoKey}
=============================================================================

------------------------------- MODULE Portals -------------------------------
(***************************************************************************)
(* The deletion of empty portals (organizations) and what becomes of the   *)
(* AI keys stored in them (deleteEmptyOrganization of users.service.ts).   *)
(* A key serves the whole server; its portal is only where its row is, and *)
(* a portal has at most one key of a provider.                             *)
(***************************************************************************)
EXTENDS Naturals, FiniteSets

CONSTANTS Portals,    \* organizations
          Providers,  \* AI providers
          NoPortal

VARIABLES
  exists,   \* the portals there are
  built,    \* those with a repository
  busy,     \* those with a session that is CREATING or RUNNING
  keyRows,  \* the AICredential rows, as portal and provider
  deleting, \* where the deletion of each portal is
  todo,     \* the providers it has still to move
  heir,     \* the survivor it has picked
  had,      \* providers somebody has given a key of
  crossed   \* a deletion was met by another one or by a new key, or a key failed to move

portalVars == <<exists, built, busy, keyRows, deleting, todo, heir, had, crossed>>

DeletionSteps == {"none", "count", "list", "pick", "move", "drop", "done", "refused"}

PortalInit ==
  /\ exists = Portals /\ built = {} /\ busy = {} /\ keyRows = {} /\ had = {}
  /\ deleting = [o \in Portals |-> "none"]
  /\ todo = [o \in Portals |-> {}]
  /\ heir = [o \in Portals |-> NoPortal]
  /\ crossed = FALSE

DeletionAt(o, p) == deleting' = [deleting EXCEPT ![o] = p]
UnderWay == {o \in Portals : deleting[o] \in {"list", "pick", "move", "drop"}}

-----------------------------------------------------------------------------
(* What people and agents do meanwhile. *)

AddKey(o, p) ==
  /\ o \in exists /\ <<o, p>> \notin keyRows
  /\ keyRows' = keyRows \cup {<<o, p>>} /\ had' = had \cup {p}
  /\ crossed' = (crossed \/ UnderWay # {})
  /\ UNCHANGED <<exists, built, busy, deleting, todo, heir>>

StartBuild(o) ==
  /\ o \in exists /\ o \notin busy
  /\ busy' = busy \cup {o}
  /\ UNCHANGED <<exists, built, keyRows, deleting, todo, heir, had, crossed>>

BuildEnds(o) ==
  /\ o \in busy
  /\ busy' = busy \ {o} /\ built' = IF o \in exists THEN built \cup {o} ELSE built
  /\ UNCHANGED <<exists, keyRows, deleting, todo, heir, had, crossed>>

-----------------------------------------------------------------------------
(* deleteEmptyOrganization. *)

AskDeletion(o) ==
  /\ deleting[o] = "none" /\ o \in exists
  /\ DeletionAt(o, IF o \in built THEN "refused" ELSE "count")
  /\ UNCHANGED <<exists, built, busy, keyRows, todo, heir, had, crossed>>

CountWorkers(o) ==
  /\ deleting[o] = "count"
  /\ DeletionAt(o, IF o \in busy THEN "refused" ELSE "list")
  /\ crossed' = (crossed \/ (o \notin busy /\ UnderWay # {}))
  /\ UNCHANGED <<exists, built, busy, keyRows, todo, heir, had>>

ListKeys(o) ==
  /\ deleting[o] = "list"
  /\ todo' = [todo EXCEPT ![o] = {p \in Providers : <<o, p>> \in keyRows}]
  /\ DeletionAt(o, IF todo'[o] = {} THEN "drop" ELSE "pick")
  /\ UNCHANGED <<exists, built, busy, keyRows, heir, had, crossed>>

\* findFirst, of any other organization.
PickAny(o) ==
  /\ deleting[o] = "pick"
  /\ \E s \in exists : heir' = [heir EXCEPT ![o] = s]
  /\ DeletionAt(o, "move")
  /\ UNCHANGED <<exists, built, busy, keyRows, todo, had, crossed>>
PickSurvivor(o) ==
  /\ deleting[o] = "pick"
  /\ \/ \E s \in exists \ {o} : heir' = [heir EXCEPT ![o] = s] /\ DeletionAt(o, "move")
     \/ exists \subseteq {o} /\ UNCHANGED heir /\ DeletionAt(o, "drop")
  /\ UNCHANGED <<exists, built, busy, keyRows, todo, had, crossed>>

\* One key: where it cannot move, for the survivor has one of that provider or
\* is gone itself, it is deleted; so it is when the update fails for a reason of
\* its own, whatever that is.
MoveKey(o, p) ==
  /\ deleting[o] = "move" /\ p \in todo[o]
  /\ \/ keyRows' = (keyRows \ {<<o, p>>})
          \cup (IF heir[o] \in exists /\ <<o, p>> \in keyRows THEN {<<heir[o], p>>} ELSE {})
        /\ UNCHANGED crossed
     \/ keyRows' = keyRows \ {<<o, p>>} /\ crossed' = TRUE
  /\ todo' = [todo EXCEPT ![o] = @ \ {p}]
  /\ DeletionAt(o, IF todo'[o] = {} THEN "drop" ELSE "move")
  /\ UNCHANGED <<exists, built, busy, heir, had>>

\* The transaction; the rows that refer to the portal go with it.
DropPortal(o) ==
  /\ deleting[o] = "drop"
  /\ exists' = exists \ {o} /\ built' = built \ {o}
  /\ keyRows' = {k \in keyRows : k[1] # o}
  /\ DeletionAt(o, "done")
  /\ UNCHANGED <<busy, todo, heir, had, crossed>>

\* A restart of the server between two of its steps.
DeletionCut(o) ==
  /\ deleting[o] \notin {"none", "done", "refused"}
  /\ DeletionAt(o, "refused")
  /\ UNCHANGED <<exists, built, busy, keyRows, todo, heir, had, crossed>>

PortalNext ==
  \E o \in Portals :
    \/ AskDeletion(o) \/ CountWorkers(o) \/ ListKeys(o) \/ PickSurvivor(o)
    \/ DropPortal(o) \/ DeletionCut(o) \/ StartBuild(o) \/ BuildEnds(o)
    \/ \E p \in Providers : AddKey(o, p) \/ MoveKey(o, p)

PortalSpec == PortalInit /\ [][PortalNext]_portalVars

-----------------------------------------------------------------------------
\* Every variable of the portals stays within its type.
PortalTypeOK ==
  /\ exists \subseteq Portals /\ built \subseteq exists /\ busy \subseteq Portals
  /\ keyRows \subseteq exists \X Providers
  /\ deleting \in [Portals -> DeletionSteps]
  /\ todo \in [Portals -> SUBSET Providers]
  /\ heir \in [Portals -> Portals \cup {NoPortal}]
  /\ had \subseteq Providers /\ crossed \in BOOLEAN

\* "Re-anchor any AI keys here to a surviving org BEFORE the delete, so the
\* shared key lives on": as long as no deletion meets another one or a new key
\* and the database refuses no move but for the two reasons of MoveKey, the
\* server keeps a key of every provider it had one of while it has a portal,
\* wherever a deletion stops.
KeysLiveOn ==
  ~crossed /\ exists # {} => \A p \in had : \E o \in exists : <<o, p>> \in keyRows
=============================================================================

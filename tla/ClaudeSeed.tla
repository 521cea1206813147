------------------------------ MODULE ClaudeSeed ------------------------------
(***************************************************************************)
(* The shared login of the Claude engine: one file in the seed volume that *)
(* new containers start from, and three that write it - the sync of every  *)
(* session server (startClaudeAuthSeedSync of server.js), the keep-warm    *)
(* cycle of the watchdog and the panel's relogin                           *)
(* (session-container.service.ts).                                         *)
(*                                                                         *)
(* A login is its expiry: a number that grows with every refresh; 0 is a   *)
(* file that is missing or cannot be read.  All write the same temporary   *)
(* file and rename it; a file that is renamed while another writer has it  *)
(* open is then written under its new name.                                *)
(***************************************************************************)
EXTENDS Naturals, FiniteSets

CONSTANTS Homes,     \* organizations, each with a home volume and a container
          MaxLogins  \* logins Claude issues in all (a bound)

ASSUME SeedAssumption == MaxLogins \in Nat /\ Homes \cap {"warm", "relogin"} = {}

Logins  == 0..MaxLogins
Writers == Homes \cup {"warm", "relogin"}
Gone    == MaxLogins + 1      \* there is no temporary file

VARIABLES
  seed,    \* /seed/.credentials.json
  temp,    \* /seed/.credentials.json.tmp
  mine,    \* the login of each writer's home
  live,    \* the homes whose container runs
  newest,  \* the latest login issued
  push,    \* where each writer is
  opened,  \* the file it has open
  met      \* two writers have been at it at once

seedVars == <<seed, temp, mine, live, newest, push, opened, met>>

SeedInit ==
  /\ seed = 0 /\ temp = Gone /\ newest = 0 /\ live = {} /\ met = FALSE
  /\ mine = [w \in Writers |-> 0]
  /\ push = [w \in Writers |-> "idle"]
  /\ opened = [w \in Writers |-> "none"]

PushAt(w, p) == push' = [push EXCEPT ![w] = p]
Pushing == {w \in Writers : push[w] \in {"waiting", "copy", "write", "rename"}}

\* Writer w begins to push, having compared or not.
Begins(w) == met' = (met \/ Pushing \ {w} # {})

-----------------------------------------------------------------------------
(* Containers and the logins in them. *)

\* Claude refreshes the login of w.
Refreshes(w) ==
  /\ newest < MaxLogins
  /\ newest' = newest + 1 /\ mine' = [mine EXCEPT ![w] = newest + 1]

\* claudeAuthSeedCmd: it takes the seed when that is newer, and in the place of
\* a login that has expired any seed.
StartContainer(o) ==
  /\ o \notin live
  /\ live' = live \cup {o}
  /\ \E taken \in IF seed > mine[o] THEN {seed} ELSE {mine[o]} \cup ({seed} \ {0}) :
       mine' = [mine EXCEPT ![o] = taken]
  /\ UNCHANGED <<seed, temp, newest, push, opened, met>>

StopContainer(o) ==
  /\ o \in live
  /\ live' = live \ {o}
  /\ PushAt(o, "idle") /\ opened' = [opened EXCEPT ![o] = "none"]
  /\ UNCHANGED <<seed, temp, mine, newest, met>>

\* Somebody logs in, or Claude refreshes the login of a running container.
RefreshLogin(o) ==
  /\ o \in live /\ Refreshes(o)
  /\ UNCHANGED <<seed, temp, live, push, opened, met>>

-----------------------------------------------------------------------------
(* The push of a login: compare, copy to the temporary file, rename. *)

\* syncOnce, a minute after the start and then every 15 minutes.
SyncAlways(o) ==
  /\ o \in live /\ push[o] = "idle" /\ mine[o] # 0 /\ mine[o] # seed
  /\ PushAt(o, "copy") /\ Begins(o)
  /\ UNCHANGED <<seed, temp, mine, live, newest, opened>>
SyncFirstOnly(o) ==
  /\ o \in live /\ push[o] = "idle" /\ mine[o] # 0 /\ seed = 0
  /\ PushAt(o, "copy") /\ Begins(o)
  /\ UNCHANGED <<seed, temp, mine, live, newest, opened>>
Sync(o) ==
  /\ o \in live /\ push[o] = "idle" /\ mine[o] > seed
  /\ PushAt(o, "copy") /\ Begins(o)
  /\ UNCHANGED <<seed, temp, mine, live, newest, opened>>

CopyOpens(w) ==
  /\ push[w] = "copy"
  /\ temp' = 0
  /\ opened' = [opened EXCEPT ![w] = "temp"]
  /\ PushAt(w, "write")
  /\ UNCHANGED <<seed, mine, live, newest, met>>

CopyWrites(w) ==
  /\ push[w] = "write"
  /\ temp' = IF opened[w] = "temp" THEN mine[w] ELSE temp
  /\ seed' = IF opened[w] = "seed" THEN mine[w] ELSE seed
  /\ opened' = [opened EXCEPT ![w] = "none"]
  /\ PushAt(w, "rename")
  /\ UNCHANGED <<mine, live, newest, met>>

\* Without a temporary file the rename fails, and nobody is told; the homes of
\* keep-warm and relogin are gone with their containers.
Rename(w) ==
  /\ push[w] = "rename"
  /\ IF temp = Gone THEN UNCHANGED <<seed, temp, opened>>
     ELSE /\ seed' = temp /\ temp' = Gone
          /\ opened' = [x \in Writers |-> CASE opened[x] = "temp" -> "seed" [] OTHER -> "none"]
  /\ PushAt(w, "idle")
  /\ mine' = IF w \in Homes THEN mine ELSE [mine EXCEPT ![w] = 0]
  /\ UNCHANGED <<live, newest, met>>

-----------------------------------------------------------------------------
(* keepClaudeAuthWarm. *)

\* The probe found the seed near its expiry: a container starts from it.
WarmStarts ==
  /\ push["warm"] = "idle" /\ seed # 0
  /\ mine' = [mine EXCEPT !["warm"] = seed]
  /\ PushAt("warm", "refresh")
  /\ UNCHANGED <<seed, temp, live, newest, opened, met>>

\* claude --print refreshes the login, or fails; a seed it cannot read, or
\* that is as new, is left alone.
WarmRefreshes ==
  /\ push["warm"] = "refresh"
  /\ Refreshes("warm") \/ UNCHANGED <<newest, mine>>
  /\ PushAt("warm", "compare")
  /\ UNCHANGED <<seed, temp, live, opened, met>>

WarmCompares ==
  /\ push["warm"] = "compare"
  /\ IF seed # 0 /\ mine["warm"] > seed THEN PushAt("warm", "copy") /\ Begins("warm") /\ UNCHANGED mine
                                        ELSE PushAt("warm", "idle") /\ UNCHANGED met /\ mine' = [mine EXCEPT !["warm"] = 0]
  /\ UNCHANGED <<seed, temp, live, newest, opened>>

-----------------------------------------------------------------------------
(* The relogin of the panel. *)

\* reloginStart first removes the container of an earlier attempt.
ReloginStarts ==
  /\ newest < MaxLogins
  /\ PushAt("relogin", "url") /\ opened' = [opened EXCEPT !["relogin"] = "none"]
  /\ mine' = [mine EXCEPT !["relogin"] = 0]
  /\ UNCHANGED <<seed, temp, live, newest, met>>

\* The code was right: setup-token writes a login.
ReloginDone ==
  /\ push["relogin"] = "url" /\ Refreshes("relogin")
  /\ PushAt("relogin", "waiting") /\ Begins("relogin")
  /\ UNCHANGED <<seed, temp, live, opened>>

\* reloginSubmit sees it, up to two seconds later, and pushes it uncompared.
ReloginPushes ==
  /\ push["relogin"] = "waiting"
  /\ PushAt("relogin", "copy")
  /\ UNCHANGED <<seed, temp, mine, live, newest, opened, met>>

-----------------------------------------------------------------------------
SyncStep(o) == Sync(o) \/ (push[o] # "idle" /\ (CopyOpens(o) \/ CopyWrites(o) \/ Rename(o)))

SeedNext ==
  \/ \E o \in Homes : StartContainer(o) \/ StopContainer(o) \/ RefreshLogin(o) \/ SyncStep(o)
  \/ \E w \in {"warm", "relogin"} : CopyOpens(w) \/ CopyWrites(w) \/ Rename(w)
  \/ WarmStarts \/ WarmRefreshes \/ WarmCompares
  \/ ReloginStarts \/ ReloginDone \/ ReloginPushes

SeedSpec == SeedInit /\ [][SeedNext]_seedVars

\* The timer of a container that runs goes on, and its file operations end.
FairSeedSpec == SeedSpec /\ \A o \in Homes : WF_seedVars(SyncStep(o))

-----------------------------------------------------------------------------
\* Every variable of the seed stays within its type.
SeedTypeOK ==
  /\ seed \in Logins /\ temp \in Logins \cup {Gone} /\ newest \in Logins
  /\ mine \in [Writers -> Logins]
  /\ live \subseteq Homes /\ met \in BOOLEAN
  /\ push \in [Writers -> {"idle", "copy", "write", "rename", "refresh", "compare", "url", "waiting"}]
  /\ opened \in [Writers -> {"none", "temp", "seed"}]

\* "A stale container never overwrites a fresher seed", as far as the code goes:
\* while no two writers push at once, a relogin from its login on, the seed
\* only ever becomes newer.
SeedGoesForward == [][~met' => seed' >= seed]_seedVars

\* "NEW portals always seed a WORKING login": unless pushes collide over and
\* over, a container with a login newer than the seed that keeps running gets it
\* into the seed, whatever earlier collisions have left of the two files.
SeedCatchesUp ==
  \A o \in Homes :
    <>[](Pushing \subseteq {o}) => (o \in live /\ mine[o] > seed ~> o \notin live \/ mine[o] <= seed)
=============================================================================

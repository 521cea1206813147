----------------------------- MODULE StackPlugins -----------------------------
(***************************************************************************)
(* One plugin of a portal's stack (plugins.service.ts): the row with its   *)
(* configuration, the status cache in front of the provider, and the       *)
(* requests that change the one or ask for the other.  A step is one       *)
(* await.                                                                  *)
(*                                                                         *)
(* A configuration is a key of the provider and the servers and resources  *)
(* a person has picked for the portal; a row that is made anew has another *)
(* number.                                                                 *)
(***************************************************************************)
EXTENDS Naturals

CONSTANTS Secrets,      \* keys of the provider
          GoodSecrets,  \* those the provider accepts
          Picks,        \* servers and resources to pick
          Changes,      \* requests that connect, disconnect, pick or act
          Views,     \* pages that ask for the status, again and again
          MaxPlugins, \* rows ever made (a bound)
          NoConfig

ASSUME PluginAssumption == MaxPlugins \in Nat

Configs == [key : Secrets, picks : SUBSET Picks]

VARIABLES
  plugin,    \* the number of the row; 0: not connected
  plugins,   \* rows made so far
  config,    \* its configuration
  connected, \* its status is CONNECTED; otherwise ERROR
  cached,    \* the configuration the cached status is about; NoConfig: none
  ageing,    \* the cached status is older than half of its time
  change,    \* where each change is
  found,     \* the number of the row it has found
  carries,     \* the configuration it has found or made
  view,      \* where each page's request is
  asks,      \* the configuration it asks the provider about
  askedOf    \* and the row it has found it in

pluginVars == <<plugin, plugins, config, connected, cached, ageing,
                change, found, carries, view, asks, askedOf>>

PluginInit ==
  /\ plugin = 0 /\ plugins = 0 /\ config = NoConfig /\ connected = FALSE
  /\ cached = NoConfig /\ ageing = FALSE
  /\ change = [c \in Changes |-> "idle"] /\ found = [c \in Changes |-> 0]
  /\ carries = [c \in Changes |-> NoConfig]
  /\ view = [v \in Views |-> "idle"] /\ asks = [v \in Views |-> NoConfig]
  /\ askedOf = [v \in Views |-> 0]

ChangeAt(c, s) == change' = [change EXCEPT ![c] = s]
ChangeIsOver(c) == ChangeAt(c, "over") /\ found' = [found EXCEPT ![c] = 0]
ViewAt(v, s) == view' = [view EXCEPT ![v] = s]

-----------------------------------------------------------------------------
(* connect. *)

\* The provider is asked before anything is stored.
TestKey(c, k) ==
  /\ change[c] = "idle"
  /\ carries' = [carries EXCEPT ![c] = [key |-> k, picks |-> {}]]
  /\ ChangeAt(c, "connect")
  /\ UNCHANGED <<plugin, plugins, config, connected, cached, ageing, found, view, asks, askedOf>>

\* The upsert takes the place of the whole configuration; a key that is refused
\* is stored as well, with the error, and the request says so.
StoreKey(c) ==
  /\ change[c] = "connect"
  /\ \/ plugin = 0 /\ plugins < MaxPlugins /\ plugins' = plugins + 1 /\ plugin' = plugins + 1
     \/ plugin # 0 /\ UNCHANGED <<plugin, plugins>>
  /\ config' = carries[c] /\ connected' = (carries[c].key \in GoodSecrets)
  /\ found' = [found EXCEPT ![c] = plugin'] /\ carries' = [carries EXCEPT ![c] = NoConfig]
  /\ ChangeAt(c, "drop")
  /\ UNCHANGED <<cached, ageing, view, asks, askedOf>>

-----------------------------------------------------------------------------
(* updateConfig and runAction. *)

\* The row and the configuration in it are read.
FindPlugin(c) ==
  /\ change[c] = "idle" /\ plugin # 0
  /\ \E s \in {"pick", "act", "disconnect"} : ChangeAt(c, s)
  /\ found' = [found EXCEPT ![c] = plugin] /\ carries' = [carries EXCEPT ![c] = config]
  /\ UNCHANGED <<plugin, plugins, config, connected, cached, ageing, view, asks, askedOf>>

\* Without a row the write is an error.
WriteBack(c, cfg) ==
  /\ carries' = [carries EXCEPT ![c] = NoConfig]
  /\ IF plugin = found[c] THEN config' = cfg /\ ChangeAt(c, "drop") /\ UNCHANGED found
     ELSE UNCHANGED config /\ ChangeIsOver(c)
  /\ UNCHANGED <<plugin, plugins, connected, cached, ageing, view, asks, askedOf>>

\* Merged into what was read one await before.
StorePicks(c) ==
  /\ change[c] = "pick"
  /\ \E S \in SUBSET Picks : WriteBack(c, [carries[c] EXCEPT !.picks = S])

\* The provider, or a server over SSH, has answered: nothing of the
\* configuration changes, or one server comes or goes, from the list read when
\* the action began.  An action that throws ends the request.
ActionDone(c) ==
  /\ change[c] = "act"
  /\ \/ \E x \in Picks : WriteBack(c, [carries[c] EXCEPT !.picks = IF x \in @ THEN @ \ {x} ELSE @ \cup {x}])
     \/ /\ carries' = [carries EXCEPT ![c] = NoConfig]
        /\ (ChangeAt(c, "drop") /\ UNCHANGED found) \/ ChangeIsOver(c)
        /\ UNCHANGED <<plugin, plugins, config, connected, cached, ageing, view, asks, askedOf>>

\* Without this a changed plugin shows what it was.
DropStatus(c) ==
  /\ change[c] = "drop"
  /\ IF plugin = found[c] THEN cached' = NoConfig /\ ageing' = FALSE ELSE UNCHANGED <<cached, ageing>>
  /\ ChangeIsOver(c)
  /\ UNCHANGED <<plugin, plugins, config, connected, carries, view, asks, askedOf>>

\* remove: a cached status of a row that is gone is never asked for.
DisconnectPlugin(c) ==
  /\ change[c] = "disconnect"
  /\ IF plugin = found[c]
     THEN plugin' = 0 /\ config' = NoConfig /\ connected' = FALSE /\ cached' = NoConfig /\ ageing' = FALSE
     ELSE UNCHANGED <<plugin, config, connected, cached, ageing>>
  /\ carries' = [carries EXCEPT ![c] = NoConfig] /\ ChangeIsOver(c)
  /\ UNCHANGED <<plugins, view, asks, askedOf>>

-----------------------------------------------------------------------------
(* getStatus. *)

\* A status that is younger than its time is the answer.
AnswerCachedAnew(v) ==
  /\ view[v] = "idle" /\ plugin # 0 /\ cached # NoConfig
  /\ ageing' = FALSE
  /\ UNCHANGED <<plugin, plugins, config, connected, cached, change, found, carries, view, asks, askedOf>>
AnswerCached(v) ==
  /\ view[v] = "idle" /\ plugin # 0 /\ cached # NoConfig
  /\ UNCHANGED pluginVars

AskProvider(v) ==
  /\ view[v] = "idle" /\ plugin # 0 /\ cached = NoConfig
  /\ asks' = [asks EXCEPT ![v] = config] /\ askedOf' = [askedOf EXCEPT ![v] = plugin]
  /\ ViewAt(v, "ask")
  /\ UNCHANGED <<plugin, plugins, config, connected, cached, ageing, change, found, carries>>

\* The status is kept under the number of the row, whatever the row has become.
\* Of a key that is refused most plugins make a status, too, and a few an error.
ProviderAnswers(v) ==
  /\ view[v] = "ask"
  /\ \/ /\ ViewAt(v, "stamp")
        /\ IF plugin = askedOf[v] THEN cached' = asks[v] /\ ageing' = FALSE ELSE UNCHANGED <<cached, ageing>>
     \/ ViewAt(v, "fail") /\ UNCHANGED <<cached, ageing>>
  /\ asks' = [asks EXCEPT ![v] = NoConfig]
  /\ UNCHANGED <<plugin, plugins, config, connected, change, found, carries, askedOf>>

\* The row says CONNECTED after a status and ERROR after an error, also when
\* its key has been replaced meanwhile; a row that is gone makes the request fail.
StampStatus(v) ==
  /\ view[v] \in {"stamp", "fail"}
  /\ connected' = IF plugin = askedOf[v] THEN view[v] = "stamp" ELSE connected
  /\ ViewAt(v, "idle") /\ askedOf' = [askedOf EXCEPT ![v] = 0]
  /\ UNCHANGED <<plugin, plugins, config, cached, ageing, change, found, carries, asks>>

\* The thirty seconds of a cached status go by.
TimePasses ==
  /\ cached # NoConfig
  /\ ageing' = ~ageing
  /\ cached' = IF ageing THEN NoConfig ELSE cached
  /\ UNCHANGED <<plugin, plugins, config, connected, change, found, carries, view, asks, askedOf>>

ChangeGoesOn(c) == StoreKey(c) \/ StorePicks(c) \/ ActionDone(c) \/ DropStatus(c) \/ DisconnectPlugin(c)
ViewGoesOn(v) == ProviderAnswers(v) \/ StampStatus(v)

PluginNext ==
  \/ \E c \in Changes : (\E k \in Secrets : TestKey(c, k)) \/ FindPlugin(c) \/ ChangeGoesOn(c)
  \/ \E v \in Views : AnswerCached(v) \/ AskProvider(v) \/ ViewGoesOn(v)
  \/ TimePasses

PluginSpec == PluginInit /\ [][PluginNext]_pluginVars

\* Time passes, providers and the database answer, and no change waits for the
\* pages, which ask for ever.
FairPluginSpec ==
  /\ PluginSpec /\ WF_pluginVars(TimePasses)
  /\ WF_pluginVars(\E c \in Changes : ChangeGoesOn(c))
  /\ \A v \in Views : WF_pluginVars(ViewGoesOn(v))

-----------------------------------------------------------------------------
\* Every variable of the plugin stays within its type.
PluginTypeOK ==
  /\ plugins \in 0..MaxPlugins /\ plugin \in 0..plugins
  /\ config \in Configs \cup {NoConfig} /\ cached \in Configs \cup {NoConfig}
  /\ connected \in BOOLEAN /\ ageing \in BOOLEAN
  /\ change \in [Changes -> {"idle", "connect", "pick", "act", "disconnect", "drop", "over"}]
  /\ found \in [Changes -> 0..MaxPlugins]
  /\ carries \in [Changes -> Configs \cup {NoConfig}]
  /\ view \in [Views -> {"idle", "ask", "stamp", "fail"}]
  /\ asks \in [Views -> Configs \cup {NoConfig}] /\ askedOf \in [Views -> 0..MaxPlugins]

\* "drop the cached status so the next read is fresh": a status that was asked
\* for before a change may be cached after it, but not for good.  However often
\* pages ask, the cache is about the configuration there is in the end.
StatusCatchesUp == <>[](cached \in {NoConfig, config})
=============================================================================

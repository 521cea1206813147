---------------------------- MODULE ServicesProofs ----------------------------
(***************************************************************************)
(* Proofs about the services taken together (MCServices).                  *)
(***************************************************************************)
EXTENDS MCServices, WorkflowRunnerProofs, DeviceLoginProofs, PanelProofs, ProjectProofs

(* A service that does not move stays as it is: the services together are *)
(* an implementation of each one.                                         *)

LEMMA EachMovesAlone ==
  ASSUME [ServicesNext]_servicesVars
  PROVE  /\ [Next]_vars /\ [LoginNext]_loginVars /\ [GatewayNext]_gatewayVars
         /\ [PanelNext]_panelVars /\ [PortalNext]_portalVars /\ [SeedNext]_seedVars
         /\ [ProjectNext]_projectVars /\ [WizardNext]_wizardVars
         /\ [ScheduleNext]_scheduleVars /\ [RepoNext]_repoVars /\ [PluginNext]_pluginVars
<1>1. CASE UNCHANGED servicesVars
  BY <1>1 DEF servicesVars
<1>2. CASE HandOver
  BY <1>2 DEF HandOver
<1>3. CASE part = "workflow" /\ Next /\ Rest("workflow")
  BY <1>3 DEF Rest
<1>4. CASE part = "login" /\ LoginNext /\ Rest("login")
  BY <1>4 DEF Rest
<1>5. CASE part = "gateway" /\ GatewayNext /\ Rest("gateway")
  BY <1>5 DEF Rest
<1>6. CASE part = "panel" /\ PanelNext /\ Rest("panel")
  BY <1>6 DEF Rest
<1>7. CASE part = "portals" /\ PortalNext /\ Rest("portals")
  BY <1>7 DEF Rest
<1>8. CASE part = "seed" /\ SeedNext /\ Rest("seed")
  BY <1>8 DEF Rest
<1>9. CASE part = "project" /\ ProjectNext /\ Rest("project")
  BY <1>9 DEF Rest
<1>10. CASE part = "wizard" /\ WizardNext /\ Rest("wizard")
  BY <1>10 DEF Rest
<1>11. CASE part = "schedule" /\ ScheduleNext /\ Rest("schedule")
  BY <1>11 DEF Rest
<1>12. CASE part = "repos" /\ RepoNext /\ Rest("repos")
  BY <1>12 DEF Rest
<1>13. CASE part = "plugin" /\ PluginNext /\ Rest("plugin")
  BY <1>13 DEF Rest
<1> QED
  BY <1>1, <1>2, <1>3, <1>4, <1>5, <1>6, <1>7, <1>8, <1>9, <1>10, <1>11, <1>12, <1>13
     DEF ServicesNext

\* The services together behave, each of them, as its own specification says.
THEOREM ServicesImplementEach ==
  ServicesSpec =>
    /\ Spec /\ LoginSpec /\ GatewaySpec /\ PanelSpec /\ PortalSpec /\ SeedSpec
    /\ ProjectSpec /\ WizardSpec /\ ScheduleSpec /\ RepoSpec /\ PluginSpec
<1>1. ServicesInit => /\ Init /\ LoginInit /\ GatewayInit /\ PanelInit /\ PortalInit /\ SeedInit
                      /\ ProjectInit /\ WizardInit /\ ScheduleInit /\ RepoInit /\ PluginInit
  BY DEF ServicesInit
<1> QED
  BY <1>1, EachMovesAlone, PTL
     DEF ServicesSpec, Spec, LoginSpec, GatewaySpec, PanelSpec, PortalSpec, SeedSpec,
         ProjectSpec, WizardSpec, ScheduleSpec, RepoSpec, PluginSpec

-----------------------------------------------------------------------------
(* The types of the services whose other theorems do without them. *)

\* The connections and the tabs, of which AttachedHears takes no account.
LinesTyped ==
  /\ line \in [Clients -> BOOLEAN] /\ connects \in [Clients -> 0..MaxConnects]
  /\ up \in [Clients -> Seq(Handler)]
  /\ shown \in [Tabs -> BOOLEAN] /\ again \in [Tabs -> BOOLEAN]
  /\ views \in [Tabs -> 0..MaxViews] /\ asking \in [Tabs -> Nat]

\* What a client sends, and what the gateway takes of it.
LEMMA UpMessages ==
  ASSUME up \in [Clients -> Seq(Handler)], NEW v \in Clients, NEW m \in Handler,
         Send(v, m) \/ Take(v, m)
  PROVE  up' \in [Clients -> Seq(Handler)]
<1>1. CASE Send(v, m)
  <2>1. Append(up[v], m) \in Seq(Handler)
    OBVIOUS
  <2> QED
    BY <1>1, <2>1 DEF Send
<1>2. CASE Take(v, m)
  <2>1. Tail(up[v]) \in Seq(Handler)
    BY <1>2 DEF Take
  <2> QED
    BY <1>2, <2>1 DEF Take
<1> QED
  BY <1>1, <1>2

LEMMA HangupTyped ==
  ASSUME LinesTyped, NEW v \in Clients, Hangup(v)
  PROVE  line' \in [Clients -> BOOLEAN] /\ up' \in [Clients -> Seq(Handler)]
<1>1. <<>> \in Seq(Handler)
  OBVIOUS
<1> QED
  BY <1>1 DEF Hangup, LinesTyped

LEMMA LinesStart == GatewayInit => LinesTyped
<1>1. <<>> \in Seq(Handler)
  OBVIOUS
<1> QED
  BY <1>1, GatewayAssumption DEF GatewayAssumption, GatewayInit, LinesTyped

LEMMA LinesKept == GatewayInv /\ LinesTyped /\ [GatewayNext]_gatewayVars => LinesTyped'
<1> SUFFICES ASSUME GatewayInv, LinesTyped, [GatewayNext]_gatewayVars PROVE LinesTyped'
  OBVIOUS
<1> USE GatewayAssumption DEF GatewayAssumption
<1>h. /\ "authenticate" \in Handler /\ "subscribe" \in Handler /\ "attach" \in Handler
      /\ Tabs \subseteq Clients /\ Clis \subseteq Clients
  BY DEF Handler, Clients
<1>u. up \in [Clients -> Seq(Handler)]
  BY DEF LinesTyped
<1>1. CASE UNCHANGED gatewayVars
  BY <1>1 DEF gatewayVars, LinesTyped
<1>2. ASSUME NEW v \in Clients, Gateway(v) PROVE LinesTyped'
  <2>1. UNCHANGED <<line, connects, shown, again, views, asking>>
    BY <1>2 DEF Gateway, AuthenticateTab, AuthenticateCli, TokenResolved, Subscribe, SessionFound,
                AttachSession, AttachDone
  <2>2. up' \in [Clients -> Seq(Handler)]
    BY <1>2, <1>h, <1>u, UpMessages
       DEF Gateway, AuthenticateTab, AuthenticateCli, TokenResolved, Subscribe, SessionFound,
           AttachSession, AttachDone
  <2> QED
    BY <2>1, <2>2 DEF LinesTyped
<1>3. ASSUME NEW v \in Clients, ConnectTab(v) \/ ConnectCli(v) PROVE LinesTyped'
  <2>1. up' \in [Clients -> Seq(Handler)]
    BY <1>3, <1>h, <1>u, UpMessages DEF ConnectTab, ConnectCli
  <2>2. connects' \in [Clients -> 0..MaxConnects]
    <3>1. connects[v] < MaxConnects => connects[v] + 1 \in 0..MaxConnects
      BY DEF LinesTyped
    <3>2. 1 \in 0..MaxConnects
      OBVIOUS
    <3> QED
      BY <1>3, <3>1, <3>2 DEF ConnectTab, ConnectCli, LinesTyped
  <2>3. asking' \in [Tabs -> Nat]
    <3>1. v \in Tabs => asking[v] + 1 \in Nat
      BY DEF LinesTyped
    <3> QED
      BY <1>3, <3>1 DEF ConnectTab, ConnectCli, LinesTyped
  <2>4. line' \in [Clients -> BOOLEAN] /\ again' \in [Tabs -> BOOLEAN] /\ UNCHANGED <<shown, views>>
    BY <1>3 DEF ConnectTab, ConnectCli, LinesTyped
  <2> QED
    BY <2>1, <2>2, <2>3, <2>4 DEF LinesTyped
<1>4. ASSUME NEW v \in Clients, Disconnect(v) PROVE LinesTyped'
  BY <1>4, HangupTyped DEF Disconnect, LinesTyped
<1>5. ASSUME NEW v \in Tabs, TokenArrives(v) PROVE LinesTyped'
  <2>1. up' \in [Clients -> Seq(Handler)]
    BY <1>5, <1>h, <1>u, UpMessages DEF TokenArrives
  <2>2. asking[v] - 1 \in Nat
    BY <1>5 DEF TokenArrives, LinesTyped
  <2>3. asking' \in [Tabs -> Nat] /\ UNCHANGED <<line, connects, shown, again, views>>
    BY <1>5, <2>2 DEF TokenArrives, LinesTyped
  <2> QED
    BY <2>1, <2>3 DEF LinesTyped
<1>6. ASSUME NEW v \in Tabs, ShowTerminal(v) \/ HideTerminal(v) \/ Wake(v) PROVE LinesTyped'
  <2>1. up' \in [Clients -> Seq(Handler)]
    BY <1>6, <1>h, <1>u, UpMessages DEF ShowTerminal, HideTerminal, Wake
  <2>2. views[v] < MaxViews => views[v] + 1 \in 0..MaxViews
    BY DEF LinesTyped
  <2>3. views' \in [Tabs -> 0..MaxViews]
    BY <1>6, <2>2 DEF ShowTerminal, HideTerminal, Wake, LinesTyped
  <2>4. asking' \in [Tabs -> Nat] /\ UNCHANGED <<line, connects>>
    <3>1. asking[v] + 1 \in Nat
      BY DEF LinesTyped
    <3> QED
      BY <1>6, <3>1 DEF ShowTerminal, HideTerminal, Wake, LinesTyped
  <2>5. shown' \in [Tabs -> BOOLEAN] /\ again' \in [Tabs -> BOOLEAN]
    BY <1>6 DEF ShowTerminal, HideTerminal, Wake, LinesTyped
  <2> QED
    BY <2>1, <2>3, <2>4, <2>5 DEF LinesTyped
<1>7. ASSUME NEW v \in Clis, HearAnswer(v) PROVE LinesTyped'
  <2> DEFINE a == Head(answers[v])
  <2>1. a \in Answers
    BY <1>7 DEF HearAnswer, GatewayInv, GatewayTyped
  <2>2. a = "authenticated" => Send(v, "subscribe") /\ UNCHANGED line
    BY <1>7 DEF HearAnswer
  <2>3. a = "subscribed" => Send(v, "attach") /\ UNCHANGED line
    BY <1>7 DEF HearAnswer
  <2>4. a = "attached" => UNCHANGED <<line, up>>
    BY <1>7 DEF HearAnswer
  <2>5. a = "error" => Hangup(v)
    BY <1>7 DEF HearAnswer
  <2>6. line' \in [Clients -> BOOLEAN] /\ up' \in [Clients -> Seq(Handler)]
    BY <1>h, <1>u, <2>1, <2>2, <2>3, <2>4, <2>5, UpMessages, HangupTyped DEF Answers, LinesTyped
  <2>7. UNCHANGED <<connects, shown, again, views, asking>>
    BY <1>7 DEF HearAnswer
  <2> QED
    BY <2>6, <2>7 DEF LinesTyped
<1> QED
  BY <1>1, <1>2, <1>3, <1>4, <1>5, <1>6, <1>7 DEF GatewayNext

\* The gateway, its rooms and its clients stay within their types, for any number
\* of clients, tasks, connections and views.
THEOREM GatewayTypeCorrect == GatewaySpec => []GatewayTypeOK
<1>1. GatewayInv /\ LinesTyped => GatewayTypeOK
  BY DEF GatewayInv, GatewayTyped, LinesTyped, GatewayTypeOK
<1> QED
  BY <1>1, GatewayStarts, GatewayPreserved, LinesStart, LinesKept, PTL DEF GatewaySpec

\* What is safety of WatchersSubscribed: the subscription of tab v is in the
\* room, in its query, or on the way after an authentication that has brought
\* the organization.
SubscribeSent(v) == \E i \in 1..Len(up[v]) : up[v][i] = "subscribe"
Subscribing(v) == joined[v] \/ wait[v]["subscribe"] > 0 \/ (known[v].org /\ SubscribeSent(v))

\* Nothing but the end of the connection takes it away.
SubscriptionsLast == \A v \in Tabs : line[v] /\ Subscribing(v) => Subscribing(v)' \/ ~line'[v]

\* An organization comes with an authentication only.
OrgsAuthenticated == \A v \in Clients : known[v].org => known[v].authenticated

\* A message that is sent comes after what is on its way, and one that is taken
\* was the first.
LEMMA MessagesQueue ==
  ASSUME up \in [Clients -> Seq(Handler)], NEW v \in Clients, NEW m \in Handler,
         Send(v, m) \/ Take(v, m), NEW w \in Clients, SubscribeSent(w)
  PROVE  SubscribeSent(w)' \/ (w = v /\ m = "subscribe" /\ Take(v, m))
<1>1. PICK i \in 1..Len(up[w]) : up[w][i] = "subscribe"
  BY DEF SubscribeSent
<1>2. CASE w # v
  BY <1>1, <1>2 DEF Send, Take, SubscribeSent
<1>3. CASE w = v /\ Send(v, m)
  <2>1. up'[v] = Append(up[v], m)
    BY <1>3 DEF Send
  <2>2. i \in 1..Len(up'[v]) /\ up'[v][i] = "subscribe"
    BY <1>1, <1>3, <2>1
  <2> QED
    BY <1>3, <2>2 DEF SubscribeSent
<1>4. CASE w = v /\ Take(v, m) /\ m # "subscribe"
  <2>1. up'[v] = Tail(up[v]) /\ up[v] # <<>> /\ up[v][1] = m
    BY <1>4 DEF Take
  <2>2. i # 1
    BY <1>1, <1>4, <2>1
  <2>3. i - 1 \in 1..Len(up'[v]) /\ up'[v][i - 1] = "subscribe"
    BY <1>1, <1>4, <2>1, <2>2
  <2> QED
    BY <1>4, <2>3 DEF SubscribeSent
<1> QED
  BY <1>2, <1>3, <1>4

LEMMA OrgsKept == GatewayTypeOK /\ OrgsAuthenticated /\ [GatewayNext]_gatewayVars => OrgsAuthenticated'
<1> SUFFICES ASSUME GatewayTypeOK, OrgsAuthenticated, [GatewayNext]_gatewayVars PROVE OrgsAuthenticated'
  OBVIOUS
<1> USE DEF GatewayTypeOK, OrgsAuthenticated
<1>1. CASE UNCHANGED known
  BY <1>1
<1>2. ASSUME NEW v \in Clients, Gateway(v) PROVE OrgsAuthenticated'
  <2>1. CASE AuthenticateTab(v)
    BY <2>1 DEF AuthenticateTab
  <2>2. CASE TokenResolved(v)
    BY <2>2 DEF TokenResolved
  <2>3. CASE SessionFound(v)
    BY <2>3 DEF SessionFound
  <2>4. CASE AuthenticateCli(v) \/ Subscribe(v) \/ AttachSession(v) \/ AttachDone(v)
    BY <1>1, <2>4 DEF AuthenticateCli, Subscribe, AttachSession, AttachDone
  <2> QED
    BY <1>2, <2>1, <2>2, <2>3, <2>4 DEF Gateway
<1>3. ASSUME NEW v \in Clients, Hangup(v) PROVE OrgsAuthenticated'
  BY <1>3 DEF Hangup, Nobody
<1>4. ASSUME NEW v \in Clients, ConnectTab(v) \/ ConnectCli(v) \/ Disconnect(v) PROVE OrgsAuthenticated'
  BY <1>1, <1>3, <1>4 DEF ConnectTab, ConnectCli, Disconnect
<1>5. ASSUME NEW v \in Tabs, TokenArrives(v) \/ ShowTerminal(v) \/ HideTerminal(v) \/ Wake(v)
      PROVE  OrgsAuthenticated'
  BY <1>1, <1>5 DEF TokenArrives, ShowTerminal, HideTerminal, Wake
<1>6. ASSUME NEW v \in Clis, HearAnswer(v) PROVE OrgsAuthenticated'
  <2>1. Head(answers[v]) \in Answers
    BY <1>6 DEF HearAnswer
  <2>2. UNCHANGED known \/ Hangup(v)
    BY <1>6, <2>1 DEF HearAnswer, Answers
  <2> QED
    BY <1>1, <1>3, <2>2 DEF Clients
<1>7. CASE UNCHANGED gatewayVars
  BY <1>1, <1>7 DEF gatewayVars
<1> QED
  BY <1>2, <1>4, <1>5, <1>6, <1>7 DEF GatewayNext

\* No step but one that ends the connection takes a subscription away.
LEMMA SubscriptionsKept ==
  ASSUME GatewayTypeOK, OrgsAuthenticated, [GatewayNext]_gatewayVars
  PROVE  SubscriptionsLast
<1> SUFFICES ASSUME NEW w \in Tabs, line[w], Subscribing(w) PROVE Subscribing(w)' \/ ~line'[w]
  BY DEF SubscriptionsLast
<1>h. /\ "authenticate" \in Handler /\ "subscribe" \in Handler /\ "attach" \in Handler
      /\ w \in Clients /\ Clis \subseteq Clients /\ Tabs \subseteq Clients
  BY DEF Handler, Clients
<1>u. up \in [Clients -> Seq(Handler)] /\ wait[w] \in [Handler -> Nat]
  BY <1>h DEF GatewayTypeOK
<1>k. ASSUME joined'[w] = joined[w], wait'[w]["subscribe"] = wait[w]["subscribe"],
             known[w].org => known'[w].org, SubscribeSent(w) => SubscribeSent(w)'
      PROVE  Subscribing(w)'
  BY <1>k DEF Subscribing
<1>s. ASSUME NEW v \in Clients, NEW m \in Handler, Send(v, m), UNCHANGED <<joined, wait, known>>
      PROVE  Subscribing(w)'
  <2>1. SubscribeSent(w) => SubscribeSent(w)' \/ (w = v /\ m = "subscribe")
    BY <1>h, <1>s, <1>u, MessagesQueue
  <2>2. w = v /\ m = "subscribe" => SubscribeSent(w)'
    BY <1>h, <1>s, <1>u DEF Send, SubscribeSent
  <2> QED
    BY <1>k, <1>s, <2>1, <2>2
<1>o. ASSUME UNCHANGED <<up, joined, wait, known>> PROVE Subscribing(w)'
  BY <1>k, <1>o DEF SubscribeSent
<1>1. CASE UNCHANGED gatewayVars
  BY <1>1, <1>o DEF gatewayVars
<1>2. ASSUME NEW v \in Clients, AuthenticateTab(v) PROVE Subscribing(w)'
  <2>1. Take(v, "authenticate") /\ UNCHANGED <<joined, wait>>
    BY <1>2 DEF AuthenticateTab
  <2>2. known[w].org => known'[w].org
    BY <1>2, <1>h DEF AuthenticateTab, GatewayTypeOK
  <2>3. SubscribeSent(w) => SubscribeSent(w)'
    BY <1>h, <1>u, <2>1, MessagesQueue
  <2> QED
    BY <1>k, <2>1, <2>2, <2>3
<1>3. ASSUME NEW v \in Clients, AuthenticateCli(v) PROVE Subscribing(w)'
  <2>1. Take(v, "authenticate") /\ UNCHANGED <<joined, known>>
    BY <1>3 DEF AuthenticateCli
  <2>2. wait'[w]["subscribe"] = wait[w]["subscribe"]
    BY <1>3, <1>h DEF AuthenticateCli, Await, GatewayTypeOK
  <2>3. SubscribeSent(w) => SubscribeSent(w)'
    BY <1>h, <1>u, <2>1, MessagesQueue
  <2> QED
    BY <1>k, <2>1, <2>2, <2>3
<1>4. ASSUME NEW v \in Clients, TokenResolved(v) PROVE Subscribing(w)'
  <2>1. UNCHANGED <<joined, up>>
    BY <1>4 DEF TokenResolved
  <2>2. wait'[w]["subscribe"] = wait[w]["subscribe"]
    BY <1>4, <1>h DEF TokenResolved, Return, GatewayTypeOK
  <2>3. known[w].org => known'[w].org
    BY <1>4, <1>h DEF TokenResolved, GatewayTypeOK
  <2> QED
    BY <1>k, <2>1, <2>2, <2>3 DEF SubscribeSent
<1>5. ASSUME NEW v \in Clients, Subscribe(v) PROVE Subscribing(w)'
  <2>1. Take(v, "subscribe") /\ UNCHANGED <<joined, known>>
    BY <1>5 DEF Subscribe
  <2>2. CASE v # w
    <3>1. wait'[w] = wait[w]
      BY <1>5, <1>h, <2>2 DEF Subscribe, Await, GatewayTypeOK
    <3>2. SubscribeSent(w) => SubscribeSent(w)'
      BY <1>h, <1>u, <2>1, <2>2, MessagesQueue
    <3> QED
      BY <1>k, <2>1, <3>1, <3>2
  <2>3. CASE v = w /\ MaySubscribe(w)
    <3>1. wait'[w]["subscribe"] = wait[w]["subscribe"] + 1
      BY <1>5, <1>h, <2>3 DEF Subscribe, Await, GatewayTypeOK
    <3> QED
      BY <1>h, <1>u, <3>1 DEF Subscribing
  <2>4. CASE v = w /\ ~MaySubscribe(w)
    <3>1. ~known[w].org
      BY <1>h, <2>4 DEF MaySubscribe, OrgsAuthenticated
    <3>2. UNCHANGED wait
      BY <1>5, <2>4 DEF Subscribe
    <3> QED
      BY <2>1, <3>1, <3>2 DEF Subscribing
  <2> QED
    BY <2>2, <2>3, <2>4
<1>6. ASSUME NEW v \in Clients, SessionFound(v) PROVE Subscribing(w)'
  <2>1. CASE v = w
    BY <1>6, <1>h, <2>1 DEF SessionFound, GatewayTypeOK, Subscribing
  <2>2. CASE v # w
    <3>1. joined'[w] = joined[w] /\ wait'[w] = wait[w] /\ known'[w] = known[w] /\ UNCHANGED up
      BY <1>6, <1>h, <2>2 DEF SessionFound, Return, GatewayTypeOK
    <3> QED
      BY <1>k, <3>1 DEF SubscribeSent
  <2> QED
    BY <2>1, <2>2
<1>7. ASSUME NEW v \in Clients, AttachSession(v) PROVE Subscribing(w)'
  <2>1. Take(v, "attach") /\ UNCHANGED <<joined, known>>
    BY <1>7 DEF AttachSession
  <2>2. wait'[w]["subscribe"] = wait[w]["subscribe"]
    <3>1. CASE Await(v, "attach")
      BY <1>h, <3>1 DEF Await, GatewayTypeOK
    <3>2. CASE UNCHANGED wait
      BY <3>2
    <3> QED
      BY <1>7, <3>1, <3>2 DEF AttachSession
  <2>3. SubscribeSent(w) => SubscribeSent(w)'
    BY <1>h, <1>u, <2>1, MessagesQueue
  <2> QED
    BY <1>k, <2>1, <2>2, <2>3
<1>8. ASSUME NEW v \in Clients, AttachDone(v) PROVE Subscribing(w)'
  <2>1. UNCHANGED <<joined, up, known>>
    BY <1>8 DEF AttachDone
  <2>2. wait'[w]["subscribe"] = wait[w]["subscribe"]
    BY <1>8, <1>h DEF AttachDone, Return, GatewayTypeOK
  <2> QED
    BY <1>k, <2>1, <2>2 DEF SubscribeSent
<1>g. ASSUME NEW v \in Clients, Hangup(v) PROVE Subscribing(w)' \/ ~line'[w]
  <2>1. CASE v = w
    BY <1>g, <1>h, <2>1 DEF Hangup, GatewayTypeOK
  <2>2. CASE v # w
    <3>1. joined'[w] = joined[w] /\ wait'[w] = wait[w] /\ known'[w] = known[w] /\ up'[w] = up[w]
      BY <1>g, <1>h, <2>2 DEF Hangup, GatewayTypeOK
    <3> QED
      BY <1>k, <3>1 DEF SubscribeSent
  <2> QED
    BY <2>1, <2>2
<1>9. ASSUME NEW v \in Clients, ConnectTab(v) \/ ConnectCli(v) PROVE Subscribing(w)'
  BY <1>9, <1>h, <1>o, <1>s DEF ConnectTab, ConnectCli
<1>10. ASSUME NEW v \in Clients, Disconnect(v) PROVE Subscribing(w)' \/ ~line'[w]
  BY <1>10, <1>g DEF Disconnect
<1>11. ASSUME NEW v \in Tabs, TokenArrives(v) \/ ShowTerminal(v) \/ HideTerminal(v) \/ Wake(v)
       PROVE  Subscribing(w)'
  BY <1>11, <1>h, <1>o, <1>s DEF TokenArrives, ShowTerminal, HideTerminal, Wake
<1>12. ASSUME NEW v \in Clis, HearAnswer(v) PROVE Subscribing(w)' \/ ~line'[w]
  <2> DEFINE a == Head(answers[v])
  <2>1. a \in Answers
    BY <1>12 DEF HearAnswer, GatewayTypeOK
  <2>2. a = "authenticated" => Send(v, "subscribe") /\ UNCHANGED <<known, joined, wait>>
    BY <1>12 DEF HearAnswer
  <2>3. a = "subscribed" => Send(v, "attach") /\ UNCHANGED <<known, joined, wait>>
    BY <1>12 DEF HearAnswer
  <2>4. a = "attached" => UNCHANGED <<up, known, joined, wait>>
    BY <1>12 DEF HearAnswer
  <2>5. a = "error" => Hangup(v)
    BY <1>12 DEF HearAnswer
  <2> QED
    BY <1>g, <1>h, <1>o, <1>s, <2>1, <2>2, <2>3, <2>4, <2>5 DEF Answers
<1> QED
  BY <1>1, <1>2, <1>3, <1>4, <1>5, <1>6, <1>7, <1>8, <1>9, <1>10, <1>11, <1>12
     DEF GatewayNext, Gateway

\* The subscription of a tab whose authentication came first is not lost on its
\* way into the room, however often the tab authenticates anew, whatever other
\* clients do and however long queries wait: it is refused only when it comes
\* before the first authentication.  The run of WatchersSubscribed adds that it
\* gets into the room.
THEOREM SubscriptionsAreKept == GatewaySpec => [][SubscriptionsLast]_gatewayVars
<1>1. GatewayInit => OrgsAuthenticated
  BY DEF GatewayInit, OrgsAuthenticated, Nobody
<1>2. GatewayTypeOK /\ OrgsAuthenticated /\ [GatewayNext]_gatewayVars => [SubscriptionsLast]_gatewayVars
  BY SubscriptionsKept
<1> QED
  BY <1>1, <1>2, OrgsKept, GatewayTypeCorrect, PTL DEF GatewaySpec

-----------------------------------------------------------------------------
(* The repositories. *)

LEMMA ReposStart == RepoInit => RepoTypeOK
<1>1. 0 \in 0..MaxRows /\ "idle" \in RepoSteps
  BY RepoAssumption DEF RepoAssumption, RepoSteps
<1> SUFFICES ASSUME RepoInit PROVE RepoTypeOK
  OBVIOUS
<1>2. made \in 0..MaxRows /\ on \in [Requests -> 0..MaxRows] /\ reqAt \in [Requests -> RepoSteps]
  BY <1>1 DEF RepoInit
<1>3. chosen \in [Imports -> SUBSET Repos] /\ rest \in [Imports -> SUBSET Rows] /\ listed \subseteq Rows
  BY DEF RepoInit
<1>4. /\ repoOf \in [Rows -> Repos \cup {NoRepo}] /\ down \in BOOLEAN
      /\ analysis \in [Rows -> {"none", "pending", "analyzing", "done", "failed"}]
  BY DEF RepoInit
<1> QED
  BY <1>2, <1>3, <1>4 DEF RepoTypeOK

LEMMA ReposKept == RepoTypeOK /\ [RepoNext]_repoVars => RepoTypeOK'
<1> SUFFICES ASSUME RepoTypeOK, [RepoNext]_repoVars PROVE RepoTypeOK'
  OBVIOUS
<1> USE RepoAssumption DEF RepoAssumption, Rows
<1>a. Imports \subseteq Requests /\ Clicks \subseteq Requests
  BY DEF Requests
<1>r. ASSUME NEW i \in Requests, NEW s \in RepoSteps, RequestAt(i, s)
      PROVE  reqAt' \in [Requests -> RepoSteps]
  BY <1>r DEF RequestAt, RepoTypeOK
<1>o. ASSUME NEW i \in Requests, AnalysisOver(i)
      PROVE  reqAt' \in [Requests -> RepoSteps] /\ on' \in [Requests -> 0..MaxRows]
  <2>1. \E s \in RepoSteps : RequestAt(i, s)
    BY <1>o DEF AnalysisOver, RepoSteps
  <2> QED
    BY <1>o, <1>r, <2>1 DEF AnalysisOver, RepoTypeOK
<1>n. ASSUME NEW r \in Repos, NewRow(r)
      PROVE  /\ made' \in 0..MaxRows /\ repoOf' \in [Rows -> Repos \cup {NoRepo}]
             /\ analysis' \in [Rows -> {"none", "pending", "analyzing", "done", "failed"}]
  BY <1>n DEF NewRow, RepoTypeOK
<1>1. CASE UNCHANGED repoVars
  BY <1>1 DEF repoVars, RepoTypeOK
<1>2. ASSUME NEW r \in Repos, CreateNew(r) PROVE RepoTypeOK'
  BY <1>2, <1>n DEF CreateNew, RepoTypeOK
<1>3. ASSUME NEW n \in Rows, RemoveRepo(n) PROVE RepoTypeOK'
  BY <1>3 DEF RemoveRepo, RepoTypeOK
<1>4. ASSUME NEW i \in Imports, ListRemote(i) PROVE RepoTypeOK'
  <2>1. reqAt' \in [Requests -> RepoSteps]
    BY <1>4, <1>a, <1>r DEF ListRemote, RepoSteps
  <2>2. chosen' \in [Imports -> SUBSET Repos]
    BY <1>4 DEF ListRemote, RepoTypeOK
  <2> QED
    BY <1>4, <2>1, <2>2 DEF ListRemote, RepoTypeOK
<1>5. ASSUME NEW i \in Imports, NEW r \in Repos, UpsertRepo(i, r) PROVE RepoTypeOK'
  BY <1>5, <1>n DEF UpsertRepo, RepoTypeOK
<1>6. ASSUME NEW i \in Imports, StampImport(i) PROVE RepoTypeOK'
  <2>1. reqAt' \in [Requests -> RepoSteps]
    BY <1>6, <1>a, <1>r DEF StampImport, RepoSteps
  <2> QED
    BY <1>6, <2>1 DEF StampImport, RepoTypeOK
<1>7. ASSUME NEW i \in Imports, ListPending(i) PROVE RepoTypeOK'
  <2>1. reqAt' \in [Requests -> RepoSteps]
    BY <1>7, <1>a, <1>r DEF ListPending, RepoSteps
  <2> QED
    BY <1>7, <2>1 DEF ListPending, RepoTypeOK
<1>8. ASSUME NEW i \in Imports, NextPending(i) PROVE RepoTypeOK'
  <2>1. reqAt' \in [Requests -> RepoSteps]
    BY <1>8, <1>a, <1>r DEF NextPending, RepoSteps
  <2>2. \A n \in rest[i] : n \in 0..MaxRows
    BY DEF RepoTypeOK
  <2>3. rest' \in [Imports -> SUBSET Rows] /\ on' \in [Requests -> 0..MaxRows]
    BY <1>8, <1>a, <2>2 DEF NextPending, RepoTypeOK
  <2> QED
    BY <1>8, <2>1, <2>3 DEF NextPending, RepoTypeOK
<1>9. ASSUME NEW i \in Clicks, NEW n \in Rows, AskAnalysis(i, n) PROVE RepoTypeOK'
  <2>1. reqAt' \in [Requests -> RepoSteps]
    BY <1>9, <1>a, <1>r DEF AskAnalysis, RepoSteps
  <2>2. on' \in [Requests -> 0..MaxRows] /\ listed' \subseteq Rows
    <3>1. n \in 0..MaxRows
      OBVIOUS
    <3> QED
      BY <1>9, <1>a, <3>1 DEF AskAnalysis, RepoTypeOK
  <2> QED
    BY <1>9, <2>1, <2>2 DEF AskAnalysis, RepoTypeOK
<1>10. ASSUME NEW i \in Requests, FindRepo(i) \/ MarkAnalyzing(i) \/ StoreAnalysis(i)
       PROVE  RepoTypeOK'
  <2>1. reqAt' \in [Requests -> RepoSteps] /\ on' \in [Requests -> 0..MaxRows]
    <3>1. AnalysisOver(i) \/ (UNCHANGED on /\ \E s \in RepoSteps : RequestAt(i, s))
      BY <1>10 DEF FindRepo, MarkAnalyzing, StoreAnalysis, RepoSteps
    <3> QED
      BY <1>o, <1>r, <3>1 DEF RepoTypeOK
  <2>2. analysis' \in [Rows -> {"none", "pending", "analyzing", "done", "failed"}]
    BY <1>10 DEF FindRepo, MarkAnalyzing, StoreAnalysis, RepoTypeOK
  <2> QED
    BY <1>10, <2>1, <2>2 DEF FindRepo, MarkAnalyzing, StoreAnalysis, RepoTypeOK
<1>11. ASSUME NEW i \in Requests, LookInto(i) PROVE RepoTypeOK'
  <2>1. reqAt' \in [Requests -> RepoSteps]
    BY <1>11, <1>r DEF LookInto, RepoSteps
  <2> QED
    BY <1>11, <2>1 DEF LookInto, RepoTypeOK
<1>12. ASSUME NEW i \in Requests, StoreFailure(i) PROVE RepoTypeOK'
  <2>1. analysis' \in [Rows -> {"none", "pending", "analyzing", "done", "failed"}]
    BY <1>12 DEF StoreFailure, RepoTypeOK
  <2> QED
    BY <1>12, <1>o, <2>1 DEF StoreFailure, RepoTypeOK
<1>13. CASE ServerRestart
  <2>1. reqAt' \in [Requests -> RepoSteps]
    BY <1>13 DEF ServerRestart, RepoSteps, RepoTypeOK
  <2> QED
    BY <1>13, <2>1 DEF ServerRestart, RepoTypeOK
<1> QED
  BY <1>1, <1>2, <1>3, <1>4, <1>5, <1>6, <1>7, <1>8, <1>9, <1>10, <1>11, <1>12, <1>13
     DEF RepoNext, RepoStep, ImportGoesOn, AnalysisGoesOn

\* The repositories, the requests about them and the analyses under way stay
\* within their types, for any names, requests and number of rows.
THEOREM RepoTypeCorrect == RepoSpec => []RepoTypeOK
  BY ReposStart, ReposKept, PTL DEF RepoSpec

\* What is safety of AnalysesEnd.  Whoever is at the analysis of row n, and
\* whoever is going to be.
Attends(n) == \E i \in Requests : on[i] = n /\ reqAt[i] \in {"look", "store", "fail"}
Awaits(n) == \/ \E i \in Imports : n \in rest[i]
             \/ \E i \in Requests : on[i] = n /\ reqAt[i] \in {"find", "mark"}

\* Until the server restarts, nobody waits for an analysis that nobody is at.
RowsAttended ==
  ~down => \A n \in Rows : /\ analysis[n] = "analyzing" => Attends(n)
                           /\ n \in listed /\ analysis[n] = "pending" => Awaits(n)

\* The rows there are have a repository and an analysis, and an import has rows
\* to go through once it has listed them.
RowsExist ==
  /\ \A n \in Rows : repoOf[n] = NoRepo => analysis[n] = "none"
  /\ \A n \in Rows : n > made => repoOf[n] = NoRepo /\ n \notin listed
  /\ \A i \in Imports : reqAt[i] \in {"idle", "write", "list"} => rest[i] = {}

LEMMA RequestMoves ==
  ASSUME RepoTypeOK, NEW i \in Requests, NEW s, RequestAt(i, s)
  PROVE  reqAt'[i] = s /\ \A j \in Requests : j # i => reqAt'[j] = reqAt[j]
  BY DEF RequestAt, RepoTypeOK

LEMMA AnalysisEnds ==
  ASSUME RepoTypeOK, NEW i \in Requests, AnalysisOver(i)
  PROVE  /\ reqAt'[i] \in {"next", "over"}
         /\ \A j \in Requests : j # i => reqAt'[j] = reqAt[j] /\ on'[j] = on[j]
  BY DEF AnalysisOver, RequestAt, RepoTypeOK

LEMMA RowsKept ==
  ASSUME RepoTypeOK, RowsExist, RowsAttended, [RepoNext]_repoVars
  PROVE  RowsExist' /\ RowsAttended'
<1> USE RepoAssumption DEF RepoAssumption, Rows
<1>a. Imports \subseteq Requests /\ Clicks \subseteq Requests
  BY DEF Requests
<1>n. ASSUME NEW r \in Repos, NewRow(r), UNCHANGED <<reqAt, rest, on, listed, down>>
      PROVE  RowsExist' /\ RowsAttended'
  <2>1. /\ made + 1 \in Rows /\ made \in Nat /\ made' = made + 1
        /\ \A n \in Rows : n # made + 1 => repoOf'[n] = repoOf[n] /\ analysis'[n] = analysis[n]
        /\ repoOf'[made + 1] # NoRepo /\ analysis'[made + 1] = "pending"
    BY <1>n DEF NewRow, RepoTypeOK
  <2>2. made + 1 \notin listed
    BY <2>1 DEF RowsExist
  <2>3. \A n \in Rows : n > made' => n > made /\ n # made + 1
    BY <2>1
  <2>4. RowsExist'
    BY <1>n, <2>1, <2>3 DEF RowsExist
  <2>5. \A n \in Rows : (Attends(n) => Attends(n)') /\ (Awaits(n) => Awaits(n)')
    BY <1>n DEF Attends, Awaits
  <2>6. RowsAttended'
    BY <1>n, <2>1, <2>2, <2>5 DEF RowsAttended
  <2> QED
    BY <2>4, <2>6
<1>k. ASSUME UNCHANGED <<made, repoOf, analysis, listed, down>>,
             \A n \in Rows : (Attends(n) => Attends(n)') /\ (Awaits(n) => Awaits(n)'),
             \A j \in Imports : reqAt'[j] \in {"idle", "write", "list"} => rest'[j] = {}
      PROVE  RowsExist' /\ RowsAttended'
  BY <1>k DEF RowsExist, RowsAttended
<1>1. CASE UNCHANGED repoVars
  BY <1>1 DEF repoVars, RowsExist, RowsAttended, Attends, Awaits
<1>2. ASSUME NEW r \in Repos, CreateNew(r) PROVE RowsExist' /\ RowsAttended'
  BY <1>2, <1>n DEF CreateNew
<1>3. ASSUME NEW n \in Rows, RemoveRepo(n) PROVE RowsExist' /\ RowsAttended'
  <2>1. /\ UNCHANGED <<made, reqAt, rest, on, listed, down>>
        /\ \A m \in Rows : m # n => repoOf'[m] = repoOf[m] /\ analysis'[m] = analysis[m]
        /\ repoOf'[n] = NoRepo /\ analysis'[n] = "none"
    BY <1>3 DEF RemoveRepo, RepoTypeOK
  <2>2. \A m \in Rows : (Attends(m) => Attends(m)') /\ (Awaits(m) => Awaits(m)')
    BY <2>1 DEF Attends, Awaits
  <2>3. RowsExist'
    BY <2>1 DEF RowsExist
  <2>4. RowsAttended'
    BY <2>1, <2>2 DEF RowsAttended
  <2> QED
    BY <2>3, <2>4
<1>4. ASSUME NEW i \in Imports, ListRemote(i) \/ StampImport(i) PROVE RowsExist' /\ RowsAttended'
  <2>1. /\ UNCHANGED <<made, repoOf, analysis, rest, on, listed, down>>
        /\ reqAt[i] \in {"idle", "write"} /\ \E s \in {"write", "list", "over"} : RequestAt(i, s)
    BY <1>4 DEF ListRemote, StampImport
  <2>2. reqAt'[i] \in {"write", "list", "over"} /\ \A j \in Requests : j # i => reqAt'[j] = reqAt[j]
    BY <1>a, <2>1, RequestMoves
  <2>3. \A n \in Rows : (Attends(n) => Attends(n)') /\ (Awaits(n) => Awaits(n)')
    BY <2>1, <2>2 DEF Attends, Awaits
  <2>4. \A j \in Imports : reqAt'[j] \in {"idle", "write", "list"} => rest'[j] = {}
    BY <1>a, <2>1, <2>2 DEF RowsExist
  <2> QED
    BY <1>k, <2>1, <2>3, <2>4
<1>5. ASSUME NEW i \in Imports, NEW r \in Repos, UpsertRepo(i, r) PROVE RowsExist' /\ RowsAttended'
  <2>1. UNCHANGED <<reqAt, rest, on, listed, down>>
    BY <1>5 DEF UpsertRepo
  <2>2. CASE NewRow(r)
    BY <1>n, <2>1, <2>2
  <2>3. CASE UNCHANGED <<made, repoOf, analysis>>
    BY <2>1, <2>3 DEF RowsExist, RowsAttended, Attends, Awaits
  <2> QED
    BY <1>5, <2>2, <2>3 DEF UpsertRepo
<1>7. ASSUME NEW i \in Imports, ListPending(i) PROVE RowsExist' /\ RowsAttended'
  <2>1. /\ UNCHANGED <<made, repoOf, analysis, on, down>>
        /\ reqAt[i] = "list" /\ reqAt'[i] = "next"
        /\ \A j \in Requests : j # i => reqAt'[j] = reqAt[j]
        /\ rest'[i] = {n \in Rows : analysis[n] = "pending"}
        /\ \A j \in Imports : j # i => rest'[j] = rest[j]
        /\ listed' = listed \cup {n \in Rows : analysis[n] = "pending"}
    BY <1>7, <1>a, RequestMoves DEF ListPending, RepoTypeOK
  <2>2. rest[i] = {}
    BY <2>1 DEF RowsExist
  <2>3. \A n \in Rows : Attends(n) => Attends(n)'
    BY <2>1 DEF Attends
  <2>4. \A n \in Rows : analysis[n] = "pending" => Awaits(n)'
    BY <2>1 DEF Awaits
  <2>5. RowsExist'
    BY <1>a, <2>1, <2>2 DEF RowsExist
  <2>6. RowsAttended'
    BY <2>1, <2>3, <2>4 DEF RowsAttended
  <2> QED
    BY <2>5, <2>6
<1>8. ASSUME NEW i \in Imports, NextPending(i) PROVE RowsExist' /\ RowsAttended'
  <2>1. UNCHANGED <<made, repoOf, analysis, listed, down>> /\ reqAt[i] = "next"
    BY <1>8 DEF NextPending
  <2>2. CASE rest[i] = {} /\ RequestAt(i, "over") /\ UNCHANGED <<rest, on>>
    <3>1. reqAt'[i] = "over" /\ \A j \in Requests : j # i => reqAt'[j] = reqAt[j]
      BY <1>a, <2>2, RequestMoves
    <3>2. \A n \in Rows : (Attends(n) => Attends(n)') /\ (Awaits(n) => Awaits(n)')
      BY <2>1, <2>2, <3>1 DEF Attends, Awaits
    <3> QED
      BY <1>k, <1>a, <2>1, <2>2, <3>1, <3>2 DEF RowsExist
  <2>3. ASSUME NEW m \in rest[i], rest' = [rest EXCEPT ![i] = @ \ {m}], on' = [on EXCEPT ![i] = m], RequestAt(i, "find")
        PROVE  RowsExist' /\ RowsAttended'
    <3>1. reqAt'[i] = "find" /\ on'[i] = m
          /\ \A j \in Requests : j # i => reqAt'[j] = reqAt[j] /\ on'[j] = on[j]
      BY <1>a, <2>3, RequestMoves DEF RepoTypeOK
    <3>2. rest'[i] = rest[i] \ {m} /\ \A j \in Imports : j # i => rest'[j] = rest[j]
      BY <2>3 DEF RepoTypeOK
    <3>3. \A n \in Rows : (Attends(n) => Attends(n)') /\ (Awaits(n) => Awaits(n)')
      BY <1>a, <2>1, <3>1, <3>2 DEF Attends, Awaits
    <3> QED
      BY <1>k, <1>a, <2>1, <3>1, <3>2, <3>3 DEF RowsExist
  <2> QED
    BY <1>8, <2>2, <2>3 DEF NextPending
<1>9. ASSUME NEW i \in Clicks, NEW m \in Rows, AskAnalysis(i, m) PROVE RowsExist' /\ RowsAttended'
  <2>1. /\ UNCHANGED <<made, repoOf, analysis, rest, down>> /\ reqAt[i] = "idle" /\ m \in Alive
        /\ reqAt'[i] = "find" /\ on'[i] = m /\ listed' = listed \cup {m}
        /\ \A j \in Requests : j # i => reqAt'[j] = reqAt[j] /\ on'[j] = on[j]
    BY <1>9, <1>a, RequestMoves DEF AskAnalysis, RepoTypeOK
  <2>2. \A n \in Rows : (Attends(n) => Attends(n)') /\ (Awaits(n) => Awaits(n)')
    BY <2>1 DEF Attends, Awaits
  <2>3. Awaits(m)'
    BY <1>a, <2>1 DEF Awaits
  <2>4. RowsExist'
    BY <1>a, <2>1 DEF RowsExist, Alive
  <2>5. RowsAttended'
    BY <2>1, <2>2, <2>3 DEF RowsAttended
  <2> QED
    BY <2>4, <2>5
<1>o. ASSUME NEW i \in Requests, AnalysisOver(i), UNCHANGED <<made, repoOf, rest, listed, down>>,
             reqAt[i] \in {"find", "mark", "store", "fail"},
             \A n \in Rows : n # on[i] => analysis'[n] = analysis[n],
             on[i] \in Alive => analysis'[on[i]] \in {"done", "failed"},
             on[i] \in Rows \ Alive => analysis'[on[i]] = analysis[on[i]]
      PROVE  RowsExist' /\ RowsAttended'
  <2>1. /\ reqAt'[i] \in {"next", "over"}
        /\ \A j \in Requests : j # i => reqAt'[j] = reqAt[j] /\ on'[j] = on[j]
    BY <1>o, AnalysisEnds
  <2>2. \A n \in Rows : n # on[i] => (Attends(n) => Attends(n)') /\ (Awaits(n) => Awaits(n)')
    BY <1>o, <2>1 DEF Attends, Awaits
  <2>3. on[i] \in Rows => analysis'[on[i]] \in {"none", "done", "failed"}
    BY <1>o DEF Alive, RowsExist
  <2>4. \A n \in Rows : repoOf'[n] = NoRepo => analysis'[n] = "none"
    BY <1>o DEF Alive, RowsExist
  <2>5. RowsExist'
    BY <1>a, <1>o, <2>1, <2>4 DEF RowsExist
  <2>6. RowsAttended'
    BY <1>o, <2>2, <2>3 DEF RowsAttended
  <2> QED
    BY <2>5, <2>6
<1>m. ASSUME NEW i \in Requests, NEW s \in {"mark", "store", "fail"}, RequestAt(i, s),
             UNCHANGED <<made, repoOf, analysis, rest, on, listed, down>>,
             s = "mark" => reqAt[i] = "find",
             s # "mark" => reqAt[i] \in {"look", "store", "fail"}
      PROVE  RowsExist' /\ RowsAttended'
  <2>1. reqAt'[i] = s /\ \A j \in Requests : j # i => reqAt'[j] = reqAt[j]
    BY <1>m, RequestMoves
  <2>2. \A n \in Rows : (Attends(n) => Attends(n)') /\ (Awaits(n) => Awaits(n)')
    BY <1>m, <2>1 DEF Attends, Awaits
  <2> QED
    BY <1>a, <1>k, <1>m, <2>1, <2>2 DEF RowsExist
<1>10. ASSUME NEW i \in Requests, FindRepo(i) PROVE RowsExist' /\ RowsAttended'
  BY <1>10, <1>m, <1>o DEF FindRepo
<1>11. ASSUME NEW i \in Requests, MarkAnalyzing(i) PROVE RowsExist' /\ RowsAttended'
  <2>1. CASE on[i] \in Alive
    <3>1. /\ UNCHANGED <<made, repoOf, rest, on, listed, down>> /\ reqAt[i] = "mark" /\ reqAt'[i] = "look"
          /\ \A j \in Requests : j # i => reqAt'[j] = reqAt[j]
          /\ analysis'[on[i]] = "analyzing" /\ \A n \in Rows : n # on[i] => analysis'[n] = analysis[n]
      BY <1>11, <2>1, RequestMoves DEF MarkAnalyzing, RepoTypeOK, Alive
    <3>2. \A n \in Rows : n # on[i] => (Attends(n) => Attends(n)') /\ (Awaits(n) => Awaits(n)')
      BY <3>1 DEF Attends, Awaits
    <3>3. Attends(on[i])'
      BY <3>1 DEF Attends
    <3>4. RowsExist'
      BY <1>a, <2>1, <3>1 DEF RowsExist, Alive
    <3>5. RowsAttended'
      BY <3>1, <3>2, <3>3 DEF RowsAttended
    <3> QED
      BY <3>4, <3>5
  <2>2. CASE on[i] \notin Alive
    BY <1>11, <1>o, <2>2 DEF MarkAnalyzing
  <2> QED
    BY <2>1, <2>2
<1>12. ASSUME NEW i \in Requests, LookInto(i) PROVE RowsExist' /\ RowsAttended'
  BY <1>12, <1>m DEF LookInto
<1>13. ASSUME NEW i \in Requests, StoreAnalysis(i) \/ StoreFailure(i) PROVE RowsExist' /\ RowsAttended'
  <2>1. CASE AnalysisOver(i)
    <3>1. /\ UNCHANGED <<made, repoOf, rest, listed, down>> /\ reqAt[i] \in {"store", "fail"}
          /\ \A n \in Rows : n # on[i] => analysis'[n] = analysis[n]
          /\ on[i] \in Alive => analysis'[on[i]] \in {"done", "failed"}
          /\ on[i] \in Rows \ Alive => analysis'[on[i]] = analysis[on[i]]
      BY <1>13, <2>1, AnalysisEnds DEF StoreAnalysis, StoreFailure, RepoTypeOK, Alive, RequestAt
    <3> QED
      BY <1>o, <2>1, <3>1
  <2>2. CASE StoreAnalysis(i) /\ on[i] \notin Alive
    BY <1>m, <2>2 DEF StoreAnalysis
  <2> QED
    BY <1>13, <2>1, <2>2 DEF StoreAnalysis, StoreFailure
<1>14. CASE ServerRestart
  BY <1>14, <1>a DEF ServerRestart, RowsExist, RowsAttended
<1> QED
  BY <1>1, <1>2, <1>3, <1>4, <1>5, <1>7, <1>8, <1>9, <1>10, <1>11, <1>12, <1>13, <1>14
     DEF RepoNext, RepoStep, ImportGoesOn, AnalysisGoesOn

\* Until the server restarts, a row that is being analyzed has a request at it
\* that is going to write how that ends, and a row that an import has listed or
\* a person has asked about, and nobody has begun with, has one that is going to
\* begin: whatever fails, is disconnected or is analyzed twice meanwhile, no row
\* is left "analyzing" or "pending" by everybody.
THEOREM AnalysesAreAttended == RepoSpec => []RowsAttended
<1>1. RepoInit => RowsExist /\ RowsAttended
  BY DEF RepoInit, RowsExist, RowsAttended
<1> QED
  BY <1>1, RowsKept, RepoTypeCorrect, PTL DEF RepoSpec

-----------------------------------------------------------------------------
(* The plugins. *)

\* There is a configuration where there is a row, and a change that is going to
\* write one has one in hand.
ConfigsInHand ==
  /\ plugin # 0 => config \in Configs
  /\ \A c \in Changes : change[c] \in {"connect", "pick", "act"} => carries[c] \in Configs
  /\ \A v \in Views : view[v] = "ask" => asks[v] \in Configs

PluginInv == PluginTypeOK /\ ConfigsInHand

LEMMA PluginStarts == PluginInit => PluginInv
<1>1. 0 \in 0..MaxPlugins /\ 0 \in 0..0
  BY PluginAssumption DEF PluginAssumption
<1> QED
  BY <1>1 DEF PluginInit, PluginInv, PluginTypeOK, ConfigsInHand

\* A change is over, or goes on to what it is at.
LEMMA ChangeMoves ==
  ASSUME PluginTypeOK, NEW c \in Changes,
         NEW s \in {"idle", "connect", "pick", "act", "disconnect", "drop", "over"}, ChangeAt(c, s)
  PROVE  /\ change' \in [Changes -> {"idle", "connect", "pick", "act", "disconnect", "drop", "over"}]
         /\ change'[c] = s /\ \A d \in Changes : d # c => change'[d] = change[d]
  BY DEF ChangeAt, PluginTypeOK

LEMMA WritesBack ==
  ASSUME PluginInv, NEW c \in Changes, NEW cfg \in Configs, WriteBack(c, cfg)
  PROVE  PluginInv'
<1> USE DEF PluginInv
<1>1. UNCHANGED <<plugin, plugins, connected, cached, ageing, view, asks, askedOf>>
      /\ carries' = [carries EXCEPT ![c] = NoConfig]
  BY DEF WriteBack
<1>2. CASE plugin = found[c]
  <2>1. config' = cfg /\ ChangeAt(c, "drop") /\ UNCHANGED found
    BY <1>2 DEF WriteBack
  <2>2. PluginTypeOK'
    BY <1>1, <2>1, ChangeMoves DEF PluginTypeOK
  <2> QED
    BY <1>1, <2>1, <2>2, ChangeMoves DEF PluginTypeOK, ConfigsInHand
<1>3. CASE plugin # found[c]
  <2>1. UNCHANGED config /\ ChangeAt(c, "over") /\ found' = [found EXCEPT ![c] = 0]
    BY <1>3 DEF WriteBack, ChangeIsOver
  <2>2. PluginTypeOK'
    BY <1>1, <2>1, ChangeMoves, PluginAssumption DEF PluginAssumption, PluginTypeOK
  <2> QED
    BY <1>1, <2>1, <2>2, ChangeMoves DEF PluginTypeOK, ConfigsInHand
<1> QED
  BY <1>2, <1>3

LEMMA PluginKept == PluginInv /\ [PluginNext]_pluginVars => PluginInv'
<1> SUFFICES ASSUME PluginInv, [PluginNext]_pluginVars PROVE PluginInv'
  OBVIOUS
<1> USE PluginAssumption DEF PluginAssumption, PluginInv
<1>0. 0 \in 0..MaxPlugins /\ 0 \in 0..plugins
  BY DEF PluginTypeOK
<1>1. CASE UNCHANGED pluginVars
  BY <1>1 DEF pluginVars, PluginTypeOK, ConfigsInHand
<1>2. ASSUME NEW c \in Changes, NEW k \in Secrets, TestKey(c, k) PROVE PluginInv'
  <2>1. [key |-> k, picks |-> {}] \in Configs
    BY DEF Configs
  <2>2. ChangeAt(c, "connect")
    BY <1>2 DEF TestKey
  <2>3. PluginTypeOK'
    BY <1>2, <2>1, <2>2, ChangeMoves DEF TestKey, PluginTypeOK
  <2> QED
    BY <1>2, <2>1, <2>2, <2>3, ChangeMoves DEF TestKey, PluginTypeOK, ConfigsInHand
<1>3. ASSUME NEW c \in Changes, StoreKey(c) PROVE PluginInv'
  <2>1. ChangeAt(c, "drop") /\ carries[c] \in Configs
    BY <1>3 DEF StoreKey, ConfigsInHand
  <2>2. plugins' \in 0..MaxPlugins /\ plugin' \in 0..plugins' /\ plugin' \in 0..MaxPlugins
    BY <1>3 DEF StoreKey, PluginTypeOK
  <2>3. PluginTypeOK'
    BY <1>3, <2>1, <2>2, ChangeMoves DEF StoreKey, PluginTypeOK
  <2> QED
    BY <1>3, <2>1, <2>3, ChangeMoves DEF StoreKey, PluginTypeOK, ConfigsInHand
<1>4. ASSUME NEW c \in Changes, FindPlugin(c) PROVE PluginInv'
  <2>1. PICK s \in {"pick", "act", "disconnect"} : ChangeAt(c, s)
    BY <1>4 DEF FindPlugin
  <2>2. config \in Configs /\ plugin \in 0..MaxPlugins
    BY <1>4 DEF FindPlugin, ConfigsInHand, PluginTypeOK
  <2>3. PluginTypeOK'
    BY <1>4, <2>1, <2>2, ChangeMoves DEF FindPlugin, PluginTypeOK
  <2> QED
    BY <1>4, <2>1, <2>2, <2>3, ChangeMoves DEF FindPlugin, PluginTypeOK, ConfigsInHand
<1>5. ASSUME NEW c \in Changes, StorePicks(c) PROVE PluginInv'
  <2>1. PICK S \in SUBSET Picks : WriteBack(c, [carries[c] EXCEPT !.picks = S])
    BY <1>5 DEF StorePicks
  <2>2. [carries[c] EXCEPT !.picks = S] \in Configs
    BY <1>5 DEF StorePicks, ConfigsInHand, Configs
  <2> QED
    BY <2>1, <2>2, WritesBack
<1>6. ASSUME NEW c \in Changes, ActionDone(c) PROVE PluginInv'
  <2>1. carries[c] \in Configs
    BY <1>6 DEF ActionDone, ConfigsInHand
  <2>2. ASSUME NEW x \in Picks,
               WriteBack(c, [carries[c] EXCEPT !.picks = IF x \in @ THEN @ \ {x} ELSE @ \cup {x}])
        PROVE  PluginInv'
    <3>1. [carries[c] EXCEPT !.picks = IF x \in @ THEN @ \ {x} ELSE @ \cup {x}] \in Configs
      BY <2>1 DEF Configs
    <3> QED
      BY <2>2, <3>1, WritesBack
  <2>3. ASSUME carries' = [carries EXCEPT ![c] = NoConfig],
               (ChangeAt(c, "drop") /\ UNCHANGED found) \/ ChangeIsOver(c),
               UNCHANGED <<plugin, plugins, config, connected, cached, ageing, view, asks, askedOf>>
        PROVE  PluginInv'
    <3>1. PICK s \in {"drop", "over"} : ChangeAt(c, s)
      BY <2>3 DEF ChangeIsOver
    <3>2. PluginTypeOK'
      BY <2>3, <3>1, ChangeMoves DEF ChangeIsOver, PluginTypeOK
    <3> QED
      BY <2>3, <3>1, <3>2, ChangeMoves DEF PluginTypeOK, ConfigsInHand
  <2> QED
    BY <1>6, <2>2, <2>3 DEF ActionDone
<1>7. ASSUME NEW c \in Changes, DropStatus(c) PROVE PluginInv'
  <2>1. ChangeAt(c, "over")
    BY <1>7 DEF DropStatus, ChangeIsOver
  <2>2. PluginTypeOK'
    BY <1>0, <1>7, <2>1, ChangeMoves DEF DropStatus, ChangeIsOver, PluginTypeOK
  <2> QED
    BY <1>7, <2>1, <2>2, ChangeMoves DEF DropStatus, PluginTypeOK, ConfigsInHand
<1>8. ASSUME NEW c \in Changes, DisconnectPlugin(c) PROVE PluginInv'
  <2>1. ChangeAt(c, "over")
    BY <1>8 DEF DisconnectPlugin, ChangeIsOver
  <2>2. PluginTypeOK'
    BY <1>0, <1>8, <2>1, ChangeMoves DEF DisconnectPlugin, ChangeIsOver, PluginTypeOK
  <2> QED
    BY <1>8, <2>1, <2>2, ChangeMoves DEF DisconnectPlugin, PluginTypeOK, ConfigsInHand
<1>9. ASSUME NEW v \in Views, AnswerCached(v) PROVE PluginInv'
  BY <1>9 DEF AnswerCached, pluginVars, PluginTypeOK, ConfigsInHand
<1>10. ASSUME NEW v \in Views, AskProvider(v) PROVE PluginInv'
  <2>1. config \in Configs /\ plugin \in 0..MaxPlugins
    BY <1>10 DEF AskProvider, ConfigsInHand, PluginTypeOK
  <2>2. PluginTypeOK'
    BY <1>10, <2>1 DEF AskProvider, ViewAt, PluginTypeOK
  <2> QED
    BY <1>10, <2>1, <2>2 DEF AskProvider, ViewAt, PluginTypeOK, ConfigsInHand
<1>11. ASSUME NEW v \in Views, ProviderAnswers(v) PROVE PluginInv'
  <2>1. asks[v] \in Configs
    BY <1>11 DEF ProviderAnswers, ConfigsInHand
  <2>2. PluginTypeOK'
    BY <1>11, <2>1 DEF ProviderAnswers, ViewAt, PluginTypeOK
  <2> QED
    BY <1>11, <2>1, <2>2 DEF ProviderAnswers, ViewAt, PluginTypeOK, ConfigsInHand
<1>12. ASSUME NEW v \in Views, StampStatus(v) PROVE PluginInv'
  <2>1. connected' \in BOOLEAN
    BY <1>12 DEF StampStatus, PluginTypeOK
  <2>2. PluginTypeOK'
    BY <1>12, <2>1 DEF StampStatus, ViewAt, PluginTypeOK
  <2> QED
    BY <1>12, <2>2 DEF StampStatus, ViewAt, PluginTypeOK, ConfigsInHand
<1>13. CASE TimePasses
  BY <1>13 DEF TimePasses, PluginTypeOK, ConfigsInHand
<1> QED
  BY <1>1, <1>2, <1>3, <1>4, <1>5, <1>6, <1>7, <1>8, <1>9, <1>10, <1>11, <1>12, <1>13
     DEF PluginNext, ChangeGoesOn, ViewGoesOn

\* The plugins, the changes and the views under way stay within their types, for
\* any plugins and requests: a change that has read an installation holds it until
\* it saves, and the last conjunct says what it holds.
THEOREM PluginTypeCorrect == PluginSpec => []PluginTypeOK
<1>1. PluginInv => PluginTypeOK
  BY DEF PluginInv
<1> QED
  BY <1>1, PluginStarts, PluginKept, PTL DEF PluginSpec

-----------------------------------------------------------------------------
(* The services together. *)

\* Every variable of every service stays within its type, for any values of the
\* constants.
THEOREM ServicesTypeCorrect == ServicesSpec => []ServicesTypeOK
<1>1. Spec => []TypeOK
  BY RunnerTypeCorrect
<1>2. LoginSpec => []LoginTypeOK
  <2>1. LInv => LoginTypeOK
    BY DEF LInv
  <2> QED
    BY <2>1, LoginInvariant, PTL
<1>3. PanelSpec => []PanelTypeOK
  <2>1. PanelInv => PanelTypeOK
    BY DEF PanelInv
  <2> QED
    BY <2>1, PanelInitially, PanelPreserved, PTL DEF PanelSpec
<1>4. PortalSpec => []PortalTypeOK
  <2>1. PortalInv => PortalTypeOK
    BY DEF PortalInv
  <2> QED
    BY <2>1, PortalsStart, PortalsTyped, PTL DEF PortalSpec
<1>5. SeedSpec => []SeedTypeOK
  <2>1. SeedInv => SeedTypeOK /\ LoginsIssued
    BY DEF SeedInv
  <2> QED
    BY <2>1, SeedStarts, SeedTyped, PTL DEF SeedSpec
<1>6. ProjectSpec => []ProjectTypeOK
  <2>1. ProjectInv => ProjectTypeOK
    BY DEF ProjectInv
  <2> QED
    BY <2>1, ProjectInvariant, PTL
<1>7. WizardSpec => []WizardTypeOK
  <2>1. WizardInv => WizardTypeOK
    BY DEF WizardInv
  <2> QED
    BY <2>1, WizardInitially, WizardPreserved, PTL DEF WizardSpec
<1>8. ScheduleSpec => []ScheduleTypeOK
  <2>1. ScheduleInv => ScheduleTypeOK
    BY DEF ScheduleInv
  <2> QED
    BY <2>1, ScheduleInvariant, PTL
<1>9. /\ TypeOK /\ LoginTypeOK /\ GatewayTypeOK /\ PanelTypeOK /\ PortalTypeOK /\ SeedTypeOK
      /\ ProjectTypeOK /\ WizardTypeOK /\ ScheduleTypeOK /\ RepoTypeOK /\ PluginTypeOK
      => ServicesTypeOK
  BY DEF ServicesTypeOK
<1> QED
  BY <1>1, <1>2, <1>3, <1>4, <1>5, <1>6, <1>7, <1>8, <1>9, ServicesImplementEach,
     GatewayTypeCorrect, RepoTypeCorrect, PluginTypeCorrect, PTL

\* What is proved of each service alone holds in the composition TLC explores.
THEOREM ServicesKeepInvariants ==
  ServicesSpec =>
    [](/\ JoinsWait /\ InputsArePresent /\ NoMoreThanGranted /\ DeliveredTokensWork
       /\ AttachedHearsOutput /\ NotThrownOut /\ KeysLiveOn /\ PortalsHaveRepos
       /\ NothingMeansNothing /\ BuildsAreSound /\ SchedulerFollowsRow /\ FiresOnce)
  BY ServicesImplementEach, NodesWait, InputsPresent, TokensNeverExceedGrants,
     TokensHandedOutWork, AttachedHears, LoginsLast, KeysSurvive, SavedPortalsHaveRepos,
     NothingIsLeft, SoundBuilds, SchedulersFollow, FiringsAreOnce, PTL

\* So do the two action properties: a denied login stays denied, and the seed
\* of the containers never goes back to an older login.
THEOREM ServicesKeepActions == ServicesSpec => DenialIsFinal /\ SeedGoesForward
  BY ServicesImplementEach, DenialsHold, SeedNeverGoesBack, PTL

\* And so does what is proved of the levels, of graphs without an edge into a
\* trigger and a bound that does not cut their depth.
THEOREM ServicesKeepLevels ==
  ASSUME TriggersStart, DepthSuffices
  PROVE  ServicesSpec => [](LevelsAreLongest /\ NothingForgotten)
  BY ServicesImplementEach, LevelsLongest, NoneForgotten, PTL
=============================================================================

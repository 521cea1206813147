---------------------------- MODULE SocketGateway ----------------------------
(***************************************************************************)
(* Who hears the output of a session: the /events gateway of the API       *)
(* server (events.gateway.ts), the socket of a browser tab                 *)
(* (socket-context.tsx, terminal-view.tsx) and that of citshe attach       *)
(* (attach.ts), for one session everybody here may see.                    *)
(*                                                                         *)
(* Each connection carries its messages in order; the gateway takes them   *)
(* in that order, but a handler that awaits goes on after later ones.      *)
(* What a client sends while it is offline is sent when it is connected    *)
(* again, before its connect handlers run (socket.io).                     *)
(***************************************************************************)
EXTENDS Naturals, Sequences

CONSTANTS Tabs,         \* browser tabs
          Clis,         \* runs of citshe attach
          MaxConnects,  \* connections of one client (a bound)
          MaxViews      \* times a tab shows the session, and wakes (a bound)

ASSUME GatewayAssumption == MaxConnects \in Nat \ {0} /\ MaxViews \in Nat

Clients == Tabs \cup Clis
Handler == {"authenticate", "subscribe", "attach"}
Answers == {"authenticated", "subscribed", "attached", "error"}
Nobody  == [authenticated |-> FALSE, org |-> FALSE, room |-> FALSE]

VARIABLES
  line,      \* is the client connected?
  connects,  \* its connections so far
  up,        \* what it has sent and the gateway has not taken
  known,     \* clientData of its connection
  joined,    \* is its socket in the room of the session?
  wait,      \* its handlers in an await
  answers,   \* answers on their way to the command line; a tab ignores them
  shown,     \* does the tab show the session's terminal?
  views,     \* how often it has shown it or become visible
  again,     \* was it shown when the client connected again?
  asking,    \* its calls of getToken() that have not answered
  stage      \* of citshe attach: trying, attached or exited

gatewayVars == <<line, connects, up, known, joined, wait, answers, shown, again, views, asking, stage>>

GatewayInit ==
  /\ line = [v \in Clients |-> FALSE] /\ connects = [v \in Clients |-> 0]
  /\ up = [v \in Clients |-> <<>>] /\ answers = [v \in Clis |-> <<>>]
  /\ known = [v \in Clients |-> Nobody] /\ joined = [v \in Clients |-> FALSE]
  /\ wait = [v \in Clients |-> [h \in Handler |-> 0]]
  /\ shown = [v \in Tabs |-> FALSE] /\ again = [v \in Tabs |-> FALSE] /\ views = [v \in Tabs |-> 0]
  /\ asking = [v \in Tabs |-> 0]
  /\ stage = [v \in Clis |-> "trying"]

-----------------------------------------------------------------------------
(* The connection. *)

Send(v, what) == up' = [up EXCEPT ![v] = Append(@, what)]

\* A tab asks for its token, and sends authenticate once it has it; a shown
\* terminal subscribes again at once.
ConnectTab(v) ==
  /\ v \in Tabs /\ ~line[v] /\ connects[v] < MaxConnects
  /\ line' = [line EXCEPT ![v] = TRUE] /\ connects' = [connects EXCEPT ![v] = @ + 1]
  /\ asking' = [asking EXCEPT ![v] = @ + 1]
  /\ IF shown[v] THEN Send(v, "subscribe") ELSE UNCHANGED up
  /\ again' = [again EXCEPT ![v] = shown[v] /\ connects[v] > 0]
  /\ UNCHANGED <<known, joined, wait, answers, shown, views, stage>>

ConnectCli(v) ==
  /\ v \in Clis /\ connects[v] = 0
  /\ line' = [line EXCEPT ![v] = TRUE] /\ connects' = [connects EXCEPT ![v] = 1]
  /\ Send(v, "authenticate")
  /\ UNCHANGED <<known, joined, wait, answers, shown, again, views, asking, stage>>

Hangup(v) ==
  /\ line' = [line EXCEPT ![v] = FALSE]
  /\ up' = [up EXCEPT ![v] = <<>>]
  /\ known' = [known EXCEPT ![v] = Nobody] /\ joined' = [joined EXCEPT ![v] = FALSE]
  /\ wait' = [wait EXCEPT ![v] = [h \in Handler |-> 0]]

\* The network, the server or the user ends the connection; citshe exits then.
Disconnect(v) ==
  /\ line[v]
  /\ Hangup(v)
  /\ IF v \in Clis THEN stage' = [stage EXCEPT ![v] = "exited"] /\ answers' = [answers EXCEPT ![v] = <<>>]
                   ELSE UNCHANGED <<stage, answers>>
  /\ UNCHANGED <<connects, shown, again, views, asking>>

-----------------------------------------------------------------------------
(* The tab. *)

\* getToken() answers, or fails: then nothing is sent until the next connect.
TokenArrives(v) ==
  /\ asking[v] > 0
  /\ asking' = [asking EXCEPT ![v] = @ - 1]
  /\ Send(v, "authenticate") \/ UNCHANGED up
  /\ UNCHANGED <<line, connects, known, joined, wait, answers, shown, again, views, stage>>

ShowTerminal(v) ==
  /\ ~shown[v] /\ views[v] < MaxViews
  /\ shown' = [shown EXCEPT ![v] = TRUE] /\ views' = [views EXCEPT ![v] = @ + 1]
  /\ Send(v, "subscribe")
  /\ UNCHANGED <<line, connects, known, joined, wait, answers, again, asking, stage>>

\* Nothing is sent when it is left: the connection stays in the room.
HideTerminal(v) ==
  /\ shown[v]
  /\ shown' = [shown EXCEPT ![v] = FALSE] /\ again' = [again EXCEPT ![v] = FALSE]
  /\ UNCHANGED <<line, connects, up, known, joined, wait, answers, views, asking, stage>>

\* visibilitychange: a connected tab authenticates again.
Wake(v) ==
  /\ line[v] /\ views[v] < MaxViews
  /\ views' = [views EXCEPT ![v] = @ + 1]
  /\ asking' = [asking EXCEPT ![v] = @ + 1]
  /\ UNCHANGED <<line, connects, up, known, joined, wait, answers, shown, again, stage>>

-----------------------------------------------------------------------------
(* The gateway. *)

Answer(v, what) == answers' = IF v \in Clis THEN [answers EXCEPT ![v] = Append(@, what)] ELSE answers
Take(v, what) == line[v] /\ up[v] # <<>> /\ Head(up[v]) = what /\ up' = [up EXCEPT ![v] = Tail(@)]
Await(v, h) == wait' = [wait EXCEPT ![v][h] = @ + 1]
Return(v, h) == wait[v][h] > 0 /\ wait' = [wait EXCEPT ![v][h] = @ - 1]

\* The JWT of a tab: refused, good, or of another organization, which is an
\* error only after authenticated was set.
AuthenticateTabAnew(v) ==
  /\ v \in Tabs /\ Take(v, "authenticate")
  /\ \E good, org \in BOOLEAN :
       known' = [known EXCEPT ![v].authenticated = good, ![v].org = good /\ org]
  /\ UNCHANGED <<line, connects, joined, wait, answers, shown, again, views, asking, stage>>
AuthenticateTab(v) ==
  /\ v \in Tabs /\ Take(v, "authenticate")
  /\ \E good, org \in BOOLEAN :
       known' = IF good THEN [known EXCEPT ![v].authenticated = TRUE, ![v].org = @ \/ org] ELSE known
  /\ UNCHANGED <<line, connects, joined, wait, answers, shown, again, views, asking, stage>>

AuthenticateCli(v) ==
  /\ v \in Clis /\ Take(v, "authenticate")
  /\ Await(v, "authenticate")
  /\ UNCHANGED <<line, connects, known, joined, answers, shown, again, views, asking, stage>>

\* resolveToken.
TokenResolved(v) ==
  /\ Return(v, "authenticate")
  /\ \/ known' = [known EXCEPT ![v].authenticated = TRUE] /\ Answer(v, "authenticated")
     \/ UNCHANGED known /\ Answer(v, "error")
  /\ UNCHANGED <<line, connects, up, joined, shown, again, views, asking, stage>>

\* A tab needs its organization for the query, a command line its token.
MaySubscribe(v) == known[v].authenticated /\ (v \in Clis \/ known[v].org)

Subscribe(v) ==
  /\ Take(v, "subscribe")
  /\ IF MaySubscribe(v) THEN Await(v, "subscribe") /\ UNCHANGED answers
                        ELSE Answer(v, "error") /\ UNCHANGED wait
  /\ UNCHANGED <<line, connects, known, joined, shown, again, views, asking, stage>>

SessionFoundUnjoined(v) ==
  /\ Return(v, "subscribe")
  /\ known' = [known EXCEPT ![v].room = TRUE]
  /\ Answer(v, "subscribed")
  /\ UNCHANGED <<line, connects, up, joined, shown, again, views, asking, stage>>
SessionFound(v) ==
  /\ Return(v, "subscribe")
  /\ joined' = [joined EXCEPT ![v] = TRUE]
  /\ known' = [known EXCEPT ![v].room = TRUE]
  /\ Answer(v, "subscribed")
  /\ UNCHANGED <<line, connects, up, shown, again, views, asking, stage>>

AttachSession(v) ==
  /\ Take(v, "attach")
  /\ IF known[v].room THEN Await(v, "attach") /\ UNCHANGED answers
                      ELSE Answer(v, "error") /\ UNCHANGED wait
  /\ UNCHANGED <<line, connects, known, joined, shown, again, views, asking, stage>>

\* The terminal was active, has been started, or cannot be; an exec that
\* throws is answered with an event nobody listens to.
AttachDone(v) ==
  /\ Return(v, "attach")
  /\ (\E a \in {"attached", "error"} : Answer(v, a)) \/ UNCHANGED answers
  /\ UNCHANGED <<line, connects, up, known, joined, shown, again, views, asking, stage>>

-----------------------------------------------------------------------------
\* citshe attach goes on at each answer, and exits at the first error.
HearAnswer(v) ==
  /\ answers[v] # <<>>
  /\ LET a == Head(answers[v])
     IN  CASE a = "authenticated" -> /\ Send(v, "subscribe")
                                     /\ answers' = [answers EXCEPT ![v] = Tail(@)]
                                     /\ UNCHANGED <<line, known, joined, wait, stage>>
           [] a = "subscribed" -> /\ Send(v, "attach")
                                  /\ answers' = [answers EXCEPT ![v] = Tail(@)]
                                  /\ UNCHANGED <<line, known, joined, wait, stage>>
           [] a = "attached" -> /\ stage' = [stage EXCEPT ![v] = "attached"]
                                /\ answers' = [answers EXCEPT ![v] = Tail(@)]
                                /\ UNCHANGED <<line, up, known, joined, wait>>
           [] a = "error" -> /\ Hangup(v)
                             /\ stage' = [stage EXCEPT ![v] = "exited"]
                             /\ answers' = [answers EXCEPT ![v] = <<>>]
  /\ UNCHANGED <<connects, shown, again, views, asking>>

Gateway(v) ==
  \/ AuthenticateTab(v) \/ AuthenticateCli(v) \/ TokenResolved(v)
  \/ Subscribe(v) \/ SessionFound(v) \/ AttachSession(v) \/ AttachDone(v)

GatewayNext ==
  \/ \E v \in Clients : Gateway(v) \/ ConnectTab(v) \/ ConnectCli(v) \/ Disconnect(v)
  \/ \E v \in Tabs : TokenArrives(v) \/ ShowTerminal(v) \/ HideTerminal(v) \/ Wake(v)
  \/ \E v \in Clis : HearAnswer(v)

GatewaySpec == GatewayInit /\ [][GatewayNext]_gatewayVars

\* The event loop takes every message, and the queries of a handler return.
FairGatewaySpec == GatewaySpec /\ \A v \in Clients : WF_gatewayVars(Gateway(v))

-----------------------------------------------------------------------------
\* Every variable of the gateway stays within its type.
GatewayTypeOK ==
  /\ line \in [Clients -> BOOLEAN] /\ joined \in [Clients -> BOOLEAN]
  /\ connects \in [Clients -> 0..MaxConnects]
  /\ up \in [Clients -> Seq(Handler)]
  /\ known \in [Clients -> [authenticated : BOOLEAN, org : BOOLEAN, room : BOOLEAN]]
  /\ wait \in [Clients -> [Handler -> Nat]]
  /\ answers \in [Clis -> Seq(Answers)]
  /\ shown \in [Tabs -> BOOLEAN] /\ again \in [Tabs -> BOOLEAN]
  /\ views \in [Tabs -> 0..MaxViews] /\ asking \in [Tabs -> Nat]
  /\ stage \in [Clis -> {"trying", "attached", "exited"}]

\* Whoever runs citshe attach and is told "Attached" hears the session: at that
\* moment and as long as the program runs its socket is in the session's room.
AttachedHearsOutput == \A v \in Clis : stage[v] = "attached" => joined[v]

\* A tab that shows a terminal and whose subscription comes after its
\* authentication is in the session's room in the end, on every connection.
WatchersSubscribed ==
  \A v \in Tabs : (line[v] /\ known[v].org /\ Len(SelectSeq(up[v], LAMBDA x : x = "subscribe")) > 0)
                    ~> (joined[v] \/ ~line[v])

\* A connection of a tab on which everything sent has been answered.
SettledLine(v) == line[v] /\ asking[v] = 0 /\ up[v] = <<>> /\ \A h \in Handler : wait[v][h] = 0

\* "when the socket reconnects, re-subscribe to the session [...] instead of
\* staying frozen": a tab that shows the terminal and has authenticated hears
\* the session once its new connection has settled.
ReconnectResubscribes ==
  \A v \in Tabs : again[v] /\ known[v].org /\ SettledLine(v) => joined[v]
=============================================================================

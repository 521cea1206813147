----------------------------- MODULE PanelLogin -----------------------------
(***************************************************************************)
(* How a browser stays signed in to the panel: the refresh tokens of one   *)
(* user (users.service.ts, users.controller.ts), the cookie that all tabs  *)
(* of the browser share, and the access token each tab keeps               *)
(* (selfhosted-auth.ts).                                                   *)
(*                                                                         *)
(* A fetch is one request of a tab with the cookie it was sent with; a     *)
(* step of its handler is one await.  Tokens are numbered as they are      *)
(* issued.  The age of a token, the state of the account and the user's    *)
(* memberships are not kept: where a handler asks for them, any answer.    *)
(***************************************************************************)
EXTENDS Naturals, FiniteSets

CONSTANTS Pages,       \* tabs of the browser
          MaxFetches,  \* requests (a bound)
          MaxIssued    \* refresh tokens issued in all (a bound)

ASSUME PanelAssumption == MaxFetches \in Nat /\ MaxIssued \in Nat \ {0}

NoCookie == 0
Issued   == 1..MaxIssued
Fetches  == 1..MaxFetches
Unsent   == [by |-> "nobody", kind |-> "none", step |-> "unsent", with |-> NoCookie, got |-> NoCookie]
Over     == [Unsent EXCEPT !.step = "over"]
Kinds    == {"refresh", "switch", "logout", "password", "login"}
Steps    == {"read", "member", "revoke", "issue", "answer", "refusal"}

VARIABLES
  rows,    \* each RefreshToken row
  cookie,  \* the refresh token in the browser's cookie
  access,  \* each tab's access token; none: it is at /sign-in
  fetch,   \* each request
  excused  \* something has happened that may end the login

panelVars == <<rows, cookie, access, fetch, excused>>

PanelInit ==
  /\ rows = [n \in Issued |-> IF n = 1 THEN "valid" ELSE "none"]
  /\ cookie = 1
  /\ access = [p \in Pages |-> "good"]
  /\ fetch = [f \in Fetches |-> Unsent]
  /\ excused = FALSE

InFlight(f) == fetch[f].step \notin {"unsent", "over"}
Refreshing == {f \in Fetches : fetch[f].kind = "refresh" /\ InFlight(f)}

SetStep(f, s) == fetch' = [fetch EXCEPT ![f].step = s]

-----------------------------------------------------------------------------
(* The tab. *)

\* The browser adds the cookie it has.
SendFetch(f, p, kind, first) ==
  /\ fetch[f] = Unsent /\ \A x \in 1..f - 1 : fetch[x] # Unsent
  /\ fetch' = [fetch EXCEPT ![f] = [by |-> p, kind |-> kind, step |-> first, with |-> cookie, got |-> NoCookie]]

\* The 15 minutes of an access token are over, but for 30 seconds.
AccessExpires(p) ==
  /\ access[p] = "good"
  /\ access' = [access EXCEPT ![p] = "stale"]
  /\ UNCHANGED <<rows, cookie, fetch, excused>>

\* getToken() of a stale token: one refresh at a time per tab, whoever asks.
RefreshEachTime(p) ==
  /\ access[p] = "stale"
  /\ \E f \in Fetches : SendFetch(f, p, "refresh", "read")
  /\ excused' = (excused \/ \E x \in Refreshing : fetch[x].by # p)
  /\ UNCHANGED <<rows, cookie, access>>
Refresh(p) ==
  /\ access[p] = "stale"
  /\ \A x \in Refreshing : fetch[x].by # p
  /\ \E f \in Fetches : SendFetch(f, p, "refresh", "read")
  /\ excused' = (excused \/ Refreshing # {})
  /\ UNCHANGED <<rows, cookie, access>>

\* The other requests with the access token; a stale one is refused.
AskSwitch(p) ==
  /\ access[p] = "good"
  /\ \E f \in Fetches : SendFetch(f, p, "switch", "issue")
  /\ UNCHANGED <<rows, cookie, access, excused>>

ChangePassword(p) ==
  /\ access[p] = "good"
  /\ \E f \in Fetches : SendFetch(f, p, "password", "revoke")
  /\ excused' = TRUE
  /\ UNCHANGED <<rows, cookie, access>>

Logout(p) ==
  /\ access[p] # "none"
  /\ \E f \in Fetches : SendFetch(f, p, "logout", "revoke")
  /\ excused' = TRUE
  /\ UNCHANGED <<rows, cookie, access>>

Login(p) ==
  /\ access[p] = "none"
  /\ \E f \in Fetches : SendFetch(f, p, "login", "issue")
  /\ UNCHANGED <<rows, cookie, access, excused>>

-----------------------------------------------------------------------------
(* The server. *)

\* refreshTokens reads the token with its user and refuses one that is revoked;
\* a token of more than seven days or of a disabled account is refused as well.
ReadToken(f) ==
  /\ fetch[f].step = "read"
  /\ LET valid == fetch[f].with # NoCookie /\ rows[fetch[f].with] = "valid" IN
     \/ SetStep(f, IF valid THEN "member" ELSE "refusal") /\ UNCHANGED excused
     \/ valid /\ SetStep(f, "refusal") /\ excused' = TRUE
  /\ UNCHANGED <<rows, cookie, access>>

\* So is a user who is in no organization (any more).
FindMembership(f) ==
  /\ fetch[f].step = "member"
  /\ \/ SetStep(f, "revoke") /\ UNCHANGED excused
     \/ SetStep(f, "refusal") /\ excused' = TRUE
  /\ UNCHANGED <<rows, cookie, access>>

\* It revokes the token it has read, whatever has become of it; logout that of
\* the cookie, a new password all.
Revoke(f) ==
  /\ fetch[f].step = "revoke"
  /\ rows' = [n \in Issued |->
       IF rows[n] = "valid" /\ (n = fetch[f].with \/ fetch[f].kind = "password") THEN "revoked" ELSE rows[n]]
  /\ SetStep(f, IF fetch[f].kind = "refresh" THEN "issue" ELSE "answer")
  /\ UNCHANGED <<cookie, access, excused>>

\* generateTokens.
Issue(f) ==
  /\ fetch[f].step = "issue"
  /\ \E n \in Issued :
       /\ \A k \in Issued : rows[k] = "none" <=> k >= n
       /\ rows' = [rows EXCEPT ![n] = "valid"]
       /\ fetch' = [fetch EXCEPT ![f].step = "answer", ![f].got = n]
  /\ UNCHANGED <<cookie, access, excused>>

\* The answer sets or clears the cookie; then the tab goes on with it.
Answered(f) ==
  /\ fetch[f].step = "answer"
  /\ cookie' = fetch[f].got
  /\ access' = [access EXCEPT ![fetch[f].by] =
       CASE fetch[f].kind = "logout" -> "none" [] fetch[f].kind = "password" -> @ [] OTHER -> "good"]
  /\ fetch' = [fetch EXCEPT ![f] = Over]
  /\ UNCHANGED <<rows, excused>>

\* A refused refresh sends the tab to /sign-in.
Refused(f) ==
  /\ fetch[f].step = "refusal"
  /\ access' = [access EXCEPT ![fetch[f].by] = "none"]
  /\ fetch' = [fetch EXCEPT ![f] = Over]
  /\ UNCHANGED <<rows, cookie, excused>>

\* The connection is lost, or the server restarts: a refresh that fails in
\* whatever way ends the login of the tab, and a logout goes through.
Lost(f) ==
  /\ InFlight(f)
  /\ access' = IF fetch[f].kind \in {"refresh", "logout"} THEN [access EXCEPT ![fetch[f].by] = "none"] ELSE access
  /\ excused' = (excused \/ fetch[f].kind = "refresh")
  /\ fetch' = [fetch EXCEPT ![f] = Over]
  /\ UNCHANGED <<rows, cookie>>

PanelNext ==
  \/ \E p \in Pages : \/ AccessExpires(p) \/ Refresh(p) \/ AskSwitch(p)
                      \/ ChangePassword(p) \/ Logout(p) \/ Login(p)
  \/ \E f \in Fetches : \/ ReadToken(f) \/ FindMembership(f) \/ Revoke(f) \/ Issue(f)
                        \/ Answered(f) \/ Refused(f) \/ Lost(f)

PanelSpec == PanelInit /\ [][PanelNext]_panelVars

-----------------------------------------------------------------------------
\* Every variable of the login stays within its type.
PanelTypeOK ==
  /\ rows \in [Issued -> {"none", "valid", "revoked"}]
  /\ cookie \in Issued \cup {NoCookie}
  /\ access \in [Pages -> {"good", "stale", "none"}]
  /\ fetch \in [Fetches -> [by : Pages \cup {"nobody"}, kind : Kinds \cup {"none"},
                            step : Steps \cup {"unsent", "over"},
                            with : Issued \cup {NoCookie}, got : Issued \cup {NoCookie}]]
  /\ \A f \in Fetches : fetch[f] \in {Unsent, Over} <=> ~InFlight(f)
  /\ excused \in BOOLEAN

\* "Avoid multiple concurrent refresh calls": rotating the refresh token does
\* not sign anybody out.  A tab is sent to /sign-in only after a logout or a
\* change of the password, a refresh that was lost, refreshes of two tabs at
\* once, or a refresh refused for the age of the token, a disabled account or
\* the lack of a membership (users.service.ts:292-307), whatever switches of the
\* organization and refreshes overlap.
NotThrownOut == (\E p \in Pages : access[p] = "none") => excused
=============================================================================

----------------------------- MODULE PanelProofs -----------------------------
(***************************************************************************)
(* Proofs about what people at the panel rely on, for any number of tabs,  *)
(* clients, portals and tokens: the login a browser keeps (PanelLogin),    *)
(* the keys that outlive the deletion of a portal (Portals), the Claude    *)
(* login all containers start from (ClaudeSeed) and the output that        *)
(* citshe attach hears (SocketGateway).                                    *)
(***************************************************************************)
EXTENDS PanelLogin, Portals, ClaudeSeed, SocketGateway, TLAPS

(* The login.  Everything holds until something excuses a lost login. *)

FetchType == [by : Pages \cup {"nobody"}, kind : Kinds \cup {"none"},
              step : Steps \cup {"unsent", "over"},
              with : Issued \cup {NoCookie}, got : Issued \cup {NoCookie}]

OnItsWay(f) == fetch[f].step \in {"read", "member", "revoke", "issue", "answer"}

\* Only refreshes, one at a time, and switches are under way.
OneRefresh ==
  /\ \A f \in Fetches : InFlight(f) => OnItsWay(f) /\ fetch[f].kind \in {"refresh", "switch"}
  /\ \A f, g \in Refreshing : f = g
  /\ \A f \in Fetches : /\ fetch[f].step \in {"read", "member", "revoke"} => fetch[f].kind = "refresh"
                        /\ fetch[f].step # "answer" => fetch[f].got = NoCookie

\* A token that was issued is valid until it comes as a cookie, and nobody else
\* has the same one.
IssuedAreValid ==
  \A f \in Fetches : fetch[f].step = "answer" =>
    /\ fetch[f].got \in Issued /\ rows[fetch[f].got] = "valid" /\ fetch[f].got # cookie
    /\ \A g \in Fetches : InFlight(g) =>
         fetch[g].with # fetch[f].got /\ (g # f => fetch[g].got # fetch[f].got)

\* The cookie is valid, or was sent with a refresh whose answer replaces it.
CookieWorks ==
  /\ cookie \in Issued /\ rows[cookie] # "none"
  /\ \A f \in Fetches : InFlight(f) => fetch[f].with \in Issued /\ rows[fetch[f].with] # "none"
  /\ \A f \in Fetches : fetch[f].step = "read" => rows[fetch[f].with] = "valid"
  /\ \/ rows[cookie] = "valid"
     \/ \E f \in Refreshing : fetch[f].step \in {"issue", "answer"} /\ fetch[f].with = cookie

SignedIn == \A p \in Pages : access[p] # "none"

PanelInv ==
  PanelTypeOK /\ (~excused => OneRefresh /\ IssuedAreValid /\ CookieWorks /\ SignedIn)

-----------------------------------------------------------------------------
LEMMA PanelInitially == PanelInit => PanelInv
<1> SUFFICES ASSUME PanelInit PROVE PanelInv
  OBVIOUS
<1> USE PanelAssumption DEF PanelAssumption, PanelInit, Unsent, Issued
<1>2. \A f \in Fetches : ~InFlight(f) /\ fetch[f].step = "unsent" /\ fetch[f].got = NoCookie
  BY DEF InFlight
<1>1. PanelTypeOK
  <2>1. fetch \in [Fetches -> FetchType]
    BY DEF FetchType, NoCookie
  <2>2. rows \in [Issued -> {"none", "valid", "revoked"}] /\ cookie \in Issued
    OBVIOUS
  <2> QED
    BY <1>2, <2>1, <2>2 DEF PanelTypeOK, FetchType
<1>3. OneRefresh /\ IssuedAreValid
  BY <1>2 DEF OneRefresh, IssuedAreValid, Refreshing
<1>4. CookieWorks /\ SignedIn
  BY <1>2 DEF CookieWorks, SignedIn
<1> QED
  BY <1>1, <1>3, <1>4 DEF PanelInv

\* What a login is excused for stays excused.
LEMMA Excuses == ASSUME PanelInv, PanelNext, ~excused' PROVE ~excused
BY DEF PanelInv, PanelTypeOK, PanelNext, AccessExpires, Refresh, AskSwitch, ChangePassword,
       Logout, Login, ReadToken, FindMembership, Revoke, Issue, Answered, Refused, Lost

\* A request that is sent, and one that goes one step further.
LEMMA Sent ==
  ASSUME PanelTypeOK, NEW f \in Fetches, NEW p \in Pages, NEW k \in Kinds, NEW s \in Steps,
         SendFetch(f, p, k, s)
  PROVE  /\ fetch' \in [Fetches -> FetchType]
         /\ \A g \in Fetches : g # f => fetch'[g] = fetch[g]
         /\ fetch'[f].by = p /\ fetch'[f].kind = k /\ fetch'[f].step = s
         /\ fetch'[f].with = cookie /\ fetch'[f].got = NoCookie
         /\ ~InFlight(f)
         /\ \A g \in Fetches : fetch'[g] \in {Unsent, Over} <=> fetch'[g].step \in {"unsent", "over"}
<1> USE DEF PanelTypeOK, SendFetch, FetchType
<1>1. fetch' = [fetch EXCEPT ![f] = [by |-> p, kind |-> k, step |-> s, with |-> cookie, got |-> NoCookie]]
  OBVIOUS
<1>2. [by |-> p, kind |-> k, step |-> s, with |-> cookie, got |-> NoCookie] \in FetchType
  OBVIOUS
<1>3. s \notin {"unsent", "over"}
  BY DEF Steps
<1> QED
  BY <1>1, <1>2, <1>3 DEF InFlight, Unsent, Over

LEMMA Stepped ==
  ASSUME PanelTypeOK, NEW f \in Fetches, InFlight(f), NEW s \in Steps, SetStep(f, s)
  PROVE  /\ fetch' \in [Fetches -> FetchType]
         /\ \A g \in Fetches : g # f => fetch'[g] = fetch[g]
         /\ fetch'[f].kind = fetch[f].kind /\ fetch'[f].step = s
         /\ fetch'[f].with = fetch[f].with /\ fetch'[f].got = fetch[f].got
         /\ \A g \in Fetches : fetch'[g] \in {Unsent, Over} <=> fetch'[g].step \in {"unsent", "over"}
<1> USE DEF PanelTypeOK, SetStep, FetchType
<1>1. fetch' = [fetch EXCEPT ![f].step = s]
  OBVIOUS
<1>2. s \notin {"unsent", "over"}
  BY DEF Steps
<1> QED
  BY <1>1, <1>2 DEF InFlight, Unsent, Over

LEMMA Ended ==
  ASSUME PanelTypeOK, NEW f \in Fetches, fetch' = [fetch EXCEPT ![f] = Over]
  PROVE  /\ fetch' \in [Fetches -> FetchType]
         /\ \A g \in Fetches : g # f => fetch'[g] = fetch[g]
         /\ fetch'[f] = Over
         /\ \A g \in Fetches : fetch'[g] \in {Unsent, Over} <=> fetch'[g].step \in {"unsent", "over"}
BY DEF PanelTypeOK, FetchType, InFlight, Unsent, Over, Steps, NoCookie

\* A request is sent that needs no excuse: a refresh when there is none, or a
\* switch.
LEMMA SentKeeps ==
  ASSUME PanelInv, ~excused, NEW f \in Fetches, NEW p \in Pages,
         \/ SendFetch(f, p, "refresh", "read") /\ Refreshing = {}
         \/ SendFetch(f, p, "switch", "issue"),
         UNCHANGED <<rows, cookie, access>>
  PROVE  OneRefresh' /\ IssuedAreValid' /\ CookieWorks' /\ SignedIn'
<1>t. PanelTypeOK /\ OneRefresh /\ IssuedAreValid /\ CookieWorks /\ SignedIn
  BY DEF PanelInv
<1>1. PICK k \in {"refresh", "switch"}, s \in {"read", "issue"} :
        /\ SendFetch(f, p, k, s)
        /\ k = "refresh" => s = "read" /\ Refreshing = {}
        /\ k = "switch" => s = "issue"
  OBVIOUS
<1>2. k \in Kinds /\ s \in Steps
  BY <1>1 DEF Kinds, Steps
<1>3. /\ \A g \in Fetches : g # f => fetch'[g] = fetch[g]
      /\ fetch'[f].kind = k /\ fetch'[f].step = s
      /\ fetch'[f].with = cookie /\ fetch'[f].got = NoCookie /\ ~InFlight(f)
  BY <1>t, <1>1, <1>2, Sent
<1>4. \A g \in Fetches : g # f => (InFlight(g)' <=> InFlight(g))
  BY <1>3 DEF InFlight
<1>5. OneRefresh'
  BY <1>t, <1>1, <1>3, <1>4 DEF OneRefresh, OnItsWay, InFlight, Refreshing
<1>6. IssuedAreValid'
  BY <1>t, <1>1, <1>3, <1>4, PanelAssumption DEF IssuedAreValid, NoCookie, Issued, PanelAssumption
<1>7. k = "refresh" => rows[cookie] = "valid"
  BY <1>t, <1>1 DEF CookieWorks
<1>8. CookieWorks'
  <2>1. \A g \in Fetches : InFlight(g)' => fetch'[g].with \in Issued /\ rows'[fetch'[g].with] # "none"
    BY <1>t, <1>3, <1>4 DEF CookieWorks
  <2>2. \A g \in Fetches : fetch'[g].step = "read" => rows'[fetch'[g].with] = "valid"
    BY <1>t, <1>1, <1>3, <1>7 DEF CookieWorks
  <2>3. \A g \in Refreshing : g # f /\ g \in Refreshing' /\ fetch'[g] = fetch[g]
    BY <1>3, <1>4 DEF Refreshing, InFlight
  <2>4. rows'[cookie'] = "valid" \/ \E g \in Refreshing' : fetch'[g].step \in {"issue", "answer"} /\ fetch'[g].with = cookie'
    BY <1>t, <2>3 DEF CookieWorks
  <2> QED
    BY <1>t, <2>1, <2>2, <2>4 DEF CookieWorks
<1> QED
  BY <1>t, <1>5, <1>6, <1>8 DEF SignedIn

\* A request that is over without having changed a row.
LEMMA OverKeeps ==
  ASSUME PanelInv, ~excused, NEW f \in Fetches, InFlight(f), fetch[f].kind = "switch",
         fetch' = [fetch EXCEPT ![f] = Over], UNCHANGED <<rows, cookie, access>>
  PROVE  OneRefresh' /\ IssuedAreValid' /\ CookieWorks' /\ SignedIn'
<1>t. PanelTypeOK /\ OneRefresh /\ IssuedAreValid /\ CookieWorks /\ SignedIn
  BY DEF PanelInv
<1>1. (\A g \in Fetches : g # f => fetch'[g] = fetch[g]) /\ fetch'[f] = Over
  BY <1>t, Ended
<1>2. /\ fetch'[f].step = "over" /\ fetch'[f].got = NoCookie /\ ~InFlight(f)'
      /\ \A g \in Fetches : g # f => (InFlight(g)' <=> InFlight(g))
  BY <1>1 DEF InFlight, Over, Unsent
<1>3. Refreshing' = Refreshing /\ f \notin Refreshing
  BY <1>1, <1>2 DEF Refreshing
<1>4. OneRefresh'
  BY <1>t, <1>1, <1>2, <1>3 DEF OneRefresh, OnItsWay
<1>5. IssuedAreValid'
  BY <1>t, <1>1, <1>2 DEF IssuedAreValid
<1>6. CookieWorks'
  BY <1>t, <1>1, <1>2, <1>3 DEF CookieWorks
<1> QED
  BY <1>t, <1>4, <1>5, <1>6 DEF SignedIn

LEMMA ReadKeeps ==
  ASSUME PanelInv, ~excused', NEW f \in Fetches, ReadToken(f) \/ FindMembership(f)
  PROVE  OneRefresh' /\ IssuedAreValid' /\ CookieWorks' /\ SignedIn'
<1>0. ~excused
  BY DEF ReadToken, FindMembership
<1>t. PanelTypeOK /\ OneRefresh /\ IssuedAreValid /\ CookieWorks /\ SignedIn
  BY <1>0 DEF PanelInv
<1>1. InFlight(f) /\ fetch[f].step \in {"read", "member"} /\ UNCHANGED <<rows, cookie, access>>
  BY DEF ReadToken, FindMembership, InFlight
<1>2. PICK s \in {"member", "revoke"} : SetStep(f, s)
  <2>1. fetch[f].step = "read" => fetch[f].with # NoCookie /\ rows[fetch[f].with] = "valid"
    BY <1>t, <1>1 DEF CookieWorks, NoCookie, Issued
  <2> QED
    BY <1>0, <1>1, <2>1 DEF ReadToken, FindMembership
<1>3. /\ \A g \in Fetches : g # f => fetch'[g] = fetch[g]
      /\ fetch'[f].kind = fetch[f].kind /\ fetch'[f].step = s
      /\ fetch'[f].with = fetch[f].with /\ fetch'[f].got = fetch[f].got
  <2>1. s \in Steps
    BY DEF Steps
  <2> QED
    BY <1>t, <1>1, <1>2, <2>1, Stepped
<1>4. \A g \in Fetches : InFlight(g)' <=> InFlight(g)
  BY <1>1, <1>3 DEF InFlight
<1>5. Refreshing' = Refreshing
  BY <1>3, <1>4 DEF Refreshing
<1>6. OneRefresh'
  BY <1>t, <1>1, <1>3, <1>4, <1>5 DEF OneRefresh, OnItsWay
<1>7. IssuedAreValid'
  BY <1>t, <1>1, <1>3, <1>4 DEF IssuedAreValid
<1>8. CookieWorks'
  <2>1. \A g \in Fetches : /\ fetch'[g].with = fetch[g].with
                           /\ fetch'[g].step = "read" => fetch[g].step = "read"
                           /\ fetch[g].step \in {"issue", "answer"} => fetch'[g].step = fetch[g].step
    BY <1>1, <1>3
  <2>2. \A g \in Fetches : /\ InFlight(g)' => fetch'[g].with \in Issued /\ rows'[fetch'[g].with] # "none"
                           /\ fetch'[g].step = "read" => rows'[fetch'[g].with] = "valid"
    BY <1>t, <1>1, <1>4, <2>1 DEF CookieWorks
  <2>3. \/ rows'[cookie'] = "valid"
        \/ \E g \in Refreshing' : fetch'[g].step \in {"issue", "answer"} /\ fetch'[g].with = cookie'
    <3>1. \A g \in Refreshing : /\ fetch'[g].with = fetch[g].with
                                /\ fetch[g].step \in {"issue", "answer"} => fetch'[g].step = fetch[g].step
      BY <2>1 DEF Refreshing
    <3> QED
      BY <1>t, <1>1, <1>5, <3>1 DEF CookieWorks
  <2> QED
    BY <1>t, <1>1, <2>2, <2>3 DEF CookieWorks
<1> QED
  BY <1>t, <1>1, <1>6, <1>7, <1>8 DEF SignedIn

LEMMA RevokeKeeps ==
  ASSUME PanelInv, ~excused, NEW f \in Fetches, Revoke(f)
  PROVE  OneRefresh' /\ IssuedAreValid' /\ CookieWorks' /\ SignedIn'
<1>t. PanelTypeOK /\ OneRefresh /\ IssuedAreValid /\ CookieWorks /\ SignedIn
  BY DEF PanelInv
<1>1. /\ InFlight(f) /\ fetch[f].step = "revoke" /\ fetch[f].kind = "refresh"
      /\ UNCHANGED <<cookie, access>>
  BY <1>t DEF Revoke, InFlight, OneRefresh
<1>2. SetStep(f, "issue")
  BY <1>1 DEF Revoke
<1>3. /\ \A g \in Fetches : g # f => fetch'[g] = fetch[g]
      /\ fetch'[f].kind = fetch[f].kind /\ fetch'[f].step = "issue"
      /\ fetch'[f].with = fetch[f].with /\ fetch'[f].got = fetch[f].got
  BY <1>t, <1>1, <1>2, Stepped DEF Steps
<1>4. \A g \in Fetches : InFlight(g)' <=> InFlight(g)
  BY <1>1, <1>3 DEF InFlight
<1>5. Refreshing' = Refreshing /\ f \in Refreshing
  BY <1>1, <1>3, <1>4 DEF Refreshing
<1>6. /\ \A n \in Issued : n # fetch[f].with => rows'[n] = rows[n]
      /\ \A n \in Issued : rows[n] # "none" => rows'[n] # "none"
  BY <1>t, <1>1 DEF Revoke, PanelTypeOK
<1>7. OneRefresh'
  BY <1>t, <1>1, <1>3, <1>4, <1>5 DEF OneRefresh, OnItsWay
<1>8. IssuedAreValid'
  BY <1>t, <1>1, <1>3, <1>4, <1>6 DEF IssuedAreValid
<1>9. CookieWorks'
  <2>1. \A g \in Fetches : fetch'[g].step = "read" => g \in Refreshing /\ g # f
    BY <1>t, <1>3 DEF OneRefresh, Refreshing, InFlight
  <2>2. \A g \in Fetches : fetch'[g].step # "read"
    BY <1>t, <1>5, <2>1 DEF OneRefresh
  <2>3. rows'[cookie'] = "valid" \/ fetch[f].with = cookie
    <3>1. rows[cookie] = "valid" \/ \E g \in Refreshing : fetch[g].step # "revoke"
      BY <1>t DEF CookieWorks
    <3>2. rows[cookie] = "valid"
      BY <1>t, <1>1, <1>5, <3>1 DEF OneRefresh
    <3> QED
      BY <1>t, <1>1, <1>6, <3>2 DEF CookieWorks
  <2> QED
    BY <1>t, <1>1, <1>3, <1>4, <1>5, <1>6, <2>2, <2>3 DEF CookieWorks
<1> QED
  BY <1>t, <1>1, <1>7, <1>8, <1>9 DEF SignedIn

LEMMA IssueKeeps ==
  ASSUME PanelInv, ~excused, NEW f \in Fetches, Issue(f)
  PROVE  /\ PanelTypeOK'
         /\ OneRefresh' /\ IssuedAreValid' /\ CookieWorks' /\ SignedIn'
<1>t. PanelTypeOK /\ OneRefresh /\ IssuedAreValid /\ CookieWorks /\ SignedIn
  BY DEF PanelInv
<1>1. InFlight(f) /\ fetch[f].step = "issue" /\ UNCHANGED <<cookie, access, excused>>
  BY DEF Issue, InFlight
<1>2. PICK n \in Issued :
        /\ rows[n] = "none" /\ rows' = [rows EXCEPT ![n] = "valid"]
        /\ fetch' = [fetch EXCEPT ![f].step = "answer", ![f].got = n]
  <2>1. PICK n \in Issued :
          /\ \A k \in Issued : rows[k] = "none" <=> k >= n
          /\ rows' = [rows EXCEPT ![n] = "valid"]
          /\ fetch' = [fetch EXCEPT ![f].step = "answer", ![f].got = n]
    BY DEF Issue
  <2>2. rows[n] = "none"
    BY <2>1, PanelAssumption DEF Issued, PanelAssumption
  <2> QED
    BY <2>1, <2>2
<1>3. /\ \A g \in Fetches : g # f => fetch'[g] = fetch[g]
      /\ fetch'[f].kind = fetch[f].kind /\ fetch'[f].step = "answer"
      /\ fetch'[f].with = fetch[f].with /\ fetch'[f].got = n
      /\ fetch' \in [Fetches -> FetchType]
  <2>1. fetch \in [Fetches -> FetchType] /\ "answer" \in Steps
    BY <1>t DEF PanelTypeOK, FetchType, Steps
  <2>2. [fetch[f] EXCEPT !.step = "answer", !.got = n] \in FetchType
    BY <2>1 DEF FetchType
  <2>3. fetch' = [fetch EXCEPT ![f] = [fetch[f] EXCEPT !.step = "answer", !.got = n]]
    BY <1>2, <2>1
  <2> QED
    BY <2>1, <2>2, <2>3 DEF FetchType
<1>4. \A g \in Fetches : InFlight(g)' <=> InFlight(g)
  BY <1>1, <1>3 DEF InFlight
<1>5. Refreshing' = Refreshing
  BY <1>3, <1>4 DEF Refreshing
<1>6. rows'[n] = "valid" /\ \A m \in Issued : m # n => rows'[m] = rows[m]
  BY <1>t, <1>2 DEF PanelTypeOK
<1>7. OneRefresh'
  BY <1>t, <1>1, <1>3, <1>4, <1>5 DEF OneRefresh, OnItsWay
<1>8. IssuedAreValid'
  <2>1. cookie # n /\ \A g \in Fetches : InFlight(g) => fetch[g].with # n
    BY <1>t, <1>2 DEF CookieWorks
  <2>2. \A g \in Fetches : fetch[g].got # n
    BY <1>t, <1>2, PanelAssumption DEF OneRefresh, IssuedAreValid, NoCookie, Issued, PanelAssumption
  <2> QED
    BY <1>t, <1>1, <1>3, <1>4, <1>6, <2>1, <2>2 DEF IssuedAreValid
<1>9. CookieWorks'
  <2>1. cookie' \in Issued /\ rows'[cookie'] # "none"
    BY <1>t, <1>1, <1>6 DEF CookieWorks
  <2>2. \A g \in Fetches : InFlight(g)' => fetch'[g].with \in Issued /\ rows'[fetch'[g].with] # "none"
    BY <1>t, <1>3, <1>4, <1>6 DEF CookieWorks
  <2>3. \A g \in Fetches : fetch'[g].step = "read" => rows'[fetch'[g].with] = "valid"
    <3> SUFFICES ASSUME NEW g \in Fetches, fetch'[g].step = "read"
                 PROVE  rows'[fetch'[g].with] = "valid"
      OBVIOUS
    <3>1. g # f /\ fetch'[g] = fetch[g] /\ InFlight(g)
      BY <1>3 DEF InFlight
    <3>2. fetch[g].with \in Issued /\ rows[fetch[g].with] = "valid"
      BY <1>t, <3>1 DEF CookieWorks
    <3> QED
      BY <1>2, <1>6, <3>1, <3>2
  <2>4. \/ rows'[cookie'] = "valid"
        \/ \E g \in Refreshing' : fetch'[g].step \in {"issue", "answer"} /\ fetch'[g].with = cookie'
    <3>1. CASE rows[cookie] = "valid"
      BY <1>t, <1>1, <1>6, <3>1 DEF CookieWorks
    <3>2. ASSUME NEW g \in Refreshing, fetch[g].step \in {"issue", "answer"}, fetch[g].with = cookie
          PROVE  fetch'[g].step \in {"issue", "answer"} /\ fetch'[g].with = cookie'
      BY <1>1, <1>3, <3>2 DEF Refreshing
    <3> QED
      BY <1>t, <1>5, <3>1, <3>2 DEF CookieWorks
  <2> QED
    BY <2>1, <2>2, <2>3, <2>4 DEF CookieWorks
<1>10. PanelTypeOK'
  <2>1. \A g \in Fetches : fetch'[g] \in {Unsent, Over} <=> ~InFlight(g)'
    BY <1>t, <1>1, <1>3, <1>4 DEF PanelTypeOK, InFlight, Unsent, Over
  <2>2. rows' \in [Issued -> {"none", "valid", "revoked"}]
    BY <1>t, <1>2 DEF PanelTypeOK
  <2> QED
    BY <1>t, <1>1, <1>3, <2>1, <2>2 DEF PanelTypeOK, FetchType
<1> QED
  BY <1>t, <1>1, <1>7, <1>8, <1>9, <1>10 DEF SignedIn

LEMMA AnswerKeeps ==
  ASSUME PanelInv, ~excused, NEW f \in Fetches, Answered(f)
  PROVE  OneRefresh' /\ IssuedAreValid' /\ CookieWorks' /\ SignedIn'
<1>t. PanelTypeOK /\ OneRefresh /\ IssuedAreValid /\ CookieWorks /\ SignedIn
  BY DEF PanelInv
<1>1. /\ InFlight(f) /\ fetch[f].step = "answer" /\ cookie' = fetch[f].got /\ rows' = rows
      /\ fetch' = [fetch EXCEPT ![f] = Over]
  BY DEF Answered, InFlight
<1>2. (\A g \in Fetches : g # f => fetch'[g] = fetch[g]) /\ fetch'[f] = Over
  BY <1>t, <1>1, Ended
<1>3. /\ fetch'[f].step = "over" /\ fetch'[f].got = NoCookie /\ ~InFlight(f)'
      /\ \A g \in Fetches : g # f => (InFlight(g)' <=> InFlight(g))
  BY <1>2 DEF InFlight, Over, Unsent
<1>4. Refreshing' = Refreshing \ {f}
  BY <1>2, <1>3 DEF Refreshing
<1>5. OneRefresh'
  BY <1>t, <1>2, <1>3, <1>4 DEF OneRefresh, OnItsWay
<1>6. IssuedAreValid'
  BY <1>t, <1>1, <1>2, <1>3 DEF IssuedAreValid, InFlight
<1>7. CookieWorks'
  BY <1>t, <1>1, <1>2, <1>3 DEF CookieWorks, IssuedAreValid
<1>8. SignedIn'
  BY <1>t, <1>1 DEF SignedIn, Answered, OneRefresh, PanelTypeOK
<1> QED
  BY <1>5, <1>6, <1>7, <1>8

LEMMA PanelTyped == PanelInv /\ PanelNext => PanelTypeOK'
<1> SUFFICES ASSUME PanelInv, PanelNext PROVE PanelTypeOK'
  OBVIOUS
<1>t. PanelTypeOK
  BY DEF PanelInv
<1>q. ASSUME fetch' \in [Fetches -> FetchType],
             \A g \in Fetches : fetch'[g] \in {Unsent, Over} <=> fetch'[g].step \in {"unsent", "over"},
             rows' \in [Issued -> {"none", "valid", "revoked"}], cookie' \in Issued \cup {NoCookie},
             access' \in [Pages -> {"good", "stale", "none"}], excused' \in BOOLEAN
      PROVE  PanelTypeOK'
  BY <1>q DEF PanelTypeOK, FetchType, InFlight
<1>1. ASSUME NEW p \in Pages, AccessExpires(p) PROVE PanelTypeOK'
  BY <1>t, <1>1 DEF AccessExpires, PanelTypeOK, InFlight
<1>2. ASSUME NEW p \in Pages, NEW f \in Fetches, NEW k \in Kinds, NEW s \in Steps, SendFetch(f, p, k, s),
             UNCHANGED <<rows, cookie, access>>, excused' \in BOOLEAN
      PROVE  PanelTypeOK'
  BY <1>t, <1>2, <1>q, Sent DEF PanelTypeOK
<1>3. ASSUME NEW f \in Fetches, NEW s \in Steps, InFlight(f), SetStep(f, s),
             rows' \in [Issued -> {"none", "valid", "revoked"}], UNCHANGED <<cookie, access>>,
             excused' \in BOOLEAN
      PROVE  PanelTypeOK'
  BY <1>t, <1>3, <1>q, Stepped DEF PanelTypeOK
<1>4. ASSUME NEW f \in Fetches, fetch' = [fetch EXCEPT ![f] = Over], UNCHANGED rows,
             cookie' \in Issued \cup {NoCookie}, access' \in [Pages -> {"good", "stale", "none"}],
             excused' \in BOOLEAN
      PROVE  PanelTypeOK'
  BY <1>t, <1>4, <1>q, Ended DEF PanelTypeOK
<1>5. ASSUME NEW p \in Pages, Refresh(p) \/ AskSwitch(p) \/ ChangePassword(p) \/ Logout(p) \/ Login(p)
      PROVE  PanelTypeOK'
  <2>1. PICK f \in Fetches, k \in Kinds, s \in Steps : SendFetch(f, p, k, s)
    BY <1>5 DEF Refresh, AskSwitch, ChangePassword, Logout, Login, Kinds, Steps
  <2>2. UNCHANGED <<rows, cookie, access>> /\ excused' \in BOOLEAN
    BY <1>t, <1>5 DEF Refresh, AskSwitch, ChangePassword, Logout, Login, PanelTypeOK
  <2> QED
    BY <1>2, <2>1, <2>2
<1>6. ASSUME NEW f \in Fetches, ReadToken(f) \/ FindMembership(f) \/ Revoke(f) PROVE PanelTypeOK'
  <2>1. InFlight(f) /\ \E s \in Steps : SetStep(f, s)
    BY <1>6 DEF ReadToken, FindMembership, Revoke, InFlight, Steps
  <2>2. /\ rows' \in [Issued -> {"none", "valid", "revoked"}]
        /\ UNCHANGED <<cookie, access>> /\ excused' \in BOOLEAN
    BY <1>t, <1>6 DEF ReadToken, FindMembership, Revoke, PanelTypeOK
  <2> QED
    BY <1>3, <2>1, <2>2
<1>7. ASSUME NEW f \in Fetches, Issue(f) PROVE PanelTypeOK'
  <2>1. PICK n \in Issued : /\ rows' = [rows EXCEPT ![n] = "valid"]
                            /\ fetch' = [fetch EXCEPT ![f].step = "answer", ![f].got = n]
    BY <1>7 DEF Issue
  <2>2. fetch \in [Fetches -> FetchType] /\ "answer" \in Steps
    BY <1>t DEF PanelTypeOK, FetchType, Steps
  <2>3. [fetch[f] EXCEPT !.step = "answer", !.got = n] \in FetchType
    BY <2>2 DEF FetchType
  <2>4. fetch' = [fetch EXCEPT ![f] = [fetch[f] EXCEPT !.step = "answer", !.got = n]]
    BY <2>1, <2>2
  <2>5. \A g \in Fetches : fetch'[g] \in {Unsent, Over} <=> fetch'[g].step \in {"unsent", "over"}
    <3>1. /\ \A g \in Fetches : g # f => fetch'[g] = fetch[g]
          /\ fetch'[f].step = "answer"
      BY <2>2, <2>3, <2>4 DEF FetchType
    <3>2. \A g \in Fetches : g # f => (fetch'[g] \in {Unsent, Over} <=> fetch'[g].step \in {"unsent", "over"})
      BY <1>t, <3>1 DEF PanelTypeOK, InFlight
    <3>3. fetch'[f] \notin {Unsent, Over}
      BY <3>1 DEF Unsent, Over
    <3> QED
      BY <3>1, <3>2, <3>3
  <2>6. rows' \in [Issued -> {"none", "valid", "revoked"}] /\ UNCHANGED <<cookie, access, excused>>
    BY <1>t, <1>7, <2>1 DEF Issue, PanelTypeOK
  <2> QED
    BY <1>t, <1>q, <2>2, <2>3, <2>4, <2>5, <2>6 DEF PanelTypeOK
<1>8. ASSUME NEW f \in Fetches, Answered(f) \/ Refused(f) \/ Lost(f) PROVE PanelTypeOK'
  <2>1. fetch' = [fetch EXCEPT ![f] = Over] /\ UNCHANGED rows
    BY <1>8 DEF Answered, Refused, Lost
  <2>2. fetch[f].got \in Issued \cup {NoCookie}
    BY <1>t DEF PanelTypeOK
  <2>3. cookie' \in Issued \cup {NoCookie} /\ excused' \in BOOLEAN
    BY <1>t, <1>8, <2>2 DEF Answered, Refused, Lost, PanelTypeOK
  <2>4. access' \in [Pages -> {"good", "stale", "none"}]
    BY <1>t, <1>8 DEF Answered, Refused, Lost, PanelTypeOK
  <2> QED
    BY <1>4, <2>1, <2>3, <2>4
<1> QED
  BY <1>1, <1>5, <1>6, <1>7, <1>8 DEF PanelNext

LEMMA PanelPreserved == PanelInv /\ [PanelNext]_panelVars => PanelInv'
<1> SUFFICES ASSUME PanelInv, [PanelNext]_panelVars PROVE PanelInv'
  OBVIOUS
<1>1. CASE UNCHANGED panelVars
  BY <1>1 DEF panelVars, PanelInv, PanelTypeOK, OneRefresh, IssuedAreValid, CookieWorks, SignedIn,
              InFlight, OnItsWay, Refreshing
<1>2. CASE PanelNext
  <2> SUFFICES ASSUME ~excused' PROVE OneRefresh' /\ IssuedAreValid' /\ CookieWorks' /\ SignedIn'
    BY <1>2, PanelTyped DEF PanelInv
  <2>t. ~excused /\ PanelTypeOK /\ OneRefresh /\ CookieWorks /\ SignedIn
    BY <1>2, Excuses DEF PanelInv
  <2>1. ASSUME NEW p \in Pages, AccessExpires(p)
        PROVE  OneRefresh' /\ IssuedAreValid' /\ CookieWorks' /\ SignedIn'
    <3>1. SignedIn'
      BY <2>t, <2>1 DEF AccessExpires, SignedIn, PanelTypeOK
    <3> QED
      BY <2>t, <2>1, <3>1 DEF AccessExpires, PanelInv, OneRefresh, IssuedAreValid, CookieWorks,
                              InFlight, OnItsWay, Refreshing
  <2>2. ASSUME NEW p \in Pages, Refresh(p)
        PROVE  OneRefresh' /\ IssuedAreValid' /\ CookieWorks' /\ SignedIn'
    <3>1. Refreshing = {} /\ UNCHANGED <<rows, cookie, access>>
      BY <2>2 DEF Refresh
    <3> QED
      BY <2>t, <2>2, <3>1, SentKeeps DEF Refresh
  <2>3. ASSUME NEW p \in Pages, AskSwitch(p)
        PROVE  OneRefresh' /\ IssuedAreValid' /\ CookieWorks' /\ SignedIn'
    BY <2>t, <2>3, SentKeeps DEF AskSwitch
  <2>4. ASSUME NEW p \in Pages PROVE ~ChangePassword(p) /\ ~Logout(p) /\ ~Login(p)
    BY <2>t, <2>4 DEF ChangePassword, Logout, Login, SignedIn
  <2>5. ASSUME NEW f \in Fetches, ReadToken(f) \/ FindMembership(f) \/ Revoke(f) \/ Issue(f) \/ Answered(f)
        PROVE  OneRefresh' /\ IssuedAreValid' /\ CookieWorks' /\ SignedIn'
    BY <2>t, <2>5, ReadKeeps, RevokeKeeps, IssueKeeps, AnswerKeeps
  <2>6. ASSUME NEW f \in Fetches PROVE ~Refused(f)
    BY <2>t DEF Refused, OneRefresh, OnItsWay, InFlight
  <2>7. ASSUME NEW f \in Fetches, Lost(f)
        PROVE  OneRefresh' /\ IssuedAreValid' /\ CookieWorks' /\ SignedIn'
    <3>1. InFlight(f) /\ fetch[f].kind = "switch"
      BY <2>t, <2>7 DEF Lost, OneRefresh
    <3> QED
      BY <2>t, <2>7, <3>1, OverKeeps DEF Lost
  <2> QED
    BY <1>2, <2>1, <2>2, <2>3, <2>4, <2>5, <2>6, <2>7 DEF PanelNext
<1> QED
  BY <1>1, <1>2

\* The rotation of the refresh token signs nobody out without one of the causes
\* NotThrownOut lists, for
\* any number of tabs and requests.
THEOREM LoginsLast == PanelSpec => []NotThrownOut
<1>1. PanelInv => NotThrownOut
  BY DEF PanelInv, PanelTypeOK, SignedIn, NotThrownOut
<1> QED
  BY <1>1, PanelInitially, PanelPreserved, PTL DEF PanelSpec
-----------------------------------------------------------------------------
(* The keys of the portals. *)

\* While no deletion meets another one or a new key: one deletion is under way,
\* the survivor it has picked stays, it has still to move every key of its
\* portal, and it drops a portal without keys, or the last portal.
KeysInHand ==
  /\ \A a, b \in UnderWay : a = b
  /\ \A o \in Portals : deleting[o] = "move" => heir[o] \in exists \ {o}
  /\ \A o \in Portals : deleting[o] \in {"pick", "move"} =>
       \A p \in Providers : <<o, p>> \in keyRows => p \in todo[o]
  /\ \A o \in Portals : deleting[o] = "drop" =>
       exists \subseteq {o} \/ \A p \in Providers : <<o, p>> \notin keyRows

PortalInv == PortalTypeOK /\ (~crossed => KeysInHand /\ KeysLiveOn)

LEMMA PortalsStart == PortalInit => PortalInv
  BY DEF PortalInit, PortalInv, PortalTypeOK, KeysInHand, KeysLiveOn, UnderWay, DeletionSteps

LEMMA PortalsTyped == PortalTypeOK /\ [PortalNext]_portalVars => PortalTypeOK'
<1> SUFFICES ASSUME PortalTypeOK, [PortalNext]_portalVars PROVE PortalTypeOK'
  OBVIOUS
<1> USE DEF PortalTypeOK, DeletionSteps, DeletionAt
<1>1. CASE UNCHANGED portalVars
  BY <1>1 DEF portalVars
<1>2. ASSUME NEW o \in Portals, AskDeletion(o) \/ CountWorkers(o) \/ DeletionCut(o) PROVE PortalTypeOK'
  BY <1>2 DEF AskDeletion, CountWorkers, DeletionCut, UnderWay
<1>3. ASSUME NEW o \in Portals, ListKeys(o) PROVE PortalTypeOK'
  <2>1. {p \in Providers : <<o, p>> \in keyRows} \subseteq Providers
    OBVIOUS
  <2> QED
    BY <1>3, <2>1 DEF ListKeys
<1>4. ASSUME NEW o \in Portals, PickSurvivor(o) PROVE PortalTypeOK'
  BY <1>4 DEF PickSurvivor
<1>5. ASSUME NEW o \in Portals, StartBuild(o) \/ BuildEnds(o) PROVE PortalTypeOK'
  BY <1>5 DEF StartBuild, BuildEnds
<1>6. ASSUME NEW o \in Portals, DropPortal(o) PROVE PortalTypeOK'
  BY <1>6 DEF DropPortal
<1>7. ASSUME NEW o \in Portals, NEW p \in Providers, AddKey(o, p) PROVE PortalTypeOK'
  BY <1>7 DEF AddKey
<1>8. ASSUME NEW o \in Portals, NEW p \in Providers, MoveKey(o, p) PROVE PortalTypeOK'
  <2>1. /\ UNCHANGED <<exists, built, busy, heir, had>> /\ deleting' \in [Portals -> DeletionSteps]
        /\ todo' = [todo EXCEPT ![o] = todo[o] \ {p}] /\ crossed' \in BOOLEAN
    BY <1>8 DEF MoveKey
  <2>2. keyRows' \subseteq exists \X Providers
    BY <1>8 DEF MoveKey
  <2> QED
    BY <2>1, <2>2
<1> QED
  BY <1>1, <1>2, <1>3, <1>4, <1>5, <1>6, <1>7, <1>8 DEF PortalNext

\* A deletion that takes a step keeps its hand on the keys.
LEMMA DeletionKeeps ==
  ASSUME PortalTypeOK, PortalTypeOK', ~crossed', ~crossed, KeysInHand, KeysLiveOn,
         NEW o \in Portals,
         \/ CountWorkers(o) \/ ListKeys(o) \/ PickSurvivor(o) \/ DropPortal(o)
         \/ \E p \in Providers : MoveKey(o, p)
  PROVE  KeysInHand' /\ KeysLiveOn'
<1> USE DEF PortalTypeOK, DeletionSteps, DeletionAt, KeysInHand, UnderWay
<1>0. ASSUME UNCHANGED <<exists, keyRows, had>> PROVE KeysLiveOn'
  BY <1>0 DEF KeysLiveOn
<1>1. CASE CountWorkers(o)
  <2>1. \A x \in Portals : x # o => deleting'[x] = deleting[x]
    BY <1>1 DEF CountWorkers
  <2>2. deleting'[o] \in {"refused", "list"} /\ UNCHANGED <<exists, keyRows, had, todo, heir>>
    BY <1>1 DEF CountWorkers
  <2>3. deleting'[o] = "list" => UnderWay = {}
    BY <1>1, <2>2 DEF CountWorkers
  <2> QED
    BY <1>0, <2>1, <2>2, <2>3
<1>2. CASE ListKeys(o)
  <2>1. \A x \in Portals : x # o => deleting'[x] = deleting[x] /\ todo'[x] = todo[x]
    BY <1>2 DEF ListKeys
  <2>2. /\ deleting[o] = "list" /\ deleting'[o] \in {"pick", "drop"}
        /\ UNCHANGED <<exists, keyRows, had, heir>>
    BY <1>2 DEF ListKeys
  <2>3. todo'[o] = {p \in Providers : <<o, p>> \in keyRows} /\ (deleting'[o] = "drop" => todo'[o] = {})
    BY <1>2 DEF ListKeys
  <2>4. UnderWay' = UnderWay
    BY <2>1, <2>2
  <2> QED
    BY <1>0, <2>1, <2>2, <2>3, <2>4
<1>3. CASE PickSurvivor(o)
  <2>1. \A x \in Portals : x # o => deleting'[x] = deleting[x] /\ heir'[x] = heir[x]
    BY <1>3 DEF PickSurvivor
  <2>2. /\ deleting[o] = "pick" /\ UNCHANGED <<exists, keyRows, had, todo>>
        /\ \/ deleting'[o] = "move" /\ heir'[o] \in exists \ {o}
           \/ deleting'[o] = "drop" /\ exists \subseteq {o}
    BY <1>3 DEF PickSurvivor
  <2>3. UnderWay' = UnderWay
    BY <2>1, <2>2
  <2> QED
    BY <1>0, <2>1, <2>2, <2>3
<1>4. CASE DropPortal(o)
  <2>1. KeysInHand'
    BY <1>4 DEF DropPortal
  <2>2. exists' # {} => \A p \in Providers : <<o, p>> \notin keyRows
    BY <1>4 DEF DropPortal
  <2>3. KeysLiveOn'
    BY <1>4, <2>2 DEF DropPortal, KeysLiveOn
  <2> QED
    BY <2>1, <2>3
<1>5. ASSUME NEW p \in Providers, MoveKey(o, p) PROVE KeysInHand' /\ KeysLiveOn'
  <2>1. heir[o] \in exists \ {o} /\ exists' = exists /\ had' = had
    BY <1>5 DEF MoveKey
  <2>2. \A x \in Portals : x # o => deleting'[x] = deleting[x] /\ x \notin UnderWay'
    BY <1>5 DEF MoveKey
  <2>3. KeysInHand'
    BY <1>5, <2>1, <2>2 DEF MoveKey
  <2>4. KeysLiveOn'
    BY <1>5, <2>1 DEF MoveKey, KeysLiveOn
  <2> QED
    BY <2>3, <2>4
<1> QED
  BY <1>1, <1>2, <1>3, <1>4, <1>5

LEMMA PortalsPreserved == PortalInv /\ [PortalNext]_portalVars => PortalInv'
<1> SUFFICES ASSUME PortalInv, [PortalNext]_portalVars, ~crossed'
             PROVE  KeysInHand' /\ KeysLiveOn'
  BY PortalsTyped DEF PortalInv
<1>1. PortalTypeOK /\ PortalTypeOK'
  BY PortalsTyped DEF PortalInv
<1>2. CASE UNCHANGED portalVars
  BY <1>2 DEF portalVars, PortalInv, KeysInHand, KeysLiveOn, UnderWay
<1>3. CASE PortalNext
  <2>1. ~crossed /\ KeysInHand /\ KeysLiveOn
    <3>1. crossed => crossed'
      BY <1>3, Zenon DEF PortalNext, AskDeletion, CountWorkers, ListKeys, PickSurvivor,
         DropPortal, DeletionCut, StartBuild, BuildEnds, AddKey, MoveKey
    <3> QED
      BY <3>1, Zenon DEF PortalInv
  <2>2. ASSUME NEW o \in Portals, AskDeletion(o) \/ DeletionCut(o) \/ StartBuild(o) \/ BuildEnds(o)
        PROVE  KeysInHand' /\ KeysLiveOn'
    <3>1. /\ UNCHANGED <<exists, keyRows, had, todo, heir>>
          /\ deleting' = deleting \/ \E s \in {"refused", "count"} : DeletionAt(o, s)
      BY <2>2 DEF AskDeletion, DeletionCut, StartBuild, BuildEnds
    <3>2. \A x \in Portals : deleting'[x] = deleting[x] \/ deleting'[x] \in {"refused", "count"}
      BY <1>1, <3>1 DEF DeletionAt, PortalTypeOK
    <3>3. KeysInHand'
      BY <2>1, <3>1, <3>2 DEF KeysInHand, UnderWay
    <3> QED
      BY <2>1, <3>1, <3>3 DEF KeysLiveOn
  <2>3. ASSUME NEW o \in Portals, NEW p \in Providers, AddKey(o, p)
        PROVE  KeysInHand' /\ KeysLiveOn'
    BY <1>1, <2>1, <2>3 DEF AddKey, UnderWay, KeysInHand, KeysLiveOn, PortalTypeOK
  <2> QED
    BY <1>1, <1>3, <2>1, <2>2, <2>3, DeletionKeeps DEF PortalNext
<1> QED
  BY <1>2, <1>3

\* A deletion of a portal whose moves the database accepts loses no AI key of the
\* server while another portal is left, wherever it stops, for any portals and
\* providers.
THEOREM KeysSurvive == PortalSpec => []KeysLiveOn
<1>1. PortalInv => KeysLiveOn
  BY DEF PortalInv, KeysLiveOn
<1> QED
  BY PortalsStart, PortalsPreserved, <1>1, PTL DEF PortalSpec
-----------------------------------------------------------------------------
(* The Claude login. *)

\* While no two writers have pushed at once: who pushes is alone, has a login
\* newer than the seed, and a temporary file of its own.
OneWriter ==
  /\ \A v, w \in Pushing : v = w
  /\ \A w \in Writers : push[w] \in {"waiting", "copy", "write"} => mine[w] > seed
  /\ \A w \in Writers : push[w] = "write" => opened[w] = "temp"
  /\ \A w \in Writers : push[w] = "rename" /\ temp # Gone => temp > seed
  /\ \A w \in Writers : opened[w] # "none" => push[w] = "write"

\* No login is newer than the newest, and a container that is down does nothing.
LoginsIssued ==
  /\ seed <= newest /\ (temp # Gone => temp <= newest)
  /\ \A w \in Writers : mine[w] <= newest
  /\ \A o \in Homes : o \notin live => push[o] = "idle"

SeedInv == SeedTypeOK /\ LoginsIssued /\ (~met => OneWriter)

LEMMA SeedStarts == SeedInit => SeedInv
<1> SUFFICES ASSUME SeedInit PROVE SeedInv
  OBVIOUS
<1>1. \A w \in Writers : push[w] = "idle" /\ opened[w] = "none" /\ mine[w] = 0
  BY DEF SeedInit
<1>2. SeedTypeOK
  <2>1. 0 \in Logins
    BY SeedAssumption DEF SeedAssumption, Logins
  <2>2. /\ mine \in [Writers -> Logins]
        /\ opened \in [Writers -> {"none", "temp", "seed"}]
        /\ push \in [Writers -> {"idle", "copy", "write", "rename", "refresh", "compare", "url", "waiting"}]
    BY <2>1 DEF SeedInit
  <2> QED
    BY <2>1, <2>2 DEF SeedInit, SeedTypeOK
<1>3. LoginsIssued
  BY <1>1, SeedAssumption DEF SeedAssumption, SeedInit, LoginsIssued, Writers, Gone
<1>4. OneWriter
  BY <1>1 DEF OneWriter, Pushing
<1> QED
  BY <1>2, <1>3, <1>4 DEF SeedInv

LEMMA SeedTyped == SeedTypeOK /\ LoginsIssued /\ [SeedNext]_seedVars => SeedTypeOK' /\ LoginsIssued'
<1> SUFFICES ASSUME SeedTypeOK, LoginsIssued, [SeedNext]_seedVars PROVE SeedTypeOK' /\ LoginsIssued'
  OBVIOUS
<1> USE SeedAssumption DEF SeedAssumption, SeedTypeOK, LoginsIssued, Logins, Gone, PushAt, Begins, Refreshes
<1>w. Homes \subseteq Writers /\ "warm" \in Writers /\ "relogin" \in Writers
  BY DEF Writers
<1>1. CASE UNCHANGED seedVars
  BY <1>1 DEF seedVars
<1>2. ASSUME NEW o \in Homes, StartContainer(o) \/ StopContainer(o) \/ RefreshLogin(o) \/ Sync(o)
      PROVE  SeedTypeOK' /\ LoginsIssued'
  <2>1. CASE StartContainer(o)
    BY <1>w, <2>1 DEF StartContainer
  <2>2. CASE StopContainer(o)
    BY <1>w, <2>2 DEF StopContainer
  <2>3. CASE RefreshLogin(o)
    BY <1>w, <2>3 DEF RefreshLogin
  <2>4. CASE Sync(o)
    BY <1>w, <2>4 DEF Sync
  <2> QED
    BY <1>2, <2>1, <2>2, <2>3, <2>4
<1>3. ASSUME NEW w \in Writers, push[w] # "idle", CopyOpens(w) \/ CopyWrites(w) \/ Rename(w)
      PROVE  SeedTypeOK' /\ LoginsIssued'
  <2>1. CASE CopyOpens(w)
    BY <1>w, <1>3, <2>1 DEF CopyOpens
  <2>2. CASE CopyWrites(w)
    BY <1>w, <1>3, <2>2 DEF CopyWrites
  <2>3. CASE Rename(w)
    <3>1. opened' \in [Writers -> {"none", "temp", "seed"}]
      BY <2>3 DEF Rename
    <3>2. mine' \in [Writers -> 0..MaxLogins] /\ \A x \in Writers : mine'[x] <= newest
      BY <2>3 DEF Rename
    <3> QED
      BY <1>w, <1>3, <2>3, <3>1, <3>2 DEF Rename
  <2> QED
    BY <1>3, <2>1, <2>2, <2>3
<1>4. CASE WarmStarts \/ WarmRefreshes \/ WarmCompares
  <2>1. CASE WarmStarts
    BY <1>w, <2>1 DEF WarmStarts
  <2>2. CASE WarmRefreshes
    BY <1>w, <2>2 DEF WarmRefreshes
  <2>3. CASE WarmCompares
    <3>1. CASE seed # 0 /\ mine["warm"] > seed
      BY <1>w, <2>3, <3>1 DEF WarmCompares
    <3>2. CASE ~(seed # 0 /\ mine["warm"] > seed)
      BY <1>w, <2>3, <3>2 DEF WarmCompares
    <3> QED
      BY <3>1, <3>2
  <2> QED
    BY <1>4, <2>1, <2>2, <2>3
<1>5. CASE ReloginStarts \/ ReloginDone \/ ReloginPushes
  <2>1. CASE ReloginStarts
    BY <1>w, <2>1 DEF ReloginStarts
  <2>2. CASE ReloginDone
    BY <1>w, <2>2 DEF ReloginDone
  <2>3. CASE ReloginPushes
    BY <1>w, <2>3 DEF ReloginPushes
  <2> QED
    BY <1>5, <2>1, <2>2, <2>3
<1>6. ASSUME NEW w \in Writers, CopyOpens(w) \/ CopyWrites(w) \/ Rename(w) PROVE push[w] # "idle"
  BY <1>6 DEF CopyOpens, CopyWrites, Rename
<1> QED
  BY <1>w, <1>1, <1>2, <1>3, <1>4, <1>5, <1>6 DEF SeedNext, SyncStep

\* One step of a push, or the beginning of one.
LEMMA WritersAlone ==
  ASSUME SeedTypeOK, LoginsIssued, OneWriter, ~met,
         NEW w \in Writers, CopyOpens(w) \/ CopyWrites(w) \/ Rename(w)
  PROVE  OneWriter' /\ seed' >= seed
<1> USE SeedAssumption DEF SeedAssumption, SeedTypeOK, Logins, Gone, PushAt
<1>0. \A x \in Writers : x # w => x \notin Pushing /\ opened[x] = "none"
  BY DEF CopyOpens, CopyWrites, Rename, OneWriter, Pushing
<1>1. CASE CopyOpens(w)
  <2>1. push[w] = "copy" /\ push' = [push EXCEPT ![w] = "write"] /\ opened' = [opened EXCEPT ![w] = "temp"]
        /\ UNCHANGED <<seed, mine>>
    BY <1>1 DEF CopyOpens
  <2>2. Pushing' = Pushing
    BY <2>1 DEF Pushing
  <2> QED
    BY <1>0, <2>1, <2>2 DEF OneWriter, Pushing
<1>2. CASE CopyWrites(w)
  <2>1. /\ push[w] = "write" /\ opened[w] = "temp" /\ mine[w] > seed
        /\ push' = [push EXCEPT ![w] = "rename"] /\ opened' = [opened EXCEPT ![w] = "none"]
        /\ temp' = mine[w] /\ seed' = seed /\ mine' = mine
    BY <1>2 DEF CopyWrites, OneWriter
  <2>2. Pushing' = Pushing
    BY <2>1 DEF Pushing
  <2> QED
    BY <1>0, <2>1, <2>2 DEF OneWriter, Pushing
<1>3. CASE Rename(w)
  <2>1. /\ push[w] = "rename" /\ push' = [push EXCEPT ![w] = "idle"] /\ seed' >= seed
        /\ opened[w] = "none"
    BY <1>3 DEF Rename, OneWriter
  <2>2. Pushing' = {}
    BY <1>0, <2>1 DEF Pushing
  <2>3. \A x \in Writers : opened'[x] = "none"
    BY <1>0, <1>3, <2>1 DEF Rename
  <2> QED
    BY <2>1, <2>2, <2>3 DEF OneWriter, Pushing
<1> QED
  BY <1>1, <1>2, <1>3

LEMMA SeedForward == SeedInv /\ [SeedNext]_seedVars => (~met' => ~met /\ OneWriter' /\ seed' >= seed)
<1> SUFFICES ASSUME SeedInv, [SeedNext]_seedVars, ~met' PROVE ~met /\ OneWriter' /\ seed' >= seed
  OBVIOUS
<1> USE SeedAssumption DEF SeedAssumption, Logins, Gone, PushAt, Refreshes
<1>w. Homes \subseteq Writers /\ "warm" \in Writers /\ "relogin" \in Writers
  BY DEF Writers
<1>t. SeedTypeOK /\ LoginsIssued
  BY DEF SeedInv
<1>1. CASE UNCHANGED seedVars
  BY <1>1 DEF seedVars, SeedInv, SeedTypeOK, OneWriter, Pushing
<1>2. CASE SeedNext
  <2>m. ~met
    BY <1>2, Zenon DEF SeedNext, SyncStep, StartContainer, StopContainer, RefreshLogin, Sync, Begins,
       CopyOpens, CopyWrites, Rename, WarmStarts, WarmRefreshes, WarmCompares, ReloginStarts,
       ReloginDone, ReloginPushes
  <2>0. OneWriter
    BY <2>m DEF SeedInv
  <2> SUFFICES OneWriter' /\ seed' >= seed
    BY <2>m
  <2>1. ASSUME NEW w \in Writers, CopyOpens(w) \/ CopyWrites(w) \/ Rename(w)
        PROVE  OneWriter' /\ seed' >= seed
    BY <1>t, <2>m, <2>0, <2>1, WritersAlone
  \* A writer that is at nothing else goes to a place where it does not push.
  <2>2. ASSUME NEW w \in Writers, push'[w] \notin {"waiting", "copy", "write", "rename"},
               \A x \in Writers : x # w => mine'[x] = mine[x] /\ push'[x] = push[x] /\ opened'[x] = opened[x],
               opened'[w] = "none", seed' = seed, temp' = temp
        PROVE  OneWriter' /\ seed' >= seed
    BY <1>t, <2>0, <2>2 DEF OneWriter, Pushing, SeedTypeOK
  \* It begins a push: nobody else is at one.
  <2>3. ASSUME NEW w \in Writers, push'[w] \in {"waiting", "copy"}, Begins(w),
               push' = [push EXCEPT ![w] = push'[w]], mine'[w] > seed, opened'[w] = "none",
               \A x \in Writers : x # w => opened'[x] = opened[x],
               seed' = seed, temp' = temp
        PROVE  OneWriter' /\ seed' >= seed
    <3>1. \A x \in Writers : x # w => x \notin Pushing
      BY <2>3 DEF Begins
    <3>2. \A x \in Writers : x # w => push'[x] = push[x]
      BY <2>3, <1>t DEF SeedTypeOK
    <3> QED
      BY <1>t, <2>0, <2>3, <3>1, <3>2 DEF OneWriter, Pushing, SeedTypeOK
  <2>4. ASSUME NEW o \in Homes, StartContainer(o) \/ StopContainer(o) \/ RefreshLogin(o) \/ Sync(o)
        PROVE  OneWriter' /\ seed' >= seed
    <3>1. CASE StartContainer(o)
      <4>1. push[o] = "idle" /\ opened[o] = "none"
        BY <1>t, <1>w, <2>0, <3>1 DEF StartContainer, LoginsIssued, OneWriter, SeedTypeOK
      <4> QED
        BY <1>t, <1>w, <2>2, <3>1, <4>1 DEF StartContainer, SeedTypeOK
    <3>2. CASE StopContainer(o)
      BY <1>t, <1>w, <2>2, <3>2 DEF StopContainer, SeedTypeOK
    <3>3. CASE RefreshLogin(o)
      <4>1. /\ UNCHANGED <<seed, temp, push, opened>>
            /\ \A x \in Writers : mine'[x] >= mine[x]
        BY <1>t, <1>w, <3>3 DEF RefreshLogin, SeedTypeOK, LoginsIssued
      <4>2. mine' \in [Writers -> 0..MaxLogins]
        BY <1>t, <1>w, <3>3 DEF RefreshLogin, SeedTypeOK
      <4> QED
        BY <1>t, <2>0, <4>1, <4>2 DEF OneWriter, Pushing, SeedTypeOK
    <3>4. CASE Sync(o)
      <4>1. opened[o] = "none" /\ o \in Writers
        BY <1>t, <1>w, <2>0, <3>4 DEF Sync, OneWriter, SeedTypeOK
      <4>2. push' = [push EXCEPT ![o] = "copy"] /\ push'[o] = "copy" /\ Begins(o) /\ mine[o] > seed
            /\ UNCHANGED <<seed, temp, mine, opened>>
        BY <1>t, <1>w, <3>4 DEF Sync, SeedTypeOK
      <4> QED
        BY <2>3, <4>1, <4>2
    <3> QED
      BY <2>4, <3>1, <3>2, <3>3, <3>4
  <2>5. CASE WarmStarts \/ WarmRefreshes \/ WarmCompares
    <3>1. push["warm"] \in {"idle", "refresh", "compare"} /\ opened["warm"] = "none"
      BY <1>t, <1>w, <2>0, <2>5 DEF WarmStarts, WarmRefreshes, WarmCompares, OneWriter, SeedTypeOK
    <3>2. CASE WarmStarts
      BY <1>t, <1>w, <2>2, <3>1, <3>2 DEF WarmStarts, SeedTypeOK
    <3>3. CASE WarmRefreshes
      BY <1>t, <1>w, <2>2, <3>1, <3>3 DEF WarmRefreshes, SeedTypeOK
    <3>4. CASE WarmCompares
      <4>1. CASE seed # 0 /\ mine["warm"] > seed
        <5>1. push' = [push EXCEPT !["warm"] = "copy"] /\ push'["warm"] = "copy" /\ Begins("warm")
              /\ UNCHANGED <<seed, temp, mine, opened>>
          BY <1>t, <1>w, <3>4, <4>1 DEF WarmCompares, SeedTypeOK
        <5> QED
          BY <1>w, <2>3, <3>1, <4>1, <5>1
      <4>2. CASE ~(seed # 0 /\ mine["warm"] > seed)
        <5>1. push' = [push EXCEPT !["warm"] = "idle"] /\ mine' = [mine EXCEPT !["warm"] = 0]
              /\ UNCHANGED <<seed, temp, opened>>
          BY <3>4, <4>2 DEF WarmCompares
        <5> QED
          BY <1>t, <1>w, <2>2, <3>1, <5>1 DEF SeedTypeOK
      <4> QED
        BY <4>1, <4>2
    <3> QED
      BY <2>5, <3>2, <3>3, <3>4
  <2>6. CASE ReloginStarts \/ ReloginDone \/ ReloginPushes
    <3>1. CASE ReloginStarts
      BY <1>t, <1>w, <2>2, <3>1 DEF ReloginStarts, SeedTypeOK
    <3>2. CASE ReloginDone
      <4>1. opened["relogin"] = "none"
        BY <1>t, <1>w, <2>0, <3>2 DEF ReloginDone, OneWriter, SeedTypeOK
      <4>2. /\ push' = [push EXCEPT !["relogin"] = "waiting"] /\ push'["relogin"] = "waiting"
            /\ Begins("relogin") /\ mine'["relogin"] = newest + 1 /\ UNCHANGED <<seed, temp, opened>>
        BY <1>t, <1>w, <3>2 DEF ReloginDone, SeedTypeOK
      <4>3. mine'["relogin"] > seed
        BY <1>t, <4>2 DEF SeedTypeOK, LoginsIssued
      <4> QED
        BY <1>w, <2>3, <4>1, <4>2, <4>3
    <3>3. CASE ReloginPushes
      <4>1. /\ push["relogin"] = "waiting" /\ push' = [push EXCEPT !["relogin"] = "copy"]
            /\ UNCHANGED <<seed, temp, mine, opened>>
        BY <3>3 DEF ReloginPushes
      <4> QED
        BY <1>t, <1>w, <2>0, <4>1 DEF OneWriter, Pushing, SeedTypeOK
    <3> QED
      BY <2>6, <3>1, <3>2, <3>3
  <2> QED
    BY <1>w, <1>2, <2>1, <2>4, <2>5, <2>6 DEF SeedNext, SyncStep
<1> QED
  BY <1>1, <1>2

\* Unless two writers push at once, no login of the shared file is replaced by an
\* older one, for any organizations and any number of logins.
THEOREM SeedNeverGoesBack == SeedSpec => SeedGoesForward
<1>1. SeedInv /\ [SeedNext]_seedVars => SeedInv'
  BY SeedTyped, SeedForward DEF SeedInv
<1>2. SeedInv /\ [SeedNext]_seedVars => [~met' => seed' >= seed]_seedVars
  BY SeedForward
<1> QED
  BY SeedStarts, <1>1, <1>2, PTL DEF SeedSpec, SeedGoesForward
-----------------------------------------------------------------------------
(* The output of a session. *)

\* What the argument needs of the types.
GatewayTyped ==
  /\ joined \in [Clients -> BOOLEAN]
  /\ known \in [Clients -> [authenticated : BOOLEAN, org : BOOLEAN, room : BOOLEAN]]
  /\ wait \in [Clients -> [Handler -> Nat]]
  /\ answers \in [Clis -> Seq(Answers)]
  /\ stage \in [Clis -> {"trying", "attached", "exited"}]

\* Outside the room, nothing is under way that could say "attached".
Outside(v) ==
  /\ ~known[v].room /\ wait[v]["attach"] = 0 /\ stage[v] # "attached"
  /\ answers[v] \in Seq(Answers \ {"attached"})

GatewayInv == GatewayTyped /\ \A v \in Clis : joined[v] \/ Outside(v)

LEMMA GatewayStarts == GatewayInit => GatewayInv
  BY DEF GatewayInit, GatewayInv, GatewayTyped, Outside, Clients, Nobody, Handler

\* A step of client v leaves all others as they are.
OnlyOf(v) ==
  \A c \in Clients : c # v =>
    /\ joined'[c] = joined[c] /\ known'[c] = known[c] /\ wait'[c] = wait[c]
    /\ c \in Clis => stage'[c] = stage[c] /\ answers'[c] = answers[c]

LEMMA OthersStay ==
  ASSUME GatewayInv, NEW v \in Clients, GatewayTyped', OnlyOf(v),
         v \in Clis => joined'[v] \/ Outside(v)'
  PROVE  GatewayInv'
BY DEF GatewayInv, OnlyOf, Outside, Clients

\* What the pieces of the handlers do.
Waiting == [Clients -> [Handler -> Nat]]
LEMMA AwaitReturn ==
  ASSUME wait \in Waiting, NEW v \in Clients, NEW h \in Handler, Await(v, h) \/ Return(v, h)
  PROVE  /\ wait' \in Waiting /\ \A c \in Clients : c # v => wait'[c] = wait[c]
         /\ \A k \in Handler : k # h => wait'[v][k] = wait[v][k]
<1>1. CASE Await(v, h)
  BY <1>1 DEF Await, Waiting
<1>2. CASE Return(v, h)
  <2>1. wait[v][h] - 1 \in Nat
    BY <1>2 DEF Return, Waiting
  <2> QED
    BY <1>2, <2>1 DEF Return, Waiting
<1> QED
  BY <1>1, <1>2

LEMMA AnswerAppends ==
  ASSUME answers \in [Clis -> Seq(Answers)], NEW v \in Clients, NEW a \in Answers, Answer(v, a)
  PROVE  /\ answers' \in [Clis -> Seq(Answers)] /\ \A c \in Clis : c # v => answers'[c] = answers[c]
         /\ v \in Clis /\ a # "attached" /\ answers[v] \in Seq(Answers \ {"attached"})
              => answers'[v] \in Seq(Answers \ {"attached"})
<1>1. CASE v \in Clis
  <2>1. answers' = [answers EXCEPT ![v] = Append(answers[v], a)]
    BY <1>1 DEF Answer
  <2>2. Append(answers[v], a) \in Seq(Answers)
    BY <1>1
  <2>3. a # "attached" /\ answers[v] \in Seq(Answers \ {"attached"})
          => Append(answers[v], a) \in Seq(Answers \ {"attached"})
    BY <1>1
  <2> QED
    BY <1>1, <2>1, <2>2, <2>3
<1>2. CASE v \notin Clis
  BY <1>2 DEF Answer
<1> QED
  BY <1>1, <1>2

LEMMA HangupClears ==
  ASSUME GatewayTyped, NEW v \in Clients, Hangup(v)
  PROVE  /\ joined' \in [Clients -> BOOLEAN]
         /\ known' \in [Clients -> [authenticated : BOOLEAN, org : BOOLEAN, room : BOOLEAN]]
         /\ wait' \in Waiting
         /\ \A c \in Clients : c # v => joined'[c] = joined[c] /\ known'[c] = known[c] /\ wait'[c] = wait[c]
         /\ ~known'[v].room /\ wait'[v]["attach"] = 0
<1>1. Nobody \in [authenticated : BOOLEAN, org : BOOLEAN, room : BOOLEAN] /\ ~Nobody.room
  BY DEF Nobody
<1>2. [h \in Handler |-> 0] \in [Handler -> Nat] /\ "attach" \in Handler
  BY DEF Handler
<1>3. wait' = [wait EXCEPT ![v] = [h \in Handler |-> 0]] /\ known' = [known EXCEPT ![v] = Nobody]
      /\ joined' = [joined EXCEPT ![v] = FALSE]
  BY DEF Hangup
<1>4. wait' \in Waiting /\ wait'[v]["attach"] = 0
  BY <1>2, <1>3 DEF GatewayTyped, Waiting
<1>5. known' \in [Clients -> [authenticated : BOOLEAN, org : BOOLEAN, room : BOOLEAN]] /\ ~known'[v].room
  BY <1>1, <1>3 DEF GatewayTyped
<1> QED
  BY <1>3, <1>4, <1>5 DEF GatewayTyped

\* The three parts of a step: the connection, the answers, the stage.
LEMMA GatewaySteps ==
  ASSUME GatewayInv, NEW v \in Clients,
         Gateway(v) \/ ConnectTab(v) \/ ConnectCli(v) \/ Disconnect(v) \/ (v \in Clis /\ HearAnswer(v))
  PROVE  GatewayInv'
<1>0. /\ GatewayTyped /\ (v \in Clis => joined[v] \/ Outside(v)) /\ Clis \subseteq Clients
      /\ wait \in Waiting /\ answers \in [Clis -> Seq(Answers)]
  BY DEF GatewayInv, Clients, GatewayTyped, Waiting
<1>h. /\ "authenticate" \in Handler /\ "subscribe" \in Handler /\ "attach" \in Handler
      /\ {"authenticated", "subscribed", "attached", "error"} \subseteq Answers
  BY DEF Handler, Answers
<1> SUFFICES GatewayTyped' /\ OnlyOf(v) /\ (v \in Clis => joined'[v] \/ Outside(v)')
  BY OthersStay
<1>1. CASE ConnectTab(v) \/ ConnectCli(v)
  BY <1>0, <1>1 DEF ConnectTab, ConnectCli, GatewayTyped, OnlyOf, Outside
<1>2. CASE AuthenticateTab(v)
  <2>1. UNCHANGED <<joined, wait, answers, stage>>
    BY <1>2 DEF AuthenticateTab
  <2>2. /\ known' \in [Clients -> [authenticated : BOOLEAN, org : BOOLEAN, room : BOOLEAN]]
        /\ known'[v].room = known[v].room /\ \A c \in Clients : c # v => known'[c] = known[c]
    <3>1. PICK good \in BOOLEAN, org \in BOOLEAN :
            known' = IF good THEN [known EXCEPT ![v] = [known[v] EXCEPT !.authenticated = TRUE,
                                                                        !.org = known[v].org \/ org]]
                             ELSE known
      BY <1>2 DEF AuthenticateTab
    <3>2. known[v] \in [authenticated : BOOLEAN, org : BOOLEAN, room : BOOLEAN]
      BY <1>0 DEF GatewayTyped
    <3>3. (known[v].org \/ org) \in BOOLEAN
      OBVIOUS
    <3>4. LET k == [known[v] EXCEPT !.authenticated = TRUE, !.org = known[v].org \/ org]
          IN  k \in [authenticated : BOOLEAN, org : BOOLEAN, room : BOOLEAN] /\ k.room = known[v].room
      BY <3>2, <3>3
    <3> QED
      BY <1>0, <3>1, <3>4 DEF GatewayTyped
  <2> QED
    BY <1>0, <2>1, <2>2 DEF GatewayTyped, OnlyOf, Outside
<1>3. CASE AuthenticateCli(v)
  <2>1. Await(v, "authenticate") /\ UNCHANGED <<joined, known, answers, stage>>
    BY <1>3 DEF AuthenticateCli
  <2> QED
    BY <1>0, <1>h, <2>1, AwaitReturn DEF GatewayTyped, OnlyOf, Outside, Waiting
<1>4. CASE TokenResolved(v)
  <2>1. Return(v, "authenticate") /\ UNCHANGED <<joined, stage>>
        /\ \E a \in Answers \ {"attached"} : Answer(v, a)
    BY <1>4, <1>h DEF TokenResolved
  <2>2. /\ known' \in [Clients -> [authenticated : BOOLEAN, org : BOOLEAN, room : BOOLEAN]]
        /\ known'[v].room = known[v].room /\ \A c \in Clients : c # v => known'[c] = known[c]
    BY <1>0, <1>4 DEF TokenResolved, GatewayTyped
  <2>3. PICK a \in Answers \ {"attached"} : Answer(v, a)
    BY <2>1
  <2>4. /\ wait' \in Waiting /\ \A c \in Clients : c # v => wait'[c] = wait[c]
        /\ wait'[v]["attach"] = wait[v]["attach"]
    BY <1>0, <1>h, <2>1, AwaitReturn
  <2> QED
    BY <1>0, <2>1, <2>2, <2>3, <2>4, AnswerAppends DEF GatewayTyped, OnlyOf, Outside, Waiting
<1>5. CASE Subscribe(v)
  <2>1. UNCHANGED <<joined, known, stage>>
    BY <1>5 DEF Subscribe
  <2>2. (Await(v, "subscribe") /\ UNCHANGED answers) \/ (Answer(v, "error") /\ UNCHANGED wait)
    BY <1>5 DEF Subscribe
  <2> QED
    BY <1>0, <1>h, <2>1, <2>2, AwaitReturn, AnswerAppends DEF GatewayTyped, OnlyOf, Outside, Waiting
<1>6. CASE SessionFound(v)
  <2>1. Return(v, "subscribe") /\ Answer(v, "subscribed") /\ UNCHANGED stage
        /\ joined' = [joined EXCEPT ![v] = TRUE]
    BY <1>6 DEF SessionFound
  <2>2. /\ known' \in [Clients -> [authenticated : BOOLEAN, org : BOOLEAN, room : BOOLEAN]]
        /\ \A c \in Clients : c # v => known'[c] = known[c]
    BY <1>0, <1>6 DEF SessionFound, GatewayTyped
  <2> QED
    BY <1>0, <1>h, <2>1, <2>2, AwaitReturn, AnswerAppends DEF GatewayTyped, OnlyOf, Outside, Waiting
<1>7. CASE AttachSession(v)
  <2>1. UNCHANGED <<joined, known, stage>>
    BY <1>7 DEF AttachSession
  <2>2. \/ known[v].room /\ Await(v, "attach") /\ UNCHANGED answers
        \/ Answer(v, "error") /\ UNCHANGED wait
    BY <1>7 DEF AttachSession
  <2>3. CASE known[v].room /\ Await(v, "attach") /\ UNCHANGED answers
    BY <1>0, <1>h, <2>1, <2>3, AwaitReturn DEF GatewayTyped, OnlyOf, Outside, Waiting
  <2>4. CASE Answer(v, "error") /\ UNCHANGED wait
    BY <1>0, <1>h, <2>1, <2>4, AnswerAppends DEF GatewayTyped, OnlyOf, Outside, Waiting
  <2> QED
    BY <2>2, <2>3, <2>4
<1>8. CASE AttachDone(v)
  <2>1. Return(v, "attach") /\ UNCHANGED <<joined, known, stage>> /\ wait[v]["attach"] > 0
    BY <1>8 DEF AttachDone, Return
  <2>2. /\ answers' \in [Clis -> Seq(Answers)]
        /\ \A c \in Clis : c # v => answers'[c] = answers[c]
    <3>1. CASE UNCHANGED answers
      BY <1>0, <3>1
    <3>2. CASE \E a \in {"attached", "error"} : Answer(v, a)
      BY <1>0, <1>h, <3>2, AnswerAppends
    <3> QED
      BY <1>8, <3>1, <3>2 DEF AttachDone
  <2>3. ~Outside(v)
    BY <2>1 DEF Outside
  <2> QED
    BY <1>0, <1>h, <2>1, <2>2, <2>3, AwaitReturn DEF GatewayTyped, OnlyOf, Waiting
<1>9. CASE Disconnect(v)
  <2>1. Hangup(v) /\ (v \notin Clis => UNCHANGED <<stage, answers>>)
    BY <1>9 DEF Disconnect
  <2>2. v \in Clis => /\ stage' = [stage EXCEPT ![v] = "exited"]
                       /\ answers' = [answers EXCEPT ![v] = <<>>]
    BY <1>9 DEF Disconnect
  <2>3. /\ answers' \in [Clis -> Seq(Answers)] /\ stage' \in [Clis -> {"trying", "attached", "exited"}]
        /\ \A c \in Clis : c # v => answers'[c] = answers[c] /\ stage'[c] = stage[c]
        /\ v \in Clis => answers'[v] = <<>> /\ stage'[v] = "exited"
    <3>1. CASE v \in Clis
      <4>1. stage' = [stage EXCEPT ![v] = "exited"] /\ answers' = [answers EXCEPT ![v] = <<>>]
        BY <2>2, <3>1
      <4>2. stage \in [Clis -> {"trying", "attached", "exited"}] /\ << >> \in Seq(Answers)
        BY <1>0 DEF GatewayTyped
      <4> QED
        BY <1>0, <3>1, <4>1, <4>2
    <3>2. CASE v \notin Clis
      BY <1>0, <2>1, <3>2 DEF GatewayTyped
    <3> QED
      BY <3>1, <3>2
  <2> QED
    BY <1>0, <2>1, <2>3, HangupClears DEF GatewayTyped, OnlyOf, Outside, Waiting
<1>10. CASE v \in Clis /\ HearAnswer(v)
  <2>1. /\ Head(answers[v]) \in Answers /\ Tail(answers[v]) \in Seq(Answers)
        /\ Outside(v) => /\ Head(answers[v]) # "attached"
                         /\ Tail(answers[v]) \in Seq(Answers \ {"attached"})
    BY <1>0, <1>10 DEF HearAnswer, GatewayTyped, Outside
  <2>2. CASE Head(answers[v]) \in {"authenticated", "subscribed"}
    BY <1>0, <1>10, <2>1, <2>2 DEF HearAnswer, GatewayTyped, OnlyOf, Outside
  <2>3. CASE Head(answers[v]) = "attached"
    BY <1>0, <1>10, <2>1, <2>3 DEF HearAnswer, GatewayTyped, OnlyOf, Outside
  <2>4. CASE Head(answers[v]) = "error"
    <3>1. Hangup(v) /\ stage' = [stage EXCEPT ![v] = "exited"] /\ answers' = [answers EXCEPT ![v] = <<>>]
      BY <1>10, <2>4 DEF HearAnswer
    <3>2. /\ answers' \in [Clis -> Seq(Answers)] /\ stage' \in [Clis -> {"trying", "attached", "exited"}]
          /\ \A c \in Clis : c # v => answers'[c] = answers[c] /\ stage'[c] = stage[c]
          /\ answers'[v] = <<>> /\ stage'[v] = "exited"
      BY <1>0, <1>10, <3>1 DEF GatewayTyped
    <3> QED
      BY <1>0, <3>1, <3>2, HangupClears DEF GatewayTyped, OnlyOf, Outside, Waiting
  <2>5. Answers = {"authenticated", "subscribed", "attached", "error"}
    BY DEF Answers
  <2> QED
    BY <2>1, <2>2, <2>3, <2>4, <2>5
<1> QED
  BY <1>1, <1>2, <1>3, <1>4, <1>5, <1>6, <1>7, <1>8, <1>9, <1>10 DEF Gateway

LEMMA GatewayPreserved == GatewayInv /\ [GatewayNext]_gatewayVars => GatewayInv'
<1> SUFFICES ASSUME GatewayInv, [GatewayNext]_gatewayVars PROVE GatewayInv'
  OBVIOUS
<1>1. CASE UNCHANGED gatewayVars
  BY <1>1 DEF gatewayVars, GatewayInv, GatewayTyped, Outside
<1>2. ASSUME NEW v \in Tabs, TokenArrives(v) \/ ShowTerminal(v) \/ HideTerminal(v) \/ Wake(v)
      PROVE  GatewayInv'
  BY <1>2 DEF TokenArrives, ShowTerminal, HideTerminal, Wake, GatewayInv, GatewayTyped, Outside
<1>3. Clis \subseteq Clients
  BY DEF Clients
<1> QED
  BY <1>1, <1>2, <1>3, GatewaySteps DEF GatewayNext

\* Whoever is told "Attached" by citshe attach is in the room of the session as
\* long as the program runs, for any number of tabs and command lines and in
\* whatever order handlers return and connections end.
THEOREM AttachedHears == GatewaySpec => []AttachedHearsOutput
<1>1. GatewayInv => AttachedHearsOutput
  BY DEF GatewayInv, Outside, AttachedHearsOutput
<1> QED
  BY GatewayStarts, GatewayPreserved, <1>1, PTL DEF GatewaySpec
=============================================================================

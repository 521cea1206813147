-------------------------- MODULE DeviceLoginProofs --------------------------
(***************************************************************************)
(* Proofs about the browser login of the CLI, for any number of polls,     *)
(* approvals and denials.                                                  *)
(***************************************************************************)
EXTENDS DeviceLogin, FiniteSetTheorems, TLAPS

\* A token somebody may have in hand exists, or was deleted by a user.
TokensExist ==
  /\ token # NoToken => token \in minted \cup deleted
  /\ \A p \in Polls : at[p] \in {"claim", "approved"} => saw[p] \in minted \cup deleted
  /\ \A a \in Approvals : at[a] \in {"write", "approved"} => a \in minted \cup deleted

\* A token in the row is a grant nobody has claimed.
Claimable == IF token = NoToken THEN 0 ELSE 1
GrantsCover == Cardinality(Delivered) + Claimable <= Cardinality(Granted)

LInv == LoginTypeOK /\ TokensExist /\ GrantsCover

-----------------------------------------------------------------------------
LEMMA LInitially == LoginInit => LInv
<1> SUFFICES ASSUME LoginInit PROVE LInv
  OBVIOUS
<1>1. LoginTypeOK
  BY DEF LoginInit, LoginTypeOK, Calls, Place
<1>2. TokensExist
  BY DEF LoginInit, TokensExist, Calls
<1>3. Delivered = {} /\ Granted = {}
  BY DEF LoginInit, Delivered, Granted, Calls
<1>4. GrantsCover
  BY <1>3, FS_EmptySet DEF LoginInit, GrantsCover, Claimable
<1> QED
  BY <1>1, <1>2, <1>4 DEF LInv

\* The sets that are counted are finite.
LEMMA CountsAreNumbers ==
  /\ IsFiniteSet(Delivered) /\ IsFiniteSet(Granted)
  /\ Cardinality(Delivered) \in Nat /\ Cardinality(Granted) \in Nat
<1>1. Delivered \subseteq Polls /\ Granted \subseteq Approvals
  BY DEF Delivered, Granted
<1>2. IsFiniteSet(Delivered) /\ IsFiniteSet(Granted)
  BY <1>1, LoginAssumption, FS_Subset DEF LoginAssumption
<1> QED
  BY <1>2, FS_CardinalityType

\* A step that moves no call into or out of "approved" leaves the counts alone.
LEMMA SameCounts ==
  ASSUME LInv, Delivered' = Delivered, Granted' = Granted, token' = token
  PROVE  GrantsCover'
BY DEF LInv, GrantsCover, Claimable

LEMMA LPreserved == LInv /\ [LoginNext]_loginVars => LInv'
<1> SUFFICES ASSUME LInv, [LoginNext]_loginVars PROVE LInv'
  OBVIOUS
<1> USE LoginAssumption DEF LoginAssumption
<1>t. LoginTypeOK /\ TokensExist /\ GrantsCover
  BY DEF LInv
<1>1. ASSUME NEW p \in Polls, PollRead(p) PROVE LInv'
  <2>1. at' \in [Calls -> Place] /\ \A c \in Calls \ {p} : at'[c] = at[c]
    BY <1>t, <1>1 DEF PollRead, Go, LoginTypeOK, Place, Calls
  <2>2. at'[p] # "approved" /\ at[p] = "new" /\ (at'[p] = "claim" => token # NoToken)
    BY <1>t, <1>1 DEF PollRead, Go, LoginTypeOK, Calls
  <2>3. saw'[p] = token /\ \A q \in Polls \ {p} : saw'[q] = saw[q]
    BY <1>t, <1>1 DEF PollRead, LoginTypeOK
  <2>4. LoginTypeOK'
    BY <1>t, <1>1, <2>1 DEF PollRead, LoginTypeOK
  <2>5. TokensExist'
    BY <1>t, <1>1, <2>1, <2>2, <2>3 DEF TokensExist, PollRead, Calls
  <2>6. Delivered' = Delivered /\ Granted' = Granted
    BY <2>1, <2>2 DEF Delivered, Granted, Calls
  <2>7. GrantsCover'
    BY <1>1, <2>6, SameCounts DEF PollRead
  <2> QED
    BY <2>4, <2>5, <2>7 DEF LInv
<1>2. ASSUME NEW p \in Polls, PollClaim(p) PROVE LInv'
  <2>1. at' \in [Calls -> Place] /\ \A c \in Calls \ {p} : at'[c] = at[c]
    BY <1>t, <1>2 DEF PollClaim, Go, LoginTypeOK, Place, Calls
  <2>2. at[p] = "claim" /\ at'[p] = (IF token # NoToken THEN "approved" ELSE "pending")
    BY <1>t, <1>2 DEF PollClaim, Go, LoginTypeOK, Calls
  <2>3. LoginTypeOK'
    BY <1>t, <1>2, <2>1 DEF PollClaim, LoginTypeOK
  <2>4. TokensExist'
    BY <1>t, <1>2, <2>1, <2>2 DEF TokensExist, PollClaim, Calls
  <2>5. Granted' = Granted /\ p \notin Delivered
    BY <2>1, <2>2 DEF Delivered, Granted, Calls
  <2>6. CASE token = NoToken
    <3>1. Delivered' = Delivered
      BY <2>1, <2>2, <2>6 DEF Delivered, Calls
    <3> QED
      BY <1>t, <1>2, <2>3, <2>4, <2>5, <2>6, <3>1 DEF LInv, GrantsCover, Claimable, PollClaim
  <2>7. CASE token # NoToken
    <3>1. Delivered' = Delivered \cup {p}
      BY <2>1, <2>2, <2>7 DEF Delivered, Calls
    <3>2. Cardinality(Delivered') = Cardinality(Delivered) + 1
      BY <2>5, <3>1, FS_AddElement, CountsAreNumbers
    <3> QED
      BY <1>t, <1>2, <2>3, <2>4, <2>5, <2>7, <3>2, CountsAreNumbers DEF LInv, GrantsCover, Claimable, PollClaim
  <2> QED
    BY <2>6, <2>7
<1>3. ASSUME NEW a \in Approvals, ApproveRead(a) PROVE LInv'
  <2>1. at' \in [Calls -> Place] /\ at[a] = "new" /\ at'[a] \notin {"write", "approved"}
        /\ \A c \in Calls \ {a} : at'[c] = at[c]
    BY <1>t, <1>3 DEF ApproveRead, Go, LoginTypeOK, Place, Calls
  <2>2. LoginTypeOK' /\ TokensExist'
    BY <1>t, <1>3, <2>1 DEF ApproveRead, LoginTypeOK, TokensExist, Calls
  <2>3. Delivered' = Delivered /\ Granted' = Granted
    BY <2>1 DEF Delivered, Granted, Calls
  <2> QED
    BY <1>3, <2>2, <2>3, SameCounts DEF ApproveRead, LInv
<1>4. ASSUME NEW a \in Approvals, Mint(a) PROVE LInv'
  <2>1. at' \in [Calls -> Place] /\ at[a] = "mint" /\ at'[a] = "write"
        /\ \A c \in Calls \ {a} : at'[c] = at[c]
    BY <1>t, <1>4 DEF Mint, Go, LoginTypeOK, Place, Calls
  <2>2. LoginTypeOK' /\ TokensExist'
    BY <1>t, <1>4, <2>1 DEF Mint, LoginTypeOK, TokensExist, Calls
  <2>3. Delivered' = Delivered /\ Granted' = Granted
    BY <2>1 DEF Delivered, Granted, Calls
  <2> QED
    BY <1>4, <2>2, <2>3, SameCounts DEF Mint, LInv
<1>5. ASSUME NEW a \in Approvals, ApproveWrite(a) PROVE LInv'
  <2>1. at' \in [Calls -> Place] /\ at[a] = "write" /\ at'[a] = "approved"
        /\ \A c \in Calls \ {a} : at'[c] = at[c]
    BY <1>t, <1>5 DEF ApproveWrite, Go, LoginTypeOK, Place, Calls
  <2>2. LoginTypeOK' /\ TokensExist'
    BY <1>t, <1>5, <2>1 DEF ApproveWrite, LoginTypeOK, TokensExist, Calls
  <2>3. Delivered' = Delivered /\ Granted' = Granted \cup {a} /\ a \notin Granted
    BY <2>1 DEF Delivered, Granted, Calls
  <2>4. Cardinality(Granted') = Cardinality(Granted) + 1
    BY <2>3, FS_AddElement, CountsAreNumbers
  <2> QED
    BY <1>t, <2>2, <2>3, <2>4, CountsAreNumbers DEF LInv, GrantsCover, Claimable
<1>6. ASSUME NEW a \in Approvals, DeleteToken(a) PROVE LInv'
  <2>1. LoginTypeOK' /\ TokensExist'
    BY <1>t, <1>6 DEF DeleteToken, LoginTypeOK, TokensExist
  <2>2. Delivered' = Delivered /\ Granted' = Granted
    BY <1>6 DEF DeleteToken, Delivered, Granted
  <2> QED
    BY <1>6, <2>1, <2>2, SameCounts DEF DeleteToken, LInv
<1>7. ASSUME NEW d \in Denials, Deny(d) PROVE LInv'
  <2>1. at' \in [Calls -> Place] /\ \A c \in Polls \cup Approvals : at'[c] = at[c]
    BY <1>t, <1>7 DEF Deny, Go, LoginTypeOK, Place, Calls
  <2>2. LoginTypeOK' /\ TokensExist'
    BY <1>t, <1>7, <2>1 DEF Deny, LoginTypeOK, TokensExist
  <2>3. Delivered' = Delivered /\ Granted' = Granted
    BY <2>1 DEF Delivered, Granted
  <2> QED
    BY <1>7, <2>2, <2>3, SameCounts DEF Deny, LInv
<1>8. CASE Expire
  <2>1. LoginTypeOK' /\ TokensExist'
    BY <1>t, <1>8 DEF Expire, LoginTypeOK, TokensExist
  <2>2. Delivered' = Delivered /\ Granted' = Granted
    BY <1>8 DEF Expire, Delivered, Granted
  <2> QED
    BY <1>8, <2>1, <2>2, SameCounts DEF Expire, LInv
<1>9. CASE Restart
  <2>1. at' \in [Calls -> Place]
        /\ \A c \in Calls : at'[c] = at[c] \/ (at'[c] = "lost" /\ at[c] \in {"claim", "mint", "write"})
    BY <1>t, <1>9 DEF Restart, LoginTypeOK, Place
  <2>2. LoginTypeOK' /\ TokensExist'
    BY <1>t, <1>9, <2>1 DEF Restart, LoginTypeOK, TokensExist, Calls
  <2>3. Delivered' = Delivered /\ Granted' = Granted
    BY <2>1 DEF Delivered, Granted, Calls
  <2> QED
    BY <1>9, <2>2, <2>3, SameCounts DEF Restart, LInv
<1>10. CASE UNCHANGED loginVars
  BY <1>t, <1>10 DEF loginVars, LInv, LoginTypeOK, TokensExist, GrantsCover, Claimable, Delivered, Granted
<1> QED
  BY <1>1, <1>2, <1>3, <1>4, <1>5, <1>6, <1>7, <1>8, <1>9, <1>10 DEF LoginNext

\* The inductive invariant: what holds a token names one that exists, and a
\* token in the row stands for a grant nobody has claimed.
THEOREM LoginInvariant == LoginSpec => []LInv
<1> QED
  BY LInitially, LPreserved, PTL DEF LoginSpec

-----------------------------------------------------------------------------
\* No more tokens are handed out than logins were approved, however many polls
\* overlap.
THEOREM TokensNeverExceedGrants == LoginSpec => []NoMoreThanGranted
<1>1. LInv => NoMoreThanGranted
  BY CountsAreNumbers DEF LInv, GrantsCover, Claimable, NoMoreThanGranted
<1> QED
  BY <1>1, LoginInvariant, PTL

\* A token that reaches the CLI was minted, wherever a restart fell.
THEOREM TokensHandedOutWork == LoginSpec => []DeliveredTokensWork
<1>1. LInv => DeliveredTokensWork
  BY DEF LInv, TokensExist, DeliveredTokensWork, Delivered
<1> QED
  BY <1>1, LoginInvariant, PTL

\* After a denial with nothing under way no poll is answered with a token.
THEOREM DenialsHold == LoginSpec => DenialIsFinal
<1>1. LInv /\ [LoginNext]_loginVars => [Denied => Denied' /\ Delivered' = Delivered]_loginVars
  <2> SUFFICES ASSUME LInv, LoginNext, Denied PROVE Denied' /\ Delivered' = Delivered
    OBVIOUS
  <2> USE LoginAssumption DEF LoginAssumption, LInv, LoginTypeOK, Denied, Delivered
  <2>1. ASSUME NEW p \in Polls, PollRead(p) PROVE Denied' /\ Delivered' = Delivered
    BY <2>1 DEF PollRead, Go, Calls
  <2>2. ASSUME NEW p \in Polls, PollClaim(p) PROVE FALSE
    BY <2>2 DEF PollClaim, Calls
  <2>3. ASSUME NEW a \in Approvals, ApproveRead(a) PROVE Denied' /\ Delivered' = Delivered
    BY <2>3 DEF ApproveRead, Go, Calls
  <2>4. ASSUME NEW a \in Approvals, Mint(a) \/ ApproveWrite(a) PROVE FALSE
    BY <2>4 DEF Mint, ApproveWrite, Calls
  <2>5. ASSUME NEW a \in Approvals, DeleteToken(a) PROVE Denied' /\ Delivered' = Delivered
    BY <2>5 DEF DeleteToken
  <2>6. ASSUME NEW d \in Denials, Deny(d) PROVE Denied' /\ Delivered' = Delivered
    BY <2>6 DEF Deny, Go, Calls
  <2>7. CASE Expire
    BY <2>7 DEF Expire
  <2>8. CASE Restart
    BY <2>8 DEF Restart
  <2> QED
    BY <2>1, <2>2, <2>3, <2>4, <2>5, <2>6, <2>7, <2>8 DEF LoginNext
<1> QED
  BY <1>1, LoginInvariant, PTL DEF LoginSpec, DenialIsFinal
=============================================================================

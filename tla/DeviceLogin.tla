---------------------------- MODULE DeviceLogin ----------------------------
(***************************************************************************)
(* The browser login of the citshe CLI: one CliAuthRequest row, the polls  *)
(* of the CLI that holds its device code, and the approvals and denials of *)
(* users who see its user code (modules/cli/services/cli.service.ts).      *)
(*                                                                         *)
(* A step is one await.  A token is named by the approval that minted it.  *)
(***************************************************************************)
EXTENDS Naturals, FiniteSets

CONSTANTS Polls,      \* the calls of pollDeviceAuth; they may overlap
          Approvals,  \* the calls of approveDeviceAuth
          Denials,    \* the calls of denyDeviceAuth
          NoToken     \* cliAuthRequest.token = null

ASSUME LoginAssumption ==
  /\ NoToken \notin Approvals
  /\ IsFiniteSet(Polls) /\ IsFiniteSet(Approvals)
  /\ Polls \cap Approvals = {} /\ Polls \cap Denials = {} /\ Approvals \cap Denials = {}

Calls == Polls \cup Approvals \cup Denials
Place == {"new", "claim", "mint", "write", "approved", "denied", "pending",
          "expired", "refused", "lost"}

VARIABLES
  status,   \* CliAuthRequest.status
  token,    \* CliAuthRequest.token
  expired,  \* is expiresAt over?
  minted,   \* the CliToken rows
  deleted,  \* the tokens a user has deleted again
  at,       \* where each call is, or what it answered
  saw       \* the token a poll has read

loginVars == <<status, token, expired, minted, deleted, at, saw>>

LoginInit ==
  /\ status = "pending" /\ token = NoToken /\ expired = FALSE
  /\ minted = {} /\ deleted = {}
  /\ at = [c \in Calls |-> "new"]
  /\ saw = [p \in Polls |-> NoToken]

Go(c, l) == at' = [at EXCEPT ![c] = l]

-----------------------------------------------------------------------------
(* The CLI polls with its device code. *)

PollReadTokenOnly(p) ==
  /\ at[p] = "new"
  /\ saw' = [saw EXCEPT ![p] = token]
  /\ Go(p, IF ~expired /\ token # NoToken THEN "claim" ELSE "pending")
  /\ UNCHANGED <<status, token, expired, minted, deleted>>
PollRead(p) ==
  /\ at[p] = "new"
  /\ saw' = [saw EXCEPT ![p] = token]
  /\ Go(p, IF expired THEN "expired"
           ELSE IF status = "denied" THEN "denied"
           ELSE IF status = "approved" /\ token # NoToken THEN "claim"
           ELSE "pending")
  /\ UNCHANGED <<status, token, expired, minted, deleted>>

\* updateMany where the token is not null: only the poll that cleared it
\* answers with the token it has read.
PollClaimUnchecked(p) ==
  /\ at[p] = "claim"
  /\ token' = NoToken
  /\ Go(p, "approved")
  /\ UNCHANGED <<status, expired, minted, deleted, saw>>
PollClaim(p) ==
  /\ at[p] = "claim"
  /\ token' = NoToken
  /\ Go(p, IF token # NoToken THEN "approved" ELSE "pending")
  /\ UNCHANGED <<status, expired, minted, deleted, saw>>

-----------------------------------------------------------------------------
(* The panel. *)

ApproveRead(a) ==
  /\ at[a] = "new"
  /\ Go(a, IF ~expired /\ status = "pending" THEN "mint" ELSE "refused")
  /\ UNCHANGED <<status, token, expired, minted, deleted, saw>>

\* mintToken: the token exists before the CLI may fetch it.
MintLate(a) ==
  /\ at[a] = "mint"
  /\ Go(a, "write")
  /\ UNCHANGED <<status, token, expired, minted, deleted, saw>>
Mint(a) ==
  /\ at[a] = "mint"
  /\ minted' = minted \cup {a}
  /\ Go(a, "write")
  /\ UNCHANGED <<status, token, expired, deleted, saw>>

ApproveWrite(a) ==
  /\ at[a] = "write"
  /\ status' = "approved" /\ token' = a
  /\ Go(a, "approved")
  /\ UNCHANGED <<expired, minted, deleted, saw>>

\* denyDeviceAuth checks nothing.
DenyMisspelt(d) ==
  /\ at[d] = "new"
  /\ status' = "refused"
  /\ Go(d, "denied")
  /\ UNCHANGED <<token, expired, minted, deleted, saw>>
Deny(d) ==
  /\ at[d] = "new"
  /\ status' = "denied"
  /\ Go(d, "denied")
  /\ UNCHANGED <<token, expired, minted, deleted, saw>>

DeleteToken(k) ==
  /\ k \in minted
  /\ minted' = minted \ {k} /\ deleted' = deleted \cup {k}
  /\ UNCHANGED <<status, token, expired, at, saw>>

-----------------------------------------------------------------------------
(* Time passes; the server restarts, and the calls in flight are lost. *)

Expire ==
  /\ ~expired /\ expired' = TRUE
  /\ UNCHANGED <<status, token, minted, deleted, at, saw>>

Restart ==
  /\ \E c \in Calls : at[c] \in {"claim", "mint", "write"}
  /\ at' = [c \in Calls |-> IF at[c] \in {"claim", "mint", "write"} THEN "lost" ELSE at[c]]
  /\ UNCHANGED <<status, token, expired, minted, deleted, saw>>

LoginNext ==
  \/ \E p \in Polls : PollRead(p) \/ PollClaim(p)
  \/ \E a \in Approvals : ApproveRead(a) \/ Mint(a) \/ ApproveWrite(a) \/ DeleteToken(a)
  \/ \E d \in Denials : Deny(d)
  \/ Expire \/ Restart

LoginSpec == LoginInit /\ [][LoginNext]_loginVars

-----------------------------------------------------------------------------
\* Every variable stays within its type.
LoginTypeOK ==
  /\ status \in {"pending", "approved", "denied"}
  /\ token \in Approvals \cup {NoToken}
  /\ expired \in BOOLEAN
  /\ minted \subseteq Approvals /\ deleted \subseteq Approvals
  /\ at \in [Calls -> Place]
  /\ saw \in [Polls -> Approvals \cup {NoToken}]

Delivered == {p \in Polls : at[p] = "approved"}
Granted   == {a \in Approvals : at[a] = "approved"}

\* Tokens are handed out no more often than logins were approved: of several
\* polls that have read the same token only one answers with it, unless
\* another approval has stored a new one meanwhile.
NoMoreThanGranted == Cardinality(Delivered) <= Cardinality(Granted)

\* A token that reaches the CLI is one that an approval minted: it works until
\* the user deletes it.
DeliveredTokensWork == \A p \in Delivered : saw[p] \in minted \cup deleted

Denied ==
  /\ status = "denied"
  /\ \A c \in Calls : at[c] \notin {"claim", "mint", "write"}

\* Once a login is denied and no approval or claim is under way any more, it
\* stays denied and no poll is answered with a token, though the row may still
\* hold the token of an approval that came before the denial.
DenialIsFinal == [][Denied => Denied' /\ Delivered' = Delivered]_loginVars
=============================================================================

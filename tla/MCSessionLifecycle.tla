------------------------- MODULE MCSessionLifecycle -------------------------
(* TLC instances of SessionLifecycle. *)
EXTENDS SessionLifecycle

CONSTANTS r1, r2, r3

TwoRequests == {r1, r2}
ThreeRequests == {r1, r2, r3}
AllOps == {"stop", "pause", "resume", "recreate", "delete"}
=============================================================================

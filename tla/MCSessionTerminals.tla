------------------------- MODULE MCSessionTerminals -------------------------
(* TLC instances of SessionTerminals. *)
EXTENDS SessionTerminals

CONSTANTS r1, s1, s2

OneRequest == {r1}
AllOps == {"stop", "pause", "resume", "recreate", "delete"}
TwoStarts == {s1, s2}
OneAttach == {s2}
=============================================================================

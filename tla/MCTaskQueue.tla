---------------------------- MODULE MCTaskQueue ----------------------------
(* TLC instances of TaskQueue. *)
EXTENDS TaskQueue, TLC

CONSTANTS t1, s1, s2, x1, x2, r1, r2, r3, none

OneTask  == {t1}
TwoSlots == {s1, s2}
OneSlot  == {s1}
OneSession    == {x1}
TwoSessions   == {x1, x2}
TwoRequests   == {r1, r2}
OneRequest    == {r1}
ThreeRequests == {r1, r2, r3}

Symmetry == Permutations(Tasks) \cup Permutations(Slots)
            \cup Permutations(Sessions) \cup Permutations(Requests)

AllOps == {"enqueue", "build", "cancel", "close", "reopen", "update", "remove",
           "pause", "resume", "pullOn", "pullOff", "stopSession", "dropSession"}
=============================================================================

--------------------------- MODULE MCUxScheduler ---------------------------
(* Instances of UxScheduler for TLC.                                       *)
EXTENDS UxScheduler, TLC

CONSTANTS c1, c2, w1, w2, a1, a2, e1, e2, s1, s2

(* An endless ux_select and one with a timeout.                            *)
EndlessOrNot == {-1, 1}

(* Addresses, sockets and workers are interchangeable.                     *)
Symmetry == Permutations({a1, a2}) \cup Permutations({e1, e2})
              \cup Permutations({s1, s2}) \cup Permutations({w1, w2})
=============================================================================

------------------------------ MODULE MCLooper ------------------------------
(* Instances of Looper for TLC.                                            *)
EXTENDS Looper, TLC

CONSTANTS c1, c2, w1, w2, a1, a2, a3

(* Delays that are overdue already, due at once and lie ahead.             *)
LateOrSoon == {-1, 0, 1}

(* Addresses and workers are interchangeable; no property tells them apart.*)
Symmetry == Permutations({a1, a2, a3}) \cup Permutations({w1, w2})
=============================================================================

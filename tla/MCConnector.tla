---------------------------- MODULE MCConnector ----------------------------
(* Instances of Connector for TLC.                                         *)
EXTENDS Connector, TLC

CONSTANTS main, t1, t2, t3, t4, t5, read, write, n1, n2, k1, k2, f1, f2

(* The scheduler is stopped when no loop runs; connecttimeout destroys the *)
(* task that it is called for.                                             *)
StopOnly == {{"stop"}}

Symmetry == Permutations({t1, t2, t3, t4, t5}) \cup Permutations({n1, n2})
              \cup Permutations({k1, k2}) \cup Permutations({f1, f2})
=============================================================================

------------------------- MODULE MCThreadLifecycle -------------------------
(* Instances of ThreadLifecycle for TLC.                                   *)
EXTENDS ThreadLifecycle, TLC

CONSTANTS c1, c2, w1, w2, w3

=============================================================================

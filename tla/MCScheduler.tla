---------------------------- MODULE MCScheduler ----------------------------
(* Instances of Scheduler for TLC.                                         *)
EXTENDS Scheduler, TLC

CONSTANTS main, c1, w1, t1, t2, t3, read, write

(* A program that keeps every rule, and one that keeps none.               *)
AllOrNone == {Rules, {}}

(* Addresses are interchangeable.                                          *)
Symmetry == Permutations({t1, t2, t3})
=============================================================================

------------------------------- MODULE Monitor -------------------------------
(***************************************************************************)
(* What a looper and a uxscheduler have beside their lists: the handle of  *)
(* their worker's thread, one mutex and one condition variable, used as    *)
(* src/unix/thread_mutex.c and src/unix/thread_cond.c implement them.      *)
(*                                                                         *)
(* A critical section that no unlocked code looks into is one action,      *)
(* enabled when the mutex is free; mutex names the holder only where a     *)
(* section is split into several actions.                                  *)
(***************************************************************************)
EXTENDS AweThread

VARIABLES
    mutex,     \* who holds _mutex between two actions
    waitset    \* the threads blocked on _cond

lockVars == <<mutex, waitset>>

LockInit == mutex = NoThread /\ waitset = {}

Unlocked == mutex = NoThread

(* Mutant: a signal that wakes nobody.                                     *)
SignalNobody == UNCHANGED waitset

(* awe_cond_signal wakes exactly one waiter, if any; awe_cond_broadcast    *)
(* wakes all.  A woken thread is out of the wait set and needs the mutex.  *)
Signal ==
    \/ waitset = {} /\ UNCHANGED waitset
    \/ \E t \in waitset : waitset' = waitset \ {t}
Broadcast == waitset' = {}
=============================================================================

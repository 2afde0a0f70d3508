---------------------------- MODULE DelayedTasks ----------------------------
(***************************************************************************)
(* What a looper promises the program that uses it, without threads, locks *)
(* or addresses: a service that is open or closed, the tasks that were     *)
(* posted to it and wait for their time, and the one that is being run.    *)
(*                                                                         *)
(*   - a task is run at most once, and only if it was not cancelled while  *)
(*     it waited;                                                          *)
(*   - never before it is due, and never before a task that is due earlier *)
(*     or that was posted earlier for the same time;                       *)
(*   - one task at a time;                                                 *)
(*   - and none while the service is closed: it closes when no task runs.  *)
(***************************************************************************)
EXTENDS Integers

CONSTANT Delays   \* the delays a task may be posted with

VARIABLES
    open,      \* between the start and the return of stop
    waiting,   \* the tasks to be run
    current,   \* the task that is run: a set of at most one
    count,     \* how many tasks were posted
    clock

dtVars == <<open, waiting, current, count, clock>>

Task == [due : Int, rank : Nat]

(* s is to be run before t.                                                *)
Before(s, t) == s.due < t.due \/ (s.due = t.due /\ s.rank < t.rank)

DTInit ==
    /\ open = FALSE
    /\ waiting = {}
    /\ current = {}
    /\ count = 0
    /\ clock \in Int

Accept ==
    /\ open
    /\ \E delay \in Delays :
         waiting' = waiting \cup {[due |-> clock + delay, rank |-> count]}
    /\ count' = count + 1
    /\ UNCHANGED <<open, current, clock>>

Withdraw ==
    /\ open
    /\ \E t \in waiting : waiting' = waiting \ {t}
    /\ UNCHANGED <<open, current, count, clock>>

Begin ==
    /\ open
    /\ current = {}
    /\ \E t \in waiting :
         /\ t.due <= clock
         /\ \A s \in waiting \ {t} : Before(t, s)
         /\ current' = {t}
         /\ waiting' = waiting \ {t}
    /\ UNCHANGED <<open, count, clock>>

End == current' = {} /\ UNCHANGED <<open, waiting, count, clock>>

OpenUp ==
    /\ open' = TRUE
    /\ UNCHANGED <<waiting, current, count, clock>>

CloseDown ==
    /\ current = {}
    /\ open' = FALSE
    /\ UNCHANGED <<waiting, current, count, clock>>

Discard ==
    /\ ~open
    /\ waiting' = {}
    /\ UNCHANGED <<open, current, count, clock>>

ClockMoves == clock' \in Int /\ UNCHANGED <<open, waiting, current, count>>

DTNext ==
    \/ Accept \/ Withdraw \/ Begin \/ End
    \/ OpenUp \/ CloseDown \/ Discard \/ ClockMoves

DTSpec == DTInit /\ [][DTNext]_dtVars
=============================================================================

----------------------------- MODULE TimerTask -----------------------------
(***************************************************************************)
(* The list of delayed tasks of src/timer_task.c, shared by the looper and *)
(* by the uxscheduler.  A task is a heap cell and its id is its address:   *)
(* malloc may hand the address of a freed task to a later one.             *)
(***************************************************************************)
EXTENDS Integers, Sequences

CONSTANTS
    Addr,       \* the addresses timer_task_create may return
    Free,       \* the content of an address that is not allocated
    NULL        \* the null pointer

ASSUME NullIsNoAddress == NULL \notin Addr

VARIABLES
    heap,       \* the timer_task at each address, or Free
    tasks       \* _tasklist: the listed addresses, first to last

taskVars == <<heap, tasks>>

(* _proc_ms, _state, and (not in the code) the rank of the post that made  *)
(* the task, by which a reader can tell two tasks at one address apart.    *)
TimerTask == [proc_ms : Int, state : {"valid", "invalid"}, stamp : Nat]

ASSUME FreeIsNoTask == Free \notin TimerTask

TaskTypeOK ==
    /\ heap \in [Addr -> TimerTask \cup {Free}]
    /\ tasks \in Seq(Addr)

Listed == {tasks[i] : i \in DOMAIN tasks}

(* timer_task_list_init.                                                   *)
ListInit ==
    /\ heap = [a \in Addr |-> Free]
    /\ tasks = <<>>

(* list_add_tail in front of what follows the first k elements of s.       *)
AddAfter(s, k, e) == SubSeq(s, 1, k) \o <<e>> \o SubSeq(s, k + 1, Len(s))

(* Mutant: the scan stops at a task that is due earlier, not at an equal.  *)
GoesBeforeEquals(k, due) ==
    /\ k > 0 => due > heap[tasks[k]].proc_ms
    /\ \A j \in k + 1 .. Len(tasks) : due <= heap[tasks[j]].proc_ms

(* The place timer_task_list_insert chooses, scanning from the tail for    *)
(* the first task that is not due later than the new one: the new task     *)
(* goes after the first k, before all the others.                          *)
GoesAfter(k, due) ==
    /\ k > 0 => due >= heap[tasks[k]].proc_ms
    /\ \A j \in k + 1 .. Len(tasks) : due < heap[tasks[j]].proc_ms

(* Mutant: the state of the new task is not initialised.                   *)
ListInsertNoState(a, due, rank) ==
    /\ heap[a] = Free
    /\ heap' = [heap EXCEPT ![a] =
                  [proc_ms |-> due, state |-> "garbage", stamp |-> rank]]
    /\ \E k \in 0 .. Len(tasks) :
         /\ GoesAfter(k, due)
         /\ tasks' = AddAfter(tasks, k, a)

(* timer_task_list_insert of a task due at due, which malloc puts at a.    *)
ListInsert(a, due, rank) ==
    /\ heap[a] = Free
    /\ heap' = [heap EXCEPT ![a] =
                  [proc_ms |-> due, state |-> "valid", stamp |-> rank]]
    /\ \E k \in 0 .. Len(tasks) :
         /\ GoesAfter(k, due)
         /\ tasks' = AddAfter(tasks, k, a)

(* timer_task_list_first and timer_task_list_del of what it returned.      *)
ListFirst == Head(tasks)
ListDelFirst == tasks' = Tail(tasks) /\ UNCHANGED heap

(* timer_task_list_cancel: a listed task is marked, not removed; an id     *)
(* that is not listed changes nothing (the code returns -1).               *)
ListCancel(id) ==
    /\ heap' = IF id \in Listed THEN [heap EXCEPT ![id].state = "invalid"] ELSE heap
    /\ UNCHANGED tasks

(* timer_task_destroy of a task that is not listed.                        *)
TaskDestroy(a) ==
    /\ heap' = [heap EXCEPT ![a] = Free]
    /\ UNCHANGED tasks

(* Mutant: the list is emptied, its tasks are not freed.                   *)
ListClearLeaks == tasks' = <<>> /\ UNCHANGED heap

(* timer_task_list_clear: every listed task is freed.                      *)
ListClear ==
    /\ heap' = [a \in Addr |-> IF a \in Listed THEN Free ELSE heap[a]]
    /\ tasks' = <<>>

(* No task is listed twice.                                                *)
Distinct == \A i, j \in DOMAIN tasks : tasks[i] = tasks[j] => i = j

(* The list is in due order, and first come first served among tasks due   *)
(* at the same time.                                                       *)
InDueOrder ==
    \A i, j \in DOMAIN tasks : i < j =>
        LET s == heap[tasks[i]]
            t == heap[tasks[j]]
        IN  s.proc_ms < t.proc_ms \/ (s.proc_ms = t.proc_ms /\ s.stamp < t.stamp)
=============================================================================

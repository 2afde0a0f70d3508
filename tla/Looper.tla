------------------------------- MODULE Looper -------------------------------
(***************************************************************************)
(* src/looper.c: a thread that runs delayed tasks, and the calls made on   *)
(* it by the program's threads and by the tasks it runs.                   *)
(*                                                                         *)
(* Two critical sections are split, because unlocked code of the worker    *)
(* sees their middle or because the clock moves inside them: the one of    *)
(* awe_looper_start, and the one in which the worker computes how long to  *)
(* sleep.  Unlocked reads and writes are actions of their own.             *)
(***************************************************************************)
EXTENDS Monitor, TimerTask

CONSTANTS
    Clients,       \* the threads of the program
    Owners,        \* the threads that may call start, stop and destroy
    Delays,        \* the delay_ms a post may be given
    MaxTime,       \* bound on the clock
    MaxPosts,      \* bound on the number of posts
    ClockSettings, \* the times CLOCK_REALTIME may be set to
    ClearAnytime   \* may awe_looper_clear be called while the looper runs?

Threads == Clients \cup Workers

ASSUME ThreadsDistinct == NoThread \notin Clients /\ Clients \cap Workers = {}
ASSUME OwnersAreThreads == Owners \subseteq Threads
ASSUME NumbersAreNumbers ==
    /\ Delays \subseteq Int
    /\ MaxTime \in Nat
    /\ MaxPosts \in Nat
    /\ ClockSettings \subseteq Int
    /\ ClearAnytime \in BOOLEAN

VARIABLES
    started,   \* _started
    pc,        \* where each thread is
    first,     \* first_task of each worker (line 48)
    task,      \* the task a worker sleeps for (line 53)
    delay_ms,  \* its delay_ms (line 55)
    deadline,  \* when its timed wait ends
    now,       \* CLOCK_REALTIME in milliseconds
    posted,    \* how many posts succeeded
    life,      \* of the looper object: "live", "destroying" or "freed"
    fault      \* why the program is lost, or "none"

localVars == <<first, task, delay_ms, deadline>>
clockVars == <<now, posted>>
vars == <<threadVars, taskVars, started, lockVars, pc, localVars, clockVars, life, fault>>

WorkerPCs == {"none", "loop", "lock", "check", "pick", "delay", "timed", "run",
              "proc", "drop", "leave", "forget", "pend", "halt"}
ClientPCs == {"idle", "destroy", "clear", "dispose"}
CallPCs == {"arm", "mark", "publish", "request", "join"}
Faults == {"none", "tid", "create", "self", "empty", "uaf"}

(* Where each kind of thread can be.                                       *)
PcOK ==
    /\ \A w \in Workers : pc[w] \in WorkerPCs \cup CallPCs
    /\ \A c \in Clients : pc[c] \in ClientPCs \cup CallPCs

TypeOK ==
    /\ ThreadTypeOK
    /\ TaskTypeOK
    /\ started \in BOOLEAN
    /\ mutex \in Threads \cup {NoThread}
    /\ waitset \subseteq Threads
    /\ pc \in [Threads -> WorkerPCs \cup ClientPCs \cup CallPCs]
    /\ PcOK
    /\ first \in [Workers -> Addr \cup {NULL}]
    /\ task \in [Workers -> Addr \cup {NULL}]
    /\ delay_ms \in [Workers -> Int]
    /\ deadline \in [Workers -> Int]
    /\ now \in Int
    /\ posted \in Nat
    /\ life \in {"live", "destroying", "freed"}
    /\ fault \in Faults

(* awe_looper_create.                                                      *)
Init ==
    /\ ThreadCreate
    /\ ListInit
    /\ started = FALSE
    /\ LockInit
    /\ pc = [t \in Threads |-> IF t \in Workers THEN "none" ELSE "idle"]
    /\ first = [w \in Workers |-> NULL]
    /\ task = [w \in Workers |-> NULL]
    /\ delay_ms = [w \in Workers |-> 0]
    /\ deadline = [w \in Workers |-> 0]
    /\ now = 0
    /\ posted = 0
    /\ life = "live"
    /\ fault = "none"
-----------------------------------------------------------------------------
(* Calls.                                                                  *)

Goto(t, label) == pc' = [pc EXCEPT ![t] = label]

(* A step in which a thread only moves on.                                 *)
MoveOn(t, from, to) ==
    /\ pc[t] = from /\ Goto(t, to)
    /\ UNCHANGED <<threadVars, taskVars, started, lockVars, localVars, clockVars, life, fault>>

(* Where a thread makes its calls from: a worker from a task's callback.   *)
Resting(t) == IF t \in Workers THEN "proc" ELSE "idle"

(* Destroying a looper is the last call on it: the program's threads make  *)
(* no other, but callbacks still run until the worker has stopped.         *)
CanCall(t) ==
    /\ pc[t] = Resting(t)
    /\ t \in Clients => life = "live"

(* A failed assertion or an undefined behaviour ends the program.          *)
Abort(why) ==
    /\ fault' = why
    /\ UNCHANGED <<threadVars, taskVars, started, lockVars, pc, localVars, clockVars, life>>
-----------------------------------------------------------------------------
(* awe_looper_start.                                                       *)

(* The lock, the test of _started and awe_thread_start up to the creation  *)
(* of the thread.  Line 126 aborts unless the thread could be started.     *)
StartLock(t) ==
    /\ t \in Owners /\ CanCall(t) /\ Unlocked
    /\ ~started
    /\ \/ \E w \in Workers :
            /\ pc[w] = "none"
            /\ Spawn(w)
            /\ pc' = [pc EXCEPT ![t] = "arm", ![w] = "loop"]
            /\ mutex' = t
            /\ UNCHANGED <<taskVars, started, waitset, localVars, clockVars, life, fault>>
       \/ tid # NoThread /\ Abort("tid")
       \/ tid = NoThread /\ Abort("create")

StartArm(t) ==
    /\ pc[t] = "arm"
    /\ ArmExitPending
    /\ Goto(t, "mark")
    /\ UNCHANGED <<taskVars, started, lockVars, localVars, clockVars, life, fault>>

StartMark(t) ==
    /\ pc[t] = "mark"
    /\ MarkRunning
    /\ Goto(t, "publish")
    /\ UNCHANGED <<taskVars, started, lockVars, localVars, clockVars, life, fault>>

StartPublish(t) ==
    /\ pc[t] = "publish"
    /\ started' = TRUE
    /\ mutex' = NoThread
    /\ Goto(t, Resting(t))
    /\ UNCHANGED <<threadVars, taskVars, waitset, localVars, clockVars, life, fault>>
-----------------------------------------------------------------------------
(* awe_looper_stop, called as such or by awe_looper_destroy.               *)

StopLock(t) ==
    /\ \/ t \in Owners /\ CanCall(t)
       \/ pc[t] = "destroy"
    /\ Unlocked
    /\ started
    /\ started' = FALSE
    /\ Signal
    /\ Goto(t, "request")
    /\ UNCHANGED <<threadVars, taskVars, mutex, localVars, clockVars, life, fault>>

(* Line 144 aborts when the looper's thread stops its own looper.          *)
StopRequest(t) ==
    /\ pc[t] = "request"
    /\ \/ /\ tid = t
          /\ Abort("self")
       \/ /\ tid # t
          /\ RequestExit
          /\ Goto(t, "join")
          /\ UNCHANGED <<taskVars, started, lockVars, localVars, clockVars, life, fault>>

(* Mutant: stop does not wait for the thread.                              *)
StopDoesNotJoin(t) ==
    /\ pc[t] = "join" /\ t \notin waitset /\ Unlocked
    /\ Goto(t, IF t \in Clients /\ life = "destroying" THEN "clear" ELSE Resting(t))
    /\ UNCHANGED <<threadVars, taskVars, started, lockVars, localVars, clockVars, life, fault>>

(* One turn of the loop that waits, 10 ms at a time, for the thread.       *)
StopJoin(t) ==
    /\ pc[t] = "join" /\ t \notin waitset /\ Unlocked
    /\ \/ /\ running
          /\ waitset' = waitset \cup {t}
          /\ UNCHANGED pc
       \/ /\ ~running
          /\ Goto(t, IF t \in Clients /\ life = "destroying" THEN "clear" ELSE Resting(t))
          /\ UNCHANGED waitset
    /\ UNCHANGED <<threadVars, taskVars, started, mutex, localVars, clockVars, life, fault>>
-----------------------------------------------------------------------------
(* awe_looper_destroy: stop, clear, then the members and the object are    *)
(* freed.  A worker that still exists then touches freed memory.           *)

Destroy(t) ==
    /\ t \in Owners \cap Clients /\ CanCall(t)
    /\ \A c \in Clients : pc[c] = "idle"
    /\ life' = "destroying"
    /\ Goto(t, "destroy")
    /\ UNCHANGED <<threadVars, taskVars, started, lockVars, localVars, clockVars, fault>>

DestroyStopped(t) == Unlocked /\ ~started /\ MoveOn(t, "destroy", "clear")

DestroyClear(t) ==
    /\ pc[t] = "clear" /\ Unlocked
    /\ ListClear
    /\ Goto(t, "dispose")
    /\ UNCHANGED <<threadVars, started, lockVars, localVars, clockVars, life, fault>>

DestroyFree(t) ==
    /\ pc[t] = "dispose"
    /\ \/ /\ \A w \in Workers : pc[w] = "none"
          /\ life' = "freed"
          /\ Goto(t, "idle")
          /\ UNCHANGED <<threadVars, taskVars, started, lockVars, localVars, clockVars, fault>>
       \/ /\ \E w \in Workers : pc[w] # "none"
          /\ Abort("uaf")
-----------------------------------------------------------------------------
(* awe_looper_post, awe_looper_cancel and awe_looper_clear.  Posting to a  *)
(* looper that is not started returns NULL, cancelling returns -1: neither *)
(* changes anything.                                                       *)

Post(t, a, d) ==
    /\ CanCall(t) /\ Unlocked
    /\ posted < MaxPosts /\ now + d <= MaxTime
    /\ started
    /\ ListInsert(a, now + d, posted)
    /\ posted' = posted + 1
    /\ Signal
    /\ UNCHANGED <<threadVars, started, mutex, pc, localVars, now, life, fault>>

Cancel(t, id) ==
    /\ CanCall(t) /\ Unlocked
    /\ started
    /\ ListCancel(id)
    /\ UNCHANGED <<threadVars, started, lockVars, pc, localVars, clockVars, life, fault>>

Clear(t) ==
    /\ CanCall(t) /\ Unlocked
    /\ ClearAnytime \/ (t \in Owners /\ ~started)
    /\ ListClear
    /\ UNCHANGED <<threadVars, started, lockVars, pc, localVars, clockVars, life, fault>>
-----------------------------------------------------------------------------
(* looper_thread_process, run by a worker w.                               *)

Loop(w) == MoveOn(w, "loop", IF exit_pending THEN "leave" ELSE "lock")

(* Mutant: the wait does not look at _started.                             *)
NoTask == tasks = <<>>

(* Line 39.                                                                *)
NothingToDo == started /\ tasks = <<>>

(* Lines 38-42; a woken worker tests the condition again.                  *)
LockWait(w) ==
    /\ pc[w] = "lock" /\ w \notin waitset /\ Unlocked
    /\ \/ /\ NothingToDo
          /\ waitset' = waitset \cup {w}
          /\ UNCHANGED pc
       \/ /\ ~NothingToDo
          /\ Goto(w, "check")
          /\ UNCHANGED waitset
    /\ UNCHANGED <<threadVars, taskVars, started, mutex, localVars, clockVars, life, fault>>

(* Line 44, without the lock.                                              *)
CheckStarted(w) == MoveOn(w, "check", IF started THEN "pick" ELSE "leave")

(* Mutant: a task is taken one millisecond early.                          *)
FirstIsDueEarly == heap[ListFirst].proc_ms <= now + 1

(* Lines 52-56.                                                            *)
FirstIsDue == heap[ListFirst].proc_ms <= now

(* Lines 50-59: the first task is taken if it is due.  The list is not     *)
(* tested again: the first of an empty list is not a task.                 *)
PickDue(w) ==
    /\ pc[w] = "pick" /\ Unlocked
    /\ tasks # <<>>
    /\ FirstIsDue
    /\ ListDelFirst
    /\ first' = [first EXCEPT ![w] = ListFirst]
    /\ Goto(w, "run")
    /\ UNCHANGED <<threadVars, started, lockVars, task, delay_ms, deadline, clockVars, life, fault>>

PickLater(w) ==
    /\ pc[w] = "pick" /\ Unlocked
    /\ tasks # <<>>
    /\ ~FirstIsDue
    /\ task' = [task EXCEPT ![w] = ListFirst]
    /\ delay_ms' = [delay_ms EXCEPT ![w] = heap[ListFirst].proc_ms - now]
    /\ mutex' = w
    /\ Goto(w, "delay")
    /\ UNCHANGED <<threadVars, taskVars, started, waitset, first, deadline, clockVars, life, fault>>

PickNothing(w) ==
    /\ pc[w] = "pick" /\ Unlocked
    /\ tasks = <<>>
    /\ Abort("empty")

(* Line 60: awe_cond_timedwait reads the clock a second time.              *)
TimedWait(w) ==
    /\ pc[w] = "delay"
    /\ deadline' = [deadline EXCEPT ![w] = now + delay_ms[w]]
    /\ delay_ms' = [delay_ms EXCEPT ![w] = 0]
    /\ waitset' = waitset \cup {w}
    /\ mutex' = NoThread
    /\ Goto(w, "timed")
    /\ UNCHANGED <<threadVars, taskVars, started, first, task, clockVars, life, fault>>

(* The worker has the mutex back, gives it up (line 62) and loops.         *)
WakeUp(w) ==
    /\ pc[w] = "timed" /\ w \notin waitset /\ Unlocked
    /\ task' = [task EXCEPT ![w] = NULL]
    /\ deadline' = [deadline EXCEPT ![w] = 0]
    /\ Goto(w, "loop")
    /\ UNCHANGED <<threadVars, taskVars, started, lockVars, first, delay_ms, clockVars, life, fault>>

(* Mutant: the state of the task is not looked at.                         *)
RunUnchecked(w) == MoveOn(w, "run", "proc")

(* Lines 65-66: a task that was cancelled in time is not run.              *)
Run(w) == MoveOn(w, "run", IF heap[first[w]].state = "valid" THEN "proc" ELSE "drop")

Return(w) == MoveOn(w, "proc", "drop")

Drop(w) ==
    /\ pc[w] = "drop"
    /\ TaskDestroy(first[w])
    /\ first' = [first EXCEPT ![w] = NULL]
    /\ Goto(w, "loop")
    /\ UNCHANGED <<threadVars, started, lockVars, task, delay_ms, deadline, clockVars, life, fault>>

Leave(w) ==
    /\ pc[w] = "leave" /\ Unlocked
    /\ Broadcast
    /\ Goto(w, "forget")
    /\ UNCHANGED <<threadVars, taskVars, started, mutex, localVars, clockVars, life, fault>>

(* The end of dummy_worker, without the lock.                              *)
Forget(w) ==
    /\ pc[w] = "forget" /\ ForgetTid /\ Goto(w, "pend")
    /\ UNCHANGED <<taskVars, started, lockVars, localVars, clockVars, life, fault>>

Pend(w) ==
    /\ pc[w] = "pend" /\ PendAtExit /\ Goto(w, "halt")
    /\ UNCHANGED <<taskVars, started, lockVars, localVars, clockVars, life, fault>>

Halt(w) ==
    /\ pc[w] = "halt" /\ ClearRunning /\ Goto(w, "none")
    /\ UNCHANGED <<taskVars, started, lockVars, localVars, clockVars, life, fault>>
-----------------------------------------------------------------------------
(* The environment: wakeups and the clock.                                 *)

(* The timed waits of stop end at any time, the worker's at its deadline,  *)
(* or at the end of the modelled time.                                     *)
Expired(t) ==
    \/ pc[t] = "join"
    \/ pc[t] = "timed" /\ (now >= deadline[t] \/ now >= MaxTime)

Timeout(t) ==
    /\ t \in waitset /\ Expired(t)
    /\ waitset' = waitset \ {t}
    /\ UNCHANGED <<threadVars, taskVars, started, mutex, pc, localVars, clockVars, life, fault>>

Spurious(t) ==
    /\ t \in waitset
    /\ waitset' = waitset \ {t}
    /\ UNCHANGED <<threadVars, taskVars, started, mutex, pc, localVars, clockVars, life, fault>>

Tick ==
    /\ now < MaxTime
    /\ now' = now + 1
    /\ UNCHANGED <<threadVars, taskVars, started, lockVars, pc, localVars, posted, life, fault>>

SetClock ==
    /\ now' \in ClockSettings
    /\ UNCHANGED <<threadVars, taskVars, started, lockVars, pc, localVars, posted, life, fault>>
-----------------------------------------------------------------------------
OwnerStep(t) ==
    \/ StartLock(t) \/ StopLock(t) \/ Destroy(t)
    \/ StartArm(t) \/ StartMark(t) \/ StartPublish(t)
    \/ StopRequest(t) \/ StopJoin(t)
    \/ DestroyStopped(t) \/ DestroyClear(t) \/ DestroyFree(t)

UserStep(t) ==
    \/ \E a \in Addr, d \in Delays : Post(t, a, d)
    \/ \E id \in Addr : Cancel(t, id)
    \/ Clear(t)

WorkerStep(w) ==
    \/ Loop(w) \/ LockWait(w) \/ CheckStarted(w)
    \/ PickDue(w) \/ PickLater(w) \/ PickNothing(w) \/ TimedWait(w) \/ WakeUp(w)
    \/ Run(w) \/ Return(w) \/ Drop(w)
    \/ Leave(w) \/ Forget(w) \/ Pend(w) \/ Halt(w)

Working == fault = "none" /\ life # "freed"

(* The object is gone or the program is.                                   *)
Terminated == ~Working /\ UNCHANGED vars

Next ==
    \/ /\ Working
       /\ \/ \E t \in Threads : OwnerStep(t) \/ UserStep(t) \/ Timeout(t) \/ Spurious(t)
          \/ \E w \in Workers : WorkerStep(w)
          \/ Tick \/ SetClock
    \/ Terminated

Spec == Init /\ [][Next]_vars

(* The scheduler runs every thread, callbacks return, a call that was made *)
(* goes on, timed waits end, and the clock advances.  A thread that needs  *)
(* the mutex gets it when it is free for good; nothing is assumed of the   *)
(* calls the program makes, of spurious wakeups or of the setting of the   *)
(* clock.                                                                  *)
CallStep(t) ==
    \/ StartArm(t) \/ StartMark(t) \/ StartPublish(t)
    \/ StopRequest(t) \/ StopJoin(t)
    \/ pc[t] = "destroy" /\ StopLock(t)
    \/ DestroyStopped(t) \/ DestroyClear(t) \/ DestroyFree(t)

Fairness ==
    /\ \A w \in Workers : WF_vars(Working /\ WorkerStep(w))
    /\ \A t \in Threads : WF_vars(Working /\ CallStep(t))
    /\ \A t \in Threads : WF_vars(Working /\ Timeout(t))
    /\ WF_vars(Working /\ Tick)

FairSpec == Spec /\ Fairness
-----------------------------------------------------------------------------
(* Properties of every program that uses a looper, whoever its owners are. *)

(* Every timer_task that was allocated has exactly one owner: it is in the *)
(* list, once, or in the hands of one worker.  So no task is freed twice,  *)
(* used after it was freed, or leaked, in spite of clear, of cancel and of *)
(* a callback that posts.                                                  *)
HeapOwnership ==
    /\ Distinct
    /\ \A a \in Addr : heap[a] # Free <=> a \in Listed \/ \E w \in Workers : first[w] = a
    /\ \A w \in Workers : first[w] \notin Listed
    /\ \A v, w \in Workers : first[v] = first[w] /\ first[v] # NULL => v = w

(* A task that awe_looper_cancel marked in time never runs: the cell whose *)
(* callback is running has never been marked, not even when another id     *)
(* names the same address.                                                 *)
InCallback(w) == pc[w] \in {"proc"} \cup CallPCs

CancelledNeverRuns ==
    \A w \in Workers : InCallback(w) => heap[first[w]].state = "valid"

(* InDueOrder, of TimerTask: the list is sorted by due time, tasks due at  *)
(* the same time in the order of their posts, wherever the clock is set.   *)
-----------------------------------------------------------------------------
(* Properties of a program in which one thread starts, stops and destroys  *)
(* the looper and clears it only when it is stopped.                       *)

(* No worker sleeps through work: one that waits for a task has an empty   *)
(* list and a started looper, one that waits for a due time waits for the  *)
(* task that is first.                                                     *)
NoLostWakeup ==
    \A w \in Workers \cap waitset :
        /\ pc[w] = "lock" => started /\ tasks = <<>>
        /\ pc[w] = "timed" => tasks # <<>> /\ task[w] = ListFirst

(* No worker sleeps on a looper that was stopped.  It does: awe_looper_stop*)
(* may run between the test of line 44 and the lock of line 50, and its    *)
(* signal is then gone when the worker sleeps until the first task is due. *)
NoSleepWhenStopped == \A w \in Workers \cap waitset : started

(* None of the assertions of lines 126 and 144 fails, line 53 never takes  *)
(* the first of an empty list, and the looper is never freed under its     *)
(* worker; only pthread_create may fail.                                   *)
NoFault == fault \in {"none", "create"}

(* There is never more than one worker, and while the looper's thread      *)
(* handle is free for a start, the one before it is past its last task.    *)
OneWorker ==
    \A v, w \in Workers :
        /\ pc[v] # "none" /\ pc[w] # "none" => v = w
        /\ tid # w => pc[w] \in {"none", "pend", "halt"}

(* A task that is posted and not cancelled is run, unless the looper is    *)
(* stopped.  The last disjunct is the worker that saw the _exit_pending    *)
(* of before its own start and left at once: the looper is then started    *)
(* and has no thread (see ThreadLifecycle).                                *)
Deserted == \A w \in Workers : pc[w] \in {"none", "leave", "forget", "pend", "halt"}

Served ==
    \A a \in Addr :
        a \in Listed /\ heap[a].state = "valid"
            ~> a \notin Listed \/ ~started \/ Deserted \/ ~Working

(* awe_looper_stop returns, and so does awe_looper_destroy, whatever state *)
(* the looper is in.                                                       *)
CallsReturn ==
    /\ \A t \in Threads :
         pc[t] \in {"request", "join"} ~> pc[t] \in {"idle", "proc", "clear"} \/ ~Working
    /\ life = "destroying" ~> ~Working
-----------------------------------------------------------------------------
(* The promise a looper with one owner keeps: it implements DelayedTasks.  *)
(* It is open until stop has returned; cancelled tasks that are still in   *)
(* the list are not waiting; a task is current from the moment it leaves   *)
(* the list until its callback returns.                                    *)
AsTask(a) == [due |-> heap[a].proc_ms, rank |-> heap[a].stamp]

Valid(a) == heap[a].state = "valid"

Promise == INSTANCE DelayedTasks WITH
    open <- started \/ \E t \in Threads : pc[t] \in {"request", "join"},
    waiting <- {AsTask(a) : a \in {b \in Listed : Valid(b)}},
    current <- {AsTask(first[w]) : w \in {v \in Workers :
                    (pc[v] = "run" \/ InCallback(v)) /\ Valid(first[v])}},
    count <- posted,
    clock <- now

(* Every behaviour of the looper is one of the abstract service.           *)
KeepsPromise == Promise!DTSpec
=============================================================================

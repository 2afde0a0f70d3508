---------------------------- MODULE UxScheduler ----------------------------
(***************************************************************************)
(* src/uxscheduler.c: a thread that waits for the sockets it was given,    *)
(* calls their handlers, and runs delayed tasks, one after each wait.      *)
(*                                                                         *)
(* The lists are changed under _mutex, but the worker looks a uxevent up   *)
(* and calls it without the mutex.  A look-up is one step here: that the   *)
(* walk through the list can itself meet a change is not modelled, and     *)
(* neither are durations of ux_select and of awe_uxscheduler_rm's wait: a  *)
(* timed wait may end at any time.                                         *)
(***************************************************************************)
EXTENDS Monitor, TimerTask, UxEvents

CONSTANTS
    Clients,     \* the threads of the program
    Owners,      \* the threads that may call start, stop and destroy
    Removers,    \* the threads that may call rm
    DelaysMs,    \* the _delayMs that start may be given
    Delays,      \* the delay_ms a post may be given
    MaxTime,     \* bound on the clock
    MaxPosts     \* bound on the number of posts

Threads == Clients \cup Workers

ASSUME ThreadsDistinct == NoThread \notin Clients /\ Clients \cap Workers = {}
ASSUME RolesAreThreads == Owners \subseteq Threads /\ Removers \subseteq Threads
ASSUME NumbersAreNumbers ==
    /\ DelaysMs \subseteq Int
    /\ Delays \subseteq Int
    /\ MaxTime \in Nat
    /\ MaxPosts \in Nat

VARIABLES
    started,    \* _started
    delayMs,    \* _delayMs
    have_rmopt, \* _have_rmopt
    pc,         \* where each thread is
    watched,    \* the sockets ux_select waits for (rset, wset), then those
                \* that are ready and whose handlers are still to be called
    forever,    \* may ux_select wait for ever? (line 138)
    uxe,        \* the uxevent a worker found
    called,     \* the socket of the handler that a worker calls
    removing,   \* the socket whose removal a thread waits for
    first,      \* first_task of each worker
    now,        \* CLOCK_REALTIME in milliseconds
    posted,     \* how many posts succeeded
    life,       \* of the object: "live", "destroying" or "freed"
    fault       \* why the program is lost, or "none"

schedVars == <<started, delayMs, have_rmopt>>
selectVars == <<watched, forever, uxe, called>>
clockVars == <<now, posted>>
sharedVars == <<threadVars, lockVars, taskVars, uxVars, schedVars>>
restVars == <<selectVars, removing, first, clockVars, life, fault>>
vars == <<sharedVars, pc, restVars>>

NoUfd == NoUxe

WorkerPCs == {"none", "loop", "lock", "check", "prepare", "select", "find", "call",
              "event", "timer", "run", "proc", "drop", "leave", "forget", "pend", "halt"}
ClientPCs == {"idle", "destroy", "clear", "cleartasks", "dispose", "arm", "mark", "rm"}

(* A socket with the condition it is watched for, or ready for.            *)
Interest == [ufd : Ufds, mask : Masks]

TypeOK ==
    /\ ThreadTypeOK /\ TaskTypeOK /\ UxTypeOK
    /\ mutex \in Threads \cup {NoThread}
    /\ waitset \subseteq Threads
    /\ started \in BOOLEAN /\ delayMs \in Int /\ have_rmopt \in BOOLEAN
    /\ pc \in [Threads -> WorkerPCs \cup ClientPCs \cup {"join"}]
    /\ watched \in [Workers -> Seq(Interest)]
    /\ forever \in [Workers -> BOOLEAN]
    /\ uxe \in [Workers -> UxAddr \cup {NoUxe}]
    /\ called \in [Workers -> Ufds \cup {NoUfd}]
    /\ removing \in [Threads -> Ufds \cup {NoUfd}]
    /\ first \in [Workers -> Addr \cup {NULL}]
    /\ now \in Int /\ posted \in Nat
    /\ life \in {"live", "destroying", "freed"}
    /\ fault \in {"none", "tid", "create", "select", "uaf"}

(* awe_uxscheduler_create.                                                 *)
Init ==
    /\ ThreadCreate /\ LockInit /\ ListInit /\ UxInit
    /\ started = FALSE /\ delayMs = 1000 /\ have_rmopt = FALSE
    /\ pc = [t \in Threads |-> IF t \in Workers THEN "none" ELSE "idle"]
    /\ watched = [w \in Workers |-> <<>>]
    /\ forever = [w \in Workers |-> FALSE]
    /\ uxe = [w \in Workers |-> NoUxe]
    /\ called = [w \in Workers |-> NoUfd]
    /\ removing = [t \in Threads |-> NoUfd]
    /\ first = [w \in Workers |-> NULL]
    /\ now = 0 /\ posted = 0 /\ life = "live" /\ fault = "none"
-----------------------------------------------------------------------------
Goto(t, label) == pc' = [pc EXCEPT ![t] = label]

(* A step in which a thread only moves on.                                 *)
MoveOn(t, from, to) == pc[t] = from /\ Goto(t, to) /\ UNCHANGED <<sharedVars, restVars>>

(* Where a thread makes its calls from: a worker from the handler of a     *)
(* socket or from a task's callback.                                       *)
Resting(t) ==
    IF t \in Clients THEN "idle" ELSE IF uxe[t] # NoUxe THEN "event" ELSE "proc"

CanCall(t) ==
    /\ pc[t] = Resting(t)
    /\ t \in Clients => life = "live"

(* A failed assertion or an undefined behaviour ends the program.          *)
Abort(why) ==
    /\ fault' = why
    /\ UNCHANGED <<sharedVars, pc, selectVars, removing, first, clockVars, life>>
-----------------------------------------------------------------------------
(* awe_uxscheduler_start: _started is set before the thread exists.  A     *)
(* start of a started uxscheduler changes nothing.                         *)
StartLock(t) ==
    /\ t \in Owners /\ CanCall(t) /\ Unlocked
    /\ ~started
    /\ \/ \E w \in Workers, d \in DelaysMs :
            /\ pc[w] = "none"
            /\ Spawn(w)
            /\ started' = TRUE
            /\ delayMs' = IF d <= 60000 THEN d ELSE 1000
            /\ pc' = [pc EXCEPT ![t] = "arm", ![w] = "loop"]
            /\ mutex' = t
            /\ UNCHANGED <<waitset, taskVars, uxVars, have_rmopt, restVars>>
       \/ tid # NoThread /\ Abort("tid")
       \/ tid = NoThread /\ Abort("create")

StartArm(t) ==
    /\ pc[t] = "arm"
    /\ ArmExitPending
    /\ Goto(t, "mark")
    /\ UNCHANGED <<lockVars, taskVars, uxVars, schedVars, restVars>>

StartMark(t) ==
    /\ pc[t] = "mark"
    /\ MarkRunning
    /\ mutex' = NoThread
    /\ Goto(t, Resting(t))
    /\ UNCHANGED <<waitset, taskVars, uxVars, schedVars, restVars>>
-----------------------------------------------------------------------------
(* awe_uxscheduler_stop, called as such or by awe_uxscheduler_destroy.  A  *)
(* stop of a uxscheduler that is not started changes nothing.              *)
StopLock(t) ==
    /\ (t \in Owners /\ CanCall(t)) \/ pc[t] = "destroy"
    /\ Unlocked
    /\ started
    /\ started' = FALSE
    /\ RequestExit
    /\ Signal
    /\ Goto(t, "join")
    /\ UNCHANGED <<mutex, taskVars, uxVars, delayMs, have_rmopt, restVars>>

(* One turn of the loop that waits, 10 ms at a time, for the thread.       *)
StopJoin(t) ==
    /\ pc[t] = "join" /\ t \notin waitset /\ Unlocked
    /\ \/ /\ running
          /\ waitset' = waitset \cup {t}
          /\ UNCHANGED pc
       \/ /\ ~running
          /\ Goto(t, IF t \in Clients /\ life = "destroying" THEN "clear" ELSE Resting(t))
          /\ UNCHANGED waitset
    /\ UNCHANGED <<threadVars, mutex, taskVars, uxVars, schedVars, restVars>>
-----------------------------------------------------------------------------
(* awe_uxscheduler_destroy: stop, clear, then everything is freed.  It is  *)
(* the last call of the program's threads.                                 *)
Destroy(t) ==
    /\ t \in Owners \cap Clients /\ CanCall(t)
    /\ \A c \in Clients : pc[c] = "idle"
    /\ life' = "destroying"
    /\ Goto(t, "destroy")
    /\ UNCHANGED <<sharedVars, selectVars, removing, first, clockVars, fault>>

DestroyStopped(t) == Unlocked /\ ~started /\ MoveOn(t, "destroy", "clear")

DestroyClear(t) ==
    /\ pc[t] = "clear" /\ Unlocked
    /\ UxClear
    /\ Goto(t, "cleartasks")
    /\ UNCHANGED <<threadVars, lockVars, taskVars, schedVars, restVars>>

(* Line 257, without the lock.                                             *)
DestroyClearTasks(t) ==
    /\ pc[t] = "cleartasks"
    /\ ListClear
    /\ Goto(t, "dispose")
    /\ UNCHANGED <<threadVars, lockVars, uxVars, schedVars, restVars>>

DestroyFree(t) ==
    /\ pc[t] = "dispose"
    /\ \/ /\ \A w \in Workers : pc[w] = "none"
          /\ life' = "freed"
          /\ Goto(t, "idle")
          /\ UNCHANGED <<sharedVars, selectVars, removing, first, clockVars, fault>>
       \/ /\ \E w \in Workers : pc[w] # "none"
          /\ Abort("uaf")
-----------------------------------------------------------------------------
(* The sockets.  None of these calls looks at _started, but rm does not    *)
(* wait for a worker that was not started.                                 *)

(* Mutant: the socket is not looked for.                                   *)
AddAgain(t, ufd, conditions) ==
    /\ CanCall(t) /\ Unlocked
    /\ \E a \in UxAddr : UxAppend(a, ufd, conditions)
    /\ Signal
    /\ UNCHANGED <<threadVars, mutex, taskVars, schedVars, pc, restVars>>

(* awe_uxscheduler_add with some condition; with none it is rm.            *)
Add(t, ufd, conditions) ==
    /\ CanCall(t) /\ Unlocked
    /\ \/ UxFind(ufd) = {} /\ \E a \in UxAddr : UxAppend(a, ufd, conditions)
       \/ \E a \in UxFind(ufd) : UxWatchFor(a, conditions)
    /\ Signal
    /\ UNCHANGED <<threadVars, mutex, taskVars, schedVars, pc, restVars>>

Enable(t, ufd, events) ==
    /\ CanCall(t) /\ Unlocked
    /\ \E a \in UxFind(ufd) : UxWatchFor(a, uxheap[a].conditionSet \cup events)
    /\ UNCHANGED <<threadVars, lockVars, taskVars, schedVars, pc, restVars>>

Disable(t, ufd, events) ==
    /\ CanCall(t) /\ Unlocked
    /\ \E a \in UxFind(ufd) : UxWatchFor(a, uxheap[a].conditionSet \ events)
    /\ UNCHANGED <<threadVars, lockVars, taskVars, schedVars, pc, restVars>>

(* awe_uxscheduler_rm.  A thread that is not the worker then waits, once,  *)
(* to be woken; a socket that is not watched is nothing to wait for.       *)
Rm(t, ufd) ==
    /\ t \in Removers /\ CanCall(t) /\ Unlocked
    /\ \E a \in UxFind(ufd) : UxRemove(a)
    /\ \/ /\ started /\ tid # t
          /\ have_rmopt' = TRUE
          /\ waitset' = waitset \cup {t}
          /\ removing' = [removing EXCEPT ![t] = ufd]
          /\ Goto(t, "rm")
       \/ /\ ~started \/ tid = t
          /\ UNCHANGED <<have_rmopt, waitset, removing, pc>>
    /\ UNCHANGED <<threadVars, mutex, taskVars, started, delayMs, selectVars, first,
                   clockVars, life, fault>>

(* Line 375 returns: woken by whomever, or after _delayMs.                 *)
RmReturn(t) ==
    /\ pc[t] = "rm" /\ t \notin waitset /\ Unlocked
    /\ removing' = [removing EXCEPT ![t] = NoUfd]
    /\ Goto(t, Resting(t))
    /\ UNCHANGED <<sharedVars, selectVars, first, clockVars, life, fault>>
-----------------------------------------------------------------------------
(* awe_uxscheduler_post and awe_uxscheduler_cancel; when the uxscheduler   *)
(* is not started they change nothing.                                     *)
Post(t, a, d) ==
    /\ CanCall(t) /\ Unlocked
    /\ posted < MaxPosts /\ now + d <= MaxTime
    /\ started
    /\ ListInsert(a, now + d, posted)
    /\ posted' = posted + 1
    /\ Signal
    /\ UNCHANGED <<threadVars, mutex, uxVars, schedVars, pc, selectVars, removing, first,
                   now, life, fault>>

Cancel(t, id) ==
    /\ CanCall(t) /\ Unlocked
    /\ started
    /\ ListCancel(id)
    /\ UNCHANGED <<threadVars, lockVars, uxVars, schedVars, pc, restVars>>
-----------------------------------------------------------------------------
(* uxscheduler_thread_process, run by a worker w.                          *)

Loop(w) == MoveOn(w, "loop", IF exit_pending THEN "leave" ELSE "lock")

(* Lines 88-92: a worker without sockets sleeps, whatever its tasks.       *)
LockWait(w) ==
    /\ pc[w] = "lock" /\ w \notin waitset /\ Unlocked
    /\ \/ /\ started /\ uxevents = <<>>
          /\ waitset' = waitset \cup {w}
          /\ UNCHANGED pc
       \/ /\ ~started \/ uxevents # <<>>
          /\ Goto(w, "check")
          /\ UNCHANGED waitset
    /\ UNCHANGED <<threadVars, mutex, taskVars, uxVars, schedVars, restVars>>

(* Line 93, without the lock.                                              *)
CheckStarted(w) == MoveOn(w, "check", IF started THEN "prepare" ELSE "leave")

(* What a sequence has of a set, in its order.                             *)
OnlyIn(s, S) ==
    LET f[n \in 0 .. Len(s)] ==
          IF n = 0 THEN <<>>
          ELSE IF s[n] \in S THEN Append(f[n - 1], s[n]) ELSE f[n - 1]
    IN  f[Len(s)]

(* The listed sockets that are watched for m, in the order of the list.    *)
InterestIn(m) ==
    LET wanting == OnlyIn(uxevents, {a \in UxListed : m \in uxheap[a].conditionSet})
    IN  [i \in DOMAIN wanting |-> [ufd |-> uxheap[wanting[i]].ufd, mask |-> m]]

(* Lines 97-133.  ux_select has no timeout when _delayMs is negative,      *)
(* unless the first task is overdue; a list that was emptied meanwhile is  *)
(* not selected on.                                                        *)
Prepare(w) ==
    /\ pc[w] = "prepare" /\ Unlocked
    /\ watched' = [watched EXCEPT ![w] = InterestIn("read") \o InterestIn("write")]
    /\ forever' = [forever EXCEPT ![w] =
                     /\ uxevents # <<>>
                     /\ delayMs < 0
                     /\ tasks # <<>> => heap[ListFirst].proc_ms >= now]
    /\ Goto(w, IF uxevents = <<>> THEN "timer" ELSE "select")
    /\ UNCHANGED <<sharedVars, uxe, called, removing, first, clockVars, life, fault>>

(* ux_select: some of the sockets are ready for what they are watched for. *)
SelectReady(w) ==
    /\ pc[w] = "select"
    /\ \E ready \in SUBSET {watched[w][i] : i \in DOMAIN watched[w]} :
         /\ ready # {}
         /\ watched' = [watched EXCEPT ![w] = OnlyIn(@, ready)]
    /\ forever' = [forever EXCEPT ![w] = FALSE]
    /\ Goto(w, "find")
    /\ UNCHANGED <<sharedVars, uxe, called, removing, first, clockVars, life, fault>>

SelectTimesOut(w) ==
    /\ pc[w] = "select" /\ ~forever[w]
    /\ watched' = [watched EXCEPT ![w] = <<>>]
    /\ Goto(w, "timer")
    /\ UNCHANGED <<sharedVars, forever, uxe, called, removing, first, clockVars, life,
                   fault>>

(* Line 177 aborts.                                                        *)
SelectFails(w) == pc[w] = "select" /\ Abort("select")

(* Lines 150-166: the next ready socket is looked up, without the lock.    *)
Find(w) ==
    /\ pc[w] = "find"
    /\ \/ /\ watched[w] = <<>>
          /\ Goto(w, "timer")
          /\ UNCHANGED <<watched, uxe>>
       \/ /\ watched[w] # <<>>
          /\ UxFind(Head(watched[w]).ufd) = {}
          /\ watched' = [watched EXCEPT ![w] = Tail(@)]
          /\ UNCHANGED <<pc, uxe>>
       \/ /\ watched[w] # <<>>
          /\ \E a \in UxFind(Head(watched[w]).ufd) : uxe' = [uxe EXCEPT ![w] = a]
          /\ Goto(w, "call")
          /\ UNCHANGED watched
    /\ UNCHANGED <<sharedVars, forever, called, removing, first, clockVars, life, fault>>

(* Lines 155 and 163: the handler is read from the uxevent and called.     *)
Call(w) ==
    /\ pc[w] = "call"
    /\ \/ uxheap[uxe[w]] = UxFree /\ Abort("uaf")
       \/ /\ uxheap[uxe[w]] # UxFree
          /\ called' = [called EXCEPT ![w] = uxheap[uxe[w]].ufd]
          /\ Goto(w, "event")
          /\ UNCHANGED <<sharedVars, watched, forever, uxe, removing, first, clockVars,
                         life, fault>>

(* Mutant: the uxevent of a read is used for the write that follows.       *)
HandlerReturnsToFound(w) ==
    /\ pc[w] = "event"
    /\ watched' = [watched EXCEPT ![w] = Tail(@)]
    /\ called' = [called EXCEPT ![w] = NoUfd]
    /\ IF Len(watched[w]) > 1 /\ watched[w][2].ufd = called[w]
       THEN Goto(w, "call") /\ UNCHANGED uxe
       ELSE Goto(w, "find") /\ uxe' = [uxe EXCEPT ![w] = NoUxe]
    /\ UNCHANGED <<sharedVars, forever, removing, first, clockVars, life, fault>>

HandlerReturns(w) ==
    /\ pc[w] = "event"
    /\ watched' = [watched EXCEPT ![w] = Tail(@)]
    /\ uxe' = [uxe EXCEPT ![w] = NoUxe]
    /\ called' = [called EXCEPT ![w] = NoUfd]
    /\ Goto(w, "find")
    /\ UNCHANGED <<sharedVars, forever, removing, first, clockVars, life, fault>>

(* Mutant: a task is taken one millisecond early.                          *)
FirstIsDueEarly == tasks # <<>> /\ heap[ListFirst].proc_ms <= now + 1

(* Lines 183-187.                                                          *)
FirstIsDue == tasks # <<>> /\ heap[ListFirst].proc_ms <= now

(* Mutant: the worker does not tell those that wait for a removal.         *)
TellNobody == UNCHANGED waitset /\ have_rmopt' = FALSE

(* Lines 193-196: the threads that wait for a removal are woken.           *)
TellRemovers ==
    /\ IF have_rmopt THEN Broadcast ELSE UNCHANGED waitset
    /\ have_rmopt' = FALSE

(* Lines 180-197: the first task is taken if it is due.                    *)
TakeTask(w) ==
    /\ pc[w] = "timer" /\ Unlocked
    /\ \/ /\ FirstIsDue
          /\ ListDelFirst
          /\ first' = [first EXCEPT ![w] = ListFirst]
          /\ Goto(w, "run")
       \/ /\ ~FirstIsDue
          /\ Goto(w, "loop")
          /\ UNCHANGED <<taskVars, first>>
    /\ TellRemovers
    /\ UNCHANGED <<threadVars, mutex, uxVars, started, delayMs, selectVars, removing,
                   clockVars, life, fault>>

Run(w) == MoveOn(w, "run", IF heap[first[w]].state = "valid" THEN "proc" ELSE "drop")

Return(w) == MoveOn(w, "proc", "drop")

Drop(w) ==
    /\ pc[w] = "drop"
    /\ TaskDestroy(first[w])
    /\ first' = [first EXCEPT ![w] = NULL]
    /\ Goto(w, "loop")
    /\ UNCHANGED <<threadVars, lockVars, uxVars, schedVars, selectVars, removing, clockVars,
                   life, fault>>

Leave(w) ==
    /\ pc[w] = "leave" /\ Unlocked
    /\ Broadcast
    /\ Goto(w, "forget")
    /\ UNCHANGED <<threadVars, mutex, taskVars, uxVars, schedVars, restVars>>

(* The end of dummy_worker, without the lock.                              *)
Forget(w) ==
    /\ pc[w] = "forget" /\ ForgetTid /\ Goto(w, "pend")
    /\ UNCHANGED <<lockVars, taskVars, uxVars, schedVars, restVars>>

Pend(w) ==
    /\ pc[w] = "pend" /\ PendAtExit /\ Goto(w, "halt")
    /\ UNCHANGED <<lockVars, taskVars, uxVars, schedVars, restVars>>

Halt(w) ==
    /\ pc[w] = "halt" /\ ClearRunning /\ Goto(w, "none")
    /\ UNCHANGED <<lockVars, taskVars, uxVars, schedVars, restVars>>
-----------------------------------------------------------------------------
(* The environment: wakeups and the clock.                                 *)

(* The timed waits of stop and rm end; the worker's wait has no timeout.   *)
Timeout(t) ==
    /\ t \in waitset /\ pc[t] \in {"join", "rm"}
    /\ waitset' = waitset \ {t}
    /\ UNCHANGED <<threadVars, mutex, taskVars, uxVars, schedVars, pc, restVars>>

Spurious(w) ==
    /\ w \in waitset
    /\ waitset' = waitset \ {w}
    /\ UNCHANGED <<threadVars, mutex, taskVars, uxVars, schedVars, pc, restVars>>

Tick ==
    /\ now < MaxTime
    /\ now' = now + 1
    /\ UNCHANGED <<sharedVars, pc, selectVars, removing, first, posted, life, fault>>
-----------------------------------------------------------------------------
OwnerStep(t) ==
    \/ StartLock(t) \/ StartArm(t) \/ StartMark(t)
    \/ StopLock(t) \/ StopJoin(t)
    \/ Destroy(t) \/ DestroyStopped(t) \/ DestroyClear(t) \/ DestroyClearTasks(t)
    \/ DestroyFree(t)

UserStep(t) ==
    \/ \E ufd \in Ufds, set \in (SUBSET Masks) \ {{}} :
         Add(t, ufd, set) \/ Enable(t, ufd, set) \/ Disable(t, ufd, set)
    \/ \E ufd \in Ufds : Rm(t, ufd)
    \/ RmReturn(t)
    \/ \E a \in Addr, d \in Delays : Post(t, a, d)
    \/ \E id \in Addr : Cancel(t, id)

WorkerStep(w) ==
    \/ Loop(w) \/ LockWait(w) \/ CheckStarted(w) \/ Prepare(w)
    \/ SelectReady(w) \/ SelectTimesOut(w) \/ SelectFails(w)
    \/ Find(w) \/ Call(w) \/ HandlerReturns(w)
    \/ TakeTask(w) \/ Run(w) \/ Return(w) \/ Drop(w)
    \/ Leave(w) \/ Forget(w) \/ Pend(w) \/ Halt(w)

Working == fault = "none" /\ life # "freed"

(* The object is gone or the program is.                                   *)
Terminated == ~Working /\ UNCHANGED vars

Next ==
    \/ /\ Working
       /\ \/ \E t \in Threads : OwnerStep(t) \/ UserStep(t) \/ Timeout(t) \/ Spurious(t)
          \/ \E w \in Workers : WorkerStep(w)
          \/ Tick
    \/ Terminated

Spec == Init /\ [][Next]_vars

(* The scheduler runs every thread, handlers and callbacks return, a call  *)
(* that was made goes on, timed waits end, and the clock advances.         *)
(* Nothing is assumed of sockets, of the calls the program makes, or of    *)
(* spurious wakeups.                                                       *)
CallStep(t) ==
    \/ StartArm(t) \/ StartMark(t)
    \/ StopJoin(t)
    \/ pc[t] = "destroy" /\ StopLock(t)
    \/ DestroyStopped(t) \/ DestroyClear(t) \/ DestroyClearTasks(t) \/ DestroyFree(t)
    \/ RmReturn(t)

FairSpec ==
    /\ Spec
    /\ \A w \in Workers : WF_vars(Working /\ WorkerStep(w))
    /\ \A t \in Threads : WF_vars(Working /\ CallStep(t))
    /\ \A t \in Threads : WF_vars(Working /\ Timeout(t))
    /\ WF_vars(Working /\ Tick)
-----------------------------------------------------------------------------
(* Properties of every program, whoever adds, removes, starts and stops.   *)

(* OneEventPerSocket, of UxEvents: every uxevent is listed once, and for   *)
(* one socket, in spite of handlers that add and remove.                   *)

(* Every task that was allocated has exactly one owner, as in the looper:  *)
(* the list, or one worker.                                                *)
HeapOwnership ==
    /\ Distinct
    /\ \A a \in Addr : heap[a] # Free <=> a \in Listed \/ \E w \in Workers : first[w] = a
    /\ \A w \in Workers : first[w] \notin Listed
    /\ \A v, w \in Workers : first[v] = first[w] /\ first[v] # NULL => v = w

(* A thread that sleeps until its removal is seen by the worker is not     *)
(* forgotten: _have_rmopt stays set until a broadcast has woken it.        *)
NoForgottenRemoval ==
    \A t \in waitset : pc[t] = "rm" => have_rmopt

(* When awe_uxscheduler_rm returns to another thread than the worker, and  *)
(* the socket was not added again, no handler of it is being called: that  *)
(* is what rm waits for.  But it waits once, and does not look whether the *)
(* worker is done.                                                         *)
RmWaits ==
    [][\A t \in Threads, w \in Workers :
         RmReturn(t) /\ UxFind(removing[t]) = {} =>
            ~(pc[w] = "event" /\ called[w] = removing[t])]_vars
-----------------------------------------------------------------------------
(* Properties of a program in which one client starts, stops and destroys  *)
(* the uxscheduler, and sockets are removed by handlers and callbacks.     *)

(* Handlers that remove sockets, their own or others, never make the       *)
(* worker use a uxevent that was freed; no assertion on the thread fails,  *)
(* and the uxscheduler is not freed under its worker.                      *)
NoFault == fault \in {"none", "create", "select"}

(* The handler that is called was added for the socket that was ready,     *)
(* even when a uxevent was freed and its address used for another one.     *)
RightHandler ==
    \A w \in Workers : pc[w] = "event" => called[w] = Head(watched[w]).ufd

(* A worker never sleeps on a uxscheduler that was stopped or that has     *)
(* sockets.                                                                *)
NoLostWakeup == \A w \in Workers \cap waitset : started /\ uxevents = <<>>

(* A worker that saw the _exit_pending of before its own start has left.   *)
Deserted == \A w \in Workers : pc[w] \in {"none", "leave", "forget", "pend", "halt"}

(* A task that is not cancelled is run in time, if there are sockets and   *)
(* the uxscheduler is not stopped: it is given a timeout that is not       *)
(* negative.  Without sockets the worker sleeps, whatever is due.          *)
Served ==
    \A a \in Addr :
        a \in Listed /\ heap[a].state = "valid"
            ~> a \notin Listed \/ uxevents = <<>> \/ ~started \/ Deserted \/ ~Working

(* awe_uxscheduler_stop returns.                                           *)
StopReturns == \A t \in Clients : pc[t] = "join" ~> pc[t] # "join" \/ ~Working
-----------------------------------------------------------------------------
(* The delayed tasks of a uxscheduler are the same service as a looper's.  *)
AsTask(a) == [due |-> heap[a].proc_ms, rank |-> heap[a].stamp]

Valid(a) == heap[a].state = "valid"

Promise == INSTANCE DelayedTasks WITH
    open <- started \/ \E t \in Threads : pc[t] = "join",
    waiting <- {AsTask(a) : a \in {b \in Listed : Valid(b)}},
    current <- {AsTask(first[w]) : w \in {v \in Workers :
                    pc[v] \in {"run", "proc"} /\ Valid(first[v])}},
    count <- posted,
    clock <- now

(* Every behaviour of the uxscheduler's tasks is one of DelayedTasks.      *)
KeepsPromise == Promise!DTSpec
=============================================================================

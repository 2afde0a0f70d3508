----------------------------- MODULE Scheduler -----------------------------
(***************************************************************************)
(* src/scheduler.c: watchers of sockets, timers and triggers over a libev  *)
(* loop.  libev is external and modelled as far as scheduler.c uses it: a  *)
(* watcher is active or not; an iteration makes the ready ones pending and *)
(* then calls them one by one; ev_io_stop and ev_timer_stop take a watcher *)
(* out of both sets; a timer without repeat is inactive once it is         *)
(* pending; ev_run ends when nothing is active or ev_break was called.     *)
(*                                                                         *)
(* Calls are made by callbacks, or by the program's thread while no loop   *)
(* runs; only awe_scheduler_trigger is called by any thread at any time.   *)
(* The code relies on three rules, and a program keeps some of them:       *)
(*   "stop"   the scheduler is stopped and destroyed when no loop runs,    *)
(*            and is not started or run again;                             *)
(*   "own"    the callback of a task does not destroy that task;           *)
(*   "again"  the callback of a delayed task does not restart it.          *)
(***************************************************************************)
EXTENDS AweThread, LinkedList

CONSTANTS
    Main,        \* the program's thread
    Callers,     \* other threads, that call awe_scheduler_trigger
    AWE_READ,
    Masks,       \* AWE_READ and perhaps AWE_WRITE
    NULL,        \* no token
    Programs,    \* sets of rules: the programs that are looked at
    Capacity,    \* how many triggers the socket pair holds
    MaxTriggers  \* bound on the number of triggers

Rules == {"stop", "own", "again"}
Threads == Workers \cup Callers \cup {Main}

ASSUME ThreadsDistinct ==
    /\ NoThread \notin Threads
    /\ Workers \cap Callers = {} /\ Main \notin Workers \cup Callers
ASSUME NullIsNoToken == NULL \notin Tokens
ASSUME ProgramsKeepRules == Programs \subseteq SUBSET Rules
ASSUME ReadIsAMask == AWE_READ \in Masks
ASSUME NumbersAreNumbers == Capacity \in Nat /\ MaxTriggers \in Nat

VARIABLES
    rules,         \* the rules that the program keeps
    started,       \* _started
    objs,          \* the evdata at each address, or Freed
    evio_list,     \* _evio_list
    evtimer_list,  \* _evtimer_list
    triggertoken,  \* _triggertoken
    sock,          \* of the socket pair: "closed", "open" or "failed"
    triggers,      \* the triggers it holds, first to last
    sent,          \* how many triggers were written
    active,        \* libev: the active watchers
    pending,       \* libev: the watchers to be called in this iteration
    breaking,      \* libev: loop_done
    looping,       \* the thread in ev_run, or NoThread
    phase,         \* where that thread is
    current,       \* the watcher whose callback runs
    pc,            \* where each thread is
    life,          \* of the object: "live", "stopped" or "freed"
    fault          \* why the program is lost, or "none"

listVars == <<objs, evio_list, evtimer_list, triggertoken>>
sockVars == <<sock, triggers, sent>>
evVars == <<active, pending, breaking>>
loopVars == <<looping, phase, current>>
endVars == <<rules, life, fault>>
vars == <<threadVars, started, listVars, sockVars, evVars, loopVars, pc, endVars>>

Kinds == {"io", "trigger", "once", "periodic"}
Object == [kind : Kinds, refs : Nat \ {0}, events : SUBSET Masks]

ASSUME FreedIsNoObject == Freed \notin Object

(* "task" is scheduler_evtimer_cb, "handler" scheduler_evio_cb with the    *)
(* program's handler, "trigger" with a trigger's proc.                     *)
Callbacks == {"task", "handler", "trigger"}

TypeOK ==
    /\ ThreadTypeOK
    /\ rules \in Programs /\ started \in BOOLEAN
    /\ objs \in [Tokens -> Object \cup {Freed}]
    /\ evio_list \in Seq(Tokens) /\ evtimer_list \in Seq(Tokens)
    /\ triggertoken \in Tokens \cup {NULL}
    /\ sock \in {"closed", "open", "failed"}
    /\ triggers \in Seq(Nat) /\ Len(triggers) <= Capacity /\ sent \in Nat
    /\ active \subseteq Tokens /\ pending \subseteq Tokens /\ breaking \in BOOLEAN
    /\ looping \in Threads \cup {NoThread}
    /\ phase \in {"out", "poll", "invoke"} \cup Callbacks
    /\ current \in Tokens \cup {NULL}
    /\ pc \in [Threads -> {"idle", "arm", "mark", "write",
                           "none", "enter", "loop", "forget", "pend", "halt"}]
    /\ life \in {"live", "stopped", "freed"} /\ fault \in {"none", "uaf"}

(* awe_scheduler_create.                                                   *)
Init ==
    /\ ThreadCreate
    /\ rules \in Programs
    /\ started = FALSE
    /\ objs = [t \in Tokens |-> Freed]
    /\ evio_list = <<>> /\ evtimer_list = <<>> /\ triggertoken = NULL
    /\ sock = "closed" /\ triggers = <<>> /\ sent = 0
    /\ active = {} /\ pending = {} /\ breaking = FALSE
    /\ looping = NoThread /\ phase = "out" /\ current = NULL
    /\ pc = [t \in Threads |-> IF t \in Workers THEN "none" ELSE "idle"]
    /\ life = "live" /\ fault = "none"
-----------------------------------------------------------------------------
Goto(t, label) == pc' = [pc EXCEPT ![t] = label]

(* The program's thread outside of every loop.                             *)
Outside == pc[Main] = "idle" /\ looping = NoThread /\ ~running

(* Who may call: a callback, or the program's thread.                      *)
CanCall == phase \in Callbacks \/ Outside

(* libev or scheduler.c uses an evdata that was freed.                     *)
Abort ==
    /\ fault' = "uaf"
    /\ UNCHANGED <<threadVars, started, listVars, sockVars, evVars, loopVars, pc,
                   rules, life>>
-----------------------------------------------------------------------------
(* Watchers and timers.                                                    *)

(* awe_evio_userdata_create or awe_evtimer_userdata_create, at an address  *)
(* t of malloc's choice; the list has the only reference in the end.       *)
NewObject(t, kind, events) ==
    LET created == [objs EXCEPT ![t] = [kind |-> kind, refs |-> 1, events |-> events]]
    IN  objs[t] = Freed /\ objs' = Released(AddedRef(created, t), t)

(* libev still has a watcher at this address, whose memory was freed.      *)
Corrupt == \E t \in Tokens : objs[t] = Freed /\ t \in active \cup pending

(* awe_scheduler_watch.                                                    *)
Watch(t, events) ==
    /\ CanCall /\ started /\ ~Corrupt
    /\ NewObject(t, "io", events)
    /\ evio_list' = Added(evio_list, t)
    /\ active' = active \cup {t}
    /\ UNCHANGED <<threadVars, started, evtimer_list, triggertoken, sockVars, pending,
                   breaking, loopVars, pc, endVars>>

(* The program's watchers, whose tokens it may use.                        *)
Watched == {t \in Members(evio_list) : objs[t].kind = "io"}

(* awe_scheduler_disable; stopping a watcher takes back its pending call.  *)
Disable(t, events) ==
    /\ CanCall /\ t \in Watched
    /\ objs' = [objs EXCEPT ![t].events = @ \ events]
    /\ active' = IF objs[t].events \subseteq events THEN active \ {t} ELSE active \cup {t}
    /\ pending' = pending \ {t}
    /\ UNCHANGED <<threadVars, started, evio_list, evtimer_list, triggertoken, sockVars,
                   breaking, loopVars, pc, endVars>>

Enable(t, events) ==
    /\ CanCall /\ started /\ t \in Watched
    /\ objs' = [objs EXCEPT ![t].events = @ \cup events]
    /\ active' = active \cup {t}
    /\ pending' = pending \ {t}
    /\ UNCHANGED <<threadVars, started, evio_list, evtimer_list, triggertoken, sockVars,
                   breaking, loopVars, pc, endVars>>

(* What awe_scheduler_socktoken_destroy does with a listed token; another  *)
(* token is only forgotten.                                                *)
SockDestroy(t) ==
    /\ evio_list' = Without(evio_list, t)
    /\ objs' = Released(objs, t)
    /\ active' = active \ {t}
    /\ pending' = pending \ {t}

SocktokenDestroy(t) ==
    /\ CanCall /\ t \in Watched
    /\ SockDestroy(t)
    /\ UNCHANGED <<threadVars, started, evtimer_list, triggertoken, sockVars, breaking,
                   loopVars, pc, endVars>>

(* awe_scheduler_delayedtask and awe_scheduler_periodictask: neither timer *)
(* repeats by itself.                                                      *)
TimerTask(t, kind) ==
    /\ CanCall /\ started /\ ~Corrupt
    /\ NewObject(t, kind, {})
    /\ evtimer_list' = Added(evtimer_list, t)
    /\ active' = active \cup {t}
    /\ UNCHANGED <<threadVars, started, evio_list, triggertoken, sockVars, pending,
                   breaking, loopVars, pc, endVars>>

Own(t) == phase = "task" /\ current = t

(* awe_scheduler_task_again.                                               *)
TaskAgain(t) ==
    /\ CanCall /\ started /\ t \in Members(evtimer_list)
    /\ ("again" \in rules /\ Own(t)) => objs[t].kind = "periodic"
    /\ active' = active \cup {t}
    /\ pending' = pending \ {t}
    /\ UNCHANGED <<threadVars, started, listVars, sockVars, breaking, loopVars, pc, endVars>>

(* Mutant: the timer is not stopped.                                       *)
TasktokenLeftActive(t) ==
    /\ CanCall /\ t \in Members(evtimer_list)
    /\ "own" \in rules => ~Own(t)
    /\ evtimer_list' = Without(evtimer_list, t)
    /\ objs' = Released(objs, t)
    /\ UNCHANGED <<threadVars, started, evio_list, triggertoken, sockVars, evVars, loopVars,
                   pc, endVars>>

(* awe_scheduler_tasktoken_destroy; the token of a task that is gone is    *)
(* only forgotten.                                                         *)
TasktokenDestroy(t) ==
    /\ CanCall /\ t \in Members(evtimer_list)
    /\ "own" \in rules => ~Own(t)
    /\ evtimer_list' = Without(evtimer_list, t)
    /\ objs' = Released(objs, t)
    /\ active' = active \ {t}
    /\ pending' = pending \ {t}
    /\ UNCHANGED <<threadVars, started, evio_list, triggertoken, sockVars, breaking,
                   loopVars, pc, endVars>>

(* awe_scheduler_break.                                                    *)
Break ==
    /\ CanCall /\ started
    /\ breaking' = TRUE
    /\ UNCHANGED <<threadVars, started, listVars, sockVars, active, pending, loopVars, pc,
                   endVars>>
-----------------------------------------------------------------------------
(* awe_scheduler_start and awe_scheduler_stop.                             *)

(* The socket pair, and its watcher at an address t.                       *)
EnableTrigger(t) ==
    /\ NewObject(t, "trigger", {AWE_READ})
    /\ evio_list' = Added(evio_list, t)
    /\ triggertoken' = t
    /\ active' = active \cup {t}
    /\ sock' = "open" /\ triggers' = <<>>

MayStart ==
    /\ Outside /\ ~started /\ ~Corrupt
    /\ "stop" \in rules => life = "live"

(* With thread = 0: the loop is run by awe_scheduler_run.                  *)
Start(t) ==
    /\ MayStart
    /\ EnableTrigger(t)
    /\ started' = TRUE /\ life' = "live"
    /\ UNCHANGED <<threadVars, evtimer_list, sent, pending, breaking, loopVars, pc, rules,
                   fault>>

(* With thread = 1, up to pthread_create; the new thread runs the loop.    *)
StartThread(t, w) ==
    /\ MayStart /\ pc[w] = "none"
    /\ EnableTrigger(t)
    /\ Spawn(w)
    /\ started' = TRUE /\ life' = "live"
    /\ pc' = [pc EXCEPT ![Main] = "arm", ![w] = "enter"]
    /\ UNCHANGED <<evtimer_list, sent, pending, breaking, loopVars, rules, fault>>

StartArm ==
    /\ pc[Main] = "arm" /\ ArmExitPending /\ Goto(Main, "mark")
    /\ UNCHANGED <<started, listVars, sockVars, evVars, loopVars, endVars>>

StartMark ==
    /\ pc[Main] = "mark" /\ MarkRunning /\ Goto(Main, "idle")
    /\ UNCHANGED <<started, listVars, sockVars, evVars, loopVars, endVars>>

(* The effect of awe_scheduler_stop: everything is freed and the sockets   *)
(* are closed, but no watcher is stopped.                                  *)
StopAll ==
    /\ started' = FALSE
    /\ objs' = Cleared(objs, evio_list, evtimer_list)
    /\ evio_list' = <<>> /\ evtimer_list' = <<>> /\ triggertoken' = NULL
    /\ sock' = "closed" /\ triggers' = <<>>

(* The thread could not be created: what was started is stopped again, and *)
(* nothing but the trigger had been.                                       *)
StartFails(t) ==
    /\ MayStart /\ objs[t] = Freed
    /\ active' = active \cup {t}
    /\ life' = "stopped"
    /\ UNCHANGED <<threadVars, started, listVars, sockVars, pending, breaking, loopVars, pc,
                   rules, fault>>

Stop ==
    /\ started
    /\ Outside \/ ("stop" \notin rules /\ (phase \in Callbacks \/ pc[Main] = "idle"))
    /\ StopAll
    /\ life' = "stopped"
    /\ UNCHANGED <<threadVars, sent, evVars, loopVars, pc, rules, fault>>

(* awe_scheduler_destroy: the loop and the thread handle are freed too.    *)
Destroy ==
    /\ pc[Main] = "idle" /\ looping # Main
    /\ "stop" \in rules => Outside /\ \A c \in Callers : pc[c] = "idle"
    /\ \/ /\ \A w \in Workers : pc[w] = "none"
          /\ \A c \in Callers : pc[c] = "idle"
          /\ IF started THEN StopAll ELSE UNCHANGED <<started, listVars, sock, triggers>>
          /\ life' = "freed"
          /\ UNCHANGED <<threadVars, sent, evVars, loopVars, pc, rules, fault>>
       \/ /\ \E x \in Workers \cup Callers : pc[x] \notin {"none", "idle"}
          /\ Abort
-----------------------------------------------------------------------------
(* awe_scheduler_trigger, called by another thread: _started is read, then *)
(* the trigger is written.  Whether the socket took it is not looked at.   *)
TriggerCheck(c) ==
    /\ pc[c] = "idle" /\ sent < MaxTriggers
    /\ started
    /\ Goto(c, "write")
    /\ UNCHANGED <<threadVars, started, listVars, sockVars, evVars, loopVars, endVars>>

Queued(n) ==
    IF sock = "open" /\ Len(triggers) < Capacity THEN Append(triggers, n) ELSE triggers

TriggerWrite(c) ==
    /\ pc[c] = "write"
    /\ triggers' = Queued(sent)
    /\ sent' = sent + 1
    /\ Goto(c, "idle")
    /\ UNCHANGED <<threadVars, started, listVars, sock, evVars, loopVars, endVars>>

(* The operating system: the sockets may fail.                             *)
SocketFails ==
    /\ sock = "open"
    /\ sock' = "failed"
    /\ UNCHANGED <<threadVars, started, listVars, triggers, sent, evVars, loopVars, pc,
                   endVars>>
-----------------------------------------------------------------------------
(* The loop.                                                               *)

(* awe_scheduler_run, and the thread of awe_scheduler_start.               *)
Enter(x) ==
    /\ \/ x = Main /\ Outside /\ ("stop" \in rules => life = "live")
       \/ x \in Workers /\ pc[x] = "enter"
    /\ looping' = x /\ phase' = "poll" /\ breaking' = FALSE
    /\ Goto(x, "loop")
    /\ UNCHANGED <<threadVars, started, listVars, sockVars, active, pending, current,
                   endVars>>

Timers == {t \in Tokens : objs[t] # Freed /\ objs[t].kind \in {"once", "periodic"}}

(* The trigger watcher is ready when there is something to read.           *)
TriggerReady == {t \in active \cap {triggertoken} : triggers # <<>> \/ sock = "failed"}

(* One wait of libev.  It returns only if something is ready, or if        *)
(* nothing can be; a watcher may be called although nothing is there.      *)
Poll ==
    /\ phase = "poll"
    /\ \E ready \in SUBSET active :
         LET fired == ready \cup TriggerReady
         IN  /\ fired # {} \/ active = {}
             /\ \/ /\ \E t \in fired : objs[t] = Freed
                   /\ Abort
                \/ /\ \A t \in fired : objs[t] # Freed
                   /\ active' = active \ (fired \cap Timers)
                   /\ pending' = fired
                   /\ phase' = "invoke"
                   /\ UNCHANGED <<threadVars, started, listVars, sockVars, breaking, looping,
                                  current, pc, endVars>>

(* The next pending watcher is called, in an order of libev's choice.      *)
Invoke(t) ==
    /\ phase = "invoke" /\ t \in pending
    /\ objs[t] # Freed /\ objs[t].kind # "trigger"
    /\ pending' = pending \ {t}
    /\ phase' = IF t \in Timers THEN "task" ELSE "handler"
    /\ current' = t
    /\ UNCHANGED <<threadVars, started, listVars, sockVars, active, breaking, looping, pc,
                   endVars>>

InvokeFreed(t) ==
    /\ phase = "invoke" /\ t \in pending
    /\ objs[t] = Freed
    /\ Abort

ReadGivesNothing == sock # "open" \/ triggers = <<>>   \* mutant: bytesRead <= 0

(* awe_socketpeer_read returns 0 when there is nothing to read, and a      *)
(* negative number when the sockets failed.                                *)
ReadFails == sock # "open"

(* scheduler_trigger_event_proc: the trigger that was read is called.      *)
InvokeTrigger(t) ==
    /\ phase = "invoke" /\ t \in pending
    /\ objs[t] # Freed /\ objs[t].kind = "trigger"
    /\ \/ /\ ~ReadFails /\ triggers # <<>>
          /\ triggers' = Tail(triggers)
          /\ pending' = pending \ {t}
          /\ phase' = "trigger" /\ current' = t
          /\ UNCHANGED <<listVars, active>>
       \/ /\ ~ReadFails /\ triggers = <<>>
          /\ pending' = pending \ {t}
          /\ UNCHANGED <<listVars, active, triggers, phase, current>>
       \/ /\ ReadFails
          /\ SockDestroy(t)
          /\ triggertoken' = NULL
          /\ UNCHANGED <<evtimer_list, triggers, phase, current>>
    /\ UNCHANGED <<threadVars, started, sock, sent, breaking, looping, pc, endVars>>

(* Mutant: no task is dropped.                                             *)
DropsNone(t) == FALSE

(* Line 159: the type of the task decides, read after its callback.  If    *)
(* the callback freed it and its address was not used again, whatever is   *)
(* read has no effect, as no such task is listed.                          *)
Drops(t) == t \in Members(evtimer_list) /\ objs[t].kind = "once"

ReturnTask ==
    /\ phase = "task"
    /\ IF Drops(current)
         THEN objs' = Released(objs, current) /\ evtimer_list' = Without(evtimer_list, current)
         ELSE UNCHANGED <<objs, evtimer_list>>
    /\ phase' = "invoke" /\ current' = NULL
    /\ UNCHANGED <<threadVars, started, evio_list, triggertoken, sockVars, evVars, looping,
                   pc, endVars>>

ReturnHandler ==
    /\ phase \in {"handler", "trigger"}
    /\ phase' = "invoke" /\ current' = NULL
    /\ UNCHANGED <<threadVars, started, listVars, sockVars, evVars, looping, pc, endVars>>

Leaves == breaking \/ active = {}

(* The end of an iteration, and of ev_run.                                 *)
Turn ==
    /\ phase = "invoke" /\ pending = {}
    /\ \/ /\ ~Leaves
          /\ phase' = "poll"
          /\ UNCHANGED <<looping, pc>>
       \/ /\ Leaves
          /\ phase' = "out" /\ looping' = NoThread
          /\ Goto(looping, IF looping = Main THEN "idle" ELSE "forget")
    /\ UNCHANGED <<threadVars, started, listVars, sockVars, evVars, current, endVars>>

(* The end of dummy_worker.                                                *)
End(w) ==
    /\ \/ pc[w] = "forget" /\ ForgetTid /\ Goto(w, "pend")
       \/ pc[w] = "pend" /\ PendAtExit /\ Goto(w, "halt")
       \/ pc[w] = "halt" /\ ClearRunning /\ Goto(w, "none")
    /\ UNCHANGED <<started, listVars, sockVars, evVars, loopVars, endVars>>
-----------------------------------------------------------------------------
Call ==
    \/ \E t \in Tokens, e \in (SUBSET Masks) \ {{}} :
           Watch(t, e) \/ Disable(t, e) \/ Enable(t, e)
    \/ \E t \in Tokens :
           \/ SocktokenDestroy(t) \/ TaskAgain(t) \/ TasktokenDestroy(t)
           \/ \E kind \in {"once", "periodic"} : TimerTask(t, kind)
           \/ Start(t) \/ StartFails(t) \/ \E w \in Workers : StartThread(t, w)
    \/ Break \/ Stop \/ Destroy \/ Enter(Main)
    \/ \E c \in Callers : TriggerCheck(c)

(* What goes on once it has begun.                                         *)
GoOn ==
    \/ StartArm \/ StartMark
    \/ \E c \in Callers : TriggerWrite(c)

LoopStep ==
    \/ \E w \in Workers : Enter(w) \/ End(w)
    \/ \E t \in Tokens : Invoke(t) \/ InvokeFreed(t) \/ InvokeTrigger(t)
    \/ ReturnTask \/ ReturnHandler \/ Turn

Running == fault = "none" /\ life # "freed"
Step == Call \/ GoOn \/ LoopStep \/ Poll \/ SocketFails

(* A program may end when no thread is in a call or in the loop.           *)
Quiet == looping = NoThread /\ \A t \in Threads : pc[t] \in {"idle", "none"}
Terminated == (~Running \/ Quiet) /\ UNCHANGED vars

Next == (Running /\ Step) \/ Terminated

Spec == Init /\ [][Next]_vars
-----------------------------------------------------------------------------
(* Properties of every program.                                            *)

(* Every evdata that was allocated is in exactly the one list of its kind, *)
(* once, and that list has the only reference: what is taken off a list is *)
(* freed there, and nothing else is (lines 353, 395, 415, 463, 166, 308).  *)
ListsOwn ==
    /\ \A l \in {evio_list, evtimer_list} : \A i, j \in DOMAIN l : l[i] = l[j] => i = j
    /\ \A t \in Tokens :
         /\ t \in Members(evio_list) <=> objs[t] # Freed /\ objs[t].kind \in {"io", "trigger"}
         /\ t \in Members(evtimer_list) <=> t \in Timers
         /\ objs[t] # Freed => objs[t].refs = 1

(* What ev_io_stop and ev_timer_stop before each release are for, and what *)
(* the assertions at lines 93 and 122 say: a watcher that libev still has  *)
(* is not freed.                                                           *)
FreedIsInactive == \A t \in Tokens : objs[t] = Freed => t \notin active \cup pending

(* As long as the socket pair works its watcher is active, in spite of     *)
(* wakeups with nothing to read: no accepted trigger stays unread (line    *)
(* 182 gives the watcher up only after a failed read).                     *)
TriggerWatched ==
    started /\ sock = "open" => triggertoken \in active /\ triggertoken \in Members(evio_list)
-----------------------------------------------------------------------------
(* Properties of programs that keep the rules.                             *)

(* Whatever callbacks create, destroy, enable and restart, and in whatever *)
(* order libev calls them, no callback of a destroyed token is called and  *)
(* no watcher is freed that libev has, until the scheduler is stopped.     *)
WatchedIsAlive ==
    rules = Rules => fault = "none" /\ (life = "live" => FreedIsInactive)

(* A delayed task is gone after its callback: a listed one will be called. *)
OneShotsEnd ==
    rules = Rules => \A t \in Members(evtimer_list) :
        objs[t].kind = "once" => t \in active \cup pending \/ Own(t)
=============================================================================

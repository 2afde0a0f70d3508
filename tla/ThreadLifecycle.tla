-------------------------- MODULE ThreadLifecycle --------------------------
(***************************************************************************)
(* src/unix/thread.c by itself: callers that start the thread of a handle  *)
(* and ask it to exit, and the threads that run for it one after another.  *)
(* The looper and the uxscheduler use a handle under a lock; this module   *)
(* shows what the handle gives to a user that follows only thread.h.       *)
(***************************************************************************)
EXTENDS AweThread

CONSTANTS
    Callers,       \* the threads that use the handle
    Disciplined    \* do callers take turns, and start only if not running?

ASSUME DisciplinedIsBoolean == Disciplined \in BOOLEAN

VARIABLES
    polls,    \* does the handle's process return only when an exit is pending?
    cpc,      \* where each caller is in awe_thread_start
    wpc,      \* where each thread is in dummy_worker
    asked     \* was awe_thread_request_exit called since the last start?

vars == <<threadVars, polls, cpc, wpc, asked>>

Init ==
    /\ ThreadCreate
    /\ polls \in BOOLEAN
    /\ cpc = [c \in Callers |-> "idle"]
    /\ wpc = [w \in Workers |-> "none"]
    /\ asked = FALSE

NoCall == \A c \in Callers : cpc[c] = "idle"

MayCall(c) == cpc[c] = "idle" /\ (Disciplined => NoCall)

(* awe_thread_start.  A handle that has a tid refuses (it returns 1).      *)
Start(c) ==
    /\ MayCall(c) /\ (Disciplined => ~running)
    /\ \E w \in Workers :
         /\ wpc[w] = "none"
         /\ Spawn(w)
         /\ wpc' = [wpc EXCEPT ![w] = "body"]
    /\ cpc' = [cpc EXCEPT ![c] = "arm"]
    /\ asked' = FALSE
    /\ UNCHANGED polls

(* pthread_create failed.  It may have stored a thread identity all the    *)
(* same: POSIX leaves the contents of its first argument undefined.        *)
StartFails(c) ==
    /\ MayCall(c) /\ (Disciplined => ~running)
    /\ tid = NoThread
    /\ tid' \in Workers \cup {NoThread}
    /\ UNCHANGED <<exit_pending, running, polls, cpc, wpc, asked>>

Arm(c) ==
    /\ cpc[c] = "arm" /\ ArmExitPending
    /\ cpc' = [cpc EXCEPT ![c] = "mark"]
    /\ UNCHANGED <<polls, wpc, asked>>

Mark(c) ==
    /\ cpc[c] = "mark" /\ MarkRunning
    /\ cpc' = [cpc EXCEPT ![c] = "idle"]
    /\ UNCHANGED <<polls, wpc, asked>>

(* awe_thread_request_exit.                                                *)
Request(c) ==
    /\ MayCall(c) /\ RequestExit
    /\ asked' = TRUE
    /\ UNCHANGED <<polls, cpc, wpc>>

(* The process returns: when it has seen an exit pending, or of itself.    *)
ProcessReturns(w) ==
    /\ wpc[w] = "body"
    /\ polls => exit_pending
    /\ wpc' = [wpc EXCEPT ![w] = "forget"]
    /\ UNCHANGED <<threadVars, polls, cpc, asked>>

Forget(w) ==
    /\ wpc[w] = "forget" /\ ForgetTid
    /\ wpc' = [wpc EXCEPT ![w] = "pend"]
    /\ UNCHANGED <<polls, cpc, asked>>

Pend(w) ==
    /\ wpc[w] = "pend" /\ PendAtExit
    /\ wpc' = [wpc EXCEPT ![w] = "halt"]
    /\ UNCHANGED <<polls, cpc, asked>>

Halt(w) ==
    /\ wpc[w] = "halt" /\ ClearRunning
    /\ wpc' = [wpc EXCEPT ![w] = "none"]
    /\ UNCHANGED <<polls, cpc, asked>>

WorkerStep(w) == ProcessReturns(w) \/ Forget(w) \/ Pend(w) \/ Halt(w)

Next ==
    \/ \E c \in Callers : Start(c) \/ StartFails(c) \/ Arm(c) \/ Mark(c) \/ Request(c)
    \/ \E w \in Workers : WorkerStep(w)

Spec == Init /\ [][Next]_vars

(* Threads are scheduled and a start that has begun goes on; a process     *)
(* that polls its exit flag keeps polling it.                              *)
FairSpec ==
    /\ Spec
    /\ \A w \in Workers : WF_vars(WorkerStep(w))
    /\ \A c \in Callers : WF_vars(Arm(c) \/ Mark(c))
-----------------------------------------------------------------------------
(* Two threads never run for one handle when callers take turns and start  *)
(* it only while awe_thread_running says no.  The test of _tid in          *)
(* awe_thread_start alone does not give that: _tid is cleared two writes   *)
(* before the thread is done with the handle.                              *)
SoleThread == \A v, w \in Workers : wpc[v] # "none" /\ wpc[w] # "none" => v = w

(* Between calls, a thread whose process runs is the one the handle names  *)
(* and the handle says that it is running.                                 *)
HandleKnowsThread ==
    \A w \in Workers : NoCall /\ wpc[w] = "body" => tid = w /\ running

(* awe_thread_request_exit: a process that polls exits once it was asked.  *)
ExitObeyed == \A w \in Workers : (wpc[w] = "body" /\ asked) ~> wpc[w] = "none"
=============================================================================

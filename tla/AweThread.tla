----------------------------- MODULE AweThread -----------------------------
(***************************************************************************)
(* The thread handle of src/unix/thread.c: one awe_thread_t object, that   *)
(* can be started again after the thread it ran has returned.              *)
(*                                                                         *)
(* The handle is three plain words that are read and written without any   *)
(* lock.  pthread_create (line 112) comes BEFORE the assignments of lines  *)
(* 121 and 122, so a new thread runs concurrently with the rest of the     *)
(* call that started it: each assignment is an action fragment of its own, *)
(* and the modules that extend this one say where the fragments occur.     *)
(***************************************************************************)
CONSTANTS
    Workers,     \* the OS threads pthread_create may return
    NoThread     \* the value 0 of an os_thread_t, and "nobody" for a mutex

ASSUME NoWorker == NoThread \notin Workers

VARIABLES
    tid,           \* _tid
    exit_pending,  \* _exit_pending
    running        \* _running

threadVars == <<tid, exit_pending, running>>

ThreadTypeOK ==
    /\ tid \in Workers \cup {NoThread}
    /\ exit_pending \in BOOLEAN
    /\ running \in BOOLEAN

(* awe_thread_create: a handle with no thread says "exit pending".         *)
ThreadCreate ==
    /\ tid = NoThread
    /\ exit_pending = TRUE
    /\ running = FALSE

(* awe_thread_start up to the return of pthread_create: the new thread w   *)
(* exists and its identity is stored in the handle.                        *)
Spawn(w) ==
    /\ tid = NoThread
    /\ tid' = w
    /\ UNCHANGED <<exit_pending, running>>

(* The two assignments at the end of awe_thread_start.                     *)
ArmExitPending == exit_pending' = FALSE /\ UNCHANGED <<tid, running>>
ForgottenRunning == UNCHANGED <<tid, exit_pending, running>>   \* mutant: never set
MarkRunning == running' = TRUE /\ UNCHANGED <<tid, exit_pending>>

(* awe_thread_request_exit.                                                *)
RequestLost == UNCHANGED <<tid, exit_pending, running>>        \* mutant: never set
RequestExit == exit_pending' = TRUE /\ UNCHANGED <<tid, running>>

(* The three assignments of dummy_worker once the process has returned.    *)
ForgetAllAtOnce ==                                    \* mutant: done too early
    tid' = NoThread /\ running' = FALSE /\ UNCHANGED exit_pending
ForgetTid == tid' = NoThread /\ UNCHANGED <<exit_pending, running>>
PendAtExit == exit_pending' = TRUE /\ UNCHANGED <<tid, running>>
RunningForEver == UNCHANGED <<tid, exit_pending, running>>     \* mutant: never reset
ClearRunning == running' = FALSE /\ UNCHANGED <<tid, exit_pending>>
=============================================================================

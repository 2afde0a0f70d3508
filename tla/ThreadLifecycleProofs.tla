------------------------ MODULE ThreadLifecycleProofs ------------------------
(***************************************************************************)
(* Proofs about ThreadLifecycle, for any number of callers and threads:    *)
(* callers that take turns and wait for awe_thread_running get one thread  *)
(* at a time, and the handle knows which.                                  *)
(***************************************************************************)
EXTENDS ThreadLifecycle, TLAPS

TLTypeOK ==
    /\ ThreadTypeOK
    /\ polls \in BOOLEAN
    /\ cpc \in [Callers -> {"idle", "arm", "mark"}]
    /\ wpc \in [Workers -> {"none", "body", "forget", "pend", "halt"}]
    /\ asked \in BOOLEAN

(* Callers take turns, so one of them at most is inside awe_thread_start.  *)
OneCall == \A c, d \in Callers : cpc[c] # "idle" /\ cpc[d] # "idle" => c = d

(* Between calls the handle says that it is running as long as there is a  *)
(* thread: this is what the next start waits for.                          *)
RunningWhileAlive == \A w \in Workers : NoCall /\ wpc[w] # "none" => running

(* The handle names a thread until the thread has cleared _tid.            *)
NamedUntilForgotten == \A w \in Workers : wpc[w] \in {"body", "forget"} => tid = w

(* The inductive invariant.                                                *)
Inv == TLTypeOK /\ OneCall /\ SoleThread /\ RunningWhileAlive /\ NamedUntilForgotten
-----------------------------------------------------------------------------
USE DEF Inv, TLTypeOK, ThreadTypeOK, OneCall, SoleThread, RunningWhileAlive,
        NamedUntilForgotten, NoCall

LEMMA InitInv == Init => Inv
PROOF
<1> QED
  BY DEF Init, ThreadCreate

(* No thread is alive when a disciplined caller starts one.                *)
LEMMA StartKeeps ==
    ASSUME Disciplined, Inv, NEW c \in Callers, Start(c)
    PROVE  Inv'
PROOF
<1>1. PICK w \in Workers : Spawn(w) /\ wpc' = [wpc EXCEPT ![w] = "body"]
  BY DEF Start
<1>2. NoCall /\ ~running /\ cpc' = [cpc EXCEPT ![c] = "arm"] /\ asked' = FALSE
      /\ polls' = polls
  BY DEF Start, MayCall
<1>3. \A v \in Workers : wpc[v] = "none"
  BY <1>2
<1>4. TLTypeOK'
  BY <1>1, <1>2 DEF Spawn
<1>5. OneCall' /\ ~NoCall'
  BY <1>2
<1>6. SoleThread' /\ NamedUntilForgotten'
  BY <1>1, <1>3 DEF Spawn
<1> QED
  BY <1>4, <1>5, <1>6

(* A failed pthread_create may spoil _tid, but nobody relies on it then.   *)
LEMMA StartFailsKeeps ==
    ASSUME Disciplined, Inv, NEW c \in Callers, StartFails(c)
    PROVE  Inv'
PROOF
<1>1. \A v \in Workers : wpc[v] = "none"
  BY DEF StartFails, MayCall
<1> QED
  BY <1>1 DEF StartFails

LEMMA CallKeeps ==
    ASSUME Disciplined, Inv, NEW c \in Callers, Arm(c) \/ Mark(c) \/ Request(c)
    PROVE  Inv'
PROOF
<1>1. CASE Arm(c)
  BY <1>1 DEF Arm, ArmExitPending
<1>2. CASE Mark(c)
  BY <1>2 DEF Mark, MarkRunning
<1>3. CASE Request(c)
  BY <1>3 DEF Request, RequestExit
<1> QED
  BY <1>1, <1>2, <1>3

(* The end of a thread: the last assignment but two clears _tid, the last  *)
(* one _running.                                                           *)
LEMMA WorkerKeeps ==
    ASSUME Inv, NEW w \in Workers, WorkerStep(w)
    PROVE  Inv'
PROOF
<1>1. CASE ProcessReturns(w)
  BY <1>1 DEF ProcessReturns, threadVars
<1>2. CASE Forget(w)
  BY <1>2 DEF Forget, ForgetTid
<1>3. CASE Pend(w)
  BY <1>3 DEF Pend, PendAtExit
<1>4. CASE Halt(w)
  BY <1>4 DEF Halt, ClearRunning
<1> QED
  BY <1>1, <1>2, <1>3, <1>4 DEF WorkerStep

LEMMA NextInv ==
    ASSUME Disciplined, Inv, [Next]_vars
    PROVE  Inv'
PROOF
<1>1. CASE UNCHANGED vars
  BY <1>1 DEF vars, threadVars
<1> QED
  BY <1>1, StartKeeps, StartFailsKeeps, CallKeeps, WorkerKeeps DEF Next

LEMMA SpecInv ==
    ASSUME Disciplined
    PROVE  Spec => []Inv
PROOF
<1>1. Inv /\ [Next]_vars => Inv'
  BY NextInv
<1> QED
  BY <1>1, InitInv, PTL DEF Spec
-----------------------------------------------------------------------------
(* Two threads never run for one handle if callers take turns and start it *)
(* only while awe_thread_running says no: _running is cleared last.        *)
THEOREM HandleHasSoleThread ==
    ASSUME Disciplined
    PROVE  Spec => []SoleThread
PROOF
<1>1. Inv => SoleThread
  OBVIOUS
<1> QED
  BY <1>1, SpecInv, PTL

(* Between the calls of such callers the handle names the thread whose     *)
(* process runs, and says that it is running.                              *)
THEOREM HandleKnowsItsThread ==
    ASSUME Disciplined
    PROVE  Spec => []HandleKnowsThread
PROOF
<1>1. Inv => HandleKnowsThread
  BY DEF HandleKnowsThread
<1> QED
  BY <1>1, SpecInv, PTL
=============================================================================

---------------------------- MODULE LooperProofs ----------------------------
(***************************************************************************)
(* Proofs about Looper, for every number of threads, whoever starts, stops *)
(* and clears the looper and however the clock is set: the looper never    *)
(* frees, uses or loses a task it does not own, never runs a cancelled one *)
(* and keeps its list in due order.                                        *)
(***************************************************************************)
EXTENDS Looper, TimerTaskProofs

(* Where a worker holds a task it has taken from the list.                 *)
Holding(w) == pc[w] \in {"run", "proc", "drop"} \cup CallPCs

FirstHeld == \A w \in Workers : Holding(w) <=> first[w] # NULL

(* What a step does to the program counters when it takes no task, gives   *)
(* none back and starts no callback of a cancelled one.                    *)
CarriesOn ==
    /\ pc' \in [Threads -> WorkerPCs \cup ClientPCs \cup CallPCs]
    /\ PcOK'
    /\ \A w \in Workers :
         /\ Holding(w)' <=> Holding(w)
         /\ InCallback(w)' => InCallback(w) \/ heap[first[w]].state = "valid"

(* The places t can move to in such a step.                                *)
MayReach(t, label) ==
    /\ t \in Clients => label \in ClientPCs \cup CallPCs
    /\ t \in Workers =>
         /\ label \in WorkerPCs \cup CallPCs
         /\ label \in {"run", "proc", "drop"} \cup CallPCs <=> Holding(t)
         /\ label \in {"proc"} \cup CallPCs
              => InCallback(t) \/ heap[first[t]].state = "valid"

(* The inductive invariant.                                                *)
Inv ==
    /\ TypeOK
    /\ FirstHeld
    /\ HeapOwnership
    /\ CancelledNeverRuns
    /\ InDueOrder
    /\ StampedBelow(posted)
-----------------------------------------------------------------------------
USE DEF Goto, Resting, CanCall, Unlocked

(* What the invariant says of the list, in the form the lemmas about the   *)
(* list want.                                                              *)
LEMMA ListFacts ==
    ASSUME Inv
    PROVE  /\ TaskTypeOK /\ Distinct /\ ListedAreTasks /\ InDueOrder
           /\ posted \in Nat /\ StampedBelow(posted)
           /\ Listed \subseteq Addr
PROOF
<1>1. Listed \subseteq Addr
  BY LenProperties DEF Inv, TypeOK, TaskTypeOK, Listed
<1>2. ListedAreTasks
  BY <1>1 DEF Inv, TypeOK, TaskTypeOK, HeapOwnership, ListedAreTasks
<1> QED
  BY <1>1, <1>2 DEF Inv, TypeOK, HeapOwnership

(* A step that leaves the list, the heap and the tasks in hand alone.      *)
LEMMA Frame ==
    ASSUME Inv, UNCHANGED <<taskVars, first, posted>>, TypeOK', CarriesOn
    PROVE  Inv'
PROOF
<1>1. FirstHeld'
  BY DEF Inv, FirstHeld, CarriesOn
<1>2. Listed' = Listed /\ heap' = heap /\ first' = first /\ tasks' = tasks
  BY DEF Listed, taskVars
<1>3. HeapOwnership' /\ InDueOrder' /\ StampedBelow(posted)'
  BY <1>2 DEF Inv, HeapOwnership, Distinct, InDueOrder, StampedBelow
<1>4. CancelledNeverRuns'
  BY <1>2 DEF Inv, CancelledNeverRuns, CarriesOn
<1> QED
  BY <1>1, <1>3, <1>4 DEF Inv, CarriesOn

(* The initial states.                                                     *)
LEMMA InitInv == Init => Inv
PROOF
<1> SUFFICES ASSUME Init PROVE Inv
  OBVIOUS
<1>1. tasks = <<>> /\ DOMAIN tasks = {} /\ tasks \in Seq(Addr)
  BY DEF Init, ListInit
<1>2. Listed = {}
  BY <1>1 DEF Listed
<1>3. PcOK
  BY ThreadsDistinct DEF Init, PcOK, Threads, WorkerPCs, ClientPCs
<1>4. TypeOK
  <2>1. ThreadTypeOK /\ TaskTypeOK
    BY <1>1 DEF Init, ThreadTypeOK, TaskTypeOK, ThreadCreate, ListInit
  <2>2. pc \in [Threads -> WorkerPCs \cup ClientPCs \cup CallPCs]
    BY DEF Init, WorkerPCs, ClientPCs
  <2>3. /\ first \in [Workers -> Addr \cup {NULL}]
        /\ task \in [Workers -> Addr \cup {NULL}]
        /\ delay_ms \in [Workers -> Int]
        /\ deadline \in [Workers -> Int]
    BY DEF Init, LockInit
  <2>4. started \in BOOLEAN /\ waitset \subseteq Threads /\ mutex = NoThread
    BY DEF Init, LockInit
  <2>5. now \in Int /\ posted \in Nat /\ life = "live" /\ fault = "none"
    BY DEF Init
  <2> QED
    BY <1>3, <2>1, <2>2, <2>3, <2>4, <2>5 DEF TypeOK, Faults
<1>5. FirstHeld /\ CancelledNeverRuns
  BY ThreadsDistinct DEF Init, FirstHeld, Holding, CancelledNeverRuns, InCallback,
     Threads, WorkerPCs, ClientPCs, CallPCs
<1>6. HeapOwnership
  BY <1>1, <1>2, NullIsNoAddress DEF Init, HeapOwnership, Distinct, ListInit
<1>7. InDueOrder /\ StampedBelow(posted)
  BY <1>1, <1>2 DEF InDueOrder, StampedBelow
<1> QED
  BY <1>4, <1>5, <1>6, <1>7 DEF Inv
-----------------------------------------------------------------------------
(* A thread moves on without taking a task, giving one back or starting a  *)
(* callback of a task that was cancelled.                                  *)
LEMMA Move ==
    ASSUME Inv, NEW t \in Threads, NEW label, Goto(t, label),
           MayReach(t, label)
    PROVE  CarriesOn
PROOF
<1>1. pc \in [Threads -> WorkerPCs \cup ClientPCs \cup CallPCs]
  BY DEF Inv, TypeOK
<1>2. pc'[t] = label /\ \A u \in Threads \ {t} : pc'[u] = pc[u]
  BY <1>1
<1>3. pc' \in [Threads -> WorkerPCs \cup ClientPCs \cup CallPCs]
  BY <1>1 DEF MayReach, Threads
<1>4. PcOK'
  BY <1>2 DEF MayReach, PcOK, Inv, TypeOK, Threads
<1>5. ASSUME NEW w \in Workers
      PROVE  /\ Holding(w)' <=> Holding(w)
             /\ InCallback(w)' => InCallback(w) \/ heap[first[w]].state = "valid"
  <2>1. CASE w = t
    BY <1>2, <2>1 DEF MayReach, Holding, InCallback
  <2>2. CASE w # t
    <3>1. w \in Threads
      BY DEF Threads
    <3> QED
      BY <1>2, <2>2, <3>1 DEF Holding, InCallback
  <2> QED
    BY <2>1, <2>2
<1> QED
  BY <1>3, <1>4, <1>5 DEF CarriesOn

(* A step that moves no thread.                                            *)
LEMMA Stay ==
    ASSUME Inv, pc' = pc
    PROVE  CarriesOn
PROOF
<1> QED
  BY DEF Inv, TypeOK, PcOK, Holding, InCallback, CarriesOn

(* The steps of start, stop and destroy that leave the list alone.         *)
LEMMA OwnerQuiet ==
    ASSUME Inv, NEW t \in Threads,
           StartArm(t) \/ StartMark(t) \/ StartPublish(t) \/ StopLock(t) \/
           StopRequest(t) \/ StopJoin(t) \/ Destroy(t) \/ DestroyStopped(t) \/
           DestroyFree(t)
    PROVE  Inv'
PROOF
<1>0. t \in Clients <=> t \notin Workers
  BY ThreadsDistinct DEF Threads
<1>1. CASE StartArm(t)
  <2>1. UNCHANGED <<taskVars, first, posted>>
    BY <1>1 DEF StartArm, Abort, localVars, clockVars
  <2>2. CarriesOn
    <3>1. Goto(t, "mark")
      BY <1>1 DEF StartArm
    <3>2. MayReach(t, "mark")
      BY <1>0, <1>1 DEF StartArm, MayReach, Inv, TypeOK, PcOK, Holding, InCallback,
         WorkerPCs, ClientPCs, CallPCs
    <3> QED
      BY <1>0, <3>1, <3>2, Move
  <2>3. TypeOK'
    BY <1>0, <1>1, <2>1, <2>2 DEF CarriesOn, StartArm, ArmExitPending, Abort,
       Faults, Inv, TypeOK, ThreadTypeOK, TaskTypeOK, threadVars, taskVars,
       lockVars, localVars, clockVars
  <2> QED
    BY <2>1, <2>2, <2>3, Frame
<1>2. CASE StartMark(t)
  <2>1. UNCHANGED <<taskVars, first, posted>>
    BY <1>2 DEF StartMark, Abort, localVars, clockVars
  <2>2. CarriesOn
    <3>1. Goto(t, "publish")
      BY <1>2 DEF StartMark
    <3>2. MayReach(t, "publish")
      BY <1>0, <1>2 DEF StartMark, MayReach, Inv, TypeOK, PcOK, Holding, InCallback,
         WorkerPCs, ClientPCs, CallPCs
    <3> QED
      BY <1>0, <3>1, <3>2, Move
  <2>3. TypeOK'
    BY <1>0, <1>2, <2>1, <2>2 DEF CarriesOn, StartMark, MarkRunning, Abort, Faults,
       Inv, TypeOK, ThreadTypeOK, TaskTypeOK, threadVars, taskVars, lockVars,
       localVars, clockVars
  <2> QED
    BY <2>1, <2>2, <2>3, Frame
<1>3. CASE StartPublish(t)
  <2>1. UNCHANGED <<taskVars, first, posted>>
    BY <1>3 DEF StartPublish, Abort, localVars, clockVars
  <2>2. CarriesOn
    <3> DEFINE label == IF t \in Workers THEN "proc" ELSE "idle"
    <3>1. Goto(t, label)
      BY <1>3 DEF StartPublish
    <3>2. MayReach(t, label)
      BY <1>0, <1>3 DEF StartPublish, MayReach, Inv, TypeOK, PcOK, Holding,
         InCallback, WorkerPCs, ClientPCs, CallPCs
    <3> HIDE DEF label
    <3> QED
      BY <1>0, <3>1, <3>2, Move
  <2>3. TypeOK'
    BY <1>0, <1>3, <2>1, <2>2 DEF CarriesOn, StartPublish, Abort, Faults, Inv,
       TypeOK, ThreadTypeOK, TaskTypeOK, threadVars, taskVars, lockVars, localVars,
       clockVars
  <2> QED
    BY <2>1, <2>2, <2>3, Frame
<1>4. CASE StopLock(t)
  <2>1. UNCHANGED <<taskVars, first, posted>>
    BY <1>4 DEF StopLock, Abort, localVars, clockVars
  <2>2. CarriesOn
    <3>1. Goto(t, "request")
      BY <1>4 DEF StopLock
    <3>2. MayReach(t, "request")
      BY <1>0, <1>4 DEF StopLock, MayReach, Inv, TypeOK, PcOK, Holding, InCallback,
         WorkerPCs, ClientPCs, CallPCs
    <3> QED
      BY <1>0, <3>1, <3>2, Move
  <2>3. TypeOK'
    BY <1>0, <1>4, <2>1, <2>2 DEF CarriesOn, StopLock, Signal, Abort, Faults, Inv,
       TypeOK, ThreadTypeOK, TaskTypeOK, threadVars, taskVars, lockVars, localVars,
       clockVars
  <2> QED
    BY <2>1, <2>2, <2>3, Frame
<1>5. CASE StopRequest(t)
  <2>1. UNCHANGED <<taskVars, first, posted>>
    BY <1>5 DEF StopRequest, Abort, localVars, clockVars
  <2>2. CarriesOn
    <3>1. Goto(t, "join") \/ pc' = pc
      BY <1>5 DEF StopRequest, Abort
    <3>2. pc' # pc => MayReach(t, "join")
      BY <1>0, <1>5 DEF StopRequest, Abort, MayReach, Inv, TypeOK, PcOK, Holding,
         InCallback, WorkerPCs, ClientPCs, CallPCs
    <3> QED
      BY <1>0, <3>1, <3>2, Move, Stay
  <2>3. TypeOK'
    BY <1>0, <1>5, <2>1, <2>2 DEF CarriesOn, StopRequest, RequestExit, Abort,
       Faults, Inv, TypeOK, ThreadTypeOK, TaskTypeOK, threadVars, taskVars,
       lockVars, localVars, clockVars
  <2> QED
    BY <2>1, <2>2, <2>3, Frame
<1>6. CASE StopJoin(t)
  <2>1. UNCHANGED <<taskVars, first, posted>>
    BY <1>6 DEF StopJoin, Abort, localVars, clockVars
  <2>2. CarriesOn
    <3> DEFINE label == IF t \in Clients /\ life = "destroying" THEN "clear"
                        ELSE IF t \in Workers THEN "proc" ELSE "idle"
    <3>1. Goto(t, label) \/ pc' = pc
      BY <1>6 DEF StopJoin, Abort
    <3>2. pc' # pc => MayReach(t, label)
      BY <1>0, <1>6 DEF StopJoin, Abort, MayReach, Inv, TypeOK, PcOK, Holding,
         InCallback, WorkerPCs, ClientPCs, CallPCs
    <3> HIDE DEF label
    <3> QED
      BY <1>0, <3>1, <3>2, Move, Stay
  <2>3. TypeOK'
    BY <1>0, <1>6, <2>1, <2>2 DEF CarriesOn, StopJoin, Abort, Faults, Inv, TypeOK,
       ThreadTypeOK, TaskTypeOK, threadVars, taskVars, lockVars, localVars,
       clockVars
  <2> QED
    BY <2>1, <2>2, <2>3, Frame
<1>7. CASE Destroy(t)
  <2>1. UNCHANGED <<taskVars, first, posted>>
    BY <1>7 DEF Destroy, Abort, localVars, clockVars
  <2>2. CarriesOn
    <3>1. Goto(t, "destroy")
      BY <1>7 DEF Destroy
    <3>2. MayReach(t, "destroy")
      BY <1>0, <1>7 DEF Destroy, MayReach, Inv, TypeOK, PcOK, Holding, InCallback,
         WorkerPCs, ClientPCs, CallPCs
    <3> QED
      BY <1>0, <3>1, <3>2, Move
  <2>3. TypeOK'
    BY <1>0, <1>7, <2>1, <2>2 DEF CarriesOn, Destroy, Abort, Faults, Inv, TypeOK,
       ThreadTypeOK, TaskTypeOK, threadVars, taskVars, lockVars, localVars,
       clockVars
  <2> QED
    BY <2>1, <2>2, <2>3, Frame
<1>8. CASE DestroyStopped(t)
  <2>1. UNCHANGED <<taskVars, first, posted>>
    BY <1>8 DEF MoveOn, DestroyStopped, Abort, localVars, clockVars
  <2>2. CarriesOn
    <3>1. Goto(t, "clear")
      BY <1>8 DEF MoveOn, DestroyStopped
    <3>2. MayReach(t, "clear")
      BY <1>0, <1>8 DEF MoveOn, DestroyStopped, MayReach, Inv, TypeOK, PcOK, Holding,
         InCallback, WorkerPCs, ClientPCs, CallPCs
    <3> QED
      BY <1>0, <3>1, <3>2, Move
  <2>3. TypeOK'
    BY <1>0, <1>8, <2>1, <2>2 DEF MoveOn, CarriesOn, DestroyStopped, Abort, Faults, Inv,
       TypeOK, ThreadTypeOK, TaskTypeOK, threadVars, taskVars, lockVars, localVars,
       clockVars
  <2> QED
    BY <2>1, <2>2, <2>3, Frame
<1>9. CASE DestroyFree(t)
  <2>1. UNCHANGED <<taskVars, first, posted>>
    BY <1>9 DEF DestroyFree, Abort, localVars, clockVars
  <2>2. CarriesOn
    <3>1. Goto(t, "idle") \/ pc' = pc
      BY <1>9 DEF DestroyFree, Abort
    <3>2. pc' # pc => MayReach(t, "idle")
      BY <1>0, <1>9 DEF DestroyFree, Abort, MayReach, Inv, TypeOK, PcOK, Holding,
         InCallback, WorkerPCs, ClientPCs, CallPCs
    <3> QED
      BY <1>0, <3>1, <3>2, Move, Stay
  <2>3. TypeOK'
    BY <1>0, <1>9, <2>1, <2>2 DEF CarriesOn, DestroyFree, Abort, Faults, Inv,
       TypeOK, ThreadTypeOK, TaskTypeOK, threadVars, taskVars, lockVars, localVars,
       clockVars
  <2> QED
    BY <2>1, <2>2, <2>3, Frame
<1> QED
  BY <1>1, <1>2, <1>3, <1>4, <1>5, <1>6, <1>7, <1>8, <1>9

(* The steps of a worker that neither take a task nor destroy it.          *)
LEMMA WorkerQuiet ==
    ASSUME Inv, NEW w \in Workers,
           Loop(w) \/ LockWait(w) \/ CheckStarted(w) \/ PickNothing(w) \/
           TimedWait(w) \/ WakeUp(w) \/ Run(w) \/ Return(w) \/ Leave(w) \/
           Forget(w) \/ Pend(w) \/ Halt(w)
    PROVE  Inv'
PROOF
<1>0. w \in Threads /\ w \notin Clients
  BY ThreadsDistinct DEF Threads
<1>1. CASE Loop(w)
  <2>1. UNCHANGED <<taskVars, first, posted>>
    BY <1>1 DEF MoveOn, Loop, Abort, localVars, clockVars
  <2>2. CarriesOn
    <3> DEFINE label == IF exit_pending THEN "leave" ELSE "lock"
    <3>1. Goto(w, label)
      BY <1>1 DEF MoveOn, Loop
    <3>2. MayReach(w, label)
      BY <1>0, <1>1 DEF MoveOn, Loop, MayReach, Inv, TypeOK, PcOK, Holding, InCallback,
         WorkerPCs, ClientPCs, CallPCs
    <3> HIDE DEF label
    <3> QED
      BY <1>0, <3>1, <3>2, Move
  <2>3. TypeOK'
    BY <1>0, <1>1, <2>1, <2>2 DEF MoveOn, CarriesOn, Loop, Abort, Faults, Inv, TypeOK,
       ThreadTypeOK, TaskTypeOK, threadVars, taskVars, lockVars, localVars,
       clockVars
  <2> QED
    BY <2>1, <2>2, <2>3, Frame
<1>2. CASE LockWait(w)
  <2>1. UNCHANGED <<taskVars, first, posted>>
    BY <1>2 DEF LockWait, Abort, localVars, clockVars
  <2>2. CarriesOn
    <3>1. Goto(w, "check") \/ pc' = pc
      BY <1>2 DEF LockWait, Abort
    <3>2. pc' # pc => MayReach(w, "check")
      BY <1>0, <1>2 DEF LockWait, Abort, MayReach, Inv, TypeOK, PcOK, Holding,
         InCallback, WorkerPCs, ClientPCs, CallPCs
    <3> QED
      BY <1>0, <3>1, <3>2, Move, Stay
  <2>3. TypeOK'
    BY <1>0, <1>2, <2>1, <2>2 DEF CarriesOn, LockWait, Abort, Faults, Inv, TypeOK,
       ThreadTypeOK, TaskTypeOK, threadVars, taskVars, lockVars, localVars,
       clockVars
  <2> QED
    BY <2>1, <2>2, <2>3, Frame
<1>3. CASE CheckStarted(w)
  <2>1. UNCHANGED <<taskVars, first, posted>>
    BY <1>3 DEF MoveOn, CheckStarted, Abort, localVars, clockVars
  <2>2. CarriesOn
    <3> DEFINE label == IF started THEN "pick" ELSE "leave"
    <3>1. Goto(w, label)
      BY <1>3 DEF MoveOn, CheckStarted
    <3>2. MayReach(w, label)
      BY <1>0, <1>3 DEF MoveOn, CheckStarted, MayReach, Inv, TypeOK, PcOK, Holding,
         InCallback, WorkerPCs, ClientPCs, CallPCs
    <3> HIDE DEF label
    <3> QED
      BY <1>0, <3>1, <3>2, Move
  <2>3. TypeOK'
    BY <1>0, <1>3, <2>1, <2>2 DEF MoveOn, CarriesOn, CheckStarted, Abort, Faults, Inv,
       TypeOK, ThreadTypeOK, TaskTypeOK, threadVars, taskVars, lockVars, localVars,
       clockVars
  <2> QED
    BY <2>1, <2>2, <2>3, Frame
<1>4. CASE PickNothing(w)
  <2>1. UNCHANGED <<taskVars, first, posted>>
    BY <1>4 DEF PickNothing, Abort, localVars, clockVars
  <2>2. CarriesOn
    <3>1. pc' = pc
      BY <1>4 DEF PickNothing, Abort
    <3> QED
      BY <3>1, Stay
  <2>3. TypeOK'
    BY <1>0, <1>4, <2>1, <2>2 DEF CarriesOn, PickNothing, Abort, Faults, Inv,
       TypeOK, ThreadTypeOK, TaskTypeOK, threadVars, taskVars, lockVars, localVars,
       clockVars
  <2> QED
    BY <2>1, <2>2, <2>3, Frame
<1>5. CASE TimedWait(w)
  <2>1. UNCHANGED <<taskVars, first, posted>>
    BY <1>5 DEF TimedWait, Abort, localVars, clockVars
  <2>2. CarriesOn
    <3>1. Goto(w, "timed")
      BY <1>5 DEF TimedWait
    <3>2. MayReach(w, "timed")
      BY <1>0, <1>5 DEF TimedWait, MayReach, Inv, TypeOK, PcOK, Holding, InCallback,
         WorkerPCs, ClientPCs, CallPCs
    <3> QED
      BY <1>0, <3>1, <3>2, Move
  <2>3. TypeOK'
    BY <1>0, <1>5, <2>1, <2>2 DEF CarriesOn, TimedWait, Abort, Faults, Inv, TypeOK,
       ThreadTypeOK, TaskTypeOK, threadVars, taskVars, lockVars, localVars,
       clockVars
  <2> QED
    BY <2>1, <2>2, <2>3, Frame
<1>6. CASE WakeUp(w)
  <2>1. UNCHANGED <<taskVars, first, posted>>
    BY <1>6 DEF WakeUp, Abort, localVars, clockVars
  <2>2. CarriesOn
    <3>1. Goto(w, "loop")
      BY <1>6 DEF WakeUp
    <3>2. MayReach(w, "loop")
      BY <1>0, <1>6 DEF WakeUp, MayReach, Inv, TypeOK, PcOK, Holding, InCallback,
         WorkerPCs, ClientPCs, CallPCs
    <3> QED
      BY <1>0, <3>1, <3>2, Move
  <2>3. TypeOK'
    BY <1>0, <1>6, <2>1, <2>2 DEF CarriesOn, WakeUp, Abort, Faults, Inv, TypeOK,
       ThreadTypeOK, TaskTypeOK, threadVars, taskVars, lockVars, localVars,
       clockVars
  <2> QED
    BY <2>1, <2>2, <2>3, Frame
<1>7. CASE Run(w)
  <2>1. UNCHANGED <<taskVars, first, posted>>
    BY <1>7 DEF MoveOn, Run, Abort, localVars, clockVars
  <2>2. CarriesOn
    <3> DEFINE label == IF heap[first[w]].state = "valid" THEN "proc" ELSE "drop"
    <3>1. Goto(w, label)
      BY <1>7 DEF MoveOn, Run
    <3>2. MayReach(w, label)
      BY <1>0, <1>7 DEF MoveOn, Run, MayReach, Inv, TypeOK, PcOK, Holding, InCallback,
         WorkerPCs, ClientPCs, CallPCs
    <3> HIDE DEF label
    <3> QED
      BY <1>0, <3>1, <3>2, Move
  <2>3. TypeOK'
    BY <1>0, <1>7, <2>1, <2>2 DEF MoveOn, CarriesOn, Run, Abort, Faults, Inv, TypeOK,
       ThreadTypeOK, TaskTypeOK, threadVars, taskVars, lockVars, localVars,
       clockVars
  <2> QED
    BY <2>1, <2>2, <2>3, Frame
<1>8. CASE Return(w)
  <2>1. UNCHANGED <<taskVars, first, posted>>
    BY <1>8 DEF MoveOn, Return, Abort, localVars, clockVars
  <2>2. CarriesOn
    <3>1. Goto(w, "drop")
      BY <1>8 DEF MoveOn, Return
    <3>2. MayReach(w, "drop")
      BY <1>0, <1>8 DEF MoveOn, Return, MayReach, Inv, TypeOK, PcOK, Holding, InCallback,
         WorkerPCs, ClientPCs, CallPCs
    <3> QED
      BY <1>0, <3>1, <3>2, Move
  <2>3. TypeOK'
    BY <1>0, <1>8, <2>1, <2>2 DEF MoveOn, CarriesOn, Return, Abort, Faults, Inv, TypeOK,
       ThreadTypeOK, TaskTypeOK, threadVars, taskVars, lockVars, localVars,
       clockVars
  <2> QED
    BY <2>1, <2>2, <2>3, Frame
<1>9. CASE Leave(w)
  <2>1. UNCHANGED <<taskVars, first, posted>>
    BY <1>9 DEF Leave, Abort, localVars, clockVars
  <2>2. CarriesOn
    <3>1. Goto(w, "forget")
      BY <1>9 DEF Leave
    <3>2. MayReach(w, "forget")
      BY <1>0, <1>9 DEF Leave, MayReach, Inv, TypeOK, PcOK, Holding, InCallback,
         WorkerPCs, ClientPCs, CallPCs
    <3> QED
      BY <1>0, <3>1, <3>2, Move
  <2>3. TypeOK'
    BY <1>0, <1>9, <2>1, <2>2 DEF CarriesOn, Leave, Broadcast, Abort, Faults, Inv,
       TypeOK, ThreadTypeOK, TaskTypeOK, threadVars, taskVars, lockVars, localVars,
       clockVars
  <2> QED
    BY <2>1, <2>2, <2>3, Frame
<1>10. CASE Forget(w)
  <2>1. UNCHANGED <<taskVars, first, posted>>
    BY <1>10 DEF Forget, Abort, localVars, clockVars
  <2>2. CarriesOn
    <3>1. Goto(w, "pend")
      BY <1>10 DEF Forget
    <3>2. MayReach(w, "pend")
      BY <1>0, <1>10 DEF Forget, MayReach, Inv, TypeOK, PcOK, Holding, InCallback,
         WorkerPCs, ClientPCs, CallPCs
    <3> QED
      BY <1>0, <3>1, <3>2, Move
  <2>3. TypeOK'
    BY <1>0, <1>10, <2>1, <2>2 DEF CarriesOn, Forget, ForgetTid, Abort, Faults, Inv,
       TypeOK, ThreadTypeOK, TaskTypeOK, threadVars, taskVars, lockVars, localVars,
       clockVars
  <2> QED
    BY <2>1, <2>2, <2>3, Frame
<1>11. CASE Pend(w)
  <2>1. UNCHANGED <<taskVars, first, posted>>
    BY <1>11 DEF Pend, Abort, localVars, clockVars
  <2>2. CarriesOn
    <3>1. Goto(w, "halt")
      BY <1>11 DEF Pend
    <3>2. MayReach(w, "halt")
      BY <1>0, <1>11 DEF Pend, MayReach, Inv, TypeOK, PcOK, Holding, InCallback,
         WorkerPCs, ClientPCs, CallPCs
    <3> QED
      BY <1>0, <3>1, <3>2, Move
  <2>3. TypeOK'
    BY <1>0, <1>11, <2>1, <2>2 DEF CarriesOn, Pend, PendAtExit, Abort, Faults, Inv,
       TypeOK, ThreadTypeOK, TaskTypeOK, threadVars, taskVars, lockVars, localVars,
       clockVars
  <2> QED
    BY <2>1, <2>2, <2>3, Frame
<1>12. CASE Halt(w)
  <2>1. UNCHANGED <<taskVars, first, posted>>
    BY <1>12 DEF Halt, Abort, localVars, clockVars
  <2>2. CarriesOn
    <3>1. Goto(w, "none")
      BY <1>12 DEF Halt
    <3>2. MayReach(w, "none")
      BY <1>0, <1>12 DEF Halt, MayReach, Inv, TypeOK, PcOK, Holding, InCallback,
         WorkerPCs, ClientPCs, CallPCs
    <3> QED
      BY <1>0, <3>1, <3>2, Move
  <2>3. TypeOK'
    BY <1>0, <1>12, <2>1, <2>2 DEF CarriesOn, Halt, ClearRunning, Abort, Faults,
       Inv, TypeOK, ThreadTypeOK, TaskTypeOK, threadVars, taskVars, lockVars,
       localVars, clockVars
  <2> QED
    BY <2>1, <2>2, <2>3, Frame
<1> QED
  BY <1>1, <1>2, <1>3, <1>4, <1>5, <1>6, <1>7, <1>8, <1>9, <1>10, <1>11, <1>12

(* Starting: the caller is inside the call, the new worker at its loop.    *)
LEMMA StartLockKeeps ==
    ASSUME Inv, NEW t \in Threads, StartLock(t)
    PROVE  Inv'
PROOF
<1>1. UNCHANGED <<taskVars, first, posted>>
  BY DEF StartLock, Abort, localVars, clockVars
<1>2. CASE Abort("tid") \/ Abort("create")
  <2>1. pc' = pc
    BY <1>2 DEF Abort
  <2>2. CarriesOn
    BY <2>1, Stay
  <2>3. TypeOK'
    BY <1>2, <2>2 DEF CarriesOn, Abort, Faults, Inv, TypeOK, ThreadTypeOK,
       TaskTypeOK, threadVars, taskVars, lockVars, localVars, clockVars
  <2> QED
    BY <1>1, <2>2, <2>3, Frame
<1>3. CASE ~(Abort("tid") \/ Abort("create"))
  <2>1. PICK w \in Workers :
          /\ pc[w] = "none"
          /\ Spawn(w)
          /\ pc' = [pc EXCEPT ![t] = "arm", ![w] = "loop"]
          /\ mutex' = t
          /\ UNCHANGED <<taskVars, started, waitset, localVars, clockVars, life, fault>>
    BY <1>3 DEF StartLock
  <2>2. pc[t] = (IF t \in Workers THEN "proc" ELSE "idle") /\ t # w
    BY <2>1 DEF StartLock
  <2>3. w \in Threads /\ w \notin Clients /\ (t \in Clients <=> t \notin Workers)
    BY ThreadsDistinct DEF Threads
  <2>4. pc \in [Threads -> WorkerPCs \cup ClientPCs \cup CallPCs]
    BY DEF Inv, TypeOK
  <2>5. /\ pc' \in [Threads -> WorkerPCs \cup ClientPCs \cup CallPCs]
        /\ pc'[t] = "arm" /\ pc'[w] = "loop"
        /\ \A u \in Threads \ {t, w} : pc'[u] = pc[u]
    BY <2>1, <2>2, <2>3, <2>4 DEF WorkerPCs, CallPCs
  <2>6. PcOK'
    BY <2>3, <2>5 DEF Inv, TypeOK, PcOK, Threads, WorkerPCs, CallPCs
  <2>7. ASSUME NEW u \in Workers
        PROVE  /\ Holding(u)' <=> Holding(u)
               /\ InCallback(u)' => InCallback(u)
    <3>1. u \in Threads
      BY DEF Threads
    <3>2. CASE u = t
      BY <2>2, <2>5, <3>2 DEF Holding, InCallback, CallPCs
    <3>3. CASE u = w
      BY <2>1, <2>5, <3>3 DEF Holding, InCallback, CallPCs
    <3>4. CASE u # t /\ u # w
      BY <2>5, <3>1, <3>4 DEF Holding, InCallback
    <3> QED
      BY <3>2, <3>3, <3>4
  <2>8. TypeOK'
    BY <1>1, <2>1, <2>5, <2>6 DEF Inv, TypeOK, ThreadTypeOK, TaskTypeOK, Spawn,
       taskVars, localVars, clockVars
  <2> QED
    BY <1>1, <2>5, <2>6, <2>7, <2>8, Frame DEF CarriesOn
<1> QED
  BY <1>2, <1>3

(* A worker that finds the first task not due computes how long to sleep.  *)
LEMMA PickLaterKeeps ==
    ASSUME Inv, NEW w \in Workers, PickLater(w)
    PROVE  Inv'
PROOF
<1>0. w \in Threads /\ w \notin Clients
  BY ThreadsDistinct DEF Threads
<1>1. UNCHANGED <<taskVars, first, posted>> /\ Goto(w, "delay")
  BY DEF PickLater, clockVars
<1>2. ~Holding(w)
  BY DEF PickLater, Holding, CallPCs
<1>3. CarriesOn
  <2>1. MayReach(w, "delay")
    BY <1>0, <1>2 DEF MayReach, WorkerPCs, CallPCs
  <2> QED
    BY <1>0, <1>1, <2>1, Move
<1>4. ListFirst \in Addr /\ heap[ListFirst] \in TimerTask
  <2>1. tasks \in Seq(Addr) /\ tasks # <<>>
    BY DEF PickLater, Inv, TypeOK, TaskTypeOK
  <2>2. Len(tasks) \in Nat /\ Len(tasks) > 0 /\ DOMAIN tasks = 1 .. Len(tasks)
    BY <2>1, EmptySeq, LenProperties
  <2>3. ListFirst = tasks[1] /\ tasks[1] \in Listed
    BY <2>1, <2>2 DEF ListFirst, Listed
  <2> QED
    BY <2>3, ListFacts DEF ListedAreTasks
<1>5. TypeOK'
  <2>1. heap[ListFirst].proc_ms - now \in Int
    BY <1>4 DEF TimerTask, Inv, TypeOK
  <2> QED
    BY <1>0, <1>1, <1>3, <1>4, <2>1 DEF CarriesOn, PickLater, Inv, TypeOK,
       ThreadTypeOK, TaskTypeOK, threadVars, taskVars, clockVars
<1> QED
  BY <1>1, <1>3, <1>5, Frame

(* Wakeups and the clock.                                                  *)
LEMMA EnvironmentKeeps ==
    ASSUME Inv,
           \/ \E t \in Threads : Timeout(t) \/ Spurious(t)
           \/ Tick \/ SetClock
    PROVE  Inv'
PROOF
<1>1. UNCHANGED <<taskVars, first, posted, pc>>
  BY DEF Timeout, Spurious, Tick, SetClock, localVars, clockVars
<1>2. CarriesOn
  BY <1>1, Stay
<1>3. TypeOK'
  <2>1. waitset' \subseteq Threads
    BY DEF Timeout, Spurious, Tick, SetClock, lockVars, Inv, TypeOK
  <2>2. now' \in Int
    <3>1. now \in Int
      BY DEF Inv, TypeOK
    <3>2. CASE Tick
      BY <3>1, <3>2 DEF Tick
    <3>3. CASE SetClock
      BY <3>3, NumbersAreNumbers DEF SetClock
    <3>4. CASE \E t \in Threads : Timeout(t) \/ Spurious(t)
      BY <3>1, <3>4 DEF Timeout, Spurious, clockVars
    <3> QED
      BY <3>2, <3>3, <3>4
  <2>3. UNCHANGED <<threadVars, taskVars, started, mutex, pc, localVars, posted, life,
  fault>>
    BY DEF Timeout, Spurious, Tick, SetClock, lockVars, clockVars
  <2> QED
    BY <2>1, <2>2, <2>3, <1>2 DEF CarriesOn, Inv, TypeOK, ThreadTypeOK, TaskTypeOK,
       threadVars, taskVars, localVars
<1> QED
  BY <1>1, <1>2, <1>3, Frame
-----------------------------------------------------------------------------
(* The steps that change the list or the tasks in hand.                    *)

(* A post lists a task at an address nobody owns.                          *)
LEMMA PostKeeps ==
    ASSUME Inv, NEW t \in Threads, NEW a \in Addr, NEW d \in Delays, Post(t, a, d)
    PROVE  Inv'
PROOF
<1>1. ListInsert(a, now + d, posted) /\ posted' = posted + 1
      /\ UNCHANGED <<threadVars, started, mutex, pc, localVars, now, life, fault>>
  BY DEF Post
<1>2. now + d \in Int
  BY NumbersAreNumbers DEF Inv, TypeOK
<1>3. /\ TaskTypeOK' /\ Distinct' /\ ListedAreTasks' /\ InDueOrder'
      /\ \A b \in Listed' : heap'[b].stamp < posted + 1
      /\ Listed' = Listed \cup {a} /\ a \notin Listed
      /\ \A b \in Addr \ {a} : heap'[b] = heap[b]
      /\ heap'[a] \in TimerTask
  BY <1>1, <1>2, ListFacts, ListInsertKeeps
<1>4. heap[a] = Free
  BY <1>1 DEF ListInsert
<1>5. first' = first /\ pc' = pc
  BY <1>1 DEF localVars
<1>6. \A w \in Workers : first[w] # a /\ first[w] \in Addr \cup {NULL}
  BY <1>4 DEF Inv, HeapOwnership, TypeOK
<1>7. HeapOwnership'
  <2>1. ASSUME NEW b \in Addr
        PROVE  heap'[b] # Free <=> b \in Listed' \/ \E w \in Workers : first'[w] = b
    <3>1. CASE b = a
      BY <1>3, <3>1, FreeIsNoTask
    <3>2. CASE b # a
      BY <1>3, <1>5, <3>2 DEF Inv, HeapOwnership
    <3> QED
      BY <3>1, <3>2
  <2>2. \A w \in Workers : first'[w] \notin Listed'
    BY <1>3, <1>5, <1>6 DEF Inv, HeapOwnership
  <2> QED
    BY <1>3, <1>5, <2>1, <2>2 DEF Inv, HeapOwnership
<1>8. CancelledNeverRuns'
  <2>1. ASSUME NEW w \in Workers, InCallback(w)'
        PROVE  heap'[first'[w]].state = "valid"
    <3>1. InCallback(w) /\ first[w] # NULL
      BY <1>5, <2>1 DEF InCallback, Inv, FirstHeld, Holding
    <3> QED
      BY <1>3, <1>5, <1>6, <3>1 DEF Inv, CancelledNeverRuns
  <2> QED
    BY <2>1 DEF CancelledNeverRuns
<1>9. PcOK' /\ FirstHeld'
  BY <1>5 DEF Inv, TypeOK, PcOK, FirstHeld, Holding
<1>10. TypeOK'
  <2>1. waitset' \subseteq Threads
    BY DEF Post, Signal, Inv, TypeOK
  <2>2. posted' \in Nat
    BY <1>1 DEF Inv, TypeOK
  <2> QED
    BY <1>1, <1>3, <2>1, <2>2, <1>9 DEF Inv, TypeOK, ThreadTypeOK, threadVars,
       localVars
<1>11. StampedBelow(posted)'
  BY <1>1, <1>3 DEF StampedBelow
<1> QED
  BY <1>3, <1>7, <1>8, <1>9, <1>10, <1>11 DEF Inv

(* Cancelling marks a listed task, so none that a worker has in hand.      *)
LEMMA CancelKeeps ==
    ASSUME Inv, NEW t \in Threads, NEW id \in Addr, Cancel(t, id)
    PROVE  Inv'
PROOF
<1>1. ListCancel(id)
      /\ UNCHANGED <<threadVars, started, lockVars, pc, localVars, clockVars, life,
      fault>>
  BY DEF Cancel
<1>2. /\ TaskTypeOK' /\ Distinct' /\ InDueOrder'
      /\ StampedBelow(posted)' /\ Listed' = Listed
      /\ \A b \in Addr : heap'[b] = Free <=> heap[b] = Free
      /\ \A b \in Addr \ Listed : heap'[b] = heap[b]
  BY <1>1, ListFacts, ListCancelKeeps DEF clockVars
<1>3. first' = first /\ pc' = pc /\ posted' = posted
  BY <1>1 DEF localVars, clockVars
<1>4. HeapOwnership'
  BY <1>2, <1>3 DEF Inv, HeapOwnership
<1>5. CancelledNeverRuns'
  <2>1. ASSUME NEW w \in Workers, InCallback(w)'
        PROVE  heap'[first'[w]].state = "valid"
    <3>1. InCallback(w) /\ first[w] \in Addr \ Listed
      BY <1>3, <2>1 DEF InCallback, Inv, FirstHeld, Holding, HeapOwnership, TypeOK
    <3> QED
      BY <1>2, <1>3, <3>1 DEF Inv, CancelledNeverRuns
  <2> QED
    BY <2>1 DEF CancelledNeverRuns
<1>6. PcOK' /\ FirstHeld'
  BY <1>3 DEF Inv, TypeOK, PcOK, FirstHeld, Holding
<1>7. TypeOK'
  BY <1>1, <1>2, <1>6 DEF Inv, TypeOK, ThreadTypeOK, threadVars, lockVars,
     localVars, clockVars
<1> QED
  BY <1>2, <1>3, <1>4, <1>5, <1>6, <1>7 DEF Inv

(* Clearing frees the listed tasks, so none that a worker has in hand.     *)
LEMMA ClearFacts ==
    ASSUME Inv, ListClear, first' = first, posted' = posted
    PROVE  /\ TaskTypeOK' /\ HeapOwnership' /\ InDueOrder' /\ StampedBelow(posted)'
           /\ \A w \in Workers : first[w] # NULL => heap'[first[w]] = heap[first[w]]
PROOF
<1>1. /\ TaskTypeOK' /\ Distinct' /\ InDueOrder' /\ StampedBelow(posted)'
      /\ Listed' = {}
      /\ \A b \in Addr : heap'[b] = IF b \in Listed THEN Free ELSE heap[b]
  BY ListFacts, ListClearKeeps
<1>2. ASSUME NEW w \in Workers, first[w] # NULL
      PROVE  first[w] \in Addr \ Listed
  BY <1>2 DEF Inv, HeapOwnership, TypeOK
<1>3. ASSUME NEW b \in Addr
      PROVE  heap'[b] # Free <=> b \in Listed' \/ \E w \in Workers : first'[w] = b
  BY <1>1, <1>2 DEF Inv, HeapOwnership
<1>4. HeapOwnership'
  BY <1>1, <1>3 DEF Inv, HeapOwnership
<1> QED
  BY <1>1, <1>2, <1>4

LEMMA ClearKeeps ==
    ASSUME Inv, NEW t \in Threads, Clear(t)
    PROVE  Inv'
PROOF
<1>1. ListClear
      /\ UNCHANGED <<threadVars, started, lockVars, pc, localVars, clockVars, life,
      fault>>
  BY DEF Clear
<1>2. first' = first /\ pc' = pc /\ posted' = posted
  BY <1>1 DEF localVars, clockVars
<1>3. /\ TaskTypeOK' /\ HeapOwnership' /\ InDueOrder' /\ StampedBelow(posted)'
      /\ \A w \in Workers : first[w] # NULL => heap'[first[w]] = heap[first[w]]
  BY <1>1, <1>2, ClearFacts
<1>4. PcOK' /\ FirstHeld' /\ CancelledNeverRuns'
  BY <1>2, <1>3 DEF Inv, TypeOK, PcOK, FirstHeld, Holding, CancelledNeverRuns,
     InCallback
<1>5. TypeOK'
  BY <1>1, <1>3, <1>4 DEF Inv, TypeOK, ThreadTypeOK, threadVars, lockVars,
     localVars, clockVars
<1> QED
  BY <1>3, <1>4, <1>5 DEF Inv

LEMMA DestroyClearKeeps ==
    ASSUME Inv, NEW t \in Threads, DestroyClear(t)
    PROVE  Inv'
PROOF
<1>1. ListClear /\ Goto(t, "dispose")
      /\ UNCHANGED <<threadVars, started, lockVars, localVars, clockVars, life, fault>>
  BY DEF DestroyClear
<1>2. first' = first /\ posted' = posted
  BY <1>1 DEF localVars, clockVars
<1>3. /\ TaskTypeOK' /\ HeapOwnership' /\ InDueOrder' /\ StampedBelow(posted)'
      /\ \A w \in Workers : first[w] # NULL => heap'[first[w]] = heap[first[w]]
  BY <1>1, <1>2, ClearFacts
<1>4. t \in Clients /\ t \notin Workers
  BY ThreadsDistinct DEF DestroyClear, Inv, TypeOK, PcOK, Threads, WorkerPCs,
     CallPCs
<1>5. CarriesOn
  <2>1. MayReach(t, "dispose")
    BY <1>4 DEF MayReach, ClientPCs
  <2> QED
    BY <1>1, <2>1, Move
<1>6. \A u \in Workers : pc'[u] = pc[u]
  BY <1>1, <1>4 DEF Inv, TypeOK, Threads
<1>7. FirstHeld' /\ CancelledNeverRuns'
  BY <1>2, <1>3, <1>6 DEF Inv, FirstHeld, Holding, CancelledNeverRuns, InCallback
<1>8. TypeOK'
  BY <1>1, <1>3, <1>5 DEF CarriesOn, Inv, TypeOK, ThreadTypeOK, threadVars,
     lockVars, localVars, clockVars
<1> QED
  BY <1>3, <1>5, <1>7, <1>8 DEF Inv, CarriesOn

(* A worker takes the first task: it is the worker's and not listed.       *)
LEMMA PickDueKeeps ==
    ASSUME Inv, NEW w \in Workers, PickDue(w)
    PROVE  Inv'
PROOF
<1>0. w \in Threads /\ w \notin Clients
  BY ThreadsDistinct DEF Threads
<1>1. /\ pc[w] = "pick" /\ tasks # <<>> /\ ListDelFirst
      /\ first' = [first EXCEPT ![w] = ListFirst] /\ Goto(w, "run")
      /\ UNCHANGED <<threadVars, started, lockVars, task, delay_ms, deadline,
                     clockVars, life, fault>>
  BY DEF PickDue
<1>2. heap' = heap /\ posted' = posted
  BY <1>1 DEF ListDelFirst, clockVars
<1>3. /\ TaskTypeOK' /\ Distinct' /\ InDueOrder' /\ StampedBelow(posted)'
      /\ ListFirst \in Listed /\ ListFirst \in Addr
      /\ Listed' = Listed \ {ListFirst}
  BY <1>1, <1>2, ListFacts, ListDelFirstKeeps
<1>4. /\ first \in [Workers -> Addr \cup {NULL}]
      /\ first[w] = NULL
      /\ first'[w] = ListFirst
      /\ \A u \in Workers \ {w} : first'[u] = first[u]
  BY <1>1 DEF Inv, TypeOK, FirstHeld, Holding, CallPCs
<1>5. /\ pc' \in [Threads -> WorkerPCs \cup ClientPCs \cup CallPCs]
      /\ pc'[w] = "run"
      /\ \A u \in Threads \ {w} : pc'[u] = pc[u]
  BY <1>0, <1>1 DEF Inv, TypeOK, WorkerPCs
<1>6. PcOK'
  BY <1>0, <1>5 DEF Inv, TypeOK, PcOK, Threads, WorkerPCs
<1>7. ListFirst # NULL
  BY <1>3, NullIsNoAddress
<1>8. FirstHeld'
  <2>1. ASSUME NEW u \in Workers
        PROVE  Holding(u)' <=> first'[u] # NULL
    <3>1. CASE u = w
      BY <1>4, <1>5, <1>7, <3>1 DEF Holding
    <3>2. CASE u # w
      BY <1>4, <1>5, <3>2 DEF Inv, FirstHeld, Holding, Threads
    <3> QED
      BY <3>1, <3>2
  <2> QED
    BY <2>1 DEF FirstHeld
<1>9. HeapOwnership'
  <2>1. ASSUME NEW b \in Addr
        PROVE  heap'[b] # Free <=> b \in Listed' \/ \E u \in Workers : first'[u] = b
    <3>1. CASE b = ListFirst
      BY <1>2, <1>3, <1>4, <3>1 DEF Inv, HeapOwnership
    <3>2. CASE b # ListFirst
      <4>1. (\E u \in Workers : first'[u] = b) <=> \E u \in Workers : first[u] = b
        BY <1>4, <3>2, NullIsNoAddress
      <4> QED
        BY <1>2, <1>3, <3>2, <4>1 DEF Inv, HeapOwnership
    <3> QED
      BY <3>1, <3>2
  <2>2. \A u \in Workers : first'[u] \notin Listed'
    BY <1>3, <1>4 DEF Inv, HeapOwnership
  <2>3. ASSUME NEW u \in Workers, NEW v \in Workers, first'[u] = first'[v],
  first'[u] # NULL
        PROVE  u = v
    BY <1>3, <1>4, <2>3 DEF Inv, HeapOwnership
  <2> QED
    BY <1>3, <2>1, <2>2, <2>3 DEF HeapOwnership
<1>10. CancelledNeverRuns'
  <2>1. ASSUME NEW u \in Workers, InCallback(u)'
        PROVE  heap'[first'[u]].state = "valid"
    <3>1. u # w
      BY <1>5, <2>1 DEF InCallback, CallPCs
    <3> QED
      BY <1>2, <1>4, <1>5, <2>1, <3>1 DEF Inv, CancelledNeverRuns, InCallback,
         Threads
  <2> QED
    BY <2>1 DEF CancelledNeverRuns
<1>11. TypeOK'
  <2>1. first' \in [Workers -> Addr \cup {NULL}]
    BY <1>1, <1>3, <1>4
  <2> QED
    BY <1>1, <1>3, <1>5, <1>6, <2>1 DEF Inv, TypeOK, ThreadTypeOK, threadVars,
       lockVars, clockVars
<1> QED
  BY <1>3, <1>6, <1>8, <1>9, <1>10, <1>11 DEF Inv

(* A worker frees the task it has in hand.                                 *)
LEMMA DropKeeps ==
    ASSUME Inv, NEW w \in Workers, Drop(w)
    PROVE  Inv'
PROOF
<1>0. w \in Threads /\ w \notin Clients
  BY ThreadsDistinct DEF Threads
<1>1. /\ pc[w] = "drop" /\ TaskDestroy(first[w])
      /\ first' = [first EXCEPT ![w] = NULL] /\ Goto(w, "loop")
      /\ UNCHANGED <<threadVars, started, lockVars, task, delay_ms, deadline,
                     clockVars, life, fault>>
  BY DEF Drop
<1>2. posted' = posted
  BY <1>1 DEF clockVars
<1>3. first[w] \in Addr \ Listed
  BY <1>1 DEF Inv, FirstHeld, Holding, HeapOwnership, TypeOK
<1>4. /\ TaskTypeOK' /\ Distinct' /\ InDueOrder' /\ StampedBelow(posted)'
      /\ Listed' = Listed /\ heap'[first[w]] = Free
      /\ \A b \in Addr \ {first[w]} : heap'[b] = heap[b]
  BY <1>1, <1>2, <1>3, ListFacts, TaskDestroyKeeps
<1>5. /\ first'[w] = NULL
      /\ \A u \in Workers \ {w} : first'[u] = first[u] /\ first[u] # first[w]
  BY <1>1, <1>3, NullIsNoAddress DEF Inv, TypeOK, HeapOwnership
<1>6. /\ pc' \in [Threads -> WorkerPCs \cup ClientPCs \cup CallPCs]
      /\ pc'[w] = "loop"
      /\ \A u \in Threads \ {w} : pc'[u] = pc[u]
  BY <1>0, <1>1 DEF Inv, TypeOK, WorkerPCs
<1>7. PcOK'
  BY <1>0, <1>6 DEF Inv, TypeOK, PcOK, Threads, WorkerPCs
<1>8. FirstHeld'
  <2>1. ASSUME NEW u \in Workers
        PROVE  Holding(u)' <=> first'[u] # NULL
    <3>1. CASE u = w
      BY <1>5, <1>6, <3>1 DEF Holding, CallPCs
    <3>2. CASE u # w
      BY <1>5, <1>6, <3>2 DEF Inv, FirstHeld, Holding, Threads
    <3> QED
      BY <3>1, <3>2
  <2> QED
    BY <2>1 DEF FirstHeld
<1>9. HeapOwnership'
  <2>1. ASSUME NEW b \in Addr
        PROVE  heap'[b] # Free <=> b \in Listed' \/ \E u \in Workers : first'[u] = b
    <3>1. CASE b = first[w]
      BY <1>3, <1>4, <1>5, <3>1, NullIsNoAddress
    <3>2. CASE b # first[w]
      <4>1. (\E u \in Workers : first'[u] = b) <=> \E u \in Workers : first[u] = b
        BY <1>5, <3>2, NullIsNoAddress
      <4> QED
        BY <1>4, <3>2, <4>1 DEF Inv, HeapOwnership
    <3> QED
      BY <3>1, <3>2
  <2>2. \A u \in Workers : first'[u] \notin Listed'
    BY <1>4, <1>5, NullIsNoAddress, ListFacts DEF Inv, HeapOwnership
  <2>3. ASSUME NEW u \in Workers, NEW v \in Workers, first'[u] = first'[v],
  first'[u] # NULL
        PROVE  u = v
    BY <1>5, <2>3 DEF Inv, HeapOwnership
  <2> QED
    BY <1>4, <2>1, <2>2, <2>3 DEF HeapOwnership
<1>10. CancelledNeverRuns'
  <2>1. ASSUME NEW u \in Workers, InCallback(u)'
        PROVE  heap'[first'[u]].state = "valid"
    <3>1. u # w
      BY <1>6, <2>1 DEF InCallback, CallPCs
    <3>2. InCallback(u)
      BY <1>6, <2>1, <3>1 DEF InCallback, Threads
    <3>3. first[u] \in Addr \ {first[w]}
      BY <1>5, <3>1, <3>2 DEF Inv, FirstHeld, Holding, InCallback, TypeOK
    <3> QED
      BY <1>4, <1>5, <3>1, <3>2, <3>3 DEF Inv, CancelledNeverRuns
  <2> QED
    BY <2>1 DEF CancelledNeverRuns
<1>11. TypeOK'
  <2>1. first' \in [Workers -> Addr \cup {NULL}]
    BY <1>1 DEF Inv, TypeOK
  <2> QED
    BY <1>1, <1>4, <1>6, <1>7, <2>1 DEF Inv, TypeOK, ThreadTypeOK, threadVars,
       lockVars, clockVars
<1> QED
  BY <1>2, <1>4, <1>7, <1>8, <1>9, <1>10, <1>11 DEF Inv
-----------------------------------------------------------------------------
(* Every step keeps the invariant.                                         *)
LEMMA NextInv == Inv /\ [Next]_vars => Inv'
PROOF
<1> SUFFICES ASSUME Inv, [Next]_vars PROVE Inv'
  OBVIOUS
<1>1. ASSUME NEW t \in Threads, OwnerStep(t) PROVE Inv'
  BY <1>1, StartLockKeeps, OwnerQuiet, DestroyClearKeeps DEF OwnerStep
<1>2. ASSUME NEW t \in Threads, UserStep(t) PROVE Inv'
  BY <1>2, PostKeeps, CancelKeeps, ClearKeeps DEF UserStep
<1>3. ASSUME NEW w \in Workers, WorkerStep(w) PROVE Inv'
  BY <1>3, WorkerQuiet, PickDueKeeps, PickLaterKeeps, DropKeeps DEF WorkerStep
<1>4. CASE UNCHANGED vars
  <2>1. UNCHANGED <<taskVars, first, posted, pc>>
    BY <1>4 DEF vars, localVars, clockVars
  <2>2. CarriesOn
    BY <2>1, Stay
  <2>3. TypeOK'
    BY <1>4, <2>2 DEF CarriesOn, vars, Inv, TypeOK, ThreadTypeOK, TaskTypeOK,
       threadVars, taskVars, lockVars, localVars, clockVars
  <2> QED
    BY <2>1, <2>2, <2>3, Frame
<1> QED
  BY <1>1, <1>2, <1>3, <1>4, EnvironmentKeeps DEF Next, Terminated

(* The invariant holds in every behaviour of the looper.                   *)
LEMMA SpecInv == Spec => []Inv
PROOF
<1> QED
  BY InitInv, NextInv, PTL DEF Spec

(* The variables of the looper keep their types.                           *)
THEOREM LooperTypes == Spec => []TypeOK
PROOF
<1>1. Inv => TypeOK
  BY DEF Inv
<1> QED
  BY <1>1, SpecInv, PTL

(* Each task of a looper has exactly one owner: none is freed twice, used  *)
(* after it was freed, or leaked, whoever posts, cancels, clears, stops    *)
(* and restarts the looper.                                                *)
THEOREM LooperOwnsHeap == Spec => []HeapOwnership
PROOF
<1>1. Inv => HeapOwnership
  BY DEF Inv
<1> QED
  BY <1>1, SpecInv, PTL

(* A task cancelled while it was listed never runs.                        *)
THEOREM LooperCancels == Spec => []CancelledNeverRuns
PROOF
<1>1. Inv => CancelledNeverRuns
  BY DEF Inv
<1> QED
  BY <1>1, SpecInv, PTL

(* The list of a looper is in due order, first come first served among     *)
(* tasks that are due at the same time, even when the clock is set back.   *)
THEOREM LooperInOrder == Spec => []InDueOrder
PROOF
<1>1. Inv => InDueOrder
  BY DEF Inv
<1> QED
  BY <1>1, SpecInv, PTL
-----------------------------------------------------------------------------
(* A looper that one thread of the program starts, stops and destroys, and *)
(* clears only while it is stopped: for any number of other threads,       *)
(* callbacks and tasks no assertion of it fails, it has one worker that    *)
(* never sleeps through work, and it keeps the promise of DelayedTasks.    *)
HIDE DEF Goto

OneOwner(o) == o \in Clients /\ Owners = {o} /\ ~ClearAnytime

Starting(o) == pc[o] \in {"arm", "mark", "publish"}
Stopping(o) == pc[o] \in {"request", "join"}
Alive(w) == pc[w] # "none"

(* Only the owner is ever inside start, stop or destroy.                   *)
OneCaller(o) ==
    \A t \in Threads \ {o} : pc[t] \notin CallPCs \cup {"destroy", "clear", "dispose"}

(* Who holds the mutex between two actions.                                *)
Sections(o) ==
    /\ mutex \in Workers \cup {o, NoThread}
    /\ mutex = o <=> Starting(o)
    /\ \A w \in Workers : mutex = w <=> pc[w] = "delay"

(* Who waits on the condition: stop, for the worker, and the worker.       *)
Waiters(o) ==
    \A t \in waitset :
        \/ t = o /\ pc[o] = "join"
        \/ t \in Workers /\ pc[t] \in {"lock", "timed"}

(* The handle names the one worker until it has cleared _tid, and stop     *)
(* finds _running set as long as there is a worker.                        *)
HandleIsTrue(o) ==
    /\ \A v, w \in Workers : Alive(v) /\ Alive(w) => v = w
    /\ \A w \in Workers : tid = w <=> pc[w] \notin {"none", "pend", "halt"}
    /\ pc[o] \notin {"arm", "mark"} => \A w \in Workers : Alive(w) => running

(* There is a worker only between a start and the return of stop; it gets  *)
(* no further than the mutex before start has returned.                    *)
Phases(o) ==
    /\ Starting(o) \/ Stopping(o) \/ pc[o] \in {"clear", "dispose"} => ~started
    /\ ~started /\ ~Starting(o) /\ ~Stopping(o) => \A w \in Workers : ~Alive(w)
    /\ Starting(o) => \A w \in Workers :
         pc[w] \in {"none", "loop", "lock", "leave"} /\ w \notin waitset

(* What a worker knows of the list from having looked at it earlier.       *)
WorkKnown ==
    \A w \in Workers :
        /\ pc[w] = "check" /\ started => tasks # <<>>
        /\ pc[w] \in {"pick", "delay"} => tasks # <<>>
        /\ pc[w] = "delay" => task[w] = ListFirst

(* The inductive invariant.                                                *)
OneInv(o) ==
    /\ OneCaller(o) /\ Sections(o) /\ Waiters(o) /\ HandleIsTrue(o)
    /\ Phases(o) /\ WorkKnown /\ NoLostWakeup /\ NoFault
-----------------------------------------------------------------------------
USE DEF OneOwner, Starting, Stopping, Alive, CallPCs, Resting, CanCall, Unlocked,
        OneInv, OneCaller, Sections, Waiters, HandleIsTrue, Phases, WorkKnown,
        NoLostWakeup, NoFault, ListFirst

LEMMA InitOneInv ==
    ASSUME NEW o, OneOwner(o), Init
    PROVE  OneInv(o)
PROOF
<1>1. pc[o] = "idle" /\ \A w \in Workers : pc[w] = "none"
  BY ThreadsDistinct DEF Init, Threads
<1>2. \A t \in Threads : pc[t] \in {"none", "idle"}
  BY DEF Init
<1>3. tid = NoThread /\ mutex = NoThread /\ waitset = {} /\ ~started /\ fault = "none"
  BY DEF Init, ThreadCreate, LockInit
<1> QED
  BY <1>1, <1>2, <1>3, NoWorker, ThreadsDistinct

(* The threads, told apart.                                                *)
LEMMA ThreadFacts ==
    ASSUME NEW o, OneOwner(o)
    PROVE  /\ o \in Threads /\ o \notin Workers /\ o # NoThread
           /\ \A w \in Workers : w \in Threads /\ w # o /\ w # NoThread
PROOF
<1> QED
  BY ThreadsDistinct, NoWorker DEF Threads

(* A step that moves one thread.                                           *)
LEMMA Moved ==
    ASSUME Inv, NEW t \in Threads, NEW label, Goto(t, label)
    PROVE  pc'[t] = label /\ \A u \in Threads \ {t} : pc'[u] = pc[u]
PROOF
<1> QED
  BY DEF Goto, Inv, TypeOK

GoBoth(t, l, u, m) == pc' = [pc EXCEPT ![t] = l, ![u] = m]

LEMMA MovedBoth ==
    ASSUME Inv, NEW t \in Threads, NEW u \in Threads, t # u, NEW l, NEW m,
           GoBoth(t, l, u, m)
    PROVE  pc'[t] = l /\ pc'[u] = m /\ \A v \in Threads \ {t, u} : pc'[v] = pc[v]
PROOF
<1> QED
  BY DEF GoBoth, Inv, TypeOK

(* Where a worker and a client can be, and what is known of the rest.      *)
LEMMA Typed ==
    ASSUME Inv
    PROVE  /\ \A w \in Workers : pc[w] \in WorkerPCs \cup CallPCs
           /\ \A c \in Clients : pc[c] \in ClientPCs \cup CallPCs
           /\ started \in BOOLEAN /\ running \in BOOLEAN
           /\ tid \in Workers \cup {NoThread} /\ waitset \subseteq Threads
PROOF
<1> QED
  BY DEF Inv, TypeOK, PcOK, ThreadTypeOK

(* awe_looper_start: there is no worker before, and one afterwards.        *)
LEMMA StartKeeps ==
    ASSUME NEW o, OneOwner(o), Inv, OneInv(o), NEW t \in Threads,
           StartLock(t) \/ StartArm(t) \/ StartMark(t) \/ StartPublish(t)
    PROVE  OneInv(o)'
PROOF
<1>1. CASE StartLock(t)
  <2>1. t = o /\ pc[o] = "idle" /\ mutex = NoThread /\ ~started
    BY <1>1, ThreadFacts DEF StartLock
  <2>2. \A w \in Workers : pc[w] = "none"
    BY <2>1
  <2>3. tid = NoThread
    BY <2>2, Typed
  <2>4. CASE Abort("create")
    <3>1. UNCHANGED <<pc, tid, running, mutex, waitset, started, tasks, task>>
      BY <2>4 DEF Abort, threadVars, taskVars, lockVars, localVars
    <3>2. fault' = "create"
      BY <2>4 DEF Abort
    <3> QED
      BY <3>1, <3>2
  <2>5. ASSUME NEW w \in Workers, Spawn(w), pc' = [pc EXCEPT ![o] = "arm", ![w] = "loop"],
               mutex' = o,
               UNCHANGED <<taskVars, started, waitset, localVars, clockVars, life, fault>>
        PROVE  OneInv(o)'
    <3>0. GoBoth(o, "arm", w, "loop")
      BY <2>5 DEF GoBoth
    <3>1. pc'[o] = "arm" /\ pc'[w] = "loop" /\ \A u \in Threads \ {o, w} : pc'[u] = pc[u]
      BY <3>0, ThreadFacts, MovedBoth
    <3>2. tid' = w
      BY <2>5 DEF Spawn
    <3>3. UNCHANGED <<tasks, started, waitset, task, fault>>
      BY <2>5 DEF taskVars, localVars
    <3>4. w \notin waitset
      BY <2>2
    <3>5. OneCaller(o)' /\ Sections(o)'
      BY <2>1, <2>2, <2>5, <3>1, ThreadFacts
    <3>6. Waiters(o)' /\ HandleIsTrue(o)'
      BY <2>1, <2>2, <2>5, <3>1, <3>2, <3>3, ThreadFacts
    <3>7. Phases(o)' /\ WorkKnown'
      BY <2>1, <2>2, <3>1, <3>3, <3>4, ThreadFacts
    <3>8. NoLostWakeup' /\ NoFault'
      BY <2>1, <2>2, <3>1, <3>3, ThreadFacts
    <3> QED
      BY <3>5, <3>6, <3>7, <3>8
  <2> QED
    BY <1>1, <2>1, <2>3, <2>4, <2>5 DEF StartLock
<1>2. CASE StartArm(t)
  <2>1. t = o /\ pc[o] = "arm"
    BY <1>2 DEF StartArm
  <2>2. pc'[o] = "mark" /\ \A u \in Threads \ {o} : pc'[u] = pc[u]
    BY <1>2, <2>1, Moved DEF StartArm
  <2>3. UNCHANGED <<tid, running, mutex, waitset, started, tasks, task, fault>>
    BY <1>2 DEF StartArm, ArmExitPending, taskVars, lockVars, localVars
  <2> QED
    BY <2>1, <2>2, <2>3, ThreadFacts
<1>3. CASE StartMark(t)
  <2>1. t = o /\ pc[o] = "mark"
    BY <1>3 DEF StartMark
  <2>2. pc'[o] = "publish" /\ \A u \in Threads \ {o} : pc'[u] = pc[u]
    BY <1>3, <2>1, Moved DEF StartMark
  <2>3. running' /\ UNCHANGED <<tid, mutex, waitset, started, tasks, task, fault>>
    BY <1>3 DEF StartMark, MarkRunning, taskVars, lockVars, localVars
  <2> QED
    BY <2>1, <2>2, <2>3, ThreadFacts
<1>4. CASE StartPublish(t)
  <2>1. t = o /\ pc[o] = "publish"
    BY <1>4 DEF StartPublish
  <2>2. pc'[o] = "idle" /\ \A u \in Threads \ {o} : pc'[u] = pc[u]
    BY <1>4, <2>1, Moved, ThreadFacts DEF StartPublish
  <2>3. started' /\ mutex' = NoThread /\ UNCHANGED <<tid, running, waitset, tasks, task, fault>>
    BY <1>4 DEF StartPublish, threadVars, taskVars, localVars
  <2> QED
    BY <2>1, <2>2, <2>3, ThreadFacts
<1> QED
  BY <1>1, <1>2, <1>3, <1>4

(* awe_looper_stop: the signal wakes the one worker, and stop returns when *)
(* it has ended.                                                           *)
LEMMA StopKeeps ==
    ASSUME NEW o, OneOwner(o), Inv, OneInv(o), NEW t \in Threads,
           StopLock(t) \/ StopRequest(t) \/ StopJoin(t)
    PROVE  OneInv(o)'
PROOF
<1>1. CASE StopLock(t)
  <2>1. t = o /\ pc[o] \in {"idle", "destroy"} /\ started
    BY <1>1, ThreadFacts DEF StopLock
  <2>2. pc'[o] = "request" /\ \A u \in Threads \ {o} : pc'[u] = pc[u]
    BY <1>1, <2>1, Moved DEF StopLock
  <2>3. ~started' /\ UNCHANGED <<tid, running, mutex, tasks, task, fault>>
    BY <1>1 DEF StopLock, threadVars, taskVars, localVars
  <2>4. waitset' = {}
    <3>1. \A u, v \in waitset : u = v
      BY <2>1
    <3> QED
      BY <1>1, <3>1 DEF StopLock, Signal
  <2> QED
    BY <2>1, <2>2, <2>3, <2>4, ThreadFacts
<1>2. CASE StopRequest(t)
  <2>1. t = o /\ pc[o] = "request" /\ tid # t
    BY <1>2, ThreadFacts, Typed DEF StopRequest
  <2>2. pc'[o] = "join" /\ \A u \in Threads \ {o} : pc'[u] = pc[u]
    BY <1>2, <2>1, Moved DEF StopRequest
  <2>3. UNCHANGED <<tid, running, mutex, waitset, started, tasks, task, fault>>
    BY <1>2, <2>1 DEF StopRequest, RequestExit, taskVars, lockVars, localVars
  <2> QED
    BY <2>1, <2>2, <2>3, ThreadFacts
<1>3. CASE StopJoin(t)
  <2>1. t = o /\ pc[o] = "join" /\ mutex = NoThread /\ o \notin waitset
    BY <1>3 DEF StopJoin
  <2>2. UNCHANGED <<tid, running, mutex, started, tasks, task, fault>>
    BY <1>3 DEF StopJoin, threadVars, taskVars, localVars
  <2>3. CASE running /\ waitset' = waitset \cup {t} /\ pc' = pc
    BY <2>1, <2>2, <2>3, ThreadFacts
  <2>4. CASE /\ ~running /\ waitset' = waitset
             /\ Goto(t, IF t \in Clients /\ life = "destroying" THEN "clear" ELSE Resting(t))
    <3>1. pc'[o] \in {"clear", "idle"} /\ \A u \in Threads \ {o} : pc'[u] = pc[u]
      BY <2>1, <2>4, Moved, ThreadFacts
    <3>2. \A w \in Workers : pc[w] = "none"
      BY <2>1, <2>4
    <3> QED
      BY <2>1, <2>2, <2>4, <3>1, <3>2, ThreadFacts
  <2> QED
    BY <1>3, <2>3, <2>4 DEF StopJoin
<1> QED
  BY <1>1, <1>2, <1>3

(* awe_looper_destroy: when the object is freed the worker is gone.        *)
LEMMA DestroyKeeps ==
    ASSUME NEW o, OneOwner(o), Inv, OneInv(o), NEW t \in Threads,
           Destroy(t) \/ DestroyStopped(t) \/ DestroyClear(t) \/ DestroyFree(t)
    PROVE  OneInv(o)'
PROOF
<1>1. CASE Destroy(t)
  <2>1. t = o /\ pc[o] = "idle"
    BY <1>1, ThreadFacts DEF Destroy
  <2>2. pc'[o] = "destroy" /\ \A u \in Threads \ {o} : pc'[u] = pc[u]
    BY <1>1, <2>1, Moved DEF Destroy
  <2>3. UNCHANGED <<tid, running, mutex, waitset, started, tasks, task, fault>>
    BY <1>1 DEF Destroy, threadVars, taskVars, lockVars, localVars
  <2> QED
    BY <2>1, <2>2, <2>3, ThreadFacts
<1>2. CASE DestroyStopped(t)
  <2>1. t = o /\ pc[o] = "destroy" /\ ~started
    BY <1>2 DEF DestroyStopped, MoveOn
  <2>2. pc'[o] = "clear" /\ \A u \in Threads \ {o} : pc'[u] = pc[u]
    BY <1>2, <2>1, Moved DEF DestroyStopped, MoveOn
  <2>3. UNCHANGED <<tid, running, mutex, waitset, started, tasks, task, fault>>
    BY <1>2 DEF DestroyStopped, MoveOn, threadVars, taskVars, lockVars, localVars
  <2> QED
    BY <2>1, <2>2, <2>3, ThreadFacts
<1>3. CASE DestroyClear(t)
  <2>1. t = o /\ pc[o] = "clear" /\ \A w \in Workers : pc[w] = "none"
    BY <1>3 DEF DestroyClear
  <2>2. pc'[o] = "dispose" /\ \A u \in Threads \ {o} : pc'[u] = pc[u]
    BY <1>3, <2>1, Moved DEF DestroyClear
  <2>3. UNCHANGED <<tid, running, mutex, waitset, started, fault>>
    BY <1>3 DEF DestroyClear, threadVars, lockVars
  <2> QED
    BY <2>1, <2>2, <2>3, ThreadFacts
<1>4. CASE DestroyFree(t)
  <2>1. t = o /\ pc[o] = "dispose" /\ \A w \in Workers : pc[w] = "none"
    BY <1>4 DEF DestroyFree
  <2>2. pc'[o] = "idle" /\ \A u \in Threads \ {o} : pc'[u] = pc[u]
    BY <1>4, <2>1, Moved DEF DestroyFree
  <2>3. UNCHANGED <<tid, running, mutex, waitset, started, tasks, task, fault>>
    BY <1>4, <2>1 DEF DestroyFree, threadVars, taskVars, lockVars, localVars
  <2> QED
    BY <2>1, <2>2, <2>3, ThreadFacts
<1> QED
  BY <1>1, <1>2, <1>3, <1>4

(* The worker's steps that take no task: what it saw of the list holds     *)
(* until it acts on it, since only the worker makes the list shorter.      *)
LEMMA WorkerKeeps ==
    ASSUME NEW o, OneOwner(o), Inv, OneInv(o), NEW w \in Workers,
           Loop(w) \/ LockWait(w) \/ CheckStarted(w) \/ Run(w) \/ Return(w) \/
           PickLater(w) \/ TimedWait(w) \/ WakeUp(w)
    PROVE  OneInv(o)'
PROOF
<1>0. w \in Threads /\ w # o /\ w # NoThread
  BY ThreadFacts
<1>1. CASE Loop(w)
  <2>1. pc[w] = "loop"
    BY <1>1 DEF Loop, MoveOn
  <2>2. pc'[w] \in {"leave", "lock"} /\ \A u \in Threads \ {w} : pc'[u] = pc[u]
    BY <1>1, <1>0, Moved DEF Loop, MoveOn
  <2>3. UNCHANGED <<tid, running, mutex, waitset, started, tasks, task, fault>>
    BY <1>1 DEF Loop, MoveOn, threadVars, taskVars, lockVars, localVars
  <2> QED
    BY <2>1, <2>2, <2>3, ThreadFacts
<1>2. CASE LockWait(w)
  <2>1. pc[w] = "lock" /\ w \notin waitset /\ mutex = NoThread
    BY <1>2 DEF LockWait
  <2>2. UNCHANGED <<tid, running, mutex, started, tasks, task, fault>>
    BY <1>2 DEF LockWait, threadVars, taskVars, localVars
  <2>3. CASE NothingToDo /\ waitset' = waitset \cup {w} /\ pc' = pc
    BY <2>1, <2>2, <2>3, <1>0, ThreadFacts DEF NothingToDo
  <2>4. CASE ~NothingToDo /\ waitset' = waitset /\ Goto(w, "check")
    <3>1. pc'[w] = "check" /\ \A u \in Threads \ {w} : pc'[u] = pc[u]
      BY <2>4, <1>0, Moved
    <3>2. started => tasks # <<>>
      BY <2>4 DEF NothingToDo
    <3> QED
      BY <2>1, <2>2, <2>4, <3>1, <3>2, <1>0, ThreadFacts
  <2> QED
    BY <1>2, <2>3, <2>4 DEF LockWait
<1>3. CASE CheckStarted(w)
  <2>1. pc[w] = "check"
    BY <1>3 DEF CheckStarted, MoveOn
  <2>2. /\ pc'[w] = IF started THEN "pick" ELSE "leave"
        /\ \A u \in Threads \ {w} : pc'[u] = pc[u]
    BY <1>3, <1>0, Moved DEF CheckStarted, MoveOn
  <2>3. UNCHANGED <<tid, running, mutex, waitset, started, tasks, task, fault>>
    BY <1>3 DEF CheckStarted, MoveOn, threadVars, taskVars, lockVars, localVars
  <2> QED
    BY <2>1, <2>2, <2>3, ThreadFacts
<1>4. CASE Run(w)
  <2>1. pc[w] = "run"
    BY <1>4 DEF Run, MoveOn
  <2>2. pc'[w] \in {"proc", "drop"} /\ \A u \in Threads \ {w} : pc'[u] = pc[u]
    BY <1>4, <1>0, Moved DEF Run, MoveOn
  <2>3. UNCHANGED <<tid, running, mutex, waitset, started, tasks, task, fault>>
    BY <1>4 DEF Run, MoveOn, threadVars, taskVars, lockVars, localVars
  <2> QED
    BY <2>1, <2>2, <2>3, ThreadFacts
<1>5. CASE Return(w)
  <2>1. pc[w] = "proc"
    BY <1>5 DEF Return, MoveOn
  <2>2. pc'[w] = "drop" /\ \A u \in Threads \ {w} : pc'[u] = pc[u]
    BY <1>5, <1>0, Moved DEF Return, MoveOn
  <2>3. UNCHANGED <<tid, running, mutex, waitset, started, tasks, task, fault>>
    BY <1>5 DEF Return, MoveOn, threadVars, taskVars, lockVars, localVars
  <2> QED
    BY <2>1, <2>2, <2>3, ThreadFacts
<1>6. CASE PickLater(w)
  <2>1. pc[w] = "pick" /\ mutex = NoThread /\ tasks # <<>>
    BY <1>6 DEF PickLater
  <2>2. pc'[w] = "delay" /\ \A u \in Threads \ {w} : pc'[u] = pc[u]
    BY <1>6, <1>0, Moved DEF PickLater
  <2>3. mutex' = w /\ UNCHANGED <<tid, running, waitset, started, tasks, fault>>
    BY <1>6 DEF PickLater, threadVars, taskVars
  <2>4. task'[w] = ListFirst /\ \A v \in Workers \ {w} : task'[v] = task[v]
    BY <1>6 DEF PickLater, Inv, TypeOK
  <2> QED
    BY <2>1, <2>2, <2>3, <2>4, ThreadFacts
<1>7. CASE TimedWait(w)
  <2>1. pc[w] = "delay"
    BY <1>7 DEF TimedWait
  <2>2. pc'[w] = "timed" /\ \A u \in Threads \ {w} : pc'[u] = pc[u]
    BY <1>7, <1>0, Moved DEF TimedWait
  <2>3. /\ mutex' = NoThread /\ waitset' = waitset \cup {w}
        /\ UNCHANGED <<tid, running, started, tasks, task, fault>>
    BY <1>7 DEF TimedWait, threadVars, taskVars
  <2> QED
    BY <2>1, <2>2, <2>3, ThreadFacts
<1>8. CASE WakeUp(w)
  <2>1. pc[w] = "timed" /\ w \notin waitset
    BY <1>8 DEF WakeUp
  <2>2. pc'[w] = "loop" /\ \A u \in Threads \ {w} : pc'[u] = pc[u]
    BY <1>8, <1>0, Moved DEF WakeUp
  <2>3. UNCHANGED <<tid, running, mutex, waitset, started, tasks, fault>>
    BY <1>8 DEF WakeUp, threadVars, taskVars, lockVars
  <2>4. \A v \in Workers \ {w} : task'[v] = task[v]
    BY <1>8 DEF WakeUp, Inv, TypeOK
  <2> QED
    BY <2>1, <2>2, <2>3, <2>4, ThreadFacts
<1> QED
  BY <1>1, <1>2, <1>3, <1>4, <1>5, <1>6, <1>7, <1>8

(* The worker's steps that take a task and that give it back.              *)
LEMMA TaskStepKeeps ==
    ASSUME NEW o, OneOwner(o), Inv, OneInv(o), NEW w \in Workers,
           PickDue(w) \/ PickNothing(w) \/ Drop(w)
    PROVE  OneInv(o)'
PROOF
<1>0. w \in Threads /\ w # o /\ w # NoThread
  BY ThreadFacts
<1>1. CASE PickDue(w)
  <2>1. pc[w] = "pick" /\ mutex = NoThread
    BY <1>1 DEF PickDue
  <2>2. pc'[w] = "run" /\ \A u \in Threads \ {w} : pc'[u] = pc[u]
    BY <1>1, <1>0, Moved DEF PickDue
  <2>3. UNCHANGED <<tid, running, mutex, waitset, started, fault>>
    BY <1>1 DEF PickDue, threadVars, lockVars
  <2>4. \A v \in Workers \ {w} : pc[v] = "none"
    BY <2>1
  <2> QED
    BY <2>1, <2>2, <2>3, <2>4, <1>0, ThreadFacts
<1>2. CASE PickNothing(w)
  BY <1>2 DEF PickNothing
<1>3. CASE Drop(w)
  <2>1. pc[w] = "drop"
    BY <1>3 DEF Drop, TaskDestroy
  <2>2. pc'[w] = "loop" /\ \A u \in Threads \ {w} : pc'[u] = pc[u]
    BY <1>3, <1>0, Moved DEF Drop, TaskDestroy
  <2>3. UNCHANGED <<tid, running, mutex, waitset, started, tasks, task, fault>>
    BY <1>3 DEF Drop, TaskDestroy, threadVars, taskVars, lockVars, localVars
  <2> QED
    BY <2>1, <2>2, <2>3, ThreadFacts
<1> QED
  BY <1>1, <1>2, <1>3

(* The end of the worker, and of dummy_worker after it.                    *)
LEMMA LeavingKeeps ==
    ASSUME NEW o, OneOwner(o), Inv, OneInv(o), NEW w \in Workers,
           Leave(w) \/ Forget(w) \/ Pend(w) \/ Halt(w)
    PROVE  OneInv(o)'
PROOF
<1>0. w \in Threads /\ w # o /\ w # NoThread
  BY ThreadFacts
<1>1. CASE Leave(w)
  <2>1. pc[w] = "leave" /\ mutex = NoThread
    BY <1>1 DEF Leave
  <2>2. pc'[w] = "forget" /\ \A u \in Threads \ {w} : pc'[u] = pc[u]
    BY <1>1, <1>0, Moved DEF Leave
  <2>3. waitset' = {} /\ UNCHANGED <<tid, running, mutex, started, tasks, task, fault>>
    BY <1>1 DEF Leave, Broadcast, threadVars, taskVars, localVars
  <2> QED
    BY <2>1, <2>2, <2>3, ThreadFacts
<1>2. CASE Forget(w)
  <2>1. pc[w] = "forget"
    BY <1>2 DEF Forget
  <2>2. pc'[w] = "pend" /\ \A u \in Threads \ {w} : pc'[u] = pc[u]
    BY <1>2, <1>0, Moved DEF Forget
  <2>3. tid' = NoThread /\ UNCHANGED <<running, mutex, waitset, started, tasks, task, fault>>
    BY <1>2 DEF Forget, ForgetTid, taskVars, lockVars, localVars
  <2> QED
    BY <2>1, <2>2, <2>3, ThreadFacts
<1>3. CASE Pend(w)
  <2>1. pc[w] = "pend"
    BY <1>3 DEF Pend
  <2>2. pc'[w] = "halt" /\ \A u \in Threads \ {w} : pc'[u] = pc[u]
    BY <1>3, <1>0, Moved DEF Pend
  <2>3. UNCHANGED <<tid, running, mutex, waitset, started, tasks, task, fault>>
    BY <1>3 DEF Pend, PendAtExit, taskVars, lockVars, localVars
  <2> QED
    BY <2>1, <2>2, <2>3, ThreadFacts
<1>4. CASE Halt(w)
  <2>1. pc[w] = "halt"
    BY <1>4 DEF Halt
  <2>2. pc'[w] = "none" /\ \A u \in Threads \ {w} : pc'[u] = pc[u]
    BY <1>4, <1>0, Moved DEF Halt
  <2>3. UNCHANGED <<tid, mutex, waitset, started, tasks, task, fault>>
    BY <1>4 DEF Halt, ClearRunning, taskVars, lockVars, localVars
  <2> QED
    BY <2>1, <2>2, <2>3, ThreadFacts
<1> QED
  BY <1>1, <1>2, <1>3, <1>4

(* A list that a post made longer has a task.                              *)
LEMMA PostedListFacts ==
    ASSUME Inv, NEW a \in Addr, NEW d \in Delays, ListInsert(a, now + d, posted)
    PROVE  tasks' # <<>>
PROOF
<1>1. PICK k \in 0 .. Len(tasks) : tasks' = AddAfter(tasks, k, a)
  BY DEF ListInsert
<1>2. tasks \in Seq(Addr)
  BY DEF Inv, TypeOK, TaskTypeOK
<1>3. Len(tasks') = Len(tasks) + 1
  BY <1>1, <1>2, AddAfterProperties
<1>4. Len(tasks) \in Nat
  BY <1>2, LenProperties
<1> QED
  BY <1>3, <1>4

(* The calls of users: a post wakes the worker, if it waits.               *)
LEMMA UserKeeps ==
    ASSUME NEW o, OneOwner(o), Inv, OneInv(o), NEW t \in Threads, UserStep(t)
    PROVE  OneInv(o)'
PROOF
<1>1. ASSUME NEW a \in Addr, NEW d \in Delays, Post(t, a, d) PROVE OneInv(o)'
  <2>1. mutex = NoThread /\ started /\ pc' = pc
    BY <1>1 DEF Post
  <2>2. tasks' # <<>>
    BY <1>1, PostedListFacts DEF Post
  <2>3. UNCHANGED <<tid, running, mutex, started, task, fault>>
    BY <1>1 DEF Post, threadVars, localVars
  <2>4. waitset' = {}
    <3>1. o \notin waitset
      BY <2>1, ThreadFacts
    <3>2. \A u, v \in waitset : u = v
      BY <3>1
    <3> QED
      BY <1>1, <3>2 DEF Post, Signal
  <2>5. \A w \in Workers : pc[w] # "delay"
    BY <2>1, ThreadFacts
  <2> QED
    BY <2>1, <2>2, <2>3, <2>4, <2>5, ThreadFacts
<1>2. ASSUME NEW id \in Addr, Cancel(t, id) PROVE OneInv(o)'
  <2>1. UNCHANGED <<pc, tid, running, mutex, waitset, started, tasks, task, fault>>
    BY <1>2 DEF Cancel, ListCancel, threadVars, lockVars, localVars
  <2> QED
    BY <2>1
<1>3. CASE Clear(t)
  <2>1. t = o /\ pc[o] = "idle" /\ ~started
    BY <1>3, ThreadFacts DEF Clear
  <2>2. \A w \in Workers : pc[w] = "none"
    BY <2>1
  <2>3. UNCHANGED <<pc, tid, running, mutex, waitset, started, task, fault>>
    BY <1>3 DEF Clear, threadVars, lockVars, localVars
  <2> QED
    BY <2>1, <2>2, <2>3, ThreadFacts
<1> QED
  BY <1>1, <1>2, <1>3 DEF UserStep

(* Wakeups that nobody sent, the clock, and steps of nobody.               *)
LEMMA ElsewhereKeeps ==
    ASSUME NEW o, OneOwner(o), Inv, OneInv(o),
           \/ \E t \in Threads : Timeout(t) \/ Spurious(t)
           \/ Tick \/ SetClock \/ UNCHANGED vars
    PROVE  OneInv(o)'
PROOF
<1>1. UNCHANGED <<pc, tid, running, mutex, started, tasks, task, fault>>
  BY DEF Timeout, Spurious, Tick, SetClock, vars, threadVars, taskVars, lockVars, localVars
<1>2. waitset' \subseteq waitset
  BY DEF Timeout, Spurious, Tick, SetClock, vars, lockVars
<1>3. OneCaller(o)' /\ Sections(o)' /\ Waiters(o)' /\ NoFault'
  BY <1>1, <1>2
<1>4. HandleIsTrue(o)' /\ Phases(o)'
  BY <1>1, <1>2
<1>5. WorkKnown' /\ NoLostWakeup'
  BY <1>1, <1>2
<1> QED
  BY <1>3, <1>4, <1>5

LEMMA NextOneInv ==
    ASSUME NEW o, OneOwner(o), Inv, OneInv(o), [Next]_vars
    PROVE  OneInv(o)'
PROOF
<1> HIDE DEF OneInv, OneOwner
<1>1. ASSUME NEW t \in Threads, OwnerStep(t) PROVE OneInv(o)'
  BY <1>1, StartKeeps, StopKeeps, DestroyKeeps DEF OwnerStep
<1>2. ASSUME NEW w \in Workers, WorkerStep(w) PROVE OneInv(o)'
  BY <1>2, WorkerKeeps, TaskStepKeeps, LeavingKeeps DEF WorkerStep
<1> QED
  BY <1>1, <1>2, UserKeeps, ElsewhereKeeps DEF Next, Terminated

LEMMA SpecOneInv ==
    ASSUME NEW o, OneOwner(o)
    PROVE  Spec => [](Inv /\ OneInv(o))
PROOF
<1> HIDE DEF OneInv, OneOwner
<1>1. Init => Inv /\ OneInv(o)
  BY InitInv, InitOneInv
<1>2. Inv /\ OneInv(o) /\ [Next]_vars => (Inv /\ OneInv(o))'
  BY NextInv, NextOneInv
<1> QED
  BY <1>1, <1>2, PTL DEF Spec

-----------------------------------------------------------------------------
(* The promise: the refinement mapping, with a name for each part of it.   *)

Open == started \/ \E t \in Threads : pc[t] \in {"request", "join"}
Taking(w) == pc[w] = "run" \/ InCallback(w)
Waiting == {AsTask(a) : a \in {b \in Listed : Valid(b)}}
Current == {AsTask(first[w]) : w \in {v \in Workers :
                (pc[v] = "run" \/ InCallback(v)) /\ Valid(first[v])}}
Mapped == <<Open, Waiting, Current, posted, now>>

PromiseStep == [Promise!DTNext]_(Promise!dtVars)

(* Each action of DelayedTasks, in these terms.                            *)
LEMMA Stutters ==
    ASSUME UNCHANGED Mapped
    PROVE  PromiseStep
PROOF
<1> QED
  BY DEF PromiseStep, Promise!dtVars, Mapped, Open, Waiting, Current

LEMMA Accepts ==
    ASSUME Open, NEW d \in Delays,
           Waiting' = Waiting \cup {[due |-> now + d, rank |-> posted]},
           posted' = posted + 1, UNCHANGED <<Open, Current, now>>
    PROVE  PromiseStep
PROOF
<1> QED
  BY DEF PromiseStep, Promise!DTNext, Promise!Accept, Open, Waiting, Current

LEMMA Withdraws ==
    ASSUME Open, NEW t \in Waiting, Waiting' = Waiting \ {t},
           UNCHANGED <<Open, Current, posted, now>>
    PROVE  PromiseStep
PROOF
<1> QED
  BY DEF PromiseStep, Promise!DTNext, Promise!Withdraw, Open, Waiting, Current

LEMMA Begins ==
    ASSUME Open, Current = {}, NEW t \in Waiting, t.due <= now,
           \A s \in Waiting \ {t} : Promise!Before(t, s),
           Current' = {t}, Waiting' = Waiting \ {t}, UNCHANGED <<Open, posted, now>>
    PROVE  PromiseStep
PROOF
<1> QED
  BY DEF PromiseStep, Promise!DTNext, Promise!Begin, Open, Waiting, Current

LEMMA Ends ==
    ASSUME Current' = {}, UNCHANGED <<Open, Waiting, posted, now>>
    PROVE  PromiseStep
PROOF
<1> QED
  BY DEF PromiseStep, Promise!DTNext, Promise!End, Open, Waiting, Current

LEMMA OpensUp ==
    ASSUME Open', UNCHANGED <<Waiting, Current, posted, now>>
    PROVE  PromiseStep
PROOF
<1> QED
  BY DEF PromiseStep, Promise!DTNext, Promise!OpenUp, Open, Waiting, Current

LEMMA ClosesDown ==
    ASSUME Current = {}, ~Open', UNCHANGED <<Waiting, Current, posted, now>>
    PROVE  PromiseStep
PROOF
<1> QED
  BY DEF PromiseStep, Promise!DTNext, Promise!CloseDown, Open, Waiting, Current

LEMMA Discards ==
    ASSUME ~Open, Waiting' = {}, UNCHANGED <<Open, Current, posted, now>>
    PROVE  PromiseStep
PROOF
<1> QED
  BY DEF PromiseStep, Promise!DTNext, Promise!Discard, Open, Waiting, Current

LEMMA ClockIsMoved ==
    ASSUME now' \in Int, UNCHANGED <<Open, Waiting, Current, posted>>
    PROVE  PromiseStep
PROOF
<1> QED
  BY DEF PromiseStep, Promise!DTNext, Promise!ClockMoves, Open, Waiting, Current

(* The mapping where one thread owns the looper: no callback is inside a   *)
(* call of the owner, and at most one worker has a task.                   *)
LEMMA OpenIs ==
    ASSUME NEW o, OneOwner(o), OneCaller(o)
    PROVE  Open <=> started \/ pc[o] \in {"request", "join"}
PROOF
<1> QED
  BY ThreadFacts DEF Open

LEMMA OpenBecomes ==
    ASSUME NEW o, OneOwner(o), OneCaller(o)'
    PROVE  Open' <=> started' \/ pc'[o] \in {"request", "join"}
PROOF
<1> QED
  BY ThreadFacts DEF Open

LEMMA TakingIs ==
    ASSUME NEW o, OneOwner(o), OneCaller(o), NEW w \in Workers
    PROVE  pc[w] = "run" \/ InCallback(w) <=> pc[w] \in {"run", "proc"}
PROOF
<1> QED
  BY ThreadFacts DEF InCallback

LEMMA TakingBecomes ==
    ASSUME NEW o, OneOwner(o), OneCaller(o)', NEW w \in Workers
    PROVE  pc'[w] = "run" \/ InCallback(w)' <=> pc'[w] \in {"run", "proc"}
PROOF
<1> QED
  BY ThreadFacts DEF InCallback

(* Nothing is current when no worker has taken a task that is still valid. *)
LEMMA NoneIsCurrent ==
    ASSUME NEW o, OneOwner(o), OneCaller(o),
           \A w \in Workers : pc[w] \in {"run", "proc"} => ~Valid(first[w])
    PROVE  Current = {}
PROOF
<1> QED
  BY TakingIs DEF Current

LEMMA NoneBecomesCurrent ==
    ASSUME NEW o, OneOwner(o), OneCaller(o)',
           \A w \in Workers : pc'[w] \in {"run", "proc"} => ~Valid(first[w])'
    PROVE  Current' = {}
PROOF
<1> QED
  BY TakingBecomes DEF Current

(* A step that leaves alone what the mapping reads of the list and of the  *)
(* task in hand.                                                           *)
LEMMA WaitingStays ==
    ASSUME UNCHANGED taskVars
    PROVE  Waiting' = Waiting
PROOF
<1>1. Listed' = Listed /\ heap' = heap
  BY DEF taskVars, Listed
<1> QED
  BY <1>1 DEF Waiting, Valid, AsTask

LEMMA CurrentStays ==
    ASSUME NEW o, OneOwner(o), OneCaller(o), OneCaller(o)',
           \A w \in Workers :
             /\ pc'[w] \in {"run", "proc"} <=> pc[w] \in {"run", "proc"}
             /\ pc[w] \in {"run", "proc"} =>
                  first'[w] = first[w] /\ heap'[first[w]] = heap[first[w]]
    PROVE  Current' = Current
PROOF
<1>1. \A w \in Workers :
        (pc'[w] = "run" \/ InCallback(w)') /\ Valid(first[w])'
          <=> (pc[w] = "run" \/ InCallback(w)) /\ Valid(first[w])
  BY TakingIs, TakingBecomes DEF Valid
<1>2. \A w \in Workers : (pc[w] = "run" \/ InCallback(w)) => AsTask(first[w])' = AsTask(first[w])
  BY TakingIs DEF AsTask
<1> QED
  BY <1>1, <1>2 DEF Current

(* The steps that stutter: everything but the calls of users, the clock,   *)
(* the publication of a start, the return of stop and of a callback, and   *)
(* the taking of a task.                                                   *)
LEMMA StartAndStopStutter ==
    ASSUME NEW o, OneOwner(o), Inv, OneInv(o), OneInv(o)', NEW t \in Threads,
           \/ StartLock(t) \/ StartArm(t) \/ StartMark(t)
           \/ StopLock(t) \/ StopRequest(t)
           \/ Destroy(t) \/ DestroyStopped(t) \/ DestroyFree(t)
    PROVE  PromiseStep
PROOF
<1>1. UNCHANGED <<taskVars, first, posted, now>>
  BY DEF StartLock, StartArm, StartMark, StopLock, StopRequest, Destroy, DestroyStopped,
         DestroyFree, Abort, MoveOn, localVars, clockVars
<1>2. \A w \in Workers : pc'[w] \in {"run", "proc"} <=> pc[w] \in {"run", "proc"}
  <2>1. CASE StartLock(t)
    <3>1. \A w \in Workers : pc[w] = "none"
      BY <2>1, ThreadFacts DEF StartLock
    <3>2. t = o
      BY <2>1 DEF StartLock
    <3>3. CASE pc' = pc
      BY <3>3
    <3>4. ASSUME NEW w \in Workers, GoBoth(o, "arm", w, "loop")
          PROVE  \A v \in Workers : pc'[v] \notin {"run", "proc"}
      BY <3>1, <3>4, ThreadFacts, MovedBoth
    <3> QED
      BY <2>1, <3>1, <3>2, <3>3, <3>4 DEF StartLock, Abort, GoBoth
  <2>2. CASE ~StartLock(t)
    <3>1. t = o \/ pc' = pc
      BY <2>2, ThreadFacts, Typed DEF StartArm, StartMark, StopLock, StopRequest, Destroy,
           DestroyStopped, DestroyFree, MoveOn, Abort
    <3>2. pc' = pc \/ \E label : Goto(t, label)
      BY <2>2 DEF StartArm, StartMark, StopLock, StopRequest, Destroy,
           DestroyStopped, DestroyFree, MoveOn, Abort
    <3> QED
      BY <3>1, <3>2, Moved, ThreadFacts
  <2> QED
    BY <2>1, <2>2
<1>3. Open' <=> Open
  <2>1. Open <=> started \/ pc[o] \in {"request", "join"}
    BY OpenIs
  <2>2. Open' <=> started' \/ pc'[o] \in {"request", "join"}
    BY OpenBecomes
  <2>3. CASE StartLock(t)
    <3>1. t = o /\ pc[o] = "idle" /\ started' = started /\ ~started
      BY <2>3, ThreadFacts DEF StartLock, Abort
    <3>2. pc' = pc \/ pc'[o] = "arm"
      BY <2>3, <3>1, ThreadFacts DEF StartLock, Abort, Inv, TypeOK
    <3> QED
      BY <2>1, <2>2, <3>1, <3>2
  <2>4. CASE StopLock(t)
    <3>1. t = o /\ started /\ pc'[o] = "request"
      BY <2>4, Moved, ThreadFacts DEF StopLock
    <3> QED
      BY <2>1, <2>2, <3>1
  <2>5. CASE StopRequest(t)
    <3>1. t = o /\ pc[o] = "request" /\ pc'[o] \in {"request", "join"}
      BY <2>5, Moved, ThreadFacts DEF StopRequest, Abort
    <3> QED
      BY <2>1, <2>2, <3>1
  <2>6. CASE StartArm(t) \/ StartMark(t) \/ Destroy(t) \/ DestroyStopped(t) \/ DestroyFree(t)
    <3>1. t = o /\ started' = started /\ pc[o] \notin {"request", "join"}
      BY <2>6, ThreadFacts DEF StartArm, StartMark, Destroy, DestroyStopped, DestroyFree,
           MoveOn, Abort
    <3>2. pc' = pc \/ pc'[o] \in {"mark", "publish", "destroy", "clear", "idle"}
      BY <2>6, <3>1, Moved, ThreadFacts DEF StartArm, StartMark, Destroy, DestroyStopped,
           DestroyFree, MoveOn, Abort
    <3> QED
      BY <2>1, <2>2, <3>1, <3>2
  <2> QED
    BY <2>3, <2>4, <2>5, <2>6
<1>4. Current' = Current
  BY <1>1, <1>2, CurrentStays DEF taskVars
<1>5. Waiting' = Waiting
  BY <1>1, WaitingStays
<1> QED
  BY <1>1, <1>3, <1>4, <1>5, Stutters DEF Mapped

(* A worker only looks: at the list, at the clock, or at what stop did.    *)
LEMMA WorkerStutters ==
    ASSUME NEW o, OneOwner(o), Inv, OneInv(o), OneInv(o)', NEW w \in Workers,
           \/ Loop(w) \/ LockWait(w) \/ CheckStarted(w)
           \/ PickLater(w) \/ PickNothing(w) \/ TimedWait(w) \/ WakeUp(w)
           \/ Leave(w) \/ Forget(w) \/ Pend(w) \/ Halt(w)
    PROVE  PromiseStep
PROOF
<1>0. w \in Threads /\ w # o
  BY ThreadFacts
<1>1. UNCHANGED <<taskVars, first, posted, now, started>>
  BY DEF Loop, LockWait, CheckStarted, PickLater, PickNothing, TimedWait, WakeUp, Leave,
         Forget, Pend, Halt, Abort, MoveOn, localVars, clockVars
<1>2. /\ pc[w] \notin {"run", "proc"}
      /\ pc' = pc \/ \E label \in WorkerPCs \ {"run", "proc"} : Goto(w, label)
  BY DEF Loop, LockWait, CheckStarted, PickLater, PickNothing, TimedWait, WakeUp, Leave,
         Forget, Pend, Halt, Abort, MoveOn, WorkerPCs
<1>3. pc'[w] \notin {"run", "proc"} /\ \A u \in Threads \ {w} : pc'[u] = pc[u]
  BY <1>0, <1>2, Moved
<1>4. Open' <=> Open
  BY <1>0, <1>1, <1>3, ThreadFacts, OpenIs, OpenBecomes
<1>5. Current' = Current
  BY <1>1, <1>2, <1>3, ThreadFacts, CurrentStays DEF taskVars
<1>6. Waiting' = Waiting
  BY <1>1, WaitingStays
<1> QED
  BY <1>1, <1>4, <1>5, <1>6, Stutters DEF Mapped

(* A worker is where it takes a task only between a start and the return   *)
(* of stop.                                                                *)
LEMMA TakesWhenOpen ==
    ASSUME NEW o, OneOwner(o), OneInv(o), NEW w \in Workers,
           pc[w] \in {"pick", "run", "proc", "drop"}
    PROVE  Open /\ \A v \in Workers \ {w} : pc[v] = "none"
PROOF
<1> QED
  BY OpenIs

(* Two tasks in the list are due at different times or of different posts. *)
LEMMA TasksDiffer ==
    ASSUME Inv
    PROVE  /\ \A a \in Listed : heap[a] \in TimerTask
           /\ \A a, b \in Listed : AsTask(a) = AsTask(b) => a = b
PROOF
<1>1. \A a \in Listed : heap[a] \in TimerTask
  BY ListFacts DEF ListedAreTasks
<1>2. DOMAIN tasks \subseteq Int
  BY LenProperties DEF Inv, TypeOK, TaskTypeOK
<1>3. ASSUME NEW i \in DOMAIN tasks, NEW j \in DOMAIN tasks, i < j
      PROVE  AsTask(tasks[i]) # AsTask(tasks[j])
  <2>1. heap[tasks[i]] \in TimerTask /\ heap[tasks[j]] \in TimerTask
    BY <1>1 DEF Listed
  <2>2. \/ heap[tasks[i]].proc_ms < heap[tasks[j]].proc_ms
        \/ heap[tasks[i]].stamp < heap[tasks[j]].stamp
    BY <1>3, ListFacts DEF InDueOrder
  <2> QED
    BY <2>1, <2>2 DEF AsTask, TimerTask
<1>4. ASSUME NEW i \in DOMAIN tasks, NEW j \in DOMAIN tasks,
             AsTask(tasks[i]) = AsTask(tasks[j])
      PROVE  i = j
  BY <1>2, <1>3, <1>4
<1> QED
  BY <1>1, <1>4 DEF Listed

(* Line 51 takes, of the tasks that wait, the one that is to be run before *)
(* all others.                                                             *)
LEMMA FirstComesFirst ==
    ASSUME Inv, tasks # <<>>, NEW a \in Listed, a # ListFirst
    PROVE  Promise!Before(AsTask(ListFirst), AsTask(a))
PROOF
<1>1. tasks \in Seq(Addr) /\ DOMAIN tasks = 1 .. Len(tasks) /\ Len(tasks) \in Nat /\ Len(tasks) > 0
  BY EmptySeq, LenProperties DEF Inv, TypeOK, TaskTypeOK
<1>2. ListFirst = tasks[1] /\ 1 \in DOMAIN tasks
  BY <1>1
<1>3. PICK i \in DOMAIN tasks : a = tasks[i]
  BY DEF Listed
<1>4. 1 < i
  BY <1>1, <1>2, <1>3
<1>5. \/ heap[tasks[1]].proc_ms < heap[tasks[i]].proc_ms
      \/ heap[tasks[1]].proc_ms = heap[tasks[i]].proc_ms /\ heap[tasks[1]].stamp < heap[tasks[i]].stamp
  BY <1>2, <1>4, ListFacts DEF InDueOrder
<1> QED
  BY <1>2, <1>3, <1>5 DEF Promise!Before, AsTask

(* A valid task that is taken begins; one that was cancelled is dropped    *)
(* later and was not waiting.                                              *)
LEMMA PickDueBegins ==
    ASSUME NEW o, OneOwner(o), Inv, OneInv(o), OneInv(o)', NEW w \in Workers, PickDue(w)
    PROVE  PromiseStep
PROOF
<1>0. w \in Threads /\ w # o
  BY ThreadFacts
<1>1. /\ pc[w] = "pick" /\ tasks # <<>> /\ FirstIsDue /\ ListDelFirst
      /\ UNCHANGED <<heap, started, posted, now>>
  BY DEF PickDue, ListDelFirst, clockVars
<1>2. pc'[w] = "run" /\ \A u \in Threads \ {w} : pc'[u] = pc[u]
  BY <1>0, Moved DEF PickDue
<1>3. Open /\ \A v \in Workers \ {w} : pc[v] = "none"
  BY <1>1, TakesWhenOpen
<1>4. Open' <=> Open
  BY <1>0, <1>1, <1>2, ThreadFacts, OpenIs, OpenBecomes
<1>5. Current = {}
  BY <1>1, <1>3, NoneIsCurrent
<1>6. first'[w] = ListFirst
  BY DEF PickDue, Inv, TypeOK
<1>7. ListFirst \in Listed /\ Listed' = Listed \ {ListFirst}
  BY <1>1, ListFacts, ListDelFirstKeeps
<1>8. \A v \in Workers : pc'[v] \in {"run", "proc"} => v = w
  BY <1>2, <1>3, ThreadFacts
<1>9. \A a : AsTask(a)' = AsTask(a) /\ (Valid(a)' <=> Valid(a))
  BY <1>1 DEF AsTask, Valid
<1>10. CASE ~Valid(ListFirst)
  <2>1. Current' = {}
    BY <1>1, <1>6, <1>8, <1>10, NoneBecomesCurrent DEF Valid
  <2>2. {b \in Listed' : Valid(b)'} = {b \in Listed : Valid(b)}
    BY <1>7, <1>9, <1>10
  <2>3. Waiting' = Waiting
    BY <1>9, <2>2 DEF Waiting
  <2> QED
    BY <1>1, <1>4, <1>5, <2>1, <2>3, Stutters DEF Mapped
<1>11. CASE Valid(ListFirst)
  <2> DEFINE t == AsTask(ListFirst)
  <2>1. t \in Waiting
    BY <1>7, <1>11 DEF Waiting
  <2>2. t.due <= now
    BY <1>1 DEF FirstIsDue, AsTask
  <2>3. \A s \in Waiting \ {t} : Promise!Before(t, s)
    BY <1>1, FirstComesFirst DEF Waiting
  <2>4. Current' = {t}
    <3>1. AsTask(first[w])' = t /\ Valid(first[w])'
      BY <1>1, <1>6, <1>11 DEF AsTask, Valid
    <3>2. {v \in Workers : (pc'[v] = "run" \/ InCallback(v)') /\ Valid(first[v])'} = {w}
      BY <1>2, <1>8, <3>1, TakingBecomes
    <3> QED
      BY <3>1, <3>2 DEF Current
  <2>5. Waiting' = Waiting \ {t}
    <3>1. \A b \in Listed : AsTask(b) = t => b = ListFirst
      BY <1>7, TasksDiffer
    <3> QED
      BY <1>7, <1>9, <3>1 DEF Waiting
  <2> HIDE DEF t
  <2> QED
    BY <1>1, <1>3, <1>4, <1>5, <2>1, <2>2, <2>3, <2>4, <2>5, Begins
<1> QED
  BY <1>10, <1>11

(* The callback of a task, if it has not been cancelled, and its return.   *)
LEMMA RunsAndEnds ==
    ASSUME NEW o, OneOwner(o), Inv, OneInv(o), OneInv(o)', NEW w \in Workers,
           Run(w) \/ Return(w) \/ Drop(w)
    PROVE  PromiseStep
PROOF
<1>0. w \in Threads /\ w # o
  BY ThreadFacts
<1>1. UNCHANGED <<tasks, started, posted, now>>
  BY DEF Run, Return, Drop, MoveOn, TaskDestroy, taskVars, clockVars
<1>2. /\ pc[w] \in {"run", "proc", "drop"}
      /\ \E label \in {"proc", "drop", "loop"} : Goto(w, label)
  BY DEF Run, Return, Drop, MoveOn
<1>3. pc'[w] \notin {"request", "join"} /\ \A u \in Threads \ {w} : pc'[u] = pc[u]
  BY <1>0, <1>2, Moved
<1>4. Open' <=> Open
  BY <1>0, <1>1, <1>3, ThreadFacts, OpenIs, OpenBecomes
<1>5. \A v \in Workers \ {w} : pc[v] = "none" /\ pc'[v] = "none"
  BY <1>2, <1>3, TakesWhenOpen, ThreadFacts
<1>6. CASE Run(w) /\ Valid(first[w])
  <2>1. pc[w] = "run" /\ Goto(w, "proc") /\ UNCHANGED <<taskVars, first>>
    BY <1>6 DEF Run, MoveOn, Valid, localVars
  <2>2. pc'[w] = "proc"
    BY <1>0, <2>1, Moved
  <2>3. Current' = Current
    BY <1>5, <2>1, <2>2, CurrentStays DEF taskVars
  <2>4. Waiting' = Waiting
    BY <2>1, WaitingStays
  <2> QED
    BY <1>1, <1>4, <2>3, <2>4, Stutters DEF Mapped
<1>7. CASE Run(w) /\ ~Valid(first[w])
  <2>1. pc[w] = "run" /\ Goto(w, "drop") /\ UNCHANGED <<taskVars, first>>
    BY <1>7 DEF Run, MoveOn, Valid, localVars
  <2>2. pc'[w] = "drop"
    BY <1>0, <2>1, Moved
  <2>3. Current' = {}
    BY <1>5, <2>2, NoneBecomesCurrent
  <2>4. Waiting' = Waiting
    BY <2>1, WaitingStays
  <2> QED
    BY <1>1, <1>4, <2>3, <2>4, Ends
<1>8. CASE Return(w)
  <2>1. Goto(w, "drop") /\ UNCHANGED taskVars
    BY <1>8 DEF Return, MoveOn
  <2>2. pc'[w] = "drop"
    BY <1>0, <2>1, Moved
  <2>3. Current' = {}
    BY <1>5, <2>2, NoneBecomesCurrent
  <2>4. Waiting' = Waiting
    BY <2>1, WaitingStays
  <2> QED
    BY <1>1, <1>4, <2>3, <2>4, Ends
<1>9. CASE Drop(w)
  <2>1. pc[w] = "drop" /\ Goto(w, "loop") /\ heap' = [heap EXCEPT ![first[w]] = Free]
    BY <1>9 DEF Drop, TaskDestroy
  <2>2. pc'[w] = "loop"
    BY <1>0, <2>1, Moved
  <2>3. Current' = {}
    BY <1>5, <2>2, NoneBecomesCurrent
  <2>4. \A b \in Listed : heap'[b] = heap[b]
    <3>1. \A b \in Listed : b \in Addr /\ b # first[w]
      BY ListFacts DEF Inv, HeapOwnership
    <3> QED
      BY <2>1, <3>1 DEF Inv, TypeOK, TaskTypeOK
  <2>5. Waiting' = Waiting
    <3>1. Listed' = Listed
      BY <1>1 DEF Listed
    <3> QED
      BY <2>4, <3>1 DEF Waiting, Valid, AsTask
  <2> QED
    BY <1>1, <1>4, <2>3, <2>5, Ends
<1> QED
  BY <1>6, <1>7, <1>8, <1>9

(* A task that is current is in no other hands and not in the list.        *)
LEMMA InHand ==
    ASSUME Inv, NEW w \in Workers, pc[w] \in {"run", "proc"}
    PROVE  first[w] \in Addr \ Listed /\ heap[first[w]] # Free
PROOF
<1>1. first[w] # NULL
  BY DEF Inv, FirstHeld, Holding
<1> QED
  BY <1>1 DEF Inv, TypeOK, HeapOwnership

(* awe_looper_post, awe_looper_cancel and awe_looper_clear.                *)
LEMMA UsersAreServed ==
    ASSUME NEW o, OneOwner(o), Inv, OneInv(o), OneInv(o)', NEW t \in Threads, UserStep(t)
    PROVE  PromiseStep
PROOF
<1>1. ASSUME NEW a \in Addr, NEW d \in Delays, Post(t, a, d) PROVE PromiseStep
  <2>1. /\ ListInsert(a, now + d, posted) /\ started
        /\ posted' = posted + 1 /\ UNCHANGED <<pc, started, first, now>>
    BY <1>1 DEF Post, localVars
  <2>2. now + d \in Int
    BY NumbersAreNumbers DEF Inv, TypeOK
  <2>3. /\ Listed' = Listed \cup {a} /\ a \notin Listed
        /\ \A b \in Addr \ {a} : heap'[b] = heap[b]
    BY <2>1, <2>2, ListFacts, ListInsertKeeps
  <2>4. /\ heap[a] = Free
        /\ heap'[a] = [proc_ms |-> now + d, state |-> "valid", stamp |-> posted]
    BY <2>1 DEF ListInsert, Inv, TypeOK, TaskTypeOK
  <2>5. Open /\ Open'
    BY <2>1 DEF Open
  <2>6. Current' = Current
    <3>1. \A w \in Workers : pc[w] \in {"run", "proc"} => heap'[first[w]] = heap[first[w]]
      BY <2>3, <2>4, InHand
    <3> QED
      BY <2>1, <3>1, CurrentStays
  <2>7. Waiting' = Waiting \cup {[due |-> now + d, rank |-> posted]}
    <3>1. Valid(a)' /\ AsTask(a)' = [due |-> now + d, rank |-> posted]
      BY <2>4 DEF Valid, AsTask
    <3>2. \A b \in Listed : (Valid(b)' <=> Valid(b)) /\ AsTask(b)' = AsTask(b)
      BY <2>3, ListFacts DEF Valid, AsTask
    <3> QED
      BY <2>3, <3>1, <3>2 DEF Waiting
  <2> QED
    BY <2>1, <2>5, <2>6, <2>7, Accepts
<1>2. ASSUME NEW id \in Addr, Cancel(t, id) PROVE PromiseStep
  <2>1. ListCancel(id) /\ started /\ UNCHANGED <<pc, started, first, posted, now>>
    BY <1>2 DEF Cancel, localVars, clockVars
  <2>2. /\ Listed' = Listed
        /\ \A b \in Addr \ Listed : heap'[b] = heap[b]
    BY <2>1, ListFacts, ListCancelKeeps
  <2>3. Open /\ Open'
    BY <2>1 DEF Open
  <2>4. Current' = Current
    BY <2>1, <2>2, InHand, CurrentStays
  <2>5. CASE ~(id \in Listed /\ Valid(id))
    <3>1. \A b \in Listed : (Valid(b)' <=> Valid(b)) /\ AsTask(b)' = AsTask(b)
      <4>1. CASE id \notin Listed
        BY <2>1, <4>1 DEF ListCancel, Valid, AsTask
      <4>2. CASE id \in Listed
        <5>1. heap[id] \in TimerTask /\ heap[id].state # "valid"
          BY <2>5, <4>2, TasksDiffer DEF Valid
        <5>2. heap' = [heap EXCEPT ![id].state = "invalid"]
          BY <2>1, <4>2 DEF ListCancel
        <5>3. /\ heap'[id].state = "invalid" /\ heap'[id].proc_ms = heap[id].proc_ms
              /\ heap'[id].stamp = heap[id].stamp
          BY <5>1, <5>2 DEF Inv, TypeOK, TaskTypeOK, TimerTask
        <5>4. \A b \in Addr \ {id} : heap'[b] = heap[b]
          BY <5>2 DEF Inv, TypeOK, TaskTypeOK
        <5> QED
          BY <5>1, <5>3, <5>4, ListFacts DEF Valid, AsTask
      <4> QED
        BY <4>1, <4>2
    <3>2. Waiting' = Waiting
      BY <2>2, <3>1 DEF Waiting
    <3> QED
      BY <2>1, <2>3, <2>4, <3>2, Stutters DEF Mapped
  <2>6. CASE id \in Listed /\ Valid(id)
    <3>1. heap[id] \in TimerTask
      BY <2>6, TasksDiffer
    <3>2. heap' = [heap EXCEPT ![id].state = "invalid"]
      BY <2>1, <2>6 DEF ListCancel
    <3>3. ~Valid(id)'
      BY <3>1, <3>2 DEF Inv, TypeOK, TaskTypeOK, TimerTask, Valid
    <3>4. \A b \in Listed \ {id} : (Valid(b)' <=> Valid(b)) /\ AsTask(b)' = AsTask(b)
      BY <3>2, ListFacts DEF Inv, TypeOK, TaskTypeOK, Valid, AsTask
    <3>5. \A b \in Listed : AsTask(b) = AsTask(id) => b = id
      BY <2>6, TasksDiffer
    <3>6. AsTask(id) \in Waiting
      BY <2>6 DEF Waiting
    <3>7. Waiting' = Waiting \ {AsTask(id)}
      BY <2>2, <2>6, <3>3, <3>4, <3>5 DEF Waiting
    <3> QED
      BY <2>1, <2>3, <2>4, <3>6, <3>7, Withdraws
  <2> QED
    BY <2>5, <2>6
<1>3. CASE Clear(t)
  <2>1. t = o /\ pc[o] = "idle" /\ ~started
    BY <1>3, ThreadFacts DEF Clear
  <2>2. \A w \in Workers : pc[w] = "none"
    BY <2>1
  <2>3. ListClear /\ UNCHANGED <<pc, started, first, posted, now>>
    BY <1>3 DEF Clear, localVars, clockVars
  <2>4. ~Open /\ ~Open'
    BY <2>1, <2>3, OpenIs, OpenBecomes
  <2>5. Current = {} /\ Current' = {}
    BY <2>2, <2>3, NoneIsCurrent, NoneBecomesCurrent
  <2>6. Waiting' = {}
    BY <2>3, ListFacts, ListClearKeeps DEF Waiting
  <2>7. Open' <=> Open
    BY <2>4
  <2> QED
    BY <2>3, <2>4, <2>5, <2>6, <2>7, Discards
<1> QED
  BY <1>1, <1>2, <1>3 DEF UserStep

(* The steps of the owner by which the service opens and closes, and by    *)
(* which destroy empties it.                                               *)
LEMMA OpensAndCloses ==
    ASSUME NEW o, OneOwner(o), Inv, OneInv(o), OneInv(o)', NEW t \in Threads,
           StartPublish(t) \/ StopJoin(t) \/ DestroyClear(t)
    PROVE  PromiseStep
PROOF
<1>1. CASE StartPublish(t)
  <2>1. UNCHANGED <<taskVars, first, posted, now>> /\ t = o /\ started'
    BY <1>1 DEF StartPublish, localVars, clockVars
  <2>2. \A u \in Threads \ {o} : pc'[u] = pc[u]
    BY <1>1, <2>1, Moved DEF StartPublish
  <2>3. Current' = Current
    BY <2>1, <2>2, ThreadFacts, CurrentStays DEF taskVars
  <2>4. Waiting' = Waiting
    BY <2>1, WaitingStays
  <2> QED
    BY <2>1, <2>3, <2>4, OpensUp DEF Open
<1>2. CASE StopJoin(t)
  <2>1. t = o /\ pc[o] = "join" /\ ~started
    BY <1>2 DEF StopJoin
  <2>2. UNCHANGED <<taskVars, first, posted, now, started>>
    BY <1>2 DEF StopJoin, localVars, clockVars
  <2>3. Waiting' = Waiting
    BY <2>2, WaitingStays
  <2>4. CASE running /\ pc' = pc
    <3>1. Current' = Current /\ (Open' <=> Open)
      BY <2>2, <2>4, CurrentStays, OpenIs, OpenBecomes DEF taskVars
    <3> QED
      BY <2>2, <2>3, <3>1, Stutters DEF Mapped
  <2>5. CASE /\ ~running
             /\ Goto(t, IF t \in Clients /\ life = "destroying" THEN "clear" ELSE Resting(t))
    <3>1. pc'[o] \in {"clear", "idle"} /\ \A u \in Threads \ {o} : pc'[u] = pc[u]
      BY <2>1, <2>5, Moved, ThreadFacts
    <3>2. \A w \in Workers : pc[w] = "none" /\ pc'[w] = "none"
      BY <2>1, <2>5, <3>1, ThreadFacts
    <3>3. Current = {} /\ Current' = {}
      BY <3>2, NoneIsCurrent, NoneBecomesCurrent
    <3>4. ~Open'
      BY <2>1, <2>2, <3>1, OpenBecomes
    <3> QED
      BY <2>2, <2>3, <3>3, <3>4, ClosesDown
  <2> QED
    BY <1>2, <2>4, <2>5 DEF StopJoin
<1>3. CASE DestroyClear(t)
  <2>1. t = o /\ pc[o] = "clear" /\ ~started /\ \A w \in Workers : pc[w] = "none"
    BY <1>3 DEF DestroyClear
  <2>2. pc'[o] = "dispose" /\ \A u \in Threads \ {o} : pc'[u] = pc[u]
    BY <1>3, <2>1, Moved DEF DestroyClear
  <2>3. ListClear /\ UNCHANGED <<started, posted, now>>
    BY <1>3 DEF DestroyClear, clockVars
  <2>4. ~Open /\ ~Open'
    BY <2>1, <2>2, <2>3, OpenIs, OpenBecomes
  <2>5. Current = {} /\ Current' = {}
    BY <2>1, <2>2, ThreadFacts, NoneIsCurrent, NoneBecomesCurrent
  <2>6. Waiting' = {}
    BY <2>3, ListFacts, ListClearKeeps DEF Waiting
  <2>7. Open' <=> Open
    BY <2>4
  <2> QED
    BY <2>3, <2>4, <2>5, <2>6, <2>7, Discards
<1> QED
  BY <1>1, <1>2, <1>3

(* Wakeups and the clock.                                                  *)
LEMMA ElsewhereStutters ==
    ASSUME NEW o, OneOwner(o), Inv, OneInv(o), OneInv(o)',
           \/ \E t \in Threads : Timeout(t) \/ Spurious(t)
           \/ Tick \/ SetClock \/ UNCHANGED vars
    PROVE  PromiseStep
PROOF
<1>1. UNCHANGED <<taskVars, pc, started, first, posted>>
  BY DEF Timeout, Spurious, Tick, SetClock, vars, localVars, clockVars
<1>2. now' \in Int
  <2>1. now \in Int /\ ClockSettings \subseteq Int
    BY NumbersAreNumbers DEF Inv, TypeOK
  <2>2. now' \in {now, now + 1} \cup ClockSettings
    BY DEF Timeout, Spurious, Tick, SetClock, vars, clockVars
  <2> HIDE DEF OneInv, OneOwner
  <2>3. {now, now + 1} \cup ClockSettings \subseteq Int
    BY <2>1
  <2> QED
    BY <2>2, <2>3
<1>3. Current' = Current /\ (Open' <=> Open)
  BY <1>1, CurrentStays, OpenIs, OpenBecomes DEF taskVars
<1>4. Waiting' = Waiting
  BY <1>1, WaitingStays
<1> QED
  BY <1>1, <1>2, <1>3, <1>4, ClockIsMoved

LEMMA NextPromise ==
    ASSUME NEW o, OneOwner(o), Inv, OneInv(o), OneInv(o)', [Next]_vars
    PROVE  PromiseStep
PROOF
<1> HIDE DEF OneInv, OneOwner
<1>1. ASSUME NEW t \in Threads, OwnerStep(t) PROVE PromiseStep
  BY <1>1, StartAndStopStutter, OpensAndCloses DEF OwnerStep
<1>2. ASSUME NEW w \in Workers, WorkerStep(w) PROVE PromiseStep
  BY <1>2, WorkerStutters, PickDueBegins, RunsAndEnds DEF WorkerStep
<1> QED
  BY <1>1, <1>2, UsersAreServed, ElsewhereStutters DEF Next, Terminated

LEMMA InitPromise ==
    ASSUME NEW o, OneOwner(o), Init
    PROVE  Promise!DTInit
PROOF
<1>1. OneInv(o) /\ Inv
  BY InitOneInv, InitInv
<1>2. ~started /\ pc[o] = "idle" /\ (\A w \in Workers : pc[w] = "none") /\ posted = 0 /\ now = 0
  BY ThreadFacts DEF Init
<1>3. ~Open
  BY <1>1, <1>2, OpenIs
<1>4. Current = {}
  BY <1>1, <1>2, NoneIsCurrent
<1>5. Listed = {}
  BY DEF Init, ListInit, Listed
<1>6. Waiting = {}
  BY <1>5 DEF Waiting
<1> QED
  BY <1>2, <1>3, <1>4, <1>6 DEF Promise!DTInit, Open, Waiting, Current
-----------------------------------------------------------------------------
(* What a program that gives its looper one owner can rely on.             *)

(* None of the looper's assertions fails, and the object is never freed    *)
(* while its worker may still touch it.                                    *)
THEOREM OwnedLooperIsSafe ==
    ASSUME NEW o \in Clients, Owners = {o}, ~ClearAnytime
    PROVE  Spec => []NoFault
PROOF
<1>1. OneInv(o) => NoFault
  OBVIOUS
<1>2. OneOwner(o)
  OBVIOUS
<1> HIDE DEF OneOwner, OneInv
<1> QED
  BY <1>1, <1>2, SpecOneInv, PTL

(* A looper has one worker at a time, and the handle is free for the next  *)
(* only when the last has run its last task.                               *)
THEOREM OwnedLooperHasOneWorker ==
    ASSUME NEW o \in Clients, Owners = {o}, ~ClearAnytime
    PROVE  Spec => []OneWorker
PROOF
<1>1. OneInv(o) => OneWorker
  BY DEF OneWorker
<1>2. OneOwner(o)
  OBVIOUS
<1> HIDE DEF OneOwner, OneInv
<1> QED
  BY <1>1, <1>2, SpecOneInv, PTL

(* The worker never sleeps through a post: asleep without a task to wait   *)
(* for, it has a started looper and an empty list; asleep until a task is  *)
(* due, that task is still the first.                                      *)
THEOREM OwnedLooperIsWoken ==
    ASSUME NEW o \in Clients, Owners = {o}, ~ClearAnytime
    PROVE  Spec => []NoLostWakeup
PROOF
<1>1. OneInv(o) => NoLostWakeup
  OBVIOUS
<1>2. OneOwner(o)
  OBVIOUS
<1> HIDE DEF OneOwner, OneInv, NoLostWakeup
<1> QED
  BY <1>1, <1>2, SpecOneInv, PTL

(* The looper implements DelayedTasks: tasks run in due order, one at a    *)
(* time, each once, none before its time, none that was cancelled, and     *)
(* none once stop has returned.                                            *)
THEOREM OwnedLooperKeepsPromise ==
    ASSUME NEW o \in Clients, Owners = {o}, ~ClearAnytime
    PROVE  Spec => KeepsPromise
PROOF
<1>1. OneOwner(o)
  OBVIOUS
<1> HIDE DEF OneOwner, OneInv
<1>2. Init => Promise!DTInit
  BY <1>1, InitPromise
<1>3. Inv /\ OneInv(o) /\ (OneInv(o))' /\ [Next]_vars => [Promise!DTNext]_(Promise!dtVars)
  BY <1>1, NextPromise DEF PromiseStep
<1> QED
  BY <1>1, <1>2, <1>3, SpecOneInv, PTL DEF KeepsPromise, Spec, Promise!DTSpec
=============================================================================

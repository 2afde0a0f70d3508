------------------------- MODULE UxSchedulerProofs -------------------------
(***************************************************************************)
(* Proofs about UxScheduler, for any number of threads, sockets and tasks. *)
(* Whoever uses it: no uxevent and no task is lost, freed twice or listed  *)
(* twice, and a thread that waits for its removal to be seen will be told. *)
(* Where one client starts, stops and destroys it, and only handlers and   *)
(* callbacks remove sockets: no assertion fails, no freed uxevent is       *)
(* called, no wakeup is lost, and it keeps the promise of DelayedTasks.    *)
(***************************************************************************)
EXTENDS UxScheduler, TimerTaskProofs, WellFoundedInduction

(* The calls a thread can be in the middle of, and where it then is.       *)
CallPCs == {"arm", "mark", "join", "rm"}
WorkersPCs == WorkerPCs \cup CallPCs
ClientsPCs == ClientPCs \cup {"join"}
AllPCs == WorkerPCs \cup ClientPCs \cup {"join"}

PcOK ==
    /\ \A w \in Workers : pc[w] \in WorkersPCs
    /\ \A c \in Clients : pc[c] \in ClientsPCs

(* TypeOK, but for the contents of watched and forever.                    *)
Types ==
    /\ ThreadTypeOK /\ TaskTypeOK /\ UxTypeOK
    /\ mutex \in Threads \cup {NoThread}
    /\ waitset \subseteq Threads
    /\ started \in BOOLEAN /\ have_rmopt \in BOOLEAN
    /\ pc \in [Threads -> AllPCs] /\ PcOK
    /\ uxe \in [Workers -> UxAddr \cup {NoUxe}]
    /\ called \in [Workers -> Ufds \cup {NoUfd}]
    /\ first \in [Workers -> Addr \cup {NULL}]
    /\ now \in Int /\ posted \in Nat

(* A worker that calls the uxscheduler does it from the handler of a       *)
(* socket or from the callback of a task.                                  *)
TaskInHand(w) ==
    pc[w] \in {"run", "proc", "drop"} \/ (pc[w] \in CallPCs /\ uxe[w] = NoUxe)

Hands ==
    \A w \in Workers :
        /\ first[w] # NULL <=> TaskInHand(w)
        /\ pc[w] \in {"call", "event"} => uxe[w] # NoUxe
        /\ pc[w] \notin {"call", "event"} \cup CallPCs => uxe[w] = NoUxe

(* The inductive invariant of every program.                               *)
Inv ==
    /\ Types
    /\ Hands
    /\ HeapOwnership /\ InDueOrder /\ StampedBelow(posted)
    /\ OneEventPerSocket
    /\ NoForgottenRemoval
-----------------------------------------------------------------------------
(* The list of uxevents.                                                   *)

(* What is left when place i is taken out.                                 *)
LEMMA WithoutUxIs ==
    ASSUME NEW S, uxevents \in Seq(S), NEW i \in 1 .. Len(uxevents)
    PROVE  /\ WithoutUx(i) \in Seq(S) /\ Len(WithoutUx(i)) = Len(uxevents) - 1
           /\ \A j \in 1 .. Len(uxevents) - 1 :
                WithoutUx(i)[j] = IF j < i THEN uxevents[j] ELSE uxevents[j + 1]
PROOF
<1> DEFINE l == uxevents
           a == SubSeq(l, 1, i - 1)
           b == SubSeq(l, i + 1, Len(l))
<1>4. WithoutUx(i) = a \o b /\ l = uxevents /\ l \in Seq(S) /\ i \in 1 .. Len(l)
  BY DEF WithoutUx
<1> HIDE DEF a, b, l
<1>0. Len(l) \in Nat /\ i \in Int /\ 1 <= i /\ i <= Len(l) /\ \A j \in 1 .. Len(l) : l[j] \in S
  BY <1>4, LenProperties
<1>1. a \in Seq(S) /\ Len(a) = i - 1 /\ \A j \in 1 .. i - 1 : a[j] = l[j]
  <2>1. /\ \A j \in 1 .. i - 1 : l[j] \in S
        /\ i - 1 \in Int /\ 1 \in Int
    BY <1>0
  <2>2. /\ a \in Seq(S) /\ Len(a) = IF 1 <= i - 1 THEN i - 1 - 1 + 1 ELSE 0
        /\ \A j \in 1 .. i - 1 - 1 + 1 : a[j] = l[1 + j - 1]
    BY <2>1, SubSeqProperties DEF a
  <2> QED
    BY <1>0, <2>2
<1>2. b \in Seq(S) /\ Len(b) = Len(l) - i /\ \A j \in 1 .. Len(l) - i : b[j] = l[i + j]
  <2>1. /\ \A j \in i + 1 .. Len(l) : l[j] \in S
        /\ i + 1 \in Int /\ Len(l) \in Int
    BY <1>0
  <2>2. /\ b \in Seq(S) /\ Len(b) = IF i + 1 <= Len(l) THEN Len(l) - (i + 1) + 1 ELSE 0
        /\ \A j \in 1 .. Len(l) - (i + 1) + 1 : b[j] = l[(i + 1) + j - 1]
    BY <2>1, SubSeqProperties DEF b
  <2>3. ASSUME NEW j \in 1 .. Len(l) - i
        PROVE  b[j] = l[i + j]
    <3>1. j \in 1 .. Len(l) - (i + 1) + 1 /\ (i + 1) + j - 1 = i + j
      BY <1>0
    <3> QED
      BY <2>2, <3>1
  <2> QED
    BY <1>0, <2>2, <2>3
<1>3. /\ a \o b \in Seq(S) /\ Len(a \o b) = Len(l) - 1
      /\ \A j \in 1 .. Len(l) - 1 : (a \o b)[j] = IF j <= i - 1 THEN a[j] ELSE b[j - (i - 1)]
  <2>1. Len(a) + Len(b) = Len(l) - 1
    BY <1>0, <1>1, <1>2
  <2>2. /\ a \o b \in Seq(S) /\ Len(a \o b) = Len(a) + Len(b)
        /\ \A j \in 1 .. Len(a) + Len(b) :
             (a \o b)[j] = IF j <= Len(a) THEN a[j] ELSE b[j - Len(a)]
    BY <1>1, <1>2, ConcatProperties
  <2> QED
    BY <1>1, <2>1, <2>2
<1>5. ASSUME NEW j \in 1 .. Len(l) - 1
      PROVE  (a \o b)[j] = IF j < i THEN l[j] ELSE l[j + 1]
  <2>1. CASE j < i
    <3>1. j \in 1 .. i - 1
      BY <1>0, <2>1
    <3> QED
      BY <1>0, <1>1, <1>3, <2>1, <3>1
  <2>2. CASE ~ j < i
    <3>1. j - (i - 1) \in 1 .. Len(l) - i /\ i + (j - (i - 1)) = j + 1
      BY <1>0, <2>2
    <3> QED
      BY <1>0, <1>2, <1>3, <2>2, <3>1
  <2> QED
    BY <2>1, <2>2
<1> QED
  BY <1>3, <1>4, <1>5

(* The uxevents, in the form the steps want: every place of the list has   *)
(* an uxevent of its own, for a socket of its own.                         *)
UxOK == UxTypeOK /\ OneEventPerSocket

LEMMA UxFacts ==
    ASSUME UxOK
    PROVE  /\ uxevents \in Seq(UxAddr) /\ Len(uxevents) \in Nat
           /\ DOMAIN uxevents = 1 .. Len(uxevents)
           /\ UxListed \subseteq UxAddr
           /\ \A a \in UxAddr : a \in UxListed <=> uxheap[a] # UxFree
           /\ \A a \in UxListed : uxheap[a] \in UxEvent
           /\ \A a, b \in UxListed : uxheap[a].ufd = uxheap[b].ufd => a = b
           /\ \A i, j \in DOMAIN uxevents : uxevents[i] = uxevents[j] => i = j
PROOF
<1>1. /\ uxevents \in Seq(UxAddr) /\ Len(uxevents) \in Nat
      /\ DOMAIN uxevents = 1 .. Len(uxevents)
      /\ UxListed \subseteq UxAddr
  BY LenProperties DEF UxOK, UxTypeOK, UxListed
<1>2. \A a \in UxAddr : a \in UxListed <=> uxheap[a] # UxFree
  BY DEF UxOK, OneEventPerSocket, UxListed
<1>3. \A a \in UxListed : uxheap[a] \in UxEvent
  BY <1>1, <1>2 DEF UxOK, UxTypeOK
<1>4. \A a, b \in UxListed : uxheap[a].ufd = uxheap[b].ufd => a = b
  BY DEF UxOK, OneEventPerSocket, UxListed
<1>5. \A i, j \in DOMAIN uxevents : uxevents[i] = uxevents[j] => i = j
  BY DEF UxOK, OneEventPerSocket
<1> QED
  BY <1>1, <1>2, <1>3, <1>4, <1>5

(* awe_uxscheduler_add of a socket that is not watched.                    *)
LEMMA UxAppendKeeps ==
    ASSUME UxOK, NEW a \in UxAddr, NEW ufd \in Ufds, NEW set \in SUBSET Masks,
           UxFind(ufd) = {}, UxAppend(a, ufd, set)
    PROVE  UxOK' /\ UxListed' = UxListed \cup {a}
PROOF
<1> DEFINE n == Len(uxevents)
<1>1. /\ uxheap[a] = UxFree /\ a \notin UxListed
      /\ uxheap' \in [UxAddr -> UxEvent \cup {UxFree}]
      /\ uxheap'[a] = [ufd |-> ufd, conditionSet |-> set] /\ uxheap'[a] \in UxEvent
      /\ \A b \in UxAddr \ {a} : uxheap'[b] = uxheap[b]
  BY UxFacts DEF UxAppend, UxOK, UxTypeOK, UxEvent
<1>2. /\ uxevents' \in Seq(UxAddr) /\ n \in Nat /\ DOMAIN uxevents' = 1 .. n + 1
      /\ uxevents'[n + 1] = a /\ \A i \in 1 .. n : uxevents'[i] = uxevents[i]
  <2>1. uxevents' = Append(uxevents, a) /\ uxevents \in Seq(UxAddr)
    BY UxFacts DEF UxAppend
  <2>2. /\ uxevents' \in Seq(UxAddr) /\ Len(uxevents') = n + 1
        /\ \A i \in 1 .. n : uxevents'[i] = uxevents[i]
        /\ uxevents'[n + 1] = a
    BY <2>1, AppendProperties
  <2> QED
    BY <2>1, <2>2, LenProperties
<1>3. DOMAIN uxevents = 1 .. n
  BY UxFacts
<1> HIDE DEF n
<1>4. UxListed' = UxListed \cup {a}
  <2>1. UxListed' = {uxevents'[i] : i \in 1 .. n + 1}
    BY <1>2 DEF UxListed
  <2>2. UxListed = {uxevents[i] : i \in 1 .. n}
    BY <1>3 DEF UxListed
  <2>3. \A i \in 1 .. n + 1 : i \in 1 .. n \/ i = n + 1
    BY <1>2
  <2>4. \A i \in 1 .. n : i \in 1 .. n + 1
    BY <1>2
  <2>5. n + 1 \in 1 .. n + 1
    BY <1>2
  <2> QED
    BY <1>2, <2>1, <2>2, <2>3, <2>4, <2>5
<1>5. \A b \in UxListed : uxheap'[b] = uxheap[b] /\ uxheap[b].ufd # ufd
  BY <1>1, UxFacts DEF UxFind
<1>6. OneEventPerSocket'
  <2>1. ASSUME NEW i \in 1 .. n + 1, NEW j \in 1 .. n + 1
        PROVE  /\ uxheap'[uxevents'[i]] # UxFree
               /\ uxheap'[uxevents'[i]].ufd = uxheap'[uxevents'[j]].ufd => i = j
    <3>0. \A k \in 1 .. n : uxevents'[k] = uxevents[k] /\ uxevents[k] \in UxListed
      BY <1>2, <1>3 DEF UxListed
    <3>1. CASE i \in 1 .. n /\ j \in 1 .. n
      <4>1. i \in DOMAIN uxevents /\ j \in DOMAIN uxevents
        BY <1>3, <3>1
      <4> QED
        BY <1>5, <3>0, <3>1, <4>1 DEF UxOK, OneEventPerSocket
    <3>2. CASE i = n + 1 /\ j \in 1 .. n
      BY <1>1, <1>2, <1>5, <3>0, <3>2, UxFreeIsNoEvent
    <3>3. CASE i \in 1 .. n /\ j = n + 1
      BY <1>1, <1>2, <1>5, <3>0, <3>3, UxFacts
    <3>4. CASE i = n + 1 /\ j = n + 1
      BY <1>1, <1>2, <3>4, UxFreeIsNoEvent
    <3> QED
      BY <1>2, <3>1, <3>2, <3>3, <3>4
  <2>2. \A b \in UxAddr : uxheap'[b] # UxFree => b \in UxListed'
    BY <1>1, <1>4, UxFacts
  <2> QED
    BY <1>2, <2>1, <2>2 DEF OneEventPerSocket
<1> QED
  BY <1>1, <1>2, <1>4, <1>6 DEF UxOK, UxTypeOK

(* A uxevent is watched for other conditions.                              *)
LEMMA UxWatchForKeeps ==
    ASSUME UxOK, NEW a \in UxListed, NEW set \in SUBSET Masks, UxWatchFor(a, set)
    PROVE  /\ UxOK' /\ UxListed' = UxListed
           /\ \A b \in UxListed : uxheap'[b].ufd = uxheap[b].ufd
PROOF
<1>1. a \in UxAddr /\ uxheap[a] \in UxEvent /\ uxevents' = uxevents
  BY UxFacts DEF UxWatchFor
<1>2. /\ uxheap' \in [UxAddr -> UxEvent \cup {UxFree}]
      /\ uxheap'[a] \in UxEvent /\ uxheap'[a].ufd = uxheap[a].ufd
      /\ \A b \in UxAddr \ {a} : uxheap'[b] = uxheap[b]
  BY <1>1 DEF UxWatchFor, UxOK, UxTypeOK, UxEvent
<1>3. UxListed' = UxListed
  BY <1>1 DEF UxListed
<1>4. \A b \in UxListed : uxheap'[b].ufd = uxheap[b].ufd /\ uxheap'[b] # UxFree
  BY <1>1, <1>2, UxFacts, UxFreeIsNoEvent
<1>5. \A i \in DOMAIN uxevents : uxevents[i] \in UxListed
  BY DEF UxListed
<1>6. OneEventPerSocket'
  <2>1. \A b \in UxAddr : uxheap'[b] # UxFree => b \in UxListed'
    BY <1>2, <1>3, UxFacts
  <2> QED
    BY <1>1, <1>4, <1>5, <2>1 DEF UxOK, OneEventPerSocket
<1> QED
  BY <1>1, <1>2, <1>3, <1>4, <1>6 DEF UxOK, UxTypeOK

(* awe_uxscheduler_rm: no other uxevent leaves the list, and this one is   *)
(* not left behind in it.                                                  *)
LEMMA UxRemoveKeeps ==
    ASSUME UxOK, NEW a \in UxListed, UxRemove(a)
    PROVE  /\ UxOK' /\ UxListed' = UxListed \ {a}
           /\ \A b \in UxListed \ {a} : uxheap'[b] = uxheap[b]
PROOF
<1> DEFINE n == Len(uxevents)
           i == UxPlace(a)
<1>1. i \in 1 .. n /\ uxevents[i] = a
  <2>1. \E k \in DOMAIN uxevents : uxevents[k] = a
    BY DEF UxListed
  <2> QED
    BY <2>1, UxFacts DEF UxPlace
<1>2. /\ n \in Nat /\ DOMAIN uxevents = 1 .. n
      /\ uxevents' \in Seq(UxAddr) /\ Len(uxevents') = n - 1
      /\ \A j \in 1 .. n - 1 : uxevents'[j] = IF j < i THEN uxevents[j] ELSE uxevents[j + 1]
  BY <1>1, UxFacts, WithoutUxIs DEF UxRemove
<1> HIDE DEF n, i
<1>3. DOMAIN uxevents' = 1 .. n - 1
  BY <1>2, LenProperties
<1>4. /\ a \in UxAddr /\ uxheap' \in [UxAddr -> UxEvent \cup {UxFree}]
      /\ uxheap'[a] = UxFree
      /\ \A b \in UxAddr \ {a} : uxheap'[b] = uxheap[b]
  BY UxFacts DEF UxRemove, UxOK, UxTypeOK
<1>5. ASSUME NEW j \in 1 .. n - 1
      PROVE  \E k \in 1 .. n : /\ k = (IF j < i THEN j ELSE j + 1) /\ k # i
                               /\ uxevents'[j] = uxevents[k]
  BY <1>1, <1>2
<1>6. UxListed' = UxListed \ {a}
  <2>1. ASSUME NEW j \in 1 .. n - 1 PROVE uxevents'[j] \in UxListed \ {a}
    <3>1. PICK k \in 1 .. n : k # i /\ uxevents'[j] = uxevents[k]
      BY <1>5
    <3>2. uxevents[k] # a
      BY <1>1, <1>2, <3>1, UxFacts
    <3> QED
      BY <1>2, <3>1, <3>2 DEF UxListed
  <2>2. ASSUME NEW b \in UxListed, b # a PROVE b \in UxListed'
    <3>1. PICK k \in 1 .. n : uxevents[k] = b
      BY <1>2 DEF UxListed
    <3>2. k # i
      BY <1>1, <2>2, <3>1
    <3>3. CASE k < i
      <4>1. k \in 1 .. n - 1 /\ uxevents'[k] = b
        BY <1>1, <1>2, <3>1, <3>3
      <4> QED
        BY <1>3, <4>1 DEF UxListed
    <3>4. CASE k > i
      <4>1. k - 1 \in 1 .. n - 1 /\ uxevents'[k - 1] = b
        BY <1>1, <1>2, <3>1, <3>4
      <4> QED
        BY <1>3, <4>1 DEF UxListed
    <3> QED
      BY <1>1, <1>2, <3>2, <3>3, <3>4
  <2>3. UxListed' = {uxevents'[j] : j \in 1 .. n - 1}
    BY <1>3 DEF UxListed
  <2> QED
    BY <2>1, <2>2, <2>3
<1>7. OneEventPerSocket'
  <2>1. ASSUME NEW j \in 1 .. n - 1, NEW k \in 1 .. n - 1
        PROVE  /\ uxheap'[uxevents'[j]] # UxFree
               /\ uxheap'[uxevents'[j]].ufd = uxheap'[uxevents'[k]].ufd => j = k
    <3>1. PICK l \in 1 .. n : /\ l = (IF j < i THEN j ELSE j + 1) /\ l # i
                              /\ uxevents'[j] = uxevents[l]
      BY <1>5
    <3>2. PICK m \in 1 .. n : /\ m = (IF k < i THEN k ELSE k + 1) /\ m # i
                              /\ uxevents'[k] = uxevents[m]
      BY <1>5
    <3>3. uxevents'[j] \in UxListed \ {a} /\ uxevents'[k] \in UxListed \ {a}
      BY <1>3, <1>6 DEF UxListed
    <3>4. uxheap'[uxevents[l]] = uxheap[uxevents[l]] /\ uxheap'[uxevents[m]] = uxheap[uxevents[m]]
      BY <1>4, <3>1, <3>2, <3>3, UxFacts
    <3>5. /\ uxheap[uxevents[l]] # UxFree
          /\ uxheap[uxevents[l]].ufd = uxheap[uxevents[m]].ufd => l = m
      BY <1>2 DEF UxOK, OneEventPerSocket
    <3>6. l = m => j = k
      BY <1>1, <1>2, <3>1, <3>2
    <3> QED
      BY <3>1, <3>2, <3>4, <3>5, <3>6
  <2>2. \A b \in UxAddr : uxheap'[b] # UxFree => b \in UxListed'
    BY <1>4, <1>6, UxFacts
  <2> QED
    BY <1>3, <2>1, <2>2 DEF OneEventPerSocket
<1> QED
  BY <1>2, <1>4, <1>6, <1>7, UxFacts DEF UxOK, UxTypeOK

(* awe_uxscheduler_clear.                                                  *)
LEMMA UxClearKeeps ==
    ASSUME UxOK, UxClear
    PROVE  UxOK' /\ UxListed' = {}
PROOF
<1>1. uxevents' = <<>> /\ DOMAIN uxevents' = {} /\ uxevents' \in Seq(UxAddr)
  BY DEF UxClear
<1>2. UxListed' = {}
  BY <1>1 DEF UxListed
<1>3. uxheap' \in [UxAddr -> UxEvent \cup {UxFree}] /\ \A b \in UxAddr : uxheap'[b] = UxFree
  BY UxFacts DEF UxClear, UxOK, UxTypeOK
<1> QED
  BY <1>1, <1>2, <1>3 DEF UxOK, UxTypeOK, OneEventPerSocket
-----------------------------------------------------------------------------
(* Every program: the steps that leave the lists and the tasks in hand.    *)
USE DEF Goto, Unlocked

(* The rest of Types.                                                      *)
RestTypes ==
    /\ ThreadTypeOK
    /\ mutex \in Threads \cup {NoThread}
    /\ waitset \subseteq Threads
    /\ started \in BOOLEAN
    /\ called \in [Workers -> Ufds \cup {NoUfd}]
    /\ now \in Int

(* The places t can move to without taking a task or a uxevent in hand,    *)
(* without giving it back, and without waiting for a removal.              *)
MayReach(t, label) ==
    /\ label # "rm"
    /\ t \in Clients => label \in ClientsPCs
    /\ t \in Workers =>
         /\ label \in WorkersPCs
         /\ first[t] # NULL <=>
              label \in {"run", "proc", "drop"} \/ (label \in CallPCs /\ uxe[t] = NoUxe)
         /\ label \in {"call", "event"} => uxe[t] # NoUxe
         /\ label \notin {"call", "event"} \cup CallPCs => uxe[t] = NoUxe

Carries ==
    /\ pc' \in [Threads -> AllPCs]
    /\ \A t \in Threads : pc'[t] = pc[t] \/ MayReach(t, pc'[t])

Same == UNCHANGED <<taskVars, uxVars, first, posted, uxe, have_rmopt>>

LEMMA ThreadsAre ==
    /\ \A t \in Threads : t \in Workers <=> t \notin Clients
    /\ \A w \in Workers : w \in Threads
    /\ \A c \in Clients : c \in Threads
PROOF
<1> QED
  BY ThreadsDistinct DEF Threads

LEMMA ListFacts ==
    ASSUME Inv
    PROVE  /\ TaskTypeOK /\ Distinct /\ ListedAreTasks /\ InDueOrder
           /\ posted \in Nat /\ StampedBelow(posted)
           /\ Listed \subseteq Addr
PROOF
<1>1. Listed \subseteq Addr
  BY LenProperties DEF Inv, Types, TaskTypeOK, Listed
<1>2. ListedAreTasks
  BY <1>1 DEF Inv, Types, TaskTypeOK, HeapOwnership, ListedAreTasks
<1> QED
  BY <1>1, <1>2 DEF Inv, Types, HeapOwnership

LEMMA InvUxOK ==
    ASSUME Inv
    PROVE  UxOK
PROOF
<1> QED
  BY DEF Inv, Types, UxOK

(* The parts of the invariant that are about the tasks.                    *)
TasksOK == TaskTypeOK /\ HeapOwnership /\ InDueOrder /\ StampedBelow(posted)

LEMMA TasksStay ==
    ASSUME Inv, UNCHANGED <<taskVars, first, posted>>
    PROVE  TasksOK'
PROOF
<1>1. Listed' = Listed /\ heap' = heap /\ first' = first /\ tasks' = tasks /\ posted' = posted
  BY DEF Listed, taskVars
<1> QED
  BY <1>1 DEF TasksOK, Inv, Types, TaskTypeOK, HeapOwnership, Distinct, InDueOrder, StampedBelow

LEMMA UxStays ==
    ASSUME Inv, UNCHANGED uxVars
    PROVE  UxOK'
PROOF
<1>1. UxListed' = UxListed /\ uxheap' = uxheap /\ uxevents' = uxevents
  BY DEF UxListed, uxVars
<1> QED
  BY <1>1 DEF Inv, Types, UxOK, UxTypeOK, OneEventPerSocket

LEMMA CarriesKeeps ==
    ASSUME Inv, Carries, UNCHANGED <<first, uxe>>
    PROVE  PcOK' /\ Hands'
PROOF
<1>1. ASSUME NEW w \in Workers
      PROVE  /\ pc'[w] \in WorkersPCs
             /\ first[w] # NULL <=> pc'[w] \in {"run", "proc", "drop"}
                                      \/ (pc'[w] \in CallPCs /\ uxe[w] = NoUxe)
             /\ pc'[w] \in {"call", "event"} => uxe[w] # NoUxe
             /\ pc'[w] \notin {"call", "event"} \cup CallPCs => uxe[w] = NoUxe
  <2>1. pc'[w] = pc[w] \/ MayReach(w, pc'[w])
    BY ThreadsAre DEF Carries
  <2> QED
    BY <2>1 DEF MayReach, Inv, Types, PcOK, Hands, TaskInHand
<1>2. \A c \in Clients : pc'[c] \in ClientsPCs
  BY ThreadsAre DEF Carries, MayReach, Inv, Types, PcOK
<1> QED
  BY <1>1, <1>2 DEF PcOK, Hands, TaskInHand

(* The waiting threads are as before, or wait for something else than a    *)
(* removal.                                                                *)
LEMMA NobodyForgotten ==
    ASSUME Inv, Carries, have_rmopt' = have_rmopt,
           \A t \in waitset' : t \in Threads /\ (t \in waitset \/ pc'[t] # "rm")
    PROVE  NoForgottenRemoval'
PROOF
<1> QED
  BY DEF Inv, Carries, MayReach, NoForgottenRemoval

LEMMA Frame ==
    ASSUME Inv, Same, Carries, RestTypes',
           \A t \in waitset' : t \in waitset \/ pc'[t] # "rm"
    PROVE  Inv'
PROOF
<1>1. TasksOK' /\ UxOK' /\ PcOK' /\ Hands'
  BY TasksStay, UxStays, CarriesKeeps DEF Same
<1>2. NoForgottenRemoval'
  BY NobodyForgotten DEF Same, RestTypes
<1>3. Types'
  BY <1>1 DEF Same, RestTypes, Carries, TasksOK, UxOK, Inv, Types
<1> QED
  BY <1>1, <1>2, <1>3 DEF Inv, TasksOK, UxOK

LEMMA Goes ==
    ASSUME Inv, NEW t \in Threads, NEW label, Goto(t, label), MayReach(t, label)
    PROVE  Carries
PROOF
<1>1. pc \in [Threads -> AllPCs]
  BY DEF Inv, Types
<1>2. label \in AllPCs
  BY ThreadsAre DEF MayReach, AllPCs, ClientsPCs, WorkersPCs, CallPCs, ClientPCs
<1> QED
  BY <1>1, <1>2 DEF Carries

LEMMA Stays ==
    ASSUME Inv, pc' = pc
    PROVE  Carries
PROOF
<1> QED
  BY DEF Carries, Inv, Types

(* Where a thread returns to from a call.                                  *)
LEMMA MayReturn ==
    ASSUME Inv, NEW t \in Threads, pc[t] \in CallPCs
    PROVE  MayReach(t, Resting(t))
PROOF
<1> QED
  BY ThreadsAre DEF Inv, Hands, TaskInHand, MayReach, Resting, CallPCs, WorkersPCs, ClientsPCs,
     WorkerPCs, ClientPCs

(* A thread may enter a call of the owner's, or go on in it.               *)
LEMMA MayCall ==
    ASSUME Inv, NEW t \in Threads, pc[t] = Resting(t) \/ pc[t] \in CallPCs,
           NEW label \in {"arm", "mark", "join"}
    PROVE  MayReach(t, label)
PROOF
<1> QED
  BY ThreadsAre DEF Inv, Hands, TaskInHand, MayReach, Resting, CallPCs, WorkersPCs, ClientsPCs,
     WorkerPCs, ClientPCs

LEMMA ClientMay ==
    ASSUME NEW t \in Clients, NEW label \in ClientsPCs, label # "rm"
    PROVE  MayReach(t, label)
PROOF
<1> QED
  BY ThreadsAre DEF MayReach

LEMMA OnlyClients ==
    ASSUME Inv, NEW t \in Threads,
           pc[t] \in {"destroy", "clear", "cleartasks", "dispose"}
    PROVE  t \in Clients
PROOF
<1> QED
  BY ThreadsAre DEF Inv, Types, PcOK, WorkersPCs, WorkerPCs, CallPCs

(* awe_uxscheduler_start, stop and destroy, but for the clearing; and the  *)
(* return of awe_uxscheduler_rm.                                           *)
LEMMA OwnerKeeps ==
    ASSUME Inv, NEW t \in Threads,
           \/ StartArm(t) \/ StartMark(t) \/ StopLock(t) \/ StopJoin(t)
           \/ Destroy(t) \/ DestroyStopped(t) \/ DestroyFree(t) \/ RmReturn(t)
    PROVE  Inv'
PROOF
<1>1. Same
  BY DEF StartArm, StartMark, StopLock, StopJoin, Destroy, DestroyStopped, DestroyFree,
     RmReturn, MoveOn, Abort, Same, sharedVars, schedVars, selectVars, clockVars, restVars
<1>2. RestTypes'
  <2>1. ThreadTypeOK'
    BY DEF StartArm, StartMark, StopLock, StopJoin, Destroy, DestroyStopped, DestroyFree,
       RmReturn, MoveOn, Abort, sharedVars, threadVars, ArmExitPending, MarkRunning,
       RequestExit, Inv, Types, ThreadTypeOK
  <2>2. mutex' \in Threads \cup {NoThread} /\ waitset' \subseteq Threads /\ started' \in BOOLEAN
    BY DEF StartArm, StartMark, StopLock, StopJoin, Destroy, DestroyStopped, DestroyFree,
       RmReturn, MoveOn, Abort, sharedVars, lockVars, schedVars, Signal, Inv, Types
  <2>3. called' = called /\ now' = now
    BY DEF StartArm, StartMark, StopLock, StopJoin, Destroy, DestroyStopped, DestroyFree,
       RmReturn, MoveOn, Abort, selectVars, clockVars, restVars
  <2> QED
    BY <2>1, <2>2, <2>3 DEF Inv, Types, RestTypes
<1>3. Carries
  <2>1. CASE StartArm(t)
    BY <2>1, MayCall, Goes DEF StartArm, CallPCs
  <2>2. CASE StartMark(t)
    BY <2>2, MayReturn, Goes DEF StartMark, CallPCs
  <2>3. CASE StopLock(t)
    <3>1. CASE t \in Owners /\ CanCall(t)
      BY <2>3, <3>1, MayCall, Goes DEF StopLock, CanCall
    <3>2. CASE pc[t] = "destroy"
      <4>1. t \in Clients
        BY <3>2, OnlyClients
      <4> QED
        BY <2>3, <4>1, ClientMay, Goes DEF StopLock, ClientsPCs
    <3> QED
      BY <2>3, <3>1, <3>2 DEF StopLock
  <2>4. CASE StopJoin(t)
    <3>1. CASE pc' = pc
      BY <3>1, Stays
    <3>2. CASE pc' # pc /\ t \in Clients /\ life = "destroying"
      BY <2>4, <3>2, ClientMay, Goes DEF StopJoin, ClientsPCs, ClientPCs
    <3>3. CASE pc' # pc /\ ~(t \in Clients /\ life = "destroying")
      <4>1. Goto(t, Resting(t)) /\ pc[t] \in CallPCs
        BY <2>4, <3>3 DEF StopJoin, CallPCs
      <4> QED
        BY <4>1, MayReturn, Goes
    <3> QED
      BY <3>1, <3>2, <3>3
  <2>5. CASE Destroy(t)
    BY <2>5, ClientMay, Goes DEF Destroy, ClientsPCs, ClientPCs
  <2>6. CASE DestroyStopped(t)
    <3>1. t \in Clients
      BY <2>6, OnlyClients DEF DestroyStopped, MoveOn
    <3> QED
      BY <2>6, <3>1, ClientMay, Goes DEF DestroyStopped, MoveOn, ClientsPCs, ClientPCs
  <2>7. CASE DestroyFree(t)
    <3>1. t \in Clients
      BY <2>7, OnlyClients DEF DestroyFree
    <3>2. CASE pc' = pc
      BY <3>2, Stays
    <3>3. CASE Goto(t, "idle")
      BY <3>1, <3>3, ClientMay, Goes DEF ClientsPCs, ClientPCs
    <3> QED
      BY <2>7, <3>2, <3>3 DEF DestroyFree, Abort
  <2>8. CASE RmReturn(t)
    BY <2>8, MayReturn, Goes DEF RmReturn, CallPCs
  <2> QED
    BY <2>1, <2>2, <2>3, <2>4, <2>5, <2>6, <2>7, <2>8
<1>4. \A u \in waitset' : u \in waitset \/ pc'[u] # "rm"
  BY DEF StartArm, StartMark, StopLock, StopJoin, Destroy, DestroyStopped, DestroyFree,
     RmReturn, MoveOn, Abort, sharedVars, lockVars, Signal
<1> QED
  BY <1>1, <1>2, <1>3, <1>4, Frame

(* A start moves two threads, unless it fails.                             *)
LEMMA StartLockKeeps ==
    ASSUME Inv, NEW t \in Threads, StartLock(t)
    PROVE  Inv'
PROOF
<1>1. CASE pc' = pc /\ UNCHANGED <<sharedVars, selectVars, removing, first, clockVars, life>>
  <2>1. Same /\ Carries
    BY <1>1, Stays DEF Same, sharedVars, schedVars, selectVars, clockVars
  <2>2. RestTypes' /\ waitset' = waitset
    BY <1>1 DEF Inv, Types, RestTypes, ThreadTypeOK, sharedVars, threadVars, lockVars,
       schedVars, selectVars, clockVars
  <2> QED
    BY <2>1, <2>2, Frame
<1>2. CASE ~(Abort("tid") \/ Abort("create"))
  <2>0. PICK w \in Workers, d \in DelaysMs :
          /\ pc[w] = "none"
          /\ Spawn(w)
          /\ started' = TRUE
          /\ delayMs' = IF d <= 60000 THEN d ELSE 1000
          /\ pc' = [pc EXCEPT ![t] = "arm", ![w] = "loop"]
          /\ mutex' = t
          /\ UNCHANGED <<waitset, taskVars, uxVars, have_rmopt, restVars>>
    BY <1>2 DEF StartLock
  <2>1. pc[t] = Resting(t) /\ t # w /\ w \in Threads
    BY <2>0, ThreadsAre DEF StartLock, CanCall, Resting
  <2>2. /\ pc'[t] = "arm" /\ pc'[w] = "loop" /\ \A u \in Threads \ {t, w} : pc'[u] = pc[u]
        /\ pc' \in [Threads -> AllPCs]
    BY <2>0, <2>1 DEF Inv, Types, AllPCs, WorkerPCs, ClientPCs
  <2>3. MayReach(t, "arm")
    BY <2>1, MayCall
  <2>4. MayReach(w, "loop")
    BY <2>0, ThreadsAre DEF MayReach, Inv, Hands, TaskInHand, WorkersPCs, WorkerPCs, CallPCs
  <2>5. Carries
    BY <2>2, <2>3, <2>4 DEF Carries
  <2>6. Same /\ RestTypes' /\ waitset' = waitset
    BY <2>0, ThreadsAre DEF Spawn, Inv, Types, RestTypes, ThreadTypeOK, Same, restVars,
       selectVars, clockVars
  <2> QED
    BY <2>5, <2>6, Frame
<1>3. Abort("tid") \/ Abort("create") => Inv'
  BY <1>1 DEF Abort
<1> QED
  BY <1>2, <1>3

(* Where a worker may go that has nothing in hand, and one with a task.    *)
LEMMA EmptyHanded ==
    ASSUME Inv, NEW w \in Workers,
           pc[w] \notin {"call", "event", "run", "proc", "drop"} \cup CallPCs,
           NEW label \in WorkerPCs \ {"call", "event", "run", "proc", "drop"}
    PROVE  MayReach(w, label)
PROOF
<1> QED
  BY ThreadsAre DEF Inv, Hands, TaskInHand, MayReach, WorkersPCs, WorkerPCs, CallPCs

LEMMA WithATask ==
    ASSUME Inv, NEW w \in Workers, pc[w] \in {"run", "proc"}, NEW label \in {"proc", "drop"}
    PROVE  MayReach(w, label)
PROOF
<1> QED
  BY ThreadsAre DEF Inv, Hands, TaskInHand, MayReach, WorkersPCs, WorkerPCs, CallPCs

LEMMA WithAnEvent ==
    ASSUME Inv, NEW w \in Workers, pc[w] = "call"
    PROVE  MayReach(w, "event")
PROOF
<1> QED
  BY ThreadsAre DEF Inv, Hands, TaskInHand, MayReach, WorkersPCs, WorkerPCs, CallPCs

(* The steps of a worker that leave the lists alone, up to the call of a   *)
(* handler.                                                                *)
LEMMA SelectingKeeps ==
    ASSUME Inv, NEW w \in Workers,
           \/ Loop(w) \/ LockWait(w) \/ CheckStarted(w) \/ Prepare(w)
           \/ SelectReady(w) \/ SelectTimesOut(w) \/ SelectFails(w) \/ Call(w)
    PROVE  Inv'
PROOF
<1>0. w \in Threads
  BY ThreadsAre
<1>1. Same
  BY DEF Loop, LockWait, CheckStarted, Prepare, SelectReady, SelectTimesOut, SelectFails,
     Call, MoveOn, Abort, Same, sharedVars, schedVars, selectVars, clockVars, restVars
<1>2. RestTypes'
  <2>1. UNCHANGED <<threadVars, mutex, started, now>>
    BY DEF Loop, LockWait, CheckStarted, Prepare, SelectReady, SelectTimesOut, SelectFails,
       Call, MoveOn, Abort, sharedVars, lockVars, schedVars, clockVars, restVars
  <2>2. waitset' \subseteq Threads
    BY <1>0 DEF Loop, LockWait, CheckStarted, Prepare, SelectReady, SelectTimesOut,
       SelectFails, Call, MoveOn, Abort, sharedVars, lockVars, Inv, Types
  <2>3. called' \in [Workers -> Ufds \cup {NoUfd}]
    <3>1. CASE Call(w)
      <4>1. CASE Abort("uaf")
        BY <4>1 DEF Abort, selectVars, Inv, Types
      <4>2. CASE ~Abort("uaf")
        <5>1. uxe[w] \in UxAddr
          BY <3>1 DEF Call, Inv, Types, Hands
        <5>2. uxheap[uxe[w]].ufd \in Ufds
          BY <3>1, <4>2, <5>1 DEF Call, Inv, Types, UxTypeOK, UxEvent
        <5> QED
          BY <3>1, <4>2, <5>2 DEF Call, Inv, Types
      <4> QED
        BY <4>1, <4>2
    <3>2. CASE ~Call(w)
      BY <3>2 DEF Loop, LockWait, CheckStarted, Prepare, SelectReady, SelectTimesOut,
         SelectFails, MoveOn, Abort, selectVars, restVars, Inv, Types
    <3> QED
      BY <3>1, <3>2
  <2> QED
    BY <2>1, <2>2, <2>3 DEF Inv, Types, RestTypes, ThreadTypeOK, threadVars
<1>3. Carries
  <2>1. CASE Loop(w)
    <3>1. \E label \in {"leave", "lock"} : pc[w] = "loop" /\ Goto(w, label)
      BY <2>1 DEF Loop, MoveOn
    <3> QED
      BY <1>0, <3>1, EmptyHanded, Goes DEF WorkerPCs, CallPCs
  <2>2. CASE LockWait(w)
    <3>1. pc' = pc \/ (pc[w] = "lock" /\ Goto(w, "check"))
      BY <2>2 DEF LockWait
    <3> QED
      BY <1>0, <3>1, EmptyHanded, Goes, Stays DEF WorkerPCs, CallPCs
  <2>3. CASE CheckStarted(w)
    <3>1. \E label \in {"prepare", "leave"} : pc[w] = "check" /\ Goto(w, label)
      BY <2>3 DEF CheckStarted, MoveOn
    <3> QED
      BY <1>0, <3>1, EmptyHanded, Goes DEF WorkerPCs, CallPCs
  <2>4. CASE Prepare(w)
    <3>1. \E label \in {"timer", "select"} : pc[w] = "prepare" /\ Goto(w, label)
      BY <2>4 DEF Prepare
    <3> QED
      BY <1>0, <3>1, EmptyHanded, Goes DEF WorkerPCs, CallPCs
  <2>5. CASE SelectReady(w)
    <3>1. pc[w] = "select" /\ Goto(w, "find")
      BY <2>5 DEF SelectReady
    <3> QED
      BY <1>0, <3>1, EmptyHanded, Goes DEF WorkerPCs, CallPCs
  <2>6. CASE SelectTimesOut(w)
    <3>1. pc[w] = "select" /\ Goto(w, "timer")
      BY <2>6 DEF SelectTimesOut
    <3> QED
      BY <1>0, <3>1, EmptyHanded, Goes DEF WorkerPCs, CallPCs
  <2>7. CASE SelectFails(w)
    BY <2>7, Stays DEF SelectFails, Abort
  <2>8. CASE Call(w)
    <3>1. pc' = pc \/ (pc[w] = "call" /\ Goto(w, "event"))
      BY <2>8 DEF Call, Abort
    <3> QED
      BY <1>0, <3>1, WithAnEvent, Goes, Stays
  <2> QED
    BY <2>1, <2>2, <2>3, <2>4, <2>5, <2>6, <2>7, <2>8
<1>4. \A u \in waitset' : u \in waitset \/ pc'[u] # "rm"
  <2>1. CASE LockWait(w) /\ pc' = pc
    <3>1. pc[w] = "lock" /\ waitset' \subseteq waitset \cup {w}
      BY <2>1 DEF LockWait
    <3> QED
      BY <2>1, <3>1
  <2>2. CASE ~(LockWait(w) /\ pc' = pc)
    <3>1. waitset' = waitset
      BY <2>2 DEF Loop, LockWait, CheckStarted, Prepare, SelectReady, SelectTimesOut,
         SelectFails, Call, MoveOn, Abort, sharedVars, lockVars
    <3> QED
      BY <3>1
  <2> QED
    BY <2>1, <2>2
<1> QED
  BY <1>1, <1>2, <1>3, <1>4, Frame

(* A task's callback, and the end of the worker.                           *)
LEMMA RunningKeeps ==
    ASSUME Inv, NEW w \in Workers,
           Run(w) \/ Return(w) \/ Leave(w) \/ Forget(w) \/ Pend(w) \/ Halt(w)
    PROVE  Inv'
PROOF
<1>0. w \in Threads
  BY ThreadsAre
<1>1. Same
  BY DEF Run, Return, Leave, Forget, Pend, Halt, MoveOn, Same, sharedVars, schedVars,
     selectVars, clockVars, restVars
<1>2. RestTypes'
  <2>1. ThreadTypeOK'
    BY DEF Run, Return, Leave, Forget, Pend, Halt, MoveOn, sharedVars, threadVars,
       ForgetTid, PendAtExit, ClearRunning, Inv, Types, ThreadTypeOK
  <2>2. /\ waitset' \subseteq waitset
        /\ UNCHANGED <<mutex, started, called, now>>
    BY DEF Run, Return, Leave, Forget, Pend, Halt, MoveOn, sharedVars, lockVars, Broadcast,
       schedVars, selectVars, clockVars, restVars
  <2> QED
    BY <2>1, <2>2 DEF Inv, Types, RestTypes
<1>3. Carries
  <2>1. CASE Run(w)
    <3>1. \E label \in {"proc", "drop"} : pc[w] = "run" /\ Goto(w, label)
      BY <2>1 DEF Run, MoveOn
    <3> QED
      BY <1>0, <3>1, WithATask, Goes
  <2>2. CASE Return(w)
    BY <1>0, <2>2, WithATask, Goes DEF Return, MoveOn
  <2>3. CASE Leave(w)
    BY <1>0, <2>3, EmptyHanded, Goes DEF Leave, WorkerPCs, CallPCs
  <2>4. CASE Forget(w)
    BY <1>0, <2>4, EmptyHanded, Goes DEF Forget, WorkerPCs, CallPCs
  <2>5. CASE Pend(w)
    BY <1>0, <2>5, EmptyHanded, Goes DEF Pend, WorkerPCs, CallPCs
  <2>6. CASE Halt(w)
    BY <1>0, <2>6, EmptyHanded, Goes DEF Halt, WorkerPCs, CallPCs
  <2> QED
    BY <2>1, <2>2, <2>3, <2>4, <2>5, <2>6
<1>4. \A u \in waitset' : u \in waitset
  BY DEF Run, Return, Leave, Forget, Pend, Halt, MoveOn, sharedVars, lockVars, Broadcast
<1> QED
  BY <1>1, <1>2, <1>3, <1>4, Frame

(* Wakeups, the clock, and steps of nobody.                                *)
LEMMA EnvironmentKeeps ==
    ASSUME Inv,
           \/ \E t \in Threads : Timeout(t) \/ Spurious(t)
           \/ Tick \/ UNCHANGED vars
    PROVE  Inv'
PROOF
<1>1. Same /\ pc' = pc /\ waitset' \subseteq waitset
      /\ UNCHANGED <<threadVars, mutex, started, called>>
  BY DEF Timeout, Spurious, Tick, vars, Same, sharedVars, lockVars, schedVars, selectVars,
     clockVars, restVars
<1>2. now' \in Int
  <2>1. now' \in {now, now + 1}
    BY DEF Timeout, Spurious, Tick, vars, clockVars, restVars
  <2> QED
    BY <2>1 DEF Inv, Types
<1>3. RestTypes'
  BY <1>1, <1>2 DEF Inv, Types, RestTypes, ThreadTypeOK, threadVars
<1> QED
  BY <1>1, <1>3, Stays, Frame
-----------------------------------------------------------------------------
(* Every program: the steps that change a list or what a worker has in     *)
(* hand.                                                                   *)

Hold ==
    /\ uxe \in [Workers -> UxAddr \cup {NoUxe}]
    /\ first \in [Workers -> Addr \cup {NULL}]
    /\ PcOK /\ Hands

LEMMA Whole ==
    ASSUME Inv, TasksOK', UxOK', RestTypes', Hold', NoForgottenRemoval',
           pc' \in [Threads -> AllPCs], have_rmopt' \in BOOLEAN, posted' \in Nat
    PROVE  Inv'
PROOF
<1> QED
  BY DEF Inv, Types, TasksOK, UxOK, RestTypes, Hold

LEMMA HoldStays ==
    ASSUME Inv, Carries, UNCHANGED <<first, uxe>>
    PROVE  Hold'
PROOF
<1> QED
  BY CarriesKeeps DEF Hold, Inv, Types

(* awe_uxscheduler_add, enable, disable.                                   *)
LEMMA SocketsKeep ==
    ASSUME Inv, NEW t \in Threads, NEW ufd \in Ufds, NEW set \in (SUBSET Masks) \ {{}},
           Add(t, ufd, set) \/ Enable(t, ufd, set) \/ Disable(t, ufd, set)
    PROVE  Inv'
PROOF
<1>1. UNCHANGED <<pc, taskVars, first, posted, uxe, have_rmopt, threadVars, mutex, started, called, now>>
      /\ waitset' \subseteq waitset
  BY DEF Add, Enable, Disable, Signal, lockVars, schedVars, selectVars, clockVars, restVars
<1>2. UxOK'
  <2>1. \A a \in UxFind(ufd) : a \in UxListed /\ uxheap[a].conditionSet \in SUBSET Masks
    BY InvUxOK, UxFacts DEF UxFind, UxEvent
  <2>2. CASE Add(t, ufd, set)
    <3>1. CASE UxFind(ufd) = {} /\ \E a \in UxAddr : UxAppend(a, ufd, set)
      BY <3>1, InvUxOK, UxAppendKeeps
    <3>2. CASE \E a \in UxFind(ufd) : UxWatchFor(a, set)
      BY <2>1, <3>2, InvUxOK, UxWatchForKeeps
    <3> QED
      BY <2>2, <3>1, <3>2 DEF Add
  <2>3. CASE Enable(t, ufd, set)
    <3>1. PICK a \in UxFind(ufd) : UxWatchFor(a, uxheap[a].conditionSet \cup set)
      BY <2>3 DEF Enable
    <3>2. uxheap[a].conditionSet \cup set \in SUBSET Masks
      BY <2>1
    <3> QED
      BY <2>1, <3>1, <3>2, InvUxOK, UxWatchForKeeps
  <2>4. CASE Disable(t, ufd, set)
    <3>1. PICK a \in UxFind(ufd) : UxWatchFor(a, uxheap[a].conditionSet \ set)
      BY <2>4 DEF Disable
    <3>2. uxheap[a].conditionSet \ set \in SUBSET Masks
      BY <2>1
    <3> QED
      BY <2>1, <3>1, <3>2, InvUxOK, UxWatchForKeeps
  <2> QED
    BY <2>2, <2>3, <2>4
<1>3. TasksOK' /\ Carries
  BY <1>1, TasksStay, Stays
<1>4. RestTypes' /\ have_rmopt' \in BOOLEAN /\ posted' \in Nat
  BY <1>1 DEF Inv, Types, RestTypes, ThreadTypeOK, threadVars
<1>5. NoForgottenRemoval'
  BY <1>1 DEF Inv, NoForgottenRemoval
<1> QED
  BY <1>1, <1>2, <1>3, <1>4, <1>5, HoldStays, Whole DEF Carries

(* awe_uxscheduler_rm: who waits for it has asked to be told.              *)
LEMMA RmKeeps ==
    ASSUME Inv, NEW t \in Threads, NEW ufd \in Ufds, Rm(t, ufd)
    PROVE  Inv'
PROOF
<1>1. /\ UNCHANGED <<taskVars, first, posted, uxe, threadVars, mutex, started, called, now>>
      /\ pc[t] = Resting(t)
  BY DEF Rm, CanCall, selectVars, clockVars
<1>2. UxOK'
  <2>1. PICK a \in UxFind(ufd) : UxRemove(a)
    BY DEF Rm
  <2> QED
    BY <2>1, InvUxOK, UxRemoveKeeps DEF UxFind
<1>3. \/ Goto(t, "rm") /\ have_rmopt' = TRUE /\ waitset' = waitset \cup {t}
      \/ UNCHANGED <<have_rmopt, waitset, pc>>
  BY DEF Rm
<1>4. TasksOK'
  BY <1>1, TasksStay
<1>5. RestTypes' /\ have_rmopt' \in BOOLEAN /\ posted' \in Nat
  BY <1>1, <1>3 DEF Inv, Types, RestTypes, ThreadTypeOK, threadVars
<1>6. CASE UNCHANGED <<have_rmopt, waitset, pc>>
  <2>1. Carries /\ NoForgottenRemoval'
    BY <1>6, Stays DEF Inv, NoForgottenRemoval
  <2> QED
    BY <1>1, <1>2, <1>4, <1>5, <2>1, HoldStays, Whole DEF Carries
<1>7. CASE Goto(t, "rm") /\ have_rmopt' = TRUE
  <2>1. /\ pc' \in [Threads -> AllPCs] /\ pc'[t] = "rm"
        /\ \A u \in Threads \ {t} : pc'[u] = pc[u]
    BY <1>7 DEF Inv, Types, AllPCs, ClientPCs
  <2>2. ASSUME NEW w \in Workers
        PROVE  /\ pc'[w] \in WorkersPCs
               /\ first[w] # NULL <=> pc'[w] \in {"run", "proc", "drop"}
                                        \/ (pc'[w] \in CallPCs /\ uxe[w] = NoUxe)
               /\ pc'[w] \in {"call", "event"} => uxe[w] # NoUxe
               /\ pc'[w] \notin {"call", "event"} \cup CallPCs => uxe[w] = NoUxe
    <3>1. CASE w = t
      BY <1>1, <2>1, <3>1, ThreadsAre
         DEF Inv, Hands, TaskInHand, Resting, WorkersPCs, CallPCs
    <3>2. CASE w # t
      BY <2>1, <3>2, ThreadsAre DEF Inv, Types, PcOK, Hands, TaskInHand
    <3> QED
      BY <3>1, <3>2
  <2>3. PcOK'
    BY <2>1, <2>2, ThreadsAre DEF Inv, Types, PcOK, ClientsPCs, ClientPCs
  <2>4. Hands'
    BY <1>1, <2>2 DEF Hands, TaskInHand
  <2>5. Hold' /\ NoForgottenRemoval'
    BY <1>1, <1>7, <2>3, <2>4 DEF Hold, Inv, Types, NoForgottenRemoval
  <2> QED
    BY <1>2, <1>4, <1>5, <2>1, <2>5, Whole
<1> QED
  BY <1>3, <1>6, <1>7

(* A ready socket is looked up; its handler has returned.                  *)
LEMMA HandlingKeeps ==
    ASSUME Inv, NEW w \in Workers, Find(w) \/ HandlerReturns(w)
    PROVE  Inv'
PROOF
<1>0. w \in Threads
  BY ThreadsAre
<1>1. UNCHANGED <<taskVars, uxVars, first, posted, have_rmopt, threadVars, lockVars, started, now>>
  BY DEF Find, HandlerReturns, sharedVars, schedVars, clockVars
<1>2. TasksOK' /\ UxOK'
  BY <1>1, TasksStay, UxStays
<1>3. RestTypes' /\ have_rmopt' \in BOOLEAN /\ posted' \in Nat
  <2>1. called' \in [Workers -> Ufds \cup {NoUfd}]
    BY DEF Find, HandlerReturns, Inv, Types
  <2> QED
    BY <1>1, <2>1 DEF Inv, Types, RestTypes, ThreadTypeOK, threadVars, lockVars
<1>4. \/ pc[w] = "find" /\ UNCHANGED <<pc, uxe>>
      \/ pc[w] = "find" /\ Goto(w, "timer") /\ UNCHANGED uxe
      \/ /\ pc[w] = "find" /\ Goto(w, "call")
         /\ \E a \in UxListed : uxe' = [uxe EXCEPT ![w] = a]
      \/ pc[w] = "event" /\ Goto(w, "find") /\ uxe' = [uxe EXCEPT ![w] = NoUxe]
  BY DEF Find, HandlerReturns, UxFind
<1>5. /\ pc' \in [Threads -> AllPCs] /\ \A u \in Threads \ {w} : pc'[u] = pc[u]
      /\ pc'[w] # "rm"
  BY <1>0, <1>4 DEF Inv, Types, AllPCs, WorkerPCs
<1>6. NoForgottenRemoval'
  BY <1>0, <1>1, <1>5 DEF Inv, Types, NoForgottenRemoval, lockVars
<1>7. Hold'
  <2>1. UxListed \subseteq UxAddr
    BY InvUxOK, UxFacts
  <2>2. uxe' \in [Workers -> UxAddr \cup {NoUxe}] /\ \A v \in Workers \ {w} : uxe'[v] = uxe[v]
    BY <1>4, <2>1 DEF Inv, Types
  <2>3. \/ pc'[w] = "call" /\ uxe'[w] # NoUxe
        \/ pc'[w] \in {"find", "timer"} /\ uxe'[w] = NoUxe
    BY <1>0, <1>4, <2>1, NoUxeIsNoAddress DEF Inv, Types, Hands, CallPCs
  <2>4. first[w] = NULL
    BY <1>4 DEF Inv, Hands, TaskInHand, CallPCs
  <2>5. PcOK'
    BY <1>5, <2>3, ThreadsAre DEF Inv, Types, PcOK, WorkersPCs, WorkerPCs
  <2>6. Hands'
    BY <1>1, <1>5, <2>2, <2>3, <2>4, ThreadsAre DEF Inv, Hands, TaskInHand, CallPCs
  <2> QED
    BY <1>1, <2>2, <2>5, <2>6 DEF Hold, Inv, Types
<1> QED
  BY <1>2, <1>3, <1>5, <1>6, <1>7, Whole

(* awe_uxscheduler_clear, in destroy.                                      *)
LEMMA DestroyClearKeeps ==
    ASSUME Inv, NEW t \in Threads, DestroyClear(t)
    PROVE  Inv'
PROOF
<1>1. /\ UNCHANGED <<taskVars, first, posted, uxe, have_rmopt, threadVars, lockVars, started, called, now>>
      /\ pc[t] = "clear" /\ Goto(t, "cleartasks") /\ UxClear
  BY DEF DestroyClear, restVars, schedVars, selectVars, clockVars
<1>2. UxOK' /\ TasksOK'
  BY <1>1, InvUxOK, UxClearKeeps, TasksStay
<1>3. Carries
  <2>1. t \in Clients
    BY <1>1, OnlyClients
  <2> QED
    BY <1>1, <2>1, ClientMay, Goes DEF ClientsPCs, ClientPCs
<1>4. RestTypes' /\ have_rmopt' \in BOOLEAN /\ posted' \in Nat
  BY <1>1 DEF Inv, Types, RestTypes, ThreadTypeOK, threadVars, lockVars
<1>5. NoForgottenRemoval'
  BY <1>1, <1>3, <1>4, NobodyForgotten DEF RestTypes, lockVars
<1> QED
  BY <1>1, <1>2, <1>3, <1>4, <1>5, HoldStays, Whole DEF Carries

(* A post lists a task at an address nobody owns.                          *)
LEMMA PostKeeps ==
    ASSUME Inv, NEW t \in Threads, NEW a \in Addr, NEW d \in Delays, Post(t, a, d)
    PROVE  Inv'
PROOF
<1>1. ListInsert(a, now + d, posted) /\ posted' = posted + 1
      /\ UNCHANGED <<pc, uxVars, first, uxe, have_rmopt, threadVars, mutex, started, called, now>>
      /\ waitset' \subseteq waitset
  BY DEF Post, Signal, schedVars, selectVars
<1>2. now + d \in Int
  BY NumbersAreNumbers DEF Inv, Types
<1>3. /\ TaskTypeOK' /\ Distinct' /\ ListedAreTasks' /\ InDueOrder'
      /\ \A b \in Listed' : heap'[b].stamp < posted + 1
      /\ Listed' = Listed \cup {a} /\ a \notin Listed
      /\ \A b \in Addr \ {a} : heap'[b] = heap[b]
      /\ heap'[a] \in TimerTask
  BY <1>1, <1>2, ListFacts, ListInsertKeeps
<1>4. heap[a] = Free
  BY <1>1 DEF ListInsert
<1>5. \A w \in Workers : first[w] # a /\ first[w] \in Addr \cup {NULL}
  BY <1>4 DEF Inv, HeapOwnership, Types
<1>6. HeapOwnership'
  <2>1. ASSUME NEW b \in Addr
        PROVE  heap'[b] # Free <=> b \in Listed' \/ \E w \in Workers : first'[w] = b
    <3>1. CASE b = a
      BY <1>3, <3>1, FreeIsNoTask
    <3>2. CASE b # a
      BY <1>1, <1>3, <3>2 DEF Inv, HeapOwnership
    <3> QED
      BY <3>1, <3>2
  <2>2. \A w \in Workers : first'[w] \notin Listed'
    BY <1>1, <1>3, <1>5 DEF Inv, HeapOwnership
  <2> QED
    BY <1>1, <1>3, <2>1, <2>2 DEF Inv, HeapOwnership
<1>7. TasksOK'
  BY <1>1, <1>3, <1>6 DEF TasksOK, StampedBelow
<1>8. UxOK' /\ Carries
  BY <1>1, UxStays, Stays
<1>9. RestTypes' /\ have_rmopt' \in BOOLEAN /\ posted' \in Nat
  BY <1>1 DEF Inv, Types, RestTypes, ThreadTypeOK, threadVars
<1>10. NoForgottenRemoval'
  BY <1>1 DEF Inv, NoForgottenRemoval
<1> QED
  BY <1>1, <1>7, <1>8, <1>9, <1>10, HoldStays, Whole DEF Carries

(* Cancelling marks a listed task, so none that a worker has in hand.      *)
LEMMA CancelKeeps ==
    ASSUME Inv, NEW t \in Threads, NEW id \in Addr, Cancel(t, id)
    PROVE  Inv'
PROOF
<1>1. ListCancel(id)
      /\ UNCHANGED <<pc, uxVars, first, posted, uxe, have_rmopt, threadVars, lockVars, started, called, now>>
  BY DEF Cancel, restVars, schedVars, selectVars, clockVars
<1>2. /\ TaskTypeOK' /\ Distinct' /\ InDueOrder'
      /\ StampedBelow(posted)' /\ Listed' = Listed
      /\ \A b \in Addr : heap'[b] = Free <=> heap[b] = Free
  BY <1>1, ListFacts, ListCancelKeeps
<1>3. TasksOK'
  BY <1>1, <1>2 DEF TasksOK, Inv, HeapOwnership
<1>4. UxOK' /\ Carries
  BY <1>1, UxStays, Stays
<1>5. RestTypes' /\ have_rmopt' \in BOOLEAN /\ posted' \in Nat
  BY <1>1 DEF Inv, Types, RestTypes, ThreadTypeOK, threadVars, lockVars
<1>6. NoForgottenRemoval'
  BY <1>1 DEF Inv, NoForgottenRemoval, lockVars
<1> QED
  BY <1>1, <1>3, <1>4, <1>5, <1>6, HoldStays, Whole DEF Carries

(* destroy frees the listed tasks, so none that a worker has in hand.      *)
LEMMA DestroyClearTasksKeeps ==
    ASSUME Inv, NEW t \in Threads, DestroyClearTasks(t)
    PROVE  Inv'
PROOF
<1>1. /\ UNCHANGED <<uxVars, first, posted, uxe, have_rmopt, threadVars, lockVars, started, called, now>>
      /\ pc[t] = "cleartasks" /\ Goto(t, "dispose") /\ ListClear
  BY DEF DestroyClearTasks, restVars, schedVars, selectVars, clockVars
<1>2. TasksOK'
  <2>1. /\ TaskTypeOK' /\ Distinct' /\ InDueOrder' /\ StampedBelow(posted)'
        /\ Listed' = {}
        /\ \A b \in Addr : heap'[b] = IF b \in Listed THEN Free ELSE heap[b]
    BY <1>1, ListFacts, ListClearKeeps
  <2>2. \A w \in Workers : first[w] # NULL => first[w] \in Addr \ Listed
    BY DEF Inv, HeapOwnership, Types
  <2>3. ASSUME NEW b \in Addr
        PROVE  heap'[b] # Free <=> b \in Listed' \/ \E w \in Workers : first'[w] = b
    BY <1>1, <2>1, <2>2 DEF Inv, HeapOwnership
  <2> QED
    BY <1>1, <2>1, <2>3 DEF TasksOK, Inv, HeapOwnership
<1>3. UxOK'
  BY <1>1, UxStays
<1>4. Carries
  <2>1. t \in Clients
    BY <1>1, OnlyClients
  <2> QED
    BY <1>1, <2>1, ClientMay, Goes DEF ClientsPCs, ClientPCs
<1>5. RestTypes' /\ have_rmopt' \in BOOLEAN /\ posted' \in Nat
  BY <1>1 DEF Inv, Types, RestTypes, ThreadTypeOK, threadVars, lockVars
<1>6. NoForgottenRemoval'
  BY <1>1, <1>4, <1>5, NobodyForgotten DEF RestTypes, lockVars
<1> QED
  BY <1>1, <1>2, <1>3, <1>4, <1>5, <1>6, HoldStays, Whole DEF Carries

(* Who sleeps until its removal is seen is told: the flag is reset only    *)
(* together with a broadcast.                                              *)
LEMMA TellingForgetsNobody ==
    ASSUME Inv, NEW w \in Workers, pc[w] = "timer", TellRemovers,
           NEW label \in {"run", "loop"}, Goto(w, label)
    PROVE  /\ NoForgottenRemoval'
           /\ waitset' \subseteq waitset /\ have_rmopt' \in BOOLEAN
           /\ pc' \in [Threads -> AllPCs]
PROOF
<1>1. have_rmopt' = FALSE /\ waitset' \subseteq waitset /\ (have_rmopt => waitset' = {})
  BY DEF TellRemovers, Broadcast
<1>2. /\ pc' \in [Threads -> AllPCs] /\ pc'[w] = label
      /\ \A u \in Threads \ {w} : pc'[u] = pc[u]
  BY ThreadsAre DEF Inv, Types, AllPCs, WorkerPCs
<1>3. waitset \subseteq Threads
  BY DEF Inv, Types
<1>4. \A t \in waitset' : pc'[t] # "rm"
  BY <1>1, <1>2, <1>3 DEF Inv, NoForgottenRemoval
<1> QED
  BY <1>1, <1>2, <1>4 DEF NoForgottenRemoval

(* A worker takes the first task: it is the worker's and not listed.       *)
LEMMA TakeTaskKeeps ==
    ASSUME Inv, NEW w \in Workers, TakeTask(w)
    PROVE  Inv'
PROOF
<1>0. w \in Threads
  BY ThreadsAre
<1>1. /\ UNCHANGED <<uxVars, posted, uxe, threadVars, mutex, started, called, now>>
      /\ pc[w] = "timer" /\ TellRemovers
  BY DEF TakeTask, selectVars, clockVars
<1>2. UxOK'
  BY <1>1, UxStays
<1>3. CASE Goto(w, "loop") /\ UNCHANGED <<taskVars, first>>
  <2>1. Carries
    BY <1>0, <1>1, <1>3, EmptyHanded, Goes DEF WorkerPCs, CallPCs
  <2>2. /\ NoForgottenRemoval' /\ waitset' \subseteq waitset /\ have_rmopt' \in BOOLEAN
        /\ pc' \in [Threads -> AllPCs]
    BY <1>1, <1>3, TellingForgetsNobody
  <2>3. RestTypes' /\ posted' \in Nat
    BY <1>1, <2>2 DEF Inv, Types, RestTypes, ThreadTypeOK, threadVars
  <2>4. TasksOK' /\ Hold'
    BY <1>1, <1>3, <2>1, TasksStay, HoldStays
  <2> QED
    BY <1>2, <2>2, <2>3, <2>4, Whole
<1>4. CASE /\ FirstIsDue /\ ListDelFirst /\ Goto(w, "run")
           /\ first' = [first EXCEPT ![w] = ListFirst]
  <2>1. /\ NoForgottenRemoval' /\ waitset' \subseteq waitset /\ have_rmopt' \in BOOLEAN
        /\ pc' \in [Threads -> AllPCs]
    BY <1>1, <1>4, TellingForgetsNobody
  <2>2. RestTypes' /\ posted' \in Nat
    BY <1>1, <2>1 DEF Inv, Types, RestTypes, ThreadTypeOK, threadVars
  <2>3. /\ TaskTypeOK' /\ Distinct' /\ InDueOrder' /\ StampedBelow(posted)'
        /\ ListFirst \in Listed /\ ListFirst \in Addr /\ ListFirst # NULL
        /\ Listed' = Listed \ {ListFirst} /\ heap' = heap
    BY <1>1, <1>4, ListFacts, ListDelFirstKeeps, NullIsNoAddress DEF FirstIsDue, ListDelFirst
  <2>4. /\ first' \in [Workers -> Addr \cup {NULL}] /\ first[w] = NULL
        /\ first'[w] = ListFirst
        /\ \A u \in Workers \ {w} : first'[u] = first[u]
    BY <1>1, <1>4, <2>3 DEF Inv, Types, Hands, TaskInHand, CallPCs
  <2>5. HeapOwnership'
    <3>1. ASSUME NEW b \in Addr
          PROVE  heap'[b] # Free <=> b \in Listed' \/ \E u \in Workers : first'[u] = b
      <4>1. CASE b = ListFirst
        BY <2>3, <2>4, <4>1 DEF Inv, HeapOwnership
      <4>2. CASE b # ListFirst
        <5>1. (\E u \in Workers : first'[u] = b) <=> \E u \in Workers : first[u] = b
          BY <2>4, <4>2, NullIsNoAddress
        <5> QED
          BY <2>3, <4>2, <5>1 DEF Inv, HeapOwnership
      <4> QED
        BY <4>1, <4>2
    <3>2. \A u \in Workers : first'[u] \notin Listed'
      BY <2>3, <2>4 DEF Inv, HeapOwnership
    <3>3. ASSUME NEW u \in Workers, NEW v \in Workers, first'[u] = first'[v], first'[u] # NULL
          PROVE  u = v
      BY <2>3, <2>4, <3>3 DEF Inv, HeapOwnership
    <3> QED
      BY <2>3, <3>1, <3>2, <3>3 DEF HeapOwnership
  <2>6. TasksOK'
    BY <2>3, <2>5 DEF TasksOK
  <2>7. pc'[w] = "run" /\ \A u \in Threads \ {w} : pc'[u] = pc[u]
    BY <1>0, <1>4 DEF Inv, Types
  <2>8. uxe[w] = NoUxe
    BY <1>1 DEF Inv, Hands, CallPCs
  <2>9. PcOK'
    BY <2>7, ThreadsAre DEF Inv, Types, PcOK, WorkersPCs, WorkerPCs
  <2>10. Hands'
    BY <1>1, <2>3, <2>4, <2>7, <2>8, ThreadsAre DEF Inv, Hands, TaskInHand, CallPCs
  <2>11. Hold'
    BY <1>1, <2>4, <2>9, <2>10 DEF Hold, Inv, Types
  <2> QED
    BY <1>2, <2>1, <2>2, <2>6, <2>11, Whole
<1> QED
  BY <1>3, <1>4 DEF TakeTask

(* A worker frees the task it has in hand.                                 *)
LEMMA DropKeeps ==
    ASSUME Inv, NEW w \in Workers, Drop(w)
    PROVE  Inv'
PROOF
<1>0. w \in Threads
  BY ThreadsAre
<1>1. /\ UNCHANGED <<uxVars, posted, uxe, have_rmopt, threadVars, lockVars, started, called, now>>
      /\ pc[w] = "drop" /\ Goto(w, "loop") /\ TaskDestroy(first[w])
      /\ first' = [first EXCEPT ![w] = NULL]
  BY DEF Drop, schedVars, selectVars, clockVars
<1>2. UxOK'
  BY <1>1, UxStays
<1>3. first[w] \in Addr \ Listed
  BY <1>1 DEF Inv, Types, Hands, TaskInHand, HeapOwnership
<1>4. /\ TaskTypeOK' /\ Distinct' /\ InDueOrder' /\ StampedBelow(posted)'
      /\ Listed' = Listed /\ heap'[first[w]] = Free
      /\ \A b \in Addr \ {first[w]} : heap'[b] = heap[b]
  BY <1>1, <1>3, ListFacts, TaskDestroyKeeps
<1>5. /\ first' \in [Workers -> Addr \cup {NULL}] /\ first'[w] = NULL
      /\ \A u \in Workers \ {w} : first'[u] = first[u] /\ first[u] # first[w]
  BY <1>1, <1>3, NullIsNoAddress DEF Inv, Types, HeapOwnership
<1>6. HeapOwnership'
  <2>1. ASSUME NEW b \in Addr
        PROVE  heap'[b] # Free <=> b \in Listed' \/ \E u \in Workers : first'[u] = b
    <3>1. CASE b = first[w]
      BY <1>3, <1>4, <1>5, <3>1, NullIsNoAddress
    <3>2. CASE b # first[w]
      <4>1. (\E u \in Workers : first'[u] = b) <=> \E u \in Workers : first[u] = b
        BY <1>5, <3>2, NullIsNoAddress
      <4> QED
        BY <1>4, <3>2, <4>1 DEF Inv, HeapOwnership
    <3> QED
      BY <3>1, <3>2
  <2>2. \A u \in Workers : first'[u] \notin Listed'
    BY <1>4, <1>5, NullIsNoAddress, ListFacts DEF Inv, HeapOwnership
  <2>3. ASSUME NEW u \in Workers, NEW v \in Workers, first'[u] = first'[v], first'[u] # NULL
        PROVE  u = v
    BY <1>5, <2>3 DEF Inv, HeapOwnership
  <2> QED
    BY <1>4, <2>1, <2>2, <2>3 DEF HeapOwnership
<1>7. TasksOK'
  BY <1>4, <1>6 DEF TasksOK
<1>8. /\ pc' \in [Threads -> AllPCs] /\ pc'[w] = "loop"
      /\ \A u \in Threads \ {w} : pc'[u] = pc[u]
  BY <1>0, <1>1 DEF Inv, Types, AllPCs, WorkerPCs
<1>9. PcOK'
  BY <1>8, ThreadsAre DEF Inv, Types, PcOK, WorkersPCs, WorkerPCs
<1>10. Hands'
  BY <1>1, <1>5, <1>8, ThreadsAre DEF Inv, Hands, TaskInHand, CallPCs
<1>11. Hold'
  BY <1>1, <1>5, <1>9, <1>10 DEF Hold, Inv, Types
<1>12. NoForgottenRemoval'
  BY <1>0, <1>1, <1>8 DEF Inv, Types, NoForgottenRemoval, lockVars
<1>13. RestTypes' /\ have_rmopt' \in BOOLEAN /\ posted' \in Nat
  BY <1>1 DEF Inv, Types, RestTypes, ThreadTypeOK, threadVars, lockVars
<1> QED
  BY <1>2, <1>7, <1>8, <1>11, <1>12, <1>13, Whole

LEMMA NextInv == Inv /\ [Next]_vars => Inv'
PROOF
<1> SUFFICES ASSUME Inv, [Next]_vars PROVE Inv'
  OBVIOUS
<1>1. ASSUME NEW t \in Threads, OwnerStep(t) PROVE Inv'
  BY <1>1, StartLockKeeps, OwnerKeeps, DestroyClearKeeps, DestroyClearTasksKeeps DEF OwnerStep
<1>2. ASSUME NEW t \in Threads, UserStep(t) PROVE Inv'
  BY <1>2, SocketsKeep, RmKeeps, OwnerKeeps, PostKeeps, CancelKeeps DEF UserStep
<1>3. ASSUME NEW w \in Workers, WorkerStep(w) PROVE Inv'
  BY <1>3, SelectingKeeps, RunningKeeps, HandlingKeeps, TakeTaskKeeps, DropKeeps DEF WorkerStep
<1> QED
  BY <1>1, <1>2, <1>3, EnvironmentKeeps DEF Next, Terminated

LEMMA InitInv == Init => Inv
PROOF
<1> SUFFICES ASSUME Init PROVE Inv
  OBVIOUS
<1>1. /\ tasks = <<>> /\ DOMAIN tasks = {} /\ tasks \in Seq(Addr) /\ Listed = {}
      /\ heap = [a \in Addr |-> Free]
  BY DEF Init, ListInit, Listed
<1>2. /\ uxevents = <<>> /\ DOMAIN uxevents = {} /\ uxevents \in Seq(UxAddr)
      /\ uxheap = [a \in UxAddr |-> UxFree]
  BY DEF Init, UxInit
<1>3. pc = [t \in Threads |-> IF t \in Workers THEN "none" ELSE "idle"]
  BY DEF Init
<1>4. Hold
  BY <1>3, ThreadsAre DEF Init, Hold, PcOK, Hands, TaskInHand, WorkersPCs, ClientsPCs,
     WorkerPCs, ClientPCs, CallPCs
<1>5. pc \in [Threads -> AllPCs]
  BY <1>3 DEF AllPCs, WorkerPCs, ClientPCs
<1>6. RestTypes /\ have_rmopt \in BOOLEAN /\ posted \in Nat /\ waitset = {}
  <2>1. ThreadTypeOK
    BY DEF Init, ThreadCreate, ThreadTypeOK
  <2>2. mutex = NoThread /\ waitset = {} /\ started = FALSE /\ have_rmopt = FALSE
    BY DEF Init, LockInit
  <2>3. called \in [Workers -> Ufds \cup {NoUfd}] /\ now \in Int /\ posted \in Nat
    BY DEF Init
  <2> QED
    BY <2>1, <2>2, <2>3 DEF RestTypes
<1>7. TasksOK
  BY <1>1, NullIsNoAddress DEF Init, TasksOK, TaskTypeOK, HeapOwnership, Distinct,
     InDueOrder, StampedBelow
<1>8. UxOK
  BY <1>2 DEF UxOK, UxTypeOK, OneEventPerSocket
<1> QED
  BY <1>4, <1>5, <1>6, <1>7, <1>8
     DEF Inv, Types, Hold, RestTypes, TasksOK, UxOK, NoForgottenRemoval

LEMMA SpecInv == Spec => []Inv
PROOF
<1> QED
  BY InitInv, NextInv, PTL DEF Spec
-----------------------------------------------------------------------------
(* What OnlyIn leaves of a sequence.                                       *)

(* A set of numbers has a least one.                                       *)
LEMMA SmallestNumber ==
    ASSUME NEW T \in SUBSET Nat, T # {}
    PROVE  \E x \in T : \A y \in T : x <= y
PROOF
<1>1. IsWellFoundedOn(OpToRel(<, Nat), Nat)
  BY NatLessThanWellFounded
<1>2. PICK x \in T : \A y \in T : ~ (<<y, x>> \in OpToRel(<, Nat))
  BY <1>1, WFMin
<1>3. \A y \in T : ~ (y < x)
  BY <1>2 DEF OpToRel
<1> QED
  BY <1>3

(* What OnlyIn computes, step by step, are the values of a function.       *)
Picks(f, s, S, n) ==
    f = [k \in 0 .. n |-> IF k = 0 THEN <<>>
                          ELSE IF s[k] \in S THEN Append(f[k - 1], s[k]) ELSE f[k - 1]]

LEMMA PicksExist ==
    ASSUME NEW s, NEW S, NEW n \in Nat
    PROVE  \E f : Picks(f, s, S, n)
PROOF
<1> DEFINE Then(x, k) == IF s[k] \in S THEN Append(x, s[k]) ELSE x
           Bad == {m \in Nat : ~ \E f : Picks(f, s, S, m)}
<1>0. \A f, m : Picks(f, s, S, m) <=>
                f = [k \in 0 .. m |-> IF k = 0 THEN <<>> ELSE Then(f[k - 1], k)]
  BY DEF Picks
<1> HIDE DEF Then
<1>1. SUFFICES ASSUME Bad # {} PROVE FALSE
  OBVIOUS
<1>2. PICK m \in Bad : \A y \in Bad : m <= y
  BY <1>1, SmallestNumber
<1>3. m \in Nat /\ ~ \E f : Picks(f, s, S, m)
  OBVIOUS
<1>4. CASE m = 0
  <2> DEFINE f == [k \in 0 .. 0 |-> <<>>]
  <2>1. f = [k \in 0 .. 0 |-> IF k = 0 THEN <<>> ELSE Then(f[k - 1], k)]
    OBVIOUS
  <2>2. Picks(f, s, S, 0)
    BY <1>0, <2>1
  <2> QED
    BY <1>3, <1>4, <2>2
<1>5. CASE m # 0
  <2>1. m - 1 \in Nat /\ m - 1 \notin Bad
    BY <1>2, <1>3, <1>5
  <2>2. PICK f : Picks(f, s, S, m - 1)
    BY <2>1
  <2> DEFINE g == [k \in 0 .. m |-> IF k = 0 THEN <<>> ELSE Then(f[k - 1], k)]
  <2>3. f = [k \in 0 .. m - 1 |-> IF k = 0 THEN <<>> ELSE Then(f[k - 1], k)]
    BY <1>0, <2>2
  <2>4. \A k \in 0 .. m - 1 : g[k] = f[k]
    BY <2>3, <1>3, <1>5
  <2>5. \A k \in 0 .. m : k # 0 => k - 1 \in 0 .. m - 1
    BY <1>3
  <2>6. \A k \in 0 .. m : k # 0 => g[k - 1] = f[k - 1]
    BY <2>4, <2>5
  <2> HIDE DEF g
  <2>7. [k \in 0 .. m |-> IF k = 0 THEN <<>> ELSE Then(f[k - 1], k)]
          = [k \in 0 .. m |-> IF k = 0 THEN <<>> ELSE Then(g[k - 1], k)]
    BY <2>6
  <2>8. g = [k \in 0 .. m |-> IF k = 0 THEN <<>> ELSE Then(g[k - 1], k)]
    BY <2>7 DEF g
  <2>9. Picks(g, s, S, m)
    BY <1>0, <2>8
  <2> QED
    BY <1>3, <2>9
<1> QED
  BY <1>4, <1>5

(* Only elements of the set are left, and they are elements of the         *)
(* sequence.                                                               *)
LEMMA OnlyInIs ==
    ASSUME NEW T, NEW s \in Seq(T), NEW S
    PROVE  OnlyIn(s, S) \in Seq(T \cap S)
PROOF
<1> DEFINE n == Len(s)
           f == CHOOSE g : Picks(g, s, S, n)
<1>1. n \in Nat
  OBVIOUS
<1>2. OnlyIn(s, S) = f[n]
  BY DEF OnlyIn, Picks
<1>3. Picks(f, s, S, n)
  BY <1>1, PicksExist
<1> HIDE DEF f, n
<1>4. \A k \in 0 .. n : f[k] = IF k = 0 THEN <<>>
                               ELSE IF s[k] \in S THEN Append(f[k - 1], s[k]) ELSE f[k - 1]
  BY <1>3, Zenon DEF Picks
<1>5. \A k \in 1 .. n : s[k] \in T
  BY DEF n
<1> DEFINE Bad == {k \in 0 .. n : f[k] \notin Seq(T \cap S)}
<1>6. SUFFICES ASSUME Bad # {} PROVE FALSE
  BY <1>1, <1>2
<1>7. PICK m \in Bad : \A y \in Bad : m <= y
  <2>1. Bad \in SUBSET Nat
    BY <1>1
  <2> HIDE DEF Bad
  <2> QED
    BY <1>6, <2>1, SmallestNumber
<1>8. m \in 0 .. n /\ f[m] \notin Seq(T \cap S)
  OBVIOUS
<1>9. m # 0
  <2>1. f[0] = <<>> /\ <<>> \in Seq(T \cap S)
    BY <1>1, <1>4
  <2> QED
    BY <1>8, <2>1
<1>10. m \in 1 .. n /\ m - 1 \in 0 .. n /\ ~ (m <= m - 1)
  BY <1>1, <1>8, <1>9
<1>11. f[m - 1] \in Seq(T \cap S)
  BY <1>7, <1>10
<1>12. f[m] = IF s[m] \in S THEN Append(f[m - 1], s[m]) ELSE f[m - 1]
  BY <1>4, <1>9, <1>10
<1>13. s[m] \in S => Append(f[m - 1], s[m]) \in Seq(T \cap S)
  BY <1>5, <1>10, <1>11, AppendProperties
<1> QED
  BY <1>8, <1>11, <1>12, <1>13
-----------------------------------------------------------------------------
(* The rest of TypeOK, on top of Inv; a worker has a uxevent in hand only  *)
(* for a socket that it still has to deal with.                            *)
MoreTypes ==
    /\ delayMs \in Int
    /\ watched \in [Workers -> Seq(Interest)]
    /\ \A w \in Workers : uxe[w] # NoUxe => watched[w] # <<>>
    /\ forever \in [Workers -> BOOLEAN]
    /\ removing \in [Threads -> Ufds \cup {NoUfd}]
    /\ life \in {"live", "destroying", "freed"}
    /\ fault \in {"none", "tid", "create", "select", "uaf"}

moreVars == <<delayMs, watched, forever, uxe, removing, life, fault>>

(* The listed sockets that are watched for something.                      *)
LEMMA InterestIsTyped ==
    ASSUME Inv, NEW m \in Masks
    PROVE  InterestIn(m) \in Seq(Interest)
PROOF
<1> DEFINE S == {a \in UxListed : m \in uxheap[a].conditionSet}
           wanting == OnlyIn(uxevents, S)
<1>1. uxevents \in Seq(UxAddr)
  BY DEF Inv, Types, UxTypeOK
<1>2. wanting \in Seq(UxAddr \cap S)
  <2> HIDE DEF S
  <2> QED
    BY <1>1, OnlyInIs
<1>3. \A a \in UxAddr \cap S : uxheap[a].ufd \in Ufds
  <2> SUFFICES ASSUME NEW a \in UxAddr, a \in UxListed PROVE uxheap[a].ufd \in Ufds
    OBVIOUS
  <2>1. uxheap[a] # UxFree /\ uxheap[a] \in UxEvent \cup {UxFree}
    BY <1>1 DEF Inv, OneEventPerSocket, UxListed, Types, UxTypeOK
  <2> QED
    BY <2>1 DEF UxEvent
<1>4. InterestIn(m) = [i \in DOMAIN wanting |-> [ufd |-> uxheap[wanting[i]].ufd, mask |-> m]]
  BY DEF InterestIn
<1> HIDE DEF wanting, S
<1>5. DOMAIN wanting = 1 .. Len(wanting) /\ Len(wanting) \in Nat
      /\ \A i \in 1 .. Len(wanting) : wanting[i] \in UxAddr \cap S
  BY <1>2
<1>6. \A i \in 1 .. Len(wanting) : [ufd |-> uxheap[wanting[i]].ufd, mask |-> m] \in Interest
  BY <1>3, <1>5 DEF Interest
<1> QED
  BY <1>4, <1>5, <1>6

LEMMA SelectingTyped ==
    ASSUME Inv, MoreTypes, NEW w \in Workers,
           \/ Prepare(w) \/ SelectReady(w) \/ SelectTimesOut(w) \/ SelectFails(w)
           \/ Find(w) \/ Call(w) \/ HandlerReturns(w)
    PROVE  MoreTypes'
PROOF
<1>0. /\ watched \in [Workers -> Seq(Interest)] /\ forever \in [Workers -> BOOLEAN]
      /\ uxe \in [Workers -> UxAddr \cup {NoUxe}]
      /\ fault \in {"none", "tid", "create", "select", "uaf"}
      /\ \A v \in Workers : uxe[v] # NoUxe => watched[v] # <<>>
  BY DEF MoreTypes, Inv, Types
<1>1. UNCHANGED <<delayMs, removing, life>>
  BY DEF Prepare, SelectReady, SelectTimesOut, SelectFails, Find, Call, HandlerReturns,
     Abort, sharedVars, schedVars
<1>2. fault' \in {"none", "tid", "create", "select", "uaf"}
  BY <1>0 DEF Prepare, SelectReady, SelectTimesOut, SelectFails, Find, Call, HandlerReturns, Abort
<1>3. pc[w] \in {"prepare", "select", "find"} => uxe[w] = NoUxe
  BY DEF Inv, Hands, CallPCs
<1>4. forever' \in [Workers -> BOOLEAN]
  BY <1>0 DEF Prepare, SelectReady, SelectTimesOut, SelectFails, Find, Call, HandlerReturns,
     Abort, selectVars
<1>5. /\ watched' \in [Workers -> Seq(Interest)]
      /\ \A v \in Workers : uxe'[v] # NoUxe => watched'[v] # <<>>
  <2>1. CASE Prepare(w)
    <3> DEFINE q == InterestIn("read") \o InterestIn("write")
    <3>1. q \in Seq(Interest)
      BY InterestIsTyped, ConcatProperties DEF Masks
    <3>2. watched' = [watched EXCEPT ![w] = q] /\ uxe' = uxe /\ uxe[w] = NoUxe
      BY <1>3, <2>1 DEF Prepare
    <3> HIDE DEF q
    <3> QED
      BY <1>0, <3>1, <3>2
  <2>2. CASE SelectReady(w)
    <3>1. PICK ready : watched' = [watched EXCEPT ![w] = OnlyIn(watched[w], ready)]
      BY <1>0, <2>2 DEF SelectReady
    <3>2. OnlyIn(watched[w], ready) \in Seq(Interest)
      <4>1. OnlyIn(watched[w], ready) \in Seq(Interest \cap ready)
        BY <1>0, OnlyInIs
      <4> DEFINE q == OnlyIn(watched[w], ready)
      <4> HIDE DEF q
      <4> QED
        BY <4>1 DEF q
    <3>3. uxe' = uxe /\ uxe[w] = NoUxe
      BY <1>3, <2>2 DEF SelectReady
    <3> QED
      BY <1>0, <3>1, <3>2, <3>3
  <2>3. CASE SelectTimesOut(w)
    <3>1. watched' = [watched EXCEPT ![w] = <<>>] /\ uxe' = uxe /\ uxe[w] = NoUxe
      BY <1>3, <2>3 DEF SelectTimesOut
    <3> QED
      BY <1>0, <3>1
  <2>4. CASE SelectFails(w) \/ Call(w)
    <3>1. UNCHANGED <<watched, uxe>>
      BY <2>4 DEF SelectFails, Call, Abort, selectVars
    <3> QED
      BY <1>0, <3>1
  <2>5. CASE Find(w)
    <3>1. CASE UNCHANGED <<watched, uxe>>
      BY <1>0, <3>1
    <3>2. CASE watched[w] # <<>> /\ watched' = [watched EXCEPT ![w] = Tail(watched[w])] /\ uxe' = uxe
      <4>1. Tail(watched[w]) \in Seq(Interest) /\ uxe[w] = NoUxe
        BY <1>0, <1>3, <2>5, <3>2, HeadTailProperties DEF Find
      <4> QED
        BY <1>0, <3>2, <4>1
    <3>3. CASE watched[w] # <<>> /\ watched' = watched /\ \E a : uxe' = [uxe EXCEPT ![w] = a]
      BY <1>0, <3>3
    <3> QED
      BY <1>0, <2>5, <3>1, <3>2, <3>3 DEF Find
  <2>6. CASE HandlerReturns(w)
    <3>1. /\ watched' = [watched EXCEPT ![w] = Tail(watched[w])]
          /\ uxe' = [uxe EXCEPT ![w] = NoUxe] /\ pc[w] = "event"
      BY <1>0, <2>6 DEF HandlerReturns
    <3>2. watched[w] # <<>>
      BY <1>0, <3>1 DEF Inv, Hands
    <3>3. Tail(watched[w]) \in Seq(Interest)
      BY <1>0, <3>2, HeadTailProperties
    <3> QED
      BY <1>0, <3>1, <3>3
  <2> QED
    BY <2>1, <2>2, <2>3, <2>4, <2>5, <2>6
<1> QED
  BY <1>1, <1>2, <1>4, <1>5 DEF MoreTypes

LEMMA OthersTyped ==
    ASSUME Inv, MoreTypes, NEW t \in Threads,
           OwnerStep(t) \/ UserStep(t) \/ Timeout(t) \/ Spurious(t)
    PROVE  MoreTypes'
PROOF
<1>1. CASE UNCHANGED moreVars
  BY <1>1 DEF MoreTypes, moreVars
<1>2. CASE StartLock(t)
  <2>1. UNCHANGED <<watched, forever, uxe, removing, life>>
    BY <1>2 DEF StartLock, Abort, restVars, selectVars
  <2>2. delayMs' \in Int
    BY <1>2, NumbersAreNumbers DEF StartLock, Abort, sharedVars, schedVars, MoreTypes
  <2>3. fault' \in {fault, "tid", "create"}
    BY <1>2 DEF StartLock, Abort, restVars
  <2> QED
    BY <2>1, <2>2, <2>3 DEF MoreTypes
<1>3. CASE Destroy(t) \/ DestroyFree(t)
  <2>1. UNCHANGED <<delayMs, watched, forever, uxe, removing>>
    BY <1>3 DEF Destroy, DestroyFree, Abort, sharedVars, schedVars, selectVars
  <2>2. life' \in {life, "destroying", "freed"} /\ fault' \in {fault, "uaf"}
    BY <1>3 DEF Destroy, DestroyFree, Abort
  <2> QED
    BY <2>1, <2>2 DEF MoreTypes
<1>4. CASE RmReturn(t) \/ \E ufd \in Ufds : Rm(t, ufd)
  <2>1. UNCHANGED <<delayMs, watched, forever, uxe, life, fault>>
    BY <1>4 DEF Rm, RmReturn, sharedVars, schedVars, selectVars
  <2>2. removing' \in [Threads -> Ufds \cup {NoUfd}]
    BY <1>4 DEF Rm, RmReturn, MoreTypes
  <2> QED
    BY <2>1, <2>2 DEF MoreTypes
<1>5. ASSUME NEW ufd \in Ufds, NEW set \in (SUBSET Masks) \ {{}},
             Add(t, ufd, set) \/ Enable(t, ufd, set) \/ Disable(t, ufd, set)
      PROVE  UNCHANGED moreVars
  BY <1>5 DEF Add, Enable, Disable, schedVars, restVars, selectVars, moreVars
<1>6. ASSUME NEW a, NEW d, Post(t, a, d) PROVE UNCHANGED moreVars
  BY <1>6 DEF Post, schedVars, selectVars, moreVars
<1>7. ASSUME NEW id, Cancel(t, id) PROVE UNCHANGED moreVars
  BY <1>7 DEF Cancel, schedVars, restVars, selectVars, moreVars
<1>8. ASSUME StartArm(t) \/ StartMark(t) \/ StopLock(t) \/ StopJoin(t) \/ DestroyStopped(t)
               \/ DestroyClear(t) \/ DestroyClearTasks(t) \/ Timeout(t) \/ Spurious(t)
      PROVE  UNCHANGED moreVars
  BY <1>8 DEF StartArm, StartMark, StopLock, StopJoin, DestroyStopped, MoveOn, DestroyClear,
     DestroyClearTasks, Timeout, Spurious, sharedVars, schedVars, restVars, selectVars, moreVars
<1> QED
  BY <1>1, <1>2, <1>3, <1>4, <1>5, <1>6, <1>7, <1>8 DEF OwnerStep, UserStep

LEMMA NextTyped == Inv /\ MoreTypes /\ [Next]_vars => MoreTypes'
PROOF
<1> SUFFICES ASSUME Inv, MoreTypes, [Next]_vars PROVE MoreTypes'
  OBVIOUS
<1>1. CASE UNCHANGED moreVars
  BY <1>1 DEF MoreTypes, moreVars
<1>2. ASSUME NEW w \in Workers,
             \/ Loop(w) \/ LockWait(w) \/ CheckStarted(w)
             \/ TakeTask(w) \/ Run(w) \/ Return(w) \/ Drop(w)
             \/ Leave(w) \/ Forget(w) \/ Pend(w) \/ Halt(w)
      PROVE  UNCHANGED moreVars
  BY <1>2 DEF Loop, LockWait, CheckStarted, TakeTask, TellRemovers, Run, Return, Drop, Leave,
     Forget, Pend, Halt, MoveOn, sharedVars, schedVars, restVars, selectVars, moreVars
<1>3. ASSUME NEW w \in Workers, WorkerStep(w) PROVE MoreTypes'
  BY <1>1, <1>2, <1>3, SelectingTyped DEF WorkerStep
<1>4. CASE Tick \/ UNCHANGED vars
  BY <1>1, <1>4 DEF Tick, vars, sharedVars, schedVars, restVars, selectVars, moreVars
<1> QED
  BY <1>3, <1>4, OthersTyped DEF Next, Terminated

LEMMA InitTyped == Init => MoreTypes
PROOF
<1> QED
  BY DEF Init, MoreTypes

LEMMA TypesAreAll == Inv /\ MoreTypes => TypeOK
PROOF
<1> QED
  BY DEF Inv, Types, MoreTypes, TypeOK, AllPCs
-----------------------------------------------------------------------------
(* What every program can rely on.                                         *)

(* Whoever calls what: every thread is at a place of the code, what a      *)
(* worker has selected are pairs of a descriptor and a mask, and what it   *)
(* holds of tasks, uxevents and descriptors are addresses and descriptors  *)
(* that there can be, or none (src/uxscheduler.c:60-213).                  *)
THEOREM UxSchedulerTypes == Spec => []TypeOK
PROOF
<1>1. Init => MoreTypes
  BY InitTyped
<1>2. Inv /\ MoreTypes /\ [Next]_vars => MoreTypes'
  BY NextTyped
<1>3. Inv /\ MoreTypes => TypeOK
  BY TypesAreAll
<1> HIDE DEF Inv, MoreTypes, TypeOK
<1> QED
  BY <1>1, <1>2, <1>3, SpecInv, PTL DEF Spec

(* awe_uxscheduler_rm: a thread that sleeps until the worker has seen its  *)
(* removal is not forgotten: the worker knows that it has to broadcast.    *)
THEOREM RemovalsAreRemembered == Spec => []NoForgottenRemoval
PROOF
<1>1. Inv => NoForgottenRemoval
  BY DEF Inv
<1> QED
  BY <1>1, SpecInv, PTL

(* Whatever handlers and other threads add and remove, and in whatever     *)
(* order: every uxevent that was allocated is listed, once, and no socket  *)
(* is watched twice; and every task has one owner, the list or a worker.   *)
THEOREM NothingLeaks == Spec => [](OneEventPerSocket /\ HeapOwnership)
PROOF
<1>1. Inv => OneEventPerSocket /\ HeapOwnership
  BY DEF Inv
<1> QED
  BY <1>1, SpecInv, PTL
-----------------------------------------------------------------------------
(* One client owns the uxscheduler, and the worker removes sockets.        *)
OneOwner(o) == o \in Clients /\ Owners = {o} /\ Removers \subseteq Workers

Starting(o) == pc[o] \in {"arm", "mark"}
Alive(w) == pc[w] # "none"

(* Only the owner is ever inside start, stop or destroy, and nobody waits  *)
(* for a removal.                                                          *)
OneCaller(o) ==
    /\ \A t \in Threads \ {o} :
         pc[t] \notin CallPCs \cup {"destroy", "clear", "cleartasks", "dispose"}
    /\ pc[o] # "rm"

Sections(o) ==
    /\ mutex \in {o, NoThread}
    /\ mutex = o <=> Starting(o)

(* Who waits on the condition: stop, for the worker, and the worker.       *)
Waiters(o) ==
    \A t \in waitset :
        \/ t = o /\ pc[o] = "join"
        \/ t \in Workers /\ pc[t] = "lock"

(* The handle names the one worker until it has cleared _tid, and stop     *)
(* finds _running set as long as there is a worker.                        *)
HandleIsTrue(o) ==
    /\ \A v, w \in Workers : Alive(v) /\ Alive(w) => v = w
    /\ \A w \in Workers : tid = w <=> pc[w] \notin {"none", "pend", "halt"}
    /\ ~Starting(o) => \A w \in Workers : Alive(w) => running

(* There is a worker only between a start and the return of stop; it gets  *)
(* no further than the mutex before start has returned.                    *)
Phases(o) ==
    /\ pc[o] \in {"join", "clear", "cleartasks", "dispose"} => ~started
    /\ Starting(o) => started
    /\ ~started /\ pc[o] # "join" => \A w \in Workers : ~Alive(w)
    /\ Starting(o) => \A w \in Workers :
         pc[w] \in {"none", "loop", "lock", "leave"} /\ w \notin waitset

(* The uxevent that a worker is about to call is listed, and for the       *)
(* socket that was ready.                                                  *)
FoundIsListed ==
    \A w \in Workers : pc[w] = "call" =>
        uxe[w] \in UxListed /\ uxheap[uxe[w]].ufd = Head(watched[w]).ufd

(* The inductive invariant of these programs.                              *)
OneInv(o) ==
    /\ OneCaller(o) /\ Sections(o) /\ Waiters(o) /\ HandleIsTrue(o) /\ Phases(o)
    /\ FoundIsListed /\ RightHandler /\ NoLostWakeup /\ NoFault
-----------------------------------------------------------------------------
USE DEF OneOwner, Starting, Alive, CallPCs, OneInv, OneCaller, Sections, Waiters,
        HandleIsTrue, Phases, FoundIsListed, RightHandler, NoLostWakeup, NoFault

LEMMA InitOneInv ==
    ASSUME NEW o, OneOwner(o), Init
    PROVE  OneInv(o)
PROOF
<1>1. pc[o] = "idle" /\ \A w \in Workers : pc[w] = "none"
  BY ThreadsDistinct DEF Init, Threads
<1>2. \A t \in Threads : pc[t] \in {"none", "idle"}
  BY DEF Init
<1>3. tid = NoThread /\ mutex = NoThread /\ waitset = {} /\ ~started /\ fault = "none"
  BY DEF Init, ThreadCreate, LockInit
<1> QED
  BY <1>1, <1>2, <1>3, NoWorker, ThreadsDistinct

(* The threads, told apart.                                                *)
LEMMA ThreadFacts ==
    ASSUME NEW o, OneOwner(o)
    PROVE  /\ o \in Threads /\ o \notin Workers /\ o # NoThread
           /\ \A w \in Workers : w \in Threads /\ w # o /\ w # NoThread
PROOF
<1> QED
  BY ThreadsDistinct, NoWorker DEF Threads

(* A step that moves one thread.                                           *)
LEMMA Moved ==
    ASSUME Inv, NEW t \in Threads, NEW label, Goto(t, label)
    PROVE  pc'[t] = label /\ \A u \in Threads \ {t} : pc'[u] = pc[u]
PROOF
<1> QED
  BY DEF Goto, Inv, Types

(* Where threads can be, and what is known of the rest.                    *)
LEMMA Typed ==
    ASSUME Inv
    PROVE  /\ started \in BOOLEAN /\ running \in BOOLEAN
           /\ tid \in Workers \cup {NoThread} /\ waitset \subseteq Threads
PROOF
<1> QED
  BY DEF Inv, Types, ThreadTypeOK

(* The steps in which only o moves, and no worker's view changes.          *)
Views == UNCHANGED <<uxVars, uxe, called, watched>>

LEMMA ViewsStay ==
    ASSUME NEW o, OneOwner(o), OneInv(o), Views, \A w \in Workers : pc'[w] = pc[w]
    PROVE  FoundIsListed' /\ RightHandler'
PROOF
<1>1. UxListed' = UxListed
  BY DEF Views, uxVars, UxListed
<1> QED
  BY <1>1 DEF Views, uxVars

(* awe_uxscheduler_start: there is no worker before, and one afterwards.   *)
LEMMA StartOneInv ==
    ASSUME NEW o, OneOwner(o), Inv, OneInv(o), NEW t \in Threads,
           StartLock(t) \/ StartArm(t) \/ StartMark(t)
    PROVE  OneInv(o)'
PROOF
<1>1. CASE StartLock(t)
  <2>1. t = o /\ pc[o] = "idle" /\ mutex = NoThread /\ ~started
    BY <1>1, ThreadFacts DEF StartLock, CanCall, Resting
  <2>2. \A w \in Workers : pc[w] = "none"
    BY <2>1
  <2>3. tid = NoThread
    BY <2>2, Typed
  <2>4. CASE Abort("create")
    <3>1. /\ UNCHANGED <<pc, tid, running, mutex, waitset, started, uxevents>>
          /\ Views /\ fault' = "create"
      BY <2>4 DEF Abort, Views, sharedVars, threadVars, lockVars, schedVars, selectVars, uxVars
    <3> QED
      BY <3>1, ViewsStay
  <2>5. CASE ~Abort("create")
    <3>0. PICK w \in Workers, d \in DelaysMs :
            /\ pc[w] = "none"
            /\ Spawn(w)
            /\ started' = TRUE
            /\ delayMs' = IF d <= 60000 THEN d ELSE 1000
            /\ pc' = [pc EXCEPT ![t] = "arm", ![w] = "loop"]
            /\ mutex' = t
            /\ UNCHANGED <<waitset, taskVars, uxVars, have_rmopt, restVars>>
      BY <1>1, <2>3, <2>5 DEF StartLock
    <3>1. pc'[o] = "arm" /\ pc'[w] = "loop" /\ \A u \in Threads \ {o, w} : pc'[u] = pc[u]
      BY <2>1, <3>0, ThreadFacts DEF Inv, Types
    <3>2. /\ tid' = w /\ started' /\ mutex' = o
          /\ UNCHANGED <<waitset, uxVars, uxevents, fault>>
      BY <2>1, <3>0 DEF Spawn, restVars, uxVars
    <3>3. w \notin waitset
      BY <2>2
    <3>4. OneCaller(o)' /\ Sections(o)' /\ Waiters(o)'
      BY <2>1, <2>2, <3>1, <3>2, ThreadFacts
    <3>5. HandleIsTrue(o)'
      BY <2>1, <2>2, <3>1, <3>2, ThreadFacts
    <3>6. Phases(o)'
      BY <2>1, <2>2, <3>1, <3>2, <3>3, ThreadFacts
    <3>7. FoundIsListed' /\ RightHandler' /\ NoLostWakeup' /\ NoFault'
      BY <2>1, <2>2, <3>1, <3>2, ThreadFacts
    <3> QED
      BY <3>4, <3>5, <3>6, <3>7
  <2> QED
    BY <2>4, <2>5
<1>2. CASE StartArm(t)
  <2>1. t = o /\ pc[o] = "arm"
    BY <1>2 DEF StartArm
  <2>2. pc'[o] = "mark" /\ \A u \in Threads \ {o} : pc'[u] = pc[u]
    BY <1>2, <2>1, Moved DEF StartArm
  <2>3. /\ UNCHANGED <<tid, running, mutex, waitset, started, uxevents, fault>> /\ Views
    BY <1>2 DEF StartArm, ArmExitPending, Views, lockVars, schedVars, restVars, selectVars, uxVars
  <2>4. FoundIsListed' /\ RightHandler'
    BY <2>2, <2>3, ViewsStay, ThreadFacts
  <2> QED
    BY <2>1, <2>2, <2>3, <2>4, ThreadFacts
<1>3. CASE StartMark(t)
  <2>1. t = o /\ pc[o] = "mark"
    BY <1>3 DEF StartMark
  <2>2. pc'[o] = "idle" /\ \A u \in Threads \ {o} : pc'[u] = pc[u]
    BY <1>3, <2>1, Moved, ThreadFacts DEF StartMark, Resting
  <2>3. /\ running' /\ mutex' = NoThread
        /\ UNCHANGED <<tid, waitset, started, uxevents, fault>> /\ Views
    BY <1>3 DEF StartMark, MarkRunning, Views, schedVars, restVars, selectVars, uxVars
  <2>4. FoundIsListed' /\ RightHandler'
    BY <2>2, <2>3, ViewsStay, ThreadFacts
  <2> QED
    BY <2>1, <2>2, <2>3, <2>4, ThreadFacts
<1> QED
  BY <1>1, <1>2, <1>3

(* awe_uxscheduler_stop: the signal wakes the one worker, and stop returns *)
(* when it has ended.                                                      *)
LEMMA StopOneInv ==
    ASSUME NEW o, OneOwner(o), Inv, OneInv(o), NEW t \in Threads,
           StopLock(t) \/ StopJoin(t)
    PROVE  OneInv(o)'
PROOF
<1>1. CASE StopLock(t)
  <2>1. t = o /\ pc[o] \in {"idle", "destroy"} /\ started /\ mutex = NoThread
    BY <1>1, ThreadFacts DEF StopLock, CanCall, Resting
  <2>2. pc'[o] = "join" /\ \A u \in Threads \ {o} : pc'[u] = pc[u]
    BY <1>1, <2>1, Moved DEF StopLock
  <2>3. ~started' /\ UNCHANGED <<tid, running, mutex, uxevents, fault>> /\ Views
    BY <1>1 DEF StopLock, RequestExit, Views, restVars, selectVars, uxVars
  <2>4. waitset' = {}
    <3>1. \A u, v \in waitset : u = v
      BY <2>1
    <3> QED
      BY <1>1, <3>1 DEF StopLock, Signal
  <2>5. FoundIsListed' /\ RightHandler'
    BY <2>2, <2>3, ViewsStay, ThreadFacts
  <2> QED
    BY <2>1, <2>2, <2>3, <2>4, <2>5, ThreadFacts
<1>2. CASE StopJoin(t)
  <2>1. t = o /\ pc[o] = "join" /\ mutex = NoThread /\ o \notin waitset
    BY <1>2 DEF StopJoin
  <2>2. UNCHANGED <<tid, running, mutex, started, uxevents, fault>> /\ Views
    BY <1>2 DEF StopJoin, threadVars, schedVars, restVars, Views, selectVars, uxVars
  <2>3. CASE running /\ waitset' = waitset \cup {t} /\ pc' = pc
    <3>1. FoundIsListed' /\ RightHandler'
      BY <2>2, <2>3, ViewsStay
    <3> QED
      BY <2>1, <2>2, <2>3, <3>1, ThreadFacts
  <2>4. CASE /\ ~running /\ waitset' = waitset
             /\ Goto(t, IF t \in Clients /\ life = "destroying" THEN "clear" ELSE Resting(t))
    <3>1. pc'[o] \in {"clear", "idle"} /\ \A u \in Threads \ {o} : pc'[u] = pc[u]
      BY <2>1, <2>4, Moved, ThreadFacts DEF Resting
    <3>2. \A w \in Workers : pc[w] = "none"
      BY <2>1, <2>4
    <3> QED
      BY <2>1, <2>2, <2>4, <3>1, <3>2, ThreadFacts
  <2> QED
    BY <1>2, <2>3, <2>4 DEF StopJoin
<1> QED
  BY <1>1, <1>2

(* awe_uxscheduler_destroy: when the object is freed the worker is gone.   *)
LEMMA DestroyOneInv ==
    ASSUME NEW o, OneOwner(o), Inv, OneInv(o), NEW t \in Threads,
           Destroy(t) \/ DestroyStopped(t) \/ DestroyClear(t) \/ DestroyClearTasks(t) \/
           DestroyFree(t)
    PROVE  OneInv(o)'
PROOF
<1>1. CASE Destroy(t)
  <2>1. t = o /\ pc[o] = "idle"
    BY <1>1, ThreadFacts DEF Destroy, CanCall, Resting
  <2>2. pc'[o] = "destroy" /\ \A u \in Threads \ {o} : pc'[u] = pc[u]
    BY <1>1, <2>1, Moved DEF Destroy
  <2>3. UNCHANGED <<tid, running, mutex, waitset, started, uxevents, fault>> /\ Views
    BY <1>1 DEF Destroy, sharedVars, threadVars, lockVars, schedVars, Views, selectVars, uxVars
  <2>4. FoundIsListed' /\ RightHandler'
    BY <2>2, <2>3, ViewsStay, ThreadFacts
  <2> QED
    BY <2>1, <2>2, <2>3, <2>4, ThreadFacts
<1>2. CASE DestroyStopped(t)
  <2>1. t = o /\ pc[o] = "destroy" /\ ~started
    BY <1>2 DEF DestroyStopped, MoveOn
  <2>2. pc'[o] = "clear" /\ \A u \in Threads \ {o} : pc'[u] = pc[u]
    BY <1>2, <2>1, Moved DEF DestroyStopped, MoveOn
  <2>3. UNCHANGED <<tid, running, mutex, waitset, started, uxevents, fault>> /\ Views
    BY <1>2 DEF DestroyStopped, MoveOn, sharedVars, restVars, threadVars, lockVars, schedVars,
       Views, selectVars, uxVars
  <2>4. FoundIsListed' /\ RightHandler'
    BY <2>2, <2>3, ViewsStay, ThreadFacts
  <2> QED
    BY <2>1, <2>2, <2>3, <2>4, ThreadFacts
<1>3. CASE DestroyClear(t) \/ DestroyClearTasks(t)
  <2>1. t = o /\ pc[o] \in {"clear", "cleartasks"} /\ \A w \in Workers : pc[w] = "none"
    BY <1>3 DEF DestroyClear, DestroyClearTasks
  <2>2. /\ pc'[o] \in {"cleartasks", "dispose"}
        /\ \A u \in Threads \ {o} : pc'[u] = pc[u]
    BY <1>3, <2>1, Moved DEF DestroyClear, DestroyClearTasks
  <2>3. UNCHANGED <<tid, running, mutex, waitset, started, fault>>
    BY <1>3 DEF DestroyClear, DestroyClearTasks, threadVars, lockVars, schedVars, restVars
  <2> QED
    BY <2>1, <2>2, <2>3, ThreadFacts
<1>4. CASE DestroyFree(t)
  <2>1. t = o /\ pc[o] = "dispose" /\ \A w \in Workers : pc[w] = "none"
    BY <1>4 DEF DestroyFree
  <2>2. pc'[o] = "idle" /\ \A u \in Threads \ {o} : pc'[u] = pc[u]
    BY <1>4, <2>1, Moved DEF DestroyFree
  <2>3. UNCHANGED <<tid, running, mutex, waitset, started, uxevents, fault>>
    BY <1>4, <2>1 DEF DestroyFree, sharedVars, threadVars, lockVars, schedVars, uxVars
  <2> QED
    BY <2>1, <2>2, <2>3, ThreadFacts
<1> QED
  BY <1>1, <1>2, <1>3, <1>4
-----------------------------------------------------------------------------
(* The worker's steps.                                                     *)

(* What a step of the one worker leaves alone when it only moves on.       *)
Quiet ==
    /\ UNCHANGED <<tid, running, mutex, started, uxVars, fault>>
    /\ waitset' \subseteq waitset

LEMMA WorkerMoves ==
    ASSUME NEW o, OneOwner(o), Inv, OneInv(o), Quiet,
           NEW w \in Workers, NEW label \in WorkerPCs \ {"none", "pend", "halt"},
           pc[w] \notin {"none", "pend", "halt"} \cup CallPCs, w \notin waitset, Goto(w, label),
           Starting(o) => label \in {"loop", "lock", "leave"},
           label = "call" =>
              uxe'[w] \in UxListed /\ uxheap[uxe'[w]].ufd = Head(watched'[w]).ufd,
           label = "event" => called'[w] = Head(watched'[w]).ufd
    PROVE  OneInv(o)'
PROOF
<1>1. pc'[w] = label /\ \A u \in Threads \ {w} : pc'[u] = pc[u]
  BY Moved, ThreadFacts
<1>2. \A u \in Workers \ {w} : pc[u] = "none"
  BY DEF WorkerPCs
<1>3. UxListed' = UxListed /\ UNCHANGED <<uxheap, uxevents>>
  BY DEF Quiet, uxVars, UxListed
<1>4. label \notin CallPCs \cup {"destroy", "clear", "cleartasks", "dispose"}
  BY DEF WorkerPCs
<1>5. pc'[o] = pc[o]
  BY <1>1, ThreadFacts
<1>6. OneCaller(o)' /\ Sections(o)'
  BY <1>1, <1>4, <1>5 DEF Quiet
<1>7. Waiters(o)' /\ NoLostWakeup' /\ NoFault'
  BY <1>1, <1>3, <1>5 DEF Quiet
<1>8. HandleIsTrue(o)'
  BY <1>1, <1>2, <1>4, <1>5, ThreadFacts DEF Quiet
<1>9. Phases(o)'
  BY <1>1, <1>2, <1>4, <1>5, ThreadFacts DEF Quiet
<1>10. FoundIsListed' /\ RightHandler'
  BY <1>1, <1>2, <1>3, <1>4, ThreadFacts
<1> QED
  BY <1>6, <1>7, <1>8, <1>9, <1>10

(* A worker waits only for the mutex.                                      *)
LEMMA OnlyAtTheLock ==
    ASSUME NEW o, OneOwner(o), OneInv(o), NEW w \in Workers, pc[w] # "lock"
    PROVE  w \notin waitset
PROOF
<1> QED
  BY ThreadFacts

LEMMA LoopOneInv ==
    ASSUME NEW o, OneOwner(o), Inv, OneInv(o), NEW w \in Workers,
           Loop(w) \/ LockWait(w) \/ CheckStarted(w)
    PROVE  OneInv(o)'
PROOF
<1>1. CASE Loop(w)
  <2>1. pc[w] = "loop" /\ Goto(w, IF exit_pending THEN "leave" ELSE "lock") /\ Quiet
    BY <1>1 DEF Loop, MoveOn, Quiet, sharedVars, restVars, threadVars, lockVars, schedVars
  <2> QED
    BY <2>1, OnlyAtTheLock, WorkerMoves DEF WorkerPCs
<1>2. CASE LockWait(w)
  <2>1. /\ pc[w] = "lock" /\ w \notin waitset /\ mutex = NoThread
        /\ UNCHANGED <<tid, running, mutex, started, uxVars, fault, uxe, called, watched>>
    BY <1>2 DEF LockWait, threadVars, schedVars, restVars, selectVars
  <2>2. CASE Goto(w, "check") /\ waitset' = waitset
    <3>1. ~Starting(o) /\ Quiet
      BY <2>1, <2>2, ThreadFacts DEF Quiet
    <3> QED
      BY <2>1, <2>2, <3>1, WorkerMoves DEF WorkerPCs
  <2>3. CASE started /\ uxevents = <<>> /\ waitset' = waitset \cup {w} /\ pc' = pc
    <3>1. FoundIsListed' /\ RightHandler'
      BY <2>1, <2>3, ViewsStay DEF Views
    <3>2. ~Starting(o)
      BY <2>1, ThreadFacts
    <3>3. OneCaller(o)' /\ Sections(o)' /\ Waiters(o)' /\ HandleIsTrue(o)'
      BY <2>1, <2>3
    <3>4. NoLostWakeup' /\ NoFault' /\ Phases(o)'
      BY <2>1, <2>3, <3>2 DEF uxVars
    <3> QED
      BY <3>1, <3>3, <3>4
  <2> QED
    BY <1>2, <2>2, <2>3 DEF LockWait
<1>3. CASE CheckStarted(w)
  <2>1. pc[w] = "check" /\ Goto(w, IF started THEN "prepare" ELSE "leave") /\ Quiet
    BY <1>3 DEF CheckStarted, MoveOn, Quiet, sharedVars, restVars, threadVars, lockVars, schedVars
  <2> QED
    BY <2>1, OnlyAtTheLock, WorkerMoves DEF WorkerPCs
<1> QED
  BY <1>1, <1>2, <1>3

(* ux_select, and the handlers of the sockets that are ready.  A uxevent   *)
(* that was found is still listed when it is called: only the worker       *)
(* removes, and it does so from a handler or a callback.                   *)
LEMMA SelectingOneInv ==
    ASSUME NEW o, OneOwner(o), Inv, OneInv(o), NEW w \in Workers,
           \/ Prepare(w) \/ SelectReady(w) \/ SelectTimesOut(w) \/ SelectFails(w)
           \/ Find(w) \/ Call(w) \/ HandlerReturns(w)
    PROVE  OneInv(o)'
PROOF
<1>0. pc[w] \in {"prepare", "select", "find", "call", "event"} /\ ~Starting(o)
  BY DEF Prepare, SelectReady, SelectTimesOut, SelectFails, Find, Call, HandlerReturns
<1>1. w \notin waitset
  BY <1>0, OnlyAtTheLock
<1>2. CASE Prepare(w)
  <2>1. Quiet /\ Goto(w, IF uxevents = <<>> THEN "timer" ELSE "select")
    BY <1>2 DEF Prepare, Quiet, sharedVars, threadVars, lockVars, schedVars
  <2>2. Goto(w, "timer") \/ Goto(w, "select")
    BY <2>1
  <2> QED
    <3>1. pc[w] \notin {"none", "pend", "halt"} \cup CallPCs
      BY <1>0
    <3>2. CASE Goto(w, "timer")
      <4> HIDE DEF OneInv, OneOwner, Goto
      <4> QED
        BY <1>0, <1>1, <2>1, <3>1, <3>2, WorkerMoves DEF WorkerPCs
    <3>3. CASE Goto(w, "select")
      <4> HIDE DEF OneInv, OneOwner, Goto
      <4> QED
        BY <1>0, <1>1, <2>1, <3>1, <3>3, WorkerMoves DEF WorkerPCs
    <3> QED
      BY <2>2, <3>2, <3>3
<1>3. CASE SelectReady(w)
  <2>1. Quiet /\ Goto(w, "find")
    BY <1>3 DEF SelectReady, Quiet, sharedVars, threadVars, lockVars, schedVars
  <2> QED
    BY <1>0, <1>1, <2>1, WorkerMoves DEF WorkerPCs
<1>4. CASE SelectTimesOut(w)
  <2>1. Quiet /\ Goto(w, "timer")
    BY <1>4 DEF SelectTimesOut, Quiet, sharedVars, threadVars, lockVars, schedVars
  <2> QED
    BY <1>0, <1>1, <2>1, WorkerMoves DEF WorkerPCs
<1>5. CASE SelectFails(w)
  <2>1. /\ UNCHANGED <<pc, tid, running, mutex, waitset, started, uxevents>>
        /\ Views /\ fault' = "select"
    BY <1>5 DEF SelectFails, Abort, Views, sharedVars, threadVars, lockVars, schedVars,
       selectVars, uxVars
  <2> QED
    BY <2>1, ViewsStay
<1>6. CASE Find(w)
  <2>1. /\ pc[w] = "find" /\ Quiet
    BY <1>6 DEF Find, Quiet, sharedVars, threadVars, lockVars, schedVars
  <2>2. CASE Goto(w, "timer")
    BY <1>0, <1>1, <2>1, <2>2, WorkerMoves DEF WorkerPCs
  <2>3. CASE pc' = pc
    <3>1. Goto(w, "find")
      BY <2>1, <2>3 DEF Inv, Types
    <3> QED
      BY <1>0, <1>1, <2>1, <3>1, WorkerMoves DEF WorkerPCs
  <2>4. CASE /\ \E a \in UxFind(Head(watched[w]).ufd) : uxe' = [uxe EXCEPT ![w] = a]
             /\ Goto(w, "call") /\ watched' = watched
    <3>1. PICK a \in UxFind(Head(watched[w]).ufd) : uxe' = [uxe EXCEPT ![w] = a]
      BY <2>4
    <3>2. uxe'[w] \in UxListed /\ uxheap[uxe'[w]].ufd = Head(watched'[w]).ufd
      BY <2>4, <3>1 DEF Inv, Types, UxFind
    <3> QED
      BY <1>0, <1>1, <2>1, <2>4, <3>2, WorkerMoves DEF WorkerPCs
  <2> QED
    BY <1>6, <2>2, <2>3, <2>4 DEF Find
<1>7. CASE Call(w)
  <2>1. pc[w] = "call" /\ uxheap[uxe[w]] # UxFree
    BY <1>7, InvUxOK, UxFacts DEF Call
  <2>2. /\ called' = [called EXCEPT ![w] = uxheap[uxe[w]].ufd] /\ watched' = watched
        /\ Goto(w, "event") /\ Quiet
    BY <1>7, <2>1 DEF Call, Quiet, sharedVars, threadVars, lockVars, schedVars
  <2>3. called'[w] = Head(watched'[w]).ufd
    BY <2>1, <2>2 DEF Inv, Types
  <2> QED
    BY <1>0, <1>1, <2>2, <2>3, WorkerMoves DEF WorkerPCs
<1>8. CASE HandlerReturns(w)
  <2>1. Quiet /\ Goto(w, "find")
    BY <1>8 DEF HandlerReturns, Quiet, sharedVars, threadVars, lockVars, schedVars
  <2> QED
    BY <1>0, <1>1, <2>1, WorkerMoves DEF WorkerPCs
<1> QED
  BY <1>2, <1>3, <1>4, <1>5, <1>6, <1>7, <1>8

(* The delayed tasks.                                                      *)
LEMMA TaskStepsOneInv ==
    ASSUME NEW o, OneOwner(o), Inv, OneInv(o), NEW w \in Workers,
           TakeTask(w) \/ Run(w) \/ Return(w) \/ Drop(w)
    PROVE  OneInv(o)'
PROOF
<1>1. pc[w] \in {"timer", "run", "proc", "drop"} /\ ~Starting(o)
  BY DEF TakeTask, Run, Return, Drop, MoveOn
<1>2. w \notin waitset
  BY <1>1, OnlyAtTheLock
<1>3. waitset' \subseteq waitset
  BY DEF TakeTask, TellRemovers, Broadcast, Run, Return, Drop, MoveOn, sharedVars, lockVars
<1>4. Quiet
  <2>1. CASE TakeTask(w)
    BY <1>3, <2>1 DEF TakeTask, Quiet, threadVars
  <2>2. CASE Run(w) \/ Return(w)
    BY <1>3, <2>2 DEF Run, Return, MoveOn, Quiet, sharedVars, restVars, threadVars, lockVars,
       schedVars
  <2>3. CASE Drop(w)
    BY <1>3, <2>3 DEF Drop, Quiet, threadVars, lockVars, schedVars
  <2> QED
    BY <2>1, <2>2, <2>3
<1>5. Goto(w, "run") \/ Goto(w, "loop") \/ Goto(w, "proc") \/ Goto(w, "drop")
  BY DEF TakeTask, Run, Return, Drop, MoveOn
<1> QED
  BY <1>1, <1>2, <1>4, <1>5, WorkerMoves DEF WorkerPCs

(* The end of the thread: _tid is cleared first, then _running.            *)
LEMMA EndingOneInv ==
    ASSUME NEW o, OneOwner(o), Inv, OneInv(o), NEW w \in Workers,
           Leave(w) \/ Forget(w) \/ Pend(w) \/ Halt(w)
    PROVE  OneInv(o)'
PROOF
<1>1. pc[w] \in {"leave", "forget", "pend", "halt"}
  BY DEF Leave, Forget, Pend, Halt
<1>2. w \notin waitset
  BY <1>1, OnlyAtTheLock
<1>3. CASE Leave(w)
  <2>1. Quiet /\ Goto(w, "forget") /\ mutex = NoThread
    BY <1>3 DEF Leave, Broadcast, Quiet, threadVars, schedVars, restVars
  <2>2. ~Starting(o) /\ pc[w] = "leave"
    BY <1>3, <2>1, ThreadFacts DEF Leave
  <2> QED
    BY <1>2, <2>1, <2>2, WorkerMoves DEF WorkerPCs
<1>4. CASE Forget(w) \/ Pend(w) \/ Halt(w)
  <2>1. /\ pc'[w] \in {"pend", "halt", "none"} /\ pc[w] \in {"forget", "pend", "halt"}
        /\ \A u \in Threads \ {w} : pc'[u] = pc[u]
    BY <1>4, Moved, ThreadFacts DEF Forget, Pend, Halt
  <2>2. UNCHANGED <<mutex, waitset, started, uxVars, uxevents, uxheap, fault, uxe, called, watched>>
    BY <1>4 DEF Forget, Pend, Halt, lockVars, schedVars, restVars, selectVars, uxVars
  <2>3. \A u \in Workers \ {w} : pc[u] = "none"
    BY <1>1
  <2>4. pc'[o] = pc[o] /\ ~Starting(o)
    BY <1>1, <2>1, ThreadFacts
  <2>5. /\ tid' # w /\ (tid' = tid \/ tid' = NoThread)
        /\ pc'[w] # "none" => running' = running
    <3>1. CASE Forget(w)
      BY <3>1, ThreadFacts DEF Forget, ForgetTid
    <3>2. CASE Pend(w)
      BY <3>2, ThreadFacts DEF Pend, PendAtExit
    <3>3. CASE Halt(w)
      <4>1. pc'[w] = "none" /\ tid # w /\ tid' = tid
        BY <3>3, Moved, ThreadFacts DEF Halt, ClearRunning
      <4> QED
        BY <4>1
    <3> QED
      BY <1>4, <3>1, <3>2, <3>3
  <2>6. OneCaller(o)' /\ Sections(o)' /\ Waiters(o)'
    BY <1>2, <2>1, <2>2, <2>4
  <2>7. HandleIsTrue(o)'
    BY <2>1, <2>3, <2>4, <2>5, ThreadFacts
  <2>8. Phases(o)'
    BY <1>1, <2>1, <2>2, <2>3, <2>4, ThreadFacts
  <2>9. FoundIsListed' /\ RightHandler'
    BY <2>1, <2>3, ThreadFacts
  <2> QED
    BY <2>2, <2>6, <2>7, <2>8, <2>9
<1> QED
  BY <1>3, <1>4
-----------------------------------------------------------------------------
(* The calls of the program, and the environment.                          *)

(* What a call leaves alone that does not wait.                            *)
LEMMA CallsKeep ==
    ASSUME NEW o, OneOwner(o), Inv, OneInv(o),
           UNCHANGED <<threadVars, mutex, started, pc, called, watched, fault>>,
           waitset' \subseteq waitset,
           \A w \in Workers \cap waitset' : uxevents' = <<>>,
           FoundIsListed'
    PROVE  OneInv(o)'
PROOF
<1>1. UNCHANGED <<tid, running>>
  BY DEF threadVars
<1>2. OneCaller(o)' /\ Sections(o)' /\ Waiters(o)' /\ HandleIsTrue(o)' /\ Phases(o)'
  BY <1>1
<1> QED
  BY <1>1, <1>2

LEMMA AddOneInv ==
    ASSUME NEW o, OneOwner(o), Inv, OneInv(o), NEW t \in Threads,
           NEW ufd \in Ufds, NEW set \in SUBSET Masks, Add(t, ufd, set)
    PROVE  OneInv(o)'
PROOF
<1>1. /\ UNCHANGED <<threadVars, mutex, started, pc, called, watched, fault, uxe>>
      /\ mutex = NoThread /\ Signal
  BY DEF Add, schedVars, restVars, selectVars
<1>2. waitset' \subseteq waitset
  BY <1>1 DEF Signal
<1>3. \A w \in Workers : w \notin waitset'
  <2>1. ASSUME NEW w \in Workers, w \in waitset PROVE waitset' = {}
    <3>1. started /\ pc[o] # "join"
      BY <2>1
    <3>2. \A u \in waitset : u = w
      BY <2>1, <3>1
    <3> QED
      BY <1>1, <2>1, <3>2 DEF Signal
  <2> QED
    BY <1>2, <2>1
<1>4. UxOK
  BY InvUxOK
<1>5. /\ UxListed \subseteq UxListed'
      /\ \A a \in UxListed : uxheap'[a].ufd = uxheap[a].ufd
  <2>1. ASSUME NEW a \in UxAddr, UxFind(ufd) = {}, UxAppend(a, ufd, set)
        PROVE  UxListed \subseteq UxListed' /\ \A b \in UxListed : uxheap'[b] = uxheap[b]
    <3>1. UxListed' = UxListed \cup {a}
      BY <1>4, <2>1, UxAppendKeeps
    <3>2. a \notin UxListed /\ UxListed \subseteq UxAddr
      BY <1>4, <2>1, UxFacts DEF UxAppend
    <3>3. \A b \in UxAddr \ {a} : uxheap'[b] = uxheap[b]
      BY <1>4, <2>1 DEF UxAppend, UxOK, UxTypeOK
    <3> QED
      BY <3>1, <3>2, <3>3
  <2>2. ASSUME NEW a \in UxFind(ufd), UxWatchFor(a, set)
        PROVE  UxListed' = UxListed /\ \A b \in UxListed : uxheap'[b].ufd = uxheap[b].ufd
    BY <1>4, <2>2, UxWatchForKeeps DEF UxFind
  <2> QED
    BY <2>1, <2>2 DEF Add
<1>6. FoundIsListed'
  BY <1>1, <1>5
<1> QED
  BY <1>1, <1>2, <1>3, <1>6, CallsKeep

LEMMA ConditionsOneInv ==
    ASSUME NEW o, OneOwner(o), Inv, OneInv(o), NEW t \in Threads,
           NEW ufd \in Ufds, NEW set \in SUBSET Masks,
           Enable(t, ufd, set) \/ Disable(t, ufd, set)
    PROVE  OneInv(o)'
PROOF
<1>1. UNCHANGED <<threadVars, mutex, waitset, started, pc, called, watched, fault, uxe>>
  BY DEF Enable, Disable, lockVars, schedVars, restVars, selectVars
<1>2. PICK a \in UxFind(ufd) :
         \/ UxWatchFor(a, uxheap[a].conditionSet \cup set)
         \/ UxWatchFor(a, uxheap[a].conditionSet \ set)
  BY DEF Enable, Disable
<1>3. /\ a \in UxListed /\ UxOK
      /\ uxheap[a].conditionSet \cup set \in SUBSET Masks
      /\ uxheap[a].conditionSet \ set \in SUBSET Masks
  <2>1. a \in UxListed /\ UxOK
    BY InvUxOK DEF UxFind
  <2> QED
    BY <2>1, UxFacts DEF UxEvent
<1>4. UxListed' = UxListed /\ \A b \in UxListed : uxheap'[b].ufd = uxheap[b].ufd
  BY <1>2, <1>3, UxWatchForKeeps
<1>5. uxevents' = uxevents
  BY <1>2 DEF UxWatchFor
<1>6. FoundIsListed'
  BY <1>1, <1>4
<1> QED
  BY <1>1, <1>5, <1>6, CallsKeep

(* Only the worker removes, and it is not about to call a uxevent then.    *)
LEMMA RmOneInv ==
    ASSUME NEW o, OneOwner(o), Inv, OneInv(o), NEW t \in Threads,
           NEW ufd \in Ufds, Rm(t, ufd)
    PROVE  OneInv(o)'
PROOF
<1>1. t \in Workers /\ pc[t] \in {"event", "proc"}
  BY ThreadFacts, ThreadsAre DEF Rm, CanCall, Resting
<1>2. tid = t
  BY <1>1
<1>3. UNCHANGED <<threadVars, mutex, waitset, started, pc, called, watched, fault, uxe>>
  BY <1>2 DEF Rm, selectVars
<1>4. PICK a \in UxListed : UxRemove(a)
  BY DEF Rm, UxFind
<1>5. \A w \in Workers : pc[w] # "call"
  BY <1>1
<1>6. \A w \in Workers : w \notin waitset
  BY <1>1, ThreadFacts
<1>7. FoundIsListed'
  BY <1>3, <1>5
<1> QED
  BY <1>3, <1>6, <1>7, CallsKeep

LEMMA TaskCallsOneInv ==
    ASSUME NEW o, OneOwner(o), Inv, OneInv(o), NEW t \in Threads,
           \/ \E a \in Addr, d \in Delays : Post(t, a, d)
           \/ \E id \in Addr : Cancel(t, id)
    PROVE  OneInv(o)'
PROOF
<1>1. /\ UNCHANGED <<threadVars, mutex, started, pc, called, watched, fault, uxe, uxVars>>
      /\ waitset' \subseteq waitset
  BY DEF Post, Cancel, Signal, lockVars, schedVars, restVars, selectVars
<1>2. FoundIsListed'
  BY <1>1, ViewsStay DEF Views
<1>3. uxevents' = uxevents
  BY <1>1 DEF uxVars
<1> QED
  BY <1>1, <1>2, <1>3, CallsKeep

LEMMA UserOneInv ==
    ASSUME NEW o, OneOwner(o), Inv, OneInv(o), NEW t \in Threads, UserStep(t)
    PROVE  OneInv(o)'
PROOF
<1>1. ~RmReturn(t)
  BY DEF RmReturn
<1> QED
  BY <1>1, AddOneInv, ConditionsOneInv, RmOneInv, TaskCallsOneInv DEF UserStep

LEMMA ElsewhereOneInv ==
    ASSUME NEW o, OneOwner(o), Inv, OneInv(o),
           (\E t \in Threads : Timeout(t) \/ Spurious(t)) \/ Tick \/ UNCHANGED vars
    PROVE  OneInv(o)'
PROOF
<1>1. /\ UNCHANGED <<threadVars, mutex, started, pc, called, watched, fault, uxe, uxVars>>
      /\ waitset' \subseteq waitset
  BY DEF Timeout, Spurious, Tick, vars, sharedVars, restVars, lockVars, schedVars, selectVars
<1>2. FoundIsListed'
  BY <1>1, ViewsStay DEF Views
<1>3. uxevents' = uxevents
  BY <1>1 DEF uxVars
<1> QED
  BY <1>1, <1>2, <1>3, CallsKeep

LEMMA NextOneInv ==
    ASSUME NEW o, OneOwner(o), Inv, OneInv(o), [Next]_vars
    PROVE  OneInv(o)'
PROOF
<1>1. ASSUME NEW t \in Threads, OwnerStep(t) PROVE OneInv(o)'
  BY <1>1, StartOneInv, StopOneInv, DestroyOneInv DEF OwnerStep
<1>2. ASSUME NEW w \in Workers, WorkerStep(w) PROVE OneInv(o)'
  BY <1>2, LoopOneInv, SelectingOneInv, TaskStepsOneInv, EndingOneInv DEF WorkerStep
<1> QED
  BY <1>1, <1>2, UserOneInv, ElsewhereOneInv DEF Next, Terminated
LEMMA SpecOneInv ==
    ASSUME NEW o, OneOwner(o)
    PROVE  Spec => [](Inv /\ OneInv(o))
PROOF
<1> HIDE DEF OneInv, OneOwner
<1>1. Init => Inv /\ OneInv(o)
  BY InitInv, InitOneInv
<1>2. Inv /\ OneInv(o) /\ [Next]_vars => (Inv /\ OneInv(o))'
  BY NextInv, NextOneInv
<1> QED
  BY <1>1, <1>2, PTL DEF Spec
-----------------------------------------------------------------------------
(* The promise: the refinement mapping, with a name for each part of it.   *)

Open == started \/ \E t \in Threads : pc[t] = "join"
Taking == {"run", "proc"}
Waiting == {AsTask(a) : a \in {b \in Listed : Valid(b)}}
Current == {AsTask(first[w]) : w \in {v \in Workers : pc[v] \in Taking /\ Valid(first[v])}}
Mapped == <<Open, Waiting, Current, posted, now>>

PromiseStep == [Promise!DTNext]_(Promise!dtVars)

USE DEF Taking

(* Each action of DelayedTasks, in these terms.                            *)
LEMMA Stutters ==
    ASSUME UNCHANGED Mapped
    PROVE  PromiseStep
PROOF
<1> QED
  BY DEF PromiseStep, Promise!dtVars, Mapped, Open, Waiting, Current

LEMMA Accepts ==
    ASSUME Open, NEW d \in Delays,
           Waiting' = Waiting \cup {[due |-> now + d, rank |-> posted]},
           posted' = posted + 1, UNCHANGED <<Open, Current, now>>
    PROVE  PromiseStep
PROOF
<1> QED
  BY DEF PromiseStep, Promise!DTNext, Promise!Accept, Open, Waiting, Current

LEMMA Withdraws ==
    ASSUME Open, NEW t \in Waiting, Waiting' = Waiting \ {t},
           UNCHANGED <<Open, Current, posted, now>>
    PROVE  PromiseStep
PROOF
<1> QED
  BY DEF PromiseStep, Promise!DTNext, Promise!Withdraw, Open, Waiting, Current

LEMMA Begins ==
    ASSUME Open, Current = {}, NEW t \in Waiting, t.due <= now,
           \A s \in Waiting \ {t} : Promise!Before(t, s),
           Current' = {t}, Waiting' = Waiting \ {t}, UNCHANGED <<Open, posted, now>>
    PROVE  PromiseStep
PROOF
<1> QED
  BY DEF PromiseStep, Promise!DTNext, Promise!Begin, Open, Waiting, Current

LEMMA Ends ==
    ASSUME Current' = {}, UNCHANGED <<Open, Waiting, posted, now>>
    PROVE  PromiseStep
PROOF
<1> QED
  BY DEF PromiseStep, Promise!DTNext, Promise!End, Open, Waiting, Current

LEMMA OpensUp ==
    ASSUME Open', UNCHANGED <<Waiting, Current, posted, now>>
    PROVE  PromiseStep
PROOF
<1> QED
  BY DEF PromiseStep, Promise!DTNext, Promise!OpenUp, Open, Waiting, Current

LEMMA ClosesDown ==
    ASSUME Current = {}, ~Open', UNCHANGED <<Waiting, Current, posted, now>>
    PROVE  PromiseStep
PROOF
<1> QED
  BY DEF PromiseStep, Promise!DTNext, Promise!CloseDown, Open, Waiting, Current

LEMMA Discards ==
    ASSUME ~Open, Waiting' = {}, UNCHANGED <<Open, Current, posted, now>>
    PROVE  PromiseStep
PROOF
<1> QED
  BY DEF PromiseStep, Promise!DTNext, Promise!Discard, Open, Waiting, Current

LEMMA ClockIsMoved ==
    ASSUME now' \in Int, UNCHANGED <<Open, Waiting, Current, posted>>
    PROVE  PromiseStep
PROOF
<1> QED
  BY DEF PromiseStep, Promise!DTNext, Promise!ClockMoves, Open, Waiting, Current

(* Where one client owns the uxscheduler it is open between a start and    *)
(* the return of stop.                                                     *)
LEMMA OpenIs ==
    ASSUME NEW o, OneOwner(o), OneCaller(o)
    PROVE  Open <=> started \/ pc[o] = "join"
PROOF
<1> QED
  BY ThreadFacts DEF Open

LEMMA OpenBecomes ==
    ASSUME NEW o, OneOwner(o), OneCaller(o)'
    PROVE  Open' <=> started' \/ pc'[o] = "join"
PROOF
<1> QED
  BY ThreadFacts DEF Open

(* A step that leaves alone what the mapping reads of the list and of the  *)
(* task in hand.                                                           *)
LEMMA WaitingStays ==
    ASSUME UNCHANGED taskVars
    PROVE  Waiting' = Waiting
PROOF
<1>1. Listed' = Listed /\ heap' = heap
  BY DEF taskVars, Listed
<1> QED
  BY <1>1 DEF Waiting, Valid, AsTask

LEMMA CurrentStays ==
    ASSUME \A w \in Workers :
             /\ pc'[w] \in Taking <=> pc[w] \in Taking
             /\ pc[w] \in Taking => first'[w] = first[w] /\ heap'[first[w]] = heap[first[w]]
    PROVE  Current' = Current
PROOF
<1>1. \A w \in Workers :
        pc'[w] \in Taking /\ Valid(first[w])' <=> pc[w] \in Taking /\ Valid(first[w])
  BY DEF Valid
<1>2. \A w \in Workers : pc[w] \in Taking => AsTask(first[w])' = AsTask(first[w])
  BY DEF AsTask
<1> QED
  BY <1>1, <1>2 DEF Current

LEMMA OnlyMoving ==
    ASSUME NEW o, OneOwner(o), OneCaller(o), OneCaller(o)',
           UNCHANGED <<taskVars, first, posted, now>>,
           \A w \in Workers : pc'[w] \in Taking <=> pc[w] \in Taking,
           started' \/ pc'[o] = "join" <=> started \/ pc[o] = "join"
    PROVE  PromiseStep
PROOF
<1>1. Open' <=> Open
  BY OpenIs, OpenBecomes
<1>2. Current' = Current /\ Waiting' = Waiting
  BY WaitingStays, CurrentStays DEF taskVars
<1> QED
  BY <1>1, <1>2, Stutters DEF Mapped

(* The steps of the owner by which the service neither opens nor closes.   *)
LEMMA OwnerStutters ==
    ASSUME NEW o, OneOwner(o), Inv, OneInv(o), OneInv(o)', NEW t \in Threads,
           \/ StartArm(t) \/ StartMark(t) \/ StopLock(t)
           \/ Destroy(t) \/ DestroyStopped(t) \/ DestroyClear(t) \/ DestroyFree(t)
    PROVE  PromiseStep
PROOF
<1>1. t = o
  BY ThreadFacts DEF StartArm, StartMark, StopLock, Destroy, DestroyStopped, DestroyClear,
     DestroyFree, MoveOn
<1>2. UNCHANGED <<taskVars, first, posted, now>>
  BY DEF StartArm, StartMark, StopLock, Destroy, DestroyStopped, DestroyClear, DestroyFree,
     Abort, MoveOn, sharedVars, restVars, clockVars
<1>3. \/ UNCHANGED <<pc, started>>
      \/ /\ pc[o] # "join" /\ started' = started
         /\ \E label \in {"mark", "idle", "destroy", "clear", "cleartasks"} : Goto(o, label)
      \/ started /\ Goto(o, "join")
  BY <1>1, ThreadFacts DEF StartArm, StartMark, StopLock, Destroy, DestroyStopped, DestroyClear,
     DestroyFree, Abort, MoveOn, Resting, sharedVars, schedVars
<1>4. /\ \A w \in Workers : pc'[w] = pc[w]
      /\ started' \/ pc'[o] = "join" <=> started \/ pc[o] = "join"
  <2>1. CASE UNCHANGED <<pc, started>>
    BY <2>1
  <2>2. ASSUME NEW label, Goto(o, label)
        PROVE  pc'[o] = label /\ \A w \in Workers : pc'[w] = pc[w]
    <3> HIDE DEF OneInv, OneOwner
    <3> QED
      BY <2>2, Moved, ThreadFacts
  <2> QED
    BY <1>3, <2>1, <2>2
<1> QED
  BY <1>2, <1>4, OnlyMoving

(* A worker only looks at the lists or at what stop did, or sees to        *)
(* sockets; and the calls that are about sockets.                          *)
LEMMA WorkerStutters ==
    ASSUME NEW o, OneOwner(o), Inv, OneInv(o), OneInv(o)', NEW w \in Workers,
           \/ Loop(w) \/ LockWait(w) \/ CheckStarted(w) \/ Prepare(w)
           \/ SelectReady(w) \/ SelectTimesOut(w) \/ SelectFails(w)
           \/ Find(w) \/ Call(w) \/ HandlerReturns(w)
           \/ Leave(w) \/ Forget(w) \/ Pend(w) \/ Halt(w)
    PROVE  PromiseStep
PROOF
<1>1. UNCHANGED <<taskVars, first, posted, now, started>>
  BY DEF Loop, LockWait, CheckStarted, Prepare, SelectReady, SelectTimesOut, SelectFails,
     Find, Call, HandlerReturns, Leave, Forget, Pend, Halt, Abort, MoveOn, sharedVars, restVars,
     schedVars, clockVars
<1>2. /\ pc[w] \notin Taking
      /\ pc' = pc \/ \E label \in WorkerPCs \ Taking : Goto(w, label)
  <2> HIDE DEF OneInv, OneOwner, Goto
  <2>1. pc[w] \notin Taking
    BY DEF Loop, LockWait, CheckStarted, Prepare, SelectReady, SelectTimesOut, SelectFails,
       Find, Call, HandlerReturns, Leave, Forget, Pend, Halt, MoveOn
  <2>2. pc' = pc \/ \E label \in WorkerPCs \ Taking : Goto(w, label)
    <3>1. CASE Loop(w) \/ LockWait(w) \/ CheckStarted(w) \/ Prepare(w)
      BY <3>1 DEF Loop, LockWait, CheckStarted, Prepare, Abort, MoveOn, WorkerPCs
    <3>2. CASE SelectReady(w) \/ SelectTimesOut(w) \/ SelectFails(w) \/ Find(w)
      BY <3>2 DEF SelectReady, SelectTimesOut, SelectFails, Find, Abort, MoveOn, WorkerPCs
    <3>3. CASE Call(w) \/ HandlerReturns(w)
      BY <3>3 DEF Call, HandlerReturns, Abort, MoveOn, WorkerPCs
    <3>4. CASE Leave(w) \/ Forget(w) \/ Pend(w) \/ Halt(w)
      BY <3>4 DEF Leave, Forget, Pend, Halt, Abort, MoveOn, WorkerPCs
    <3> QED
      BY <3>1, <3>2, <3>3, <3>4
  <2> QED
    BY <2>1, <2>2
<1>3. pc'[w] \notin Taking /\ \A u \in Threads \ {w} : pc'[u] = pc[u]
  <2>1. w \in Threads
    BY ThreadFacts
  <2>2. CASE pc' = pc
    BY <1>2, <2>2
  <2>3. ASSUME NEW label \in WorkerPCs \ Taking, Goto(w, label)
        PROVE  pc'[w] \notin Taking /\ \A u \in Threads \ {w} : pc'[u] = pc[u]
    <3> HIDE DEF OneInv, OneOwner, Goto, Taking
    <3> QED
      BY <2>1, <2>3, Moved
  <2> QED
    BY <1>2, <2>2, <2>3
<1> QED
  BY <1>1, <1>2, <1>3, OnlyMoving, ThreadFacts

LEMMA SocketsStutter ==
    ASSUME NEW o, OneOwner(o), Inv, OneInv(o), OneInv(o)', NEW t \in Threads, NEW ufd \in Ufds,
           \/ \E set \in SUBSET Masks : Add(t, ufd, set) \/ Enable(t, ufd, set) \/ Disable(t, ufd, set)
           \/ Rm(t, ufd)
    PROVE  PromiseStep
PROOF
<1>1. UNCHANGED <<taskVars, first, posted, now, started>>
  BY DEF Add, Enable, Disable, Rm, restVars, schedVars, clockVars
<1>2. pc' = pc
  <2>1. CASE Rm(t, ufd)
    <3>1. t \in Workers /\ pc[t] \in {"event", "proc"}
      BY <2>1, ThreadFacts, ThreadsAre DEF Rm, CanCall, Resting
    <3>2. tid = t
      BY <3>1
    <3> QED
      BY <2>1, <3>2 DEF Rm
  <2> QED
    BY <2>1 DEF Add, Enable, Disable
<1> QED
  BY <1>1, <1>2, OnlyMoving

(* A worker is where it takes a task only between a start and the return   *)
(* of stop.                                                                *)
LEMMA TakesWhenOpen ==
    ASSUME NEW o, OneOwner(o), OneInv(o), NEW w \in Workers,
           pc[w] \in {"timer", "run", "proc", "drop"}
    PROVE  Open /\ \A v \in Workers \ {w} : pc[v] = "none"
PROOF
<1> QED
  BY OpenIs

(* Two tasks in the list are due at different times or of different posts. *)
LEMMA TasksDiffer ==
    ASSUME Inv
    PROVE  /\ \A a \in Listed : heap[a] \in TimerTask
           /\ \A a, b \in Listed : AsTask(a) = AsTask(b) => a = b
PROOF
<1>1. \A a \in Listed : heap[a] \in TimerTask
  BY ListFacts DEF ListedAreTasks
<1>2. DOMAIN tasks \subseteq Int
  BY LenProperties DEF Inv, Types, TaskTypeOK
<1>3. ASSUME NEW i \in DOMAIN tasks, NEW j \in DOMAIN tasks, i < j
      PROVE  AsTask(tasks[i]) # AsTask(tasks[j])
  <2>1. heap[tasks[i]] \in TimerTask /\ heap[tasks[j]] \in TimerTask
    BY <1>1 DEF Listed
  <2>2. \/ heap[tasks[i]].proc_ms < heap[tasks[j]].proc_ms
        \/ heap[tasks[i]].stamp < heap[tasks[j]].stamp
    BY <1>3, ListFacts DEF InDueOrder
  <2> QED
    BY <2>1, <2>2 DEF AsTask, TimerTask
<1>4. ASSUME NEW i \in DOMAIN tasks, NEW j \in DOMAIN tasks,
             AsTask(tasks[i]) = AsTask(tasks[j])
      PROVE  i = j
  BY <1>2, <1>3, <1>4
<1> QED
  BY <1>1, <1>4 DEF Listed

(* Line 185 takes, of the tasks that wait, the one that is to be run before *)
(* all others.                                                             *)
LEMMA FirstComesFirst ==
    ASSUME Inv, tasks # <<>>, NEW a \in Listed, a # ListFirst
    PROVE  Promise!Before(AsTask(ListFirst), AsTask(a))
PROOF
<1>1. tasks \in Seq(Addr) /\ DOMAIN tasks = 1 .. Len(tasks) /\ Len(tasks) \in Nat /\ Len(tasks) > 0
  BY EmptySeq, LenProperties DEF Inv, Types, TaskTypeOK
<1>2. ListFirst = tasks[1] /\ 1 \in DOMAIN tasks
  BY <1>1 DEF ListFirst
<1>3. PICK i \in DOMAIN tasks : a = tasks[i]
  BY DEF Listed
<1>4. 1 < i
  BY <1>1, <1>2, <1>3
<1>5. \/ heap[tasks[1]].proc_ms < heap[tasks[i]].proc_ms
      \/ heap[tasks[1]].proc_ms = heap[tasks[i]].proc_ms /\ heap[tasks[1]].stamp < heap[tasks[i]].stamp
  BY <1>2, <1>4, ListFacts DEF InDueOrder
<1> QED
  BY <1>2, <1>3, <1>5 DEF Promise!Before, AsTask

(* A valid task that is taken begins; one that was cancelled is dropped    *)
(* later and was not waiting.                                              *)
LEMMA TakeTaskBegins ==
    ASSUME NEW o, OneOwner(o), Inv, OneInv(o), OneInv(o)', NEW w \in Workers, TakeTask(w)
    PROVE  PromiseStep
PROOF
<1>0. w \in Threads /\ w # o
  BY ThreadFacts
<1>1. pc[w] = "timer" /\ UNCHANGED <<started, posted, now>>
  BY DEF TakeTask, clockVars
<1>2. CASE Goto(w, "loop") /\ UNCHANGED <<taskVars, first>>
  <2>1. pc'[w] = "loop" /\ \A u \in Threads \ {w} : pc'[u] = pc[u]
    BY <1>0, <1>2, Moved
  <2> QED
    BY <1>1, <1>2, <2>1, OnlyMoving, ThreadFacts
<1>3. CASE /\ FirstIsDue /\ ListDelFirst /\ Goto(w, "run")
           /\ first' = [first EXCEPT ![w] = ListFirst]
  <2>1. pc'[w] = "run" /\ \A u \in Threads \ {w} : pc'[u] = pc[u]
    BY <1>0, <1>3, Moved
  <2>2. Open /\ \A v \in Workers \ {w} : pc[v] = "none"
    BY <1>1, TakesWhenOpen
  <2>3. Open' <=> Open
    BY <1>0, <1>1, <2>1, ThreadFacts, OpenIs, OpenBecomes
  <2>4. Current = {}
    BY <1>1, <2>2 DEF Current
  <2>5. first'[w] = ListFirst /\ heap' = heap
    BY <1>3 DEF Inv, Types, ListDelFirst
  <2>6. ListFirst \in Listed /\ Listed' = Listed \ {ListFirst} /\ tasks # <<>>
    BY <1>3, ListFacts, ListDelFirstKeeps DEF FirstIsDue
  <2>7. \A v \in Workers : pc'[v] \in Taking => v = w
    BY <2>1, <2>2, ThreadFacts
  <2>8. \A a : AsTask(a)' = AsTask(a) /\ (Valid(a)' <=> Valid(a))
    BY <2>5 DEF AsTask, Valid
  <2>9. CASE ~Valid(ListFirst)
    <3>1. Current' = {}
      BY <2>5, <2>7, <2>9 DEF Current, Valid
    <3>2. {b \in Listed' : Valid(b)'} = {b \in Listed : Valid(b)}
      BY <2>6, <2>8, <2>9
    <3>3. Waiting' = Waiting
      BY <2>8, <3>2 DEF Waiting
    <3> QED
      BY <1>1, <2>3, <2>4, <3>1, <3>3, Stutters DEF Mapped
  <2>10. CASE Valid(ListFirst)
    <3> DEFINE t == AsTask(ListFirst)
    <3>1. t \in Waiting
      BY <2>6, <2>10 DEF Waiting
    <3>2. t.due <= now
      BY <1>3 DEF FirstIsDue, AsTask
    <3>3. \A s \in Waiting \ {t} : Promise!Before(t, s)
      BY <2>6, FirstComesFirst DEF Waiting
    <3>4. Current' = {t}
      <4>1. AsTask(first[w])' = t /\ Valid(first[w])'
        BY <2>5, <2>10 DEF AsTask, Valid
      <4>2. {v \in Workers : pc'[v] \in Taking /\ Valid(first[v])'} = {w}
        BY <2>1, <2>7, <4>1
      <4> QED
        BY <4>1, <4>2 DEF Current
    <3>5. Waiting' = Waiting \ {t}
      <4>1. \A b \in Listed : AsTask(b) = t => b = ListFirst
        BY <2>6, TasksDiffer
      <4> QED
        BY <2>6, <2>8, <4>1 DEF Waiting
    <3> HIDE DEF t
    <3> QED
      BY <1>1, <2>2, <2>3, <2>4, <3>1, <3>2, <3>3, <3>4, <3>5, Begins
  <2> QED
    BY <2>9, <2>10
<1> QED
  BY <1>2, <1>3 DEF TakeTask

(* The callback of a task, if it has not been cancelled, and its return.   *)
LEMMA RunsAndEnds ==
    ASSUME NEW o, OneOwner(o), Inv, OneInv(o), OneInv(o)', NEW w \in Workers,
           Run(w) \/ Return(w) \/ Drop(w)
    PROVE  PromiseStep
PROOF
<1>0. w \in Threads /\ w # o
  BY ThreadFacts
<1>1. UNCHANGED <<tasks, started, posted, now>>
  BY DEF Run, Return, Drop, MoveOn, TaskDestroy, taskVars, sharedVars, restVars, schedVars, clockVars
<1>2. /\ pc[w] \in {"run", "proc", "drop"}
      /\ \E label \in {"proc", "drop", "loop"} : Goto(w, label)
  BY DEF Run, Return, Drop, MoveOn
<1>3. pc'[w] # "join" /\ \A u \in Threads \ {w} : pc'[u] = pc[u]
  BY <1>0, <1>2, Moved
<1>4. Open' <=> Open
  BY <1>0, <1>1, <1>3, ThreadFacts, OpenIs, OpenBecomes
<1>5. \A v \in Workers \ {w} : pc[v] = "none" /\ pc'[v] = "none"
  BY <1>2, <1>3, TakesWhenOpen, ThreadFacts
<1>6. CASE Run(w) /\ Valid(first[w])
  <2>1. pc[w] = "run" /\ Goto(w, "proc") /\ UNCHANGED <<taskVars, first>>
    BY <1>6 DEF Run, MoveOn, Valid, sharedVars, restVars
  <2>2. pc'[w] = "proc"
    <3> HIDE DEF OneInv, OneOwner, Goto
    <3> QED
      BY <1>0, <2>1, Moved
  <2>3. Current' = Current
    BY <1>5, <2>1, <2>2, CurrentStays DEF taskVars
  <2>4. Waiting' = Waiting
    BY <2>1, WaitingStays
  <2> QED
    BY <1>1, <1>4, <2>3, <2>4, Stutters DEF Mapped
<1>7. CASE Run(w) /\ ~Valid(first[w])
  <2>1. pc[w] = "run" /\ Goto(w, "drop") /\ UNCHANGED <<taskVars, first>>
    BY <1>7 DEF Run, MoveOn, Valid, sharedVars, restVars
  <2>2. pc'[w] = "drop"
    <3> HIDE DEF OneInv, OneOwner, Goto
    <3> QED
      BY <1>0, <2>1, Moved
  <2>3. Current' = {}
    BY <1>5, <2>2 DEF Current
  <2>4. Waiting' = Waiting
    BY <2>1, WaitingStays
  <2> QED
    BY <1>1, <1>4, <2>3, <2>4, Ends
<1>8. CASE Return(w)
  <2>1. Goto(w, "drop") /\ UNCHANGED taskVars
    BY <1>8 DEF Return, MoveOn, sharedVars
  <2>2. pc'[w] = "drop"
    <3> HIDE DEF OneInv, OneOwner
    <3> QED
      BY <1>0, <2>1, Moved
  <2>3. Current' = {}
    BY <1>5, <2>2 DEF Current
  <2>4. Waiting' = Waiting
    BY <2>1, WaitingStays
  <2> QED
    BY <1>1, <1>4, <2>3, <2>4, Ends
<1>9. CASE Drop(w)
  <2>1. pc[w] = "drop" /\ Goto(w, "loop") /\ heap' = [heap EXCEPT ![first[w]] = Free]
    BY <1>9 DEF Drop, TaskDestroy
  <2>2. pc'[w] = "loop"
    <3> HIDE DEF OneInv, OneOwner, Goto
    <3> QED
      BY <1>0, <2>1, Moved
  <2>3. Current' = {}
    BY <1>5, <2>2 DEF Current
  <2>4. \A b \in Listed : heap'[b] = heap[b]
    <3>1. \A b \in Listed : b \in Addr /\ b # first[w]
      BY ListFacts DEF Inv, HeapOwnership
    <3> QED
      BY <2>1, <3>1 DEF Inv, Types, TaskTypeOK
  <2>5. Waiting' = Waiting
    <3>1. Listed' = Listed
      BY <1>1 DEF Listed
    <3> QED
      BY <2>4, <3>1 DEF Waiting, Valid, AsTask
  <2> QED
    BY <1>1, <1>4, <2>3, <2>5, Ends
<1> QED
  BY <1>6, <1>7, <1>8, <1>9

(* A task that is current is in no other hands and not in the list.        *)
LEMMA InHand ==
    ASSUME Inv, NEW w \in Workers, pc[w] \in {"run", "proc"}
    PROVE  first[w] \in Addr \ Listed /\ heap[first[w]] # Free
PROOF
<1>1. first[w] # NULL
  BY DEF Inv, Hands, TaskInHand
<1> QED
  BY <1>1 DEF Inv, Types, HeapOwnership
(* awe_uxscheduler_post and awe_uxscheduler_cancel.                        *)
LEMMA UsersAreServed ==
    ASSUME NEW o, OneOwner(o), Inv, OneInv(o), OneInv(o)', NEW t \in Threads, UserStep(t)
    PROVE  PromiseStep
PROOF
<1>1. ASSUME NEW a \in Addr, NEW d \in Delays, Post(t, a, d) PROVE PromiseStep
  <2>1. /\ ListInsert(a, now + d, posted) /\ started
        /\ posted' = posted + 1 /\ UNCHANGED <<pc, started, first, now>>
    BY <1>1 DEF Post, schedVars
  <2>2. now + d \in Int
    BY NumbersAreNumbers DEF Inv, Types
  <2>3. /\ Listed' = Listed \cup {a} /\ a \notin Listed
        /\ \A b \in Addr \ {a} : heap'[b] = heap[b]
    BY <2>1, <2>2, ListFacts, ListInsertKeeps
  <2>4. /\ heap[a] = Free
        /\ heap'[a] = [proc_ms |-> now + d, state |-> "valid", stamp |-> posted]
    BY <2>1 DEF ListInsert, Inv, Types, TaskTypeOK
  <2>5. Open /\ Open'
    BY <2>1 DEF Open
  <2>6. Current' = Current
    <3>1. \A w \in Workers : pc[w] \in {"run", "proc"} => heap'[first[w]] = heap[first[w]]
      BY <2>3, <2>4, InHand
    <3> QED
      BY <2>1, <3>1, CurrentStays
  <2>7. Waiting' = Waiting \cup {[due |-> now + d, rank |-> posted]}
    <3>1. Valid(a)' /\ AsTask(a)' = [due |-> now + d, rank |-> posted]
      BY <2>4 DEF Valid, AsTask
    <3>2. \A b \in Listed : (Valid(b)' <=> Valid(b)) /\ AsTask(b)' = AsTask(b)
      BY <2>3, ListFacts DEF Valid, AsTask
    <3> QED
      BY <2>3, <3>1, <3>2 DEF Waiting
  <2> QED
    BY <2>1, <2>5, <2>6, <2>7, Accepts
<1>2. ASSUME NEW id \in Addr, Cancel(t, id) PROVE PromiseStep
  <2>1. ListCancel(id) /\ started /\ UNCHANGED <<pc, started, first, posted, now>>
    BY <1>2 DEF Cancel, schedVars, restVars, clockVars
  <2>2. /\ Listed' = Listed
        /\ \A b \in Addr \ Listed : heap'[b] = heap[b]
    BY <2>1, ListFacts, ListCancelKeeps
  <2>3. Open /\ Open'
    BY <2>1 DEF Open
  <2>4. Current' = Current
    BY <2>1, <2>2, InHand, CurrentStays
  <2>5. CASE ~(id \in Listed /\ Valid(id))
    <3>1. \A b \in Listed : (Valid(b)' <=> Valid(b)) /\ AsTask(b)' = AsTask(b)
      <4>1. CASE id \notin Listed
        BY <2>1, <4>1 DEF ListCancel, Valid, AsTask
      <4>2. CASE id \in Listed
        <5>1. heap[id] \in TimerTask /\ heap[id].state # "valid"
          BY <2>5, <4>2, TasksDiffer DEF Valid
        <5>2. heap' = [heap EXCEPT ![id].state = "invalid"]
          BY <2>1, <4>2 DEF ListCancel
        <5>3. /\ heap'[id].state = "invalid" /\ heap'[id].proc_ms = heap[id].proc_ms
              /\ heap'[id].stamp = heap[id].stamp
          BY <5>1, <5>2 DEF Inv, Types, TaskTypeOK, TimerTask
        <5>4. \A b \in Addr \ {id} : heap'[b] = heap[b]
          BY <5>2 DEF Inv, Types, TaskTypeOK
        <5> QED
          BY <5>1, <5>3, <5>4, ListFacts DEF Valid, AsTask
      <4> QED
        BY <4>1, <4>2
    <3>2. Waiting' = Waiting
      BY <2>2, <3>1 DEF Waiting
    <3> QED
      BY <2>1, <2>3, <2>4, <3>2, Stutters DEF Mapped
  <2>6. CASE id \in Listed /\ Valid(id)
    <3>1. heap[id] \in TimerTask
      BY <2>6, TasksDiffer
    <3>2. heap' = [heap EXCEPT ![id].state = "invalid"]
      BY <2>1, <2>6 DEF ListCancel
    <3>3. ~Valid(id)'
      BY <3>1, <3>2 DEF Inv, Types, TaskTypeOK, TimerTask, Valid
    <3>4. \A b \in Listed \ {id} : (Valid(b)' <=> Valid(b)) /\ AsTask(b)' = AsTask(b)
      BY <3>2, ListFacts DEF Inv, Types, TaskTypeOK, Valid, AsTask
    <3>5. \A b \in Listed : AsTask(b) = AsTask(id) => b = id
      BY <2>6, TasksDiffer
    <3>6. AsTask(id) \in Waiting
      BY <2>6 DEF Waiting
    <3>7. Waiting' = Waiting \ {AsTask(id)}
      BY <2>2, <2>6, <3>3, <3>4, <3>5 DEF Waiting
    <3> QED
      BY <2>1, <2>3, <2>4, <3>6, <3>7, Withdraws
  <2> QED
    BY <2>5, <2>6
<1>3. ~RmReturn(t)
  BY DEF RmReturn
<1> QED
  BY <1>1, <1>2, <1>3, SocketsStutter DEF UserStep

(* The steps of the owner by which the service opens and closes, and by    *)
(* which destroy empties it.                                               *)
LEMMA OpensAndCloses ==
    ASSUME NEW o, OneOwner(o), Inv, OneInv(o), OneInv(o)', NEW t \in Threads,
           StartLock(t) \/ StopJoin(t) \/ DestroyClearTasks(t)
    PROVE  PromiseStep
PROOF
<1>1. CASE StartLock(t)
  <2>1. t = o /\ UNCHANGED <<taskVars, first, posted, now>>
    BY <1>1 DEF StartLock, Abort, sharedVars, restVars, clockVars
  <2>2. \A w \in Workers : pc[w] = "none"
    BY <1>1, <2>1, ThreadFacts DEF StartLock, CanCall, Resting
  <2>3. tid = NoThread
    BY <2>2, Typed
  <2>4. CASE UNCHANGED <<pc, started>>
    BY <2>1, <2>4, OnlyMoving
  <2>5. CASE ~UNCHANGED <<pc, started>>
    <3>1. PICK w \in Workers : started' = TRUE /\ pc' = [pc EXCEPT ![t] = "arm", ![w] = "loop"]
      BY <1>1, <2>3, <2>5 DEF StartLock, Abort, sharedVars, schedVars
    <3>2. \A v \in Workers : pc'[v] \notin Taking
      BY <2>1, <2>2, <3>1, ThreadFacts DEF Inv, Types
    <3>3. Current' = Current
      BY <2>1, <2>2, <3>2, CurrentStays
    <3>4. Waiting' = Waiting
      BY <2>1, WaitingStays
    <3> QED
      BY <2>1, <3>1, <3>3, <3>4, OpensUp DEF Open
  <2> QED
    BY <2>4, <2>5
<1>2. CASE StopJoin(t)
  <2>1. t = o /\ pc[o] = "join" /\ ~started
    BY <1>2 DEF StopJoin
  <2>2. UNCHANGED <<taskVars, first, posted, now, started>>
    BY <1>2 DEF StopJoin, schedVars, restVars, clockVars
  <2>3. CASE running /\ pc' = pc
    BY <2>2, <2>3, OnlyMoving
  <2>4. CASE /\ ~running
             /\ Goto(t, IF t \in Clients /\ life = "destroying" THEN "clear" ELSE Resting(t))
    <3>1. pc'[o] \in {"clear", "idle"} /\ \A u \in Threads \ {o} : pc'[u] = pc[u]
      <4>1. \E label \in {"clear", "idle"} : Goto(o, label)
        BY <2>1, <2>4, ThreadFacts DEF Resting
      <4>2. o \in Threads
        BY ThreadFacts
      <4> HIDE DEF OneInv, OneOwner, Goto
      <4> QED
        BY <4>1, <4>2, Moved
    <3>2. \A w \in Workers : pc[w] = "none" /\ pc'[w] = "none"
      BY <2>1, <2>4, <3>1, ThreadFacts
    <3>3. Current = {} /\ Current' = {}
      BY <3>2 DEF Current
    <3>4. ~Open'
      BY <2>1, <2>2, <3>1, OpenBecomes
    <3>5. Waiting' = Waiting
      BY <2>2, WaitingStays
    <3> QED
      BY <2>2, <3>3, <3>4, <3>5, ClosesDown
  <2> QED
    BY <1>2, <2>3, <2>4 DEF StopJoin
<1>3. CASE DestroyClearTasks(t)
  <2>1. t = o /\ pc[o] = "cleartasks" /\ ~started /\ \A w \in Workers : pc[w] = "none"
    BY <1>3 DEF DestroyClearTasks
  <2>2. pc'[o] = "dispose" /\ \A u \in Threads \ {o} : pc'[u] = pc[u]
    <3>1. Goto(o, "dispose")
      BY <1>3, <2>1 DEF DestroyClearTasks
    <3> HIDE DEF OneInv, OneOwner, Goto
    <3> QED
      BY <2>1, <3>1, Moved
  <2>3. ListClear /\ UNCHANGED <<started, posted, now>>
    BY <1>3 DEF DestroyClearTasks, schedVars, restVars, clockVars
  <2>4. ~Open /\ ~Open'
    BY <2>1, <2>2, <2>3, OpenIs, OpenBecomes
  <2>5. Current = {} /\ Current' = {}
    BY <2>1, <2>2, ThreadFacts DEF Current
  <2>6. Waiting' = {}
    BY <2>3, ListFacts, ListClearKeeps DEF Waiting
  <2>7. Open' <=> Open
    BY <2>4
  <2> QED
    BY <2>3, <2>4, <2>5, <2>6, <2>7, Discards
<1> QED
  BY <1>1, <1>2, <1>3

(* Wakeups and the clock.                                                  *)
LEMMA ElsewhereStutters ==
    ASSUME NEW o, OneOwner(o), Inv, OneInv(o), OneInv(o)',
           (\E t \in Threads : Timeout(t) \/ Spurious(t)) \/ Tick \/ UNCHANGED vars
    PROVE  PromiseStep
PROOF
<1>1. UNCHANGED <<taskVars, pc, started, first, posted>>
  BY DEF Timeout, Spurious, Tick, vars, sharedVars, restVars, schedVars, clockVars
<1>2. now' \in Int
  <2>1. now' = now \/ now' = now + 1
    BY DEF Timeout, Spurious, Tick, vars, restVars, clockVars
  <2>2. now \in Int
    BY DEF Inv, Types
  <2> QED
    BY <2>1, <2>2
<1>3. Current' = Current /\ (Open' <=> Open)
  BY <1>1, CurrentStays, OpenIs, OpenBecomes DEF taskVars
<1>4. Waiting' = Waiting
  BY <1>1, WaitingStays
<1> QED
  BY <1>1, <1>2, <1>3, <1>4, ClockIsMoved

LEMMA NextPromise ==
    ASSUME NEW o, OneOwner(o), Inv, OneInv(o), OneInv(o)', [Next]_vars
    PROVE  PromiseStep
PROOF
<1> HIDE DEF OneInv, OneOwner
<1>1. ASSUME NEW t \in Threads, OwnerStep(t) PROVE PromiseStep
  BY <1>1, OwnerStutters, OpensAndCloses DEF OwnerStep
<1>2. ASSUME NEW w \in Workers, WorkerStep(w) PROVE PromiseStep
  BY <1>2, WorkerStutters, TakeTaskBegins, RunsAndEnds DEF WorkerStep
<1> QED
  BY <1>1, <1>2, UsersAreServed, ElsewhereStutters DEF Next, Terminated

LEMMA InitPromise ==
    ASSUME NEW o, OneOwner(o), Init
    PROVE  Promise!DTInit
PROOF
<1>1. OneInv(o) /\ Inv
  BY InitOneInv, InitInv
<1>2. ~started /\ pc[o] = "idle" /\ (\A w \in Workers : pc[w] = "none") /\ posted = 0 /\ now = 0
  BY ThreadFacts DEF Init
<1>3. ~Open
  BY <1>1, <1>2, OpenIs
<1>4. Current = {}
  BY <1>2 DEF Current
<1>5. Listed = {}
  BY DEF Init, ListInit, Listed
<1>6. Waiting = {}
  BY <1>5 DEF Waiting
<1> QED
  BY <1>2, <1>3, <1>4, <1>6 DEF Promise!DTInit, Open, Waiting, Current
-----------------------------------------------------------------------------
(* What a program can rely on in which one client starts, stops and        *)
(* destroys the uxscheduler, and handlers and callbacks remove sockets.    *)

(* No assertion on the thread fails, the worker calls no uxevent that was  *)
(* freed, by the handler before or by itself, and destroy frees nothing    *)
(* that a worker can still touch.                                          *)
THEOREM OwnedUxSchedulerIsSafe ==
    ASSUME NEW o \in Clients, Owners = {o}, Removers \subseteq Workers
    PROVE  Spec => []NoFault
PROOF
<1>1. OneInv(o) => NoFault
  OBVIOUS
<1>2. OneOwner(o)
  OBVIOUS
<1> HIDE DEF OneOwner, OneInv, NoFault
<1> QED
  BY <1>1, <1>2, SpecOneInv, PTL

(* The handler that is called is the one of the socket that was ready,     *)
(* although the uxevent is looked up without the mutex, and its address    *)
(* may have been used for another socket meanwhile.                        *)
THEOREM OwnedUxSchedulerCallsRight ==
    ASSUME NEW o \in Clients, Owners = {o}, Removers \subseteq Workers
    PROVE  Spec => []RightHandler
PROOF
<1>1. OneInv(o) => RightHandler
  OBVIOUS
<1>2. OneOwner(o)
  OBVIOUS
<1> HIDE DEF OneOwner, OneInv, RightHandler
<1> QED
  BY <1>1, <1>2, SpecOneInv, PTL

(* A worker that sleeps for want of sockets is woken by the add of one and *)
(* by stop.  The one condition of the uxscheduler is enough for that only  *)
(* because nobody else waits on it then: where a client removes, the       *)
(* signal of add may wake that client instead.                             *)
THEOREM OwnedUxSchedulerIsWoken ==
    ASSUME NEW o \in Clients, Owners = {o}, Removers \subseteq Workers
    PROVE  Spec => []NoLostWakeup
PROOF
<1>1. OneInv(o) => NoLostWakeup
  OBVIOUS
<1>2. OneOwner(o)
  OBVIOUS
<1> HIDE DEF OneOwner, OneInv, NoLostWakeup
<1> QED
  BY <1>1, <1>2, SpecOneInv, PTL

(* The uxscheduler implements DelayedTasks: its tasks run in due order,    *)
(* one at a time, each once, none before its time, none that was           *)
(* cancelled, and none once stop has returned.                             *)
THEOREM OwnedUxSchedulerKeepsPromise ==
    ASSUME NEW o \in Clients, Owners = {o}, Removers \subseteq Workers
    PROVE  Spec => KeepsPromise
PROOF
<1>1. OneOwner(o)
  OBVIOUS
<1> HIDE DEF OneOwner, OneInv
<1>2. Init => Promise!DTInit
  BY <1>1, InitPromise
<1>3. Inv /\ OneInv(o) /\ (OneInv(o))' /\ [Next]_vars => [Promise!DTNext]_(Promise!dtVars)
  BY <1>1, NextPromise DEF PromiseStep
<1> QED
  BY <1>1, <1>2, <1>3, SpecOneInv, PTL DEF KeepsPromise, Spec, Promise!DTSpec
=============================================================================

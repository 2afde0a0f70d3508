--------------------------- MODULE ConnectorProofs ---------------------------
(***************************************************************************)
(* Proofs about Scheduler and about Connector over it, for any number of   *)
(* threads, addresses, triggers, connectors and connections.               *)
(*                                                                         *)
(* The scheduler, for every program: the lists own what is allocated and   *)
(* the trigger stays watched.  Programs that keep the three rules call no  *)
(* freed watcher and lose no delayed task.                                 *)
(*                                                                         *)
(* Connectors, which destroy the task that is being run and so never keep  *)
(* the rule "own": their users are told one outcome, their watchers and    *)
(* descriptors are their own, and what they free was stopped, as long as   *)
(* the program stops the scheduler outside of the loop and opens none in   *)
(* the callback of a timeout.                                              *)
(***************************************************************************)
EXTENDS Connector, ConnectionProofs, SequenceTheorems, TLAPS

Once(l) == \A i, j \in DOMAIN l : l[i] = l[j] => i = j

(* The trigger's watcher is the program's to use in no way.                *)
TriggerHeld ==
    started /\ sock = "open" =>
        /\ triggertoken \in active /\ triggertoken \in Members(evio_list)
        /\ objs[triggertoken].kind = "trigger"

StoppedIsEmpty == ~started => evio_list = <<>> /\ evtimer_list = <<>>

(* The objects and the lists that own them: ListsOwn in other words.       *)
Store ==
    /\ objs \in [Tokens -> Object \cup {Freed}]
    /\ evio_list \in Seq(Tokens) /\ evtimer_list \in Seq(Tokens)
    /\ Once(evio_list) /\ Once(evtimer_list)
    /\ \A t \in Tokens :
         /\ t \in Members(evio_list) <=> objs[t] # Freed /\ objs[t].kind \in {"io", "trigger"}
         /\ t \in Members(evtimer_list) <=>
              objs[t] # Freed /\ objs[t].kind \in {"once", "periodic"}
         /\ objs[t] # Freed => objs[t].refs = 1

(* What holds in every program.                                            *)
Basics == TypeOK /\ Store /\ TriggerHeld /\ StoppedIsEmpty

(* One thread at most was created, the handle says that it runs or is      *)
(* about to, and meanwhile the program's thread runs no loop.              *)
TakeTurns ==
    /\ \A v, w \in Workers : pc[v] # "none" /\ pc[w] # "none" => v = w
    /\ \A w \in Workers :
         pc[w] # "none" => pc[Main] \in {"arm", "mark"} \/ (running /\ pc[Main] = "idle")
    /\ \A c \in Callers : pc[c] \in {"idle", "write"}
    /\ \A x \in Threads : looping = x <=> pc[x] = "loop"
    /\ phase = "out" <=> looping = NoThread

(* A scheduler that was stopped, or destroyed, is not used.                *)
AtRest ==
    /\ ~started /\ looping = NoThread /\ pc[Main] = "idle"
    /\ \A w \in Workers : pc[w] = "none"

(* libev's sets: nothing is pending while libev waits, and a timer is      *)
(* either active or pending, or its callback runs.                         *)
EvSets ==
    /\ phase \in {"out", "poll"} => pending = {}
    /\ \A t \in Timers : t \notin active \cap pending
    /\ phase = "task" => current \in Members(evtimer_list)
    /\ phase = "task" /\ objs[current].kind = "once" => current \notin active \cup pending

Orderly ==
    /\ fault = "none"
    /\ TakeTurns
    /\ life # "live" => AtRest
    /\ life = "live" => FreedIsInactive
    /\ EvSets
    /\ OneShotsEnd

(* The inductive invariant.                                                *)
Inv == Basics /\ (rules = Rules => Orderly)
-----------------------------------------------------------------------------
(* Lists.                                                                  *)

(* What is left when place i is taken out.                                 *)
LEMMA WithoutPlaceIs ==
    ASSUME NEW S, NEW l \in Seq(S), NEW i \in 1 .. Len(l)
    PROVE  /\ WithoutPlace(l, i) \in Seq(S) /\ Len(WithoutPlace(l, i)) = Len(l) - 1
           /\ \A j \in 1 .. Len(l) - 1 :
                WithoutPlace(l, i)[j] = IF j < i THEN l[j] ELSE l[j + 1]
PROOF
<1> DEFINE a == SubSeq(l, 1, i - 1)
           b == SubSeq(l, i + 1, Len(l))
<1> HIDE DEF a, b
<1>0. Len(l) \in Nat /\ i \in Int /\ 1 <= i /\ i <= Len(l) /\ \A j \in 1 .. Len(l) : l[j] \in S
  BY LenProperties
<1>1. a \in Seq(S) /\ Len(a) = i - 1 /\ \A j \in 1 .. i - 1 : a[j] = l[j]
  <2>1. /\ \A j \in 1 .. i - 1 : l[j] \in S
        /\ i - 1 \in Int /\ 1 \in Int
    BY <1>0
  <2>2. /\ a \in Seq(S) /\ Len(a) = IF 1 <= i - 1 THEN i - 1 - 1 + 1 ELSE 0
        /\ \A j \in 1 .. i - 1 - 1 + 1 : a[j] = l[1 + j - 1]
    BY <2>1, SubSeqProperties DEF a
  <2> QED
    BY <1>0, <2>2
<1>2. b \in Seq(S) /\ Len(b) = Len(l) - i /\ \A j \in 1 .. Len(l) - i : b[j] = l[i + j]
  <2>1. /\ \A j \in i + 1 .. Len(l) : l[j] \in S
        /\ i + 1 \in Int /\ Len(l) \in Int
    BY <1>0
  <2>2. /\ b \in Seq(S) /\ Len(b) = IF i + 1 <= Len(l) THEN Len(l) - (i + 1) + 1 ELSE 0
        /\ \A j \in 1 .. Len(l) - (i + 1) + 1 : b[j] = l[(i + 1) + j - 1]
    BY <2>1, SubSeqProperties DEF b
  <2>3. ASSUME NEW j \in 1 .. Len(l) - i
        PROVE  b[j] = l[i + j]
    <3>1. j \in 1 .. Len(l) - (i + 1) + 1 /\ (i + 1) + j - 1 = i + j
      BY <1>0
    <3> QED
      BY <2>2, <3>1
  <2> QED
    BY <1>0, <2>2, <2>3
<1>3. /\ a \o b \in Seq(S) /\ Len(a \o b) = Len(l) - 1
      /\ \A j \in 1 .. Len(l) - 1 : (a \o b)[j] = IF j <= i - 1 THEN a[j] ELSE b[j - (i - 1)]
  <2>1. Len(a) + Len(b) = Len(l) - 1
    BY <1>0, <1>1, <1>2
  <2>2. /\ a \o b \in Seq(S) /\ Len(a \o b) = Len(a) + Len(b)
        /\ \A j \in 1 .. Len(a) + Len(b) :
             (a \o b)[j] = IF j <= Len(a) THEN a[j] ELSE b[j - Len(a)]
    BY <1>1, <1>2, ConcatProperties
  <2> QED
    BY <1>1, <2>1, <2>2
<1>4. WithoutPlace(l, i) = a \o b
  BY DEF WithoutPlace, a, b
<1>5. ASSUME NEW j \in 1 .. Len(l) - 1
      PROVE  (a \o b)[j] = IF j < i THEN l[j] ELSE l[j + 1]
  <2>1. CASE j < i
    <3>1. j \in 1 .. i - 1
      BY <1>0, <2>1
    <3> QED
      BY <1>0, <1>1, <1>3, <2>1, <3>1
  <2>2. CASE ~ j < i
    <3>1. j - (i - 1) \in 1 .. Len(l) - i /\ i + (j - (i - 1)) = j + 1
      BY <1>0, <2>2
    <3> QED
      BY <1>0, <1>2, <1>3, <2>2, <3>1
  <2> QED
    BY <2>1, <2>2
<1> QED
  BY <1>3, <1>4, <1>5

(* Taking an object out takes out no other, and leaves none of it behind.  *)
LEMMA WithoutIs ==
    ASSUME NEW S, NEW l \in Seq(S), NEW t, Once(l)
    PROVE  /\ Without(l, t) \in Seq(S) /\ Once(Without(l, t))
           /\ Members(Without(l, t)) = Members(l) \ {t}
PROOF
<1>1. CASE t \notin Members(l)
  BY <1>1 DEF Without
<1>2. CASE t \in Members(l)
  <2> DEFINE i == FirstPlace(l, t)
             m == WithoutPlace(l, i)
  <2>1. i \in 1 .. Len(l) /\ l[i] = t
    <3>1. PICK k \in DOMAIN l : l[k] = t
      BY <1>2 DEF Members
    <3>2. k \in DOMAIN l /\ l[k] = t /\ \A j \in 1 .. k - 1 : l[j] # t
      BY <3>1, LenProperties DEF Once
    <3> QED
      BY <3>2, LenProperties DEF FirstPlace
  <2> HIDE DEF i
  <2>2. m \in Seq(S) /\ Len(m) = Len(l) - 1
        /\ \A j \in 1 .. Len(l) - 1 : m[j] = IF j < i THEN l[j] ELSE l[j + 1]
    BY <2>1, WithoutPlaceIs
  <2> HIDE DEF m
  <2>3. DOMAIN l = 1 .. Len(l) /\ DOMAIN m = 1 .. Len(l) - 1 /\ Len(l) \in Nat
    BY <2>2, LenProperties
  <2>4. Once(m)
    <3> SUFFICES ASSUME NEW j \in 1 .. Len(l) - 1, NEW k \in 1 .. Len(l) - 1, m[j] = m[k]
                 PROVE  j = k
      BY <2>3 DEF Once
    <3>1. l[IF j < i THEN j ELSE j + 1] = l[IF k < i THEN k ELSE k + 1]
      BY <2>2
    <3>2. (IF j < i THEN j ELSE j + 1) \in DOMAIN l /\ (IF k < i THEN k ELSE k + 1) \in DOMAIN l
      BY <2>1, <2>3
    <3>3. (IF j < i THEN j ELSE j + 1) = (IF k < i THEN k ELSE k + 1)
      BY <3>1, <3>2 DEF Once
    <3> QED
      BY <2>1, <2>3, <3>3
  <2>5. Members(m) \subseteq Members(l) \ {t}
    BY <2>1, <2>2, <2>3 DEF Once, Members
  <2>6. ASSUME NEW u \in Members(l) \ {t}
        PROVE  u \in Members(m)
    <3>1. PICK k \in 1 .. Len(l) : l[k] = u
      BY <2>3, <2>6 DEF Members
    <3>2. k # i
      BY <2>1, <2>6, <3>1
    <3>3. CASE k < i
      <4>1. k \in DOMAIN m /\ m[k] = u
        BY <2>1, <2>2, <2>3, <3>1, <3>3
      <4> QED
        BY <4>1 DEF Members
    <3>4. CASE k > i
      <4>1. k - 1 \in DOMAIN m /\ m[k - 1] = u
        BY <2>1, <2>2, <2>3, <3>1, <3>4
      <4> QED
        BY <4>1 DEF Members
    <3> QED
      BY <2>1, <2>3, <3>2, <3>3, <3>4
  <2>7. Without(l, t) = m
    BY <1>2 DEF Without, i, m
  <2> QED
    BY <2>2, <2>4, <2>5, <2>6, <2>7
<1> QED
  BY <1>1, <1>2

LEMMA AddedIs ==
    ASSUME NEW S, NEW l \in Seq(S), NEW t \in S, t \notin Members(l), Once(l)
    PROVE  /\ Added(l, t) \in Seq(S) /\ Once(Added(l, t))
           /\ Members(Added(l, t)) = Members(l) \cup {t}
PROOF
<1> DEFINE m == Added(l, t)
<1>1. m \in Seq(S) /\ Len(m) = Len(l) + 1 /\ m[Len(l) + 1] = t
      /\ \A i \in 1 .. Len(l) : m[i] = l[i]
  BY DEF Added
<1> HIDE DEF m
<1>2. DOMAIN m = 1 .. Len(l) + 1 /\ DOMAIN l = 1 .. Len(l) /\ Len(l) \in Nat
  BY <1>1, LenProperties
<1>3. Once(m)
  BY <1>1, <1>2 DEF Once, Members
<1>4. Members(m) \subseteq Members(l) \cup {t}
  BY <1>1, <1>2 DEF Members
<1>5. t \in Members(m)
  BY <1>1, <1>2 DEF Members
<1>6. Members(l) \subseteq Members(m)
  BY <1>1, <1>2 DEF Members
<1> QED
  BY <1>1, <1>3, <1>4, <1>5, <1>6 DEF m
-----------------------------------------------------------------------------
(* The objects and the lists that own them.                                *)

LEMMA StoreIs == TypeOK => (Store <=> ListsOwn)
PROOF
<1> QED
  BY DEF TypeOK, Store, ListsOwn, Once, Timers

(* What is listed was allocated.                                           *)
LEMMA ListedIs ==
    ASSUME Store
    PROVE  /\ Members(evio_list) \subseteq Tokens /\ Members(evtimer_list) = Timers
           /\ Timers \subseteq Tokens
           /\ Members(evio_list) = {t \in Tokens : objs[t] # Freed /\ objs[t].kind \in {"io", "trigger"}}
           /\ \A t \in Members(evio_list) \cup Timers :
                objs[t] \in Object /\ objs[t].refs = 1
PROOF
<1>1. Members(evio_list) \subseteq Tokens /\ Members(evtimer_list) \subseteq Tokens
  BY LenProperties DEF Store, Members
<1>2. Timers \subseteq Tokens
  BY DEF Timers
<1> QED
  BY <1>1, <1>2 DEF Store, Timers

(* An object, once it is in its list, has the list's reference only.       *)
LEMMA NewObjectMade ==
    ASSUME Store, NEW t \in Tokens, NEW kind, NEW events
    PROVE  LET created == [objs EXCEPT ![t] = [kind |-> kind, refs |-> 1, events |-> events]]
           IN  Released(AddedRef(created, t), t) = created
PROOF
<1> DEFINE o == [kind |-> kind, refs |-> 1, events |-> events]
           p == [kind |-> kind, refs |-> 2, events |-> events]
           created == [objs EXCEPT ![t] = o]
           added == AddedRef(created, t)
<1>1. DOMAIN created = Tokens /\ created = [u \in Tokens |-> created[u]] /\ created[t] = o
  BY DEF Store
<1> HIDE DEF created
<1>2. [o EXCEPT !.refs = @ + 1] = p /\ [p EXCEPT !.refs = 1] = o
  OBVIOUS
<1>3. added = [created EXCEPT ![t] = p]
  BY <1>1, <1>2 DEF AddedRef
<1>4. added[t] = p /\ p.refs = 2 /\ p.refs - 1 = 1 /\ DOMAIN added = Tokens
  BY <1>1, <1>3
<1> HIDE DEF added, o, p
<1>5. Released(added, t) = [added EXCEPT ![t] = [p EXCEPT !.refs = 1]]
  BY <1>4 DEF Released
<1>6. [added EXCEPT ![t] = o] = created
  BY <1>1, <1>3
<1>7. Released(added, t) = created
  BY <1>2, <1>5, <1>6
<1> QED
  BY <1>7 DEF added, created, o

LEMMA NewObjectIs ==
    ASSUME Store, NEW t \in Tokens, NEW kind \in Kinds, NEW events \in SUBSET Masks,
           NewObject(t, kind, events)
    PROVE  /\ objs[t] = Freed
           /\ objs' = [objs EXCEPT ![t] = [kind |-> kind, refs |-> 1, events |-> events]]
           /\ objs'[t] \in Object /\ objs'[t] # Freed /\ objs'[t].kind = kind /\ objs'[t].refs = 1
           /\ \A u \in Tokens \ {t} : objs'[u] = objs[u]
PROOF
<1> DEFINE o == [kind |-> kind, refs |-> 1, events |-> events]
<1>1. objs \in [Tokens -> Object \cup {Freed}]
  BY DEF Store
<1>2. objs[t] = Freed /\ objs' = [objs EXCEPT ![t] = o]
  BY NewObjectMade DEF NewObject
<1>3. o \in Object /\ o.kind = kind /\ o.refs = 1
  BY DEF Object
<1> QED
  BY <1>1, <1>2, <1>3, FreedIsNoObject

LEMMA ReleasedIs ==
    ASSUME Store, NEW t \in Members(evio_list) \cup Members(evtimer_list)
    PROVE  Released(objs, t) = [objs EXCEPT ![t] = Freed]
PROOF
<1>1. objs[t].refs = 1
  BY ListedIs
<1> QED
  BY <1>1 DEF Released

LEMMA WatcherAdded ==
    ASSUME Store, NEW t \in Tokens, NEW kind \in {"io", "trigger"}, NEW events \in SUBSET Masks,
           NewObject(t, kind, events), evio_list' = Added(evio_list, t),
           evtimer_list' = evtimer_list
    PROVE  Store' /\ Members(evio_list') = Members(evio_list) \cup {t}
PROOF
<1>1. /\ objs[t] = Freed /\ objs'[t] \in Object /\ objs'[t] # Freed /\ objs'[t].kind = kind
      /\ objs'[t].refs = 1 /\ \A u \in Tokens \ {t} : objs'[u] = objs[u]
      /\ objs' \in [Tokens -> Object \cup {Freed}]
  BY NewObjectIs DEF Kinds, Store
<1>2. t \notin Members(evio_list) /\ t \notin Members(evtimer_list) /\ Once(evio_list)
  BY <1>1 DEF Store
<1>3. evio_list' \in Seq(Tokens) /\ Once(evio_list')
      /\ Members(evio_list') = Members(evio_list) \cup {t}
  BY <1>2, AddedIs DEF Store
<1> QED
  BY <1>1, <1>2, <1>3 DEF Store

LEMMA TimerAdded ==
    ASSUME Store, NEW t \in Tokens, NEW kind \in {"once", "periodic"}, NEW events \in SUBSET Masks,
           NewObject(t, kind, events), evtimer_list' = Added(evtimer_list, t),
           evio_list' = evio_list
    PROVE  Store' /\ Members(evtimer_list') = Members(evtimer_list) \cup {t}
PROOF
<1>1. /\ objs[t] = Freed /\ objs'[t] \in Object /\ objs'[t] # Freed /\ objs'[t].kind = kind
      /\ objs'[t].refs = 1 /\ \A u \in Tokens \ {t} : objs'[u] = objs[u]
      /\ objs' \in [Tokens -> Object \cup {Freed}]
  BY NewObjectIs DEF Kinds, Store
<1>2. t \notin Members(evio_list) /\ t \notin Members(evtimer_list) /\ Once(evtimer_list)
  BY <1>1 DEF Store
<1>3. evtimer_list' \in Seq(Tokens) /\ Once(evtimer_list')
      /\ Members(evtimer_list') = Members(evtimer_list) \cup {t}
  BY <1>2, AddedIs DEF Store
<1> QED
  BY <1>1, <1>2, <1>3 DEF Store

LEMMA WatcherDropped ==
    ASSUME Store, NEW t \in Members(evio_list), objs' = Released(objs, t),
           evio_list' = Without(evio_list, t), evtimer_list' = evtimer_list
    PROVE  /\ Store' /\ Members(evio_list') = Members(evio_list) \ {t}
           /\ objs' = [objs EXCEPT ![t] = Freed]
PROOF
<1>1. objs' = [objs EXCEPT ![t] = Freed] /\ t \in Tokens
  BY ReleasedIs, ListedIs
<1>2. evio_list' \in Seq(Tokens) /\ Once(evio_list')
      /\ Members(evio_list') = Members(evio_list) \ {t}
  BY WithoutIs DEF Store
<1>3. objs' \in [Tokens -> Object \cup {Freed}] /\ objs'[t] = Freed
      /\ \A u \in Tokens \ {t} : objs'[u] = objs[u]
  BY <1>1 DEF Store
<1> QED
  BY <1>1, <1>2, <1>3 DEF Store

LEMMA TimerDropped ==
    ASSUME Store, NEW t \in Members(evtimer_list), objs' = Released(objs, t),
           evtimer_list' = Without(evtimer_list, t), evio_list' = evio_list
    PROVE  /\ Store' /\ Members(evtimer_list') = Members(evtimer_list) \ {t}
           /\ objs' = [objs EXCEPT ![t] = Freed]
PROOF
<1>1. objs' = [objs EXCEPT ![t] = Freed] /\ t \in Tokens
  BY ReleasedIs, ListedIs
<1>2. evtimer_list' \in Seq(Tokens) /\ Once(evtimer_list')
      /\ Members(evtimer_list') = Members(evtimer_list) \ {t}
  BY WithoutIs DEF Store
<1>3. objs' \in [Tokens -> Object \cup {Freed}] /\ objs'[t] = Freed
      /\ \A u \in Tokens \ {t} : objs'[u] = objs[u]
  BY <1>1 DEF Store
<1> QED
  BY <1>1, <1>2, <1>3 DEF Store

LEMMA EventsChanged ==
    ASSUME Store, NEW t \in Members(evio_list), NEW events \in SUBSET Masks,
           objs' = [objs EXCEPT ![t].events = events],
           evio_list' = evio_list, evtimer_list' = evtimer_list
    PROVE  /\ Store'
           /\ \A u \in Tokens : (objs'[u] = Freed <=> objs[u] = Freed)
                                /\ (objs[u] # Freed => objs'[u].kind = objs[u].kind)
PROOF
<1>1. t \in Tokens /\ objs[t] \in Object /\ objs[t] # Freed
  BY ListedIs
<1>2. objs \in [Tokens -> Object \cup {Freed}]
  BY DEF Store
<1>3. [objs[t] EXCEPT !.events = events] \in Object
  BY <1>1 DEF Object
<1>4. objs'[t] = [objs[t] EXCEPT !.events = events]
      /\ \A u \in Tokens \ {t} : objs'[u] = objs[u]
  BY <1>1, <1>2
<1>5. objs'[t].kind = objs[t].kind /\ objs'[t].refs = objs[t].refs
  BY <1>1, <1>4 DEF Object
<1>6. objs' \in [Tokens -> Object \cup {Freed}] /\ objs'[t] # Freed
  BY <1>1, <1>2, <1>3, <1>4, FreedIsNoObject
<1> QED
  BY <1>1, <1>4, <1>5, <1>6 DEF Store

(* Clearing the lists frees everything that was allocated.                 *)
LEMMA AllCleared ==
    ASSUME Store
    PROVE  Cleared(objs, evio_list, evtimer_list) = [t \in Tokens |-> Freed]
PROOF
<1> SUFFICES ASSUME NEW t \in Tokens
             PROVE  (IF t \in Members(evio_list) \cup Members(evtimer_list)
                       THEN Released(objs, t)[t] ELSE objs[t]) = Freed
  BY DEF Cleared
<1>1. CASE t \in Members(evio_list) \cup Members(evtimer_list)
  <2>1. Released(objs, t) = [objs EXCEPT ![t] = Freed]
    BY <1>1, ReleasedIs
  <2> QED
    BY <1>1, <2>1 DEF Store
<1>2. CASE t \notin Members(evio_list) \cup Members(evtimer_list)
  <2>1. objs[t] = Freed \/ objs[t] \in Object
    BY DEF Store
  <2>2. objs[t] = Freed
    BY <1>2, <2>1 DEF Store, Object, Kinds
  <2> QED
    BY <1>2, <2>2
<1> QED
  BY <1>1, <1>2

LEMMA StoreEmptied ==
    ASSUME objs' = [t \in Tokens |-> Freed], evio_list' = <<>>, evtimer_list' = <<>>
    PROVE  Store'
PROOF
<1>1. Members(<<>>) = {}
  BY DEF Members
<1> QED
  BY <1>1 DEF Store, Once
-----------------------------------------------------------------------------
(* The calls of a program.                                                 *)

LEMMA ThreadsAre ==
    /\ Main \in Threads /\ Workers \subseteq Threads /\ Callers \subseteq Threads
    /\ NoThread \notin Threads /\ Main \notin Workers /\ Main \notin Callers
    /\ Workers \cap Callers = {}
PROOF
<1> QED
  BY ThreadsDistinct DEF Threads

Labels == {"idle", "arm", "mark", "write", "none", "enter", "loop", "forget", "pend", "halt"}

LEMMA GotoIs ==
    ASSUME TypeOK, NEW x \in Threads, NEW label \in Labels, Goto(x, label)
    PROVE  /\ pc' \in [Threads -> Labels] /\ pc'[x] = label
           /\ \A y \in Threads \ {x} : pc'[y] = pc[y]
PROOF
<1> QED
  BY DEF TypeOK, Goto, Labels

LEMMA ListedIsStarted ==
    ASSUME Inv, Members(evio_list) # {} \/ Members(evtimer_list) # {}
    PROVE  started
PROOF
<1> QED
  BY DEF Inv, Basics, StoppedIsEmpty, Members

(* A program that keeps the rules calls what needs a token, or a started   *)
(* scheduler, only before the scheduler is stopped.                        *)
LEMMA CallsAreLive ==
    ASSUME Inv, rules = Rules,
           started \/ Members(evio_list) # {} \/ Members(evtimer_list) # {}
    PROVE  life = "live"
PROOF
<1> QED
  BY ListedIsStarted DEF Inv, Orderly, AtRest

(* Calls that leave the threads where they are.                            *)
LEMMA StayPut ==
    ASSUME Inv, rules = Rules, UNCHANGED <<pc, looping, phase, running, started>>
    PROVE  TakeTurns' /\ (AtRest => AtRest')
PROOF
<1> QED
  BY DEF Inv, Orderly, TakeTurns, AtRest

LEMMA WatchKeeps ==
    ASSUME Inv, NEW t \in Tokens, NEW events \in SUBSET Masks, Watch(t, events)
    PROVE  Inv'
PROOF
<1> USE DEF Inv
<1>1. /\ NewObject(t, "io", events) /\ started
      /\ evio_list' = Added(evio_list, t) /\ active' = active \cup {t}
      /\ UNCHANGED <<threadVars, started, evtimer_list, triggertoken, sockVars, pending,
                     breaking, loopVars, pc, endVars>>
  BY DEF Watch
<1>2. /\ objs[t] = Freed /\ objs'[t] # Freed /\ objs'[t].kind = "io"
      /\ \A u \in Tokens \ {t} : objs'[u] = objs[u]
  BY <1>1, NewObjectIs DEF Kinds, Basics
<1>3. Store' /\ Members(evio_list') = Members(evio_list) \cup {t}
  BY <1>1, WatcherAdded DEF Basics
<1>4. TypeOK'
  BY <1>1, <1>3 DEF Basics, TypeOK, ThreadTypeOK, Store, threadVars, sockVars, loopVars, endVars
<1>5. TriggerHeld' /\ StoppedIsEmpty'
  BY <1>1, <1>2, <1>3, ListedIs
     DEF Basics, TriggerHeld, StoppedIsEmpty, sockVars
<1>6. Basics'
  BY <1>3, <1>4, <1>5 DEF Basics
<1>7. ASSUME rules = Rules
      PROVE  Orderly'
  <2>1. life = "live" /\ Orderly
    BY <1>1, <1>7, CallsAreLive
  <2>2. TakeTurns'
    BY <1>1, <1>7, StayPut DEF loopVars, threadVars
  <2>3. FreedIsInactive'
    BY <1>1, <1>2, <2>1 DEF Orderly, FreedIsInactive, endVars
  <2>4. /\ Timers' = Timers /\ t \notin Timers /\ t \notin active \cup pending
        /\ Members(evtimer_list) = Timers
    BY <1>2, <2>1, ListedIs DEF Timers, Basics, Orderly, FreedIsInactive
  <2>5. EvSets'
    BY <1>1, <1>2, <2>1, <2>4, ListedIs DEF Orderly, EvSets, Basics, loopVars
  <2>6. OneShotsEnd'
    BY <1>1, <1>2, <2>1, <2>4, ListedIs DEF Orderly, OneShotsEnd, Own, loopVars, endVars, Basics
  <2> QED
    BY <1>1, <2>1, <2>2, <2>3, <2>5, <2>6 DEF Orderly, endVars
<1> QED
  BY <1>1, <1>6, <1>7 DEF endVars

(* Enabling and disabling the events of a listed watcher.                  *)
LEMMA EventsKeep ==
    ASSUME Inv, NEW t \in Tokens, NEW events \in SUBSET Masks,
           Enable(t, events) \/ Disable(t, events)
    PROVE  Inv'
PROOF
<1> USE DEF Inv
<1>1. /\ t \in Members(evio_list) /\ objs[t].kind = "io"
      /\ active' = active \cup {t} \/ active' = active \ {t}
      /\ pending' = pending \ {t}
      /\ UNCHANGED <<threadVars, started, evio_list, evtimer_list, triggertoken, sockVars,
                     breaking, loopVars, pc, endVars>>
  BY DEF Enable, Disable, Watched
<1>2. PICK e \in SUBSET Masks : objs' = [objs EXCEPT ![t].events = e]
  <2>1. objs[t] \in Object
    BY <1>1, ListedIs DEF Basics
  <2> QED
    BY <2>1 DEF Enable, Disable, Object
<1>3. /\ Store'
      /\ \A u \in Tokens : (objs'[u] = Freed <=> objs[u] = Freed)
                           /\ (objs[u] # Freed => objs'[u].kind = objs[u].kind)
  BY <1>1, <1>2, EventsChanged DEF Basics
<1>4. TypeOK'
  BY <1>1, <1>3 DEF Basics, TypeOK, ThreadTypeOK, Store, threadVars, sockVars, loopVars, endVars
<1>5. TriggerHeld' /\ StoppedIsEmpty'
  BY <1>1, <1>3, ListedIs
     DEF Basics, TriggerHeld, StoppedIsEmpty, sockVars
<1>6. Basics'
  BY <1>3, <1>4, <1>5 DEF Basics
<1>7. ASSUME rules = Rules
      PROVE  Orderly'
  <2>1. life = "live" /\ Orderly /\ objs[t] # Freed
    BY <1>1, <1>7, CallsAreLive, ListedIs DEF Basics
  <2>2. TakeTurns'
    BY <1>1, <1>7, StayPut DEF loopVars, threadVars
  <2>3. FreedIsInactive'
    BY <1>1, <1>3, <2>1 DEF Orderly, FreedIsInactive, endVars
  <2>4. /\ Timers' = Timers /\ t \notin Timers
        /\ Members(evtimer_list) = Timers
    BY <1>1, <1>3, ListedIs DEF Timers, Basics
  <2>5. EvSets'
    BY <1>1, <1>3, <2>1, <2>4, ListedIs DEF Orderly, EvSets, Basics, loopVars
  <2>6. OneShotsEnd'
    BY <1>1, <1>3, <2>1, <2>4, ListedIs DEF Orderly, OneShotsEnd, Own, loopVars, endVars, Basics
  <2> QED
    BY <1>1, <2>1, <2>2, <2>3, <2>5, <2>6 DEF Orderly, endVars
<1> QED
  BY <1>1, <1>6, <1>7 DEF endVars

LEMMA SocktokenDestroyKeeps ==
    ASSUME Inv, NEW t \in Tokens, SocktokenDestroy(t)
    PROVE  Inv'
PROOF
<1> USE DEF Inv
<1>1. /\ t \in Members(evio_list) /\ objs[t].kind = "io"
      /\ evio_list' = Without(evio_list, t) /\ objs' = Released(objs, t)
      /\ active' = active \ {t} /\ pending' = pending \ {t}
      /\ UNCHANGED <<threadVars, started, evtimer_list, triggertoken, sockVars, breaking,
                     loopVars, pc, endVars>>
  BY DEF SocktokenDestroy, SockDestroy, Watched
<1>2. /\ Store' /\ Members(evio_list') = Members(evio_list) \ {t}
      /\ objs' = [objs EXCEPT ![t] = Freed]
  BY <1>1, WatcherDropped DEF Basics
<1>3. objs'[t] = Freed /\ \A u \in Tokens \ {t} : objs'[u] = objs[u]
  BY <1>2 DEF Basics, Store
<1>4. TypeOK'
  BY <1>1, <1>2 DEF Basics, TypeOK, ThreadTypeOK, Store, threadVars, sockVars, loopVars, endVars
<1>5. TriggerHeld' /\ StoppedIsEmpty'
  BY <1>1, <1>2, <1>3, ListedIs, ListedIsStarted
     DEF Basics, TriggerHeld, StoppedIsEmpty, sockVars
<1>6. Basics'
  BY <1>2, <1>4, <1>5 DEF Basics
<1>7. ASSUME rules = Rules
      PROVE  Orderly'
  <2>1. life = "live" /\ Orderly /\ objs[t] # Freed
    BY <1>1, <1>7, CallsAreLive, ListedIs DEF Basics
  <2>2. TakeTurns'
    BY <1>1, <1>7, StayPut DEF loopVars, threadVars
  <2>3. FreedIsInactive'
    BY <1>1, <1>3, <2>1 DEF Orderly, FreedIsInactive, endVars
  <2>4. /\ Timers' = Timers /\ t \notin Timers
        /\ Members(evtimer_list) = Timers
    BY <1>1, <1>3, ListedIs DEF Timers, Basics
  <2>5. EvSets'
    BY <1>1, <1>3, <2>1, <2>4, ListedIs DEF Orderly, EvSets, Basics, loopVars
  <2>6. OneShotsEnd'
    BY <1>1, <1>3, <2>1, <2>4, ListedIs DEF Orderly, OneShotsEnd, Own, loopVars, endVars, Basics
  <2> QED
    BY <1>1, <2>1, <2>2, <2>3, <2>5, <2>6 DEF Orderly, endVars
<1> QED
  BY <1>1, <1>6, <1>7 DEF endVars

LEMMA TimerTaskKeeps ==
    ASSUME Inv, NEW t \in Tokens, NEW kind \in {"once", "periodic"}, TimerTask(t, kind)
    PROVE  Inv'
PROOF
<1> USE DEF Inv
<1>1. /\ NewObject(t, kind, {}) /\ started
      /\ evtimer_list' = Added(evtimer_list, t) /\ active' = active \cup {t}
      /\ UNCHANGED <<threadVars, started, evio_list, triggertoken, sockVars, pending,
                     breaking, loopVars, pc, endVars>>
  BY DEF TimerTask
<1>2. /\ objs[t] = Freed /\ objs'[t] # Freed /\ objs'[t].kind = kind
      /\ \A u \in Tokens \ {t} : objs'[u] = objs[u]
  BY <1>1, NewObjectIs DEF Kinds, Basics
<1>3. Store' /\ Members(evtimer_list') = Members(evtimer_list) \cup {t}
  BY <1>1, TimerAdded DEF Basics
<1>4. TypeOK'
  BY <1>1, <1>3 DEF Basics, TypeOK, ThreadTypeOK, Store, threadVars, sockVars, loopVars, endVars
<1>5. TriggerHeld' /\ StoppedIsEmpty'
  BY <1>1, <1>2, <1>3, ListedIs
     DEF Basics, TriggerHeld, StoppedIsEmpty, sockVars
<1>6. Basics'
  BY <1>3, <1>4, <1>5 DEF Basics
<1>7. ASSUME rules = Rules
      PROVE  Orderly'
  <2>1. life = "live" /\ Orderly
    BY <1>1, <1>7, CallsAreLive
  <2>2. TakeTurns'
    BY <1>1, <1>7, StayPut DEF loopVars, threadVars
  <2>3. FreedIsInactive'
    BY <1>1, <1>2, <2>1 DEF Orderly, FreedIsInactive, endVars
  <2>4. /\ Timers' = Timers \cup {t} /\ t \notin Timers /\ t \notin active \cup pending
        /\ Members(evtimer_list) = Timers
    BY <1>2, <2>1, ListedIs DEF Timers, Basics, Orderly, FreedIsInactive
  <2>5. EvSets'
    BY <1>1, <1>2, <1>3, <2>1, <2>4, ListedIs DEF Orderly, EvSets, Basics, loopVars
  <2>6. OneShotsEnd'
    BY <1>1, <1>2, <1>3, <2>1, <2>4, ListedIs
       DEF Orderly, OneShotsEnd, Own, loopVars, endVars, Basics
  <2> QED
    BY <1>1, <2>1, <2>2, <2>3, <2>5, <2>6 DEF Orderly, endVars
<1> QED
  BY <1>1, <1>6, <1>7 DEF endVars

(* Restarting a task from its own callback is what rule "again" is about.  *)
LEMMA TaskAgainKeeps ==
    ASSUME Inv, NEW t \in Tokens, TaskAgain(t)
    PROVE  Inv'
PROOF
<1> USE DEF Inv
<1>1. /\ t \in Members(evtimer_list)
      /\ ("again" \in rules /\ Own(t)) => objs[t].kind = "periodic"
      /\ active' = active \cup {t} /\ pending' = pending \ {t}
      /\ UNCHANGED <<threadVars, started, listVars, sockVars, breaking, loopVars, pc, endVars>>
  BY DEF TaskAgain
<1>2. Basics'
  <2>1. TypeOK'
    BY <1>1 DEF Basics, TypeOK, ThreadTypeOK, Store, threadVars, sockVars, loopVars, endVars,
                listVars
  <2> QED
    BY <1>1, <2>1 DEF Basics, Store, TriggerHeld, StoppedIsEmpty, listVars, sockVars
<1>3. ASSUME rules = Rules
      PROVE  Orderly'
  <2>1. life = "live" /\ Orderly /\ objs[t] # Freed
    BY <1>1, <1>3, CallsAreLive, ListedIs DEF Basics, Timers
  <2>2. TakeTurns'
    BY <1>1, <1>3, StayPut DEF loopVars, threadVars
  <2>3. FreedIsInactive'
    BY <1>1, <2>1 DEF Orderly, FreedIsInactive, listVars
  <2>4. EvSets'
    <3>1. phase = "task" /\ current = t => objs[t].kind # "once"
      BY <1>1, <1>3 DEF Rules, Own
    <3>2. Timers' = Timers
      BY <1>1 DEF Timers, listVars
    <3> QED
      BY <1>1, <2>1, <3>1, <3>2 DEF Orderly, EvSets, loopVars, listVars
  <2>5. OneShotsEnd'
    BY <1>1, <2>1 DEF Orderly, OneShotsEnd, Own, loopVars, endVars, listVars
  <2> QED
    BY <1>1, <2>1, <2>2, <2>3, <2>4, <2>5 DEF Orderly, endVars
<1> QED
  BY <1>1, <1>2, <1>3 DEF endVars

(* A callback that destroys its own task is what rule "own" is about.      *)
LEMMA TasktokenDestroyKeeps ==
    ASSUME Inv, NEW t \in Tokens, TasktokenDestroy(t)
    PROVE  Inv'
PROOF
<1> USE DEF Inv
<1>1. /\ t \in Members(evtimer_list)
      /\ "own" \in rules => ~Own(t)
      /\ evtimer_list' = Without(evtimer_list, t) /\ objs' = Released(objs, t)
      /\ active' = active \ {t} /\ pending' = pending \ {t}
      /\ UNCHANGED <<threadVars, started, evio_list, triggertoken, sockVars, breaking,
                     loopVars, pc, endVars>>
  BY DEF TasktokenDestroy
<1>2. /\ Store' /\ Members(evtimer_list') = Members(evtimer_list) \ {t}
      /\ objs' = [objs EXCEPT ![t] = Freed]
  BY <1>1, TimerDropped DEF Basics
<1>3. /\ objs[t] # Freed /\ objs[t].kind \in {"once", "periodic"}
      /\ objs'[t] = Freed /\ \A u \in Tokens \ {t} : objs'[u] = objs[u]
  BY <1>1, <1>2 DEF Basics, Store
<1>4. TypeOK'
  BY <1>1, <1>2 DEF Basics, TypeOK, ThreadTypeOK, Store, threadVars, sockVars, loopVars, endVars
<1>5. TriggerHeld' /\ StoppedIsEmpty'
  BY <1>1, <1>2, <1>3, ListedIs, ListedIsStarted
     DEF Basics, TriggerHeld, StoppedIsEmpty, sockVars
<1>6. Basics'
  BY <1>2, <1>4, <1>5 DEF Basics
<1>7. ASSUME rules = Rules
      PROVE  Orderly'
  <2>1. life = "live" /\ Orderly
    BY <1>1, <1>7, CallsAreLive
  <2>2. TakeTurns'
    BY <1>1, <1>7, StayPut DEF loopVars, threadVars
  <2>3. FreedIsInactive'
    BY <1>1, <1>3, <2>1 DEF Orderly, FreedIsInactive, endVars
  <2>4. Timers' = Timers \ {t} /\ Members(evtimer_list) = Timers /\ ~Own(t)
    BY <1>1, <1>3, <1>7, ListedIs DEF Timers, Basics, Rules
  <2>5. EvSets'
    BY <1>1, <1>2, <1>3, <2>1, <2>4, ListedIs DEF Orderly, EvSets, Own, Basics, loopVars
  <2>6. OneShotsEnd'
    BY <1>1, <1>2, <1>3, <2>1, <2>4, ListedIs
       DEF Orderly, OneShotsEnd, Own, loopVars, endVars, Basics
  <2> QED
    BY <1>1, <2>1, <2>2, <2>3, <2>5, <2>6 DEF Orderly, endVars
<1> QED
  BY <1>1, <1>6, <1>7 DEF endVars

LEMMA BreakKeeps ==
    ASSUME Inv, Break
    PROVE  Inv'
PROOF
<1> USE DEF Inv
<1>1. /\ breaking' = TRUE
      /\ UNCHANGED <<threadVars, started, listVars, sockVars, active, pending, loopVars, pc,
                     endVars>>
  BY DEF Break
<1>2. Basics'
  BY <1>1 DEF Basics, Store, TriggerHeld, StoppedIsEmpty, TypeOK, ThreadTypeOK, threadVars,
              listVars, sockVars, loopVars, endVars
<1>3. ASSUME rules = Rules
      PROVE  Orderly'
  <2>1. TakeTurns' /\ (AtRest => AtRest') /\ Orderly
    BY <1>1, <1>3, StayPut DEF loopVars, threadVars
  <2>2. FreedIsInactive' = FreedIsInactive /\ EvSets' = EvSets
    BY <1>1 DEF FreedIsInactive, EvSets, Timers, listVars, loopVars
  <2>3. OneShotsEnd' = OneShotsEnd
    BY <1>1 DEF OneShotsEnd, Own, listVars, loopVars, endVars
  <2> QED
    BY <1>1, <2>1, <2>2, <2>3 DEF Orderly, endVars
<1> QED
  BY <1>1, <1>2, <1>3 DEF endVars
-----------------------------------------------------------------------------
(* Starting and stopping.                                                  *)

(* The trigger's watcher, which both ways of starting create.              *)
LEMMA TriggerEnabled ==
    ASSUME Inv, NEW t \in Tokens, MayStart, EnableTrigger(t), started', UNCHANGED evtimer_list
    PROVE  /\ Store' /\ TriggerHeld' /\ StoppedIsEmpty'
           /\ objs[t] = Freed /\ \A u \in Tokens \ {t} : objs'[u] = objs[u]
           /\ objs'[t] # Freed /\ objs'[t].kind = "trigger"
PROOF
<1> USE DEF Inv
<1>1. NewObject(t, "trigger", {AWE_READ}) /\ evio_list' = Added(evio_list, t)
      /\ triggertoken' = t /\ active' = active \cup {t} /\ {AWE_READ} \in SUBSET Masks
  BY ReadIsAMask DEF EnableTrigger
<1>2. /\ objs[t] = Freed /\ objs'[t] # Freed /\ objs'[t].kind = "trigger"
      /\ \A u \in Tokens \ {t} : objs'[u] = objs[u]
  BY <1>1, NewObjectIs DEF Kinds, Basics
<1>3. Store' /\ Members(evio_list') = Members(evio_list) \cup {t}
  BY <1>1, WatcherAdded DEF Basics
<1> QED
  BY <1>1, <1>2, <1>3 DEF TriggerHeld, StoppedIsEmpty

(* What is started in a program that keeps the rules was never stopped and *)
(* has nothing listed.                                                     *)
LEMMA StartsLive ==
    ASSUME Inv, rules = Rules, MayStart
    PROVE  /\ life = "live" /\ pc[Main] = "idle" /\ looping = NoThread /\ phase = "out"
           /\ \A w \in Workers : pc[w] = "none"
PROOF
<1>1. life = "live" /\ pc[Main] = "idle" /\ looping = NoThread /\ ~running
  BY DEF MayStart, Outside, Rules
<1>2. phase = "out" /\ \A w \in Workers : pc[w] = "none"
  BY <1>1 DEF Inv, Orderly, TakeTurns
<1> QED
  BY <1>1, <1>2

(* The sets of libev when a watcher t is added while no loop runs.         *)
LEMMA SetsGrow ==
    ASSUME Inv, rules = Rules, MayStart, NEW t \in Tokens,
           objs[t] = Freed, \A u \in Tokens \ {t} : objs'[u] = objs[u],
           objs'[t] # Freed, objs'[t].kind = "trigger",
           active' = active \cup {t},
           UNCHANGED <<evtimer_list, pending, phase, current, rules>>
    PROVE  FreedIsInactive' /\ EvSets' /\ OneShotsEnd'
PROOF
<1>1. life = "live" /\ phase = "out" /\ Orderly /\ Store
  BY StartsLive DEF Inv, Basics
<1>2. FreedIsInactive' /\ t \notin active \cup pending
  BY <1>1 DEF Orderly, FreedIsInactive
<1>3. Timers' = Timers /\ Members(evtimer_list) = Timers /\ t \notin Timers
  BY <1>1, ListedIs DEF Timers
<1>4. EvSets'
  BY <1>1, <1>2, <1>3 DEF Orderly, EvSets
<1>5. OneShotsEnd'
  BY <1>1, <1>2, <1>3, ListedIs DEF Orderly, OneShotsEnd, Own
<1> QED
  BY <1>2, <1>4, <1>5

LEMMA StartKeeps ==
    ASSUME Inv, NEW t \in Tokens, Start(t)
    PROVE  Inv'
PROOF
<1> USE DEF Inv
<1>1. /\ MayStart /\ EnableTrigger(t) /\ started' = TRUE /\ life' = "live"
      /\ UNCHANGED <<threadVars, evtimer_list, sent, pending, breaking, loopVars, pc, rules,
                     fault>>
  BY DEF Start
<1>2. /\ Store' /\ TriggerHeld' /\ StoppedIsEmpty'
      /\ objs[t] = Freed /\ \A u \in Tokens \ {t} : objs'[u] = objs[u]
      /\ objs'[t] # Freed /\ objs'[t].kind = "trigger"
  BY <1>1, TriggerEnabled
<1>3. TypeOK'
  BY <1>1, <1>2, NumbersAreNumbers
     DEF Basics, TypeOK, ThreadTypeOK, Store, threadVars, loopVars, EnableTrigger
<1>4. ASSUME rules = Rules
      PROVE  Orderly'
  <2>1. Orderly
    BY <1>4
  <2>2. TakeTurns'
    BY <1>1, <2>1 DEF Orderly, TakeTurns, loopVars, threadVars
  <2>3. FreedIsInactive' /\ EvSets' /\ OneShotsEnd'
    BY <1>1, <1>2, <1>4, SetsGrow DEF EnableTrigger, loopVars
  <2> QED
    BY <1>1, <2>1, <2>2, <2>3 DEF Orderly
<1> QED
  BY <1>1, <1>2, <1>3, <1>4 DEF Basics

(* No thread of the scheduler is alive when a second one is created.       *)
LEMMA StartThreadKeeps ==
    ASSUME Inv, NEW t \in Tokens, NEW w \in Workers, StartThread(t, w)
    PROVE  Inv'
PROOF
<1> USE DEF Inv
<1>1. /\ MayStart /\ EnableTrigger(t) /\ Spawn(w) /\ started' = TRUE /\ life' = "live"
      /\ pc' = [pc EXCEPT ![Main] = "arm", ![w] = "enter"]
      /\ UNCHANGED <<evtimer_list, sent, pending, breaking, loopVars, rules, fault>>
  BY DEF StartThread
<1>2. /\ Store' /\ TriggerHeld' /\ StoppedIsEmpty'
      /\ objs[t] = Freed /\ \A u \in Tokens \ {t} : objs'[u] = objs[u]
      /\ objs'[t] # Freed /\ objs'[t].kind = "trigger"
  BY <1>1, TriggerEnabled
<1>3. /\ pc'[Main] = "arm" /\ pc'[w] = "enter"
      /\ \A x \in Threads \ {Main, w} : pc'[x] = pc[x]
      /\ pc' \in [Threads -> {"idle", "arm", "mark", "write",
                              "none", "enter", "loop", "forget", "pend", "halt"}]
  BY <1>1, ThreadsAre DEF Basics, TypeOK
<1>4. TypeOK'
  <2>1. ThreadTypeOK'
    BY <1>1 DEF Basics, TypeOK, ThreadTypeOK, Spawn
  <2>2. /\ objs' \in [Tokens -> Object \cup {Freed}]
        /\ evio_list' \in Seq(Tokens) /\ evtimer_list' \in Seq(Tokens)
    BY <1>2 DEF Store
  <2>3. /\ triggertoken' \in Tokens \cup {NULL} /\ active' \subseteq Tokens
        /\ sock' \in {"closed", "open", "failed"}
        /\ triggers' \in Seq(Nat) /\ Len(triggers') <= Capacity
    BY <1>1, NumbersAreNumbers DEF Basics, TypeOK, EnableTrigger
  <2> QED
    BY <1>1, <1>3, <2>1, <2>2, <2>3 DEF Basics, TypeOK, loopVars
<1>5. ASSUME rules = Rules
      PROVE  Orderly'
  <2>1. /\ Orderly /\ looping = NoThread /\ phase = "out" /\ pc[Main] = "idle"
        /\ \A v \in Workers : pc[v] = "none"
    BY <1>1, <1>5, StartsLive
  <2>2. \A v \in Workers \ {w} : pc'[v] = "none"
    BY <1>3, <2>1, ThreadsAre
  <2>3. TakeTurns'
    <3>1. \A u, v \in Workers : pc'[u] # "none" /\ pc'[v] # "none" => u = v
      BY <2>2
    <3>2. \A x \in Threads : looping' = x <=> pc'[x] = "loop"
      BY <1>1, <1>3, <2>1, ThreadsAre DEF Orderly, TakeTurns, loopVars
    <3>3. \A c \in Callers : pc'[c] \in {"idle", "write"}
      BY <1>3, <2>1, ThreadsAre DEF Orderly, TakeTurns
    <3> QED
      BY <1>1, <1>3, <2>1, <3>1, <3>2, <3>3 DEF Orderly, TakeTurns, loopVars
  <2>4. FreedIsInactive' /\ EvSets' /\ OneShotsEnd'
    BY <1>1, <1>2, <1>5, SetsGrow DEF EnableTrigger, loopVars
  <2> QED
    BY <1>1, <2>1, <2>3, <2>4 DEF Orderly
<1> QED
  BY <1>1, <1>2, <1>4, <1>5 DEF Basics

(* Steps that touch no watcher and no list.                                *)
LEMMA ListsStay ==
    ASSUME Inv, UNCHANGED <<started, listVars, active, sock>>
    PROVE  Store' /\ TriggerHeld' /\ StoppedIsEmpty'
PROOF
<1> QED
  BY DEF Inv, Basics, Store, TriggerHeld, StoppedIsEmpty, listVars

LEMMA SetsStay ==
    ASSUME Inv, rules = Rules, UNCHANGED <<listVars, active, pending, phase, current, rules>>
    PROVE  (FreedIsInactive => FreedIsInactive') /\ EvSets' /\ OneShotsEnd'
PROOF
<1>1. Timers' = Timers
  BY DEF Timers, listVars
<1> QED
  BY <1>1 DEF Inv, Orderly, FreedIsInactive, EvSets, OneShotsEnd, Own, listVars

LEMMA StartGoesOn ==
    ASSUME Inv, StartArm \/ StartMark
    PROVE  Inv'
PROOF
<1> USE DEF Inv
<1>1. /\ UNCHANGED <<started, listVars, sockVars, evVars, loopVars, endVars, tid>>
      /\ \/ pc[Main] = "arm" /\ Goto(Main, "mark") /\ running' = running
         \/ pc[Main] = "mark" /\ Goto(Main, "idle") /\ running' = TRUE
      /\ exit_pending' \in BOOLEAN
  BY DEF StartArm, StartMark, ArmExitPending, MarkRunning, Basics, TypeOK, ThreadTypeOK
<1>2. Store' /\ TriggerHeld' /\ StoppedIsEmpty'
  BY <1>1, ListsStay DEF sockVars, evVars
<1>3. /\ \A x \in Threads \ {Main} : pc'[x] = pc[x]
      /\ pc[Main] \in {"arm", "mark"} /\ pc'[Main] \in {"mark", "idle"}
      /\ pc'[Main] = "idle" => running'
      /\ running => running'
      /\ pc' \in [Threads -> Labels]
  BY <1>1, ThreadsAre, GotoIs DEF Basics, Labels
<1>4. TypeOK'
  <2>1. running' \in BOOLEAN
    BY <1>1 DEF Basics, TypeOK, ThreadTypeOK
  <2> QED
    BY <1>1, <1>3, <2>1 DEF Basics, TypeOK, ThreadTypeOK, Labels, listVars, sockVars, evVars,
                            loopVars, endVars
<1>5. ASSUME rules = Rules
      PROVE  Orderly'
  <2>1. Orderly
    BY <1>5
  <2>2. TakeTurns'
    <3>1. \A x \in Threads : looping' = x <=> pc'[x] = "loop"
      BY <1>1, <1>3, <2>1 DEF Orderly, TakeTurns, loopVars
    <3> QED
      BY <1>1, <1>3, <2>1, <3>1, ThreadsAre DEF Orderly, TakeTurns, loopVars
  <2>3. life' = "live"
    BY <1>1, <1>3, <2>1 DEF Orderly, AtRest, endVars
  <2>4. FreedIsInactive' /\ EvSets' /\ OneShotsEnd'
    BY <1>1, <1>5, <2>1, <2>3, SetsStay DEF Orderly, evVars, loopVars, endVars
  <2> QED
    BY <1>1, <2>1, <2>2, <2>3, <2>4 DEF Orderly, endVars
<1> QED
  BY <1>1, <1>2, <1>4, <1>5 DEF Basics, endVars

LEMMA StartFailsKeeps ==
    ASSUME Inv, NEW t \in Tokens, StartFails(t)
    PROVE  Inv'
PROOF
<1> USE DEF Inv
<1>1. /\ MayStart /\ objs[t] = Freed /\ active' = active \cup {t} /\ life' = "stopped"
      /\ UNCHANGED <<threadVars, started, listVars, sockVars, pending, breaking, loopVars, pc,
                     rules, fault>>
  BY DEF StartFails
<1>2. ~started
  BY <1>1 DEF MayStart
<1>3. Basics'
  BY <1>1, <1>2 DEF Basics, Store, TriggerHeld, StoppedIsEmpty, TypeOK, ThreadTypeOK, threadVars,
                    listVars, sockVars, loopVars
<1>4. ASSUME rules = Rules
      PROVE  Orderly'
  <2>1. /\ Orderly /\ looping = NoThread /\ phase = "out" /\ pc[Main] = "idle"
        /\ \A v \in Workers : pc[v] = "none"
    BY <1>1, <1>4, StartsLive
  <2>2. TakeTurns' /\ AtRest'
    BY <1>1, <1>2, <1>4, <2>1, StayPut DEF AtRest, loopVars, threadVars
  <2>3. Timers' = Timers /\ t \notin Timers
    BY <1>1 DEF Timers, listVars
  <2>4. EvSets'
    BY <1>1, <2>1, <2>3 DEF Orderly, EvSets, loopVars
  <2>5. OneShotsEnd'
    BY <1>1, <2>1 DEF Orderly, OneShotsEnd, Own, listVars, loopVars
  <2> QED
    BY <1>1, <2>1, <2>2, <2>4, <2>5 DEF Orderly
<1> QED
  BY <1>1, <1>3, <1>4

(* Stopping and destroying a scheduler that was started.                   *)
LEMMA StopAllIs ==
    ASSUME Inv, StopAll
    PROVE  /\ Store' /\ TriggerHeld' /\ StoppedIsEmpty' /\ ~started'
           /\ Timers' = {} /\ Members(evtimer_list') = {}
           /\ objs' \in [Tokens -> Object \cup {Freed}]
           /\ evio_list' \in Seq(Tokens) /\ evtimer_list' = <<>> /\ evtimer_list' \in Seq(Tokens)
           /\ started' = FALSE /\ triggertoken' = NULL /\ sock' = "closed"
           /\ triggers' \in Seq(Nat) /\ Len(triggers') <= Capacity
PROOF
<1>1. /\ started' = FALSE /\ objs' = [t \in Tokens |-> Freed]
      /\ evio_list' = <<>> /\ evtimer_list' = <<>>
  BY AllCleared DEF StopAll, Inv, Basics
<1>2. Store'
  BY <1>1, StoreEmptied
<1>3. Timers' = {} /\ Members(evtimer_list') = {}
  BY <1>1 DEF Timers, Members
<1>4. triggers' \in Seq(Nat) /\ Len(triggers') <= Capacity
  <2>1. triggers' = <<>>
    BY DEF StopAll
  <2> QED
    BY <2>1, EmptySeq, NumbersAreNumbers
<1>5. triggertoken' = NULL /\ sock' = "closed"
  BY DEF StopAll
<1> QED
  BY <1>1, <1>2, <1>3, <1>4, <1>5, EmptySeq DEF TriggerHeld, StoppedIsEmpty

LEMMA StopKeeps ==
    ASSUME Inv, Stop
    PROVE  Inv'
PROOF
<1> USE DEF Inv
<1>1. /\ StopAll /\ life' = "stopped"
      /\ UNCHANGED <<threadVars, sent, evVars, loopVars, pc, rules, fault>>
  BY DEF Stop
<1>2. /\ Store' /\ TriggerHeld' /\ StoppedIsEmpty' /\ ~started'
      /\ Timers' = {} /\ Members(evtimer_list') = {}
  BY <1>1, StopAllIs
<1>3. TypeOK'
  <2>1. /\ objs' \in [Tokens -> Object \cup {Freed}]
        /\ evio_list' \in Seq(Tokens) /\ evtimer_list' \in Seq(Tokens)
        /\ started' = FALSE /\ triggertoken' = NULL /\ sock' = "closed"
        /\ triggers' \in Seq(Nat) /\ Len(triggers') <= Capacity
    BY <1>1, StopAllIs
  <2> QED
    BY <1>1, <2>1 DEF Basics, TypeOK, ThreadTypeOK, threadVars, evVars, loopVars
<1>4. ASSUME rules = Rules
      PROVE  Orderly'
  <2>1. Orderly /\ Outside
    BY <1>4 DEF Stop, Rules
  <2>2. TakeTurns'
    BY <1>1, <2>1 DEF Orderly, TakeTurns, loopVars, threadVars
  <2>3. AtRest' /\ phase' = "out"
    BY <1>1, <1>2, <2>1, <2>2 DEF AtRest, TakeTurns, Outside, loopVars, threadVars
  <2>4. EvSets' /\ OneShotsEnd'
    BY <1>1, <1>2, <2>1, <2>3 DEF Orderly, EvSets, OneShotsEnd, evVars, loopVars
  <2> QED
    BY <1>1, <2>1, <2>2, <2>3, <2>4 DEF Orderly
<1> QED
  BY <1>1, <1>2, <1>3, <1>4 DEF Basics

(* libev or scheduler.c uses what was freed: no list and no thread changes.*)
LEMMA AbortIsTyped ==
    ASSUME Inv, Abort
    PROVE  Basics' /\ rules' = rules
PROOF
<1> QED
  BY DEF Abort, Inv, Basics, Store, TriggerHeld, StoppedIsEmpty, TypeOK, ThreadTypeOK, threadVars,
         listVars, sockVars, evVars, loopVars

LEMMA DestroyKeeps ==
    ASSUME Inv, Destroy
    PROVE  Inv'
PROOF
<1> USE DEF Inv
<1>1. CASE /\ IF started THEN StopAll ELSE UNCHANGED <<started, listVars, sock, triggers>>
           /\ life' = "freed"
           /\ UNCHANGED <<threadVars, sent, evVars, loopVars, pc, rules, fault>>
  <2>1. /\ Store' /\ TriggerHeld' /\ StoppedIsEmpty' /\ ~started'
        /\ \/ Timers' = {} /\ Members(evtimer_list') = {}
           \/ UNCHANGED listVars
        /\ TypeOK'
    <3>1. CASE started
      <4>1. /\ objs' \in [Tokens -> Object \cup {Freed}]
            /\ evio_list' \in Seq(Tokens) /\ evtimer_list' \in Seq(Tokens)
            /\ started' = FALSE /\ triggertoken' = NULL /\ sock' = "closed"
            /\ triggers' \in Seq(Nat) /\ Len(triggers') <= Capacity
        BY <1>1, <3>1, StopAllIs
      <4>2. TypeOK'
        BY <1>1, <4>1 DEF Basics, TypeOK, ThreadTypeOK, threadVars, evVars, loopVars
      <4> QED
        BY <1>1, <3>1, <4>2, StopAllIs
    <3>2. CASE ~started
      <4>1. TypeOK'
        BY <1>1, <3>2 DEF Basics, TypeOK, ThreadTypeOK, threadVars, evVars, loopVars, listVars
      <4> QED
        BY <1>1, <3>2, <4>1, ListsStay DEF evVars
    <3> QED
      BY <3>1, <3>2
  <2>3. ASSUME rules = Rules
        PROVE  Orderly'
    <3>1. Orderly /\ Outside
      BY <2>3 DEF Destroy, Rules
    <3>2. TakeTurns'
      BY <1>1, <3>1 DEF Orderly, TakeTurns, loopVars, threadVars
    <3>3. AtRest' /\ phase' = "out"
      BY <1>1, <2>1, <3>1, <3>2 DEF AtRest, TakeTurns, Outside, loopVars, threadVars
    <3>4. pending = {}
      BY <3>1, ThreadsAre DEF Orderly, EvSets, TakeTurns, Outside
    <3>5. EvSets'
      BY <1>1, <2>1, <3>3, <3>4 DEF EvSets, evVars, loopVars
    <3>6. OneShotsEnd'
      BY <1>1, <2>1, <3>1 DEF Orderly, OneShotsEnd, Own, evVars, loopVars, listVars
    <3> QED
      BY <1>1, <3>1, <3>2, <3>3, <3>5, <3>6 DEF Orderly
  <2> QED
    BY <1>1, <2>1, <2>3 DEF Basics
<1>2. CASE (\E x \in Workers \cup Callers : pc[x] \notin {"none", "idle"}) /\ Abort
  <2>1. rules # Rules
    <3> SUFFICES ASSUME rules = Rules PROVE FALSE
      OBVIOUS
    <3>1. Outside /\ (\A c \in Callers : pc[c] = "idle") /\ Orderly
      BY DEF Destroy, Rules
    <3>2. \A w \in Workers : pc[w] = "none"
      BY <3>1 DEF Orderly, TakeTurns, Outside
    <3> QED
      BY <1>2, <3>1, <3>2
  <2> QED
    BY <1>2, <2>1, AbortIsTyped
<1> QED
  BY <1>1, <1>2 DEF Destroy
-----------------------------------------------------------------------------
(* Triggers.                                                               *)

LEMMA TriggerCheckKeeps ==
    ASSUME Inv, NEW c \in Callers, TriggerCheck(c)
    PROVE  Inv'
PROOF
<1> USE DEF Inv
<1>1. /\ pc[c] = "idle" /\ Goto(c, "write")
      /\ UNCHANGED <<threadVars, started, listVars, sockVars, evVars, loopVars, endVars>>
  BY DEF TriggerCheck
<1>2. /\ pc' \in [Threads -> Labels] /\ pc'[c] = "write"
      /\ \A y \in Threads \ {c} : pc'[y] = pc[y]
  BY <1>1, GotoIs, ThreadsAre DEF Basics, Labels
<1>3. Store' /\ TriggerHeld' /\ StoppedIsEmpty'
  BY <1>1, ListsStay DEF sockVars, evVars
<1>4. TypeOK'
  BY <1>1, <1>2 DEF Basics, TypeOK, ThreadTypeOK, Labels, threadVars, listVars, sockVars, evVars,
                    loopVars, endVars
<1>5. ASSUME rules = Rules
      PROVE  Orderly'
  <2>1. Orderly
    BY <1>5
  <2>2. TakeTurns' /\ (AtRest => AtRest')
    BY <1>1, <1>2, <2>1, ThreadsAre DEF Orderly, TakeTurns, AtRest, threadVars, loopVars
  <2>3. (FreedIsInactive => FreedIsInactive') /\ EvSets' /\ OneShotsEnd'
    BY <1>1, <1>5, SetsStay DEF evVars, loopVars, endVars
  <2> QED
    BY <1>1, <2>1, <2>2, <2>3 DEF Orderly, endVars
<1> QED
  BY <1>1, <1>3, <1>4, <1>5 DEF Basics, endVars

LEMMA TriggerWriteKeeps ==
    ASSUME Inv, NEW c \in Callers, TriggerWrite(c)
    PROVE  Inv'
PROOF
<1> USE DEF Inv
<1>1. /\ pc[c] = "write" /\ Goto(c, "idle") /\ triggers' = Queued(sent) /\ sent' = sent + 1
      /\ UNCHANGED <<threadVars, started, listVars, sock, evVars, loopVars, endVars>>
  BY DEF TriggerWrite
<1>2. /\ pc' \in [Threads -> Labels] /\ pc'[c] = "idle"
      /\ \A y \in Threads \ {c} : pc'[y] = pc[y]
  BY <1>1, GotoIs, ThreadsAre DEF Basics, Labels
<1>3. Store' /\ TriggerHeld' /\ StoppedIsEmpty'
  BY <1>1, ListsStay DEF evVars
<1>4. TypeOK'
  <2>1. sent' \in Nat /\ triggers' \in Seq(Nat) /\ Len(triggers') <= Capacity
    BY <1>1, NumbersAreNumbers DEF Queued, Basics, TypeOK
  <2> QED
    BY <1>1, <1>2, <2>1 DEF Basics, TypeOK, ThreadTypeOK, Labels, threadVars, listVars, evVars,
                            loopVars, endVars
<1>5. ASSUME rules = Rules
      PROVE  Orderly'
  <2>1. Orderly
    BY <1>5
  <2>2. TakeTurns' /\ (AtRest => AtRest')
    BY <1>1, <1>2, <2>1, ThreadsAre DEF Orderly, TakeTurns, AtRest, threadVars, loopVars
  <2>3. (FreedIsInactive => FreedIsInactive') /\ EvSets' /\ OneShotsEnd'
    BY <1>1, <1>5, SetsStay DEF evVars, loopVars, endVars
  <2> QED
    BY <1>1, <2>1, <2>2, <2>3 DEF Orderly, endVars
<1> QED
  BY <1>1, <1>3, <1>4, <1>5 DEF Basics, endVars

LEMMA SocketFailsKeeps ==
    ASSUME Inv, SocketFails
    PROVE  Inv'
PROOF
<1> USE DEF Inv
<1>1. /\ sock' = "failed"
      /\ UNCHANGED <<threadVars, started, listVars, triggers, sent, evVars, loopVars, pc, endVars>>
  BY DEF SocketFails
<1>2. Basics'
  BY <1>1 DEF Basics, Store, TriggerHeld, StoppedIsEmpty, TypeOK, ThreadTypeOK, threadVars,
              listVars, evVars, loopVars, endVars
<1>3. ASSUME rules = Rules
      PROVE  Orderly'
  <2>1. TakeTurns' /\ (AtRest => AtRest') /\ Orderly
    BY <1>1, <1>3, StayPut DEF loopVars, threadVars
  <2>2. (FreedIsInactive => FreedIsInactive') /\ EvSets' /\ OneShotsEnd'
    BY <1>1, <1>3, SetsStay DEF evVars, loopVars, endVars
  <2> QED
    BY <1>1, <2>1, <2>2 DEF Orderly, endVars
<1> QED
  BY <1>1, <1>2, <1>3 DEF endVars
-----------------------------------------------------------------------------
(* The loop.                                                               *)

LEMMA EnterKeeps ==
    ASSUME Inv, NEW x \in Threads, Enter(x)
    PROVE  Inv'
PROOF
<1> USE DEF Inv
<1>1. /\ looping' = x /\ phase' = "poll" /\ breaking' = FALSE /\ Goto(x, "loop")
      /\ UNCHANGED <<threadVars, started, listVars, sockVars, active, pending, current, endVars>>
      /\ \/ x = Main /\ Outside /\ ("stop" \in rules => life = "live")
         \/ x \in Workers /\ pc[x] = "enter"
  BY DEF Enter
<1>2. /\ pc' \in [Threads -> Labels] /\ pc'[x] = "loop"
      /\ \A y \in Threads \ {x} : pc'[y] = pc[y]
  BY <1>1, GotoIs DEF Basics, Labels
<1>3. Store' /\ TriggerHeld' /\ StoppedIsEmpty'
  BY <1>1, ListsStay DEF sockVars
<1>4. TypeOK'
  <2>1. TypeOK
    BY DEF Basics
  <2>2. looping' \in Threads \cup {NoThread} /\ phase' = "poll" /\ breaking' \in BOOLEAN
    BY <1>1
  <2> HIDE DEF Inv
  <2> QED
    BY <1>1, <1>2, <2>1, <2>2 DEF TypeOK, ThreadTypeOK, Labels, Callbacks, threadVars, listVars,
                                  sockVars, endVars
<1>5. ASSUME rules = Rules
      PROVE  Orderly'
  <2>1. Orderly
    BY <1>5
  <2>2. looping = NoThread /\ phase = "out" /\ life = "live"
    <3>1. CASE x = Main
      BY <1>1, <1>5, <2>1, <3>1, ThreadsAre DEF Orderly, TakeTurns, Outside, Rules
    <3>2. CASE x \in Workers /\ pc[x] = "enter"
      <4>1. life = "live" /\ pc[Main] # "loop"
        BY <2>1, <3>2 DEF Orderly, AtRest, TakeTurns
      <4>2. looping # x
        BY <2>1, <3>2, ThreadsAre DEF Orderly, TakeTurns
      <4>3. ASSUME looping \in Workers \ {x}
            PROVE  FALSE
        BY <2>1, <3>2, <4>3, ThreadsAre DEF Orderly, TakeTurns
      <4>4. looping = NoThread \/ looping = Main \/ looping \in Callers
        BY <4>2, <4>3 DEF Basics, TypeOK, Threads
      <4>5. looping = NoThread
        BY <2>1, <4>1, <4>4, ThreadsAre DEF Orderly, TakeTurns
      <4> QED
        BY <2>1, <4>1, <4>5 DEF Orderly, TakeTurns
    <3> QED
      BY <1>1, <3>1, <3>2
  <2>3. TakeTurns'
    <3>1. \A y \in Threads : looping' = y <=> pc'[y] = "loop"
      BY <1>1, <1>2, <2>1, <2>2, ThreadsAre DEF Orderly, TakeTurns
    <3> QED
      BY <1>1, <1>2, <2>1, <3>1, ThreadsAre DEF Orderly, TakeTurns, threadVars, Outside
  <2>4. FreedIsInactive' /\ EvSets' /\ OneShotsEnd'
    <3>1. Timers' = Timers
      BY <1>1 DEF Timers, listVars
    <3> QED
      BY <1>1, <2>1, <2>2, <3>1
         DEF Orderly, FreedIsInactive, EvSets, OneShotsEnd, Own, listVars, endVars
  <2> QED
    BY <1>1, <2>1, <2>2, <2>3, <2>4 DEF Orderly, endVars
<1> QED
  BY <1>1, <1>3, <1>4, <1>5 DEF Basics, endVars

(* In a program that keeps the rules the loop runs for a live scheduler    *)
(* only, and nothing that libev has was freed.                             *)
LEMMA LoopIsLive ==
    ASSUME Inv, rules = Rules, phase # "out"
    PROVE  /\ life = "live" /\ Orderly
           /\ \A t \in Tokens : t \in active \cup pending => objs[t] # Freed
PROOF
<1> QED
  BY DEF Inv, Orderly, TakeTurns, AtRest, FreedIsInactive

LEMMA PollKeeps ==
    ASSUME Inv, Poll
    PROVE  Inv'
PROOF
<1> USE DEF Inv
<1>1. PICK ready \in SUBSET active :
        LET fired == ready \cup TriggerReady
        IN  /\ fired # {} \/ active = {}
            /\ \/ /\ \E t \in fired : objs[t] = Freed
                  /\ Abort
               \/ /\ \A t \in fired : objs[t] # Freed
                  /\ active' = active \ (fired \cap Timers)
                  /\ pending' = fired
                  /\ phase' = "invoke"
                  /\ UNCHANGED <<threadVars, started, listVars, sockVars, breaking, looping,
                                 current, pc, endVars>>
  BY DEF Poll
<1> DEFINE fired == ready \cup TriggerReady
<1>2. fired \subseteq active /\ active \subseteq Tokens /\ phase = "poll"
  BY DEF TriggerReady, Basics, TypeOK, Poll
<1> HIDE DEF fired
<1>3. CASE (\E t \in fired : objs[t] = Freed) /\ Abort
  <2>1. rules # Rules
    BY <1>2, <1>3, LoopIsLive
  <2> QED
    BY <1>3, <2>1, AbortIsTyped
<1>4. CASE /\ active' = active \ (fired \cap Timers)
           /\ pending' = fired
           /\ phase' = "invoke"
           /\ UNCHANGED <<threadVars, started, listVars, sockVars, breaking, looping,
                          current, pc, endVars>>
  <2>1. TypeOK'
    BY <1>2, <1>4 DEF Basics, TypeOK, ThreadTypeOK, threadVars, listVars, sockVars, endVars
  <2>2. Store' /\ StoppedIsEmpty'
    BY <1>4 DEF Basics, Store, StoppedIsEmpty, listVars
  <2>3. TriggerHeld'
    BY <1>4 DEF Basics, TriggerHeld, Timers, listVars, sockVars
  <2>4. ASSUME rules = Rules
        PROVE  Orderly'
    <3>1. /\ life = "live" /\ Orderly
          /\ \A t \in Tokens : t \in active \cup pending => objs[t] # Freed
      BY <1>2, <2>4, LoopIsLive
    <3>2. TakeTurns'
      BY <1>2, <1>4, <3>1 DEF Orderly, TakeTurns, threadVars
    <3>3. FreedIsInactive'
      BY <1>2, <1>4, <3>1 DEF FreedIsInactive, listVars
    <3>4. Timers' = Timers
      BY <1>4 DEF Timers, listVars
    <3>5. EvSets'
      BY <1>4, <3>4 DEF EvSets
    <3>6. pending = {} /\ Members(evtimer_list) = Timers
      BY <1>2, <3>1, ListedIs DEF Orderly, EvSets, Basics
    <3>7. OneShotsEnd'
      BY <1>2, <1>4, <2>4, <3>1, <3>6 DEF Orderly, OneShotsEnd, Own, listVars
    <3> QED
      BY <1>4, <3>1, <3>2, <3>3, <3>5, <3>7 DEF Orderly, endVars
  <2> QED
    BY <1>4, <2>1, <2>2, <2>3, <2>4 DEF Basics, endVars
<1> QED
  BY <1>1, <1>3, <1>4 DEF fired

LEMMA InvokeKeeps ==
    ASSUME Inv, NEW t \in Tokens, Invoke(t)
    PROVE  Inv'
PROOF
<1> USE DEF Inv
<1>1. /\ phase = "invoke" /\ t \in pending /\ pending' = pending \ {t}
      /\ phase' = IF t \in Timers THEN "task" ELSE "handler"
      /\ current' = t
      /\ UNCHANGED <<threadVars, started, listVars, sockVars, active, breaking, looping, pc,
                     endVars>>
  BY DEF Invoke
<1>2. Store' /\ TriggerHeld' /\ StoppedIsEmpty'
  BY <1>1, ListsStay DEF sockVars
<1>3. TypeOK'
  BY <1>1 DEF Basics, TypeOK, ThreadTypeOK, Callbacks, threadVars, listVars, sockVars, endVars
<1>4. ASSUME rules = Rules
      PROVE  Orderly'
  <2>1. /\ life = "live" /\ Orderly
    BY <1>1, <1>4, LoopIsLive
  <2>2. TakeTurns'
    BY <1>1, <2>1 DEF Orderly, TakeTurns, threadVars
  <2>3. FreedIsInactive'
    BY <1>1, <2>1 DEF Orderly, FreedIsInactive, listVars
  <2>4. Timers' = Timers /\ Members(evtimer_list) = Timers
    BY <1>1, ListedIs DEF Timers, listVars, Basics
  <2>5. EvSets'
    BY <1>1, <2>1, <2>4 DEF Orderly, EvSets, listVars
  <2>6. OneShotsEnd'
    BY <1>1, <1>4, <2>1, <2>4 DEF Orderly, OneShotsEnd, Own, listVars
  <2> QED
    BY <1>1, <2>1, <2>2, <2>3, <2>5, <2>6 DEF Orderly, endVars
<1> QED
  BY <1>1, <1>2, <1>3, <1>4 DEF Basics, endVars

LEMMA InvokeFreedKeeps ==
    ASSUME Inv, NEW t \in Tokens, InvokeFreed(t)
    PROVE  Inv'
PROOF
<1>1. rules # Rules
  BY LoopIsLive DEF InvokeFreed
<1> QED
  BY <1>1, AbortIsTyped DEF Inv, InvokeFreed

(* A read that fails destroys the trigger's watcher.                       *)
LEMMA TriggerFailsKeeps ==
    ASSUME Inv, NEW t \in Tokens, phase = "invoke", objs[t] # Freed, objs[t].kind = "trigger",
           ReadFails, SockDestroy(t), triggertoken' = NULL,
           UNCHANGED <<evtimer_list, triggers, phase, current, threadVars, started, sock, sent,
                       breaking, looping, pc, endVars>>
    PROVE  Inv'
PROOF
<1> USE DEF Inv
<1>1. /\ t \in Members(evio_list)
      /\ evio_list' = Without(evio_list, t) /\ objs' = Released(objs, t)
      /\ active' = active \ {t} /\ pending' = pending \ {t}
  BY ListedIs DEF SockDestroy, Basics
<1>2. /\ Store' /\ Members(evio_list') = Members(evio_list) \ {t}
      /\ objs' = [objs EXCEPT ![t] = Freed]
  BY <1>1, WatcherDropped DEF Basics
<1>3. objs'[t] = Freed /\ \A u \in Tokens \ {t} : objs'[u] = objs[u]
  BY <1>2 DEF Basics, Store
<1>4. TypeOK'
  BY <1>1, <1>2 DEF Basics, TypeOK, ThreadTypeOK, Store, threadVars, endVars
<1>5. TriggerHeld' /\ StoppedIsEmpty'
  BY <1>1, ListedIsStarted DEF ReadFails, TriggerHeld, StoppedIsEmpty
<1>6. ASSUME rules = Rules
      PROVE  Orderly'
  <2>1. life = "live" /\ Orderly
    BY <1>6, LoopIsLive
  <2>2. TakeTurns'
    BY <2>1 DEF Orderly, TakeTurns, threadVars
  <2>3. FreedIsInactive'
    BY <1>1, <1>3, <2>1 DEF Orderly, FreedIsInactive, endVars
  <2>4. /\ Timers' = Timers /\ t \notin Timers
        /\ Members(evtimer_list) = Timers
    BY <1>1, <1>3, ListedIs DEF Timers, Basics
  <2>5. EvSets'
    BY <1>1, <2>1, <2>4 DEF Orderly, EvSets
  <2>6. OneShotsEnd'
    BY <1>1, <1>3, <1>6, <2>1, <2>4, ListedIs DEF Orderly, OneShotsEnd, Own, Basics
  <2> QED
    BY <2>1, <2>2, <2>3, <2>5, <2>6 DEF Orderly, endVars
<1> QED
  BY <1>2, <1>4, <1>5, <1>6 DEF Basics, endVars

LEMMA InvokeTriggerKeeps ==
    ASSUME Inv, NEW t \in Tokens, InvokeTrigger(t)
    PROVE  Inv'
PROOF
<1> USE DEF Inv
<1>1. /\ phase = "invoke" /\ t \in pending /\ objs[t] # Freed /\ objs[t].kind = "trigger"
      /\ UNCHANGED <<threadVars, started, sock, sent, breaking, looping, pc, endVars>>
  BY DEF InvokeTrigger
<1>2. CASE /\ ReadFails /\ SockDestroy(t) /\ triggertoken' = NULL
           /\ UNCHANGED <<evtimer_list, triggers, phase, current>>
  BY <1>1, <1>2, TriggerFailsKeeps
<1>3. CASE /\ pending' = pending \ {t} /\ UNCHANGED <<listVars, active>>
           /\ \/ triggers # <<>> /\ triggers' = Tail(triggers) /\ phase' = "trigger" /\ current' = t
              \/ UNCHANGED <<triggers, phase, current>>
  <2>1. Store' /\ TriggerHeld' /\ StoppedIsEmpty'
    BY <1>1, <1>3, ListsStay
  <2>2. triggers' \in Seq(Nat) /\ Len(triggers') <= Capacity
    <3>1. triggers \in Seq(Nat) /\ Len(triggers) <= Capacity
      BY DEF Basics, TypeOK
    <3>2. triggers # <<>> => Tail(triggers) \in Seq(Nat) /\ Len(Tail(triggers)) = Len(triggers) - 1
      BY <3>1, HeadTailProperties
    <3>3. CASE triggers # <<>> /\ triggers' = Tail(triggers)
      <4>1. Len(triggers') = Len(triggers) - 1 /\ Len(triggers) \in Nat
        BY <3>1, <3>2, <3>3, LenProperties
      <4> QED
        BY <3>1, <3>2, <3>3, <4>1, NumbersAreNumbers
    <3>4. CASE triggers' = triggers
      BY <3>1, <3>4
    <3> QED
      BY <1>3, <3>3, <3>4
  <2>3. TypeOK'
    BY <1>1, <1>3, <2>2 DEF Basics, TypeOK, ThreadTypeOK, Callbacks, threadVars, listVars, endVars
  <2>4. ASSUME rules = Rules
        PROVE  Orderly'
    <3>1. life = "live" /\ Orderly
      BY <1>1, <2>4, LoopIsLive
    <3>2. TakeTurns'
      BY <1>1, <1>3, <3>1 DEF Orderly, TakeTurns, threadVars
    <3>3. FreedIsInactive'
      BY <1>1, <1>3, <3>1 DEF Orderly, FreedIsInactive, listVars
    <3>4. Timers' = Timers /\ Members(evtimer_list) = Timers /\ t \notin Timers
      BY <1>1, <1>3, ListedIs DEF Timers, listVars, Basics
    <3>5. EvSets'
      BY <1>1, <1>3, <3>1, <3>4 DEF Orderly, EvSets, listVars
    <3>6. OneShotsEnd'
      BY <1>1, <1>3, <2>4, <3>1, <3>4 DEF Orderly, OneShotsEnd, Own, listVars
    <3> QED
      BY <1>1, <3>1, <3>2, <3>3, <3>5, <3>6 DEF Orderly, endVars
  <2> QED
    BY <1>1, <2>1, <2>3, <2>4 DEF Basics, endVars
<1> QED
  BY <1>2, <1>3 DEF InvokeTrigger

(* The task whose callback returned is dropped if it was a delayed one.    *)
LEMMA ReturnTaskKeeps ==
    ASSUME Inv, ReturnTask
    PROVE  Inv'
PROOF
<1> USE DEF Inv
<1>1. /\ phase = "task" /\ phase' = "invoke" /\ current' = NULL
      /\ UNCHANGED <<threadVars, started, evio_list, triggertoken, sockVars, evVars, looping,
                     pc, endVars>>
  BY DEF ReturnTask
<1>2. CASE Drops(current)
  <2>1. /\ current \in Members(evtimer_list) /\ objs[current].kind = "once"
        /\ objs' = Released(objs, current) /\ evtimer_list' = Without(evtimer_list, current)
    BY <1>2 DEF ReturnTask, Drops
  <2>2. /\ Store' /\ Members(evtimer_list') = Members(evtimer_list) \ {current}
        /\ objs' = [objs EXCEPT ![current] = Freed]
    BY <1>1, <2>1, TimerDropped DEF Basics
  <2>3. /\ current \in Tokens /\ objs[current] # Freed
        /\ objs'[current] = Freed /\ \A u \in Tokens \ {current} : objs'[u] = objs[u]
    BY <2>1, <2>2, ListedIs DEF Basics, Store, Timers
  <2>4. TypeOK'
    BY <1>1, <2>2 DEF Basics, TypeOK, ThreadTypeOK, Store, threadVars, sockVars, evVars, endVars
  <2>5. TriggerHeld' /\ StoppedIsEmpty'
    BY <1>1, <2>1, <2>2, <2>3, ListedIs, ListedIsStarted
       DEF Basics, TriggerHeld, StoppedIsEmpty, sockVars, evVars
  <2>6. ASSUME rules = Rules
        PROVE  Orderly'
    <3>1. life = "live" /\ Orderly /\ current \notin active \cup pending
      BY <1>1, <2>1, <2>6, LoopIsLive DEF Orderly, EvSets
    <3>2. TakeTurns'
      BY <1>1, <3>1 DEF Orderly, TakeTurns, threadVars
    <3>3. FreedIsInactive'
      BY <1>1, <2>3, <3>1 DEF Orderly, FreedIsInactive, evVars
    <3>4. Timers' = Timers \ {current} /\ Members(evtimer_list) = Timers
      BY <2>1, <2>3, ListedIs DEF Timers, Basics
    <3>5. EvSets'
      BY <1>1, <3>1, <3>4 DEF Orderly, EvSets, evVars
    <3>6. OneShotsEnd'
      BY <1>1, <2>2, <2>3, <2>6, <3>1, <3>4, ListedIs
         DEF Orderly, OneShotsEnd, Own, evVars, Basics
    <3> QED
      BY <1>1, <3>1, <3>2, <3>3, <3>5, <3>6 DEF Orderly, endVars
  <2> QED
    BY <1>1, <2>2, <2>4, <2>5, <2>6 DEF Basics, endVars
<1>3. CASE ~Drops(current)
  <2>1. UNCHANGED listVars
    BY <1>1, <1>3 DEF ReturnTask, listVars
  <2>2. Store' /\ TriggerHeld' /\ StoppedIsEmpty'
    BY <1>1, <2>1, ListsStay DEF sockVars, evVars
  <2>3. TypeOK'
    BY <1>1, <2>1 DEF Basics, TypeOK, ThreadTypeOK, threadVars, listVars, sockVars, evVars, endVars
  <2>4. ASSUME rules = Rules
        PROVE  Orderly'
    <3>1. life = "live" /\ Orderly /\ current \in Members(evtimer_list)
          /\ objs[current].kind # "once"
      BY <1>1, <1>3, <2>4, LoopIsLive DEF Orderly, EvSets, Drops
    <3>2. TakeTurns'
      BY <1>1, <3>1 DEF Orderly, TakeTurns, threadVars
    <3>3. FreedIsInactive'
      BY <1>1, <2>1, <3>1 DEF Orderly, FreedIsInactive, evVars, listVars
    <3>4. Timers' = Timers
      BY <2>1 DEF Timers, listVars
    <3>5. EvSets'
      BY <1>1, <3>1, <3>4 DEF Orderly, EvSets, evVars
    <3>6. OneShotsEnd'
      BY <1>1, <2>1, <2>4, <3>1 DEF Orderly, OneShotsEnd, Own, evVars, listVars
    <3> QED
      BY <1>1, <3>1, <3>2, <3>3, <3>5, <3>6 DEF Orderly, endVars
  <2> QED
    BY <1>1, <2>2, <2>3, <2>4 DEF Basics, endVars
<1> QED
  BY <1>2, <1>3

LEMMA ReturnHandlerKeeps ==
    ASSUME Inv, ReturnHandler
    PROVE  Inv'
PROOF
<1> USE DEF Inv
<1>1. /\ phase \in {"handler", "trigger"} /\ phase' = "invoke" /\ current' = NULL
      /\ UNCHANGED <<threadVars, started, listVars, sockVars, evVars, looping, pc, endVars>>
  BY DEF ReturnHandler
<1>2. Store' /\ TriggerHeld' /\ StoppedIsEmpty'
  BY <1>1, ListsStay DEF sockVars, evVars
<1>3. TypeOK'
  BY <1>1 DEF Basics, TypeOK, ThreadTypeOK, threadVars, listVars, sockVars, evVars, endVars
<1>4. ASSUME rules = Rules
      PROVE  Orderly'
  <2>1. life = "live" /\ Orderly
    BY <1>1, <1>4, LoopIsLive
  <2>2. TakeTurns'
    BY <1>1, <2>1 DEF Orderly, TakeTurns, threadVars
  <2>3. FreedIsInactive'
    BY <1>1, <2>1 DEF Orderly, FreedIsInactive, evVars, listVars
  <2>4. Timers' = Timers
    BY <1>1 DEF Timers, listVars
  <2>5. EvSets' /\ OneShotsEnd'
    BY <1>1, <1>4, <2>1, <2>4 DEF Orderly, EvSets, OneShotsEnd, Own, evVars, listVars
  <2> QED
    BY <1>1, <2>1, <2>2, <2>3, <2>5 DEF Orderly, endVars
<1> QED
  BY <1>1, <1>2, <1>3, <1>4 DEF Basics, endVars

LEMMA TurnKeeps ==
    ASSUME Inv, Turn
    PROVE  Inv'
PROOF
<1> USE DEF Inv
<1>1. /\ phase = "invoke" /\ pending = {}
      /\ \/ phase' = "poll" /\ UNCHANGED <<looping, pc>>
         \/ /\ phase' = "out" /\ looping' = NoThread
            /\ Goto(looping, IF looping = Main THEN "idle" ELSE "forget")
      /\ UNCHANGED <<threadVars, started, listVars, sockVars, evVars, current, endVars>>
  BY DEF Turn
<1>2. Store' /\ TriggerHeld' /\ StoppedIsEmpty'
  BY <1>1, ListsStay DEF sockVars, evVars
<1>3. looping' \in Threads \cup {NoThread} /\ phase' \in {"out", "poll"}
      /\ pc' \in [Threads -> Labels]
  BY <1>1 DEF Basics, TypeOK, Goto, Labels
<1>4. TypeOK'
  BY <1>1, <1>3 DEF Basics, TypeOK, ThreadTypeOK, Labels, threadVars, listVars, sockVars, evVars,
                    endVars
<1>5. ASSUME rules = Rules
      PROVE  Orderly'
  <2>1. life = "live" /\ Orderly
    BY <1>1, <1>5, LoopIsLive
  <2>2. TakeTurns'
    <3>1. CASE phase' = "poll" /\ UNCHANGED <<looping, pc>>
      BY <1>1, <2>1, <3>1 DEF Orderly, TakeTurns, threadVars
    <3>2. CASE /\ phase' = "out" /\ looping' = NoThread
               /\ Goto(looping, IF looping = Main THEN "idle" ELSE "forget")
      <4>1. looping \in Threads /\ pc[looping] = "loop"
        BY <1>1, <2>1 DEF Orderly, TakeTurns, Basics, TypeOK
      <4>2. /\ pc'[looping] = IF looping = Main THEN "idle" ELSE "forget"
            /\ \A x \in Threads \ {looping} : pc'[x] = pc[x]
        BY <3>2, <4>1, GotoIs DEF Basics, Labels
      <4>3. looping \notin Callers
        BY <2>1, <4>1 DEF Orderly, TakeTurns
      <4>4. \A x \in Threads : looping' = x <=> pc'[x] = "loop"
        BY <2>1, <3>2, <4>1, <4>2, ThreadsAre DEF Orderly, TakeTurns
      <4> QED
        BY <1>1, <2>1, <3>2, <4>1, <4>2, <4>3, <4>4, ThreadsAre DEF Orderly, TakeTurns, threadVars
    <3> QED
      BY <1>1, <3>1, <3>2
  <2>3. FreedIsInactive'
    BY <1>1, <2>1 DEF Orderly, FreedIsInactive, evVars, listVars
  <2>4. Timers' = Timers
    BY <1>1 DEF Timers, listVars
  <2>5. EvSets' /\ OneShotsEnd'
    BY <1>1, <1>3, <1>5, <2>1, <2>4 DEF Orderly, EvSets, OneShotsEnd, Own, evVars, listVars
  <2> QED
    BY <1>1, <2>1, <2>2, <2>3, <2>5 DEF Orderly, endVars
<1> QED
  BY <1>1, <1>2, <1>4, <1>5 DEF Basics, endVars

(* The thread that ends is the only one, and clears _running last.         *)
LEMMA EndKeeps ==
    ASSUME Inv, NEW w \in Workers, End(w)
    PROVE  Inv'
PROOF
<1> USE DEF Inv
<1>1. /\ \/ pc[w] = "forget" /\ Goto(w, "pend") /\ running' = running
         \/ pc[w] = "pend" /\ Goto(w, "halt") /\ running' = running
         \/ pc[w] = "halt" /\ Goto(w, "none") /\ running' = FALSE
      /\ tid' \in Workers \cup {NoThread} /\ exit_pending' \in BOOLEAN /\ running' \in BOOLEAN
      /\ UNCHANGED <<started, listVars, sockVars, evVars, loopVars, endVars>>
  BY DEF End, ForgetTid, PendAtExit, ClearRunning, Basics, TypeOK, ThreadTypeOK
<1>2. /\ pc' \in [Threads -> Labels]
      /\ \A x \in Threads \ {w} : pc'[x] = pc[x]
      /\ pc[w] \in {"forget", "pend", "halt"} /\ pc'[w] \in {"pend", "halt", "none"}
      /\ pc'[w] # "none" => running' = running
  BY <1>1, ThreadsAre, GotoIs DEF Basics, Labels
<1>3. Store' /\ TriggerHeld' /\ StoppedIsEmpty'
  BY <1>1, ListsStay DEF sockVars, evVars
<1>4. TypeOK'
  BY <1>1, <1>2 DEF Basics, TypeOK, ThreadTypeOK, Labels, listVars, sockVars, evVars, loopVars,
                    endVars
<1>5. ASSUME rules = Rules
      PROVE  Orderly'
  <2>1. Orderly
    BY <1>5
  <2>2. life = "live"
    BY <1>2, <2>1 DEF Orderly, AtRest
  <2>3. TakeTurns'
    <3>1. \A v \in Workers \ {w} : pc'[v] = "none"
      BY <1>2, <2>1, ThreadsAre DEF Orderly, TakeTurns
    <3>2. \A x \in Threads : looping' = x <=> pc'[x] = "loop"
      BY <1>1, <1>2, <2>1 DEF Orderly, TakeTurns, loopVars
    <3>3. pc'[Main] = pc[Main] /\ \A c \in Callers : pc'[c] = pc[c]
      BY <1>2, ThreadsAre
    <3> QED
      BY <1>1, <1>2, <2>1, <3>1, <3>2, <3>3 DEF Orderly, TakeTurns, loopVars
  <2>4. FreedIsInactive' /\ EvSets' /\ OneShotsEnd'
    BY <1>1, <1>5, <2>1, <2>2, SetsStay DEF Orderly, evVars, loopVars, endVars
  <2> QED
    BY <1>1, <2>1, <2>2, <2>3, <2>4 DEF Orderly, endVars
<1> QED
  BY <1>1, <1>3, <1>4, <1>5 DEF Basics, endVars
-----------------------------------------------------------------------------
LEMMA InitInv == Init => Inv
PROOF
<1> SUFFICES ASSUME Init PROVE Inv
  OBVIOUS
<1>1. /\ \A t \in Tokens : objs[t] = Freed
      /\ evio_list = <<>> /\ evtimer_list = <<>> /\ Members(<<>>) = {} /\ Timers = {}
  BY DEF Init, Members, Timers
<1>2. TypeOK
  <2>1. /\ objs \in [Tokens -> Object \cup {Freed}]
        /\ pc \in [Threads -> Labels]
    BY DEF Init, Labels
  <2>2. /\ evio_list \in Seq(Tokens) /\ evtimer_list \in Seq(Tokens)
        /\ triggers \in Seq(Nat) /\ Len(triggers) <= Capacity
    BY EmptySeq, NumbersAreNumbers DEF Init
  <2> QED
    BY <2>1, <2>2 DEF Init, TypeOK, ThreadTypeOK, ThreadCreate, Labels
<1>3. Basics
  BY <1>1, <1>2, EmptySeq DEF Init, Basics, Store, Once, TypeOK, TriggerHeld, StoppedIsEmpty
<1>4. Orderly
  BY <1>1, ThreadsAre
     DEF Init, Orderly, TakeTurns, FreedIsInactive, EvSets, OneShotsEnd, ThreadCreate
<1> QED
  BY <1>3, <1>4 DEF Inv

LEMMA CallKeeps ==
    ASSUME Inv, Call
    PROVE  Inv'
PROOF
<1>1. CASE \E t \in Tokens, e \in (SUBSET Masks) \ {{}} :
             Watch(t, e) \/ Disable(t, e) \/ Enable(t, e)
  BY <1>1, WatchKeeps, EventsKeep
<1>2. CASE \E t \in Tokens :
             \/ SocktokenDestroy(t) \/ TaskAgain(t) \/ TasktokenDestroy(t)
             \/ \E kind \in {"once", "periodic"} : TimerTask(t, kind)
  BY <1>2, SocktokenDestroyKeeps, TaskAgainKeeps, TasktokenDestroyKeeps, TimerTaskKeeps
<1>3. CASE \E t \in Tokens : Start(t) \/ StartFails(t) \/ \E w \in Workers : StartThread(t, w)
  BY <1>3, StartKeeps, StartFailsKeeps, StartThreadKeeps
<1>4. CASE Break \/ Stop \/ Destroy \/ Enter(Main) \/ \E c \in Callers : TriggerCheck(c)
  BY <1>4, BreakKeeps, StopKeeps, DestroyKeeps, EnterKeeps, TriggerCheckKeeps, ThreadsAre
<1> QED
  BY <1>1, <1>2, <1>3, <1>4 DEF Call

LEMMA LoopStepKeeps ==
    ASSUME Inv, LoopStep
    PROVE  Inv'
PROOF
<1>1. CASE \E w \in Workers : Enter(w) \/ End(w)
  BY <1>1, EnterKeeps, EndKeeps, ThreadsAre
<1>2. CASE \E t \in Tokens : Invoke(t) \/ InvokeFreed(t) \/ InvokeTrigger(t)
  BY <1>2, InvokeKeeps, InvokeFreedKeeps, InvokeTriggerKeeps
<1>3. CASE ReturnTask \/ ReturnHandler \/ Turn
  BY <1>3, ReturnTaskKeeps, ReturnHandlerKeeps, TurnKeeps
<1> QED
  BY <1>1, <1>2, <1>3 DEF LoopStep

LEMMA NextInv == Inv /\ [Next]_vars => Inv'
PROOF
<1> SUFFICES ASSUME Inv, [Next]_vars PROVE Inv'
  OBVIOUS
<1>1. CASE UNCHANGED vars
  BY <1>1 DEF vars, threadVars, listVars, sockVars, evVars, loopVars, endVars, Inv, Basics, TypeOK,
              ThreadTypeOK, Store, TriggerHeld, StoppedIsEmpty, Orderly, TakeTurns, AtRest, EvSets,
              FreedIsInactive, OneShotsEnd, Own, Timers
<1>2. CASE Step
  <2>1. CASE GoOn
    BY <2>1, StartGoesOn, TriggerWriteKeeps DEF GoOn
  <2> QED
    BY <1>2, <2>1, CallKeeps, LoopStepKeeps, PollKeeps, SocketFailsKeeps DEF Step
<1> QED
  BY <1>1, <1>2 DEF Next, Terminated

LEMMA SpecInv == Spec => []Inv
PROOF
<1> QED
  BY InitInv, NextInv, PTL DEF Spec
-----------------------------------------------------------------------------
(* Whatever a program does, in its callbacks and out of them, every evdata *)
(* that was allocated is in the one list of its kind, once, and that list  *)
(* has the only reference.                                                 *)
THEOREM ListsOwnObjects == Spec => []ListsOwn
PROOF
<1>1. Inv => ListsOwn
  BY StoreIs DEF Inv, Basics
<1> QED
  BY <1>1, SpecInv, PTL

(* Whatever a program does, the trigger's watcher stays active as long as  *)
(* the scheduler is started and its socket pair works.                     *)
THEOREM TriggerStaysWatched == Spec => []TriggerWatched
PROOF
<1>1. Inv => TriggerWatched
  BY DEF Inv, Basics, TriggerHeld, TriggerWatched
<1> QED
  BY <1>1, SpecInv, PTL

(* A program that keeps the three rules never has libev or the scheduler   *)
(* use a watcher that was freed.                                           *)
THEOREM WatchersStayAlive == Spec => []WatchedIsAlive
PROOF
<1>1. Inv => WatchedIsAlive
  BY DEF Inv, Orderly, WatchedIsAlive
<1> QED
  BY <1>1, SpecInv, PTL

(* In such a program a delayed task that is listed will be called, or its  *)
(* callback runs: after the callback it is gone.                           *)
THEOREM DelayedTasksEnd == Spec => []OneShotsEnd
PROOF
<1>1. Inv => OneShotsEnd
  BY DEF Inv, Orderly, OneShotsEnd
<1> QED
  BY <1>1, SpecInv, PTL
-----------------------------------------------------------------------------
(* The connectors.                                                         *)

CNTypes ==
    /\ connectors \in [Connectors -> ConnectorRecord \cup {NoConnector}]
    /\ bound \in [Tokens -> Binding \cup {NoProc}]
    /\ stage \in {"none", "body", "user"} /\ awaiting \subseteq Connectors

(* The connectors that use connection c when m is connectors, and the      *)
(* references that they and the program have if h is held.                 *)
Users(m, c) == {k \in Connectors : m[k] # NoConnector /\ m[k].conn = c}
Holds(m, h) == [c \in Conns |-> h[c] + Cardinality(Users(m, c))]

Links ==
    /\ IsFiniteSet(Existing)
    /\ HoldMap(held) /\ socks \subseteq Fds
    /\ Counted(conns, Holds(connectors, held))
    /\ OwnedIn(conns, socks)

(* A descriptor is its connection's as long as the connection is there.    *)
FdsStay == \A c \in There(conns) \cap There(conns)' : conns'[c].fd = conns[c].fd
-----------------------------------------------------------------------------
LEMMA UsersFinite ==
    ASSUME IsFiniteSet(Existing), NEW c
    PROVE  /\ IsFiniteSet(Users(connectors, c))
           /\ Cardinality(Users(connectors, c)) \in Nat
           /\ Cardinality(Users(connectors, c)) = 0 <=> Users(connectors, c) = {}
PROOF
<1>1. Users(connectors, c) \subseteq Existing
  BY DEF Users, Existing
<1>2. IsFiniteSet(Users(connectors, c))
  BY <1>1, FS_Subset
<1> QED
  BY <1>2, FS_CardinalityType, FS_EmptySet

LEMMA HoldsSum ==
    ASSUME NEW m, NEW h, HoldMap(h), \A c \in Conns : Cardinality(Users(m, c)) \in Nat
    PROVE  /\ HoldMap(Holds(m, h))
           /\ \A c \in Conns : Holds(m, h)[c] = h[c] + Cardinality(Users(m, c))
PROOF
<1> QED
  BY DEF HoldMap, Holds

LEMMA HoldsAre ==
    ASSUME Links
    PROVE  /\ HoldMap(Holds(connectors, held))
           /\ \A c \in Conns :
                Holds(connectors, held)[c] = held[c] + Cardinality(Users(connectors, c))
PROOF
<1>1. \A c \in Conns : Cardinality(Users(connectors, c)) \in Nat
  BY UsersFinite DEF Links
<1> QED
  BY <1>1, HoldsSum DEF Links

(* What is held is there.                                                  *)
LEMMA UsedIsThere ==
    ASSUME Links, NEW c \in Conns, held[c] > 0 \/ Users(connectors, c) # {}
    PROVE  /\ c \in There(conns) /\ conns[c] \in ConnectionRecord
           /\ conns[c].refs \in Nat /\ Holds(connectors, held)[c] > 0
PROOF
<1> DEFINE h == Holds(connectors, held)
<1>1. h[c] = held[c] + Cardinality(Users(connectors, c)) /\ h[c] > 0
  <2>1. /\ h[c] = held[c] + Cardinality(Users(connectors, c)) /\ held[c] \in Nat
        /\ Cardinality(Users(connectors, c)) \in Nat
        /\ Cardinality(Users(connectors, c)) = 0 <=> Users(connectors, c) = {}
    BY UsersFinite, HoldsAre DEF Links, HoldMap
  <2> HIDE DEF h
  <2> QED
    BY <2>1
<1>2. Counted(conns, h)
  BY DEF Links
<1> HIDE DEF h
<1>3. c \in There(conns)
  BY <1>1, <1>2, BoundFacts
<1>4. conns[c] \in ConnectionRecord
  BY <1>2, <1>3 DEF Counted, ConnMap, There
<1> QED
  BY <1>1, <1>3, <1>4 DEF h, ConnectionRecord

(* One connector is created, changed or destroyed.                         *)
Counts(r, c) == IF r # NoConnector /\ r.conn = c THEN 1 ELSE 0

LEMMA OneConnectorChanges ==
    ASSUME CNTypes, Links, NEW k \in Connectors,
           NEW r \in ConnectorRecord \cup {NoConnector},
           connectors' = [connectors EXCEPT ![k] = r], HoldMap(held')
    PROVE  /\ connectors' \in [Connectors -> ConnectorRecord \cup {NoConnector}]
           /\ connectors'[k] = r /\ \A l \in Connectors \ {k} : connectors'[l] = connectors[l]
           /\ IsFiniteSet(Existing')
           /\ HoldMap(Holds(connectors', held'))
           /\ \A c \in Conns :
                Holds(connectors', held')[c] = Holds(connectors, held)[c]
                  + (held'[c] - held[c]) + Counts(r, c) - Counts(connectors[k], c)
PROOF
<1>1. /\ connectors' \in [Connectors -> ConnectorRecord \cup {NoConnector}]
      /\ connectors'[k] = r /\ \A l \in Connectors \ {k} : connectors'[l] = connectors[l]
  BY DEF CNTypes
<1>2. IsFiniteSet(Existing')
  <2>1. Existing' \subseteq Existing \cup {k}
    BY <1>1 DEF Existing
  <2>2. IsFiniteSet(Existing \cup {k})
    BY FS_AddElement DEF Links
  <2> QED
    BY <2>1, <2>2, FS_Subset
<1>3. ASSUME NEW c \in Conns
      PROVE  /\ Cardinality(Users(connectors', c)) \in Nat
             /\ Cardinality(Users(connectors, c)) \in Nat
             /\ Cardinality(Users(connectors', c))
                  = Cardinality(Users(connectors, c)) + Counts(r, c) - Counts(connectors[k], c)
  <2> DEFINE U == Users(connectors, c)
             V == Users(connectors', c)
  <2>1. /\ V = IF Counts(r, c) = 1 THEN U \cup {k} ELSE U \ {k}
        /\ k \in U <=> Counts(connectors[k], c) = 1
        /\ Counts(r, c) \in {0, 1} /\ Counts(connectors[k], c) \in {0, 1}
    <3>1. V = IF Counts(r, c) = 1 THEN U \cup {k} ELSE U \ {k}
      BY <1>1 DEF Users, Counts
    <3> QED
      BY <3>1 DEF Users, Counts
  <2>2. IsFiniteSet(U) /\ Cardinality(U) \in Nat
    BY UsersFinite DEF Links
  <2>3. /\ IsFiniteSet(U \cup {k}) /\ IsFiniteSet(U \ {k})
        /\ Cardinality(U \cup {k}) = IF k \in U THEN Cardinality(U) ELSE Cardinality(U) + 1
        /\ Cardinality(U \ {k}) = IF k \in U THEN Cardinality(U) - 1 ELSE Cardinality(U)
    BY <2>2, FS_AddElement, FS_RemoveElement
  <2>4. Cardinality(U \ {k}) \in Nat /\ Cardinality(U \cup {k}) \in Nat
    BY <2>3, FS_CardinalityType
  <2> HIDE DEF U, V
  <2> QED
    BY <2>1, <2>2, <2>3, <2>4 DEF U, V
<1>4. /\ HoldMap(Holds(connectors', held'))
      /\ \A c \in Conns :
           /\ Holds(connectors', held')[c] = held'[c] + Cardinality(Users(connectors', c))
           /\ Holds(connectors, held)[c] = held[c] + Cardinality(Users(connectors, c))
           /\ held'[c] \in Nat /\ held[c] \in Nat
  <2>1. \A c \in Conns : Cardinality(Users(connectors', c)) \in Nat
    BY <1>3
  <2>2. \A c \in Conns : held'[c] \in Nat /\ held[c] \in Nat
    BY DEF HoldMap, Links
  <2> QED
    BY <2>1, <2>2, HoldsSum, HoldsAre
<1>5. ASSUME NEW c \in Conns
      PROVE  Holds(connectors', held')[c] = Holds(connectors, held)[c]
                  + (held'[c] - held[c]) + Counts(r, c) - Counts(connectors[k], c)
  <2> DEFINE n == Cardinality(Users(connectors', c))
             o == Cardinality(Users(connectors, c))
             x == Counts(r, c)
             y == Counts(connectors[k], c)
             after == Holds(connectors', held')[c]
             before == Holds(connectors, held)[c]
  <2>1. x \in Int /\ y \in Int
    BY DEF Counts
  <2>2. n \in Nat /\ o \in Nat /\ n = o + x - y
    BY <1>3
  <2>3. after = held'[c] + n /\ before = held[c] + o /\ held'[c] \in Nat /\ held[c] \in Nat
    BY <1>4
  <2> HIDE DEF n, o, x, y, after, before
  <2>4. after = before + (held'[c] - held[c]) + x - y
    BY <2>1, <2>2, <2>3
  <2> QED
    BY <2>4 DEF x, y, after, before
<1> QED
  BY <1>1, <1>2, <1>4, <1>5
-----------------------------------------------------------------------------
(* The connections, by what happens to one of them.                        *)

LEMMA LinksStay ==
    ASSUME Links, UNCHANGED connVars, IsFiniteSet(Existing'),
           \A c \in Conns : Users(connectors', c) = Users(connectors, c)
    PROVE  Links' /\ FdsStay
PROOF
<1>1. Holds(connectors', held') = Holds(connectors, held)
  BY DEF Holds, connVars
<1> QED
  BY <1>1 DEF Links, connVars, FdsStay

(* A connection is created, for the program or for a connector.            *)
LEMMA CreatingLinks ==
    ASSUME Links, NEW c \in Conns, c \notin Allocated, NEW fd \in Fds \cup {Closed},
           conns' = Created(c, "inet_stream", fd, NoConn),
           \/ fd = Closed /\ socks' = socks
           \/ fd \in Fds \ socks /\ socks' = socks \cup {fd},
           HoldMap(held'), IsFiniteSet(Existing'), HoldMap(Holds(connectors', held')),
           Holds(connectors', held')[c] = 1,
           \A d \in Conns \ {c} : Holds(connectors', held')[d] = Holds(connectors, held)[d]
    PROVE  /\ Links' /\ FdsStay
           /\ c \notin There(conns) /\ c \in There(conns') /\ conns'[c].fd = fd
PROOF
<1> DEFINE h == Holds(connectors, held)
           g == Holds(connectors', held')
           n == Created(c, "inet_stream", fd, NoConn)
<1>1. c \notin There(conns) /\ Counted(conns, h) /\ HoldMap(g) /\ g[c] = 1
      /\ \A d \in Conns \ {c} : g[d] = h[d]
  BY DEF There, Allocated, Links
<1>2. "inet_stream" \in ConnKinds /\ "inet_stream" # "inet_dgram" /\ NoConn \in Conns \cup {NoConn}
  BY DEF ConnKinds
<1> HIDE DEF g, h, n
<1>3. /\ Counted(n, g) /\ There(n) = There(conns) \cup {c} /\ n[c].fd = fd
      /\ \A d \in There(conns) : n[d].fd = conns[d].fd
  BY <1>1, <1>2, CreatedCounted DEF n
<1>4. conns' = n
  BY DEF n
<1>5. OwnedIn(n, socks')
  <2>1. OwnedIn(conns, socks)
    BY DEF Links
  <2>2. \/ n[c].fd = Closed /\ socks' = socks
        \/ n[c].fd # Closed /\ n[c].fd \notin socks /\ socks' = socks \cup {n[c].fd}
    BY <1>3, ClosedIsNoDescriptor
  <2>3. \A d \in There(conns) \ {c} : n[d].fd = conns[d].fd
    BY <1>3
  <2> QED
    BY <1>1, <1>3, <2>1, <2>2, <2>3, OwnedGrows
<1>6. socks' \subseteq Fds
  BY DEF Links
<1> QED
  BY <1>1, <1>3, <1>4, <1>5, <1>6 DEF Links, FdsStay, g

(* A reference is given up: by the program, or by a connector that is      *)
(* destroyed.                                                              *)
LEMMA LettingGoLinks ==
    ASSUME Links, NEW c \in Conns, Holds(connectors, held)[c] > 0,
           LetGo(c), HoldMap(held'),
           HoldMap(Holds(connectors', held')), IsFiniteSet(Existing'),
           Holds(connectors', held')[c] = Holds(connectors, held)[c] - 1,
           \A d \in Conns \ {c} : Holds(connectors', held')[d] = Holds(connectors, held)[d]
    PROVE  Links' /\ FdsStay
PROOF
<1> DEFINE h == Holds(connectors, held)
           g == Holds(connectors', held')
           n == WithoutRef(c)
<1>1. Counted(conns, h) /\ HoldMap(h) /\ HoldMap(g) /\ h[c] > 0 /\ g[c] = h[c] - 1
      /\ \A d \in Conns \ {c} : g[d] = h[d]
  BY HoldsAre DEF Links
<1> HIDE DEF h, g
<1>2. c \in There(conns)
  BY <1>1, BoundFacts
<1>3. conns' = n /\ socks' = socks \ {conns[d].fd : d \in Ending(c)}
  BY DEF LetGo
<1> HIDE DEF n
<1>4. /\ Counted(n, g)
      /\ Ending(c) \subseteq There(conns)
      /\ There(n) = There(conns) \ Ending(c)
      /\ \A d \in There(conns) \ Ending(c) : n[d].fd = conns[d].fd
  BY <1>1, <1>2, ReleasedCounted DEF n
<1>5. OwnedIn(n, socks')
  <2>1. \A d \in There(n) : n[d].fd = IF d \in Ending(c) THEN Closed ELSE conns[d].fd
    BY <1>4
  <2>2. OwnedIn(conns, socks) /\ socks' = socks \ {conns[d].fd : d \in Ending(c)}
    BY <1>3 DEF Links
  <2>3. /\ Ending(c) \in SUBSET There(conns) /\ There(n) \subseteq There(conns)
        /\ There(conns) \ Ending(c) \subseteq There(n)
    BY <1>4
  <2> HIDE DEF Links
  <2> QED
    BY <2>1, <2>2, <2>3, OwnedShrinks
<1>6. socks' \subseteq Fds
  BY <1>3 DEF Links
<1> QED
  BY <1>3, <1>4, <1>5, <1>6 DEF Links, FdsStay, g

(* A connection changes its descriptor or gains holders.                   *)
LEMMA RecountedLinks ==
    ASSUME Links, NEW c \in There(conns), NEW fd \in Fds \cup {Closed}, NEW more \in Nat,
           conns' = [conns EXCEPT ![c] = [kind |-> @.kind, fd |-> fd, udp |-> @.udp,
                                          refs |-> @.refs + more]],
           \/ fd = conns[c].fd /\ socks' = socks
           \/ fd = Closed /\ socks' = socks \ {conns[c].fd},
           HoldMap(held'), HoldMap(Holds(connectors', held')), IsFiniteSet(Existing'),
           Holds(connectors', held')[c] = Holds(connectors, held)[c] + more,
           \A d \in Conns \ {c} : Holds(connectors', held')[d] = Holds(connectors, held)[d]
    PROVE  Links' /\ There(conns') = There(conns)
PROOF
<1> DEFINE h == Holds(connectors, held)
           g == Holds(connectors', held')
<1>1. /\ Counted(conns, h) /\ HoldMap(h) /\ HoldMap(g) /\ g[c] = h[c] + more
      /\ \A d \in Conns \ {c} : g[d] = h[d]
  BY HoldsAre DEF Links
<1> HIDE DEF h, g
<1>2. c \in Conns /\ conns[c] \in ConnectionRecord /\ conns[c].refs > 0 /\ h[c] \in Nat
  BY <1>1 DEF There, Counted, ConnMap, RefsIn, HoldMap
<1>3. /\ conns'[c] \in ConnectionRecord /\ conns'[c].refs = conns[c].refs + more
      /\ conns'[c].kind = conns[c].kind /\ conns'[c].udp = conns[c].udp
      /\ conns'[c].fd = fd
      /\ \A d \in Conns \ {c} : conns'[d] = conns[d]
      /\ ConnMap(conns')
  <2> DEFINE r == [kind |-> conns[c].kind, fd |-> fd, udp |-> conns[c].udp,
                   refs |-> conns[c].refs + more]
  <2>1. r \in ConnectionRecord
    BY <1>2 DEF ConnectionRecord
  <2>2. conns' = [conns EXCEPT ![c] = r] /\ conns \in [Conns -> ConnectionRecord \cup {Unallocated}]
    BY <1>1 DEF Counted, ConnMap
  <2> HIDE DEF r
  <2>3. /\ conns'[c] = r /\ ConnMap(conns')
        /\ \A d \in Conns \ {c} : conns'[d] = conns[d]
    BY <1>2, <2>1, <2>2 DEF ConnMap
  <2> QED
    BY <2>1, <2>3 DEF r
<1>4. There(conns') = There(conns)
  BY <1>3, UnallocatedIsNoConnection DEF There
<1>5. Counted(conns', g)
  <2>1. \A d \in There(conns) : d \in Conns /\ conns[d].refs > 0
    BY <1>1 DEF Counted, RefsIn, There
  <2>2. \A d \in There(conns) :
           /\ conns'[d].udp = conns[d].udp /\ conns'[d].kind = conns[d].kind
           /\ conns'[d].refs - g[d] = conns[d].refs - h[d] /\ conns'[d].refs > 0
    <3>1. ASSUME NEW d \in There(conns), d # c
          PROVE  conns'[d] = conns[d] /\ g[d] = h[d] /\ conns[d].refs > 0
      BY <1>1, <1>3, <2>1, <3>1
    <3>2. conns'[c].refs - g[c] = conns[c].refs - h[c] /\ conns'[c].refs > 0
      BY <1>1, <1>2, <1>3 DEF ConnectionRecord
    <3> QED
      BY <1>3, <3>1, <3>2
  <2>3. \A d \in Conns \ There(conns) : g[d] = h[d]
    BY <1>1
  <2> DEFINE n == conns'
  <2>4. /\ There(n) = There(conns) /\ ConnMap(n)
        /\ \A d \in There(conns) :
             /\ n[d].udp = conns[d].udp /\ n[d].kind = conns[d].kind
             /\ n[d].refs - g[d] = conns[d].refs - h[d] /\ n[d].refs > 0
    BY <1>3, <1>4, <2>2
  <2> HIDE DEF n
  <2>5. Counted(n, g)
    BY <1>1, <2>3, <2>4, SameBindings
  <2> QED
    BY <2>5 DEF n
<1>6. OwnedIn(conns', socks')
  <2>1. CASE fd = conns[c].fd /\ socks' = socks
    <3>1. \A d \in There(conns) : conns'[d].fd = conns[d].fd
      BY <1>3, <2>1 DEF There
    <3>2. OwnedIn(conns, socks)
      BY DEF Links
    <3> DEFINE n == conns'
    <3>3. There(n) = There(conns) /\ \A d \in There(conns) : n[d].fd = conns[d].fd
      BY <1>4, <3>1
    <3> HIDE DEF n
    <3>5. OwnedIn(n, socks)
      BY <3>2, <3>3, OwnedStays
    <3> QED
      BY <2>1, <3>5 DEF n
  <2>2. CASE fd = Closed /\ socks' = socks \ {conns[c].fd}
    <3>1. \A d \in There(conns') : conns'[d].fd = IF d \in {c} THEN Closed ELSE conns[d].fd
      BY <1>3, <1>4, <2>2 DEF There
    <3>2. OwnedIn(conns, socks) /\ socks' = socks \ {conns[d].fd : d \in {c}}
      BY <2>2 DEF Links
    <3>3. /\ {c} \in SUBSET There(conns) /\ There(conns') \subseteq There(conns)
          /\ There(conns) \ {c} \subseteq There(conns')
      BY <1>4
    <3> HIDE DEF Links
    <3> DEFINE n == conns'
               s == socks'
    <3>4. /\ There(n) \subseteq There(conns) /\ There(conns) \ {c} \subseteq There(n)
          /\ \A d \in There(n) : n[d].fd = IF d \in {c} THEN Closed ELSE conns[d].fd
          /\ s = socks \ {conns[d].fd : d \in {c}}
      BY <3>1, <3>2, <3>3
    <3> HIDE DEF n, s
    <3>5. OwnedIn(n, s)
      BY <3>2, <3>3, <3>4, OwnedShrinks
    <3> QED
      BY <3>5 DEF n, s
  <2> QED
    BY <2>1, <2>2
<1>7. socks' \subseteq Fds
  BY DEF Links
<1> QED
  BY <1>4, <1>5, <1>6, <1>7 DEF Links, g
-----------------------------------------------------------------------------
(* The connections, by the connector or the program that uses them.        *)

LEMMA ConnectorIs ==
    ASSUME CNTypes, NEW k \in Existing
    PROVE  /\ k \in Connectors /\ connectors[k] \in ConnectorRecord
           /\ connectors[k] # NoConnector /\ Conn(k) = connectors[k].conn
           /\ Conn(k) \in Conns \cup {NoConn}
           /\ connectors[k].conntoken \in Tokens \cup {NULL}
           /\ connectors[k].timeouttoken \in Tokens \cup {NULL}
           /\ \A c : Counts(connectors[k], c) = IF c = Conn(k) THEN 1 ELSE 0
PROOF
<1> QED
  BY DEF CNTypes, Existing, ConnectorRecord, Conn, Counts

(* The connection of a connector, and its descriptor.                      *)
LEMMA ConnectionOf ==
    ASSUME CNTypes, Links, NEW k \in Existing, Conn(k) # NoConn
    PROVE  /\ Conn(k) \in There(conns) /\ Conn(k) \in Conns
           /\ Holds(connectors, held)[Conn(k)] > 0 /\ conns[Conn(k)].fd \in Fds \cup {Closed}
PROOF
<1>1. Conn(k) \in Conns /\ k \in Users(connectors, Conn(k))
  BY ConnectorIs DEF Users
<1>2. /\ Conn(k) \in There(conns) /\ Holds(connectors, held)[Conn(k)] > 0
      /\ conns[Conn(k)] \in ConnectionRecord
  BY <1>1, UsedIsThere
<1> QED
  BY <1>1, <1>2 DEF ConnectionRecord

LEMMA DetachedIs ==
    ASSUME NEW conn \in Conns \cup {NoConn}, NEW a \in Tokens \cup {NULL}, NEW b \in Tokens \cup {NULL}
    PROVE  LET r == [conn |-> conn, conntoken |-> a, timeouttoken |-> b]
           IN  /\ r \in ConnectorRecord /\ r # NoConnector
               /\ r.conn = conn /\ r.conntoken = a /\ r.timeouttoken = b
               /\ \A c : Counts(r, c) = IF c = conn THEN 1 ELSE 0
PROOF
<1> QED
  BY NoConnectorIsNone DEF ConnectorRecord, Counts

(* What a connector has is not changed, or it has no connection.           *)
LEMMA SameConnLinks ==
    ASSUME CNTypes, Links, NEW k \in Connectors, NEW r \in ConnectorRecord \cup {NoConnector},
           connectors' = [connectors EXCEPT ![k] = r], UNCHANGED connVars,
           \A c \in Conns : Counts(r, c) = Counts(connectors[k], c)
    PROVE  Links' /\ FdsStay
PROOF
<1>1. HoldMap(held')
  BY DEF Links, connVars
<1>2. /\ connectors' \in [Connectors -> ConnectorRecord \cup {NoConnector}]
      /\ connectors'[k] = r /\ \A l \in Connectors \ {k} : connectors'[l] = connectors[l]
      /\ IsFiniteSet(Existing')
  BY <1>1, OneConnectorChanges
<1>3. \A c \in Conns : Users(connectors', c) = Users(connectors, c)
  BY <1>2 DEF Users, Counts
<1> QED
  BY <1>2, <1>3, LinksStay

LEMMA OpensLinks ==
    ASSUME CNTypes, Links, NEW k \in Existing, Conn(k) = NoConn,
           NEW c \in Conns, c \notin Allocated, NEW o \in StreamOpen,
           conns' = Created(c, "inet_stream", o.fd, NoConn), socks' = o.open, held' = held,
           NEW r \in ConnectorRecord, r # NoConnector, r.conn = c,
           connectors' = [connectors EXCEPT ![k] = r]
    PROVE  /\ Links' /\ FdsStay /\ o.fd \in Fds \cup {Closed}
           /\ c \notin There(conns) /\ c \in There(conns') /\ conns'[c].fd = o.fd
PROOF
<1> DEFINE h == Holds(connectors, held)
           g == Holds(connectors', held')
<1>0. k \in Connectors /\ c # NoConn /\ \A d \in Conns : Counts(connectors[k], d) = 0
  BY ClosedIsNoDescriptor, ConnectorIs
<1>1. HoldMap(held) /\ HoldMap(held')
  BY DEF Links
<1>2. c \notin There(conns) /\ Counted(conns, h) /\ h[c] = 0 /\ HoldMap(h)
  BY HoldsAre, BoundFacts DEF There, Allocated, Links
<1>3. /\ IsFiniteSet(Existing') /\ HoldMap(g)
      /\ \A d \in Conns : g[d] = h[d] + (held'[d] - held[d]) + Counts(r, d)
                                    - Counts(connectors[k], d)
  BY <1>0, <1>1, OneConnectorChanges
<1>4. g[c] = 1 /\ \A d \in Conns \ {c} : g[d] = h[d]
  <2> HIDE DEF g, h
  <2>1. \A d \in Conns : Counts(r, d) = IF d = c THEN 1 ELSE 0
    BY DEF Counts
  <2>2. \A d \in Conns : held'[d] = held[d] /\ held[d] \in Nat /\ h[d] \in Nat
    BY <1>1, <1>2 DEF HoldMap
  <2> QED
    BY <1>0, <1>2, <1>3, <2>1, <2>2
<1>5. \/ o.fd = Closed /\ o.open = socks
      \/ o.fd \in Fds \ socks /\ o.open = socks \cup {o.fd}
  <2>1. o \in OpenOutcomes("inet_stream", NoConn) /\ "inet_stream" \in ConnKinds
    BY DEF OpenOutcomes, UxKinds, ConnKinds
  <2> QED
    BY <2>1, OutcomesAre DEF Links
<1>6. /\ \/ o.fd = Closed /\ socks' = socks
         \/ o.fd \in Fds \ socks /\ socks' = socks \cup {o.fd}
      /\ o.fd \in Fds \cup {Closed}
  BY <1>5
<1> QED
  BY <1>1, <1>3, <1>4, <1>6, CreatingLinks

(* A connector gets a connection that the program has.                     *)
LEMMA SharesLinks ==
    ASSUME CNTypes, Links, NEW k \in Existing, Conn(k) = NoConn,
           NEW c \in Conns, held[c] > 0, conns' = [conns EXCEPT ![c].refs = @ + 1],
           UNCHANGED <<socks, held>>,
           NEW r \in ConnectorRecord, r # NoConnector, r.conn = c,
           connectors' = [connectors EXCEPT ![k] = r]
    PROVE  Links' /\ FdsStay
PROOF
<1> DEFINE h == Holds(connectors, held)
           g == Holds(connectors', held')
<1>0. k \in Connectors /\ c # NoConn /\ \A d \in Conns : Counts(connectors[k], d) = 0
  BY ClosedIsNoDescriptor, ConnectorIs
<1>1. HoldMap(held) /\ HoldMap(held') /\ HoldMap(h)
  BY HoldsAre DEF Links
<1>2. c \in There(conns) /\ conns[c] \in ConnectionRecord
  BY UsedIsThere
<1>3. /\ IsFiniteSet(Existing') /\ HoldMap(g)
      /\ \A d \in Conns : g[d] = h[d] + (held'[d] - held[d]) + Counts(r, d)
                                    - Counts(connectors[k], d)
  BY <1>0, <1>1, OneConnectorChanges
<1>4. g[c] = h[c] + 1 /\ \A d \in Conns \ {c} : g[d] = h[d]
  <2> HIDE DEF g, h
  <2>1. \A d \in Conns : Counts(r, d) = IF d = c THEN 1 ELSE 0
    BY DEF Counts
  <2>2. \A d \in Conns : held'[d] = held[d] /\ held[d] \in Nat /\ h[d] \in Nat
    BY <1>1 DEF HoldMap
  <2> QED
    BY <1>0, <1>3, <2>1, <2>2
<1>5. conns' = [conns EXCEPT ![c] = [kind |-> @.kind, fd |-> conns[c].fd, udp |-> @.udp,
                                     refs |-> @.refs + 1]]
  <2> DEFINE o == conns[c]
  <2>1. conns' = [conns EXCEPT ![c] = [o EXCEPT !.refs = o.refs + 1]]
    OBVIOUS
  <2>2. o \in ConnectionRecord
    BY <1>2
  <2> HIDE DEF o
  <2>3. [o EXCEPT !.refs = o.refs + 1]
          = [kind |-> o.kind, fd |-> o.fd, udp |-> o.udp, refs |-> o.refs + 1]
    BY <2>2 DEF ConnectionRecord
  <2> QED
    BY <2>1, <2>3 DEF o
<1>6. conns[c].fd \in Fds \cup {Closed} /\ socks' = socks /\ 1 \in Nat
  BY <1>2 DEF ConnectionRecord
<1>7. Links' /\ There(conns') = There(conns)
  BY <1>1, <1>2, <1>3, <1>4, <1>5, <1>6, RecountedLinks
<1>8. \A d \in There(conns) : conns'[d].fd = conns[d].fd
  BY <1>2, <1>5 DEF There
<1> QED
  BY <1>7, <1>8 DEF FdsStay

(* The same for a step that also takes a reference.                        *)
HoldsChange(k, r) ==
    /\ IsFiniteSet(Existing')
    /\ HoldMap(Holds(connectors', held'))
    /\ \A d \in Conns :
         Holds(connectors', held')[d] = Holds(connectors, held)[d]
           + (held'[d] - held[d]) + Counts(r, d) - Counts(connectors[k], d)

LEMMA HoldsChangeOnce ==
    ASSUME CNTypes, Links, NEW k \in Connectors,
           NEW r \in ConnectorRecord \cup {NoConnector},
           connectors' = [connectors EXCEPT ![k] = r], HoldMap(held')
    PROVE  HoldsChange(k, r)
PROOF
<1> QED
  BY OneConnectorChanges DEF HoldsChange

LEMMA TakesLinks ==
    ASSUME CNTypes, Links, NEW k \in Existing, UNCHANGED <<conns, socks>>,
           held' = [c \in Conns |-> IF c = Conn(k) THEN held[c] + 1 ELSE held[c]],
           NEW r \in ConnectorRecord, r # NoConnector, r.conn = NoConn,
           connectors' = [connectors EXCEPT ![k] = r]
    PROVE  Links' /\ FdsStay
PROOF
<1> DEFINE h == Holds(connectors, held)
           g == Holds(connectors', held')
<1>0. k \in Connectors /\ \A d \in Conns : Counts(connectors[k], d) = IF d = Conn(k) THEN 1 ELSE 0
  BY ConnectorIs
<1>1. HoldMap(held) /\ HoldMap(held') /\ HoldMap(h)
  BY HoldsAre DEF Links, HoldMap
<1>3. /\ IsFiniteSet(Existing') /\ HoldMap(g)
      /\ \A d \in Conns : g[d] = h[d] + (held'[d] - held[d]) + Counts(r, d)
                                    - Counts(connectors[k], d)
  <2>1. r \in ConnectorRecord \cup {NoConnector}
    OBVIOUS
  <2>2. k \in Connectors /\ HoldMap(held')
    BY <1>0, <1>1
  <2>3. /\ IsFiniteSet(Existing')
        /\ HoldMap(Holds(connectors', held'))
        /\ \A d \in Conns :
             Holds(connectors', held')[d] = Holds(connectors, held)[d]
               + (held'[d] - held[d]) + Counts(r, d) - Counts(connectors[k], d)
    <3>1. HoldsChange(k, r)
      BY <2>1, <2>2, HoldsChangeOnce
    <3> QED
      BY <3>1 DEF HoldsChange
  <2> QED
    BY <2>3
<1>4. g = h
  <2> HIDE DEF g, h
  <2>1. \A d \in Conns : Counts(r, d) = 0
    BY ClosedIsNoDescriptor DEF Counts
  <2>2. \A d \in Conns : /\ held'[d] = IF d = Conn(k) THEN held[d] + 1 ELSE held[d]
                         /\ held[d] \in Nat /\ h[d] \in Nat
    BY <1>1 DEF HoldMap
  <2>3. \A d \in Conns : g[d] = h[d]
    BY <1>0, <1>3, <2>1, <2>2
  <2> QED
    BY <1>1, <1>3, <2>3 DEF HoldMap
<1> QED
  BY <1>1, <1>3, <1>4 DEF Links, FdsStay

LEMMA DestroysLinks ==
    ASSUME CNTypes, Links, NEW k \in Existing, held' = held,
           IF Conn(k) = NoConn THEN UNCHANGED <<conns, socks>> ELSE LetGo(Conn(k)),
           connectors' = [connectors EXCEPT ![k] = NoConnector]
    PROVE  Links' /\ FdsStay
PROOF
<1> DEFINE h == Holds(connectors, held)
           g == Holds(connectors', held')
           u == Conn(k)
<1>0. /\ k \in Connectors /\ NoConnector \in ConnectorRecord \cup {NoConnector}
      /\ \A d \in Conns : Counts(connectors[k], d) = IF d = u THEN 1 ELSE 0
      /\ \A d \in Conns : Counts(NoConnector, d) = 0
  BY ConnectorIs DEF Counts
<1>1. CASE u = NoConn
  <2>1. \A d \in Conns : Counts(NoConnector, d) = Counts(connectors[k], d)
    BY <1>0, <1>1, ClosedIsNoDescriptor
  <2>2. UNCHANGED connVars
    BY <1>1 DEF connVars
  <2> QED
    BY <1>0, <2>1, <2>2, SameConnLinks
<1>2. CASE u # NoConn
  <2>1. u \in Conns /\ h[u] > 0 /\ LetGo(u)
    BY <1>2, ConnectionOf
  <2>2. HoldMap(held) /\ HoldMap(held') /\ HoldMap(h)
    BY HoldsAre DEF Links
  <2>3. /\ IsFiniteSet(Existing') /\ HoldMap(g)
        /\ \A d \in Conns : g[d] = h[d] + (held'[d] - held[d]) + Counts(NoConnector, d)
                                      - Counts(connectors[k], d)
    BY <1>0, <2>2, OneConnectorChanges
  <2>4. g[u] = h[u] - 1 /\ \A d \in Conns \ {u} : g[d] = h[d]
    <3> HIDE DEF g, h
    <3>1. \A d \in Conns : held'[d] = held[d] /\ held[d] \in Nat /\ h[d] \in Nat
      BY <2>2 DEF HoldMap
    <3> QED
      BY <1>0, <2>1, <2>3, <3>1
  <2> HIDE DEF u
  <2> QED
    BY <2>1, <2>2, <2>3, <2>4, LettingGoLinks
<1> QED
  BY <1>1, <1>2

(* The program's own calls leave descriptors alone that are watched.       *)
LEMMA ProgramLinks ==
    ASSUME CNTypes, Links, ConnectionCall
    PROVE  /\ Links'
           /\ \A c \in There(conns) \cap There(conns)' :
                conns'[c].fd = conns[c].fd \/ conns[c].fd \notin WatchedFds
PROOF
<1> DEFINE h == Holds(connectors, held)
           g == Holds(connectors', held')
<1>0. /\ connectors' = connectors /\ IsFiniteSet(Existing') /\ HoldMap(held) /\ HoldMap(h)
      /\ \A c \in Conns : h[c] = held[c] + Cardinality(Users(connectors, c))
      /\ \A c \in Conns : Cardinality(Users(connectors, c)) \in Nat
  BY HoldsAre, UsersFinite DEF ConnectionCall, cnVars, Existing, Links
<1>1. ASSUME HoldMap(held')
      PROVE  /\ HoldMap(g)
             /\ \A c \in Conns : g[c] = held'[c] + Cardinality(Users(connectors, c))
  BY <1>0, <1>1, HoldsSum
<1> HIDE DEF h, g
<1>2. PICK c \in Conns :
        \/ Create(c) /\ conns'[c].kind = "inet_stream" /\ conns'[c].fd # Closed
        \/ /\ c \in Allocated /\ conns[c].fd \notin WatchedFds
           /\ ConnAutorelease(c) \/ ConnClose(c)
  BY DEF ConnectionCall
<1>3. CASE Create(c) /\ conns'[c].kind = "inet_stream" /\ conns'[c].fd # Closed
  <2>1. c \notin Allocated /\ held' = [held EXCEPT ![c] = 1]
    BY <1>3 DEF Create
  <2>2. PICK kind \in ConnKinds, udp \in Conns \cup {NoConn} :
          /\ IF kind \in UxKinds
               THEN udp # NoConn /\ held[udp] > 0 /\ conns[udp].kind = "inet_dgram"
               ELSE udp = NoConn
          /\ \/ conns' = Created(c, kind, Closed, udp) /\ UNCHANGED socks
             \/ \E f \in Fds \ socks :
                  /\ conns' = Created(c, kind, f, udp)
                  /\ socks' = socks \cup {f}
    BY <1>3 DEF Create
  <2>12. c \notin There(conns)
    BY <2>1 DEF Allocated, There
  <2>13. c # udp
    BY <2>2, <2>12, UsedIsThere, ClosedIsNoDescriptor
  <2>3. ASSUME NEW f
        PROVE  Created(c, kind, f, udp)[c].kind = kind /\ Created(c, kind, f, udp)[c].fd = f
    <3>1. Created(c, kind, f, udp)[c] = [kind |-> kind, fd |-> f, udp |-> udp, refs |-> 1]
      BY <2>13 DEF Created
    <3> QED
      BY <3>1
  <2>4. \A f : Created(c, kind, f, udp)[c].kind = kind /\ Created(c, kind, f, udp)[c].fd = f
    BY <2>3
  <2>5. kind = "inet_stream" /\ udp = NoConn
    BY <1>3, <2>2, <2>4 DEF UxKinds
  <2>6. PICK f \in Fds \ socks :
          conns' = Created(c, "inet_stream", f, NoConn) /\ socks' = socks \cup {f}
    BY <1>3, <2>2, <2>4, <2>5
  <2>7. HoldMap(held') /\ held'[c] = 1 /\ \A d \in Conns \ {c} : held'[d] = held[d]
    BY <1>0, <2>1 DEF HoldMap
  <2>8. Cardinality(Users(connectors, c)) = 0
    <3>1. Users(connectors, c) = {}
      BY <2>12, UsedIsThere
    <3>2. Cardinality(Users(connectors, c)) = 0 <=> Users(connectors, c) = {}
      BY UsersFinite DEF Links
    <3> QED
      BY <3>1, <3>2
  <2>9. g[c] = 1 /\ (\A d \in Conns \ {c} : g[d] = h[d]) /\ HoldMap(g)
    BY <1>0, <1>1, <2>7, <2>8
  <2>10. f \in Fds \cup {Closed} /\ (f \in Fds \ socks /\ socks' = socks \cup {f})
         /\ conns' = Created(c, "inet_stream", f, NoConn)
    BY <2>6
  <2>11. Links' /\ FdsStay
    BY <1>0, <2>1, <2>7, <2>9, <2>10, CreatingLinks DEF g, h
  <2> QED
    BY <2>11 DEF FdsStay
<1>4. CASE c \in Allocated /\ ConnAutorelease(c)
  <2>1. held[c] > 0 /\ LetGo(c) /\ held' = [held EXCEPT ![c] = @ - 1]
    BY <1>4 DEF ConnAutorelease
  <2>2. HoldMap(held') /\ held'[c] = held[c] - 1 /\ \A d \in Conns \ {c} : held'[d] = held[d]
    BY <1>0, <2>1 DEF HoldMap
  <2>3. h[c] > 0 /\ g[c] = h[c] - 1 /\ (\A d \in Conns \ {c} : g[d] = h[d]) /\ HoldMap(g)
    <3>1. held[c] \in Nat
      BY <1>0 DEF HoldMap
    <3> QED
      BY <1>0, <1>1, <2>1, <2>2, <3>1
  <2>4. Links' /\ FdsStay
    BY <1>0, <2>1, <2>2, <2>3, LettingGoLinks DEF g, h
  <2> QED
    BY <2>4 DEF FdsStay
<1>5. CASE c \in Allocated /\ conns[c].fd \notin WatchedFds /\ ConnClose(c)
  <2>1. /\ held[c] > 0 /\ held' = held /\ conns' = [conns EXCEPT ![c].fd = Closed]
        /\ socks' = socks \ {conns[c].fd}
    BY <1>5 DEF ConnClose
  <2>2. c \in There(conns) /\ conns[c] \in ConnectionRecord
    BY <2>1, UsedIsThere
  <2>3. conns' = [conns EXCEPT ![c] = [kind |-> @.kind, fd |-> Closed, udp |-> @.udp,
                                       refs |-> @.refs + 0]]
    <3> DEFINE o == conns[c]
    <3>1. conns' = [conns EXCEPT ![c] = [o EXCEPT !.fd = Closed]]
      BY <2>1
    <3>2. o \in ConnectionRecord
      BY <2>2
    <3> HIDE DEF o
    <3>3. [o EXCEPT !.fd = Closed]
            = [kind |-> o.kind, fd |-> Closed, udp |-> o.udp, refs |-> o.refs + 0]
      BY <3>2 DEF ConnectionRecord
    <3> QED
      BY <3>1, <3>3 DEF o
  <2>4. (\A d \in Conns : g[d] = h[d] /\ h[d] \in Nat) /\ HoldMap(g) /\ HoldMap(held')
    BY <1>0, <1>1, <2>1 DEF HoldMap
  <2>5. g[c] = h[c] + 0 /\ (\A d \in Conns \ {c} : g[d] = h[d]) /\ 0 \in Nat
    BY <2>4
  <2>6. Closed \in Fds \cup {Closed} /\ Closed = Closed /\ socks' = socks \ {conns[c].fd}
    BY <2>1
  <2>7. Links' /\ There(conns') = There(conns)
    BY <1>0, <2>2, <2>3, <2>4, <2>5, <2>6, RecountedLinks DEF g, h
  <2>8. \A d \in There(conns) : d # c => conns'[d].fd = conns[d].fd
    BY <2>1 DEF There
  <2> QED
    BY <1>5, <2>7, <2>8
<1> QED
  BY <1>2, <1>3, <1>4, <1>5
-----------------------------------------------------------------------------
(* The tokens.                                                             *)

(* A program that this is about keeps the rule of the scheduler, and opens *)
(* no connector when it is told of a timeout; connector_connecttimeout     *)
(* destroys the task that is being run.                                    *)
Customary ==
    /\ \A p \in Programs : "stop" \in p /\ "own" \notin p
    /\ ~OpensInTimeouts

(* The loop is the program's thread's, and it is not run after a stop.     *)
Loops ==
    /\ looping \in {NoThread, Main} /\ (looping = NoThread <=> phase = "out")
    /\ life \in {"live", "stopped"}
    /\ life = "stopped" => ~started /\ phase = "out"
    /\ phase \in {"out", "poll"} => pending = {}

(* The connector's part of a callback is that of the token which is being  *)
(* called; after it a task is not listed any more.                         *)
Stages ==
    /\ phase \notin {"task", "handler"} => stage = "none"
    /\ stage = "body" => /\ current \in Tokens /\ bound[current] # NoProc
                         /\ bound[current].proc = IF phase = "task" THEN "timeout" ELSE "connect"
    /\ phase = "task" /\ stage # "body" => current \notin Members(evtimer_list)

(* The evdata that is not the scheduler's own is bound to a connector.     *)
AllBound ==
    \A t \in Tokens :
        /\ bound[t] # NoProc <=> objs[t] # Freed /\ objs[t].kind # "trigger"
        /\ objs[t] # Freed /\ objs[t].kind = "trigger" => t = triggertoken

(* What a token is bound to has the token.                                 *)
Bounded(t) ==
    LET k == bound[t].connector
    IN  /\ k \in Existing /\ Conn(k) # NoConn /\ IsOpen(Conn(k))
        /\ objs[t].kind \in {"io", "once"}
        /\ objs[t].kind = "io" => /\ connectors[k].conntoken = t
                                  /\ bound[t].proc # "timeout"
                                  /\ bound[t].fd = conns[Conn(k)].fd
        /\ objs[t].kind = "once" => connectors[k].timeouttoken = t /\ bound[t].proc = "timeout"
        /\ bound[t].proc # "user" => k \in awaiting

(* What a connector has while the scheduler is started is bound to it.     *)
Holding(k) ==
    /\ connectors[k].conntoken # NULL =>
         LET t == connectors[k].conntoken
         IN  bound[t] # NoProc /\ bound[t].connector = k /\ objs[t].kind = "io"
    /\ connectors[k].timeouttoken # NULL =>
         LET t == connectors[k].timeouttoken
         IN  bound[t] # NoProc /\ bound[t].connector = k /\ objs[t].kind = "once"

(* A timeout that will be called, or is being called.                      *)
Alive(t) == t \in active \cup pending \/ (current = t /\ phase = "task" /\ stage = "body")

(* Who owes an outcome has both tokens, and its timeout is on its way.     *)
Waiting(k) ==
    /\ k \in Existing /\ connectors[k].timeouttoken # NULL /\ connectors[k].conntoken # NULL
    /\ Alive(connectors[k].timeouttoken)

Apart == \A j, k \in Existing : j # k => TokensOf(j) \cap TokensOf(k) = {}

Tokened ==
    /\ AllBound
    /\ \A t \in Tokens : bound[t] # NoProc => Bounded(t)
    /\ started => \A k \in Existing : Holding(k)
    /\ started => \A k \in awaiting : Waiting(k)
    /\ life = "live" /\ ~started => awaiting = {} /\ \A k \in Existing : TokensOf(k) = {}
    /\ Apart

(* The inductive invariant.                                                *)
CNInv == Inv /\ CNTypes /\ Links /\ Loops /\ Stages /\ Tokened

LEMMA ConnectorsBreakRules ==
    ASSUME Customary, TypeOK
    PROVE  "stop" \in rules /\ rules # Rules
PROOF
<1> QED
  BY DEF Customary, TypeOK, Rules

(* A token that is bound is listed, and its connector's.                   *)
LEMMA BoundIs ==
    ASSUME CNInv, NEW t \in Tokens, bound[t] # NoProc
    PROVE  /\ started /\ bound[t] \in Binding /\ objs[t] # Freed /\ objs[t] \in Object
           /\ bound[t].connector \in Existing /\ t \in TokensOf(bound[t].connector)
           /\ t # NULL
PROOF
<1>1. objs[t] # Freed /\ objs[t].kind \in {"io", "once"} /\ bound[t] \in Binding
  BY DEF CNInv, Tokened, AllBound, Bounded, CNTypes
<1>2. t \in Members(evio_list) \/ t \in Members(evtimer_list)
  BY <1>1 DEF CNInv, Inv, Basics, Store
<1>3. started
  BY <1>2 DEF CNInv, Inv, Basics, StoppedIsEmpty, Members
<1>4. t # NULL
  BY NullIsNoToken
<1> QED
  BY <1>1, <1>3, <1>4 DEF CNInv, Tokened, Bounded, TokensOf, Inv, Basics, Store

(* The tokens of a connector while the scheduler is started.               *)
LEMMA TokensAre ==
    ASSUME CNInv, started, NEW k \in Existing, NEW t \in TokensOf(k)
    PROVE  /\ t \in Tokens /\ bound[t] # NoProc /\ bound[t].connector = k /\ objs[t] # Freed
           /\ t = connectors[k].conntoken =>
                objs[t].kind = "io" /\ t \in Members(evio_list) /\ t \notin Members(evtimer_list)
           /\ t = connectors[k].timeouttoken =>
                objs[t].kind = "once" /\ t \in Members(evtimer_list) /\ t \notin Members(evio_list)
PROOF
<1>1. t \in Tokens /\ t # NULL
  BY ConnectorIs DEF CNInv, TokensOf
<1>2. t = connectors[k].conntoken \/ t = connectors[k].timeouttoken
  BY DEF TokensOf
<1>3. /\ bound[t] # NoProc /\ bound[t].connector = k /\ objs[t] # Freed
      /\ t = connectors[k].conntoken => objs[t].kind = "io"
      /\ t = connectors[k].timeouttoken => objs[t].kind = "once"
  BY <1>1, <1>2 DEF CNInv, Tokened, Holding, AllBound
<1> QED
  BY <1>1, <1>2, <1>3 DEF CNInv, Inv, Basics, Store

(* A connector without a connection has no token that is in use.           *)
LEMMA NoConnNoToken ==
    ASSUME CNInv, NEW k \in Connectors, k \notin Existing \/ Conn(k) = NoConn
    PROVE  /\ \A t \in Tokens : bound[t] # NoProc => bound[t].connector # k
           /\ started => k \notin awaiting
PROOF
<1>1. \A t \in Tokens : bound[t] # NoProc => bound[t].connector # k
  BY DEF CNInv, Tokened, Bounded
<1>2. ASSUME started, k \in awaiting PROVE FALSE
  <2>1. Waiting(k)
    BY <1>2 DEF CNInv, Tokened
  <2>2. k \in Existing /\ connectors[k].timeouttoken \in TokensOf(k)
    BY <2>1 DEF Waiting, TokensOf
  <2> QED
    BY <1>1, <1>2, <2>2, TokensAre
<1> QED
  BY <1>1, <1>2

(* What a step does to a connector when it frees the tokens of a set: it   *)
(* forgets its tokens, or it leaves it as it is.                           *)
Rid(k, old) ==
    /\ k \in Existing' => TokensOf(k)' = {}
    /\ started' => k \notin awaiting'
    /\ \A t \in Tokens \ old : bound[t] # NoProc => bound[t].connector # k

Same(k, old) ==
    /\ connectors'[k] = connectors[k]
    /\ k \in awaiting => k \in awaiting'
    /\ started' => \A t \in old : bound[t] # NoProc => bound[t].connector # k
    /\ \A t \in Tokens \ old :
         bound[t] # NoProc /\ bound[t].connector = k => conns'[Conn(k)].fd = conns[Conn(k)].fd
    /\ started' /\ k \in awaiting' /\ Alive(connectors[k].timeouttoken)
         => Alive(connectors[k].timeouttoken)'

LEMMA TokensKept ==
    ASSUME CNInv, NEW old \in SUBSET Tokens,
           \A t \in Tokens \ old :
               objs'[t] = objs[t] /\ bound'[t] = bound[t] /\ (t = triggertoken => triggertoken' = t),
           \A t \in old : objs'[t] = Freed /\ bound'[t] = NoProc,
           started' => started,
           life' = "live" /\ ~started' => life = "live" /\ ~started,
           awaiting' \subseteq awaiting,
           \A k \in Connectors : Rid(k, old) \/ Same(k, old)
    PROVE  Tokened'
PROOF
<1>1. AllBound'
  BY DEF CNInv, Tokened, AllBound
<1>2. ASSUME NEW t \in Tokens, bound'[t] # NoProc
      PROVE  Bounded(t)'
  <2>1. t \in Tokens \ old /\ bound[t] # NoProc /\ bound'[t] = bound[t] /\ objs'[t] = objs[t]
    BY <1>2
  <2> DEFINE k == bound[t].connector
  <2>2. k \in Existing /\ k \in Connectors
    BY <2>1, BoundIs, ConnectorIs DEF CNInv
  <2>3. Same(k, old)
    BY <2>1, <2>2 DEF Rid
  <2>4. connectors'[k] = connectors[k] /\ (k \in awaiting => k \in awaiting')
        /\ conns'[Conn(k)].fd = conns[Conn(k)].fd
    BY <2>1, <2>3 DEF Same
  <2>5. Bounded(t)
    BY <2>1 DEF CNInv, Tokened
  <2> QED
    BY <2>1, <2>2, <2>4, <2>5 DEF Bounded, Existing, Conn, IsOpen
<1>3. ASSUME started', NEW k \in Existing'
      PROVE  Holding(k)'
  <2>1. k \in Connectors /\ connectors'[k] # NoConnector
    BY <1>3 DEF Existing
  <2>2. CASE Rid(k, old)
    BY <1>3, <2>2 DEF Rid, TokensOf, Holding
  <2>3. CASE Same(k, old)
    <3>1. connectors'[k] = connectors[k] /\ k \in Existing /\ started
      BY <1>3, <2>1, <2>3 DEF Same, Existing
    <3>2. ASSUME NEW t \in TokensOf(k)
          PROVE  objs'[t] = objs[t] /\ bound'[t] = bound[t]
      <4>1. t \in Tokens /\ bound[t] # NoProc /\ bound[t].connector = k
        BY <3>1, TokensAre
      <4>2. t \notin old
        BY <1>3, <2>3, <4>1 DEF Same
      <4> QED
        BY <4>1, <4>2
    <3>3. Holding(k)
      BY <3>1 DEF CNInv, Tokened
    <3> QED
      BY <3>1, <3>2, <3>3 DEF Holding, TokensOf
  <2> QED
    BY <2>1, <2>2, <2>3
<1>4. ASSUME started', NEW k \in awaiting'
      PROVE  Waiting(k)'
  <2>1. Waiting(k) /\ k \in Connectors
    BY <1>4 DEF CNInv, Tokened, CNTypes
  <2>2. Same(k, old)
    BY <1>4, <2>1 DEF Rid
  <2> QED
    BY <1>4, <2>1, <2>2 DEF Same, Waiting, Existing
<1>5. \A k \in Existing' : (k \in Existing /\ TokensOf(k)' = TokensOf(k)) \/ TokensOf(k)' = {}
  BY DEF Rid, Same, Existing, TokensOf
<1>6. ASSUME life' = "live", ~started'
      PROVE  awaiting' = {} /\ \A k \in Existing' : TokensOf(k)' = {}
  <2>1. awaiting = {} /\ \A k \in Existing : TokensOf(k) = {}
    BY <1>6 DEF CNInv, Tokened
  <2> QED
    BY <1>5, <2>1
<1>7. Apart'
  <2> SUFFICES ASSUME NEW j \in Existing', NEW k \in Existing', j # k
               PROVE  TokensOf(j)' \cap TokensOf(k)' = {}
    BY DEF Apart
  <2> QED
    BY <1>5 DEF CNInv, Tokened, Apart
<1> QED
  BY <1>1, <1>2, <1>3, <1>4, <1>6, <1>7 DEF Tokened
-----------------------------------------------------------------------------
(* The scheduler's part of a connector's calls.                            *)

Listed(k) ==
    ({connectors[k].conntoken} \cap Members(evio_list))
      \cup ({connectors[k].timeouttoken} \cap Members(evtimer_list))

LEMMA ListedAre ==
    ASSUME CNInv, NEW k \in Existing
    PROVE  /\ Listed(k) \subseteq Tokens
           /\ Listed(k) = IF started THEN TokensOf(k) ELSE {}
           /\ \A t \in Listed(k) : objs[t] # Freed /\ objs[t].kind # "trigger"
PROOF
<1>1. NULL \notin Members(evio_list) /\ NULL \notin Members(evtimer_list)
      /\ Members(evio_list) \subseteq Tokens /\ Members(evtimer_list) \subseteq Tokens
  BY ListedIs, NullIsNoToken DEF CNInv, Inv, Basics
<1>2. Listed(k) \subseteq Tokens
  BY <1>1 DEF Listed
<1>3. CASE started
  <2>1. TokensOf(k) \subseteq Listed(k)
    BY <1>3, TokensAre DEF Listed, TokensOf
  <2>2. Listed(k) \subseteq TokensOf(k)
    BY <1>1 DEF Listed, TokensOf
  <2>3. \A t \in Listed(k) : objs[t] # Freed /\ objs[t].kind # "trigger"
    BY <1>3, <2>2, TokensAre DEF TokensOf
  <2> QED
    BY <1>2, <1>3, <2>1, <2>2, <2>3
<1>4. CASE ~started
  <2>1. Members(evio_list) = {} /\ Members(evtimer_list) = {}
    BY <1>4 DEF CNInv, Inv, Basics, StoppedIsEmpty, Members
  <2> QED
    BY <1>4, <2>1 DEF Listed
<1> QED
  BY <1>3, <1>4

LEMMA RmIs ==
    ASSUME CNInv, Customary, NEW k \in Existing, RmEventHandler(k), Aside
    PROVE  /\ Inv'
           /\ \A t \in Tokens \ Listed(k) : objs'[t] = objs[t] /\ bound'[t] = bound[t]
           /\ \A t \in Listed(k) : objs'[t] = Freed /\ bound'[t] = NoProc
           /\ bound' \in [Tokens -> Binding \cup {NoProc}]
           /\ Members(evtimer_list') = Members(evtimer_list) \ Listed(k)
           /\ active' = active \ Listed(k) /\ pending' = pending \ Listed(k)
PROOF
<1> DEFINE old == Listed(k)
           a == connectors[k].conntoken
           b == connectors[k].timeouttoken
<1>0. Store /\ TypeOK /\ rules # Rules /\ rules' = rules
  BY ConnectorsBreakRules DEF CNInv, Inv, Basics, Aside, endVars
<1>1. /\ objs' = [t \in Tokens |-> IF t \in old THEN Released(objs, t)[t] ELSE objs[t]]
      /\ evio_list' = Without(evio_list, a) /\ evtimer_list' = Without(evtimer_list, b)
      /\ active' = active \ old /\ pending' = pending \ old
      /\ bound' = [t \in Tokens |-> IF objs'[t] = Freed THEN NoProc ELSE bound[t]]
  BY DEF RmEventHandler, Unbind, Listed
<1>2. /\ old \subseteq Tokens /\ old \subseteq Members(evio_list) \cup Members(evtimer_list)
      /\ \A t \in old : objs[t] # Freed /\ objs[t].kind # "trigger"
      /\ a \in Members(evio_list) => a \in old
      /\ b \in Members(evtimer_list) => b \in old
  BY ListedAre DEF Listed
<1>3. ASSUME NEW t \in old
      PROVE  Released(objs, t)[t] = Freed
  BY <1>0, <1>2, <1>3, ReleasedIs DEF Store
<1>4. \A t \in Tokens : objs'[t] = IF t \in old THEN Freed ELSE objs[t]
  BY <1>1, <1>3
<1>5. objs' \in [Tokens -> Object \cup {Freed}]
  BY <1>0, <1>1, <1>3 DEF Store
<1>6. /\ evio_list' \in Seq(Tokens) /\ Once(evio_list')
      /\ Members(evio_list') = Members(evio_list) \ {a}
      /\ evtimer_list' \in Seq(Tokens) /\ Once(evtimer_list')
      /\ Members(evtimer_list') = Members(evtimer_list) \ {b}
  BY <1>0, <1>1, WithoutIs DEF Store
<1>7. /\ \A t \in Members(evio_list) : t \in old <=> t = a
      /\ \A t \in Members(evtimer_list) : t \in old <=> t = b
  <2>1. \A t \in Members(evio_list) : t \notin Members(evtimer_list)
    BY <1>0, ListedIs DEF Store
  <2> QED
    BY <2>1 DEF Listed
<1>8. Store'
  <2> SUFFICES ASSUME NEW t \in Tokens
               PROVE  /\ t \in Members(evio_list') <=> objs'[t] # Freed
                                                        /\ objs'[t].kind \in {"io", "trigger"}
                      /\ t \in Members(evtimer_list') <=> objs'[t] # Freed
                                                           /\ objs'[t].kind \in {"once", "periodic"}
                      /\ objs'[t] # Freed => objs'[t].refs = 1
    BY <1>5, <1>6 DEF Store
  <2>1. CASE t \in old
    BY <1>4, <1>6, <1>7, <2>1
  <2>2. CASE t \notin old
    <3>1. objs'[t] = objs[t]
      BY <1>4, <2>2
    <3>2. /\ t \in Members(evio_list') <=> t \in Members(evio_list)
          /\ t \in Members(evtimer_list') <=> t \in Members(evtimer_list)
      BY <1>6, <1>7, <2>2
    <3>3. /\ t \in Members(evio_list) <=> objs[t] # Freed /\ objs[t].kind \in {"io", "trigger"}
          /\ t \in Members(evtimer_list) <=> objs[t] # Freed /\ objs[t].kind \in {"once", "periodic"}
          /\ objs[t] # Freed => objs[t].refs = 1
      BY <1>0 DEF Store
    <3> QED
      BY <3>1, <3>2, <3>3
  <2> QED
    BY <2>1, <2>2
<1>9. TriggerHeld'
  <2> SUFFICES ASSUME started, sock = "open"
               PROVE  /\ triggertoken \in active' /\ triggertoken \in Members(evio_list')
                      /\ objs'[triggertoken].kind = "trigger"
    BY DEF TriggerHeld, Aside, sockVars
  <2>1. /\ triggertoken \in active /\ triggertoken \in Members(evio_list)
        /\ objs[triggertoken].kind = "trigger"
    BY DEF CNInv, Inv, Basics, TriggerHeld
  <2>2. triggertoken \notin old /\ triggertoken \in Tokens
    BY <1>0, <1>2, <2>1, ListedIs
  <2> QED
    BY <1>1, <1>4, <1>6, <1>7, <2>1, <2>2
<1>10. StoppedIsEmpty'
  <2> SUFFICES ASSUME ~started PROVE evio_list' = <<>> /\ evtimer_list' = <<>>
    BY DEF StoppedIsEmpty, Aside
  <2>1. evio_list = <<>> /\ evtimer_list = <<>> /\ Members(<<>>) = {}
    BY DEF CNInv, Inv, Basics, StoppedIsEmpty, Members
  <2> QED
    BY <1>1, <2>1 DEF Without
<1>11. TypeOK'
  BY <1>0, <1>1, <1>5, <1>6 DEF TypeOK, ThreadTypeOK, Aside, threadVars, sockVars, loopVars, endVars
<1>12. Inv'
  BY <1>0, <1>8, <1>9, <1>10, <1>11 DEF Inv, Basics
<1>13. /\ \A t \in Tokens \ old : bound'[t] = bound[t]
       /\ \A t \in old : bound'[t] = NoProc
  BY <1>1, <1>2, <1>4 DEF CNInv, Tokened, AllBound
<1>14. bound' \in [Tokens -> Binding \cup {NoProc}]
  BY <1>1 DEF CNInv, CNTypes
<1>15. Members(evtimer_list') = Members(evtimer_list) \ old
  BY <1>6, <1>7
<1> QED
  BY <1>1, <1>2, <1>4, <1>12, <1>13, <1>14, <1>15
-----------------------------------------------------------------------------
(* What is used before and after a step has kept its descriptor.           *)

LEMMA UsersThere ==
    ASSUME NEW m, NEW n, NEW h, IsFiniteSet({k \in Connectors : m[k] # NoConnector}),
           HoldMap(h), Counted(n, Holds(m, h)), NEW c \in Conns, Users(m, c) # {}
    PROVE  c \in There(n)
PROOF
<1>1. IsFiniteSet(Users(m, c))
  <2>1. Users(m, c) \subseteq {k \in Connectors : m[k] # NoConnector}
    BY DEF Users
  <2> QED
    BY <2>1, FS_Subset
<1>2. Cardinality(Users(m, c)) \in Nat /\ Cardinality(Users(m, c)) # 0
  BY <1>1, FS_CardinalityType, FS_EmptySet
<1>3. Holds(m, h)[c] = h[c] + Cardinality(Users(m, c)) /\ h[c] \in Nat
  BY DEF Holds, HoldMap
<1> DEFINE u == Cardinality(Users(m, c))
           g == Holds(m, h)
<1> HIDE DEF u, g
<1>4. g[c] # 0
  <2>1. u \in Nat /\ u # 0
    BY <1>2 DEF u
  <2>2. g[c] = h[c] + u /\ h[c] \in Nat
    BY <1>3 DEF u, g
  <2> QED
    BY <2>1, <2>2
<1>5. Counted(n, g)
  BY DEF g
<1> QED
  BY <1>4, <1>5, BoundFacts

LEMMA FdsKept ==
    ASSUME CNTypes, Links, Links', NEW j \in Existing, connectors'[j] = connectors[j],
           Conn(j) # NoConn
    PROVE  Conn(j) \in There(conns) \cap There(conns)'
PROOF
<1>1. Conn(j) \in There(conns) /\ Conn(j) \in Conns
  BY ConnectionOf
<1> DEFINE m == connectors'
           n == conns'
           h == held'
<1>2. j \in Users(m, Conn(j))
  BY ConnectorIs DEF Users
<1>3. /\ IsFiniteSet({k \in Connectors : m[k] # NoConnector}) /\ HoldMap(h)
      /\ Counted(n, Holds(m, h))
  BY DEF Links, Existing
<1> HIDE DEF m, n, h
<1>4. Conn(j) \in There(n)
  BY <1>1, <1>2, <1>3, UsersThere
<1> QED
  BY <1>1, <1>4 DEF n

(* A connector loses its tokens, whatever becomes of its connection; when  *)
(* this is its callback, the user is told next.                            *)
LEMMA LosingKeeps ==
    ASSUME CNInv, Customary, NEW k \in Existing, RmEventHandler(k), Aside,
           NEW r \in ConnectorRecord \cup {NoConnector}, connectors' = [connectors EXCEPT ![k] = r],
           r = NoConnector \/ (r.conntoken = NULL /\ r.timeouttoken = NULL),
           awaiting' = awaiting \ {k}, Links', FdsStay,
           \/ stage # "body" /\ stage' = stage
           \/ stage = "body" /\ stage' = "user" /\ bound[current].connector = k
    PROVE  CNInv'
PROOF
<1> DEFINE old == Listed(k)
<1>1. /\ Inv'
      /\ \A t \in Tokens \ old : objs'[t] = objs[t] /\ bound'[t] = bound[t]
      /\ \A t \in old : objs'[t] = Freed /\ bound'[t] = NoProc
      /\ bound' \in [Tokens -> Binding \cup {NoProc}]
      /\ Members(evtimer_list') = Members(evtimer_list) \ old
      /\ active' = active \ old /\ pending' = pending \ old
  BY RmIs
<1>2. /\ started' = started /\ life' = life /\ looping' = looping /\ phase' = phase
      /\ current' = current /\ triggertoken' = triggertoken
  BY DEF Aside, loopVars, endVars
<1>3. old \subseteq Tokens /\ old = IF started THEN TokensOf(k) ELSE {}
  BY ListedAre
<1>4. /\ k \in Connectors /\ connectors'[k] = r
      /\ \A j \in Connectors \ {k} : connectors'[j] = connectors[j]
      /\ connectors' \in [Connectors -> ConnectorRecord \cup {NoConnector}]
  BY ConnectorIs DEF CNInv, CNTypes
<1>5. CNTypes'
  BY <1>1, <1>4 DEF CNInv, CNTypes
<1>6. Loops'
  BY <1>1, <1>2 DEF CNInv, Loops
<1>7. ASSUME stage = "body"
      PROVE  /\ current \in Tokens /\ bound[current] # NoProc /\ current \in old
             /\ bound[current].connector = k
  <2>1. current \in Tokens /\ bound[current] # NoProc
    BY <1>7 DEF CNInv, Stages
  <2>2. started /\ current \in TokensOf(bound[current].connector)
    BY <2>1, BoundIs
  <2> QED
    BY <1>3, <1>7, <2>1, <2>2
<1>8. Stages'
  BY <1>1, <1>2, <1>7 DEF CNInv, Stages
<1>9. \A j \in Connectors : Rid(j, old) \/ Same(j, old)
  <2>1. Rid(k, old)
    <3>1. k \in Existing' => TokensOf(k)' = {}
      BY <1>4 DEF TokensOf, Existing
    <3>2. \A t \in Tokens \ old : bound[t] # NoProc => bound[t].connector # k
      BY <1>3, BoundIs
    <3> QED
      BY <3>1, <3>2 DEF Rid
  <2>2. ASSUME NEW j \in Connectors, j # k
        PROVE  Same(j, old)
    <3>1. connectors'[j] = connectors[j] /\ (j \in awaiting => j \in awaiting')
      BY <1>4, <2>2
    <3>2. \A t \in old : bound[t] # NoProc => bound[t].connector # j
      BY <1>3, <2>2, TokensAre
    <3>3. ASSUME NEW t \in Tokens, bound[t] # NoProc, bound[t].connector = j
          PROVE  conns'[Conn(j)].fd = conns[Conn(j)].fd
      <4>1. j \in Existing /\ Conn(j) # NoConn
        BY <3>3 DEF CNInv, Tokened, Bounded
      <4> QED
        BY <3>1, <4>1, FdsKept DEF CNInv, FdsStay
    <3>4. ASSUME started', j \in awaiting', Alive(connectors[j].timeouttoken)
          PROVE  Alive(connectors[j].timeouttoken)'
      <4> DEFINE t == connectors[j].timeouttoken
      <4>1. started /\ Waiting(j)
        BY <1>2, <3>4 DEF CNInv, Tokened
      <4>2. j \in Existing /\ t \in TokensOf(j)
        BY <4>1 DEF Waiting, TokensOf
      <4>3. t \in Tokens /\ bound[t] # NoProc /\ bound[t].connector = j
        BY <4>1, <4>2, TokensAre
      <4>4. t \notin old
        BY <2>2, <3>2, <4>3
      <4>5. ~(current = t /\ stage = "body")
        BY <1>7, <4>4
      <4>6. connectors'[j].timeouttoken = t
        BY <3>1
      <4> QED
        BY <1>1, <3>4, <4>4, <4>5, <4>6 DEF Alive
    <3> QED
      BY <3>1, <3>2, <3>3, <3>4 DEF Same
  <2> QED
    BY <2>1, <2>2
<1>10. Tokened'
  <2>1. \A t \in Tokens \ old :
          objs'[t] = objs[t] /\ bound'[t] = bound[t] /\ (t = triggertoken => triggertoken' = t)
    BY <1>1, <1>2
  <2>2. /\ old \in SUBSET Tokens /\ \A t \in old : objs'[t] = Freed /\ bound'[t] = NoProc
        /\ started' => started
        /\ life' = "live" /\ ~started' => life = "live" /\ ~started
        /\ awaiting' \subseteq awaiting
    BY <1>1, <1>2, <1>3
  <2> HIDE DEF old
  <2> QED
    BY <1>9, <2>1, <2>2, TokensKept
<1> QED
  BY <1>1, <1>5, <1>6, <1>8, <1>10 DEF CNInv

LEMMA CloseKeepsAll ==
    ASSUME CNInv, Customary, NEW k \in Existing, Close(k),
           \/ stage # "body" /\ stage' = stage
           \/ stage = "body" /\ stage' = "user" /\ bound[current].connector = k
    PROVE  CNInv'
PROOF
<1> DEFINE r == [conn |-> Conn(k), conntoken |-> NULL, timeouttoken |-> NULL]
<1>1. /\ RmEventHandler(k) /\ Aside /\ awaiting' = awaiting \ {k} /\ UNCHANGED connVars
      /\ connectors' = [connectors EXCEPT ![k] = r]
  BY DEF Close, Detached
<1>2. /\ k \in Connectors /\ Conn(k) \in Conns \cup {NoConn}
      /\ \A c \in Conns : Counts(connectors[k], c) = IF c = Conn(k) THEN 1 ELSE 0
  BY ConnectorIs DEF CNInv
<1>3. /\ r \in ConnectorRecord \cup {NoConnector} /\ r.conntoken = NULL /\ r.timeouttoken = NULL
      /\ \A c \in Conns : Counts(r, c) = IF c = Conn(k) THEN 1 ELSE 0
  BY <1>2, DetachedIs
<1> HIDE DEF r
<1>4. Links' /\ FdsStay
  <2>1. \A c \in Conns : Counts(r, c) = Counts(connectors[k], c)
    BY <1>2, <1>3
  <2>2. CNTypes /\ Links
    BY DEF CNInv
  <2> QED
    BY <1>1, <1>2, <1>3, <2>1, <2>2, SameConnLinks
<1> QED
  BY <1>1, <1>3, <1>4, LosingKeeps

LEMMA ConnectorCloseKeeps ==
    ASSUME CNInv, Customary, NEW k \in Connectors, ConnectorClose(k)
    PROVE  CNInv'
PROOF
<1> QED
  BY CloseKeepsAll DEF ConnectorClose, MayUse

LEMMA TellingKeeps ==
    ASSUME CNInv, Customary, ConnectHandling \/ ConnectTimeout
    PROVE  CNInv'
PROOF
<1>1. stage = "body" /\ stage' = "user" /\ Close(bound[current].connector)
  BY DEF ConnectHandling, ConnectTimeout
<1>2. bound[current].connector \in Existing
  BY <1>1, BoundIs DEF CNInv, Stages
<1> QED
  BY <1>1, <1>2, CloseKeepsAll

LEMMA ConnectorTakeoutKeeps ==
    ASSUME CNInv, Customary, NEW k \in Connectors, ConnectorTakeout(k)
    PROVE  CNInv'
PROOF
<1> DEFINE r == [conn |-> NoConn, conntoken |-> NULL, timeouttoken |-> NULL]
<1>1. /\ k \in Existing /\ RmEventHandler(k) /\ Aside /\ awaiting' = awaiting \ {k}
      /\ connectors' = [connectors EXCEPT ![k] = r] /\ stage # "body" /\ stage' = stage
      /\ UNCHANGED <<conns, socks>>
      /\ held' = [c \in Conns |-> IF c = Conn(k) THEN held[c] + 1 ELSE held[c]]
  BY DEF ConnectorTakeout, Detached, MayUse
<1>2. /\ r \in ConnectorRecord /\ r # NoConnector /\ r.conntoken = NULL /\ r.timeouttoken = NULL
      /\ r.conn = NoConn
  BY DetachedIs
<1> HIDE DEF r
<1>3. Links' /\ FdsStay
  BY <1>1, <1>2, TakesLinks DEF CNInv
<1> QED
  BY <1>1, <1>2, <1>3, LosingKeeps

LEMMA ConnectorDestroyKeeps ==
    ASSUME CNInv, Customary, NEW k \in Connectors, ConnectorDestroy(k)
    PROVE  CNInv'
PROOF
<1>1. /\ k \in Existing /\ RmEventHandler(k) /\ Aside /\ awaiting' = awaiting \ {k}
      /\ connectors' = [connectors EXCEPT ![k] = NoConnector] /\ stage # "body" /\ stage' = stage
      /\ IF Conn(k) = NoConn THEN UNCHANGED <<conns, socks>> ELSE LetGo(Conn(k))
      /\ held' = held
  BY DEF ConnectorDestroy, MayUse
<1>2. Links' /\ FdsStay
  BY <1>1, DestroysLinks DEF CNInv
<1>3. NoConnector \in ConnectorRecord \cup {NoConnector}
  OBVIOUS
<1> QED
  BY <1>1, <1>2, <1>3, LosingKeeps
-----------------------------------------------------------------------------
(* Steps that leave the scheduler alone.                                   *)

LEMMA SchedulerStays ==
    ASSUME CNInv, UNCHANGED <<vars, bound, stage>>
    PROVE  Inv' /\ Loops' /\ Stages' /\ \A t : Alive(t) => Alive(t)'
PROOF
<1>1. Inv'
  BY NextInv DEF CNInv
<1> QED
  BY <1>1 DEF CNInv, Loops, Stages, Alive, vars, listVars, evVars, loopVars, endVars

LEMMA PlainKeeps ==
    ASSUME CNInv, UNCHANGED <<vars, bound, stage, awaiting>>, NEW k \in Connectors,
           k \notin Existing \/ Conn(k) = NoConn,
           NEW r \in ConnectorRecord, r.conntoken = NULL, r.timeouttoken = NULL,
           connectors' = [connectors EXCEPT ![k] = r], Links', FdsStay
    PROVE  CNInv'
PROOF
<1>1. Inv' /\ Loops' /\ Stages' /\ \A t : Alive(t) => Alive(t)'
  BY SchedulerStays
<1>2. /\ connectors'[k] = r /\ \A j \in Connectors \ {k} : connectors'[j] = connectors[j]
      /\ connectors' \in [Connectors -> ConnectorRecord \cup {NoConnector}]
  BY DEF CNInv, CNTypes
<1>3. CNTypes'
  BY <1>2 DEF CNInv, CNTypes
<1>4. UNCHANGED <<objs, bound, triggertoken, started, life, awaiting>>
  BY DEF vars, listVars, endVars
<1>5. ASSUME NEW j \in Connectors
      PROVE  Rid(j, {}) \/ Same(j, {})
  <2>1. CASE j = k
    <3>1. /\ \A t \in Tokens : bound[t] # NoProc => bound[t].connector # k
          /\ started => k \notin awaiting
      BY NoConnNoToken
    <3> QED
      BY <1>2, <1>4, <2>1, <3>1 DEF Rid, TokensOf
  <2>2. CASE j # k
    <3>1. connectors'[j] = connectors[j]
      BY <1>2, <2>2
    <3>2. ASSUME NEW t \in Tokens, bound[t] # NoProc, bound[t].connector = j
          PROVE  conns'[Conn(j)].fd = conns[Conn(j)].fd
      <4>1. j \in Existing /\ Conn(j) # NoConn
        BY <3>2 DEF CNInv, Tokened, Bounded
      <4> QED
        BY <3>1, <4>1, FdsKept DEF CNInv, FdsStay
    <3>3. Alive(connectors[j].timeouttoken) => Alive(connectors[j].timeouttoken)'
      BY <1>1, <3>1 DEF Alive
    <3> QED
      BY <1>4, <3>1, <3>2, <3>3 DEF Same
  <2> QED
    BY <2>1, <2>2
<1>6. Tokened'
  <2>1. {} \in SUBSET Tokens
    OBVIOUS
  <2> QED
    BY <1>4, <1>5, <2>1, TokensKept
<1> QED
  BY <1>1, <1>3, <1>6 DEF CNInv

LEMMA ConnectorCreateKeeps ==
    ASSUME CNInv, NEW k \in Connectors, ConnectorCreate(k)
    PROVE  CNInv'
PROOF
<1> DEFINE r == [conn |-> NoConn, conntoken |-> NULL, timeouttoken |-> NULL]
<1>1. /\ k \notin Existing /\ connectors' = [connectors EXCEPT ![k] = r]
      /\ UNCHANGED <<vars, connVars, bound, stage, awaiting>>
  BY DEF ConnectorCreate
<1>2. /\ r \in ConnectorRecord /\ r # NoConnector /\ r.conntoken = NULL /\ r.timeouttoken = NULL
      /\ \A c : Counts(r, c) = IF c = NoConn THEN 1 ELSE 0
  BY DetachedIs
<1> HIDE DEF r
<1>3. \A c \in Conns : Counts(r, c) = Counts(connectors[k], c)
  <2>1. \A c \in Conns : Counts(r, c) = 0
    BY <1>2, ClosedIsNoDescriptor
  <2>2. \A c \in Conns : Counts(connectors[k], c) = 0
    BY <1>1 DEF Counts, Existing
  <2> QED
    BY <2>1, <2>2
<1>4. Links' /\ FdsStay
  <2>1. CNTypes /\ Links /\ UNCHANGED connVars /\ r \in ConnectorRecord \cup {NoConnector}
    BY <1>1, <1>2 DEF CNInv
  <2> QED
    BY <1>1, <1>3, <2>1, SameConnLinks
<1> QED
  BY <1>1, <1>2, <1>4, PlainKeeps

LEMMA OpenFailsKeeps ==
    ASSUME CNInv, NEW k \in Connectors, NEW c \in Conns, ConnectorOpenFails(k, c)
    PROVE  CNInv'
PROOF
<1> DEFINE r == [conn |-> c, conntoken |-> NULL, timeouttoken |-> NULL]
<1>1. /\ k \in Existing /\ Conn(k) = NoConn /\ c \notin Allocated
      /\ connectors' = [connectors EXCEPT ![k] = r]
      /\ UNCHANGED <<vars, held, bound, stage, awaiting>>
  BY DEF ConnectorOpenFails, Openable, Detached
<1>2. PICK o \in StreamOpen :
        conns' = Created(c, "inet_stream", o.fd, NoConn) /\ socks' = o.open
  BY DEF ConnectorOpenFails
<1>3. /\ r \in ConnectorRecord /\ r # NoConnector /\ r.conntoken = NULL /\ r.timeouttoken = NULL
      /\ r.conn = c
  BY DetachedIs
<1> HIDE DEF r
<1>4. Links' /\ FdsStay
  BY <1>1, <1>2, <1>3, OpensLinks DEF CNInv
<1> QED
  BY <1>1, <1>3, <1>4, PlainKeeps

LEMMA Open2Keeps ==
    ASSUME CNInv, NEW k \in Connectors, NEW c \in Conns, ConnectorOpen2(k, c)
    PROVE  CNInv'
PROOF
<1> DEFINE r == [conn |-> c, conntoken |-> NULL, timeouttoken |-> NULL]
<1>1. /\ k \in Existing /\ Conn(k) = NoConn /\ held[c] > 0
      /\ conns' = [conns EXCEPT ![c].refs = @ + 1]
      /\ connectors' = [connectors EXCEPT ![k] = r]
      /\ UNCHANGED <<vars, socks, held, bound, stage, awaiting>>
  BY DEF ConnectorOpen2, Detached
<1>2. /\ r \in ConnectorRecord /\ r # NoConnector /\ r.conntoken = NULL /\ r.timeouttoken = NULL
      /\ r.conn = c
  BY DetachedIs
<1> HIDE DEF r
<1>3. Links' /\ FdsStay
  BY <1>1, <1>2, SharesLinks DEF CNInv
<1> QED
  BY <1>1, <1>2, <1>3, PlainKeeps

(* The program closes none of its connections that a connector watches.    *)
LEMMA ProgramKeeps ==
    ASSUME CNInv, ConnectionCall
    PROVE  CNInv'
PROOF
<1>1. UNCHANGED <<vars, connectors, bound, stage, awaiting>>
  BY DEF ConnectionCall, cnVars
<1>2. Inv' /\ Loops' /\ Stages' /\ \A t : Alive(t) => Alive(t)'
  BY <1>1, SchedulerStays
<1>3. CNTypes'
  BY <1>1 DEF CNInv, CNTypes
<1>4. /\ Links'
      /\ \A c \in There(conns) \cap There(conns)' :
           conns'[c].fd = conns[c].fd \/ conns[c].fd \notin WatchedFds
  BY ProgramLinks DEF CNInv
<1>5. ASSUME NEW j \in Connectors, NEW t \in Tokens, bound[t] # NoProc, bound[t].connector = j
      PROVE  conns'[Conn(j)].fd = conns[Conn(j)].fd
  <2>1. Bounded(t) /\ started /\ j \in Existing /\ Conn(j) # NoConn /\ IsOpen(Conn(j))
    BY <1>5, BoundIs DEF CNInv, Tokened, Bounded
  <2>2. PICK u \in Tokens : bound[u] # NoProc /\ bound[u].fd = conns[Conn(j)].fd
    <3>1. CASE objs[t].kind = "io"
      BY <1>5, <2>1, <3>1 DEF Bounded
    <3>2. CASE objs[t].kind # "io"
      <4>1. j \in awaiting
        BY <1>5, <2>1, <3>2 DEF Bounded
      <4>2. connectors[j].conntoken # NULL /\ connectors[j].conntoken \in TokensOf(j)
        BY <2>1, <4>1 DEF CNInv, Tokened, Waiting, TokensOf
      <4> DEFINE u == connectors[j].conntoken
      <4>3. u \in Tokens /\ bound[u] # NoProc /\ bound[u].connector = j /\ objs[u].kind = "io"
        BY <2>1, <4>2, TokensAre
      <4>4. Bounded(u)
        BY <4>3 DEF CNInv, Tokened
      <4> QED
        BY <4>3, <4>4 DEF Bounded
    <3> QED
      BY <3>1, <3>2
  <2>3. conns[Conn(j)].fd \in WatchedFds
    BY <2>1, <2>2 DEF WatchedFds, IsOpen
  <2>4. Conn(j) \in There(conns) \cap There(conns)'
    BY <1>1, <1>4, <2>1, FdsKept DEF CNInv
  <2> QED
    BY <1>4, <2>3, <2>4
<1>6. UNCHANGED <<objs, triggertoken, started, life>>
  BY <1>1 DEF vars, listVars, endVars
<1>7. \A j \in Connectors : Same(j, {})
  <2>1. \A j \in Connectors : Alive(connectors[j].timeouttoken) => Alive(connectors[j].timeouttoken)'
    BY <1>1, <1>2 DEF Alive
  <2> QED
    BY <1>1, <1>5, <2>1 DEF Same
<1>8. Tokened'
  <2>1. {} \in SUBSET Tokens
    OBVIOUS
  <2> QED
    BY <1>1, <1>6, <1>7, <2>1, TokensKept
<1> QED
  BY <1>2, <1>3, <1>4, <1>8 DEF CNInv
-----------------------------------------------------------------------------
(* Steps of the loop: nothing that is bound changes.                       *)

LEMMA LoopKeeps ==
    ASSUME CNInv, Inv', Loops', Stages', stage' \in {"none", "body", "user"},
           UNCHANGED <<connVars, connectors, bound, awaiting, started, life>>,
           NEW old \in SUBSET Tokens,
           \A t \in Tokens \ old : objs'[t] = objs[t] /\ (t = triggertoken => triggertoken' = t),
           \A t \in old : objs'[t] = Freed /\ bound[t] = NoProc,
           \A t \in Tokens : bound[t] # NoProc /\ objs[t].kind = "once" /\ Alive(t) => Alive(t)'
    PROVE  CNInv'
PROOF
<1>1. CNTypes'
  BY DEF CNInv, CNTypes
<1>2. Links'
  BY LinksStay DEF CNInv, Existing, Links
<1>3. ASSUME NEW j \in Connectors
      PROVE  Same(j, old)
  <2>1. ASSUME started', j \in awaiting', Alive(connectors[j].timeouttoken)
        PROVE  Alive(connectors[j].timeouttoken)'
    <3> DEFINE t == connectors[j].timeouttoken
    <3>1. started /\ Waiting(j)
      BY <2>1 DEF CNInv, Tokened
    <3>2. t \in Tokens /\ bound[t] # NoProc /\ objs[t].kind = "once"
      BY <3>1, TokensAre DEF Waiting, TokensOf
    <3>3. connectors'[j].timeouttoken = t
      OBVIOUS
    <3> QED
      BY <2>1, <3>2, <3>3 DEF Alive
  <2> QED
    BY <2>1 DEF Same, connVars
<1>4. Tokened'
  <2>1. /\ \A t \in Tokens \ old :
             objs'[t] = objs[t] /\ bound'[t] = bound[t] /\ (t = triggertoken => triggertoken' = t)
        /\ \A t \in old : objs'[t] = Freed /\ bound'[t] = NoProc
    OBVIOUS
  <2> QED
    BY <1>3, <2>1, TokensKept
<1> QED
  BY <1>1, <1>2, <1>4 DEF CNInv

(* An iteration, until a callback is called.                               *)
LEMMA TurningKeeps ==
    ASSUME CNInv, Customary, Break \/ Enter(Main) \/ Turn, UNCHANGED <<connVars, cnVars>>
    PROVE  CNInv'
PROOF
<1>1. Inv'
  BY BreakKeeps, EnterKeeps, TurnKeeps, ThreadsAre DEF CNInv
<1>2. /\ UNCHANGED <<listVars, active, pending, current, started, life>>
      /\ \/ UNCHANGED <<looping, phase>>
         \/ phase = "out" /\ life = "live" /\ looping' = Main /\ phase' = "poll"
         \/ phase = "invoke" /\ pending = {} /\ looping' = looping /\ phase' = "poll"
         \/ phase = "invoke" /\ pending = {} /\ looping' = NoThread /\ phase' = "out"
  <2>1. CASE Break
    BY <2>1 DEF Break, loopVars, endVars
  <2>2. CASE Enter(Main)
    <3>1. life = "live" /\ phase = "out" /\ looping' = Main /\ phase' = "poll"
      BY <2>2, ThreadsAre, ConnectorsBreakRules
         DEF Enter, Outside, CNInv, Loops, Inv, Basics
    <3> QED
      BY <2>2, <3>1 DEF Enter, endVars
  <2>3. CASE Turn
    BY <2>3 DEF Turn, evVars, endVars
  <2> QED
    BY <2>1, <2>2, <2>3
<1>3. Loops'
  BY <1>2, ThreadsAre DEF CNInv, Loops
<1>4. Stages'
  BY <1>2 DEF CNInv, Stages, cnVars, listVars
<1>5. \A t \in Tokens : bound[t] # NoProc /\ Alive(t) => Alive(t)'
  BY <1>2 DEF Alive, CNInv, Stages, cnVars
<1>6. /\ {} \in SUBSET Tokens /\ stage' \in {"none", "body", "user"}
      /\ UNCHANGED <<connVars, connectors, bound, awaiting, started, life>>
      /\ \A t \in Tokens \ {} : objs'[t] = objs[t] /\ (t = triggertoken => triggertoken' = t)
      /\ \A t \in {} : objs'[t] = Freed /\ bound[t] = NoProc
  BY <1>2 DEF cnVars, listVars, CNInv, CNTypes
<1> QED
  BY <1>1, <1>3, <1>4, <1>5, <1>6, LoopKeeps

LEMMA AbortKeeps ==
    ASSUME CNInv, Abort, Inv', UNCHANGED <<connVars, cnVars>>
    PROVE  CNInv'
PROOF
<1>1. /\ UNCHANGED <<listVars, active, pending, current, started, life, looping, phase>>
      /\ UNCHANGED <<connVars, connectors, bound, stage, awaiting>>
  BY DEF Abort, evVars, loopVars, cnVars
<1>2. Loops' /\ Stages'
  BY <1>1 DEF CNInv, Loops, Stages, listVars
<1>3. /\ {} \in SUBSET Tokens /\ stage' \in {"none", "body", "user"}
      /\ \A t \in Tokens : bound[t] # NoProc /\ Alive(t) => Alive(t)'
      /\ \A t \in Tokens \ {} : objs'[t] = objs[t] /\ (t = triggertoken => triggertoken' = t)
      /\ \A t \in {} : objs'[t] = Freed /\ bound[t] = NoProc
  BY <1>1 DEF listVars, CNInv, CNTypes, Alive
<1> QED
  BY <1>1, <1>2, <1>3, LoopKeeps

LEMMA PollingKeeps ==
    ASSUME CNInv, Poll, UNCHANGED <<connVars, cnVars>>
    PROVE  CNInv'
PROOF
<1>1. Inv'
  BY PollKeeps DEF CNInv
<1>2. CASE Abort
  BY <1>1, <1>2, AbortKeeps
<1>3. CASE ~Abort
  <2>1. PICK ready \in SUBSET active :
          LET fired == ready \cup TriggerReady
          IN  /\ active' = active \ (fired \cap Timers) /\ pending' = fired /\ phase' = "invoke"
              /\ UNCHANGED <<threadVars, started, listVars, sockVars, breaking, looping,
                             current, pc, endVars>>
    BY <1>3 DEF Poll
  <2>2. /\ phase = "poll" /\ phase' = "invoke" /\ active \subseteq active' \cup pending'
        /\ UNCHANGED <<listVars, looping, current, started, life>>
    BY <2>1 DEF Poll, endVars
  <2>3. pending = {}
    BY <2>2 DEF CNInv, Loops
  <2>4. Loops'
    BY <2>2 DEF CNInv, Loops
  <2>5. Stages'
    BY <2>2 DEF CNInv, Stages, cnVars
  <2>6. \A t \in Tokens : bound[t] # NoProc /\ Alive(t) => Alive(t)'
    BY <2>2, <2>3 DEF Alive
  <2>7. /\ {} \in SUBSET Tokens /\ stage' \in {"none", "body", "user"}
        /\ UNCHANGED <<connVars, connectors, bound, awaiting, started, life>>
        /\ \A t \in Tokens \ {} : objs'[t] = objs[t] /\ (t = triggertoken => triggertoken' = t)
        /\ \A t \in {} : objs'[t] = Freed /\ bound[t] = NoProc
    BY <2>2 DEF cnVars, listVars, CNInv, CNTypes
  <2> QED
    BY <1>1, <2>4, <2>5, <2>6, <2>7, LoopKeeps
<1> QED
  BY <1>2, <1>3

LEMMA TriggerCalledKeeps ==
    ASSUME CNInv, NEW t \in Tokens, InvokeTrigger(t), UNCHANGED <<connVars, cnVars>>
    PROVE  CNInv'
PROOF
<1>1. Inv'
  BY InvokeTriggerKeeps DEF CNInv
<1>2. /\ phase = "invoke" /\ objs[t] # Freed /\ objs[t].kind = "trigger"
      /\ UNCHANGED <<looping, started, life, evtimer_list>> /\ pending' = pending \ {t}
      /\ phase' \in {"invoke", "trigger"}
  BY DEF InvokeTrigger, SockDestroy, listVars, endVars
<1>3. bound[t] = NoProc /\ t = triggertoken
  BY <1>2 DEF CNInv, Tokened, AllBound
<1>4. PICK old \in SUBSET {t} :
        /\ active' = active \ old
        /\ \A u \in Tokens \ old : objs'[u] = objs[u] /\ (u = triggertoken => triggertoken' = u)
        /\ \A u \in old : objs'[u] = Freed
  <2>1. CASE UNCHANGED <<listVars, active>>
    <3>1. /\ {} \in SUBSET {t} /\ active' = active \ {} /\ \A u \in {} : objs'[u] = Freed
          /\ \A u \in Tokens \ {} : objs'[u] = objs[u] /\ (u = triggertoken => triggertoken' = u)
      BY <2>1 DEF listVars
    <3> QED
      BY <3>1
  <2>2. CASE SockDestroy(t)
    <3>1. t \in Members(evio_list)
      BY <1>2 DEF CNInv, Inv, Basics, Store
    <3>2. objs' = [objs EXCEPT ![t] = Freed] /\ active' = active \ {t}
      BY <2>2, <3>1, ReleasedIs DEF SockDestroy, CNInv, Inv, Basics
    <3>3. /\ {t} \in SUBSET {t} /\ \A u \in {t} : objs'[u] = Freed
          /\ \A u \in Tokens \ {t} : objs'[u] = objs[u] /\ (u = triggertoken => triggertoken' = u)
      BY <1>3, <3>2 DEF CNInv, Inv, Basics, Store
    <3> QED
      BY <3>2, <3>3
  <2> QED
    BY <2>1, <2>2 DEF InvokeTrigger
<1>5. Loops'
  BY <1>2 DEF CNInv, Loops
<1>6. Stages'
  BY <1>2 DEF CNInv, Stages, cnVars
<1>7. \A u \in Tokens : bound[u] # NoProc /\ Alive(u) => Alive(u)'
  BY <1>2, <1>3, <1>4 DEF Alive
<1>8. /\ old \in SUBSET Tokens /\ stage' \in {"none", "body", "user"}
      /\ UNCHANGED <<connVars, connectors, bound, awaiting, started, life>>
      /\ \A u \in old : objs'[u] = Freed /\ bound[u] = NoProc
  BY <1>2, <1>3, <1>4 DEF cnVars, CNInv, CNTypes
<1> QED
  BY <1>1, <1>4, <1>5, <1>6, <1>7, <1>8, LoopKeeps

(* What is bound to a task is a timeout, and to a watcher nothing else.    *)
LEMMA DispatchKeeps ==
    ASSUME CNInv, NEW t \in Tokens, Dispatch(t)
    PROVE  CNInv'
PROOF
<1>1. Inv'
  BY InvokeKeeps DEF CNInv, Dispatch
<1>2. /\ phase = "invoke" /\ objs[t] # Freed /\ objs[t].kind # "trigger"
      /\ pending' = pending \ {t} /\ phase' = (IF t \in Timers THEN "task" ELSE "handler")
      /\ current' = t /\ UNCHANGED <<listVars, looping, active, started, life>>
      /\ stage' = (IF bound[t].proc = "user" THEN "user" ELSE "body")
      /\ UNCHANGED <<connVars, connectors, bound, awaiting>>
  BY DEF Dispatch, Invoke, endVars
<1>3. bound[t] # NoProc /\ bound[t].proc \in {"connect", "timeout", "user"} /\ Bounded(t)
  BY <1>2, BoundIs DEF CNInv, Tokened, AllBound, Binding
<1>4. t \in Timers => bound[t].proc = "timeout"
  BY <1>3 DEF Bounded, Timers
<1>5. t \notin Timers => bound[t].proc # "timeout"
  BY <1>2, <1>3 DEF Bounded, Timers
<1>6. Loops'
  BY <1>2 DEF CNInv, Loops
<1>7. Stages'
  BY <1>2, <1>3, <1>4, <1>5 DEF Stages
<1>8. ASSUME NEW u \in Tokens, bound[u] # NoProc, objs[u].kind = "once", Alive(u)
      PROVE  Alive(u)'
  <2>1. stage # "body"
    BY <1>2 DEF CNInv, Stages
  <2>2. u \in active \cup pending
    BY <1>8, <2>1 DEF Alive
  <2>3. CASE u # t
    BY <1>2, <2>2, <2>3 DEF Alive
  <2>4. CASE u = t
    <3>1. t \in Timers
      BY <1>2, <1>8, <2>4 DEF Timers
    <3> QED
      BY <1>2, <1>4, <2>4, <3>1 DEF Alive
  <2> QED
    BY <2>3, <2>4
<1>9. /\ {} \in SUBSET Tokens /\ stage' \in {"none", "body", "user"}
      /\ \A u \in Tokens \ {} : objs'[u] = objs[u] /\ (u = triggertoken => triggertoken' = u)
      /\ \A u \in {} : objs'[u] = Freed /\ bound[u] = NoProc
  BY <1>2 DEF listVars
<1> QED
  BY <1>1, <1>2, <1>6, <1>7, <1>8, <1>9, LoopKeeps

(* The callback of a timeout leaves no task for scheduler_evtimer_cb.      *)
LEMMA CallbackReturnsKeeps ==
    ASSUME CNInv, CallbackReturns
    PROVE  CNInv'
PROOF
<1>1. Inv'
  BY ReturnTaskKeeps, ReturnHandlerKeeps DEF CNInv, CallbackReturns
<1>2. /\ stage # "body" /\ stage' = "none" /\ phase \in {"task", "handler", "trigger"}
      /\ phase' = "invoke" /\ UNCHANGED <<objs, triggertoken, looping, active, pending>>
      /\ UNCHANGED <<started, life, connVars, connectors, awaiting>>
  <2>1. CASE ReturnTask
    <3>1. ~Drops(current)
      BY <2>1 DEF CallbackReturns, ReturnTask, Drops, CNInv, Stages
    <3> QED
      BY <2>1, <3>1 DEF CallbackReturns, ReturnTask, evVars, endVars
  <2>2. CASE ReturnHandler
    BY <2>2 DEF CallbackReturns, ReturnHandler, listVars, evVars, endVars
  <2> QED
    BY <2>1, <2>2 DEF CallbackReturns
<1>3. bound' = bound
  <2>1. bound' = [t \in Tokens |-> IF objs'[t] = Freed THEN NoProc ELSE bound[t]]
    BY DEF CallbackReturns, Unbind
  <2>2. \A t \in Tokens : objs[t] = Freed => bound[t] = NoProc
    BY DEF CNInv, Tokened, AllBound
  <2> QED
    BY <1>2, <2>1, <2>2 DEF CNInv, CNTypes
<1>4. Loops'
  BY <1>2 DEF CNInv, Loops
<1>5. Stages'
  BY <1>2 DEF CNInv, Stages
<1>6. \A t \in Tokens : bound[t] # NoProc /\ objs[t].kind = "once" /\ Alive(t) => Alive(t)'
  BY <1>2 DEF Alive
<1>7. /\ {} \in SUBSET Tokens /\ stage' \in {"none", "body", "user"}
      /\ \A t \in Tokens \ {} : objs'[t] = objs[t] /\ (t = triggertoken => triggertoken' = t)
      /\ \A t \in {} : objs'[t] = Freed /\ bound[t] = NoProc
  BY <1>2
<1> QED
  BY <1>1, <1>2, <1>3, <1>4, <1>5, <1>6, <1>7, LoopKeeps

(* A scheduler that is started had nothing, and connectors had no tokens.  *)
LEMMA StartingKeeps ==
    ASSUME CNInv, Customary, NEW t \in Tokens, Start(t), UNCHANGED <<connVars, cnVars>>
    PROVE  CNInv'
PROOF
<1>1. Inv'
  BY StartKeeps DEF CNInv
<1>2. /\ ~started /\ life = "live" /\ phase = "out" /\ looping = NoThread
      /\ UNCHANGED <<looping, phase, pending, current>> /\ started' /\ life' = "live"
      /\ triggertoken' = t /\ NewObject(t, "trigger", {AWE_READ})
      /\ UNCHANGED <<conns, connectors, bound, stage, awaiting>> /\ evtimer_list' = evtimer_list
  BY ConnectorsBreakRules
     DEF Start, EnableTrigger, MayStart, Outside, loopVars, cnVars, connVars, CNInv, Inv, Basics,
         Loops
<1>3. /\ objs'[t] # Freed /\ objs'[t].kind = "trigger"
      /\ \A u \in Tokens \ {t} : objs'[u] = objs[u]
  BY <1>2, NewObjectIs, ReadIsAMask DEF CNInv, Inv, Basics, Kinds
<1>4. \A u \in Tokens : bound[u] = NoProc
  BY <1>2, BoundIs
<1>5. \A u \in Tokens : objs[u] = Freed
  <2>1. Members(evio_list) = {} /\ Members(evtimer_list) = {}
    BY <1>2 DEF CNInv, Inv, Basics, StoppedIsEmpty, Members
  <2>2. \A u \in Tokens : objs[u] # Freed => objs[u].kind \in Kinds
    BY DEF CNInv, Inv, Basics, Store, Object
  <2> QED
    BY <2>1, <2>2 DEF CNInv, Inv, Basics, Store, Kinds
<1>6. awaiting = {} /\ \A k \in Existing : TokensOf(k) = {}
  BY <1>2 DEF CNInv, Tokened
<1>7. AllBound'
  BY <1>2, <1>3, <1>4, <1>5 DEF AllBound
<1>8. Existing' = Existing /\ \A k \in Existing : TokensOf(k)' = {}
  BY <1>2, <1>6 DEF Existing, TokensOf
<1>9. \A k \in Existing' : Holding(k)'
  BY <1>8 DEF Holding, TokensOf
<1>10. Apart'
  BY <1>8 DEF Apart
<1>11. Tokened'
  BY <1>2, <1>4, <1>6, <1>7, <1>9, <1>10 DEF Tokened
<1>12. Loops'
  BY <1>2 DEF CNInv, Loops
<1>13. Stages'
  BY <1>2 DEF CNInv, Stages
<1>14. CNTypes'
  BY <1>2 DEF CNInv, CNTypes
<1>15. Links'
  BY <1>2, LinksStay DEF CNInv, Existing, Links
<1> QED
  BY <1>1, <1>11, <1>12, <1>13, <1>14, <1>15 DEF CNInv

LEMMA SchedulerStopsKeeps ==
    ASSUME CNInv, Customary, SchedulerStops
    PROVE  CNInv'
PROOF
<1>1. Inv'
  BY StopKeeps DEF CNInv, SchedulerStops
<1>2. /\ StopAll /\ life' = "stopped" /\ phase = "out" /\ looping = NoThread
      /\ UNCHANGED <<looping, phase, pending, current, active>>
      /\ UNCHANGED <<connVars, connectors, stage, awaiting>>
      /\ bound' = [t \in Tokens |-> IF objs'[t] = Freed THEN NoProc ELSE bound[t]]
  BY ConnectorsBreakRules
     DEF SchedulerStops, Stop, Outside, Unbind, evVars, loopVars, CNInv, Inv, Basics, Loops
<1>3. ~started' /\ \A t \in Tokens : objs'[t] = Freed
  BY <1>2, AllCleared DEF StopAll, CNInv, Inv, Basics
<1>4. Loops'
  BY <1>2, <1>3 DEF CNInv, Loops
<1>5. Stages'
  BY <1>2 DEF CNInv, Stages
<1>6. CNTypes'
  BY <1>2 DEF CNInv, CNTypes
<1>7. Links' /\ FdsStay
  BY <1>2, LinksStay DEF CNInv, Existing, Links
<1>8. \A j \in Connectors : Same(j, Tokens)
  BY <1>2, <1>3 DEF Same
<1>9. Tokened'
  <2>1. /\ Tokens \in SUBSET Tokens /\ Tokens \ Tokens = {}
        /\ \A t \in Tokens : objs'[t] = Freed /\ bound'[t] = NoProc
        /\ started' => started
        /\ life' = "live" /\ ~started' => life = "live" /\ ~started
        /\ awaiting' \subseteq awaiting
    BY <1>2, <1>3
  <2> QED
    BY <1>8, <2>1, TokensKept
<1> QED
  BY <1>1, <1>4, <1>5, <1>6, <1>7, <1>9 DEF CNInv
-----------------------------------------------------------------------------
(* Steps that give a connector new tokens.                                 *)

LEMMA TokensAdded ==
    ASSUME CNInv, started, started', NEW k \in Connectors, NEW new \in SUBSET Tokens,
           \A t \in new : /\ objs[t] = Freed /\ objs'[t] # Freed /\ objs'[t].kind # "trigger"
                          /\ bound'[t] # NoProc /\ Bounded(t)',
           \A t \in Tokens \ new : objs'[t] = objs[t] /\ bound'[t] = bound[t],
           triggertoken' = triggertoken,
           \A j \in Connectors \ {k} :
               connectors'[j] = connectors[j] /\ (j \in awaiting' <=> j \in awaiting),
           \A j \in Existing \ {k} : Conn(j) # NoConn => conns'[Conn(j)].fd = conns[Conn(j)].fd,
           \A t \in Tokens : Alive(t) => Alive(t)',
           \A t \in Tokens : bound[t] # NoProc => bound[t].connector # k,
           awaiting' \subseteq Connectors,
           Holding(k)', k \in awaiting' => Waiting(k)', TokensOf(k)' \subseteq new
    PROVE  Tokened'
PROOF
<1>1. AllBound'
  BY DEF CNInv, Tokened, AllBound
<1>2. ASSUME NEW t \in Tokens, bound'[t] # NoProc
      PROVE  Bounded(t)'
  <2>1. CASE t \in new
    BY <2>1
  <2>2. CASE t \notin new
    <3>1. bound[t] # NoProc /\ bound'[t] = bound[t] /\ objs'[t] = objs[t]
      BY <1>2, <2>2
    <3>2. PICK j \in Existing : j = bound[t].connector /\ j \in Connectors /\ j # k
      BY <3>1, BoundIs, ConnectorIs DEF CNInv
    <3>3. Bounded(t)
      BY <3>1 DEF CNInv, Tokened
    <3>4. Conn(j) # NoConn
      BY <3>2, <3>3 DEF Bounded
    <3>5. /\ connectors'[j] = connectors[j] /\ (j \in awaiting' <=> j \in awaiting)
          /\ conns'[Conn(j)].fd = conns[Conn(j)].fd
      BY <3>2, <3>4
    <3> HIDE DEF CNInv
    <3>6. /\ IsOpen(Conn(j)) /\ objs[t].kind \in {"io", "once"}
          /\ objs[t].kind = "io" => /\ connectors[j].conntoken = t
                                    /\ bound[t].proc # "timeout"
                                    /\ bound[t].fd = conns[Conn(j)].fd
          /\ objs[t].kind = "once" => connectors[j].timeouttoken = t /\ bound[t].proc = "timeout"
          /\ bound[t].proc # "user" => j \in awaiting
      BY <3>2, <3>3 DEF Bounded
    <3>7. j = bound'[t].connector
      BY <3>1, <3>2
    <3>8. /\ j \in Existing' /\ Conn(j)' = Conn(j) /\ IsOpen(Conn(j))'
      BY <3>2, <3>4, <3>5, <3>6 DEF Existing, Conn, IsOpen
    <3> QED
      BY <3>1, <3>4, <3>5, <3>6, <3>7, <3>8 DEF Bounded
  <2> QED
    BY <2>1, <2>2
<1>3. ASSUME NEW j \in Existing, j # k
      PROVE  /\ TokensOf(j)' = TokensOf(j) /\ connectors'[j] = connectors[j]
             /\ \A t \in TokensOf(j) : t \notin new /\ objs'[t] = objs[t] /\ bound'[t] = bound[t]
  <2>1. j \in Connectors /\ connectors'[j] = connectors[j]
    BY <1>3, ConnectorIs DEF CNInv
  <2>2. \A t \in TokensOf(j) : t \in Tokens /\ objs[t] # Freed
    BY <1>3, TokensAre
  <2> QED
    BY <2>1, <2>2 DEF TokensOf
<1>4. \A j \in Existing' : j # k => j \in Existing
  BY DEF Existing
<1>5. ASSUME NEW j \in Existing'
      PROVE  Holding(j)'
  <2>1. CASE j = k
    BY <2>1
  <2>2. CASE j # k
    <3>1. Holding(j) /\ j \in Existing
      BY <1>4, <2>2 DEF CNInv, Tokened
    <3> QED
      BY <1>3, <2>2, <3>1 DEF Holding, TokensOf
  <2> QED
    BY <2>1, <2>2
<1>6. ASSUME NEW j \in awaiting'
      PROVE  Waiting(j)'
  <2>1. CASE j = k
    BY <2>1
  <2>2. CASE j # k
    <3>1. j \in Connectors
      OBVIOUS
    <3>2. Waiting(j)
      BY <2>2, <3>1 DEF CNInv, Tokened
    <3>3. connectors'[j] = connectors[j] /\ j \in Existing /\ connectors[j].timeouttoken \in Tokens
      BY <2>2, <3>1, <3>2, ConnectorIs DEF Waiting, CNInv
    <3> QED
      BY <3>1, <3>2, <3>3 DEF Waiting, Existing
  <2> QED
    BY <2>1, <2>2
<1>7. Apart'
  <2> SUFFICES ASSUME NEW i \in Existing', NEW j \in Existing', i # j
               PROVE  TokensOf(i)' \cap TokensOf(j)' = {}
    BY DEF Apart
  <2>1. CASE i = k
    BY <1>3, <1>4, <2>1
  <2>2. CASE j = k
    BY <1>3, <1>4, <2>2
  <2>3. CASE i # k /\ j # k
    BY <1>3, <1>4, <2>3 DEF CNInv, Tokened, Apart
  <2> QED
    BY <2>1, <2>2, <2>3
<1> QED
  BY <1>1, <1>2, <1>5, <1>6, <1>7 DEF Tokened

LEMMA SetEventHandlerKeeps ==
    ASSUME CNInv, NEW k \in Connectors, NEW w \in Tokens, SetEventHandler(k, w)
    PROVE  CNInv'
PROOF
<1> DEFINE o == [kind |-> "io", refs |-> 1, events |-> {AWE_READ}]
           b == [proc |-> "user", connector |-> k, fd |-> conns[Conn(k)].fd]
           r == [connectors[k] EXCEPT !.conntoken = w]
<1>1. /\ MayUse /\ started /\ k \in Existing /\ Conn(k) # NoConn /\ IsOpen(Conn(k))
      /\ connectors[k].conntoken = NULL /\ objs[w] = Freed /\ ~Corrupt
      /\ objs' = [objs EXCEPT ![w] = o] /\ evio_list' = Added(evio_list, w)
      /\ active' = active \cup {w} /\ bound' = [bound EXCEPT ![w] = b]
      /\ connectors' = [connectors EXCEPT ![k] = r]
      /\ Aside /\ UNCHANGED <<pending, evtimer_list, connVars, stage, awaiting>>
  BY DEF SetEventHandler
<1>2. Inv'
  <2>1. {AWE_READ} \in SUBSET Masks
    BY ReadIsAMask
  <2>2. NewObject(w, "io", {AWE_READ})
    BY <1>1, NewObjectMade DEF NewObject, CNInv, Inv, Basics
  <2>3. Watch(w, {AWE_READ})
    BY <1>1, <2>2 DEF Watch, MayUse, Aside
  <2> QED
    BY <2>1, <2>3, WatchKeeps DEF CNInv
<1>3. /\ objs'[w] = o /\ o # Freed /\ o.kind = "io" /\ \A t \in Tokens \ {w} : objs'[t] = objs[t]
  <2>1. o \in Object /\ o.kind = "io"
    BY ReadIsAMask DEF Object, Kinds
  <2> QED
    BY <1>1, <2>1, FreedIsNoObject DEF CNInv, Inv, Basics, Store
<1>4. /\ Conn(k) \in There(conns) /\ conns[Conn(k)].fd \in Fds \cup {Closed}
      /\ connectors[k] \in ConnectorRecord /\ Conn(k) = connectors[k].conn
  BY <1>1, ConnectionOf, ConnectorIs DEF CNInv
<1>5. /\ b \in Binding /\ b # NoProc /\ b.proc = "user" /\ b.connector = k
      /\ b.fd = conns[Conn(k)].fd
  BY <1>4, NoProcIsNone DEF Binding
<1>6. /\ bound'[w] = b /\ \A t \in Tokens \ {w} : bound'[t] = bound[t]
      /\ bound' \in [Tokens -> Binding \cup {NoProc}]
  BY <1>1, <1>5 DEF CNInv, CNTypes
<1>7. k \notin awaiting /\ connectors[k].timeouttoken = NULL
  <2>1. k \notin awaiting
    BY <1>1 DEF CNInv, Tokened, Waiting
  <2>2. ASSUME connectors[k].timeouttoken # NULL PROVE FALSE
    <3> DEFINE t == connectors[k].timeouttoken
    <3>1. t \in Tokens /\ bound[t] # NoProc /\ bound[t].connector = k /\ objs[t].kind = "once"
      BY <1>1, <2>2, TokensAre DEF TokensOf
    <3>2. Bounded(t)
      BY <3>1 DEF CNInv, Tokened
    <3> QED
      BY <2>1, <3>1, <3>2 DEF Bounded
  <2> QED
    BY <2>1, <2>2
<1>8. \A t \in Tokens : bound[t] # NoProc => bound[t].connector # k
  BY <1>1, <1>7, BoundIs DEF TokensOf
<1>9. /\ r \in ConnectorRecord /\ r # NoConnector /\ r.conn = Conn(k)
      /\ r.conntoken = w /\ r.timeouttoken = NULL
  BY <1>4, <1>7, NoConnectorIsNone DEF ConnectorRecord
<1> HIDE DEF r, b, o
<1>10. /\ connectors'[k] = r /\ \A j \in Connectors \ {k} : connectors'[j] = connectors[j]
       /\ connectors' \in [Connectors -> ConnectorRecord \cup {NoConnector}]
  BY <1>1, <1>9 DEF CNInv, CNTypes
<1>11. CNTypes'
  BY <1>1, <1>6, <1>10 DEF CNInv, CNTypes
<1>12. Links'
  <2>1. \A c \in Conns : Counts(r, c) = Counts(connectors[k], c)
    BY <1>1, <1>9, ConnectorIs DEF Counts, CNInv
  <2>2. CNTypes /\ Links /\ r \in ConnectorRecord \cup {NoConnector} /\ UNCHANGED connVars
    BY <1>1, <1>9 DEF CNInv
  <2> QED
    BY <1>1, <2>1, <2>2, SameConnLinks
<1>13. UNCHANGED <<started, life, looping, phase, current, triggertoken, stage, awaiting, pending>>
  BY <1>1 DEF Aside, loopVars, endVars
<1>14. Loops'
  BY <1>13 DEF CNInv, Loops
<1>15. Stages'
  <2>1. stage # "body" /\ evtimer_list' = evtimer_list
    BY <1>1 DEF MayUse
  <2> QED
    BY <1>13, <2>1 DEF CNInv, Stages
<1>16. Bounded(w)'
  <2>1. k \in Existing' /\ Conn(k)' = Conn(k) /\ conns' = conns
    BY <1>1, <1>9, <1>10 DEF Existing, Conn, connVars
  <2> QED
    BY <1>1, <1>3, <1>5, <1>6, <1>9, <1>10, <2>1 DEF Bounded, IsOpen
<1>17. Holding(k)' /\ TokensOf(k)' \subseteq {w}
  BY <1>3, <1>5, <1>6, <1>9, <1>10 DEF Holding, TokensOf
<1>18. Tokened'
  <2>1. /\ {w} \in SUBSET Tokens /\ started' /\ started
        /\ \A t \in {w} : /\ objs[t] = Freed /\ objs'[t] # Freed /\ objs'[t].kind # "trigger"
                          /\ bound'[t] # NoProc /\ Bounded(t)'
        /\ \A t \in Tokens \ {w} : objs'[t] = objs[t] /\ bound'[t] = bound[t]
    BY <1>1, <1>3, <1>5, <1>6, <1>13, <1>16
  <2>2. /\ \A j \in Connectors \ {k} :
             connectors'[j] = connectors[j] /\ (j \in awaiting' <=> j \in awaiting)
        /\ \A j \in Existing \ {k} : Conn(j) # NoConn => conns'[Conn(j)].fd = conns[Conn(j)].fd
        /\ \A t \in Tokens : Alive(t) => Alive(t)'
        /\ awaiting' \subseteq Connectors
        /\ k \notin awaiting'
    BY <1>1, <1>7, <1>10, <1>13 DEF connVars, Alive, CNInv, CNTypes
  <2> QED
    BY <1>8, <1>13, <1>17, <2>1, <2>2, TokensAdded
<1> QED
  BY <1>2, <1>11, <1>12, <1>14, <1>15, <1>18 DEF CNInv

LEMMA AsideIsTyped ==
    ASSUME TypeOK, Aside, active' \subseteq Tokens, pending' \subseteq Tokens,
           objs' \in [Tokens -> Object \cup {Freed}],
           evio_list' \in Seq(Tokens), evtimer_list' \in Seq(Tokens)
    PROVE  TypeOK'
PROOF
<1> QED
  BY DEF TypeOK, ThreadTypeOK, Aside, threadVars, sockVars, loopVars, endVars

(* The scheduler's part of an open: a timer and a watcher are created.     *)
LEMMA BothAddedKeeps ==
    ASSUME Inv, rules # Rules, started, NEW task \in Tokens, NEW watch \in Tokens, task # watch,
           objs[task] = Freed, objs[watch] = Freed,
           objs' = [objs EXCEPT
                      ![task] = [kind |-> "once", refs |-> 1, events |-> {}],
                      ![watch] = [kind |-> "io", refs |-> 1, events |-> Masks \ {AWE_READ}]],
           evtimer_list' = Added(evtimer_list, task), evio_list' = Added(evio_list, watch),
           active' = active \cup {task, watch}, Aside, UNCHANGED pending
    PROVE  /\ Inv'
           /\ objs'[task] # Freed /\ objs'[task].kind = "once"
           /\ objs'[watch] # Freed /\ objs'[watch].kind = "io"
           /\ \A t \in Tokens \ {task, watch} : objs'[t] = objs[t]
PROOF
<1> DEFINE o == [kind |-> "once", refs |-> 1, events |-> {}]
           p == [kind |-> "io", refs |-> 1, events |-> Masks \ {AWE_READ}]
<1>1. Store /\ TypeOK
  BY DEF Inv, Basics
<1>2. /\ o \in Object /\ o.kind = "once" /\ o.refs = 1 /\ o # Freed
      /\ p \in Object /\ p.kind = "io" /\ p.refs = 1 /\ p # Freed
  BY FreedIsNoObject DEF Object, Kinds
<1> HIDE DEF o, p
<1>3. /\ objs'[task] = o /\ objs'[watch] = p
      /\ \A t \in Tokens \ {task, watch} : objs'[t] = objs[t]
      /\ objs' \in [Tokens -> Object \cup {Freed}]
  BY <1>1, <1>2 DEF Store, o, p
<1>4. /\ evio_list' \in Seq(Tokens) /\ Once(evio_list')
      /\ Members(evio_list') = Members(evio_list) \cup {watch}
      /\ evtimer_list' \in Seq(Tokens) /\ Once(evtimer_list')
      /\ Members(evtimer_list') = Members(evtimer_list) \cup {task}
  <2>1. watch \notin Members(evio_list) /\ task \notin Members(evtimer_list)
    BY <1>1 DEF Store
  <2> QED
    BY <1>1, <2>1, AddedIs DEF Store
<1>5. Store'
  <2> SUFFICES ASSUME NEW t \in Tokens
               PROVE  /\ t \in Members(evio_list') <=> objs'[t] # Freed
                                                        /\ objs'[t].kind \in {"io", "trigger"}
                      /\ t \in Members(evtimer_list') <=> objs'[t] # Freed
                                                           /\ objs'[t].kind \in {"once", "periodic"}
                      /\ objs'[t] # Freed => objs'[t].refs = 1
    BY <1>3, <1>4 DEF Store
  <2>1. /\ t \in Members(evio_list) <=> objs[t] # Freed /\ objs[t].kind \in {"io", "trigger"}
        /\ t \in Members(evtimer_list) <=> objs[t] # Freed /\ objs[t].kind \in {"once", "periodic"}
        /\ objs[t] # Freed => objs[t].refs = 1
    BY <1>1 DEF Store
  <2>2. CASE t = task
    BY <1>2, <1>3, <1>4, <2>1, <2>2
  <2>3. CASE t = watch
    BY <1>2, <1>3, <1>4, <2>1, <2>3
  <2>4. CASE t \notin {task, watch}
    BY <1>3, <1>4, <2>1, <2>4
  <2> QED
    BY <2>2, <2>3, <2>4
<1>6. TriggerHeld'
  <2> SUFFICES ASSUME sock = "open"
               PROVE  /\ triggertoken \in active' /\ triggertoken \in Members(evio_list')
                      /\ objs'[triggertoken].kind = "trigger"
    BY DEF TriggerHeld, Aside, sockVars
  <2>1. /\ triggertoken \in active /\ triggertoken \in Members(evio_list)
        /\ objs[triggertoken].kind = "trigger"
    BY DEF Inv, Basics, TriggerHeld
  <2>2. triggertoken \notin {task, watch} /\ triggertoken \in Tokens
    BY <1>1, <2>1, ListedIs
  <2> QED
    BY <1>3, <1>4, <2>1, <2>2
<1>7. StoppedIsEmpty'
  BY DEF StoppedIsEmpty, Aside
<1>8. TypeOK'
  <2>1. active' \subseteq Tokens /\ pending' \subseteq Tokens
    BY <1>1 DEF TypeOK
  <2>2. /\ objs' \in [Tokens -> Object \cup {Freed}]
        /\ evio_list' \in Seq(Tokens) /\ evtimer_list' \in Seq(Tokens)
    BY <1>3, <1>4
  <2> QED
    BY <1>1, <2>1, <2>2, AsideIsTyped
<1>9. rules' = rules
  BY DEF Aside, endVars
<1>10. Inv'
  BY <1>5, <1>6, <1>7, <1>8, <1>9 DEF Inv, Basics
<1> QED
  BY <1>2, <1>3, <1>10

LEMMA ConnectorOpenKeeps ==
    ASSUME CNInv, Customary, NEW k \in Connectors, NEW c \in Conns,
           NEW task \in Tokens, NEW watch \in Tokens, ConnectorOpen(k, c, task, watch)
    PROVE  CNInv'
PROOF
<1> DEFINE r == [conn |-> c, conntoken |-> watch, timeouttoken |-> task]
           a == [proc |-> "timeout", connector |-> k, fd |-> Closed]
<1>1. /\ MayUse /\ started /\ k \in Existing /\ Conn(k) = NoConn /\ phase # "task"
      /\ c \notin Allocated /\ objs[task] = Freed /\ objs[watch] = Freed /\ task # watch
      /\ evtimer_list' = Added(evtimer_list, task) /\ evio_list' = Added(evio_list, watch)
      /\ active' = active \cup {task, watch} /\ awaiting' = awaiting \cup {k}
      /\ connectors' = [connectors EXCEPT ![k] = r]
      /\ Aside /\ UNCHANGED <<pending, held, stage>>
  BY DEF ConnectorOpen, Openable, Customary
<1>2. PICK o \in StreamOpen :
        /\ o.fd # Closed /\ conns' = Created(c, "inet_stream", o.fd, NoConn) /\ socks' = o.open
        /\ bound' = [bound EXCEPT
             ![task] = a, ![watch] = [proc |-> "connect", connector |-> k, fd |-> o.fd]]
  BY DEF ConnectorOpen
<1> DEFINE b == [proc |-> "connect", connector |-> k, fd |-> o.fd]
<1>3. /\ Inv'
      /\ objs'[task] # Freed /\ objs'[task].kind = "once"
      /\ objs'[watch] # Freed /\ objs'[watch].kind = "io"
      /\ \A t \in Tokens \ {task, watch} : objs'[t] = objs[t]
  <2>1. rules # Rules /\ Inv
    BY ConnectorsBreakRules DEF CNInv, Inv, Basics
  <2>2. objs' = [objs EXCEPT
                      ![task] = [kind |-> "once", refs |-> 1, events |-> {}],
                      ![watch] = [kind |-> "io", refs |-> 1, events |-> Masks \ {AWE_READ}]]
    BY DEF ConnectorOpen
  <2> QED
    BY <1>1, <2>1, <2>2, BothAddedKeeps
<1>4. /\ r \in ConnectorRecord /\ r # NoConnector /\ r.conn = c
      /\ r.conntoken = watch /\ r.timeouttoken = task
  BY DetachedIs
<1> HIDE DEF r
<1>5. Links' /\ FdsStay /\ c \in There(conns') /\ conns'[c].fd = o.fd /\ o.fd \in Fds \cup {Closed}
  <2>1. CNTypes /\ Links
    BY DEF CNInv
  <2> QED
    BY <1>1, <1>2, <1>4, <2>1, OpensLinks
<1>6. /\ a \in Binding /\ a # NoProc /\ a.proc = "timeout" /\ a.connector = k
      /\ b \in Binding /\ b # NoProc /\ b.proc = "connect" /\ b.connector = k /\ b.fd = o.fd
  BY <1>5, NoProcIsNone DEF Binding
<1> HIDE DEF a, b
<1>7. /\ bound'[task] = a /\ bound'[watch] = b
      /\ \A t \in Tokens \ {task, watch} : bound'[t] = bound[t]
      /\ bound' \in [Tokens -> Binding \cup {NoProc}]
  BY <1>1, <1>2, <1>6 DEF CNInv, CNTypes, b
<1>8. /\ connectors'[k] = r /\ \A j \in Connectors \ {k} : connectors'[j] = connectors[j]
      /\ connectors' \in [Connectors -> ConnectorRecord \cup {NoConnector}]
  BY <1>1, <1>4 DEF CNInv, CNTypes
<1>9. CNTypes'
  BY <1>1, <1>7, <1>8 DEF CNInv, CNTypes
<1>10. UNCHANGED <<started, life, looping, phase, current, triggertoken, stage, pending>>
  BY <1>1 DEF Aside, loopVars, endVars
<1>11. Loops'
  BY <1>10 DEF CNInv, Loops
<1>12. Stages'
  BY <1>1, <1>10 DEF CNInv, Stages, MayUse
<1>13. k \in Existing' /\ Conn(k)' = c /\ c # NoConn /\ k \in awaiting'
  BY <1>1, <1>4, <1>8, ClosedIsNoDescriptor DEF Existing, Conn
<1>14. Bounded(task)' /\ Bounded(watch)'
  <2>1. IsOpen(c)'
    BY <1>2, <1>5 DEF IsOpen
  <2> QED
    BY <1>3, <1>4, <1>5, <1>6, <1>7, <1>8, <1>13, <2>1 DEF Bounded, IsOpen
<1>15. Holding(k)' /\ TokensOf(k)' \subseteq {task, watch}
  BY <1>3, <1>4, <1>6, <1>7, <1>8 DEF Holding, TokensOf
<1>16. Waiting(k)'
  <2>1. task # NULL /\ watch # NULL
    BY NullIsNoToken
  <2> QED
    BY <1>1, <1>4, <1>8, <1>13, <2>1 DEF Waiting, Alive
<1>17. \A t \in Tokens : bound[t] # NoProc => bound[t].connector # k
  BY <1>1, NoConnNoToken
<1>18. Tokened'
  <2>1. /\ {task, watch} \in SUBSET Tokens /\ started' /\ started
        /\ \A t \in {task, watch} : /\ objs[t] = Freed /\ objs'[t] # Freed
                                    /\ objs'[t].kind # "trigger"
                                    /\ bound'[t] # NoProc /\ Bounded(t)'
        /\ \A t \in Tokens \ {task, watch} : objs'[t] = objs[t] /\ bound'[t] = bound[t]
    BY <1>1, <1>3, <1>6, <1>7, <1>10, <1>14
  <2>2. /\ \A j \in Connectors \ {k} :
             connectors'[j] = connectors[j] /\ (j \in awaiting' <=> j \in awaiting)
        /\ \A t \in Tokens : Alive(t) => Alive(t)'
        /\ awaiting' \subseteq Connectors
    BY <1>1, <1>8, <1>10 DEF Alive, CNInv, CNTypes
  <2>3. \A j \in Existing \ {k} : Conn(j) # NoConn => conns'[Conn(j)].fd = conns[Conn(j)].fd
    <3> SUFFICES ASSUME NEW j \in Existing, j # k, Conn(j) # NoConn
                 PROVE  conns'[Conn(j)].fd = conns[Conn(j)].fd
      OBVIOUS
    <3>1. connectors'[j] = connectors[j] /\ CNTypes /\ Links
      BY <1>8, ConnectorIs DEF CNInv
    <3>2. Conn(j) \in There(conns) \cap There(conns)'
      BY <1>5, <3>1, FdsKept
    <3> QED
      BY <1>5, <3>2 DEF FdsStay
  <2> QED
    BY <1>10, <1>15, <1>16, <1>17, <2>1, <2>2, <2>3, TokensAdded
<1> QED
  BY <1>3, <1>5, <1>9, <1>11, <1>12, <1>18 DEF CNInv
-----------------------------------------------------------------------------
LEMMA FreedCalledKeeps ==
    ASSUME CNInv, NEW t \in Tokens, InvokeFreed(t), UNCHANGED <<connVars, cnVars>>
    PROVE  CNInv'
PROOF
<1> QED
  BY InvokeFreedKeeps, AbortKeeps DEF CNInv, InvokeFreed

LEMMA ConnectorCallKeeps == Customary /\ CNInv /\ ConnectorCall => CNInv'
PROOF
<1> SUFFICES ASSUME Customary, CNInv, ConnectorCall PROVE CNInv'
  OBVIOUS
<1> HIDE DEF Customary, CNInv
<1>1. PICK k \in Connectors :
        \/ ConnectorCreate(k) \/ ConnectorClose(k) \/ ConnectorTakeout(k) \/ ConnectorDestroy(k)
        \/ \E c \in Conns :
             \/ ConnectorOpenFails(k, c) \/ ConnectorOpen2(k, c)
             \/ \E task, watch \in Tokens : ConnectorOpen(k, c, task, watch)
        \/ \E watch \in Tokens : SetEventHandler(k, watch)
  BY DEF ConnectorCall
<1> QED
  BY <1>1, ConnectorCreateKeeps, ConnectorCloseKeeps, ConnectorTakeoutKeeps, ConnectorDestroyKeeps,
     OpenFailsKeeps, Open2Keeps, ConnectorOpenKeeps, SetEventHandlerKeeps

LEMMA SchedulerStepKeeps == Customary /\ CNInv /\ SchedulerStep => CNInv'
PROOF
<1> SUFFICES ASSUME Customary, CNInv, SchedulerStep PROVE CNInv'
  OBVIOUS
<1> HIDE DEF Customary, CNInv
<1> QED
  BY TurningKeeps, StartingKeeps, PollingKeeps, FreedCalledKeeps, TriggerCalledKeeps
     DEF SchedulerStep

LEMMA InitCN == CNInit => CNInv
PROOF
<1> SUFFICES ASSUME CNInit PROVE CNInv
  OBVIOUS
<1>1. Inv
  BY InitInv DEF CNInit
<1>2. Existing = {}
  BY DEF CNInit, Existing
<1>3. CNTypes
  BY DEF CNInit, CNTypes
<1>4. Links
  <2>1. socks \subseteq Fds /\ Counted(conns, held) /\ OwnedIn(conns, socks) /\ HoldMap(held)
    BY InitConn DEF CNInit, ConnInv, Counted
  <2>2. \A c : Users(connectors, c) = {} /\ Cardinality(Users(connectors, c)) = 0
    BY <1>2, FS_EmptySet DEF Users, Existing
  <2>3. Holds(connectors, held) = held
    BY <2>1, <2>2 DEF Holds, HoldMap
  <2> QED
    BY <1>2, <2>1, <2>3, FS_EmptySet DEF Links
<1>5. /\ \A t \in Tokens : objs[t] = Freed /\ bound[t] = NoProc
      /\ life = "live" /\ ~started /\ awaiting = {} /\ stage = "none"
      /\ looping = NoThread /\ phase = "out" /\ pending = {}
  BY DEF CNInit, Init
<1>6. Loops /\ Stages
  BY <1>5 DEF Loops, Stages
<1>7. Tokened
  BY <1>2, <1>5 DEF Tokened, AllBound, Apart
<1> QED
  BY <1>1, <1>3, <1>4, <1>6, <1>7 DEF CNInv

LEMMA NothingChanges == CNInv /\ UNCHANGED allVars => CNInv'
PROOF
<1> SUFFICES ASSUME CNInv, UNCHANGED allVars PROVE CNInv'
  OBVIOUS
<1>1. UNCHANGED <<vars, bound, stage, connVars, connectors, awaiting>>
  BY DEF allVars, cnVars
<1>2. Inv' /\ Loops' /\ Stages' /\ \A t : Alive(t) => Alive(t)'
  BY <1>1, SchedulerStays
<1>3. /\ UNCHANGED <<connVars, connectors, bound, awaiting, started, life>>
      /\ stage' \in {"none", "body", "user"} /\ {} \in SUBSET Tokens
      /\ \A t \in Tokens \ {} : objs'[t] = objs[t] /\ (t = triggertoken => triggertoken' = t)
      /\ \A t \in {} : objs'[t] = Freed /\ bound[t] = NoProc
  BY <1>1 DEF vars, listVars, endVars, CNInv, CNTypes
<1> QED
  BY <1>2, <1>3, LoopKeeps

LEMMA NextCN == Customary /\ CNInv /\ [CNNext]_allVars => CNInv'
PROOF
<1> SUFFICES ASSUME Customary, CNInv, [CNNext]_allVars PROVE CNInv'
  OBVIOUS
<1> HIDE DEF Customary, CNInv
<1>1. CASE CNStep
  BY <1>1, ConnectorCallKeeps, ProgramKeeps, DispatchKeeps, TellingKeeps, CallbackReturnsKeeps,
     SchedulerStepKeeps, SchedulerStopsKeeps
     DEF CNStep
<1>2. CASE UNCHANGED allVars
  BY <1>2, NothingChanges
<1>3. CASE Terminated /\ UNCHANGED <<connVars, cnVars>>
  <2>1. UNCHANGED allVars
    BY <1>3 DEF Terminated, allVars
  <2> QED
    BY <2>1, NothingChanges
<1> QED
  BY <1>1, <1>2, <1>3 DEF CNNext

LEMMA SpecCN == Customary => (CNSpec => []CNInv)
PROOF
<1> SUFFICES ASSUME Customary PROVE CNSpec => []CNInv
  OBVIOUS
<1>1. CNInv /\ [CNNext]_allVars => CNInv'
  BY NextCN
<1> HIDE DEF CNInv
<1> QED
  BY <1>1, InitCN, PTL DEF CNSpec
-----------------------------------------------------------------------------
(* No watcher is freed that libev has, before the scheduler is stopped.    *)
Sound == fault = "none" /\ (life = "live" => FreedIsInactive)

LEMMA SoundStays ==
    ASSUME Sound, fault' = fault, life' = life,
           \A t \in Tokens : objs'[t] = Freed /\ objs[t] # Freed => t \notin active' \cup pending',
           \A t \in Tokens : objs'[t] = Freed /\ objs[t] = Freed /\ t \in active' \cup pending'
                               => t \in active \cup pending
    PROVE  Sound'
PROOF
<1> QED
  BY DEF Sound, FreedIsInactive

LEMMA RmSound ==
    ASSUME CNInv, Customary, Sound, NEW k \in Existing, RmEventHandler(k), Aside
    PROVE  Sound'
PROOF
<1>1. /\ \A t \in Tokens \ Listed(k) : objs'[t] = objs[t]
      /\ active' = active \ Listed(k) /\ pending' = pending \ Listed(k)
  BY RmIs
<1>2. fault' = fault /\ life' = life
  BY DEF Aside, endVars
<1> QED
  BY <1>1, <1>2, SoundStays

LEMMA ConnectorCallSound ==
    ASSUME CNInv, Customary, Sound, ConnectorCall
    PROVE  Sound'
PROOF
<1>1. PICK k \in Connectors :
        \/ ConnectorCreate(k) \/ ConnectorClose(k) \/ ConnectorTakeout(k) \/ ConnectorDestroy(k)
        \/ \E c \in Conns :
             \/ ConnectorOpenFails(k, c) \/ ConnectorOpen2(k, c)
             \/ \E task, watch \in Tokens : ConnectorOpen(k, c, task, watch)
        \/ \E watch \in Tokens : SetEventHandler(k, watch)
  BY DEF ConnectorCall
<1>2. ASSUME UNCHANGED vars PROVE Sound'
  BY <1>2 DEF Sound, FreedIsInactive, vars, listVars, evVars, endVars
<1>3. CASE ConnectorClose(k) \/ ConnectorTakeout(k) \/ ConnectorDestroy(k)
  BY <1>3, RmSound DEF ConnectorClose, Close, ConnectorTakeout, ConnectorDestroy
<1>4. CASE \E c \in Conns, task, watch \in Tokens : ConnectorOpen(k, c, task, watch)
  <2>1. PICK task, watch \in Tokens :
          /\ objs' = [objs EXCEPT
               ![task] = [kind |-> "once", refs |-> 1, events |-> {}],
               ![watch] = [kind |-> "io", refs |-> 1, events |-> Masks \ {AWE_READ}]]
          /\ active' = active \cup {task, watch} /\ pending' = pending /\ Aside
    BY <1>4 DEF ConnectorOpen
  <2>2. /\ [kind |-> "once", refs |-> 1, events |-> {}] # Freed
        /\ [kind |-> "io", refs |-> 1, events |-> Masks \ {AWE_READ}] # Freed
    <3>1. /\ [kind |-> "once", refs |-> 1, events |-> {}] \in Object
          /\ [kind |-> "io", refs |-> 1, events |-> Masks \ {AWE_READ}] \in Object
      BY DEF Object, Kinds
    <3> QED
      BY <3>1, FreedIsNoObject
  <2>3. \A t \in Tokens : objs'[t] = Freed => t \notin {task, watch} /\ objs[t] = Freed
    BY <2>1, <2>2 DEF CNInv, Inv, Basics, Store
  <2>4. fault' = fault /\ life' = life
    BY <2>1 DEF Aside, endVars
  <2> QED
    BY <2>1, <2>3, <2>4, SoundStays
<1>5. CASE \E watch \in Tokens : SetEventHandler(k, watch)
  <2>1. PICK watch \in Tokens :
          /\ objs' = [objs EXCEPT ![watch] = [kind |-> "io", refs |-> 1, events |-> {AWE_READ}]]
          /\ active' = active \cup {watch} /\ pending' = pending /\ Aside
    BY <1>5 DEF SetEventHandler
  <2>2. [kind |-> "io", refs |-> 1, events |-> {AWE_READ}] # Freed
    <3>1. [kind |-> "io", refs |-> 1, events |-> {AWE_READ}] \in Object
      BY ReadIsAMask DEF Object, Kinds
    <3> QED
      BY <3>1, FreedIsNoObject
  <2>3. \A t \in Tokens : objs'[t] = Freed => t # watch /\ objs[t] = Freed
    BY <2>1, <2>2 DEF CNInv, Inv, Basics, Store
  <2>4. fault' = fault /\ life' = life
    BY <2>1 DEF Aside, endVars
  <2> QED
    BY <2>1, <2>3, <2>4, SoundStays
<1>6. CASE ConnectorCreate(k) \/ \E c \in Conns : ConnectorOpenFails(k, c) \/ ConnectorOpen2(k, c)
  BY <1>2, <1>6 DEF ConnectorCreate, ConnectorOpenFails, ConnectorOpen2
<1> QED
  BY <1>1, <1>3, <1>4, <1>5, <1>6

(* What libev uses is there: it polls and calls while no stop was made.    *)
LEMMA LoopSound ==
    ASSUME CNInv, Sound, Poll \/ \E t \in Tokens : InvokeFreed(t) \/ InvokeTrigger(t)
    PROVE  Sound'
PROOF
<1>1. /\ phase \in {"poll", "invoke"} /\ life = "live" /\ FreedIsInactive
      /\ TriggerReady \subseteq active /\ active \subseteq Tokens
  <2>1. phase \in {"poll", "invoke"}
    BY DEF Poll, InvokeFreed, InvokeTrigger
  <2>2. life = "live"
    BY <2>1 DEF CNInv, Loops
  <2> QED
    BY <2>1, <2>2 DEF Sound, TriggerReady, CNInv, Inv, Basics, TypeOK
<1>2. CASE Poll
  <2>1. PICK ready \in SUBSET active :
          LET fired == ready \cup TriggerReady
          IN  \/ \E t \in fired : objs[t] = Freed
              \/ /\ active' = active \ (fired \cap Timers) /\ pending' = fired
                 /\ UNCHANGED <<listVars, endVars>>
    BY <1>2 DEF Poll
  <2>2. \A t \in ready \cup TriggerReady : objs[t] # Freed
    BY <1>1 DEF FreedIsInactive
  <2>3. /\ active' \subseteq active /\ pending' \subseteq active
        /\ UNCHANGED <<objs, fault, life>>
    BY <1>1, <2>1, <2>2 DEF listVars, endVars
  <2> QED
    BY <2>3, SoundStays
<1>3. ASSUME NEW t \in Tokens, InvokeFreed(t)
      PROVE  FALSE
  BY <1>1, <1>3 DEF InvokeFreed, FreedIsInactive
<1>4. ASSUME NEW t \in Tokens, InvokeTrigger(t)
      PROVE  Sound'
  <2>1. fault' = fault /\ life' = life
    BY <1>4 DEF InvokeTrigger, endVars
  <2>2. CASE UNCHANGED <<listVars, active>> /\ pending' = pending \ {t}
    BY <2>1, <2>2, SoundStays DEF listVars
  <2>3. CASE SockDestroy(t)
    <3>1. t \in Members(evio_list)
      BY <1>4 DEF InvokeTrigger, CNInv, Inv, Basics, Store
    <3>2. objs' = [objs EXCEPT ![t] = Freed] /\ active' = active \ {t} /\ pending' = pending \ {t}
      BY <2>3, <3>1, ReleasedIs DEF SockDestroy, CNInv, Inv, Basics
    <3> QED
      BY <2>1, <3>2, SoundStays DEF CNInv, Inv, Basics, Store
  <2> QED
    BY <1>4, <2>2, <2>3 DEF InvokeTrigger
<1> QED
  BY <1>2, <1>3, <1>4

LEMMA NextSound ==
    ASSUME CNInv, Customary, Sound, [CNNext]_allVars
    PROVE  Sound'
PROOF
<1>1. ASSUME UNCHANGED <<objs, active, fault, life>>, pending' \subseteq pending PROVE Sound'
  BY <1>1, SoundStays
<1>2. CASE UNCHANGED vars
  BY <1>1, <1>2 DEF vars, listVars, evVars, endVars
<1>3. CASE ConnectHandling \/ ConnectTimeout
  <2>1. Close(bound[current].connector) /\ stage = "body"
    BY <1>3 DEF ConnectHandling, ConnectTimeout
  <2>2. bound[current].connector \in Existing
    BY <2>1, BoundIs DEF CNInv, Stages
  <2> QED
    BY <2>1, <2>2, RmSound DEF Close
<1>4. CASE \E t \in Tokens : Dispatch(t)
  BY <1>1, <1>4 DEF Dispatch, Invoke, listVars, endVars
<1>5. CASE CallbackReturns
  <2>1. CASE ReturnTask
    <3>1. ~Drops(current)
      BY <1>5, <2>1 DEF CallbackReturns, ReturnTask, Drops, CNInv, Stages
    <3> QED
      BY <1>1, <2>1, <3>1 DEF ReturnTask, evVars, endVars
  <2>2. CASE ReturnHandler
    BY <1>1, <2>2 DEF ReturnHandler, listVars, evVars, endVars
  <2> QED
    BY <1>5, <2>1, <2>2 DEF CallbackReturns
<1>6. CASE Break \/ Enter(Main) \/ Turn
  BY <1>1, <1>6 DEF Break, Enter, Turn, listVars, evVars, endVars
<1>7. CASE \E t \in Tokens : Start(t)
  <2>1. PICK t \in Tokens : Start(t)
    BY <1>7
  <2>2. /\ NewObject(t, "trigger", {AWE_READ}) /\ active' = active \cup {t} /\ pending' = pending
        /\ fault' = fault /\ life' = "live" /\ life = "live"
    BY <2>1, ConnectorsBreakRules DEF Start, MayStart, EnableTrigger, CNInv, Inv, Basics
  <2>3. objs[t] = Freed /\ objs'[t] # Freed /\ \A u \in Tokens \ {t} : objs'[u] = objs[u]
    BY <2>2, NewObjectIs, ReadIsAMask DEF CNInv, Inv, Basics, Kinds
  <2> QED
    BY <2>2, <2>3, SoundStays
<1>8. CASE SchedulerStops
  BY <1>8 DEF SchedulerStops, Stop, Sound
<1> QED
  BY <1>2, <1>3, <1>4, <1>5, <1>6, <1>7, <1>8, ConnectorCallSound, LoopSound
     DEF CNNext, CNStep, SchedulerStep, ConnectionCall, Terminated, allVars

-----------------------------------------------------------------------------
LEMMA CNInvTypes == CNInv => CNTypeOK
PROOF
<1> QED
  BY DEF CNInv, Inv, Basics, CNTypes, Links, Counted, ConnMap, HoldMap, CNTypeOK, ConnTypeOK

LEMMA CNInvOwns == CNInv => Owned
PROOF
<1> SUFFICES ASSUME CNInv PROVE Owned
  OBVIOUS
<1> DEFINE others == [c \in Conns |-> Cardinality({k \in Existing : Conn(k) = c})]
           h == Holds(connectors, held)
<1>1. WatchersOwned
  <2>1. ASSUME NEW t \in (Members(evio_list) \cup Members(evtimer_list)) \ {triggertoken}
        PROVE  LET k == bound[t].connector
               IN  /\ k \in Existing /\ t \in TokensOf(k)
                   /\ Conn(k) # NoConn
                   /\ t \in Members(evio_list) =>
                        bound[t].fd = conns[Conn(k)].fd /\ IsOpen(Conn(k))
    <3>1. /\ t \in Tokens /\ objs[t] # Freed
          /\ t \in Members(evio_list) => objs[t].kind \in {"io", "trigger"}
      BY ListedIs DEF CNInv, Inv, Basics, Store
    <3>2. bound[t] # NoProc /\ Bounded(t)
      BY <3>1 DEF CNInv, Tokened, AllBound
    <3>3. bound[t].connector \in Existing /\ t \in TokensOf(bound[t].connector)
      BY <3>1, <3>2, BoundIs
    <3> QED
      BY <3>1, <3>2, <3>3 DEF Bounded
  <2> QED
    BY <2>1 DEF WatchersOwned, CNInv, Tokened, Apart
<1>2. Allocated = There(conns)
  BY DEF Allocated, There
<1>3. DescriptorsOwned
  BY <1>2 DEF CNInv, Links, OwnedIn, DescriptorsOwned, IsOpen
<1>4. \A c \in Conns : {k \in Existing : Conn(k) = c} = Users(connectors, c)
  BY DEF Existing, Conn, Users
<1>5. \A c \in Conns : others[c] = Cardinality(Users(connectors, c))
  BY <1>4
<1>6. \A c \in Conns : Cardinality(Users(connectors, c)) \in Nat
  BY UsersFinite DEF CNInv, Links
<1>7. \A c \in Conns : h[c] = held[c] + Cardinality(Users(connectors, c))
  BY HoldsAre DEF CNInv
<1>8. Counted(conns, h) /\ HoldMap(held)
  BY DEF CNInv, Links
<1> HIDE DEF h, others
<1>9. RefsAre(others)
  <2> SUFFICES ASSUME NEW c \in Conns
               PROVE  LET users == {d \in Allocated : conns[d].udp = c}
                          count == held[c] + Cardinality(users) + others[c]
                      IN  IF c \in Allocated THEN conns[c].refs = count /\ count > 0
                          ELSE count = 0
    BY DEF RefsAre
  <2> DEFINE b == Cardinality(BoundIn(conns, c))
             n == Cardinality(Users(connectors, c))
  <2>1. BoundIn(conns, c) = {d \in Allocated : conns[d].udp = c}
    BY <1>2 DEF BoundIn
  <2>2. b \in Nat /\ held[c] \in Nat /\ n \in Nat /\ others[c] = n /\ h[c] = held[c] + n
    BY <1>5, <1>6, <1>7, <1>8, BoundFacts DEF HoldMap
  <2>3. IF c \in There(conns) THEN conns[c].refs = h[c] + b /\ h[c] + b > 0 ELSE h[c] + b = 0
    BY <1>8 DEF Counted, RefsIn
  <2> HIDE DEF b, n
  <2>4. held[c] + b + others[c] = h[c] + b
    BY <2>2
  <2> QED
    BY <1>2, <2>1, <2>3, <2>4 DEF b
<1> QED
  BY <1>1, <1>3, <1>9 DEF Owned, others

(* The variables of the connectors, their connections and the scheduler    *)
(* have their types.                                                       *)
THEOREM ConnectorTypes == Customary => (CNSpec => []CNTypeOK)
PROOF
<1> HIDE DEF CNInv, CNTypeOK, Customary
<1> QED
  BY SpecCN, CNInvTypes, PTL

(* A watcher or a task of a connector is the one connector's that has its  *)
(* token and watches the open descriptor of that connector's connection;   *)
(* no descriptor and no reference leaks, in whatever order connectors are  *)
(* opened, closed, taken out and destroyed, and whatever call fails.       *)
THEOREM ConnectorsKeepTheirOwn == Customary => (CNSpec => []Owned)
PROOF
<1> HIDE DEF CNInv, Owned, Customary
<1> QED
  BY SpecCN, CNInvOwns, PTL

(* A connector tells its user an outcome only while it exists and owes     *)
(* one, so never twice, though the connection and its timeout may both be  *)
(* pending, and not after it was closed, taken out or destroyed.           *)
THEOREM ConnectorsTellOnce == Customary => (CNSpec => []OneOutcome)
PROOF
<1>1. CNInv => OneOutcome
  <2> SUFFICES ASSUME CNInv, stage = "body"
               PROVE  /\ bound[current] # NoProc
                      /\ bound[current].connector \in Existing \cap awaiting
    BY DEF OneOutcome
  <2>1. /\ current \in Tokens /\ bound[current] # NoProc
        /\ bound[current].proc \in {"timeout", "connect"}
    BY DEF CNInv, Stages
  <2>2. Bounded(current)
    BY <2>1 DEF CNInv, Tokened
  <2> QED
    BY <2>1, <2>2 DEF Bounded
<1> HIDE DEF CNInv, OneOutcome, Customary
<1> QED
  BY <1>1, SpecCN, PTL

(* A connector that was opened and was neither closed nor told its outcome *)
(* has an open connection and a timeout that libev will call or is calling *)
(* in its name: nobody waits in vain.                                      *)
THEOREM ConnectorsForgetNobody == Customary => (CNSpec => []NeverForgotten)
PROOF
<1>1. CNInv => NeverForgotten
  <2> SUFFICES ASSUME CNInv, started, NEW k \in awaiting
               PROVE  /\ k \in Existing /\ Conn(k) # NoConn /\ IsOpen(Conn(k))
                      /\ LET t == connectors[k].timeouttoken
                         IN  /\ t \in Members(evtimer_list)
                             /\ bound[t].proc = "timeout" /\ bound[t].connector = k
                             /\ t \in active \cup pending \/ current = t
    BY DEF NeverForgotten
  <2> DEFINE t == connectors[k].timeouttoken
  <2>1. k \in Existing /\ t \in TokensOf(k) /\ Alive(t)
    BY DEF CNInv, Tokened, Waiting, TokensOf
  <2>2. /\ t \in Tokens /\ bound[t] # NoProc /\ bound[t].connector = k
        /\ objs[t].kind = "once" /\ t \in Members(evtimer_list)
    BY <2>1, TokensAre
  <2>3. Bounded(t)
    BY <2>2 DEF CNInv, Tokened
  <2> HIDE DEF t
  <2>4. t \in active \cup pending \/ current = t
    BY <2>1 DEF Alive
  <2> QED
    BY <2>1, <2>2, <2>3, <2>4 DEF Bounded, t
<1> HIDE DEF CNInv, NeverForgotten, Customary
<1> QED
  BY <1>1, SpecCN, PTL

(* The commented-out assertions of scheduler.c:93 and 122 hold for these   *)
(* programs, and libev calls no freed watcher or task: closing, destroying *)
(* or timing out a connector stops what it frees, also the task that is    *)
(* being run, which scheduler_evtimer_cb does not free again.              *)
THEOREM ConnectorsStopBeforeTheyFree ==
    Customary => (CNSpec => [](StoppedBeforeFreed /\ fault = "none"))
PROOF
<1> SUFFICES ASSUME Customary PROVE CNSpec => [](StoppedBeforeFreed /\ fault = "none")
  OBVIOUS
<1>1. Sound /\ CNInv => StoppedBeforeFreed /\ fault = "none"
  <2> SUFFICES ASSUME Sound, CNInv PROVE StoppedBeforeFreed /\ fault = "none"
    OBVIOUS
  <2>1. started => life = "live"
    BY DEF CNInv, Loops
  <2> QED
    BY <2>1 DEF Sound, StoppedBeforeFreed
<1>2. CNInit => Sound
  BY DEF CNInit, Init, Sound, FreedIsInactive
<1>3. CNInv /\ Sound /\ [CNNext]_allVars => Sound'
  BY NextSound
<1>4. CNSpec => []CNInv
  BY SpecCN
<1> HIDE DEF CNInv, Sound, Customary, StoppedBeforeFreed
<1> QED
  BY <1>1, <1>2, <1>3, <1>4, PTL DEF CNSpec
=============================================================================

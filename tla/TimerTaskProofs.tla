-------------------------- MODULE TimerTaskProofs --------------------------
(***************************************************************************)
(* What the operations of timer_task.c preserve: the facts about the list  *)
(* that the proofs about its users need.                                   *)
(***************************************************************************)
EXTENDS TimerTask, SequenceTheorems, TLAPS

ListedAreTasks == \A a \in Listed : heap[a] \in TimerTask

(* The stamps of the listed tasks are below n.                             *)
StampedBelow(n) == \A a \in Listed : heap[a].stamp < n

(* The elements of a sequence to which one is added.                       *)
LEMMA AddAfterProperties ==
    ASSUME NEW S, NEW s \in Seq(S), NEW e \in S, NEW k \in 0 .. Len(s)
    PROVE  /\ AddAfter(s, k, e) \in Seq(S)
           /\ Len(AddAfter(s, k, e)) = Len(s) + 1
           /\ \A i \in 1 .. Len(s) + 1 :
                AddAfter(s, k, e)[i] = IF i <= k THEN s[i] ELSE IF i = k + 1 THEN e ELSE s[i - 1]
PROOF
<1> DEFINE l == SubSeq(s, 1, k)
           r == SubSeq(s, k + 1, Len(s))
           t == AddAfter(s, k, e)
<1> HIDE DEF l, r, t
<1>0. Len(s) \in Nat /\ DOMAIN s = 1 .. Len(s) /\ \A i \in 1 .. Len(s) : s[i] \in S
  BY LenProperties
<1>1. /\ l \in Seq(S) /\ Len(l) = k
      /\ \A i \in 1 .. k : l[i] = s[i]
  <2>1. \A i \in 1 .. k : s[i] \in S
    BY <1>0
  <2>2. k \in Int /\ 1 \in Int
    BY <1>0
  <2>3. /\ l \in Seq(S)
        /\ Len(l) = IF 1 <= k THEN k - 1 + 1 ELSE 0
        /\ \A i \in 1 .. k - 1 + 1 : l[i] = s[1 + i - 1]
    BY <2>1, <2>2, SubSeqProperties DEF l
  <2> QED
    BY <1>0, <2>3
<1>2. /\ r \in Seq(S) /\ Len(r) = Len(s) - k
      /\ \A i \in 1 .. Len(s) - k : r[i] = s[k + i]
  <2>1. \A i \in k + 1 .. Len(s) : s[i] \in S
    BY <1>0
  <2>2. k + 1 \in Int /\ Len(s) \in Int
    BY <1>0
  <2>3. /\ r \in Seq(S)
        /\ Len(r) = IF k + 1 <= Len(s) THEN Len(s) - (k + 1) + 1 ELSE 0
        /\ \A i \in 1 .. Len(s) - (k + 1) + 1 : r[i] = s[(k + 1) + i - 1]
    BY <2>1, <2>2, SubSeqProperties DEF r
  <2>4. ASSUME NEW i \in 1 .. Len(s) - k
        PROVE  r[i] = s[k + i]
    <3>1. i \in Int /\ k \in Int /\ Len(s) \in Int
      BY <1>0
    <3>2. Len(s) - (k + 1) + 1 = Len(s) - k /\ (k + 1) + i - 1 = k + i
      BY <3>1
    <3> QED
      BY <2>3, <3>2
  <2>5. Len(r) = Len(s) - k
    <3>1. k \in Int /\ Len(s) \in Int /\ k <= Len(s)
      BY <1>0
    <3> QED
      BY <2>3, <3>1
  <2> QED
    BY <2>3, <2>4, <2>5
<1>3. <<e>> \in Seq(S) /\ Len(<<e>>) = 1 /\ <<e>>[1] = e
  OBVIOUS
<1>4. /\ l \o <<e>> \in Seq(S)
      /\ Len(l \o <<e>>) = k + 1
      /\ \A i \in 1 .. k + 1 : (l \o <<e>>)[i] = IF i <= k THEN s[i] ELSE e
  <2>1. /\ l \o <<e>> \in Seq(S)
        /\ Len(l \o <<e>>) = Len(l) + Len(<<e>>)
        /\ \A i \in 1 .. Len(l) + Len(<<e>>) :
             (l \o <<e>>)[i] = IF i <= Len(l) THEN l[i] ELSE <<e>>[i - Len(l)]
    BY <1>1, <1>3, ConcatProperties
  <2> QED
    BY <1>0, <1>1, <1>3, <2>1
<1>5. t = (l \o <<e>>) \o r
  BY DEF l, r, t, AddAfter
<1> DEFINE le == l \o <<e>>
<1> HIDE DEF le
<1>6. /\ t \in Seq(S)
      /\ Len(t) = Len(le) + Len(r)
      /\ \A i \in 1 .. Len(le) + Len(r) :
           t[i] = IF i <= Len(le) THEN le[i] ELSE r[i - Len(le)]
  <2>1. le \in Seq(S) /\ t = le \o r
    BY <1>4, <1>5 DEF le
  <2>2. /\ le \o r \in Seq(S)
        /\ Len(le \o r) = Len(le) + Len(r)
        /\ \A i \in 1 .. Len(le) + Len(r) :
             (le \o r)[i] = IF i <= Len(le) THEN le[i] ELSE r[i - Len(le)]
    BY <1>2, <2>1, ConcatProperties
  <2> QED
    BY <2>1, <2>2
<1>7. Len(le) = k + 1 /\ \A i \in 1 .. k + 1 : le[i] = IF i <= k THEN s[i] ELSE e
  BY <1>4 DEF le
<1>8. k \in Int /\ Len(s) \in Int /\ 0 <= k /\ k <= Len(s)
  BY <1>0
<1>9. Len(le) = k + 1 /\ Len(r) = Len(s) - k /\ Len(le) + Len(r) = Len(s) + 1
  <2>1. Len(le) = k + 1 /\ Len(r) = Len(s) - k
    BY <1>2, <1>7
  <2> QED
    BY <2>1, <1>8
<1>10. Len(t) = Len(s) + 1
  <2>1. Len(t) = Len(le) + Len(r)
    BY <1>6
  <2> QED
    BY <2>1, <1>9
<1>11. ASSUME NEW i \in 1 .. Len(s) + 1
       PROVE  t[i] = IF i <= k THEN s[i] ELSE IF i = k + 1 THEN e ELSE s[i - 1]
  <2>1. i \in Int /\ 1 <= i /\ i <= Len(s) + 1
    BY <1>8
  <2>2. t[i] = IF i <= Len(le) THEN le[i] ELSE r[i - Len(le)]
    <3>1. i \in 1 .. Len(le) + Len(r)
      BY <1>9
    <3> QED
      BY <3>1, <1>6
  <2>3. CASE i <= k + 1
    <3>1. i \in 1 .. k + 1
      BY <1>8, <2>1, <2>3
    <3>2. t[i] = le[i]
      BY <1>9, <2>2, <2>3
    <3>3. le[i] = IF i <= k THEN s[i] ELSE e
      BY <1>7, <3>1
    <3>4. ~(i <= k) => i = k + 1
      BY <1>8, <2>1, <2>3
    <3> QED
      BY <3>2, <3>3, <3>4
  <2>4. CASE ~(i <= k + 1)
    <3>1. t[i] = r[i - (k + 1)]
      BY <1>9, <2>2, <2>4
    <3>2. i - (k + 1) \in 1 .. Len(s) - k
      BY <1>8, <2>1, <2>4
    <3>3. r[i - (k + 1)] = s[k + (i - (k + 1))]
      BY <1>2, <3>2
    <3>4. k + (i - (k + 1)) = i - 1
      BY <1>8, <2>1
    <3>5. ~(i <= k) /\ i # k + 1
      BY <1>8, <2>1, <2>4
    <3> QED
      BY <3>1, <3>3, <3>4, <3>5
  <2> QED
    BY <2>3, <2>4
<1> QED
  BY <1>6, <1>10, <1>11 DEF t
-----------------------------------------------------------------------------
(* timer_task_list_insert lists the new task, keeps every other one, keeps *)
(* the list without repetitions and in due order.                          *)
LEMMA ListInsertKeeps ==
    ASSUME TaskTypeOK, Distinct, ListedAreTasks, InDueOrder,
           NEW n \in Nat, StampedBelow(n),
           NEW a \in Addr, NEW due \in Int, ListInsert(a, due, n)
    PROVE  /\ TaskTypeOK'
           /\ Distinct' /\ ListedAreTasks' /\ InDueOrder'
           /\ \A b \in Listed' : heap'[b].stamp < n + 1
           /\ Listed' = Listed \cup {a}
           /\ a \notin Listed
           /\ \A b \in Addr \ {a} : heap'[b] = heap[b]
           /\ heap'[a] \in TimerTask
PROOF
<1> DEFINE new == [proc_ms |-> due, state |-> "valid", stamp |-> n]
<1>1. /\ heap[a] = Free
      /\ heap' = [heap EXCEPT ![a] = new]
      /\ new \in TimerTask /\ new.proc_ms = due /\ new.stamp = n
  BY DEF ListInsert, TimerTask
<1>2. PICK k \in 0 .. Len(tasks) :
        /\ GoesAfter(k, due)
        /\ tasks' = AddAfter(tasks, k, a)
  BY DEF ListInsert
<1> HIDE DEF new
<1>3. /\ tasks \in Seq(Addr) /\ Len(tasks) \in Nat /\ DOMAIN tasks = 1 .. Len(tasks)
      /\ k \in Nat /\ k <= Len(tasks)
  BY LenProperties DEF TaskTypeOK
<1>4. /\ tasks' \in Seq(Addr)
      /\ Len(tasks') = Len(tasks) + 1
      /\ \A i \in 1 .. Len(tasks) + 1 :
           tasks'[i] = IF i <= k THEN tasks[i] ELSE IF i = k + 1 THEN a ELSE tasks[i - 1]
  <2>1. tasks \in Seq(Addr) /\ a \in Addr /\ k \in 0 .. Len(tasks)
    BY <1>3
  <2>2. /\ AddAfter(tasks, k, a) \in Seq(Addr)
        /\ Len(AddAfter(tasks, k, a)) = Len(tasks) + 1
        /\ \A i \in 1 .. Len(tasks) + 1 : AddAfter(tasks, k, a)[i] =
             IF i <= k THEN tasks[i] ELSE IF i = k + 1 THEN a ELSE tasks[i - 1]
    BY <2>1, AddAfterProperties
  <2> QED
    BY <1>2, <2>2
<1>5. DOMAIN tasks' = 1 .. Len(tasks) + 1
  BY <1>4, LenProperties
<1>6. a \notin Listed
  BY <1>1, FreeIsNoTask DEF ListedAreTasks
<1>7. heap' \in [Addr -> TimerTask \cup {Free}] /\ heap'[a] = new
      /\ \A b \in Addr \ {a} : heap'[b] = heap[b]
  BY <1>1 DEF TaskTypeOK
(* Where the element at place i of the new list was in the old one.        *)
<1> DEFINE old(i) == IF i <= k THEN i ELSE i - 1
<1>8. ASSUME NEW i \in 1 .. Len(tasks) + 1, i # k + 1
      PROVE  /\ old(i) \in 1 .. Len(tasks)
             /\ tasks'[i] = tasks[old(i)]
             /\ tasks[old(i)] \in Listed /\ tasks'[i] # a
             /\ heap'[tasks'[i]] = heap[tasks[old(i)]]
             /\ heap[tasks[old(i)]] \in TimerTask
             /\ heap[tasks[old(i)]].stamp < n
  <2>1. old(i) \in 1 .. Len(tasks)
    BY <1>3, <1>8
  <2>2. tasks'[i] = tasks[old(i)]
    BY <1>3, <1>4, <1>8
  <2>3. tasks[old(i)] \in Listed
    BY <1>3, <2>1 DEF Listed
  <2>4. tasks[old(i)] \in Addr
    BY <1>3, <2>1, ElementOfSeq
  <2>5. heap[tasks[old(i)]] \in TimerTask /\ heap[tasks[old(i)]].stamp < n
    BY <2>3 DEF ListedAreTasks, StampedBelow
  <2> QED
    BY <1>6, <1>7, <2>1, <2>2, <2>3, <2>4, <2>5
<1>9. k + 1 \in 1 .. Len(tasks) + 1 /\ tasks'[k + 1] = a
  BY <1>3, <1>4
<1>10. Listed' = Listed \cup {a}
  <2>1. Listed' \subseteq Listed \cup {a}
    BY <1>4, <1>5, <1>8, <1>9 DEF Listed
  <2>2. ASSUME NEW j \in 1 .. Len(tasks)
        PROVE  tasks[j] \in Listed'
    <3>1. CASE j <= k
      <4>1. j \in 1 .. Len(tasks) + 1 /\ tasks'[j] = tasks[j]
        BY <1>3, <1>4, <3>1
      <4> QED
        BY <1>5, <4>1 DEF Listed
    <3>2. CASE ~(j <= k)
      <4>1. j + 1 \in 1 .. Len(tasks) + 1 /\ tasks'[j + 1] = tasks[j]
        BY <1>3, <1>4, <3>2
      <4> QED
        BY <1>5, <4>1 DEF Listed
    <3> QED
      BY <3>1, <3>2
  <2>3. a \in Listed'
    BY <1>5, <1>9 DEF Listed
  <2> QED
    BY <1>3, <2>1, <2>2, <2>3 DEF Listed
<1>11. Distinct'
  <2> SUFFICES ASSUME NEW i \in 1 .. Len(tasks) + 1, NEW j \in 1 .. Len(tasks) + 1,
                      tasks'[i] = tasks'[j]
               PROVE  i = j
    BY <1>5 DEF Distinct
  <2>1. CASE i = k + 1
    BY <1>8, <1>9, <2>1
  <2>2. CASE j = k + 1
    BY <1>8, <1>9, <2>2
  <2>3. CASE i # k + 1 /\ j # k + 1
    <3>1. old(i) = old(j)
      BY <1>3, <1>8, <2>3 DEF Distinct
    <3> QED
      BY <1>3, <2>3, <3>1
  <2> QED
    BY <2>1, <2>2, <2>3
<1>12. ListedAreTasks' /\ \A b \in Listed' : heap'[b].stamp < n + 1
  <2>1. ASSUME NEW b \in Listed'
        PROVE  heap'[b] \in TimerTask /\ heap'[b].stamp < n + 1
    <3>1. CASE b = a
      BY <1>1, <1>7, <3>1
    <3>2. CASE b # a
      <4>1. b \in Listed /\ b \in Addr
        BY <1>3, <1>10, <2>1, <3>2, ElementOfSeq DEF Listed
      <4>2. heap'[b] = heap[b] /\ heap[b] \in TimerTask /\ heap[b].stamp < n
        BY <1>7, <3>2, <4>1 DEF ListedAreTasks, StampedBelow
      <4> QED
        BY <4>2 DEF TimerTask
    <3> QED
      BY <3>1, <3>2
  <2> QED
    BY <2>1 DEF ListedAreTasks
<1>13. InDueOrder'
  <2> SUFFICES ASSUME NEW i \in 1 .. Len(tasks) + 1, NEW j \in 1 .. Len(tasks) + 1, i < j
               PROVE  \/ heap'[tasks'[i]].proc_ms < heap'[tasks'[j]].proc_ms
                      \/ /\ heap'[tasks'[i]].proc_ms = heap'[tasks'[j]].proc_ms
                         /\ heap'[tasks'[i]].stamp < heap'[tasks'[j]].stamp
    BY <1>5 DEF InDueOrder
  <2>1. CASE i # k + 1 /\ j # k + 1
    <3>1. old(i) < old(j) /\ old(i) \in DOMAIN tasks /\ old(j) \in DOMAIN tasks
      BY <1>3, <1>8, <2>1
    <3>2. heap'[tasks'[i]] = heap[tasks[old(i)]] /\ heap'[tasks'[j]] = heap[tasks[old(j)]]
      BY <1>8, <2>1
    <3> HIDE DEF old
    <3>3. LET s == heap[tasks[old(i)]]
              t == heap[tasks[old(j)]]
          IN  s.proc_ms < t.proc_ms \/ (s.proc_ms = t.proc_ms /\ s.stamp < t.stamp)
      BY <3>1 DEF InDueOrder
    <3> QED
      BY <3>2, <3>3
  <2>2. CASE i = k + 1
    <3>1. j # k + 1 /\ old(j) \in k + 1 .. Len(tasks)
      BY <1>3, <2>2
    <3>2. due < heap[tasks[old(j)]].proc_ms
      BY <1>2, <3>1 DEF GoesAfter
    <3> QED
      BY <1>1, <1>7, <1>8, <1>9, <2>2, <3>1, <3>2
  <2>3. CASE j = k + 1
    <3>1. i <= k /\ i # k + 1 /\ old(i) = i /\ k > 0
      BY <1>3, <2>3
    <3>2. due >= heap[tasks[k]].proc_ms
      BY <1>2, <3>1 DEF GoesAfter
    <3>3. heap[tasks[i]] \in TimerTask /\ heap[tasks[i]].stamp < n
      BY <1>8, <3>1
    <3>4. heap[tasks[i]].proc_ms <= heap[tasks[k]].proc_ms
      <4>1. CASE i = k
        BY <3>3, <4>1 DEF TimerTask
      <4>2. CASE i # k
        <5>1. i < k /\ i \in DOMAIN tasks /\ k \in DOMAIN tasks
          BY <1>3, <3>1, <4>2
        <5>2. tasks[k] \in Listed
          BY <5>1 DEF Listed
        <5>3. heap[tasks[k]] \in TimerTask
          BY <5>2 DEF ListedAreTasks
        <5> QED
          BY <3>3, <5>1, <5>3 DEF InDueOrder, TimerTask
      <4> QED
        BY <4>1, <4>2
    <3>5. heap[tasks[k]].proc_ms \in Int /\ heap[tasks[i]].proc_ms \in Int
      <4>1. k \in DOMAIN tasks
        BY <1>3, <3>1
      <4>2. heap[tasks[k]] \in TimerTask
        BY <4>1 DEF ListedAreTasks, Listed
      <4> QED
        BY <3>3, <4>2 DEF TimerTask
    <3>6. heap[tasks[i]].proc_ms <= due
      BY <3>2, <3>4, <3>5
    <3>7. heap'[tasks'[i]] = heap[tasks[i]]
      BY <1>8, <3>1
    <3> QED
      BY <1>1, <1>7, <1>9, <2>3, <3>3, <3>5, <3>6, <3>7
  <2> QED
    BY <2>1, <2>2, <2>3
<1> QED
  BY <1>1, <1>4, <1>6, <1>7, <1>10, <1>11, <1>12, <1>13 DEF TaskTypeOK
-----------------------------------------------------------------------------
(* timer_task_list_cancel changes the state of a listed task at most.      *)
LEMMA ListCancelKeeps ==
    ASSUME TaskTypeOK, Distinct, ListedAreTasks, InDueOrder,
           NEW n \in Nat, StampedBelow(n), NEW id \in Addr, ListCancel(id)
    PROVE  /\ TaskTypeOK'
           /\ Distinct' /\ ListedAreTasks' /\ InDueOrder' /\ StampedBelow(n)'
           /\ Listed' = Listed
           /\ \A b \in Addr : heap'[b] = Free <=> heap[b] = Free
           /\ \A b \in Addr \ Listed : heap'[b] = heap[b]
PROOF
<1>1. tasks' = tasks
  BY DEF ListCancel
<1>2. Listed' = Listed /\ Distinct'
  BY <1>1 DEF Listed, Distinct
<1>3. CASE id \notin Listed
  <2>1. heap' = heap
    BY <1>3 DEF ListCancel
  <2> QED
    BY <1>1, <1>2, <2>1 DEF TaskTypeOK, ListedAreTasks, InDueOrder, StampedBelow
<1>4. CASE id \in Listed
  <2>1. heap[id] \in TimerTask
    BY <1>4 DEF ListedAreTasks
  <2>2. heap' = [heap EXCEPT ![id].state = "invalid"]
    BY <1>4 DEF ListCancel
  <2>3. /\ heap'[id] \in TimerTask
        /\ heap'[id].proc_ms = heap[id].proc_ms
        /\ heap'[id].stamp = heap[id].stamp
    BY <2>1, <2>2 DEF TaskTypeOK, TimerTask
  <2>4. \A b \in Addr \ {id} : heap'[b] = heap[b]
    BY <2>2 DEF TaskTypeOK
  <2>5. heap' \in [Addr -> TimerTask \cup {Free}]
    <3>1. DOMAIN heap' = Addr /\ heap' = [b \in Addr |-> heap'[b]]
      BY <2>2 DEF TaskTypeOK
    <3>2. \A b \in Addr : heap'[b] \in TimerTask \cup {Free}
      BY <2>3, <2>4 DEF TaskTypeOK
    <3> QED
      BY <3>1, <3>2
  <2>6. TaskTypeOK'
    BY <1>1, <2>5 DEF TaskTypeOK
  <2>7. ASSUME NEW b \in Listed
        PROVE  /\ b \in Addr /\ heap'[b] \in TimerTask
               /\ heap'[b].proc_ms = heap[b].proc_ms
               /\ heap'[b].stamp = heap[b].stamp
    <3>1. b \in Addr
      BY LenProperties DEF Listed, TaskTypeOK
    <3> QED
      BY <2>3, <2>4, <3>1 DEF ListedAreTasks
  <2>8. ListedAreTasks' /\ StampedBelow(n)'
    BY <1>2, <2>7 DEF ListedAreTasks, StampedBelow
  <2>9. InDueOrder'
    BY <1>1, <2>7 DEF InDueOrder, Listed
  <2>10. \A b \in Addr : heap'[b] = Free <=> heap[b] = Free
    BY <2>1, <2>3, <2>4, FreeIsNoTask
  <2> QED
    BY <1>2, <1>4, <2>4, <2>6, <2>8, <2>9, <2>10
<1> QED
  BY <1>3, <1>4

(* timer_task_list_del of the first task takes it out of the list.         *)
LEMMA ListDelFirstKeeps ==
    ASSUME TaskTypeOK, Distinct, ListedAreTasks, InDueOrder,
           NEW n \in Nat, StampedBelow(n), tasks # <<>>, ListDelFirst
    PROVE  /\ TaskTypeOK'
           /\ Distinct' /\ ListedAreTasks' /\ InDueOrder' /\ StampedBelow(n)'
           /\ ListFirst \in Listed
           /\ Listed' = Listed \ {ListFirst}
PROOF
<1>1. /\ tasks \in Seq(Addr) /\ Len(tasks) \in Nat /\ Len(tasks) > 0
      /\ DOMAIN tasks = 1 .. Len(tasks)
  BY EmptySeq, LenProperties DEF TaskTypeOK
<1>2. tasks' = Tail(tasks) /\ heap' = heap
  BY DEF ListDelFirst
<1>3. /\ tasks' \in Seq(Addr) /\ Len(tasks') = Len(tasks) - 1
      /\ \A i \in 1 .. Len(tasks) - 1 : tasks'[i] = tasks[i + 1]
  BY <1>1, <1>2, HeadTailProperties
<1>4. DOMAIN tasks' = 1 .. Len(tasks) - 1
  BY <1>3, LenProperties
<1>5. ListFirst = tasks[1] /\ 1 \in DOMAIN tasks
  BY <1>1 DEF ListFirst
<1>6. \A i \in DOMAIN tasks' : i + 1 \in DOMAIN tasks /\ i + 1 # 1 /\ tasks'[i] = tasks[i + 1]
  BY <1>1, <1>3, <1>4
<1>7. Listed' = Listed \ {ListFirst}
  <2>1. Listed' \subseteq Listed \ {ListFirst}
    BY <1>5, <1>6 DEF Listed, Distinct
  <2>2. ASSUME NEW i \in DOMAIN tasks, i # 1
        PROVE  tasks[i] \in Listed'
    <3>1. i - 1 \in DOMAIN tasks' /\ tasks'[i - 1] = tasks[i]
      BY <1>1, <1>3, <1>4, <2>2
    <3> QED
      BY <3>1 DEF Listed
  <2> QED
    BY <1>5, <2>1, <2>2 DEF Listed
<1>8. Distinct' /\ InDueOrder'
  <2>1. Distinct'
    BY <1>1, <1>4, <1>6 DEF Distinct
  <2>2. InDueOrder'
    BY <1>1, <1>2, <1>4, <1>6 DEF InDueOrder
  <2> QED
    BY <2>1, <2>2
<1>9. TaskTypeOK' /\ ListedAreTasks' /\ StampedBelow(n)'
  BY <1>2, <1>3, <1>7 DEF TaskTypeOK, ListedAreTasks, StampedBelow
<1>10. ListFirst \in Listed
  BY <1>5 DEF Listed
<1> QED
  BY <1>7, <1>8, <1>9, <1>10

(* timer_task_list_clear frees what was listed and nothing else.           *)
LEMMA ListClearKeeps ==
    ASSUME TaskTypeOK, NEW n \in Nat, ListClear
    PROVE  /\ TaskTypeOK'
           /\ Distinct' /\ ListedAreTasks' /\ InDueOrder' /\ StampedBelow(n)'
           /\ Listed' = {}
           /\ \A b \in Addr : heap'[b] = IF b \in Listed THEN Free ELSE heap[b]
PROOF
<1>1. tasks' = <<>> /\ DOMAIN tasks' = {}
  BY DEF ListClear
<1>2. heap' = [a \in Addr |-> IF a \in Listed THEN Free ELSE heap[a]]
  BY DEF ListClear
<1>3. Listed' = {}
  BY <1>1 DEF Listed
<1>4. Distinct' /\ ListedAreTasks' /\ InDueOrder' /\ StampedBelow(n)'
  BY <1>1, <1>3 DEF Distinct, ListedAreTasks, InDueOrder, StampedBelow
<1>5. TaskTypeOK'
  BY <1>1, <1>2 DEF TaskTypeOK
<1> QED
  BY <1>2, <1>3, <1>4, <1>5

(* timer_task_destroy of a task that is not listed leaves the list alone.  *)
LEMMA TaskDestroyKeeps ==
    ASSUME TaskTypeOK, Distinct, ListedAreTasks, InDueOrder,
           NEW n \in Nat, StampedBelow(n),
           NEW a \in Addr, a \notin Listed, TaskDestroy(a)
    PROVE  /\ TaskTypeOK'
           /\ Distinct' /\ ListedAreTasks' /\ InDueOrder' /\ StampedBelow(n)'
           /\ Listed' = Listed
           /\ heap'[a] = Free
           /\ \A b \in Addr \ {a} : heap'[b] = heap[b]
PROOF
<1>1. tasks' = tasks /\ heap' = [heap EXCEPT ![a] = Free]
  BY DEF TaskDestroy
<1>2. Listed' = Listed /\ Distinct'
  BY <1>1 DEF Listed, Distinct
<1>3. heap'[a] = Free /\ \A b \in Addr \ {a} : heap'[b] = heap[b]
  BY <1>1 DEF TaskTypeOK
<1>4. TaskTypeOK'
  BY <1>1 DEF TaskTypeOK
<1>5. \A b \in Listed : b \in Addr \ {a}
  BY LenProperties DEF Listed, TaskTypeOK
<1>6. ListedAreTasks' /\ StampedBelow(n)'
  BY <1>2, <1>3, <1>5 DEF ListedAreTasks, StampedBelow
<1>7. InDueOrder'
  <2>1. \A i \in DOMAIN tasks : tasks[i] \in Listed
    BY DEF Listed
  <2> QED
    BY <1>1, <1>3, <1>5, <2>1 DEF InDueOrder
<1> QED
  BY <1>2, <1>3, <1>4, <1>6, <1>7
=============================================================================

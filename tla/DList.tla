------------------------------- MODULE DList --------------------------------
(***************************************************************************)
(* src/include/awe/dlist.h, a circular list that is linked through its     *)
(* members in both directions, and src/linkedlist.c, which keeps such a    *)
(* list of heap cells and their number.  All the lists of the library are  *)
(* such lists: the looper's and the uxscheduler's tasks, the uxevents, and *)
(* the scheduler's watchers.                                               *)
(*                                                                         *)
(* awe_linkedlist_forEach calls the program for every cell, and keeps the  *)
(* cell that follows in a variable meanwhile (list_for_each_safe): the     *)
(* callback may add cells and may remove the one it is called for.  It     *)
(* would not survive the removal of the one that follows; Removals says    *)
(* whether a program does that.                                            *)
(***************************************************************************)
EXTENDS Integers, Sequences, FiniteSets

CONSTANTS
    Cells,       \* the addresses malloc may return for an awe_linked_obj
    Base,        \* _linkedhead
    Nil,         \* the null pointer
    Removals     \* what callbacks may remove: "current" or "any"

ASSUME PointersDiffer == Base \notin Cells /\ Nil \notin Cells \cup {Base}
ASSUME MemoryIsFinite == IsFiniteSet(Cells)
ASSUME RemovalsAreKnown == Removals \subseteq {"current", "any"}

VARIABLES
    removal,     \* what the callbacks of this program may remove
    next,        \* the successor of each cell and of the head
    prev,        \* and the predecessor
    allocated,   \* the cells that are allocated
    _size,
    pos,         \* forEach: the cell the callback is called for, or Nil
    tmp,         \* forEach: the cell that is next
    staying,     \* the cells listed ever since forEach began
    visited,     \* the ones it has called the callback for
    crashed      \* forEach used a freed cell

walkVars == <<pos, tmp, staying, visited, crashed>>
dlVars == <<removal, next, prev, allocated, _size, walkVars>>

Pointers == Cells \cup {Base, Nil}

DLTypeOK ==
    /\ removal \in Removals
    /\ next \in [Cells \cup {Base} -> Pointers] /\ prev \in [Cells \cup {Base} -> Pointers]
    /\ allocated \subseteq Cells /\ _size \in Int
    /\ pos \in Pointers /\ tmp \in Pointers
    /\ staying \subseteq Cells /\ visited \subseteq Cells
    /\ crashed \in BOOLEAN

(* awe_linkedlist_init: INIT_LIST_HEAD.                                    *)
DLInit ==
    /\ removal \in Removals
    /\ next = [c \in Cells \cup {Base} |-> IF c = Base THEN Base ELSE Nil]
    /\ prev = next
    /\ allocated = {} /\ _size = 0
    /\ pos = Nil /\ tmp = Nil /\ staying = {} /\ visited = {}
    /\ crashed = FALSE
-----------------------------------------------------------------------------
(* Mutant: the second pointer to the new cell is forgotten.                *)
LinkOneWay(c, before, after) ==
    /\ next' = [next EXCEPT ![c] = after, ![before] = c]
    /\ prev' = [prev EXCEPT ![c] = before]

(* __list_add.                                                             *)
Link(c, before, after) ==
    /\ next' = [next EXCEPT ![c] = after, ![before] = c]
    /\ prev' = [prev EXCEPT ![after] = c, ![c] = before]

(* list_add_tail: in front of a cell, or of the head, which is the end.    *)
ListAddTail(c, at) == Link(c, prev[at], at)

(* list_del and __list_del.                                                *)
ListDel(c) ==
    /\ next' = [next EXCEPT ![prev[c]] = next[c], ![c] = Nil]
    /\ prev' = [prev EXCEPT ![next[c]] = prev[c], ![c] = Nil]

Walking == pos # Nil

(* awe_linkedlist_add, at the head; the task list inserts anywhere.        *)
Add(c, at) ==
    /\ c \notin allocated /\ at \in allocated \cup {Base}
    /\ ListAddTail(c, at)
    /\ allocated' = allocated \cup {c}
    /\ _size' = _size + 1
    /\ visited' = visited \ {c}
    /\ UNCHANGED <<removal, pos, tmp, staying, crashed>>

(* linkedlist_rmfromlist and linkedlist_delfromlist of a cell, found by    *)
(* its object (remove, del, del3), at hand (del2) or at the head           *)
(* (removeFirst): it is taken out and freed.  The release of line 54, which *)
(* delfromlist calls in between, belongs to this step: those the library   *)
(* registers (scheduler.c, lines 234 to 236) give up a token or a task and *)
(* touch no list.                                                          *)
Remove(c) ==
    /\ c \in allocated
    /\ Walking /\ removal = "current" => c = pos
    /\ ListDel(c)
    /\ allocated' = allocated \ {c}
    /\ _size' = _size - 1
    /\ staying' = staying \ {c}
    /\ UNCHANGED <<removal, pos, tmp, visited, crashed>>

(* awe_linkedlist_clear, not from a callback.                              *)
Clear ==
    /\ ~Walking
    /\ next' = [c \in Cells \cup {Base} |-> IF c = Base THEN Base ELSE Nil]
    /\ prev' = next'
    /\ allocated' = {} /\ _size' = 0
    /\ UNCHANGED <<removal, walkVars>>
-----------------------------------------------------------------------------
(* awe_linkedlist_forEach.  The callback is called for pos, unless pos is  *)
(* the head; list_entry of a freed cell is undefined.                      *)
CallFor(c, following) ==
    /\ pos' = IF c = Base THEN Nil ELSE c
    /\ tmp' = IF c = Base THEN Nil ELSE following
    /\ visited' = IF c = Base THEN {} ELSE visited \cup {c}

ForEach ==
    /\ ~Walking
    /\ CallFor(next[Base], next[next[Base]])
    /\ staying' = IF next[Base] = Base THEN {} ELSE allocated
    /\ UNCHANGED <<removal, next, prev, allocated, _size, crashed>>

(* Mutant: list_for_each for list_for_each_safe.                           *)
CallbackReturnsUnsafe ==
    /\ Walking
    /\ IF next[pos] \in allocated \cup {Base}
         THEN /\ CallFor(next[pos], next[next[pos]])
              /\ staying' = IF next[pos] = Base THEN {} ELSE staying
              /\ UNCHANGED crashed
         ELSE crashed' = TRUE /\ UNCHANGED <<pos, tmp, staying, visited>>
    /\ UNCHANGED <<removal, next, prev, allocated, _size>>

CallbackReturns ==
    /\ Walking
    /\ IF tmp \in allocated \cup {Base}
         THEN /\ CallFor(tmp, next[tmp])
              /\ staying' = IF tmp = Base THEN {} ELSE staying
              /\ UNCHANGED crashed
         ELSE crashed' = TRUE /\ UNCHANGED <<pos, tmp, staying, visited>>
    /\ UNCHANGED <<removal, next, prev, allocated, _size>>

(* The callback says that it has seen enough.                              *)
CallbackStops ==
    /\ Walking
    /\ pos' = Nil /\ tmp' = Nil /\ staying' = {} /\ visited' = {}
    /\ UNCHANGED <<removal, next, prev, allocated, _size, crashed>>

DLNext ==
    \/ /\ ~crashed
       /\ \/ \E c \in Cells, at \in Cells \cup {Base} : Add(c, at)
          \/ \E c \in Cells : Remove(c)
          \/ Clear \/ ForEach \/ CallbackReturns \/ CallbackStops
    \/ crashed /\ UNCHANGED dlVars

DLSpec == DLInit /\ [][DLNext]_dlVars
-----------------------------------------------------------------------------
(* The k-th pointer from the head on, along the successors.                *)
Ahead ==
    LET f[k \in 0 .. Cardinality(Cells) + 1] ==
          IF k = 0 THEN Base
          ELSE IF f[k - 1] = Nil THEN Nil ELSE next[f[k - 1]]
    IN  f

(* The list as a sequence of cells.                                        *)
Items == [i \in 1 .. _size |-> Ahead[i]]

(* Following the successors from the head one meets every allocated cell   *)
(* once, as many as _size says, and comes back to the head; and the        *)
(* predecessors are the way back.  So no cell is lost or reached after it  *)
(* was freed, whatever callbacks add and remove (linkedlist.c:33-56).      *)
Circular ==
    /\ {Items[i] : i \in DOMAIN Items} = allocated /\ Cardinality(allocated) = _size
    /\ Ahead[_size + 1] = Base
    /\ \A i \in 0 .. _size : prev[Ahead[i + 1]] = Ahead[i]

(* What the other modules take the lists for: an addition at the head is   *)
(* an Append, one at a cell goes in front of it, a removal leaves the rest *)
(* in its order, and the circle stays closed meanwhile.                    *)
ActsAsSequence ==
    /\ Circular
    /\ [][/\ Circular'
          /\ \A c \in Cells : Add(c, Base) => Items' = Append(Items, c)
          /\ \A c \in Cells, i \in 1 .. _size : Add(c, Items[i]) =>
               Items' = SubSeq(Items, 1, i - 1) \o <<c>> \o SubSeq(Items, i, _size)
          /\ \A i \in 1 .. _size : Remove(Items[i]) =>
               Items' = SubSeq(Items, 1, i - 1) \o SubSeq(Items, i + 1, _size)
         ]_dlVars

(* forEach is safe when callbacks add what they like and remove only the   *)
(* cell they are called for: it uses no freed cell, and when it ends by    *)
(* itself it has called the callback for every cell that was there from    *)
(* the beginning and still is (linkedlist.c:203).                          *)
VisitsAll ==
    [][removal = "current" =>
         /\ ~crashed'
         /\ CallbackReturns /\ tmp = Base => staying \subseteq visited]_dlVars
=============================================================================

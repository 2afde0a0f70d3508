----------------------------- MODULE LinkedList -----------------------------
(***************************************************************************)
(* src/linkedlist.c with the objects of src/include/awe/object.h: lists    *)
(* that own one reference of every object they hold.  The operators give   *)
(* the next value of a heap h or of a list l; the modules that use them    *)
(* say which list and when.                                                *)
(***************************************************************************)
EXTENDS Integers, Sequences

CONSTANTS
    Tokens,     \* the addresses of objects
    Freed       \* the content of an address that is not allocated

Members(l) == {l[i] : i \in DOMAIN l}

(* Mutant: the reference is given up, and the object forgotten.            *)
ReleasedNever(h, t) == [h EXCEPT ![t].refs = @ - 1]

(* awe_evio_userdata_autorelease and awe_evtimer_userdata_autorelease:     *)
(* the last reference frees the object.                                    *)
Released(h, t) ==
    IF h[t].refs = 1 THEN [h EXCEPT ![t] = Freed] ELSE [h EXCEPT ![t].refs = @ - 1]

(* awe_linkedlist_add.                                                     *)
AddedRef(h, t) == [h EXCEPT ![t].refs = @ + 1]
Added(l, t) == Append(l, t)

(* awe_linkedlist_remove, which hands the list's reference over, and the   *)
(* list's part of awe_linkedlist_del: the first place of the object goes.  *)
FirstPlace(l, t) == CHOOSE i \in DOMAIN l : l[i] = t /\ \A j \in 1 .. i - 1 : l[j] # t
WithoutPlace(l, i) == SubSeq(l, 1, i - 1) \o SubSeq(l, i + 1, Len(l))
Without(l, t) == IF t \in Members(l) THEN WithoutPlace(l, FirstPlace(l, t)) ELSE l

(* awe_linkedlist_clear of two lists that share no object.                 *)
Cleared(h, l, m) ==
    [t \in Tokens |-> IF t \in Members(l) \cup Members(m) THEN Released(h, t)[t] ELSE h[t]]
=============================================================================

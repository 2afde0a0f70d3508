------------------------------ MODULE UxEvents ------------------------------
(***************************************************************************)
(* The uxevents of src/uxscheduler.c: for every socket that is watched, a  *)
(* heap cell that says for what, and the list of these cells.              *)
(***************************************************************************)
EXTENDS Integers, Sequences

CONSTANTS
    Ufds,       \* the sockets
    UxAddr,     \* the addresses uxevent_create may return
    UxFree,     \* the content of an address that is not allocated
    NoUxe       \* the null pointer

(* The conditions a socket is watched for: AWE_READ and AWE_WRITE.         *)
Masks == {"read", "write"}

UxEvent == [ufd : Ufds, conditionSet : SUBSET Masks]

ASSUME UxFreeIsNoEvent == UxFree \notin UxEvent
ASSUME NoUxeIsNoAddress == NoUxe \notin UxAddr

VARIABLES
    uxheap,     \* the uxevent at each address, or UxFree
    uxevents    \* _uxevent_list: the listed addresses, first to last

uxVars == <<uxheap, uxevents>>

UxTypeOK ==
    /\ uxheap \in [UxAddr -> UxEvent \cup {UxFree}]
    /\ uxevents \in Seq(UxAddr)

UxInit ==
    /\ uxheap = [a \in UxAddr |-> UxFree]
    /\ uxevents = <<>>

UxListed == {uxevents[i] : i \in DOMAIN uxevents}

(* uxscheduler_uxevent_find: the cells listed for a socket.  The code      *)
(* returns the first of them, or NULL.                                     *)
UxFind(ufd) == {a \in UxListed : uxheap[a].ufd = ufd}

(* uxevent_create, which malloc puts at a, and list_add_tail.              *)
UxAppend(a, ufd, conditions) ==
    /\ uxheap[a] = UxFree
    /\ uxheap' = [uxheap EXCEPT ![a] = [ufd |-> ufd, conditionSet |-> conditions]]
    /\ uxevents' = Append(uxevents, a)

UxWatchFor(a, conditions) ==
    /\ uxheap' = [uxheap EXCEPT ![a].conditionSet = conditions]
    /\ UNCHANGED uxevents

(* list_del and uxevent_destroy.                                           *)
UxPlace(a) == CHOOSE i \in DOMAIN uxevents : uxevents[i] = a
WithoutUx(i) == SubSeq(uxevents, 1, i - 1) \o SubSeq(uxevents, i + 1, Len(uxevents))
UxRemove(a) ==
    /\ uxheap' = [uxheap EXCEPT ![a] = UxFree]
    /\ uxevents' = WithoutUx(UxPlace(a))

(* awe_uxscheduler_clear.                                                  *)
UxClear ==
    /\ uxheap' = [a \in UxAddr |-> IF a \in UxListed THEN UxFree ELSE uxheap[a]]
    /\ uxevents' = <<>>

(* Every uxevent that was allocated is listed, once, and no socket is      *)
(* watched twice: so the first that is found is the only one, and none is  *)
(* leaked or freed twice.                                                  *)
OneEventPerSocket ==
    /\ \A i, j \in DOMAIN uxevents :
         uxheap[uxevents[i]] # UxFree
           /\ (uxheap[uxevents[i]].ufd = uxheap[uxevents[j]].ufd => i = j)
    /\ \A a \in UxAddr : uxheap[a] # UxFree => a \in UxListed
=============================================================================

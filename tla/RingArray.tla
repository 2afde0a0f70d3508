----------------------------- MODULE RingArray ------------------------------
(***************************************************************************)
(* src/ringarray.c: a ring of slots.  A writer asks for the slot that is   *)
(* next (writeReady), fills it through the pointer it got, and gives it    *)
(* over (writeFinish); a reader does the same with readReady and           *)
(* readFinish.  The slots in use are counted by _nmemb, which both change, *)
(* each with a load and a store.                                           *)
(*                                                                         *)
(* readFinish takes 0 for the result of a failed readReady (line 79),      *)
(* although it is the index of the first slot: a reader that passes what   *)
(* it was given never gets past that slot.  So a program has to            *)
(*   "lock"      lock every call, and                                      *)
(*   "positive"  pass readFinish a positive number.                        *)
(***************************************************************************)
EXTENDS Integers, Sequences

CONSTANTS
    Entries,     \* what is stored in a slot
    Unfilled,       \* the content of a slot that was never filled
    Sizes,      \* the capacities a ring is created with
    Habits      \* what programs do, of the two

ASSUME SizesArePositive == Sizes \subseteq Nat \ {0}         \* line 27
ASSUME UnfilledIsNoEntry == Unfilled \notin Entries
ASSUME HabitsAreHabits == Habits \subseteq SUBSET {"lock", "positive"}

VARIABLES
    habit,      \* what the program does
    slots,      \* _array
    size,       \* _capacity
    rindex,     \* _rindex
    windex,     \* _windex
    nmemb,      \* _nmemb
    writing,    \* where the writer is
    wresult,    \* what writeReady gave it, and -2 without a slot
    item,       \* what it writes
    wcount,     \* _nmemb as it has loaded it
    reading,    \* where the reader is
    rresult,    \* what readReady gave it
    taken,      \* what it read from the slot
    rcount,     \* _nmemb as it has loaded it
    consumed    \* what it got with its last read that it finished

slotVars == <<habit, slots, size>>
indexVars == <<rindex, windex, nmemb>>
wVars == <<writing, wresult, item, wcount>>
rVars == <<reading, rresult, taken, rcount, consumed>>
raVars == <<slotVars, indexVars, wVars, rVars>>

RATypeOK ==
    /\ habit \in Habits
    /\ size \in Sizes /\ slots \in [0 .. size - 1 -> Entries \cup {Unfilled}]
    /\ rindex \in 0 .. size - 1 /\ windex \in 0 .. size - 1
    /\ nmemb \in Int /\ wcount \in Int /\ rcount \in Int
    /\ writing \in {"out", "ready", "filled", "load", "store"}
    /\ reading \in {"out", "ready", "read", "load", "store"}
    /\ wresult \in {-2} \cup 0 .. size - 1 /\ rresult \in {-2} \cup 0 .. size - 1
    /\ item \in Seq(Entries)
    /\ taken \in Seq(Entries \cup {Unfilled}) /\ consumed \in Seq(Entries \cup {Unfilled})

(* awe_ringarray_create.                                                   *)
RAInit ==
    /\ habit \in Habits
    /\ size \in Sizes /\ slots = [i \in 0 .. size - 1 |-> Unfilled]
    /\ rindex = 0 /\ windex = 0 /\ nmemb = 0
    /\ writing = "out" /\ wresult = -2 /\ item = <<>> /\ wcount = 0
    /\ reading = "out" /\ rresult = -2 /\ taken = <<>> /\ rcount = 0
    /\ consumed = <<>>
-----------------------------------------------------------------------------
(* Neither side is inside a call of a program that locks its calls.        *)
Enterable ==
    "lock" \in habit => writing \notin {"load", "store"} /\ reading \notin {"load", "store"}

HasRoomForOneMore == nmemb <= size                    \* mutant: > for >=
HasRoom == nmemb < size

(* awe_ringarray_writeReady; without a slot the program tries again.       *)
WriteReady(v) ==
    /\ writing = "out" /\ Enterable
    /\ HasRoom
    /\ wresult' = windex /\ item' = <<v>>
    /\ writing' = "ready"
    /\ UNCHANGED <<slotVars, indexVars, wcount, rVars>>

(* The program fills the slot.                                             *)
Fill ==
    /\ writing = "ready"
    /\ slots' = [slots EXCEPT ![wresult] = item[1]]
    /\ writing' = "filled"
    /\ UNCHANGED <<habit, size, indexVars, wresult, item, wcount, rVars>>

(* Mutant: the index is not taken modulo the capacity.                     *)
WriteFinishNoWrap ==
    /\ writing = "filled" /\ Enterable
    /\ windex' = windex + 1
    /\ writing' = "load"
    /\ UNCHANGED <<slotVars, rindex, nmemb, wresult, item, wcount, rVars>>

(* awe_ringarray_writeFinish, whose argument is not negative.              *)
WriteFinish ==
    /\ writing = "filled" /\ Enterable
    /\ windex' = (windex + 1) % size
    /\ writing' = "load"
    /\ UNCHANGED <<slotVars, rindex, nmemb, wresult, item, wcount, rVars>>

WriteLoad ==
    /\ writing = "load"
    /\ wcount' = nmemb
    /\ writing' = "store"
    /\ UNCHANGED <<slotVars, indexVars, wresult, item, rVars>>

WriteStore ==
    /\ writing = "store"
    /\ nmemb' = wcount + 1
    /\ writing' = "out" /\ wresult' = -2 /\ item' = <<>> /\ wcount' = 0
    /\ UNCHANGED <<slotVars, rindex, windex, rVars>>
-----------------------------------------------------------------------------
(* awe_ringarray_readReady.                                                *)
ReadReady ==
    /\ reading = "out" /\ Enterable
    /\ nmemb > 0
    /\ rresult' = rindex
    /\ reading' = "ready"
    /\ UNCHANGED <<slotVars, indexVars, wVars, taken, rcount, consumed>>

(* The program reads the slot.                                             *)
Read ==
    /\ reading = "ready"
    /\ taken' = <<slots[rresult]>>
    /\ reading' = "read"
    /\ UNCHANGED <<slotVars, indexVars, wVars, rresult, rcount, consumed>>

(* What the program passes to readFinish.                                  *)
Passed == IF "positive" \in habit THEN rresult + 1 ELSE rresult

(* awe_ringarray_readFinish.                                               *)
ReadFinish ==
    /\ reading = "read" /\ Enterable
    /\ \/ /\ Passed <= 0
          /\ reading' = "out" /\ rresult' = -2 /\ taken' = <<>>
          /\ consumed' = taken
          /\ UNCHANGED rindex
       \/ /\ Passed > 0
          /\ rindex' = (rindex + 1) % size
          /\ reading' = "load"
          /\ UNCHANGED <<rresult, taken, consumed>>
    /\ UNCHANGED <<slotVars, windex, nmemb, wVars, rcount>>

ReadLoad ==
    /\ reading = "load"
    /\ rcount' = nmemb
    /\ reading' = "store"
    /\ UNCHANGED <<slotVars, indexVars, wVars, rresult, taken, consumed>>

ReadStore ==
    /\ reading = "store"
    /\ nmemb' = rcount - 1
    /\ consumed' = taken
    /\ reading' = "out" /\ rresult' = -2 /\ taken' = <<>> /\ rcount' = 0
    /\ UNCHANGED <<slotVars, rindex, windex, wVars>>
-----------------------------------------------------------------------------
(* The program waits for a slot, or for something to read.                 *)
Retry ==
    /\ \/ writing = "out" /\ ~HasRoom
       \/ reading = "out" /\ nmemb <= 0
    /\ UNCHANGED raVars

RANext ==
    \/ \E v \in Entries : WriteReady(v)
    \/ Fill \/ WriteFinish \/ WriteLoad \/ WriteStore
    \/ ReadReady \/ Read \/ ReadFinish \/ ReadLoad \/ ReadStore
    \/ Retry

RASpec == RAInit /\ [][RANext]_raVars
-----------------------------------------------------------------------------
(* What is stored: _nmemb slots, from the one to be read; between moving   *)
(* its index and counting down, the reader still has its slot.             *)
Filled ==
    LET begin == IF reading \in {"load", "store"} THEN rindex - 1 ELSE rindex
    IN  [i \in 1 .. nmemb |-> slots[(begin + i - 1) % size]]

Queue == INSTANCE Fifo WITH
    Values <- Entries, queue <- Filled, bound <- size, offer <- item, want <- 1, got <- consumed

(* The slots are a queue for programs that lock their calls and pass a     *)
(* positive number to readFinish: what was written is read once, in that   *)
(* order, and no slot is filled before it was read (lines 48-81).          *)
ArrayIsFifo ==
    /\ Queue!FifoInit
    /\ [][habit = {"lock", "positive"} => Queue!FifoNext]_<<Filled, size, item, consumed>>
=============================================================================

-------------------------------- MODULE Fifo --------------------------------
(***************************************************************************)
(* What the rings promise a program: a bounded queue between one writer    *)
(* and one reader.  Of what the writer offers a beginning is queued, as    *)
(* much as there is room for; what the reader gets is the beginning of the *)
(* queue, and never more than it wants.                                    *)
(***************************************************************************)
EXTENDS Integers, Sequences

CONSTANT Values

VARIABLES
    queue,     \* what is stored, oldest first
    bound,     \* how much can be stored
    offer,     \* what the writer wants to store
    want,      \* how much the reader wants
    got        \* what the reader was given last

fifoVars == <<queue, bound, offer, want, got>>

FifoInit ==
    /\ queue = <<>> /\ got = <<>>
    /\ offer = <<>> /\ want \in Nat
    /\ bound \in Nat \ {0}

(* The writer or the reader begins or ends a call.                         *)
Ask ==
    /\ offer' \in Seq(Values) /\ want' \in Nat
    /\ UNCHANGED <<queue, bound, got>>

Enqueue ==
    /\ \E n \in 1 .. Len(offer) :
         /\ Len(queue) + n <= bound
         /\ queue' = queue \o SubSeq(offer, 1, n)
    /\ offer' \in Seq(Values)
    /\ UNCHANGED <<bound, want, got>>

Dequeue ==
    /\ \E n \in 1 .. Len(queue) :
         /\ n <= want
         /\ got' = SubSeq(queue, 1, n)
         /\ queue' = SubSeq(queue, n + 1, Len(queue))
    /\ want' \in Nat
    /\ UNCHANGED <<bound, offer>>

Discard ==
    /\ \E n \in 1 .. Len(queue) : queue' = SubSeq(queue, n + 1, Len(queue))
    /\ UNCHANGED <<bound, offer, want, got>>

FifoNext == Ask \/ Enqueue \/ Dequeue \/ Discard

FifoSpec == FifoInit /\ [][FifoNext]_fifoVars
=============================================================================

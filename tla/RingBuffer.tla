----------------------------- MODULE RingBuffer -----------------------------
(***************************************************************************)
(* src/ringbuffer.c: a ring of bytes with two indices that run freely, and *)
(* wrap as a size_t does, here modulo 2^w.  One thread puts and another    *)
(* gets; each call evaluates its limit, copies, and moves its own index.   *)
(*                                                                         *)
(* _min_(size, limit) evaluates the limit a second time if it is the       *)
(* smaller one, and the other thread may have moved its index in between:  *)
(* the build of the Makefile (-O0) loads the index again, an optimised one *)
(* does not.  So the code needs a lock around the calls or a build that    *)
(* loads once; Uses says which combinations are looked at.  moveReadPosi-  *)
(* tion checks nothing: the program moves within what is stored.           *)
(***************************************************************************)
EXTENDS Integers, Sequences

CONSTANTS
    Values,      \* the bytes
    Junk,        \* a byte that nobody put: beyond the data, or never written
    Capacities,  \* the capacities a ring is created with
    Wrap,        \* 2^w: the indices are counted modulo Wrap
    MaxBatch,    \* bound on the size of a put or a get
    Uses         \* is there a lock, and is a limit loaded twice?

Use == [locked : BOOLEAN, twice : BOOLEAN]

ASSUME WrapIsNumber == Wrap \in Nat \ {0}
(* Line 27: a capacity is a power of two, and so divides 2^w.              *)
ASSUME CapacitiesDivide ==
    Capacities \subseteq {c \in Nat : c > 0 /\ c < Wrap /\ Wrap % c = 0}
ASSUME JunkIsNoValue == Junk \notin Values
ASSUME UsesAreUses == Uses \subseteq Use
ASSUME BatchIsNumber == MaxBatch \in Nat

VARIABLES
    use,       \* how the program uses the ring
    buffer,    \* _buffer
    capacity,  \* _capacity
    in,        \* _in
    out,       \* _out
    putting,   \* where the writer is in awe_ringbuffer_put
    data,      \* its argument
    putSize,   \* its size, once limited
    getting,   \* where the reader is in awe_ringbuffer_get
    room,      \* the size it asks for
    getSize,   \* the same, once limited
    copied,    \* what it has copied
    delivered  \* what the last get returned

ringVars == <<buffer, capacity, in, out>>
writerVars == <<putting, data, putSize>>
readerVars == <<getting, room, getSize, copied, delivered>>
rbVars == <<use, ringVars, writerVars, readerVars>>

Bytes == Values \cup {Junk}
Places == {"out", "limit", "reload", "copy", "move"}

RBTypeOK ==
    /\ use \in Uses
    /\ capacity \in Capacities /\ buffer \in [0 .. capacity - 1 -> Bytes]
    /\ in \in 0 .. Wrap - 1 /\ out \in 0 .. Wrap - 1
    /\ putting \in Places /\ getting \in Places
    /\ data \in Seq(Values) /\ room \in Nat
    /\ putSize \in 0 .. Wrap - 1 /\ getSize \in 0 .. Wrap - 1
    /\ copied \in Seq(Bytes) /\ delivered \in Seq(Bytes)

(* awe_ringbuffer_create.                                                  *)
RBInit ==
    /\ use \in Uses
    /\ capacity \in Capacities
    /\ buffer = [i \in 0 .. capacity - 1 |-> Junk]
    /\ in = 0 /\ out = 0
    /\ putting = "out" /\ data = <<>> /\ putSize = 0
    /\ getting = "out" /\ room = 0 /\ getSize = 0
    /\ copied = <<>> /\ delivered = <<>>
-----------------------------------------------------------------------------
(* awe_ringbuffer_size.                                                    *)
Stored == (in - out) % Wrap

FreeAndOne == (capacity + 1 - in + out) % Wrap        \* mutant: one too many
Free == (capacity - in + out) % Wrap

(* Where byte i of a copy that begins at an index is: the copy has a part  *)
(* up to the end of the buffer and a part at its beginning.                *)
Slot(index, i) ==
    LET toEnd == capacity - (index % capacity)
    IN  IF i < toEnd THEN (index % capacity) + i ELSE i - toEnd
-----------------------------------------------------------------------------
(* awe_ringbuffer_put.                                                     *)
Put(batch) ==
    /\ putting = "out"
    /\ use.locked => getting = "out"
    /\ putting' = "limit" /\ data' = batch
    /\ UNCHANGED <<use, ringVars, putSize, readerVars>>

(* Line 65; a put of at most what is free reads the index once.            *)
PutLimit ==
    /\ putting = "limit"
    /\ IF Len(data) < Free
         THEN putSize' = Len(data) /\ putting' = "copy"
         ELSE putSize' = Free /\ putting' = IF use.twice THEN "reload" ELSE "copy"
    /\ UNCHANGED <<use, ringVars, data, readerVars>>

PutReload ==
    /\ putting = "reload"
    /\ putSize' = Free /\ putting' = "copy"
    /\ UNCHANGED <<use, ringVars, data, readerVars>>

Offered(i) == IF i < Len(data) THEN data[i + 1] ELSE Junk

(* Lines 67-70.                                                            *)
PutCopy ==
    /\ putting = "copy"
    /\ buffer' = [s \in DOMAIN buffer |->
                    LET here == {i \in 0 .. putSize - 1 : Slot(in, i) = s}
                    IN  IF here = {} THEN buffer[s]
                        ELSE Offered(CHOOSE i \in here : \A j \in here : j <= i)]
    /\ putting' = "move"
    /\ UNCHANGED <<use, capacity, in, out, data, putSize, readerVars>>

PutMove ==
    /\ putting = "move"
    /\ in' = (in + putSize) % Wrap
    /\ putting' = "out" /\ data' = <<>> /\ putSize' = 0
    /\ UNCHANGED <<use, buffer, capacity, out, readerVars>>
-----------------------------------------------------------------------------
(* awe_ringbuffer_get.                                                     *)
Get(n) ==
    /\ getting = "out"
    /\ use.locked => putting = "out"
    /\ getting' = "limit" /\ room' = n
    /\ UNCHANGED <<use, ringVars, writerVars, getSize, copied, delivered>>

(* Line 53.                                                                *)
GetLimit ==
    /\ getting = "limit"
    /\ IF room < Stored
         THEN getSize' = room /\ getting' = "copy"
         ELSE getSize' = Stored /\ getting' = IF use.twice THEN "reload" ELSE "copy"
    /\ UNCHANGED <<use, ringVars, writerVars, room, copied, delivered>>

GetReload ==
    /\ getting = "reload"
    /\ getSize' = Stored /\ getting' = "copy"
    /\ UNCHANGED <<use, ringVars, writerVars, room, copied, delivered>>

(* Lines 55-58.                                                            *)
GetCopy ==
    /\ getting = "copy"
    /\ copied' = [i \in 1 .. getSize |->
                    LET s == Slot(out, i - 1)
                    IN  IF s \in DOMAIN buffer THEN buffer[s] ELSE Junk]
    /\ getting' = "move"
    /\ UNCHANGED <<use, ringVars, writerVars, room, getSize, delivered>>

GetMove ==
    /\ getting = "move"
    /\ out' = (out + getSize) % Wrap
    /\ delivered' = IF getSize = 0 THEN delivered ELSE copied
    /\ getting' = "out" /\ copied' = <<>> /\ room' = 0 /\ getSize' = 0
    /\ UNCHANGED <<use, buffer, capacity, in, writerVars>>

(* awe_ringbuffer_moveReadPosition.                                        *)
MoveReadPosition(n) ==
    /\ getting = "out" /\ n <= Stored
    /\ use.locked => putting = "out"
    /\ out' = (out + n) % Wrap
    /\ UNCHANGED <<use, buffer, capacity, in, writerVars, readerVars>>
-----------------------------------------------------------------------------
Batches == UNION {[1 .. n -> Values] : n \in 0 .. MaxBatch}

RBNext ==
    \/ \E batch \in Batches : Put(batch)
    \/ PutLimit \/ PutReload \/ PutCopy \/ PutMove
    \/ \E n \in 0 .. MaxBatch : Get(n)
    \/ GetLimit \/ GetReload \/ GetCopy \/ GetMove
    \/ \E n \in 1 .. MaxBatch : MoveReadPosition(n)

RBSpec == RBInit /\ [][RBNext]_rbVars
-----------------------------------------------------------------------------
(* What is stored: the bytes from the read index up to the write index.    *)
Contents == [i \in 1 .. Stored |-> buffer[(out + i - 1) % capacity]]

Bounded == INSTANCE Fifo WITH
    queue <- Contents, bound <- capacity, offer <- data, want <- room,
    got <- delivered

(* The ring is a queue of bytes across every wrap of its indices, with a   *)
(* lock or with a build that evaluates a limit once: nothing is lost,      *)
(* repeated or reordered, nothing is read that is still being written, and *)
(* a call copies no more than its buffer holds (lines 53 and 65).          *)
BufferIsFifo == Bounded!FifoSpec
=============================================================================

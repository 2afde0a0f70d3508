-------------------------- MODULE ContainerProofs --------------------------
(***************************************************************************)
(* Proofs about the rings, the linked list and packets, for every          *)
(* capacity, width of an index or an integer, memory and content: a ring   *)
(* array used as it has to be is a bounded queue, and so is a ring buffer; *)
(* a linked list is a sequence, also under a walk; what a careful program  *)
(* reads from a packet is in the packet's data; and with the connections   *)
(* of ConnectionProofs beside them, each keeps its types.                  *)
(***************************************************************************)
EXTENDS MCContainers, ConnectionProofs, SequenceTheorems, FiniteSetTheorems,
        WellFoundedInduction, TLAPS

(* Remainders.                                                             *)

LEMMA Quotient ==
    ASSUME NEW x \in Int, NEW n \in Nat \ {0}
    PROVE  x % n \in 0 .. n - 1 /\ x \div n \in Int /\ x = n * (x \div n) + (x % n)
PROOF
<1> QED
  OBVIOUS

LEMMA Remainder ==
    ASSUME NEW q \in Int, NEW r \in Int, NEW n \in Nat \ {0}, 0 <= r, r < n
    PROVE  (n * q + r) % n = r
PROOF
<1> QED
  OBVIOUS

LEMMA ModNear ==
    ASSUME NEW x \in Int, NEW n \in Nat \ {0}, -n <= x, x < n
    PROVE  x % n = IF x >= 0 THEN x ELSE x + n
PROOF
<1> QED
  OBVIOUS

LEMMA ModFar ==
    ASSUME NEW x \in Int, NEW n \in Nat \ {0}, 0 <= x, x < 2 * n
    PROVE  x % n = IF x < n THEN x ELSE x - n
PROOF
<1> QED
  OBVIOUS

LEMMA ModIs ==
    ASSUME NEW x \in Int, NEW n \in Nat \ {0}
    PROVE  /\ x % n \in 0 .. n - 1
           /\ 0 <= x /\ x < n => x % n = x
           /\ n <= x /\ x < 2 * n => x % n = x - n
           /\ -n <= x /\ x < 0 => x % n = x + n
PROOF
<1> QED
  OBVIOUS
-----------------------------------------------------------------------------
(* A sum of 32 bits that fits is the sum.                                  *)
LEMMA FittingSum ==
    ASSUME NEW n \in Int, -Half <= n, n < Half
    PROVE  Int32(n) = n
PROOF
<1>1. Half \in Nat \ {0} /\ 2 * Half \in Nat \ {0}
  BY HalfIsPositive
<1>2. n + Half \in Int /\ 0 <= n + Half /\ n + Half < 2 * Half
  BY <1>1
<1>3. (n + Half) % (2 * Half) = n + Half
  BY <1>1, <1>2, ModIs
<1> QED
  BY <1>1, <1>3 DEF Int32

(* The inductive invariant: what there is of a packet, and its range.      *)
PacketInv ==
    /\ refs > 0 => packetSize \in PacketSizes
    /\ rangeOffset \in Int /\ rangeLength \in Int /\ refs \in Int
    /\ RangeInData

(* A range of a careful program: its numbers, and their sum, fit.          *)
LEMMA RangesFit ==
    ASSUME PacketInv, refs > 0, careful, ~aborted,
           NEW a \in Int, NEW b \in Int, 0 <= a, a <= 2 * packetSize, 0 <= b, b <= packetSize
    PROVE  /\ packetSize \in Nat
           /\ Int32(a) = a /\ Int32(a + b) = a + b
PROOF
<1>1. packetSize \in Nat /\ 3 * packetSize < Half /\ Half \in Nat
  BY PacketSizesFit, HalfIsPositive DEF PacketInv
<1>2. -Half <= a /\ a < Half /\ -Half <= a + b /\ a + b < Half /\ a + b \in Int
  BY <1>1
<1> QED
  BY <1>1, <1>2, FittingSum

(* A range that was not refused ends where the data ends, or before.       *)
LEMMA RangePasses ==
    ASSUME NEW offset, NEW length, NEW end, RangeIs(offset, length, end), ~aborted'
    PROVE  /\ rangeOffset' = offset /\ rangeLength' = length
           /\ ~(Int32(end) > packetSize)
PROOF
<1>1. /\ aborted' = (Int32(end) > packetSize)
      /\ rangeOffset' = offset /\ rangeLength' = length
  BY DEF RangeIs
<1> QED
  BY <1>1, Zenon

(* awe_packet_setrange, setrange2 and setrange3.                           *)
LEMMA SetRangesKeep ==
    ASSUME PacketInv, ~aborted, NEW o \in Ints, NEW s \in Ints,
           SetRange(o, s) \/ SetRange2(o, s) \/ SetRange3(o, s)
    PROVE  PacketInv'
PROOF
<1>1. o \in Int /\ s \in Int /\ Half \in Nat \ {0}
  BY HalfIsPositive DEF Ints
<1>2. \A n \in Int : Int32(n) \in Int
  <2>1. \A n \in Int : (n + Half) % (2 * Half) \in Int
    BY <1>1, ModIs
  <2> QED
    BY <1>1, <2>1 DEF Int32
<1>3. /\ refs > 0 /\ UNCHANGED <<refs, packetSize, careful>>
      /\ rangeOffset' \in Int /\ rangeLength' \in Int
  <2>1. CASE SetRange(o, s)
    BY <1>1, <2>1 DEF SetRange, RangeIs, PacketInv
  <2>2. CASE SetRange2(o, s)
    BY <1>1, <1>2, <2>2 DEF SetRange2, RangeIs, PacketInv
  <2>3. CASE SetRange3(o, s)
    BY <1>1, <1>2, <2>3 DEF SetRange3, RangeIs, PacketInv
  <2> QED
    BY <2>1, <2>2, <2>3
<1>4. packetSize \in Nat
  BY <1>3, PacketSizesFit DEF PacketInv
<1>5. ASSUME careful, ~aborted'
      PROVE  0 <= rangeOffset' /\ 0 <= rangeLength' /\ rangeOffset' + rangeLength' <= packetSize
  <2>0. /\ 0 <= rangeOffset /\ 0 <= rangeLength /\ rangeOffset + rangeLength <= packetSize
        /\ rangeOffset \in Int /\ rangeLength \in Int
    BY <1>3, <1>5 DEF PacketInv, RangeInData
  <2>1. CASE SetRange(o, s)
    <3>1. 0 <= o /\ o <= packetSize /\ 0 <= s /\ s <= packetSize
      BY <1>4, <1>5, <2>1 DEF SetRange, Allowed
    <3>2. Int32(o + s) = o + s
      BY <1>1, <1>3, <1>4, <1>5, <3>1, RangesFit
    <3>3. rangeOffset' = o /\ rangeLength' = s /\ ~(Int32(o + s) > packetSize)
      BY <1>5, <2>1, RangePasses DEF SetRange
    <3> QED
      BY <1>1, <1>4, <3>1, <3>2, <3>3
  <2>2. CASE SetRange2(o, s)
    <3>1. 0 <= o /\ o <= packetSize /\ 0 <= s /\ s <= packetSize
      BY <1>4, <1>5, <2>2 DEF SetRange2, Allowed
    <3> DEFINE a == rangeOffset + o
    <3>2. a \in Int /\ 0 <= a /\ a <= 2 * packetSize
      BY <1>1, <1>4, <2>0, <3>1
    <3>3. Int32(a) = a /\ Int32(a + s) = a + s
      BY <1>1, <1>3, <1>5, <3>1, <3>2, RangesFit
    <3>4. rangeOffset' = a /\ rangeLength' = s /\ ~(Int32(a + s) > packetSize)
      BY <1>5, <2>2, <3>3, RangePasses DEF SetRange2
    <3> QED
      BY <1>1, <1>4, <3>1, <3>2, <3>3, <3>4
  <2>3. CASE SetRange3(o, s)
    <3>1. 0 <= o /\ o <= packetSize /\ -rangeLength <= s /\ s <= packetSize
      BY <1>4, <1>5, <2>0, <2>3 DEF SetRange3, Allowed
    <3> DEFINE a == rangeLength + s
    <3>2. a \in Int /\ 0 <= a /\ a <= 2 * packetSize
      BY <1>1, <1>4, <2>0, <3>1
    <3>3. Int32(a) = a /\ Int32(a + o) = a + o
      BY <1>1, <1>3, <1>5, <3>1, <3>2, RangesFit
    <3>4. a + o = o + a
      BY <1>1, <3>2
    <3>5. rangeOffset' = o /\ rangeLength' = a /\ ~(Int32(o + a) > packetSize)
      BY <1>5, <2>3, <3>3, RangePasses DEF SetRange3
    <3> QED
      BY <1>1, <1>4, <3>1, <3>2, <3>3, <3>4, <3>5
  <2> QED
    BY <2>1, <2>2, <2>3
<1> QED
  BY <1>3, <1>5 DEF PacketInv, RangeInData

LEMMA PacketsKeep == PacketInv /\ [PKNext]_pkVars => PacketInv'
PROOF
<1> SUFFICES ASSUME PacketInv, [PKNext]_pkVars PROVE PacketInv'
  OBVIOUS
<1>1. ASSUME ~aborted, NEW c \in PacketSizes, PacketCreate(c) PROVE PacketInv'
  BY <1>1, PacketSizesFit DEF PacketCreate, PacketInv, RangeInData
<1>2. ASSUME ~aborted, PacketAddRef PROVE PacketInv'
  BY <1>2 DEF PacketAddRef, PacketInv, RangeInData
<1>3. ASSUME ~aborted, PacketAutorelease PROVE PacketInv'
  BY <1>3 DEF PacketAutorelease, PacketInv, RangeInData
<1>4. ASSUME ~aborted, NEW b \in BOOLEAN, UnfreeData(b) PROVE PacketInv'
  BY <1>4 DEF UnfreeData, PacketInv, RangeInData
<1>5. ASSUME UNCHANGED pkVars PROVE PacketInv'
  BY <1>5 DEF pkVars, PacketInv, RangeInData
<1> QED
  BY <1>1, <1>2, <1>3, <1>4, <1>5, SetRangesKeep DEF PKNext

(* Whatever a careful program did with the range of a packet before, what  *)
(* a holder reads lies in the packet's data, unless the program was        *)
(* aborted: the one check of the end is enough, and is not passed by a     *)
(* sum that has wrapped.                                                   *)
THEOREM PacketsStayInRange == PKSpec => []RangeInData
PROOF
<1>1. PKInit => PacketInv
  BY DEF PKInit, PacketInv, RangeInData
<1>2. PacketInv => RangeInData
  BY DEF PacketInv
<1> QED
  BY <1>1, <1>2, PacketsKeep, PTL DEF PKSpec
-----------------------------------------------------------------------------
(* A ring array of a program that locks its calls and passes a positive    *)
(* number.  The slot i places after the one to be read, and what is true   *)
(* of the slots, the indices and what the two sides hold.                  *)

Proper == habit = {"lock", "positive"}

Begin == IF reading \in {"load", "store"} THEN rindex - 1 ELSE rindex

Place(i) == (Begin + i) % size

ArrayTypes ==
    /\ size \in Nat \ {0}
    /\ slots \in [0 .. size - 1 -> Entries \cup {Unfilled}]
    /\ rindex \in 0 .. size - 1 /\ windex \in 0 .. size - 1 /\ nmemb \in 0 .. size
    /\ writing \in {"out", "ready", "filled", "load", "store"}
    /\ reading \in {"out", "ready", "read", "load", "store"}

OneMoves == ~(writing \in {"load", "store"} /\ reading \in {"load", "store"})

(* The writer's slot is the first that is free, and its index is that one, *)
(* or the next when it was moved.                                          *)
WriterHolds ==
    /\ writing # "out" => /\ nmemb < size /\ wresult = Place(nmemb)
                          /\ \E v \in Entries : item = <<v>>
    /\ writing \in {"filled", "load", "store"} => slots[wresult] = item[1]
    /\ writing \in {"load", "store"} => windex = Place(nmemb + 1)
    /\ writing \notin {"load", "store"} => windex = Place(nmemb)
    /\ writing = "store" => wcount = nmemb

(* The reader's slot is the first that is filled.                          *)
ReaderHolds ==
    /\ reading # "out" => nmemb > 0 /\ rresult = Place(0)
    /\ reading \in {"read", "load", "store"} => taken = <<slots[rresult]>>
    /\ reading = "store" => rcount = nmemb

ArrayInv == Proper => ArrayTypes /\ OneMoves /\ WriterHolds /\ ReaderHolds

(* Where a place is, with the index not, or once, taken around.            *)
LEMMA Around ==
    ASSUME NEW n \in Nat \ {0}, NEW b \in -1 .. n - 1, NEW i \in 0 .. n
    PROVE  (b + i) % n = IF b + i < 0 THEN n - 1 ELSE IF b + i < n THEN b + i ELSE b + i - n
PROOF
<1>1. b + i \in Int /\ -n <= b + i /\ b + i < 2 * n
  OBVIOUS
<1> DEFINE x == b + i
<1>2. /\ 0 <= x /\ x < n => x % n = x
      /\ n <= x /\ x < 2 * n => x % n = x - n
      /\ -n <= x /\ x < 0 => x % n = x + n
  <2>1. x \in Int
    BY <1>1
  <2> HIDE DEF x
  <2> QED
    BY <2>1, ModIs
<1>3. b + i < 0 => b + i = -1
  OBVIOUS
<1> QED
  BY <1>1, <1>2, <1>3

LEMMA PlaceIs ==
    ASSUME ArrayTypes, NEW i \in 0 .. size
    PROVE  /\ Begin \in -1 .. size - 1
           /\ Place(i) \in 0 .. size - 1
           /\ Place(i) = IF Begin + i < 0 THEN size - 1
                         ELSE IF Begin + i < size THEN Begin + i ELSE Begin + i - size
PROOF
<1>1. size \in Nat \ {0} /\ rindex \in 0 .. size - 1
  BY DEF ArrayTypes
<1>2. Begin \in -1 .. size - 1
  BY <1>1 DEF Begin
<1>3. (Begin + i) % size = IF Begin + i < 0 THEN size - 1
                           ELSE IF Begin + i < size THEN Begin + i ELSE Begin + i - size
  BY <1>1, <1>2, Around
<1> QED
  BY <1>1, <1>2, <1>3 DEF Place

(* No two of as many places as there are slots are the same one.           *)
LEMMA PlacesDiffer ==
    ASSUME ArrayTypes, NEW i \in 0 .. size - 1, NEW j \in 0 .. size - 1, i # j
    PROVE  Place(i) # Place(j)
PROOF
<1>1. size \in Nat \ {0}
  BY DEF ArrayTypes
<1>2. i \in 0 .. size /\ j \in 0 .. size
  BY <1>1
<1> QED
  BY <1>1, <1>2, PlaceIs

(* What is stored, as a sequence of the slots at the first places.         *)
FilledFacts ==
    ArrayTypes => /\ Filled \in Seq(Entries \cup {Unfilled}) /\ Len(Filled) = nmemb
                  /\ \A i \in 1 .. nmemb : Filled[i] = slots[Place(i - 1)]

LEMMA FilledIs == FilledFacts
PROOF
<1> SUFFICES ASSUME ArrayTypes
             PROVE  /\ Filled \in Seq(Entries \cup {Unfilled}) /\ Len(Filled) = nmemb
                    /\ \A i \in 1 .. nmemb : Filled[i] = slots[Place(i - 1)]
  BY DEF FilledFacts
<1>1. nmemb \in Nat /\ nmemb <= size /\ size \in Nat
  BY DEF ArrayTypes
<1>2. \A i \in 1 .. nmemb : (Begin + i - 1) % size = Place(i - 1)
  <2> SUFFICES ASSUME NEW i \in 1 .. nmemb PROVE (Begin + i - 1) % size = Place(i - 1)
    OBVIOUS
  <2>1. 0 \in 0 .. size
    BY <1>1
  <2>2. Begin \in Int
    BY <2>1, PlaceIs, <1>1
  <2>3. Begin + i - 1 = Begin + (i - 1)
    BY <2>2, <1>1
  <2> QED
    BY <2>3 DEF Place
<1>3. Filled = [i \in 1 .. nmemb |-> slots[Place(i - 1)]]
  BY <1>2 DEF Filled, Begin
<1>4. \A i \in 1 .. nmemb : slots[Place(i - 1)] \in Entries \cup {Unfilled}
  <2> SUFFICES ASSUME NEW i \in 1 .. nmemb PROVE slots[Place(i - 1)] \in Entries \cup {Unfilled}
    OBVIOUS
  <2>1. i - 1 \in 0 .. size
    BY <1>1
  <2>2. Place(i - 1) \in 0 .. size - 1
    BY <2>1, PlaceIs
  <2> QED
    BY <2>2 DEF ArrayTypes
<1> QED
  BY <1>1, <1>3, <1>4

(* The places depend on the read index and on where the reader is.         *)
LEMMA PlacesStay ==
    ASSUME UNCHANGED <<rindex, size>>,
           reading' \in {"load", "store"} <=> reading \in {"load", "store"}
    PROVE  Begin' = Begin /\ \A i : Place(i)' = Place(i)
PROOF
<1>1. Begin' = Begin
  BY DEF Begin
<1> QED
  BY <1>1 DEF Place

(* When the reader has moved its index, the places are where they were.    *)
LEMMA PlacesMoved ==
    ASSUME ArrayTypes, UNCHANGED size, reading = "read", reading' = "load",
           rindex' = (rindex + 1) % size, NEW i \in 0 .. size
    PROVE  Place(i)' = Place(i)
PROOF
<1>1. size \in Nat \ {0} /\ rindex \in 0 .. size - 1
  BY DEF ArrayTypes
<1>2. Begin = rindex /\ Begin' = rindex' - 1
  BY DEF Begin
<1>3. rindex' = IF rindex + 1 < size THEN rindex + 1 ELSE 0
  <2>1. 1 \in 0 .. size /\ rindex \in -1 .. size - 1
    BY <1>1
  <2>2. (rindex + 1) % size = IF rindex + 1 < 0 THEN size - 1
                              ELSE IF rindex + 1 < size THEN rindex + 1 ELSE rindex + 1 - size
    BY <1>1, <2>1, Around
  <2> QED
    BY <1>1, <2>2
<1>4. Begin' \in -1 .. size - 1
  BY <1>1, <1>2, <1>3
<1>5. (Begin' + i) % size = IF Begin' + i < 0 THEN size - 1
                            ELSE IF Begin' + i < size THEN Begin' + i ELSE Begin' + i - size
  BY <1>1, <1>4, Around
<1>6. Place(i) = IF rindex + i < size THEN rindex + i ELSE rindex + i - size
  BY <1>1, <1>2, PlaceIs
<1>7. Place(i)' = (Begin' + i) % size
  BY DEF Place
<1> QED
  BY <1>1, <1>2, <1>3, <1>5, <1>6, <1>7

(* When the reader has counted down, each place is one nearer.             *)
LEMMA PlacesAdvance ==
    ASSUME ArrayTypes, UNCHANGED <<size, rindex>>, reading = "store", reading' = "out",
           NEW i \in Int
    PROVE  Place(i)' = Place(i + 1)
PROOF
<1>1. rindex \in Int
  BY DEF ArrayTypes
<1>2. Begin = rindex - 1 /\ Begin' = rindex
  BY DEF Begin
<1>3. rindex + i = rindex - 1 + (i + 1)
  BY <1>1
<1> QED
  BY <1>2, <1>3 DEF Place

LEMMA WriterKeeps ==
    ASSUME ArrayInv, Proper,
           (\E v \in Entries : WriteReady(v)) \/ Fill \/ WriteFinish \/ WriteLoad \/ WriteStore
    PROVE  ArrayInv'
PROOF
<1> USE DEF Proper
<1>0. /\ ArrayTypes /\ OneMoves /\ WriterHolds /\ ReaderHolds
      /\ size \in Nat \ {0} /\ nmemb \in 0 .. size
  BY DEF ArrayInv, ArrayTypes
<1>1. UNCHANGED <<habit, size, rindex, reading, rresult, taken, rcount, consumed>>
  BY DEF WriteReady, Fill, WriteFinish, WriteLoad, WriteStore, slotVars, indexVars, rVars
<1>2. Begin' = Begin /\ \A i : Place(i)' = Place(i)
  BY <1>1, PlacesStay
<1>3. ASSUME NEW v \in Entries, WriteReady(v)
      PROVE  ArrayInv'
  <2>1. /\ writing = "out" /\ nmemb < size /\ wresult' = windex /\ item' = <<v>>
        /\ writing' = "ready" /\ UNCHANGED <<slots, windex, nmemb, wcount>>
    BY <1>3 DEF WriteReady, HasRoom, slotVars, indexVars
  <2>2. WriterHolds'
    BY <1>0, <1>1, <1>2, <2>1 DEF WriterHolds
  <2> QED
    BY <1>0, <1>1, <1>2, <2>1, <2>2 DEF ArrayInv, ArrayTypes, OneMoves, ReaderHolds
<1>4. CASE Fill
  <2>1. /\ writing = "ready" /\ slots' = [slots EXCEPT ![wresult] = item[1]]
        /\ writing' = "filled" /\ UNCHANGED <<windex, nmemb, wresult, item, wcount>>
    BY <1>4 DEF Fill, indexVars
  <2>2. wresult = Place(nmemb) /\ nmemb \in 0 .. size - 1 /\ item[1] \in Entries
    BY <1>0, <2>1 DEF WriterHolds
  <2>3. wresult \in 0 .. size - 1
    BY <1>0, <2>2, PlaceIs
  <2>4. slots \in [0 .. size - 1 -> Entries \cup {Unfilled}]
    BY <1>0 DEF ArrayTypes
  <2>5. /\ slots' \in [0 .. size - 1 -> Entries \cup {Unfilled}] /\ slots'[wresult] = item[1]
        /\ \A s \in 0 .. size - 1 : s # wresult => slots'[s] = slots[s]
    BY <2>1, <2>2, <2>3, <2>4
  <2>6. reading # "out" => rresult \in 0 .. size - 1 /\ rresult # wresult
    <3>1. reading # "out" => nmemb > 0 /\ rresult = Place(0)
      BY <1>0 DEF ReaderHolds
    <3>2. 0 \in 0 .. size /\ 0 \in 0 .. size - 1
      BY <1>0
    <3>3. Place(0) \in 0 .. size - 1
      BY <1>0, <3>2, PlaceIs
    <3>4. nmemb > 0 => Place(0) # Place(nmemb)
      BY <1>0, <2>2, <3>2, PlacesDiffer
    <3> QED
      BY <2>2, <3>1, <3>3, <3>4
  <2>7. ArrayTypes' /\ OneMoves'
    BY <1>0, <1>1, <2>1, <2>5 DEF ArrayTypes, OneMoves
  <2>8. WriterHolds'
    BY <1>0, <1>2, <1>1, <2>1, <2>5 DEF WriterHolds
  <2>9. ReaderHolds'
    BY <1>0, <1>1, <1>2, <2>1, <2>5, <2>6 DEF ReaderHolds
  <2> QED
    BY <2>7, <2>8, <2>9 DEF ArrayInv
<1>5. CASE WriteFinish
  <2>1. /\ writing = "filled" /\ reading \notin {"load", "store"}
        /\ windex' = (windex + 1) % size /\ writing' = "load"
        /\ UNCHANGED <<slots, nmemb, wresult, item, wcount>>
    BY <1>5 DEF WriteFinish, Enterable, slotVars
  <2>2. windex = Place(nmemb) /\ nmemb < size
    BY <1>0, <2>1 DEF WriterHolds
  <2>3. windex' = Place(nmemb + 1) /\ windex' \in 0 .. size - 1
    <3>1. nmemb \in 0 .. size /\ nmemb + 1 \in 0 .. size /\ 1 \in 0 .. size
      BY <1>0, <2>2
    <3>2. windex \in -1 .. size - 1
      BY <1>0 DEF ArrayTypes
    <3>3. windex' = IF windex + 1 < 0 THEN size - 1
                    ELSE IF windex + 1 < size THEN windex + 1 ELSE windex + 1 - size
      BY <1>0, <2>1, <3>1, <3>2, Around
    <3>4. Begin \in 0 .. size - 1
      BY <1>0, <2>1 DEF Begin, ArrayTypes
    <3> QED
      BY <1>0, <2>2, <3>1, <3>3, <3>4, PlaceIs
  <2>4. WriterHolds'
    BY <1>0, <1>1, <1>2, <2>1, <2>3 DEF WriterHolds, Place
  <2> QED
    BY <1>0, <1>1, <1>2, <2>1, <2>3, <2>4 DEF ArrayInv, ArrayTypes, OneMoves, ReaderHolds
<1>6. CASE WriteLoad
  <2>1. /\ writing = "load" /\ writing' = "store" /\ wcount' = nmemb
        /\ UNCHANGED <<slots, nmemb, windex, wresult, item>>
    BY <1>6 DEF WriteLoad, slotVars, indexVars
  <2> QED
    BY <1>0, <1>1, <1>2, <2>1 DEF ArrayInv, ArrayTypes, OneMoves, ReaderHolds, WriterHolds
<1>7. CASE WriteStore
  <2>1. /\ writing = "store" /\ writing' = "out" /\ nmemb' = wcount + 1
        /\ UNCHANGED <<slots, windex>>
    BY <1>7 DEF WriteStore, slotVars
  <2>2. nmemb' = nmemb + 1 /\ nmemb' \in 0 .. size /\ nmemb' > 0
    BY <1>0, <2>1 DEF WriterHolds
  <2>3. windex' = Place(nmemb')
    BY <1>0, <2>1, <2>2 DEF WriterHolds
  <2>4. WriterHolds'
    BY <1>2, <2>1, <2>2, <2>3 DEF WriterHolds
  <2>5. ReaderHolds'
    BY <1>0, <1>1, <1>2, <2>1, <2>2 DEF ReaderHolds, OneMoves
  <2> QED
    BY <1>0, <1>1, <2>1, <2>2, <2>4, <2>5 DEF ArrayInv, ArrayTypes, OneMoves
<1> QED
  BY <1>3, <1>4, <1>5, <1>6, <1>7

LEMMA ReaderKeeps ==
    ASSUME ArrayInv, Proper, ReadReady \/ Read \/ ReadFinish \/ ReadLoad \/ ReadStore
    PROVE  ArrayInv'
PROOF
<1> USE DEF Proper
<1>0. /\ ArrayTypes /\ OneMoves /\ WriterHolds /\ ReaderHolds
      /\ size \in Nat \ {0} /\ nmemb \in 0 .. size
  BY DEF ArrayInv, ArrayTypes
<1>1. UNCHANGED <<habit, slots, size, windex, writing, wresult, item, wcount>>
  BY DEF ReadReady, Read, ReadFinish, ReadLoad, ReadStore, slotVars, indexVars, wVars
<1>2. CASE ReadReady
  <2>1. /\ reading = "out" /\ nmemb > 0 /\ rresult' = rindex /\ reading' = "ready"
        /\ UNCHANGED <<rindex, nmemb, taken, rcount>>
    BY <1>2 DEF ReadReady, indexVars
  <2>2. Begin' = Begin /\ \A i : Place(i)' = Place(i)
    BY <1>1, <2>1, PlacesStay
  <2>3. Place(0) = rindex
    <3>1. 0 \in 0 .. size
      BY <1>0
    <3> QED
      BY <1>0, <2>1, <3>1, PlaceIs DEF Begin, ArrayTypes
  <2> QED
    BY <1>0, <1>1, <2>1, <2>2, <2>3 DEF ArrayInv, ArrayTypes, OneMoves, WriterHolds, ReaderHolds
<1>3. CASE Read
  <2>1. /\ reading = "ready" /\ taken' = <<slots[rresult]>> /\ reading' = "read"
        /\ UNCHANGED <<rindex, nmemb, rresult, rcount>>
    BY <1>3 DEF Read, indexVars
  <2>2. Begin' = Begin /\ \A i : Place(i)' = Place(i)
    BY <1>1, <2>1, PlacesStay
  <2> QED
    BY <1>0, <1>1, <2>1, <2>2 DEF ArrayInv, ArrayTypes, OneMoves, WriterHolds, ReaderHolds
<1>4. CASE ReadFinish
  <2>0. rresult \in 0 .. size - 1
    <3>1. 0 \in 0 .. size
      BY <1>0
    <3> QED
      BY <1>0, <1>4, <3>1, PlaceIs DEF ReadFinish, ReaderHolds
  <2>1. /\ reading = "read" /\ rindex' = (rindex + 1) % size /\ reading' = "load"
        /\ writing \notin {"load", "store"} /\ UNCHANGED <<nmemb, rresult, taken, rcount>>
    <3>1. Passed > 0 /\ ~(Passed <= 0)
      BY <2>0 DEF Passed
    <3> QED
      BY <1>4, <3>1 DEF ReadFinish, Enterable
  <2>2. \A i \in 0 .. size : Place(i)' = Place(i)
    BY <1>0, <1>1, <2>1, PlacesMoved
  <2>3. rindex' \in 0 .. size - 1
    <3>1. rindex + 1 \in Int
      BY <1>0 DEF ArrayTypes
    <3> QED
      BY <1>0, <2>1, <3>1, ModIs
  <2>4. 0 \in 0 .. size
    BY <1>0
  <2>5. WriterHolds'
    BY <1>0, <1>1, <2>1, <2>2 DEF WriterHolds
  <2> QED
    BY <1>0, <1>1, <2>1, <2>2, <2>3, <2>4, <2>5 DEF ArrayInv, ArrayTypes, OneMoves, ReaderHolds
<1>5. CASE ReadLoad
  <2>1. /\ reading = "load" /\ reading' = "store" /\ rcount' = nmemb
        /\ UNCHANGED <<rindex, nmemb, rresult, taken>>
    BY <1>5 DEF ReadLoad, indexVars
  <2>2. Begin' = Begin /\ \A i : Place(i)' = Place(i)
    BY <1>1, <2>1, PlacesStay
  <2> QED
    BY <1>0, <1>1, <2>1, <2>2 DEF ArrayInv, ArrayTypes, OneMoves, WriterHolds, ReaderHolds
<1>6. CASE ReadStore
  <2>1. /\ reading = "store" /\ reading' = "out" /\ nmemb' = rcount - 1 /\ UNCHANGED rindex
    BY <1>6 DEF ReadStore
  <2>2. nmemb' = nmemb - 1 /\ nmemb' \in 0 .. size /\ nmemb > 0 /\ writing \notin {"load", "store"}
    BY <1>0, <2>1 DEF ReaderHolds, OneMoves
  <2>3. \A i \in Int : Place(i)' = Place(i + 1)
    BY <1>0, <1>1, <2>1, PlacesAdvance
  <2>4. (Begin' + nmemb') % size = Place(nmemb)
    <3>1. (Begin' + (nmemb - 1)) % size = Place(nmemb - 1 + 1)
      BY <1>0, <1>1, <2>1, PlacesAdvance DEF Place
    <3> QED
      BY <1>0, <2>2, <3>1
  <2>5. WriterHolds'
    BY <1>0, <1>1, <2>2, <2>4 DEF WriterHolds, Place
  <2> QED
    BY <1>0, <1>1, <2>1, <2>2, <2>5 DEF ArrayInv, ArrayTypes, OneMoves, ReaderHolds
<1> QED
  BY <1>2, <1>3, <1>4, <1>5, <1>6
-----------------------------------------------------------------------------
(* The steps, seen as steps of the queue.                                  *)

LEMMA FilledWillBe == FilledFacts'
PROOF
<1> QED
  BY FilledIs, PTL

LEMMA FilledStays ==
    ASSUME ArrayTypes, ArrayTypes', nmemb' = nmemb,
           \A i \in 0 .. nmemb - 1 : slots'[Place(i)'] = slots[Place(i)]
    PROVE  Filled' = Filled
PROOF
<1>1. /\ Filled \in Seq(Entries \cup {Unfilled}) /\ Len(Filled) = nmemb
      /\ \A i \in 1 .. nmemb : Filled[i] = slots[Place(i - 1)]
  BY FilledIs DEF FilledFacts
<1>2. /\ Filled' \in Seq(Entries \cup {Unfilled}) /\ Len(Filled') = nmemb'
      /\ \A i \in 1 .. nmemb' : Filled'[i] = slots'[Place(i - 1)']
  BY FilledWillBe DEF FilledFacts
<1>3. \A i \in 1 .. nmemb : Filled'[i] = Filled[i]
  <2> SUFFICES ASSUME NEW i \in 1 .. nmemb PROVE Filled'[i] = Filled[i]
    OBVIOUS
  <2>1. nmemb \in Nat
    BY DEF ArrayTypes
  <2>2. i - 1 \in 0 .. nmemb - 1
    BY <2>1
  <2> QED
    BY <1>1, <1>2, <2>2
<1> QED
  BY <1>1, <1>2, <1>3, SeqEqual

LEMMA FirstAlone ==
    ASSUME NEW E, NEW s \in Seq(E), 1 \in 1 .. Len(s)
    PROVE  SubSeq(s, 1, 1) = <<s[1]>>
PROOF
<1>1. s[1] \in E
  BY LenProperties
<1>2. /\ SubSeq(s, 1, 1) \in Seq(E) /\ Len(SubSeq(s, 1, 1)) = 1
      /\ \A i \in 1 .. 1 : SubSeq(s, 1, 1)[i] = s[i]
  <2>1. \A i \in 1 .. 1 : s[i] \in E
    BY <1>1
  <2> QED
    BY <2>1, SubSeqProperties
<1>3. <<s[1]>> \in Seq(E) /\ Len(<<s[1]>>) = 1 /\ <<s[1]>>[1] = s[1]
  BY <1>1
<1>4. \A i \in 1 .. Len(SubSeq(s, 1, 1)) : SubSeq(s, 1, 1)[i] = <<s[1]>>[i]
  BY <1>2, <1>3
<1> QED
  BY <1>2, <1>3, <1>4, SeqEqual

LEMMA IsAppended ==
    ASSUME NEW E, NEW s \in Seq(E), NEW t \in Seq(E), NEW v \in E, Len(t) = Len(s) + 1,
           \A i \in 1 .. Len(s) : t[i] = s[i], t[Len(s) + 1] = v
    PROVE  t = s \o SubSeq(<<v>>, 1, 1)
PROOF
<1>1. Len(s) \in Nat
  BY LenProperties
<1>2. SubSeq(<<v>>, 1, 1) = <<v>> /\ <<v>> \in Seq(E) /\ Len(<<v>>) = 1
  <2>1. <<v>> \in Seq(E) /\ Len(<<v>>) = 1 /\ <<v>>[1] = v
    OBVIOUS
  <2> DEFINE one == <<v>>
  <2>2. SubSeq(one, 1, 1) = <<one[1]>>
    <3>1. one \in Seq(E) /\ 1 \in 1 .. Len(one)
      BY <2>1
    <3> HIDE DEF one
    <3> QED
      BY <3>1, FirstAlone
  <2> QED
    BY <2>1, <2>2
<1>3. /\ s \o <<v>> \in Seq(E) /\ Len(s \o <<v>>) = Len(s) + 1
      /\ \A i \in 1 .. Len(s) + 1 :
           (s \o <<v>>)[i] = IF i <= Len(s) THEN s[i] ELSE <<v>>[i - Len(s)]
  BY <1>1, <1>2, ConcatProperties
<1>4. \A i \in 1 .. Len(t) : t[i] = (s \o <<v>>)[i]
  BY <1>1, <1>3
<1> QED
  BY <1>2, <1>3, <1>4, SeqEqual

LEMMA IsRest ==
    ASSUME NEW E, NEW s \in Seq(E), NEW t \in Seq(E), Len(s) = Len(t) + 1,
           \A i \in 1 .. Len(t) : t[i] = s[i + 1]
    PROVE  t = SubSeq(s, 2, Len(s))
PROOF
<1>1. Len(s) \in Nat /\ Len(t) \in Nat
  BY LenProperties
<1>2. /\ SubSeq(s, 2, Len(s)) \in Seq(E) /\ Len(SubSeq(s, 2, Len(s))) = Len(t)
      /\ \A i \in 1 .. Len(t) : SubSeq(s, 2, Len(s))[i] = s[i + 1]
  <2>1. 2 \in 1 .. Len(s) + 1 /\ Len(s) \in 2 - 1 .. Len(s)
    BY <1>1
  <2> QED
    BY <1>1, <2>1, SubSeqProperties
<1> QED
  BY <1>2, SeqEqual

LEMMA WriterStep ==
    ASSUME ArrayInv, ArrayInv', Proper, Proper',
           (\E v \in Entries : WriteReady(v)) \/ Fill \/ WriteFinish \/ WriteLoad \/ WriteStore
    PROVE  Queue!FifoNext \/ UNCHANGED <<Filled, size, item, consumed>>
PROOF
<1>0. /\ ArrayTypes /\ WriterHolds /\ ReaderHolds /\ OneMoves
      /\ ArrayTypes' /\ WriterHolds'
      /\ size \in Nat \ {0} /\ nmemb \in 0 .. size
  BY DEF ArrayInv, ArrayTypes
<1>1. UNCHANGED <<size, rindex, reading, consumed>>
  BY DEF WriteReady, Fill, WriteFinish, WriteLoad, WriteStore, slotVars, indexVars, rVars
<1>2. Begin' = Begin /\ \A i : Place(i)' = Place(i)
  BY <1>1, PlacesStay
<1>3. ASSUME NEW v \in Entries, WriteReady(v)
      PROVE  Queue!Ask
  <2>1. item' = <<v>> /\ UNCHANGED <<slots, nmemb>>
    BY <1>3 DEF WriteReady, slotVars, indexVars
  <2>2. Filled' = Filled
    BY <1>0, <1>2, <2>1, FilledStays
  <2> QED
    BY <1>1, <2>1, <2>2 DEF Queue!Ask
<1>4. CASE Fill
  <2>1. slots' = [slots EXCEPT ![wresult] = item[1]] /\ UNCHANGED <<nmemb, item>> /\ writing = "ready"
    BY <1>4 DEF Fill, indexVars
  <2>2. \A i \in 0 .. nmemb - 1 : slots'[Place(i)'] = slots[Place(i)]
    <3> SUFFICES ASSUME NEW i \in 0 .. nmemb - 1 PROVE slots'[Place(i)] = slots[Place(i)]
      BY <1>2
    <3>1. wresult = Place(nmemb) /\ nmemb \in 0 .. size - 1 /\ i \in 0 .. size - 1 /\ i # nmemb
          /\ i \in 0 .. size
      BY <1>0, <2>1 DEF WriterHolds
    <3>2. Place(i) # wresult
      BY <1>0, <3>1, PlacesDiffer
    <3>3. Place(i) \in 0 .. size - 1
      BY <1>0, <3>1, PlaceIs
    <3> QED
      BY <1>0, <2>1, <3>2, <3>3 DEF ArrayTypes
  <2> QED
    BY <1>0, <1>1, <2>1, <2>2, FilledStays
<1>5. CASE WriteFinish \/ WriteLoad
  <2>1. UNCHANGED <<slots, nmemb, item>>
    BY <1>5 DEF WriteFinish, WriteLoad, slotVars, indexVars
  <2>2. Filled' = Filled
    BY <1>0, <1>2, <2>1, FilledStays
  <2> QED
    BY <1>1, <2>1, <2>2
<1>6. CASE WriteStore
  <2>1. /\ writing = "store" /\ nmemb' = wcount + 1 /\ item' = <<>> /\ UNCHANGED slots
    BY <1>6 DEF WriteStore, slotVars
  <2>2. PICK v \in Entries : item = <<v>>
    BY <1>0, <2>1 DEF WriterHolds
  <2>3. /\ nmemb' = nmemb + 1 /\ nmemb < size /\ slots[Place(nmemb)] = v
    BY <1>0, <2>1, <2>2 DEF WriterHolds
  <2>4. /\ Filled \in Seq(Entries \cup {Unfilled}) /\ Len(Filled) = nmemb
        /\ \A i \in 1 .. nmemb : Filled[i] = slots[Place(i - 1)]
    BY <1>0, FilledIs DEF FilledFacts
  <2>5. /\ Filled' \in Seq(Entries \cup {Unfilled}) /\ Len(Filled') = nmemb'
        /\ \A i \in 1 .. nmemb' : Filled'[i] = slots'[Place(i - 1)']
    BY <1>0, FilledWillBe DEF FilledFacts
  <2>6. \A i \in 1 .. nmemb + 1 : Filled'[i] = slots[Place(i - 1)]
    BY <1>2, <2>1, <2>3, <2>5
  <2>7. Filled' = Filled \o SubSeq(<<v>>, 1, 1)
    <3>1. /\ nmemb \in Nat /\ nmemb + 1 \in 1 .. nmemb + 1 /\ nmemb + 1 - 1 = nmemb
          /\ \A i \in 1 .. nmemb : i \in 1 .. nmemb + 1
      BY <1>0
    <3>2. Filled'[nmemb + 1] = v
      BY <2>3, <2>6, <3>1
    <3>3. \A i \in 1 .. nmemb : Filled'[i] = Filled[i]
      BY <2>4, <2>6, <3>1
    <3>4. Len(Filled') = Len(Filled) + 1
      BY <2>3, <2>4, <2>5
    <3>5. v \in Entries \cup {Unfilled}
      OBVIOUS
    <3> QED
      BY <2>4, <2>5, <3>2, <3>3, <3>4, <3>5, IsAppended
  <2>8. 1 \in 1 .. Len(item) /\ Len(Filled) + 1 <= size
    BY <1>0, <2>2, <2>3, <2>4
  <2>9. item' \in Seq(Entries)
    BY <2>1
  <2> QED
    BY <1>1, <2>2, <2>7, <2>8, <2>9 DEF Queue!FifoNext, Queue!Enqueue
<1> QED
  BY <1>3, <1>4, <1>5, <1>6 DEF Queue!FifoNext

LEMMA ReaderStep ==
    ASSUME ArrayInv, ArrayInv', Proper, Proper',
           ReadReady \/ Read \/ ReadFinish \/ ReadLoad \/ ReadStore
    PROVE  Queue!FifoNext \/ UNCHANGED <<Filled, size, item, consumed>>
PROOF
<1>0. /\ ArrayTypes /\ WriterHolds /\ ReaderHolds /\ OneMoves /\ ArrayTypes'
      /\ size \in Nat \ {0} /\ nmemb \in 0 .. size
  BY DEF ArrayInv, ArrayTypes
<1>1. UNCHANGED <<slots, size, item>>
  BY DEF ReadReady, Read, ReadFinish, ReadLoad, ReadStore, slotVars, indexVars, wVars
<1>2. CASE ReadReady \/ Read \/ ReadLoad
  <2>1. UNCHANGED <<rindex, nmemb, consumed>> /\ (reading' \in {"load", "store"} <=> reading \in {"load", "store"})
    BY <1>2 DEF ReadReady, Read, ReadLoad, indexVars
  <2>2. \A i : Place(i)' = Place(i)
    BY <1>1, <2>1, PlacesStay
  <2>3. Filled' = Filled
    BY <1>0, <1>1, <2>1, <2>2, FilledStays
  <2> QED
    BY <1>1, <2>1, <2>3
<1>3. CASE ReadFinish
  <2>0. rresult \in 0 .. size - 1
    <3>1. 0 \in 0 .. size
      BY <1>0
    <3> QED
      BY <1>0, <1>3, <3>1, PlaceIs DEF ReadFinish, ReaderHolds
  <2>1. /\ reading = "read" /\ rindex' = (rindex + 1) % size /\ reading' = "load"
        /\ UNCHANGED <<nmemb, consumed>>
    <3>1. Passed > 0 /\ ~(Passed <= 0)
      BY <2>0 DEF Passed, Proper
    <3> QED
      BY <1>3, <3>1 DEF ReadFinish
  <2>2. \A i \in 0 .. size : Place(i)' = Place(i)
    BY <1>0, <1>1, <2>1, PlacesMoved
  <2>3. \A i \in 0 .. nmemb - 1 : slots'[Place(i)'] = slots[Place(i)]
    BY <1>0, <1>1, <2>2
  <2>4. Filled' = Filled
    BY <1>0, <2>1, <2>3, FilledStays
  <2> QED
    BY <1>1, <2>1, <2>4
<1>4. CASE ReadStore
  <2>1. /\ reading = "store" /\ reading' = "out" /\ nmemb' = rcount - 1 /\ UNCHANGED rindex
        /\ consumed' = taken
    BY <1>4 DEF ReadStore
  <2>2. /\ nmemb' = nmemb - 1 /\ nmemb > 0 /\ taken = <<slots[Place(0)]>>
    BY <1>0, <2>1 DEF ReaderHolds
  <2>3. \A i \in Int : Place(i)' = Place(i + 1)
    BY <1>0, <1>1, <2>1, PlacesAdvance
  <2>4. /\ Filled \in Seq(Entries \cup {Unfilled}) /\ Len(Filled) = nmemb
        /\ \A i \in 1 .. nmemb : Filled[i] = slots[Place(i - 1)]
    BY <1>0, FilledIs DEF FilledFacts
  <2>5. /\ Filled' \in Seq(Entries \cup {Unfilled}) /\ Len(Filled') = nmemb'
        /\ \A i \in 1 .. nmemb' : Filled'[i] = slots'[Place(i - 1)']
    BY <1>0, FilledWillBe DEF FilledFacts
  <2>6. \A i \in 1 .. nmemb - 1 : Filled'[i] = Filled[i + 1]
    <3> SUFFICES ASSUME NEW i \in 1 .. nmemb - 1 PROVE Filled'[i] = Filled[i + 1]
      OBVIOUS
    <3>1. i \in 1 .. nmemb' /\ i + 1 \in 1 .. nmemb /\ i - 1 \in Int /\ i - 1 + 1 = i /\ i + 1 - 1 = i
      BY <1>0, <2>2
    <3>2. Filled'[i] = slots[Place(i - 1)']
      BY <1>1, <2>5, <3>1
    <3>3. Place(i - 1)' = Place(i)
      BY <2>3, <3>1
    <3> QED
      BY <2>4, <3>1, <3>2, <3>3
  <2>7. Filled' = SubSeq(Filled, 2, Len(Filled))
    <3>1. Len(Filled) = Len(Filled') + 1 /\ Len(Filled') = nmemb - 1
      BY <1>0, <2>2, <2>4, <2>5
    <3> QED
      BY <2>4, <2>5, <2>6, <3>1, IsRest
  <2>8. consumed' = SubSeq(Filled, 1, 1)
    <3>1. 1 \in 1 .. Len(Filled) /\ 1 \in 1 .. nmemb
      BY <1>0, <2>2, <2>4
    <3>2. Filled[1] = slots[Place(0)]
      BY <2>4, <3>1
    <3>3. SubSeq(Filled, 1, 1) = <<Filled[1]>>
      BY <2>4, <3>1, FirstAlone
    <3> QED
      BY <2>1, <2>2, <3>2, <3>3
  <2>9. 1 \in 1 .. Len(Filled)
    BY <1>0, <2>2, <2>4
  <2> QED
    BY <1>1, <2>7, <2>8, <2>9 DEF Queue!FifoNext, Queue!Dequeue
<1> QED
  BY <1>2, <1>3, <1>4
(* The ring array is a queue for every program that locks its calls and    *)
(* passes readFinish a positive number: whatever the capacity and the      *)
(* interleaving, what was written is read once and in its order, and no    *)
(* slot is filled before it was read (src/ringarray.c:48-81).              *)
THEOREM RingArrayIsQueue == RASpec => ArrayIsFifo
PROOF
<1>1. RAInit => ArrayInv /\ Queue!FifoInit
  <2> SUFFICES ASSUME RAInit PROVE ArrayInv /\ Queue!FifoInit
    OBVIOUS
  <2>1. /\ size \in Nat \ {0} /\ slots = [i \in 0 .. size - 1 |-> Unfilled]
        /\ rindex = 0 /\ windex = 0 /\ nmemb = 0 /\ writing = "out" /\ reading = "out"
        /\ item = <<>> /\ consumed = <<>>
    BY SizesArePositive DEF RAInit
  <2>2. ArrayTypes
    BY <2>1 DEF ArrayTypes
  <2>3. Place(0) = 0
    <3>1. 0 \in 0 .. size /\ Begin = 0
      BY <2>1 DEF Begin
    <3> QED
      BY <2>1, <2>2, <3>1, PlaceIs
  <2>4. Filled = <<>>
    BY <2>2, <2>1, FilledIs, EmptySeq DEF FilledFacts
  <2>5. ArrayInv
    BY <2>1, <2>2, <2>3 DEF ArrayInv, OneMoves, WriterHolds, ReaderHolds
  <2> QED
    BY <2>1, <2>4, <2>5 DEF Queue!FifoInit
<1>2. ArrayInv /\ [RANext]_raVars => ArrayInv'
  <2> SUFFICES ASSUME ArrayInv, [RANext]_raVars, Proper' PROVE ArrayInv'
    BY DEF ArrayInv
  <2>1. habit' = habit /\ Proper
    BY DEF Proper, RANext, Retry, WriteReady, Fill, WriteFinish, WriteLoad, WriteStore, ReadReady,
           Read, ReadFinish, ReadLoad, ReadStore, raVars, slotVars
  <2>2. CASE UNCHANGED raVars
    BY <2>2 DEF ArrayInv, Proper, ArrayTypes, OneMoves, WriterHolds, ReaderHolds, Place, Begin,
                raVars, slotVars, indexVars, wVars, rVars
  <2>3. CASE RANext
    BY <2>1, <2>2, <2>3, WriterKeeps, ReaderKeeps DEF RANext, Retry
  <2> QED
    BY <2>2, <2>3
<1>3. ArrayInv /\ ArrayInv' /\ [RANext]_raVars =>
        [habit = {"lock", "positive"} => Queue!FifoNext]_<<Filled, size, item, consumed>>
  <2> SUFFICES ASSUME ArrayInv, ArrayInv', [RANext]_raVars, Proper
               PROVE  Queue!FifoNext \/ UNCHANGED <<Filled, size, item, consumed>>
    BY DEF Proper
  <2>1. CASE UNCHANGED raVars
    BY <2>1 DEF Filled, raVars, slotVars, indexVars, wVars, rVars
  <2>2. CASE RANext
    <3>1. Proper'
      BY <2>2 DEF Proper, RANext, Retry, WriteReady, Fill, WriteFinish, WriteLoad, WriteStore,
                  ReadReady, Read, ReadFinish, ReadLoad, ReadStore, raVars, slotVars
    <3> QED
      BY <2>1, <2>2, <3>1, WriterStep, ReaderStep DEF RANext, Retry
  <2> QED
    BY <2>1, <2>2
<1> QED
  BY <1>1, <1>2, <1>3, PTL DEF RASpec, ArrayIsFifo
-----------------------------------------------------------------------------
(* The ring buffer: where the byte k places after the first stored one is. *)

At(k) == (out + k) % capacity

RingTypes ==
    /\ use \in Uses
    /\ capacity \in Capacities /\ buffer \in [0 .. capacity - 1 -> Bytes]
    /\ in \in 0 .. Wrap - 1 /\ out \in 0 .. Wrap - 1
    /\ putting \in Places /\ getting \in Places
    /\ data \in Seq(Values) /\ room \in Nat
    /\ putSize \in Nat /\ getSize \in Nat
    /\ copied \in Seq(Bytes)

(* A program with a lock is in one call at a time.                         *)
OneInside == use.locked => putting = "out" \/ getting = "out"

(* What the writer will move over is free, and filled once it has copied.  *)
PutHolds ==
    /\ putting = "reload" => use.twice /\ Free <= Len(data)
    /\ putting \in {"copy", "move"} => putSize <= Free /\ putSize <= Len(data)
    /\ putting = "move" => \A i \in 0 .. putSize - 1 : buffer[At(Stored + i)] = data[i + 1]

(* What the reader will move over is stored, and is what it has copied.    *)
GetHolds ==
    /\ getting = "reload" => use.twice /\ Stored <= room
    /\ getting \in {"copy", "move"} => getSize <= Stored /\ getSize <= room
    /\ getting = "move" => /\ Len(copied) = getSize
                           /\ \A i \in 1 .. getSize : copied[i] = buffer[At(i - 1)]

RingInv == RingTypes /\ Stored <= capacity /\ OneInside /\ PutHolds /\ GetHolds

LEMMA Turned ==
    ASSUME NEW n \in Nat \ {0}, NEW x \in Int, NEW i \in 0 .. n
    PROVE  (x + i) % n = IF (x % n) + i < n THEN (x % n) + i ELSE (x % n) + i - n
PROOF
<1> DEFINE q == x \div n
           r == x % n
<1>1. r \in 0 .. n - 1 /\ q \in Int /\ x = n * q + r
  BY Quotient
<1> HIDE DEF q, r
<1>2. CASE r + i < n
  <2>1. (n * q + (r + i)) % n = r + i
    BY <1>1, <1>2, Remainder
  <2>2. x + i = n * q + (r + i)
    BY <1>1
  <2> QED
    BY <1>2, <2>1, <2>2 DEF r
<1>3. CASE ~(r + i < n)
  <2> DEFINE p == q + 1
             s == r + i - n
  <2>1. s \in Int /\ 0 <= s /\ s < n /\ p \in Int
    BY <1>1, <1>3
  <2>2. x + i = n * p + s
    BY <1>1
  <2>3. (n * p + s) % n = s
    <3> HIDE DEF p, s
    <3> QED
      BY <2>1, Remainder
  <2> QED
    BY <1>3, <2>2, <2>3 DEF r
<1> QED
  BY <1>2, <1>3

(* An index that is one width less is at the same place.                   *)
LEMMA WholeTurns ==
    ASSUME NEW n \in Nat \ {0}, NEW w \in Nat, w % n = 0, NEW x \in Int
    PROVE  (x - w) % n = x % n
PROOF
<1> DEFINE q == x \div n
           r == x % n
           p == w \div n
<1>1. r \in 0 .. n - 1 /\ q \in Int /\ x = n * q + r
  BY Quotient
<1>2. p \in Int /\ w = n * p
  BY Quotient
<1> HIDE DEF q, r, p
<1>3. (n * (q - p) + r) % n = r
  BY <1>1, <1>2, Remainder
<1>4. x - w = n * (q - p) + r
  BY <1>1, <1>2
<1> QED
  BY <1>3, <1>4 DEF r

LEMMA Capacity ==
    ASSUME RingTypes
    PROVE  /\ capacity \in Nat \ {0} /\ Wrap \in Nat \ {0} /\ capacity < Wrap /\ Wrap % capacity = 0
           /\ in \in 0 .. Wrap - 1 /\ out \in 0 .. Wrap - 1
PROOF
<1>1. capacity \in {c \in Nat : c > 0 /\ c < Wrap /\ Wrap % c = 0}
  BY CapacitiesDivide DEF RingTypes
<1>2. Wrap \in Nat
  BY CapacitiesDivide, WrapIsNumber
<1> QED
  BY <1>1, <1>2 DEF RingTypes
LEMMA StoredAndFree ==
    ASSUME RingTypes, Stored <= capacity
    PROVE  /\ Stored \in 0 .. capacity
           /\ Stored = IF in >= out THEN in - out ELSE in - out + Wrap
           /\ Free = capacity - Stored /\ Free \in 0 .. capacity
PROOF
<1>1. /\ capacity \in Nat \ {0} /\ Wrap \in Nat \ {0} /\ capacity < Wrap
      /\ in \in 0 .. Wrap - 1 /\ out \in 0 .. Wrap - 1
  BY Capacity
<1>2. Stored = IF in >= out THEN in - out ELSE in - out + Wrap
  <2> DEFINE x == in - out
  <2>1. x \in Int /\ -Wrap <= x /\ x < Wrap
    BY <1>1
  <2>2. x % Wrap = IF x >= 0 THEN x ELSE x + Wrap
    <3> HIDE DEF x
    <3> QED
      BY <1>1, <2>1, ModNear, ModFar
  <2> QED
    BY <1>1, <2>2 DEF Stored
<1>3. Free = capacity - Stored
  <2> DEFINE x == capacity - in + out
  <2>1. x \in Int /\ 0 <= x /\ x < 2 * Wrap /\ x = IF in >= out THEN capacity - Stored
                                                   ELSE capacity - Stored + Wrap
    BY <1>1, <1>2
  <2>2. x % Wrap = IF x < Wrap THEN x ELSE x - Wrap
    <3> HIDE DEF x
    <3> QED
      BY <1>1, <2>1, ModNear, ModFar
  <2> QED
    BY <1>1, <1>2, <2>1, <2>2 DEF Free
<1> QED
  BY <1>1, <1>2, <1>3

FreeIsRest == RingTypes /\ Stored <= capacity => Free = capacity - Stored

LEMMA FreeWillBe == FreeIsRest'
PROOF
<1>1. FreeIsRest
  BY StoredAndFree DEF FreeIsRest
<1> QED
  BY <1>1, PTL

(* As many places as the capacity are all different ones.                  *)
LEMMA PlacesAtDiffer ==
    ASSUME RingTypes, NEW j \in 0 .. capacity - 1, NEW k \in 0 .. capacity - 1
    PROVE  /\ At(j) \in 0 .. capacity - 1
           /\ j # k => At(j) # At(k)
PROOF
<1>1. capacity \in Nat \ {0} /\ out \in Int /\ j \in 0 .. capacity /\ k \in 0 .. capacity
  BY Capacity
<1>2. out % capacity \in 0 .. capacity - 1
  BY <1>1, ModIs
<1>3. /\ At(j) = IF (out % capacity) + j < capacity THEN (out % capacity) + j
                 ELSE (out % capacity) + j - capacity
      /\ At(k) = IF (out % capacity) + k < capacity THEN (out % capacity) + k
                 ELSE (out % capacity) + k - capacity
  BY <1>1, Turned DEF At
<1> DEFINE r == out % capacity
<1> HIDE DEF r
<1>4. r \in 0 .. capacity - 1
  BY <1>2 DEF r
<1>5. /\ At(j) = IF r + j < capacity THEN r + j ELSE r + j - capacity
      /\ At(k) = IF r + k < capacity THEN r + k ELSE r + k - capacity
  BY <1>3 DEF r
<1> QED
  BY <1>1, <1>4, <1>5

(* A copy that begins at an index has its bytes at the next places.        *)
LEMMA SlotIs ==
    ASSUME RingTypes, NEW x \in Int, NEW i \in 0 .. capacity - 1
    PROVE  Slot(x, i) = (x + i) % capacity
PROOF
<1>1. capacity \in Nat \ {0} /\ i \in 0 .. capacity
  BY Capacity
<1> DEFINE r == x % capacity
<1>2. r \in 0 .. capacity - 1
  BY <1>1, ModIs
<1>3. (x + i) % capacity = IF r + i < capacity THEN r + i ELSE r + i - capacity
  BY <1>1, Turned
<1>4. Slot(x, i) = IF i < capacity - r THEN r + i ELSE i - (capacity - r)
  BY DEF Slot
<1> HIDE DEF r
<1> QED
  BY <1>1, <1>2, <1>3, <1>4

(* The write index is as many places on as bytes are stored.               *)
LEMMA InIs ==
    ASSUME RingTypes, Stored <= capacity, NEW i \in 0 .. capacity - 1
    PROVE  (in + i) % capacity = At(Stored + i)
PROOF
<1>1. /\ capacity \in Nat \ {0} /\ Wrap \in Nat /\ Wrap % capacity = 0
      /\ in \in Int /\ out \in Int /\ i \in Int
  BY Capacity
<1>2. Stored = IF in >= out THEN in - out ELSE in - out + Wrap
  BY StoredAndFree
<1>3. CASE in >= out
  <2>1. out + (Stored + i) = in + i
    BY <1>1, <1>2, <1>3
  <2> QED
    BY <2>1 DEF At
<1>4. CASE ~(in >= out)
  <2> DEFINE x == out + (Stored + i)
  <2>1. x \in Int /\ x - Wrap = in + i
    BY <1>1, <1>2, <1>4
  <2>2. (x - Wrap) % capacity = x % capacity
    <3> HIDE DEF x
    <3> QED
      BY <1>1, <2>1, WholeTurns
  <2> QED
    BY <2>1, <2>2 DEF At
<1> QED
  BY <1>3, <1>4

(* The write index moves over what was free.                               *)
LEMMA PutMoves ==
    ASSUME RingTypes, Stored <= capacity, NEW n \in Nat, n <= Free,
           in' = (in + n) % Wrap, UNCHANGED <<out, capacity>>
    PROVE  /\ in' \in 0 .. Wrap - 1
           /\ Stored' = Stored + n
           /\ \A k : At(k)' = At(k)
PROOF
<1>1. /\ capacity \in Nat \ {0} /\ Wrap \in Nat \ {0} /\ capacity < Wrap
      /\ in \in 0 .. Wrap - 1 /\ out \in 0 .. Wrap - 1
  BY Capacity
<1>2. /\ Stored = IF in >= out THEN in - out ELSE in - out + Wrap
      /\ Free = capacity - Stored
  BY StoredAndFree
<1>3. in' = IF in + n < Wrap THEN in + n ELSE in + n - Wrap
  <2> DEFINE x == in + n
  <2>1. x \in Int /\ 0 <= x /\ x < 2 * Wrap
    BY <1>1, <1>2
  <2>2. x % Wrap = IF x < Wrap THEN x ELSE x - Wrap
    <3> HIDE DEF x
    <3> QED
      BY <1>1, <2>1, ModFar
  <2> QED
    BY <1>1, <2>2
<1>4. Stored' = IF in' >= out THEN in' - out ELSE in' - out + Wrap
  <2> DEFINE x == in' - out
  <2>1. x \in Int /\ -Wrap <= x /\ x < Wrap
    BY <1>1, <1>2, <1>3
  <2>2. x % Wrap = IF x >= 0 THEN x ELSE x + Wrap
    <3> HIDE DEF x
    <3> QED
      BY <1>1, <2>1, ModNear, ModFar
  <2>3. Stored' = x % Wrap
    BY DEF Stored
  <2> QED
    BY <1>1, <1>3, <2>2, <2>3
<1>5. \A k : At(k)' = At(k)
  BY DEF At
<1> QED
  BY <1>1, <1>2, <1>3, <1>4, <1>5

(* The read index moves over what was stored.                              *)
LEMMA GetMoves ==
    ASSUME RingTypes, Stored <= capacity, NEW n \in Nat, n <= Stored,
           out' = (out + n) % Wrap, UNCHANGED <<in, capacity>>
    PROVE  /\ out' \in 0 .. Wrap - 1
           /\ Stored' = Stored - n
           /\ \A k \in Int : At(k)' = At(n + k)
PROOF
<1>1. /\ capacity \in Nat \ {0} /\ Wrap \in Nat \ {0} /\ capacity < Wrap
      /\ in \in 0 .. Wrap - 1 /\ out \in 0 .. Wrap - 1 /\ Wrap % capacity = 0
  BY Capacity
<1>2. Stored = IF in >= out THEN in - out ELSE in - out + Wrap
  BY StoredAndFree
<1>3. out' = IF out + n < Wrap THEN out + n ELSE out + n - Wrap
  <2> DEFINE x == out + n
  <2>1. x \in Int /\ 0 <= x /\ x < 2 * Wrap
    BY <1>1, <1>2
  <2>2. x % Wrap = IF x < Wrap THEN x ELSE x - Wrap
    <3> HIDE DEF x
    <3> QED
      BY <1>1, <2>1, ModFar
  <2> QED
    BY <1>1, <2>2
<1>4. Stored' = IF in >= out' THEN in - out' ELSE in - out' + Wrap
  <2> DEFINE x == in - out'
  <2>1. x \in Int /\ -Wrap <= x /\ x < Wrap
    BY <1>1, <1>2, <1>3
  <2>2. x % Wrap = IF x >= 0 THEN x ELSE x + Wrap
    <3> HIDE DEF x
    <3> QED
      BY <1>1, <2>1, ModNear, ModFar
  <2>3. Stored' = x % Wrap
    BY DEF Stored
  <2> QED
    BY <1>1, <1>3, <2>2, <2>3
<1>5. ASSUME NEW k \in Int
      PROVE  (out' + k) % capacity = At(n + k)
  <2> DEFINE x == out + (n + k)
  <2>1. x \in Int /\ (out' + k = x \/ out' + k = x - Wrap)
    BY <1>1, <1>3
  <2>2. (x - Wrap) % capacity = x % capacity
    <3> HIDE DEF x
    <3> QED
      BY <1>1, <2>1, WholeTurns
  <2> QED
    BY <2>1, <2>2 DEF At
<1>6. \A k \in Int : At(k)' = At(n + k)
  BY <1>5 DEF At
<1> QED
  BY <1>1, <1>2, <1>3, <1>4, <1>6

(* What a copy into the ring leaves: the bytes put are at the first free   *)
(* places, and those stored are what they were.                            *)
LEMMA CopyFills ==
    ASSUME RingTypes, Stored <= capacity, PutHolds, PutCopy
    PROVE  /\ buffer' \in [0 .. capacity - 1 -> Bytes]
           /\ \A i \in 0 .. putSize - 1 : buffer'[At(Stored + i)] = data[i + 1]
           /\ \A k \in 0 .. Stored - 1 : buffer'[At(k)] = buffer[At(k)]
PROOF
<1> DEFINE Here(s) == {i \in 0 .. putSize - 1 : Slot(in, i) = s}
           New(s) == IF Here(s) = {} THEN buffer[s]
                     ELSE Offered(CHOOSE i \in Here(s) : \A j \in Here(s) : j <= i)
<1>1. /\ capacity \in Nat \ {0} /\ in \in Int /\ putSize \in Nat
      /\ buffer \in [0 .. capacity - 1 -> Bytes] /\ data \in Seq(Values)
  BY Capacity DEF RingTypes
<1>2. Stored \in Nat /\ Stored + putSize <= capacity /\ putSize <= Len(data) /\ Len(data) \in Nat
  BY <1>1, StoredAndFree, LenProperties DEF PutHolds, PutCopy
<1>3. DOMAIN buffer = 0 .. capacity - 1 /\ buffer' = [s \in 0 .. capacity - 1 |-> New(s)]
  BY <1>1 DEF PutCopy
<1>4. \A i \in 0 .. putSize - 1 : Slot(in, i) = At(Stored + i)
  <2> SUFFICES ASSUME NEW i \in 0 .. putSize - 1 PROVE Slot(in, i) = At(Stored + i)
    OBVIOUS
  <2>1. i \in 0 .. capacity - 1
    BY <1>1, <1>2
  <2> QED
    BY <1>1, <2>1, SlotIs, InIs
<1>5. \A i \in 0 .. putSize - 1 : data[i + 1] \in Values /\ Offered(i) = data[i + 1]
  <2> SUFFICES ASSUME NEW i \in 0 .. putSize - 1
               PROVE  data[i + 1] \in Values /\ Offered(i) = data[i + 1]
    OBVIOUS
  <2>1. i + 1 \in 1 .. Len(data) /\ i < Len(data)
    BY <1>1, <1>2
  <2> QED
    BY <1>1, <2>1, LenProperties DEF Offered
<1>6. ASSUME NEW i \in 0 .. putSize - 1
      PROVE  New(At(Stored + i)) = data[i + 1]
  <2>1. Here(At(Stored + i)) = {i}
    <3>1. i \in Here(At(Stored + i))
      BY <1>4
    <3>2. ASSUME NEW j \in 0 .. putSize - 1, j # i
          PROVE  At(Stored + j) # At(Stored + i)
      <4>1. /\ Stored + i \in 0 .. capacity - 1 /\ Stored + j \in 0 .. capacity - 1
            /\ Stored + i # Stored + j
        BY <1>1, <1>2, <3>2
      <4> QED
        BY <4>1, PlacesAtDiffer
    <3> QED
      BY <1>4, <3>1, <3>2
  <2>2. (CHOOSE j \in {i} : \A k \in {i} : k <= j) = i
    <3>1. i \in Int /\ i <= i
      BY <1>1
    <3> QED
      BY <3>1
  <2>3. New(At(Stored + i)) = Offered(CHOOSE j \in {i} : \A k \in {i} : k <= j)
    BY <2>1
  <2> QED
    BY <1>5, <2>2, <2>3
<1>7. ASSUME NEW k \in 0 .. Stored - 1
      PROVE  New(At(k)) = buffer[At(k)]
  <2>1. ASSUME NEW i \in 0 .. putSize - 1
        PROVE  At(Stored + i) # At(k)
    <3>1. k \in 0 .. capacity - 1 /\ Stored + i \in 0 .. capacity - 1 /\ k # Stored + i
      BY <1>1, <1>2
    <3> QED
      BY <3>1, PlacesAtDiffer
  <2>2. Here(At(k)) = {}
    BY <1>4, <2>1
  <2> QED
    BY <2>2
<1>8. \A k \in 0 .. Stored - 1 : At(k) \in 0 .. capacity - 1
  <2> SUFFICES ASSUME NEW k \in 0 .. Stored - 1 PROVE At(k) \in 0 .. capacity - 1
    OBVIOUS
  <2>1. k \in 0 .. capacity - 1
    BY <1>1, <1>2
  <2> QED
    BY <2>1, PlacesAtDiffer
<1>9. \A i \in 0 .. putSize - 1 : At(Stored + i) \in 0 .. capacity - 1
  <2> SUFFICES ASSUME NEW i \in 0 .. putSize - 1 PROVE At(Stored + i) \in 0 .. capacity - 1
    OBVIOUS
  <2>1. Stored + i \in 0 .. capacity - 1
    BY <1>1, <1>2
  <2> QED
    BY <2>1, PlacesAtDiffer
<1>10. ASSUME NEW s \in 0 .. capacity - 1
       PROVE  New(s) \in Bytes
  <2>1. CASE Here(s) = {}
    BY <1>1, <2>1
  <2>2. CASE Here(s) # {}
    <3>1. PICK i \in 0 .. putSize - 1 : s = At(Stored + i)
      BY <1>4, <2>2
    <3>2. New(s) = data[i + 1]
      BY <1>6, <3>1
    <3> QED
      BY <1>5, <3>2 DEF Bytes
  <2> QED
    BY <2>1, <2>2
<1> HIDE DEF New
<1> QED
  BY <1>3, <1>6, <1>7, <1>8, <1>9, <1>10

LEMMA RingWriterKeeps ==
    ASSUME RingInv, \A u \in Uses : u.twice => u.locked,
           (\E batch \in Batches : Put(batch)) \/ PutLimit \/ PutReload \/ PutCopy \/ PutMove
    PROVE  RingInv'
PROOF
<1>0. /\ RingTypes /\ Stored <= capacity /\ OneInside /\ PutHolds /\ GetHolds
      /\ capacity \in Nat \ {0} /\ Stored \in 0 .. capacity /\ Free = capacity - Stored
      /\ Len(data) \in Nat
      /\ use.twice => use.locked
  BY Capacity, StoredAndFree, LenProperties DEF RingInv, RingTypes
<1>1. UNCHANGED <<use, capacity, out, getting, room, getSize, copied, delivered>>
  BY DEF Put, PutLimit, PutReload, PutCopy, PutMove, ringVars, readerVars
<1>2. \A k : At(k)' = At(k)
  BY <1>1 DEF At
<1>3. UNCHANGED in => Stored' = Stored /\ Free' = Free
  BY <1>1 DEF Stored, Free
<1>4. ASSUME NEW batch \in Batches, Put(batch)
      PROVE  RingInv'
  <2>1. batch \in Seq(Values)
    <3>1. PICK n \in 0 .. MaxBatch : batch \in [1 .. n -> Values]
      BY <1>4 DEF Batches
    <3> QED
      BY <3>1, BatchIsNumber
  <2>2. /\ use.locked => getting = "out"
        /\ putting' = "limit" /\ data' = batch /\ UNCHANGED <<buffer, in, putSize>>
    BY <1>4 DEF Put, ringVars
  <2>3. RingTypes'
    BY <1>0, <1>1, <2>1, <2>2 DEF RingTypes, Places
  <2> QED
    BY <1>0, <1>1, <1>2, <1>3, <2>2, <2>3 DEF RingInv, OneInside, PutHolds, GetHolds
<1>5. CASE PutLimit
  <2>1. /\ putting = "limit" /\ UNCHANGED <<buffer, in, data>>
        /\ \/ Len(data) < Free /\ putSize' = Len(data) /\ putting' = "copy"
           \/ /\ ~(Len(data) < Free) /\ putSize' = Free
              /\ putting' = "copy" \/ (putting' = "reload" /\ use.twice)
    BY <1>5 DEF PutLimit, ringVars
  <2>2. putSize' \in Nat /\ putSize' <= Free /\ putSize' <= Len(data)
    BY <1>0, <2>1
  <2>3. RingTypes'
    BY <1>0, <1>1, <2>1, <2>2 DEF RingTypes, Places
  <2>4. PutHolds'
    BY <1>0, <1>1, <1>3, <2>1, <2>2 DEF PutHolds
  <2> QED
    BY <1>0, <1>1, <1>2, <1>3, <2>1, <2>3, <2>4 DEF RingInv, OneInside, GetHolds
<1>6. CASE PutReload
  <2>1. /\ putting = "reload" /\ putSize' = Free /\ putting' = "copy" /\ UNCHANGED <<buffer, in, data>>
    BY <1>6 DEF PutReload, ringVars
  <2>2. putSize' \in Nat /\ putSize' <= Free /\ putSize' <= Len(data)
    BY <1>0, <2>1 DEF PutHolds
  <2>3. RingTypes'
    BY <1>0, <1>1, <2>1, <2>2 DEF RingTypes, Places
  <2>4. PutHolds'
    BY <1>0, <1>1, <1>3, <2>1, <2>2 DEF PutHolds
  <2> QED
    BY <1>0, <1>1, <1>2, <1>3, <2>1, <2>3, <2>4 DEF RingInv, OneInside, GetHolds
<1>7. CASE PutCopy
  <2>1. putting = "copy" /\ putting' = "move" /\ UNCHANGED <<in, data, putSize>>
    BY <1>7 DEF PutCopy
  <2>2. /\ buffer' \in [0 .. capacity - 1 -> Bytes]
        /\ \A i \in 0 .. putSize - 1 : buffer'[At(Stored + i)] = data[i + 1]
        /\ \A k \in 0 .. Stored - 1 : buffer'[At(k)] = buffer[At(k)]
    BY <1>0, <1>7, CopyFills
  <2>3. RingTypes'
    BY <1>0, <1>1, <2>1, <2>2 DEF RingTypes, Places
  <2>4. PutHolds'
    BY <1>0, <1>1, <1>2, <1>3, <2>1, <2>2 DEF PutHolds
  <2>5. GetHolds'
    <3>1. ASSUME getting = "move", NEW i \in 1 .. getSize
          PROVE  copied[i] = buffer'[At(i - 1)]
      <4>1. i - 1 \in 0 .. Stored - 1
        BY <1>0, <3>1 DEF GetHolds, RingTypes
      <4> QED
        BY <1>0, <2>2, <3>1, <4>1 DEF GetHolds
    <3> QED
      BY <1>0, <1>1, <1>2, <1>3, <2>1, <3>1 DEF GetHolds
  <2> QED
    BY <1>0, <1>1, <1>3, <2>1, <2>3, <2>4, <2>5 DEF RingInv, OneInside
<1>8. CASE PutMove
  <2>1. /\ putting = "move" /\ putting' = "out" /\ in' = (in + putSize) % Wrap
        /\ data' = <<>> /\ putSize' = 0 /\ UNCHANGED buffer
    BY <1>8 DEF PutMove
  <2>2. putSize \in Nat /\ putSize <= Free
    BY <1>0, <2>1 DEF PutHolds, RingTypes
  <2>3. in' \in 0 .. Wrap - 1 /\ Stored' = Stored + putSize
    BY <1>0, <1>1, <2>1, <2>2, PutMoves
  <2>4. RingTypes'
    BY <1>0, <1>1, <2>1, <2>3 DEF RingTypes, Places
  <2>5. GetHolds'
    BY <1>0, <1>1, <1>2, <2>1, <2>2, <2>3 DEF GetHolds, OneInside, RingTypes
  <2> QED
    BY <1>0, <1>1, <2>1, <2>2, <2>3, <2>4, <2>5 DEF RingInv, OneInside, PutHolds
<1> QED
  BY <1>4, <1>5, <1>6, <1>7, <1>8

LEMMA RingReaderKeeps ==
    ASSUME RingInv, \A u \in Uses : u.twice => u.locked,
           \/ (\E n \in 0 .. MaxBatch : Get(n)) \/ GetLimit \/ GetReload \/ GetCopy \/ GetMove
           \/ \E n \in 1 .. MaxBatch : MoveReadPosition(n)
    PROVE  RingInv'
PROOF
<1>0. /\ RingTypes /\ Stored <= capacity /\ OneInside /\ PutHolds /\ GetHolds
      /\ capacity \in Nat \ {0} /\ Stored \in 0 .. capacity /\ Free = capacity - Stored
      /\ use.twice => use.locked
  BY Capacity, StoredAndFree DEF RingInv, RingTypes
<1>1. UNCHANGED <<use, buffer, capacity, in, putting, data, putSize>>
  BY DEF Get, GetLimit, GetReload, GetCopy, GetMove, MoveReadPosition, ringVars, writerVars
<1>2. UNCHANGED out => Stored' = Stored /\ Free' = Free /\ \A k : At(k)' = At(k)
  BY <1>1 DEF Stored, Free, At
<1>3. ASSUME NEW n \in Nat, n <= Stored, out' = (out + n) % Wrap, getting' = "out",
             use.locked => putting = "out", room' \in Nat, getSize' \in Nat, copied' \in Seq(Bytes)
      PROVE  RingInv'
  <2>1. /\ out' \in 0 .. Wrap - 1 /\ Stored' = Stored - n
        /\ \A k \in Int : At(k)' = At(n + k)
    BY <1>0, <1>1, <1>3, GetMoves
  <2>2. RingTypes'
    BY <1>0, <1>1, <1>3, <2>1 DEF RingTypes, Places
  <2>3. Stored' <= capacity'
    BY <1>0, <1>1, <1>3, <2>1
  <2>4. PutHolds'
    <3>1. putting # "reload"
      BY <1>0, <1>3 DEF PutHolds
    <3>2. Free' = Free + n
      <4>1. Free' = capacity' - Stored'
        BY <2>2, <2>3, FreeWillBe DEF FreeIsRest
      <4> QED
        BY <1>0, <1>1, <2>1, <2>2, <2>3, <4>1
    <3>3. ASSUME putting = "move", NEW i \in 0 .. putSize - 1
          PROVE  buffer'[At(Stored + i)'] = data[i + 1]
      <4>1. Stored' + i \in Int /\ n + (Stored' + i) = Stored + i
        BY <1>0, <1>3, <2>1 DEF RingTypes
      <4>2. At(Stored + i)' = At(Stored + i)
        BY <2>1, <4>1 DEF At
      <4> QED
        BY <1>0, <1>1, <3>3, <4>2 DEF PutHolds
    <3> QED
      BY <1>0, <1>1, <1>3, <3>1, <3>2, <3>3 DEF PutHolds, RingTypes
  <2> QED
    BY <1>1, <1>3, <2>2, <2>3, <2>4 DEF RingInv, OneInside, GetHolds
<1>4. ASSUME NEW n \in 0 .. MaxBatch, Get(n)
      PROVE  RingInv'
  <2>1. /\ use.locked => putting = "out"
        /\ getting' = "limit" /\ room' = n /\ UNCHANGED <<out, getSize, copied>>
    BY <1>4 DEF Get, ringVars
  <2>2. n \in Nat
    BY <1>4, BatchIsNumber
  <2>3. RingTypes'
    BY <1>0, <1>1, <2>1, <2>2 DEF RingTypes, Places
  <2> QED
    BY <1>0, <1>1, <1>2, <2>1, <2>3 DEF RingInv, OneInside, PutHolds, GetHolds
<1>5. CASE GetLimit
  <2>1. /\ getting = "limit" /\ UNCHANGED <<out, room, copied>>
        /\ \/ room < Stored /\ getSize' = room /\ getting' = "copy"
           \/ /\ ~(room < Stored) /\ getSize' = Stored
              /\ getting' = "copy" \/ (getting' = "reload" /\ use.twice)
    BY <1>5 DEF GetLimit, ringVars
  <2>2. getSize' \in Nat /\ getSize' <= Stored /\ getSize' <= room
    BY <1>0, <2>1 DEF RingTypes
  <2>3. RingTypes'
    BY <1>0, <1>1, <2>1, <2>2 DEF RingTypes, Places
  <2>4. GetHolds'
    BY <1>0, <1>1, <1>2, <2>1, <2>2 DEF GetHolds, RingTypes
  <2> QED
    BY <1>0, <1>1, <1>2, <2>1, <2>3, <2>4 DEF RingInv, OneInside, PutHolds
<1>6. CASE GetReload
  <2>1. /\ getting = "reload" /\ getSize' = Stored /\ getting' = "copy" /\ UNCHANGED <<out, room, copied>>
    BY <1>6 DEF GetReload, ringVars
  <2>2. getSize' \in Nat /\ getSize' <= Stored /\ getSize' <= room
    BY <1>0, <2>1 DEF GetHolds
  <2>3. RingTypes'
    BY <1>0, <1>1, <2>1, <2>2 DEF RingTypes, Places
  <2>4. GetHolds'
    BY <1>0, <1>1, <1>2, <2>1, <2>2 DEF GetHolds
  <2> QED
    BY <1>0, <1>1, <1>2, <2>1, <2>3, <2>4 DEF RingInv, OneInside, PutHolds
<1>7. CASE GetCopy
  <2>1. /\ getting = "copy" /\ getting' = "move" /\ UNCHANGED <<out, room, getSize>>
        /\ copied' = [i \in 1 .. getSize |->
                        LET s == Slot(out, i - 1)
                        IN  IF s \in DOMAIN buffer THEN buffer[s] ELSE Junk]
    BY <1>7 DEF GetCopy, ringVars
  <2>2. getSize \in Nat /\ getSize <= Stored /\ getSize <= room /\ getSize <= capacity
    BY <1>0, <2>1 DEF GetHolds, RingTypes
  <2>3. \A i \in 1 .. getSize : At(i - 1) \in 0 .. capacity - 1 /\ Slot(out, i - 1) = At(i - 1)
    <3> SUFFICES ASSUME NEW i \in 1 .. getSize
                 PROVE  At(i - 1) \in 0 .. capacity - 1 /\ Slot(out, i - 1) = At(i - 1)
      OBVIOUS
    <3>1. i - 1 \in 0 .. capacity - 1 /\ out \in Int
      BY <1>0, <2>2, Capacity
    <3> QED
      BY <1>0, <3>1, PlacesAtDiffer, SlotIs DEF At
  <2>4. copied' = [i \in 1 .. getSize |-> buffer[At(i - 1)]]
    <3>1. DOMAIN buffer = 0 .. capacity - 1
      BY <1>0 DEF RingTypes
    <3> QED
      BY <2>1, <2>3, <3>1
  <2>5. copied' \in Seq(Bytes) /\ Len(copied') = getSize
    <3>1. \A i \in 1 .. getSize : buffer[At(i - 1)] \in Bytes
      BY <1>0, <2>3 DEF RingTypes
    <3> QED
      BY <2>2, <2>4, <3>1
  <2>6. \A i \in 1 .. getSize : copied'[i] = buffer[At(i - 1)]
    BY <2>4
  <2>7. RingTypes'
    BY <1>0, <1>1, <2>1, <2>5 DEF RingTypes, Places
  <2>8. GetHolds'
    BY <1>0, <1>1, <1>2, <2>1, <2>2, <2>5, <2>6 DEF GetHolds
  <2> QED
    BY <1>0, <1>1, <1>2, <2>1, <2>7, <2>8 DEF RingInv, OneInside, PutHolds
<1>8. CASE GetMove
  <2>1. /\ getting = "move" /\ getting' = "out" /\ out' = (out + getSize) % Wrap
        /\ copied' = <<>> /\ room' = 0 /\ getSize' = 0
    BY <1>8 DEF GetMove
  <2>2. getSize \in Nat /\ getSize <= Stored /\ (use.locked => putting = "out")
    BY <1>0, <2>1 DEF GetHolds, OneInside, RingTypes
  <2>3. room' \in Nat /\ getSize' \in Nat /\ copied' \in Seq(Bytes)
    BY <2>1
  <2> QED
    BY <1>3, <2>1, <2>2, <2>3
<1>9. ASSUME NEW n \in 1 .. MaxBatch, MoveReadPosition(n)
      PROVE  RingInv'
  <2>1. /\ getting = "out" /\ n <= Stored /\ (use.locked => putting = "out")
        /\ out' = (out + n) % Wrap /\ UNCHANGED <<getting, room, getSize, copied>>
    BY <1>9 DEF MoveReadPosition, readerVars
  <2>2. n \in Nat /\ room' \in Nat /\ getSize' \in Nat /\ copied' \in Seq(Bytes)
    BY <1>0, <2>1, BatchIsNumber DEF RingTypes
  <2> QED
    BY <1>3, <2>1, <2>2
<1> QED
  BY <1>4, <1>5, <1>6, <1>7, <1>8, <1>9
-----------------------------------------------------------------------------
(* The steps of the ring buffer, seen as steps of the queue.               *)

ContentsFacts ==
    RingTypes /\ Stored <= capacity =>
        /\ Contents \in Seq(Bytes) /\ Len(Contents) = Stored
        /\ \A i \in 1 .. Stored : Contents[i] = buffer[At(i - 1)]

LEMMA ContentsAre == ContentsFacts
PROOF
<1> SUFFICES ASSUME RingTypes, Stored <= capacity
             PROVE  /\ Contents \in Seq(Bytes) /\ Len(Contents) = Stored
                    /\ \A i \in 1 .. Stored : Contents[i] = buffer[At(i - 1)]
  BY DEF ContentsFacts
<1>1. Stored \in 0 .. capacity /\ capacity \in Nat /\ out \in Int
  BY Capacity, StoredAndFree
<1>2. \A i \in 1 .. Stored : (out + i - 1) % capacity = At(i - 1)
  <2> SUFFICES ASSUME NEW i \in 1 .. Stored PROVE (out + i - 1) % capacity = At(i - 1)
    OBVIOUS
  <2>1. out + i - 1 = out + (i - 1)
    BY <1>1
  <2> QED
    BY <2>1 DEF At
<1>3. Contents = [i \in 1 .. Stored |-> buffer[At(i - 1)]]
  BY <1>2 DEF Contents
<1>4. \A i \in 1 .. Stored : buffer[At(i - 1)] \in Bytes
  <2> SUFFICES ASSUME NEW i \in 1 .. Stored PROVE buffer[At(i - 1)] \in Bytes
    OBVIOUS
  <2>1. i - 1 \in 0 .. capacity - 1
    BY <1>1
  <2>2. At(i - 1) \in 0 .. capacity - 1
    BY <2>1, PlacesAtDiffer
  <2> QED
    BY <2>2 DEF RingTypes
<1> QED
  BY <1>1, <1>3, <1>4

LEMMA ContentsWillBe == ContentsFacts'
PROOF
<1> QED
  BY ContentsAre, PTL

LEMMA ContentsStay ==
    ASSUME RingTypes, Stored <= capacity, RingTypes', Stored' <= capacity', Stored' = Stored,
           \A k \in 0 .. Stored - 1 : buffer'[At(k)'] = buffer[At(k)]
    PROVE  Contents' = Contents
PROOF
<1>1. /\ Contents \in Seq(Bytes) /\ Len(Contents) = Stored
      /\ \A i \in 1 .. Stored : Contents[i] = buffer[At(i - 1)]
  BY ContentsAre DEF ContentsFacts
<1>2. /\ Contents' \in Seq(Bytes) /\ Len(Contents') = Stored'
      /\ \A i \in 1 .. Stored' : Contents'[i] = buffer'[At(i - 1)']
  BY ContentsWillBe DEF ContentsFacts
<1>3. \A i \in 1 .. Stored : Contents'[i] = Contents[i]
  <2> SUFFICES ASSUME NEW i \in 1 .. Stored PROVE Contents'[i] = Contents[i]
    OBVIOUS
  <2>1. i - 1 \in 0 .. Stored - 1
    BY StoredAndFree
  <2> QED
    BY <1>1, <1>2, <2>1
<1> QED
  BY <1>1, <1>2, <1>3, SeqEqual

(* A sequence that continues another one with the beginning of a third.    *)
LEMMA IsExtended ==
    ASSUME NEW E, NEW F, F \subseteq E, NEW s \in Seq(E), NEW t \in Seq(E), NEW u \in Seq(F),
           NEW n \in 1 .. Len(u), Len(t) = Len(s) + n,
           \A i \in 1 .. Len(s) : t[i] = s[i],
           \A i \in 1 .. n : t[Len(s) + i] = u[i]
    PROVE  t = s \o SubSeq(u, 1, n)
PROOF
<1>1. Len(s) \in Nat /\ Len(u) \in Nat /\ n \in Nat /\ 1 \in Int /\ n \in Int
  BY LenProperties
<1>2. \A i \in 1 .. n : u[i] \in E
  BY <1>1, LenProperties
<1> DEFINE w == SubSeq(u, 1, n)
<1>3. /\ w \in Seq(E) /\ Len(w) = n
      /\ \A i \in 1 .. n : w[i] = u[i]
  <2>1. /\ SubSeq(u, 1, n) \in Seq(E)
        /\ Len(SubSeq(u, 1, n)) = IF 1 <= n THEN n - 1 + 1 ELSE 0
        /\ \A i \in 1 .. n - 1 + 1 : SubSeq(u, 1, n)[i] = u[1 + i - 1]
    BY <1>1, <1>2, SubSeqProperties
  <2> QED
    BY <1>1, <2>1
<1> HIDE DEF w
<1>4. /\ s \o w \in Seq(E) /\ Len(s \o w) = Len(s) + n
      /\ \A i \in 1 .. Len(s) + n : (s \o w)[i] = IF i <= Len(s) THEN s[i] ELSE w[i - Len(s)]
  BY <1>3, ConcatProperties
<1>5. \A i \in 1 .. Len(t) : t[i] = (s \o w)[i]
  <2> SUFFICES ASSUME NEW i \in 1 .. Len(t) PROVE t[i] = (s \o w)[i]
    OBVIOUS
  <2>1. CASE i <= Len(s)
    BY <1>1, <1>4, <2>1
  <2>2. CASE ~(i <= Len(s))
    <3>1. i - Len(s) \in 1 .. n /\ Len(s) + (i - Len(s)) = i
      BY <1>1, <2>2
    <3>2. t[Len(s) + (i - Len(s))] = u[i - Len(s)]
      BY <3>1
    <3> QED
      BY <1>3, <1>4, <2>2, <3>1, <3>2
  <2> QED
    BY <2>1, <2>2
<1>6. t = s \o w
  BY <1>3, <1>4, <1>5, SeqEqual
<1> QED
  BY <1>6 DEF w

(* A sequence that is another one without its beginning.                   *)
LEMMA IsTail ==
    ASSUME NEW E, NEW s \in Seq(E), NEW t \in Seq(E), NEW n \in 1 .. Len(s), Len(t) = Len(s) - n,
           \A i \in 1 .. Len(t) : t[i] = s[n + i]
    PROVE  t = SubSeq(s, n + 1, Len(s))
PROOF
<1>1. Len(s) \in Nat /\ Len(t) \in Nat /\ n \in Nat
  BY LenProperties
<1>2. n + 1 \in Int /\ Len(s) \in Int /\ \A i \in n + 1 .. Len(s) : s[i] \in E
  BY <1>1, LenProperties
<1> DEFINE w == SubSeq(s, n + 1, Len(s))
<1>3. /\ w \in Seq(E) /\ Len(w) = Len(t)
      /\ \A i \in 1 .. Len(t) : w[i] = s[n + i]
  <2>1. /\ w \in Seq(E)
        /\ Len(w) = IF n + 1 <= Len(s) THEN Len(s) - (n + 1) + 1 ELSE 0
        /\ \A i \in 1 .. Len(s) - (n + 1) + 1 : w[i] = s[(n + 1) + i - 1]
    BY <1>2, SubSeqProperties
  <2>2. Len(s) - (n + 1) + 1 = Len(t) /\ \A i \in 1 .. Len(t) : (n + 1) + i - 1 = n + i
    BY <1>1
  <2> HIDE DEF w
  <2> QED
    BY <1>1, <2>1, <2>2
<1> HIDE DEF w
<1>4. t = w
  BY <1>3, SeqEqual
<1> QED
  BY <1>4 DEF w

(* A sequence that is the beginning of another one.                        *)
LEMMA IsStart ==
    ASSUME NEW E, NEW s \in Seq(E), NEW t \in Seq(E), NEW n \in 1 .. Len(s), Len(t) = n,
           \A i \in 1 .. n : t[i] = s[i]
    PROVE  t = SubSeq(s, 1, n)
PROOF
<1>1. Len(s) \in Nat /\ n \in Nat /\ 1 \in Int /\ \A i \in 1 .. n : s[i] \in E
  BY LenProperties
<1> DEFINE w == SubSeq(s, 1, n)
<1>2. /\ w \in Seq(E)
      /\ Len(w) = IF 1 <= n THEN n - 1 + 1 ELSE 0
      /\ \A i \in 1 .. n - 1 + 1 : w[i] = s[1 + i - 1]
  BY <1>1, SubSeqProperties
<1> HIDE DEF w
<1>3. Len(w) = n /\ \A i \in 1 .. n : w[i] = s[i]
  BY <1>1, <1>2
<1>4. t = w
  BY <1>2, <1>3, SeqEqual
<1> QED
  BY <1>4 DEF w

LEMMA RingWriterStep ==
    ASSUME RingInv, RingInv',
           (\E batch \in Batches : Put(batch)) \/ PutLimit \/ PutReload \/ PutCopy \/ PutMove
    PROVE  Bounded!FifoNext \/ UNCHANGED <<Contents, capacity, data, room, delivered>>
PROOF
<1>0. /\ RingTypes /\ Stored <= capacity /\ PutHolds /\ RingTypes' /\ Stored' <= capacity'
      /\ capacity \in Nat \ {0} /\ Stored \in 0 .. capacity /\ Free = capacity - Stored
      /\ data' \in Seq(Values) /\ room' \in Nat
  BY Capacity, StoredAndFree DEF RingInv, RingTypes
<1>1. UNCHANGED <<capacity, out, room, delivered>>
  BY DEF Put, PutLimit, PutReload, PutCopy, PutMove, ringVars, readerVars
<1>2. \A k : At(k)' = At(k)
  BY <1>1 DEF At
<1>3. UNCHANGED in => Stored' = Stored
  BY <1>1 DEF Stored
<1>4. CASE (\E batch \in Batches : Put(batch)) \/ PutLimit \/ PutReload
  <2>1. UNCHANGED <<in, buffer>>
    BY <1>4 DEF Put, PutLimit, PutReload, ringVars
  <2>2. Contents' = Contents
    BY <1>0, <1>2, <1>3, <2>1, ContentsStay
  <2> QED
    BY <1>0, <1>1, <2>2 DEF Bounded!FifoNext, Bounded!Ask
<1>5. CASE PutCopy
  <2>1. UNCHANGED <<in, data>>
    BY <1>5 DEF PutCopy
  <2>2. \A k \in 0 .. Stored - 1 : buffer'[At(k)] = buffer[At(k)]
    BY <1>0, <1>5, CopyFills
  <2>3. Contents' = Contents
    BY <1>0, <1>2, <1>3, <2>1, <2>2, ContentsStay
  <2> QED
    BY <1>1, <2>1, <2>3
<1>6. CASE PutMove
  <2>1. /\ putting = "move" /\ in' = (in + putSize) % Wrap /\ UNCHANGED buffer
    BY <1>6 DEF PutMove
  <2>2. /\ putSize \in Nat /\ putSize <= Free /\ putSize <= Len(data)
        /\ \A i \in 0 .. putSize - 1 : buffer[At(Stored + i)] = data[i + 1]
    BY <1>0, <2>1 DEF PutHolds, RingTypes
  <2>3. Stored' = Stored + putSize
    BY <1>0, <1>1, <2>1, <2>2, PutMoves
  <2>4. CASE putSize = 0
    <3>1. Contents' = Contents
      BY <1>0, <1>2, <2>1, <2>3, <2>4, ContentsStay
    <3> QED
      BY <1>0, <1>1, <3>1 DEF Bounded!FifoNext, Bounded!Ask
  <2>5. CASE putSize # 0
    <3>1. /\ Contents \in Seq(Bytes) /\ Len(Contents) = Stored
          /\ \A i \in 1 .. Stored : Contents[i] = buffer[At(i - 1)]
      BY <1>0, ContentsAre DEF ContentsFacts
    <3>2. /\ Contents' \in Seq(Bytes) /\ Len(Contents') = Stored + putSize
          /\ \A i \in 1 .. Stored + putSize : Contents'[i] = buffer[At(i - 1)]
      BY <1>0, <1>2, <2>1, <2>3, ContentsWillBe DEF ContentsFacts
    <3>3. data \in Seq(Values) /\ Values \subseteq Bytes /\ Len(data) \in Nat
      BY <1>0, LenProperties DEF RingTypes, Bytes
    <3>4. putSize \in 1 .. Len(data)
      BY <2>2, <2>5, <3>3
    <3>5. ASSUME NEW i \in 1 .. Stored
          PROVE  Contents'[i] = Contents[i]
      <4>1. i \in 1 .. Stored + putSize
        BY <1>0, <2>2
      <4> QED
        BY <3>1, <3>2, <4>1
    <3>6. ASSUME NEW i \in 1 .. putSize
          PROVE  Contents'[Stored + i] = data[i]
      <4>1. /\ Stored + i \in 1 .. Stored + putSize /\ Stored + i - 1 = Stored + (i - 1)
            /\ i - 1 \in 0 .. putSize - 1 /\ (i - 1) + 1 = i
        BY <1>0, <2>2
      <4>2. Contents'[Stored + i] = buffer[At(Stored + (i - 1))]
        <5> DEFINE m == Stored + i
        <5>1. m \in 1 .. Stored + putSize /\ m - 1 = Stored + (i - 1)
          BY <1>0, <2>2, <4>1
        <5>2. Contents'[m] = buffer[At(m - 1)]
          <6> HIDE DEF m
          <6> QED
            BY <3>2, <5>1
        <5> QED
          BY <5>1, <5>2
      <4>3. buffer[At(Stored + (i - 1))] = data[(i - 1) + 1]
        BY <2>2, <4>1
      <4> QED
        BY <4>1, <4>2, <4>3
    <3>7. Contents' = Contents \o SubSeq(data, 1, putSize)
      <4>1. Len(Contents') = Len(Contents) + putSize
        BY <3>1, <3>2
      <4>2. /\ \A i \in 1 .. Len(Contents) : Contents'[i] = Contents[i]
            /\ \A i \in 1 .. putSize : Contents'[Len(Contents) + i] = data[i]
        BY <3>1, <3>5, <3>6
      <4> DEFINE s == Contents
                 t == Contents'
      <4>3. s \in Seq(Bytes) /\ t \in Seq(Bytes)
        BY <3>1, <3>2
      <4>4. /\ Len(t) = Len(s) + putSize
            /\ \A i \in 1 .. Len(s) : t[i] = s[i]
            /\ \A i \in 1 .. putSize : t[Len(s) + i] = data[i]
        BY <4>1, <4>2
      <4> HIDE DEF s, t
      <4>5. t = s \o SubSeq(data, 1, putSize)
        BY <3>3, <3>4, <4>3, <4>4, IsExtended
      <4> QED
        BY <4>5 DEF s, t
    <3>8. Len(Contents) + putSize <= capacity
      BY <1>0, <2>2, <3>1
    <3> QED
      BY <1>0, <1>1, <3>4, <3>7, <3>8 DEF Bounded!FifoNext, Bounded!Enqueue
  <2> QED
    BY <2>4, <2>5
<1> QED
  BY <1>4, <1>5, <1>6

(* What is stored once the reader has moved over n of it.                  *)
LEMMA ContentsShrink ==
    ASSUME RingTypes, Stored <= capacity, RingTypes', Stored' <= capacity',
           NEW n \in Nat, n <= Stored, out' = (out + n) % Wrap, UNCHANGED <<in, capacity, buffer>>
    PROVE  /\ n = 0 => Contents' = Contents
           /\ n # 0 => n \in 1 .. Len(Contents)
                       /\ Contents' = SubSeq(Contents, n + 1, Len(Contents))
PROOF
<1>1. Stored' = Stored - n /\ \A k \in Int : At(k)' = At(n + k)
  BY GetMoves
<1>2. Stored \in Nat
  BY StoredAndFree
<1>3. /\ Contents \in Seq(Bytes) /\ Len(Contents) = Stored
      /\ \A i \in 1 .. Stored : Contents[i] = buffer[At(i - 1)]
  BY ContentsAre DEF ContentsFacts
<1>4. /\ Contents' \in Seq(Bytes) /\ Len(Contents') = Stored - n
      /\ \A i \in 1 .. Stored - n : Contents'[i] = buffer[At(i - 1)']
  BY <1>1, ContentsWillBe DEF ContentsFacts
<1>5. ASSUME NEW i \in 1 .. Stored - n
      PROVE  Contents'[i] = Contents[n + i]
  <2> DEFINE m == n + i
  <2>1. m \in 1 .. Stored /\ m - 1 = n + (i - 1) /\ i - 1 \in Int
    BY <1>2
  <2>2. Contents'[i] = buffer[At(m - 1)]
    BY <1>1, <1>4, <2>1
  <2>3. Contents[m] = buffer[At(m - 1)]
    <3> HIDE DEF m
    <3> QED
      BY <1>3, <2>1
  <2> QED
    BY <2>2, <2>3
<1> DEFINE s == Contents
           t == Contents'
<1>6. /\ s \in Seq(Bytes) /\ t \in Seq(Bytes) /\ Len(s) = Stored /\ Len(t) = Len(s) - n
      /\ \A i \in 1 .. Len(t) : t[i] = s[n + i]
  BY <1>3, <1>4, <1>5
<1> HIDE DEF s, t
<1>7. ASSUME n = 0 PROVE t = s
  <2>1. \A i \in 1 .. Len(t) : t[i] = s[i]
    <3> SUFFICES ASSUME NEW i \in 1 .. Len(t) PROVE t[i] = s[i]
      OBVIOUS
    <3>1. n + i = i
      BY <1>2, <1>6, <1>7
    <3> QED
      BY <1>6, <3>1
  <2>2. Len(t) = Len(s)
    BY <1>2, <1>6, <1>7
  <2> QED
    BY <1>6, <2>1, <2>2, SeqEqual
<1>8. ASSUME n # 0 PROVE n \in 1 .. Len(s) /\ t = SubSeq(s, n + 1, Len(s))
  <2>1. n \in 1 .. Len(s)
    BY <1>2, <1>6, <1>8
  <2> QED
    BY <1>6, <2>1, IsTail
<1> QED
  BY <1>7, <1>8 DEF s, t

LEMMA RingReaderStep ==
    ASSUME RingInv, RingInv',
           \/ (\E n \in 0 .. MaxBatch : Get(n)) \/ GetLimit \/ GetReload \/ GetCopy \/ GetMove
           \/ \E n \in 1 .. MaxBatch : MoveReadPosition(n)
    PROVE  Bounded!FifoNext \/ UNCHANGED <<Contents, capacity, data, room, delivered>>
PROOF
<1>0. /\ RingTypes /\ Stored <= capacity /\ GetHolds /\ RingTypes' /\ Stored' <= capacity'
      /\ Stored \in 0 .. capacity
      /\ data' \in Seq(Values) /\ room' \in Nat
  BY StoredAndFree DEF RingInv, RingTypes
<1>1. UNCHANGED <<capacity, in, buffer, data>>
  BY DEF Get, GetLimit, GetReload, GetCopy, GetMove, MoveReadPosition, ringVars, writerVars
<1>2. CASE (\E n \in 0 .. MaxBatch : Get(n)) \/ GetLimit \/ GetReload \/ GetCopy
  <2>1. UNCHANGED <<out, delivered>>
    BY <1>2 DEF Get, GetLimit, GetReload, GetCopy, ringVars
  <2>2. Contents' = Contents
    BY <1>1, <2>1 DEF Contents, Stored
  <2> QED
    BY <1>0, <1>1, <2>1, <2>2 DEF Bounded!FifoNext, Bounded!Ask
<1>3. CASE GetMove
  <2>1. /\ getting = "move" /\ out' = (out + getSize) % Wrap
        /\ delivered' = IF getSize = 0 THEN delivered ELSE copied
    BY <1>3 DEF GetMove
  <2>2. /\ getSize \in Nat /\ getSize <= Stored /\ getSize <= room
        /\ Len(copied) = getSize /\ copied \in Seq(Bytes)
        /\ \A i \in 1 .. getSize : copied[i] = buffer[At(i - 1)]
    BY <1>0, <2>1 DEF GetHolds, RingTypes
  <2>3. /\ getSize = 0 => Contents' = Contents
        /\ getSize # 0 => getSize \in 1 .. Len(Contents)
                          /\ Contents' = SubSeq(Contents, getSize + 1, Len(Contents))
    BY <1>0, <1>1, <2>1, <2>2, ContentsShrink
  <2>4. CASE getSize = 0
    BY <1>0, <1>1, <2>1, <2>3, <2>4 DEF Bounded!FifoNext, Bounded!Ask
  <2>5. CASE getSize # 0
    <3>1. /\ Contents \in Seq(Bytes) /\ Len(Contents) = Stored
          /\ \A i \in 1 .. Stored : Contents[i] = buffer[At(i - 1)]
      BY <1>0, ContentsAre DEF ContentsFacts
    <3>2. \A i \in 1 .. getSize : copied[i] = Contents[i]
      <4>1. \A i \in 1 .. getSize : i \in 1 .. Stored
        BY <1>0, <2>2 DEF RingTypes
      <4> DEFINE s == Contents
      <4>2. \A i \in 1 .. Stored : s[i] = buffer[At(i - 1)]
        BY <3>1
      <4> HIDE DEF s
      <4>3. \A i \in 1 .. getSize : copied[i] = s[i]
        BY <2>2, <4>1, <4>2
      <4> QED
        BY <4>3 DEF s
    <3>3. copied = SubSeq(Contents, 1, getSize)
      <4> DEFINE s == Contents
      <4>1. s \in Seq(Bytes) /\ getSize \in 1 .. Len(s) /\ \A i \in 1 .. getSize : copied[i] = s[i]
        BY <2>3, <2>5, <3>1, <3>2
      <4> HIDE DEF s
      <4>2. copied = SubSeq(s, 1, getSize)
        BY <2>2, <4>1, IsStart
      <4> QED
        BY <4>2 DEF s
    <3> QED
      BY <1>0, <1>1, <2>1, <2>2, <2>3, <2>5, <3>3 DEF Bounded!FifoNext, Bounded!Dequeue
  <2> QED
    BY <2>4, <2>5
<1>4. ASSUME NEW n \in 1 .. MaxBatch, MoveReadPosition(n)
      PROVE  Bounded!Discard
  <2>1. n <= Stored /\ out' = (out + n) % Wrap /\ UNCHANGED <<room, delivered>>
    BY <1>4 DEF MoveReadPosition, readerVars
  <2>2. n \in Nat /\ n # 0
    BY BatchIsNumber
  <2>3. n \in 1 .. Len(Contents) /\ Contents' = SubSeq(Contents, n + 1, Len(Contents))
    BY <1>0, <1>1, <2>1, <2>2, ContentsShrink
  <2> QED
    BY <1>1, <2>1, <2>3 DEF Bounded!Discard
<1> QED
  BY <1>2, <1>3, <1>4 DEF Bounded!FifoNext

(* The ring buffer is a queue of bytes for every program that locks its    *)
(* calls, and for every build that loads an index once: whatever the       *)
(* capacity, the width of the indices and the interleaving, nothing is     *)
(* lost, repeated or reordered across the wraps, and nothing is read while *)
(* it is written (src/ringbuffer.c:46-76).                                 *)
THEOREM RingBufferIsQueue ==
    ASSUME \A u \in Uses : u.twice => u.locked
    PROVE  RBSpec => BufferIsFifo
PROOF
<1>1. RBInit => RingInv /\ Bounded!FifoInit
  <2> SUFFICES ASSUME RBInit PROVE RingInv /\ Bounded!FifoInit
    OBVIOUS
  <2>1. /\ use \in Uses /\ capacity \in Capacities
        /\ buffer = [i \in 0 .. capacity - 1 |-> Junk]
        /\ in = 0 /\ out = 0 /\ putting = "out" /\ data = <<>> /\ putSize = 0
        /\ getting = "out" /\ room = 0 /\ getSize = 0 /\ copied = <<>> /\ delivered = <<>>
    BY DEF RBInit
  <2>2. capacity \in Nat \ {0}
    BY <2>1, CapacitiesDivide
  <2>3. RingTypes
    BY <2>1, WrapIsNumber DEF RingTypes, Bytes, Places
  <2>4. Stored = 0
    <3>1. 0 - 0 = 0 /\ 0 % Wrap = 0
      BY WrapIsNumber
    <3> QED
      BY <2>1, <3>1 DEF Stored
  <2>5. RingInv
    BY <2>1, <2>2, <2>3, <2>4 DEF RingInv, OneInside, PutHolds, GetHolds
  <2>6. Contents = <<>>
    <3>1. Contents \in Seq(Bytes) /\ Len(Contents) = 0
      BY <2>2, <2>3, <2>4, ContentsAre DEF ContentsFacts
    <3> QED
      BY <3>1, EmptySeq
  <2> QED
    BY <2>1, <2>2, <2>5, <2>6 DEF Bounded!FifoInit
<1>2. RingInv /\ [RBNext]_rbVars => RingInv'
  <2> SUFFICES ASSUME RingInv, [RBNext]_rbVars PROVE RingInv'
    OBVIOUS
  <2>1. CASE UNCHANGED rbVars
    BY <2>1 DEF RingInv, RingTypes, OneInside, PutHolds, GetHolds, Stored, Free, At,
                rbVars, ringVars, writerVars, readerVars
  <2>2. CASE RBNext
    BY <2>2, RingWriterKeeps, RingReaderKeeps DEF RBNext
  <2> QED
    BY <2>1, <2>2
<1>3. RingInv /\ RingInv' /\ [RBNext]_rbVars =>
        [Bounded!FifoNext]_<<Contents, capacity, data, room, delivered>>
  <2> SUFFICES ASSUME RingInv, RingInv', [RBNext]_rbVars
               PROVE  Bounded!FifoNext \/ UNCHANGED <<Contents, capacity, data, room, delivered>>
    OBVIOUS
  <2>1. CASE UNCHANGED rbVars
    BY <2>1 DEF Contents, Stored, rbVars, ringVars, writerVars, readerVars
  <2>2. CASE RBNext
    BY <2>2, RingWriterStep, RingReaderStep DEF RBNext
  <2> QED
    BY <2>1, <2>2
<1> QED
  BY <1>1, <1>2, <1>3, PTL DEF RBSpec, BufferIsFifo, Bounded!FifoSpec, Bounded!fifoVars
-----------------------------------------------------------------------------
(* The linked list.                                                        *)

(* A set of numbers has a least one.                                       *)
LEMMA LeastElement ==
    ASSUME NEW T \in SUBSET Nat, T # {}
    PROVE  \E x \in T : \A y \in T : x <= y
PROOF
<1>1. IsWellFoundedOn(OpToRel(<, Nat), Nat)
  BY NatLessThanWellFounded
<1>2. PICK x \in T : \A y \in T : ~ (<<y, x>> \in OpToRel(<, Nat))
  BY <1>1, WFMin
<1>3. \A y \in T : ~ (y < x)
  BY <1>2 DEF OpToRel
<1> QED
  BY <1>3

(* The pointers met from the head on, as many as one likes, are the values *)
(* of a function: so Ahead is what its definition says.                    *)
Follow(p) == IF p = Nil THEN Nil ELSE next[p]
Steps(f, n) == f = [k \in 0 .. n |-> IF k = 0 THEN Base ELSE Follow(f[k - 1])]

LEMMA StepsExist ==
    ASSUME NEW n \in Nat
    PROVE  \E f : Steps(f, n)
PROOF
<1> DEFINE Bad == {m \in Nat : ~ \E f : Steps(f, m)}
<1>1. SUFFICES ASSUME Bad # {} PROVE FALSE
  OBVIOUS
<1>2. PICK m \in Bad : \A y \in Bad : m <= y
  BY <1>1, LeastElement
<1>3. m \in Nat /\ ~ \E f : Steps(f, m)
  OBVIOUS
<1>4. CASE m = 0
  <2>1. Steps([k \in 0 .. 0 |-> Base], 0)
    BY DEF Steps
  <2> QED
    BY <1>3, <1>4, <2>1
<1>5. CASE m # 0
  <2>1. m - 1 \in Nat /\ m - 1 \notin Bad
    BY <1>2, <1>3, <1>5
  <2>2. PICK f : Steps(f, m - 1)
    BY <2>1
  <2> DEFINE g == [k \in 0 .. m |-> IF k = 0 THEN Base ELSE Follow(f[k - 1])]
  <2>3. \A k \in 0 .. m - 1 : f[k] = IF k = 0 THEN Base ELSE Follow(f[k - 1])
    BY <2>2 DEF Steps
  <2>4. \A k \in 0 .. m - 1 : g[k] = f[k]
    BY <2>3, <1>3, <1>5
  <2>5. \A k \in 0 .. m : k # 0 => k - 1 \in 0 .. m - 1
    BY <1>3
  <2>6. \A k \in 0 .. m : k # 0 => g[k - 1] = f[k - 1]
    BY <2>4, <2>5
  <2> HIDE DEF g
  <2>7. [k \in 0 .. m |-> IF k = 0 THEN Base ELSE Follow(f[k - 1])]
          = [k \in 0 .. m |-> IF k = 0 THEN Base ELSE Follow(g[k - 1])]
    BY <2>6
  <2>8. Steps(g, m)
    BY <2>7 DEF Steps, g
  <2> QED
    BY <1>3, <2>8
<1> QED
  BY <1>4, <1>5

LEMMA AheadFollows ==
    ASSUME Cardinality(Cells) \in Nat
    PROVE  /\ Ahead[0] = Base
           /\ \A k \in 1 .. Cardinality(Cells) + 1 : Ahead[k] = Follow(Ahead[k - 1])
PROOF
<1> DEFINE n == Cardinality(Cells) + 1
<1>1. n \in Nat
  OBVIOUS
<1>2. \E f : Steps(f, n)
  BY <1>1, StepsExist
<1>3. Ahead = CHOOSE f : Steps(f, n)
  BY DEF Ahead, Steps, Follow
<1> HIDE DEF n
<1>4. Steps(Ahead, n)
  BY <1>2, <1>3
<1>5. \A k \in 0 .. n : Ahead[k] = IF k = 0 THEN Base ELSE Follow(Ahead[k - 1])
  BY <1>4, Zenon DEF Steps
<1> QED
  BY <1>1, <1>5 DEF n
-----------------------------------------------------------------------------
(* The list as a sequence s of cells, the head being at both its ends.     *)
NodeAt(s, i) == IF i \in DOMAIN s THEN s[i] ELSE Base

Linked(s, nx, pv) ==
    \A i \in 0 .. Len(s) : /\ nx[NodeAt(s, i)] = NodeAt(s, i + 1)
                           /\ pv[NodeAt(s, i + 1)] = NodeAt(s, i)

Ranks(s, S) ==
    /\ s \in Seq(Cells)
    /\ \A i, j \in 1 .. Len(s) : s[i] = s[j] => i = j
    /\ S = {s[i] : i \in 1 .. Len(s)}

Inserted(s, j, c) ==
    [k \in 1 .. Len(s) + 1 |-> IF k < j THEN s[k] ELSE IF k = j THEN c ELSE s[k - 1]]
Deleted(s, j) == [k \in 1 .. Len(s) - 1 |-> IF k < j THEN s[k] ELSE s[k + 1]]

LEMMA NodesDiffer ==
    ASSUME NEW s, NEW S, Ranks(s, S)
    PROVE  /\ Len(s) \in Nat
           /\ \A i \in Int : NodeAt(s, i) \in Cells \cup {Base}
           /\ \A i \in 1 .. Len(s) : NodeAt(s, i) = s[i] /\ s[i] \in Cells
           /\ NodeAt(s, 0) = Base /\ NodeAt(s, Len(s) + 1) = Base
           /\ \A i, j \in 0 .. Len(s) : NodeAt(s, i) = NodeAt(s, j) => i = j
           /\ \A i, j \in 1 .. Len(s) + 1 : NodeAt(s, i) = NodeAt(s, j) => i = j
PROOF
<1>1. /\ s \in Seq(Cells) /\ Len(s) \in Nat /\ DOMAIN s = 1 .. Len(s)
      /\ \A i \in 1 .. Len(s) : s[i] \in Cells
  BY DEF Ranks
<1>2. Base \notin Cells
  BY PointersDiffer
<1>3. \A i \in 1 .. Len(s) : NodeAt(s, i) = s[i] /\ s[i] \in Cells
  BY <1>1 DEF NodeAt
<1>4. \A i \in Int : i \notin 1 .. Len(s) => NodeAt(s, i) = Base
  BY <1>1 DEF NodeAt
<1>5. NodeAt(s, 0) = Base /\ NodeAt(s, Len(s) + 1) = Base
  BY <1>1, <1>4
<1>6. \A i \in Int : NodeAt(s, i) \in Cells \cup {Base}
  BY <1>3, <1>4
<1>7. \A i, j \in 1 .. Len(s) : NodeAt(s, i) = NodeAt(s, j) => i = j
  BY <1>3 DEF Ranks
<1>8. \A i, j \in 0 .. Len(s) : NodeAt(s, i) = NodeAt(s, j) => i = j
  <2>1. \A i \in 1 .. Len(s) : NodeAt(s, i) # NodeAt(s, 0)
    BY <1>2, <1>3, <1>5
  <2>2. \A i \in 0 .. Len(s) : i = 0 \/ i \in 1 .. Len(s)
    BY <1>1
  <2> QED
    BY <1>7, <2>1, <2>2
<1>9. \A i, j \in 1 .. Len(s) + 1 : NodeAt(s, i) = NodeAt(s, j) => i = j
  <2>1. \A i \in 1 .. Len(s) : NodeAt(s, i) # NodeAt(s, Len(s) + 1)
    BY <1>2, <1>3, <1>5
  <2>2. \A i \in 1 .. Len(s) + 1 : i = Len(s) + 1 \/ i \in 1 .. Len(s)
    BY <1>1
  <2> QED
    BY <1>7, <2>1, <2>2
<1> QED
  BY <1>1, <1>3, <1>5, <1>6, <1>8, <1>9

LEMMA RanksInserted ==
    ASSUME NEW s, NEW S, Ranks(s, S), NEW c \in Cells, c \notin S, NEW j \in 1 .. Len(s) + 1
    PROVE  /\ Ranks(Inserted(s, j, c), S \cup {c})
           /\ Len(Inserted(s, j, c)) = Len(s) + 1
PROOF
<1> DEFINE t == Inserted(s, j, c)
<1>1. /\ s \in Seq(Cells) /\ Len(s) \in Nat
      /\ \A i \in 1 .. Len(s) : s[i] \in Cells
  BY DEF Ranks
<1>2. /\ t \in Seq(Cells) /\ Len(t) = Len(s) + 1
      /\ \A k \in 1 .. Len(s) + 1 :
           t[k] = IF k < j THEN s[k] ELSE IF k = j THEN c ELSE s[k - 1]
  <2>1. \A k \in 1 .. Len(s) + 1 :
          (IF k < j THEN s[k] ELSE IF k = j THEN c ELSE s[k - 1]) \in Cells
    BY <1>1
  <2> QED
    BY <1>1, <2>1 DEF Inserted
<1> HIDE DEF t
<1>3. \A i, k \in 1 .. Len(t) : t[i] = t[k] => i = k
  <2> SUFFICES ASSUME NEW i \in 1 .. Len(s) + 1, NEW k \in 1 .. Len(s) + 1, t[i] = t[k]
               PROVE  i = k
    BY <1>2
  <2>1. \A m \in 1 .. Len(s) : s[m] # c
    BY DEF Ranks
  <2>2. \A m, n \in 1 .. Len(s) : s[m] = s[n] => m = n
    BY DEF Ranks
  <2> DEFINE old(m) == IF m < j THEN m ELSE m - 1
  <2>3. \A m \in 1 .. Len(s) + 1 : m # j => old(m) \in 1 .. Len(s) /\ t[m] = s[old(m)]
    BY <1>1, <1>2
  <2>4. t[j] = c
    BY <1>1, <1>2
  <2>5. \A m \in 1 .. Len(s) + 1 : m # j => t[m] # c
    BY <2>1, <2>3
  <2>6. CASE i = j \/ k = j
    BY <2>4, <2>5, <2>6
  <2>7. CASE i # j /\ k # j
    <3>1. old(i) = old(k)
      BY <2>2, <2>3, <2>7
    <3> QED
      BY <1>1, <2>7, <3>1
  <2> QED
    BY <2>6, <2>7
<1>4. S \cup {c} = {t[k] : k \in 1 .. Len(t)}
  <2>1. \A k \in 1 .. Len(t) : t[k] \in S \cup {c}
    BY <1>1, <1>2 DEF Ranks
  <2>2. c = t[j] /\ j \in 1 .. Len(t)
    BY <1>1, <1>2
  <2>3. ASSUME NEW x \in S PROVE \E k \in 1 .. Len(t) : x = t[k]
    <3>1. PICK m \in 1 .. Len(s) : x = s[m]
      BY DEF Ranks
    <3>2. CASE m < j
      BY <1>1, <1>2, <3>1, <3>2
    <3>3. CASE m >= j
      <4>1. m + 1 \in 1 .. Len(t) /\ t[m + 1] = s[m]
        BY <1>1, <1>2, <3>3
      <4> QED
        BY <3>1, <4>1
    <3> QED
      BY <1>1, <3>2, <3>3
  <2> QED
    BY <2>1, <2>2, <2>3
<1> QED
  BY <1>2, <1>3, <1>4 DEF t, Ranks

LEMMA RanksDeleted ==
    ASSUME NEW s, NEW S, Ranks(s, S), NEW j \in 1 .. Len(s)
    PROVE  /\ Ranks(Deleted(s, j), S \ {s[j]})
           /\ Len(Deleted(s, j)) = Len(s) - 1
PROOF
<1> DEFINE t == Deleted(s, j)
<1>1. /\ s \in Seq(Cells) /\ Len(s) \in Nat
      /\ \A i \in 1 .. Len(s) : s[i] \in Cells
  BY DEF Ranks
<1>2. /\ t \in Seq(Cells) /\ Len(t) = Len(s) - 1
      /\ \A k \in 1 .. Len(s) - 1 : t[k] = IF k < j THEN s[k] ELSE s[k + 1]
  <2>1. \A k \in 1 .. Len(s) - 1 : (IF k < j THEN s[k] ELSE s[k + 1]) \in Cells
    BY <1>1
  <2> QED
    BY <1>1, <2>1 DEF Deleted
<1> HIDE DEF t
<1>2b. \A m, n \in 1 .. Len(s) : s[m] = s[n] => m = n
  BY DEF Ranks
<1>3. \A i, k \in 1 .. Len(t) : t[i] = t[k] => i = k
  BY <1>1, <1>2, <1>2b
<1>4. S \ {s[j]} = {t[k] : k \in 1 .. Len(t)}
  <2>1. ASSUME NEW k \in 1 .. Len(t) PROVE t[k] \in S \ {s[j]}
    <3>1. PICK m \in 1 .. Len(s) : t[k] = s[m] /\ m # j
      BY <1>1, <1>2
    <3> QED
      BY <3>1, <1>2b DEF Ranks
  <2>3. ASSUME NEW x \in S \ {s[j]} PROVE \E k \in 1 .. Len(t) : x = t[k]
    <3>1. PICK m \in 1 .. Len(s) : x = s[m]
      BY DEF Ranks
    <3>2. CASE m < j
      BY <1>1, <1>2, <3>1, <3>2
    <3>3. CASE m > j
      <4>1. m - 1 \in 1 .. Len(t) /\ t[m - 1] = s[m]
        BY <1>1, <1>2, <3>3
      <4> QED
        BY <3>1, <4>1
    <3> QED
      BY <1>1, <3>1, <3>2, <3>3
  <2> QED
    BY <2>1, <2>3
<1> QED
  BY <1>2, <1>3, <1>4 DEF t, Ranks

LEMMA NodeInserted ==
    ASSUME NEW s, NEW S, Ranks(s, S), NEW c \in Cells, c \notin S, NEW j \in 1 .. Len(s) + 1
    PROVE  \A i \in 0 .. Len(s) + 2 :
             NodeAt(Inserted(s, j, c), i)
               = IF i < j THEN NodeAt(s, i) ELSE IF i = j THEN c ELSE NodeAt(s, i - 1)
PROOF
<1> DEFINE t == Inserted(s, j, c)
<1>1. /\ Len(s) \in Nat
      /\ \A i \in 1 .. Len(s) : NodeAt(s, i) = s[i]
      /\ NodeAt(s, 0) = Base /\ NodeAt(s, Len(s) + 1) = Base
  BY NodesDiffer
<1>3. Len(t) = Len(s) + 1 /\ DOMAIN t = 1 .. Len(s) + 1
  <2>1. Len(t) = Len(s) + 1
    BY RanksInserted
  <2>2. DOMAIN t = 1 .. Len(s) + 1
    BY DEF Inserted
  <2> QED
    BY <2>1, <2>2
<1>4. \A i \in 1 .. Len(s) + 1 :
        t[i] = IF i < j THEN s[i] ELSE IF i = j THEN c ELSE s[i - 1]
  BY <1>1 DEF Inserted
<1>5. \A i \in 0 .. Len(s) + 2 :
        NodeAt(t, i) = IF i < j THEN NodeAt(s, i) ELSE IF i = j THEN c ELSE NodeAt(s, i - 1)
  <2> SUFFICES ASSUME NEW i \in 0 .. Len(s) + 2
               PROVE  NodeAt(t, i) = IF i < j THEN NodeAt(s, i)
                                     ELSE IF i = j THEN c ELSE NodeAt(s, i - 1)
    OBVIOUS
  <2>1. CASE i = 0
    BY <1>1, <1>3, <2>1 DEF NodeAt
  <2>2. CASE i = Len(s) + 2
    <3>1. NodeAt(t, i) = Base
      BY <1>1, <1>3, <2>2 DEF NodeAt
    <3>2. ~ (i < j) /\ i # j /\ i - 1 = Len(s) + 1
      BY <1>1, <2>2
    <3> QED
      BY <1>1, <3>1, <3>2
  <2>3. CASE i \in 1 .. Len(s) + 1
    <3>1. NodeAt(t, i) = t[i]
      BY <1>3, <2>3 DEF NodeAt
    <3>2. i < j => i \in 1 .. Len(s)
      BY <1>1, <2>3
    <3>3. i > j => i - 1 \in 1 .. Len(s)
      BY <1>1, <2>3
    <3> QED
      BY <1>1, <1>4, <2>3, <3>1, <3>2, <3>3
  <2> QED
    BY <1>1, <2>1, <2>2, <2>3
<1> QED
  BY <1>5

LEMMA NodeDeleted ==
    ASSUME NEW s, NEW S, Ranks(s, S), NEW j \in 1 .. Len(s)
    PROVE  \A i \in 0 .. Len(s) :
             NodeAt(Deleted(s, j), i) = IF i < j THEN NodeAt(s, i) ELSE NodeAt(s, i + 1)
PROOF
<1> DEFINE t == Deleted(s, j)
<1>1. /\ Len(s) \in Nat
      /\ \A i \in 1 .. Len(s) : NodeAt(s, i) = s[i]
      /\ NodeAt(s, 0) = Base /\ NodeAt(s, Len(s) + 1) = Base
  BY NodesDiffer
<1>3. Len(t) = Len(s) - 1 /\ DOMAIN t = 1 .. Len(s) - 1
  <2>1. Len(t) = Len(s) - 1
    BY RanksDeleted
  <2>2. DOMAIN t = 1 .. Len(s) - 1
    BY DEF Deleted
  <2> QED
    BY <2>1, <2>2
<1>4. \A i \in 1 .. Len(s) - 1 : t[i] = IF i < j THEN s[i] ELSE s[i + 1]
  BY <1>1 DEF Deleted
<1>5. \A i \in 0 .. Len(s) :
        NodeAt(t, i) = IF i < j THEN NodeAt(s, i) ELSE NodeAt(s, i + 1)
  <2> SUFFICES ASSUME NEW i \in 0 .. Len(s)
               PROVE  NodeAt(t, i) = IF i < j THEN NodeAt(s, i) ELSE NodeAt(s, i + 1)
    OBVIOUS
  <2>1. CASE i = 0
    BY <1>1, <1>3, <2>1 DEF NodeAt
  <2>2. CASE i = Len(s)
    <3>1. NodeAt(t, i) = Base
      BY <1>1, <1>3, <2>2 DEF NodeAt
    <3>2. ~ (i < j)
      BY <1>1, <2>2
    <3> QED
      BY <1>1, <2>2, <3>1, <3>2
  <2>3. CASE i \in 1 .. Len(s) - 1
    <3>1. NodeAt(t, i) = t[i]
      BY <1>3, <2>3 DEF NodeAt
    <3>2. i \in 1 .. Len(s) /\ i + 1 \in 1 .. Len(s)
      BY <1>1, <2>3
    <3> QED
      BY <1>1, <1>4, <2>3, <3>1, <3>2
  <2> QED
    BY <1>1, <2>1, <2>2, <2>3
<1> QED
  BY <1>5

(* __list_add between two neighbours, and list_del.                        *)
LEMMA LinkedInserted ==
    ASSUME NEW s, NEW S, Ranks(s, S), NEW c \in Cells, c \notin S, NEW j \in 1 .. Len(s) + 1,
           NEW nx \in [Cells \cup {Base} -> Pointers], NEW pv \in [Cells \cup {Base} -> Pointers],
           Linked(s, nx, pv)
    PROVE  Linked(Inserted(s, j, c),
                  [nx EXCEPT ![c] = NodeAt(s, j), ![NodeAt(s, j - 1)] = c],
                  [pv EXCEPT ![NodeAt(s, j)] = c, ![c] = NodeAt(s, j - 1)])
PROOF
<1> DEFINE t == Inserted(s, j, c)
           nx2 == [nx EXCEPT ![c] = NodeAt(s, j), ![NodeAt(s, j - 1)] = c]
           pv2 == [pv EXCEPT ![NodeAt(s, j)] = c, ![c] = NodeAt(s, j - 1)]
<1>1. /\ Len(s) \in Nat
      /\ \A i \in Int : NodeAt(s, i) \in Cells \cup {Base}
      /\ \A i \in 1 .. Len(s) : NodeAt(s, i) = s[i]
      /\ NodeAt(s, 0) = Base /\ NodeAt(s, Len(s) + 1) = Base
      /\ \A i, k \in 0 .. Len(s) : NodeAt(s, i) = NodeAt(s, k) => i = k
      /\ \A i, k \in 1 .. Len(s) + 1 : NodeAt(s, i) = NodeAt(s, k) => i = k
  BY NodesDiffer
<1>2. \A i \in Int : NodeAt(s, i) # c
  BY <1>1, PointersDiffer DEF Ranks, NodeAt
<1>3. Len(t) = Len(s) + 1
  BY RanksInserted
<1>5. \A i \in 0 .. Len(s) + 2 :
        NodeAt(t, i) = IF i < j THEN NodeAt(s, i) ELSE IF i = j THEN c ELSE NodeAt(s, i - 1)
  BY NodeInserted
<1>6. /\ nx2[c] = NodeAt(s, j) /\ nx2[NodeAt(s, j - 1)] = c
      /\ \A x \in Cells \cup {Base} : x # c /\ x # NodeAt(s, j - 1) => nx2[x] = nx[x]
  BY <1>1, <1>2
<1>7. /\ pv2[c] = NodeAt(s, j - 1) /\ pv2[NodeAt(s, j)] = c
      /\ \A x \in Cells \cup {Base} : x # c /\ x # NodeAt(s, j) => pv2[x] = pv[x]
  BY <1>1, <1>2
<1>8. \A i \in 0 .. Len(s) : nx[NodeAt(s, i)] = NodeAt(s, i + 1) /\ pv[NodeAt(s, i + 1)] = NodeAt(s, i)
  BY DEF Linked
<1> HIDE DEF t, nx2, pv2
<1>9. ASSUME NEW i \in 0 .. Len(t)
      PROVE  nx2[NodeAt(t, i)] = NodeAt(t, i + 1) /\ pv2[NodeAt(t, i + 1)] = NodeAt(t, i)
  <2>0. i \in 0 .. Len(s) + 2 /\ i + 1 \in 0 .. Len(s) + 2
    BY <1>1, <1>3
  <2>1. CASE i < j - 1
    <3>1. NodeAt(t, i) = NodeAt(s, i) /\ NodeAt(t, i + 1) = NodeAt(s, i + 1)
      BY <1>5, <2>0, <2>1
    <3>2. i \in 0 .. Len(s) /\ j - 1 \in 0 .. Len(s) /\ i # j - 1
      BY <1>1, <2>0, <2>1
    <3>3. i + 1 \in 1 .. Len(s) + 1 /\ i + 1 # j
      BY <1>1, <2>0, <2>1
    <3>4. NodeAt(s, i) # NodeAt(s, j - 1) /\ NodeAt(s, i + 1) # NodeAt(s, j)
      BY <1>1, <3>2, <3>3
    <3> QED
      BY <1>1, <1>2, <1>6, <1>7, <1>8, <3>1, <3>2, <3>4
  <2>2. CASE i = j - 1
    <3>1. NodeAt(t, i) = NodeAt(s, j - 1) /\ NodeAt(t, i + 1) = c
      BY <1>5, <2>0, <2>2
    <3> QED
      BY <1>6, <1>7, <3>1
  <2>3. CASE i = j
    <3>1. NodeAt(t, i) = c /\ NodeAt(t, i + 1) = NodeAt(s, j)
      BY <1>5, <2>0, <2>3
    <3> QED
      BY <1>6, <1>7, <3>1
  <2>4. CASE i > j
    <3>1. NodeAt(t, i) = NodeAt(s, i - 1) /\ NodeAt(t, i + 1) = NodeAt(s, i)
      BY <1>5, <2>0, <2>4
    <3>2. i - 1 \in 0 .. Len(s) /\ j - 1 \in 0 .. Len(s) /\ i - 1 # j - 1
      BY <1>1, <1>3, <2>0, <2>4
    <3>3. i \in 1 .. Len(s) + 1 /\ i # j
      BY <1>1, <1>3, <2>0, <2>4
    <3>4. NodeAt(s, i - 1) # NodeAt(s, j - 1) /\ NodeAt(s, i) # NodeAt(s, j)
      BY <1>1, <3>2, <3>3
    <3>5. nx[NodeAt(s, i - 1)] = NodeAt(s, i) /\ pv[NodeAt(s, i)] = NodeAt(s, i - 1)
      <4>1. (i - 1) + 1 = i
        OBVIOUS
      <4> QED
        BY <1>8, <3>2, <4>1
    <3> QED
      BY <1>1, <1>2, <1>6, <1>7, <3>1, <3>2, <3>4, <3>5
  <2> QED
    BY <2>1, <2>2, <2>3, <2>4
<1> QED
  BY <1>9 DEF Linked, t, nx2, pv2

LEMMA LinkedDeleted ==
    ASSUME NEW s, NEW S, Ranks(s, S), NEW j \in 1 .. Len(s),
           NEW nx \in [Cells \cup {Base} -> Pointers], NEW pv \in [Cells \cup {Base} -> Pointers],
           Linked(s, nx, pv)
    PROVE  Linked(Deleted(s, j),
                  [nx EXCEPT ![pv[s[j]]] = nx[s[j]], ![s[j]] = Nil],
                  [pv EXCEPT ![nx[s[j]]] = pv[s[j]], ![s[j]] = Nil])
PROOF
<1> DEFINE t == Deleted(s, j)
           c == s[j]
           nx2 == [nx EXCEPT ![pv[c]] = nx[c], ![c] = Nil]
           pv2 == [pv EXCEPT ![nx[c]] = pv[c], ![c] = Nil]
<1>1. /\ Len(s) \in Nat
      /\ \A i \in Int : NodeAt(s, i) \in Cells \cup {Base}
      /\ \A i \in 1 .. Len(s) : NodeAt(s, i) = s[i]
      /\ NodeAt(s, 0) = Base /\ NodeAt(s, Len(s) + 1) = Base
      /\ \A i, k \in 0 .. Len(s) : NodeAt(s, i) = NodeAt(s, k) => i = k
      /\ \A i, k \in 1 .. Len(s) + 1 : NodeAt(s, i) = NodeAt(s, k) => i = k
  BY NodesDiffer
<1>2. \A i \in 0 .. Len(s) : nx[NodeAt(s, i)] = NodeAt(s, i + 1) /\ pv[NodeAt(s, i + 1)] = NodeAt(s, i)
  BY DEF Linked
<1>3. Len(t) = Len(s) - 1
  BY RanksDeleted
<1>5. \A i \in 0 .. Len(s) :
        NodeAt(t, i) = IF i < j THEN NodeAt(s, i) ELSE NodeAt(s, i + 1)
  BY NodeDeleted
<1>6. /\ c = NodeAt(s, j) /\ nx[c] = NodeAt(s, j + 1) /\ pv[c] = NodeAt(s, j - 1)
      /\ c \in Cells \cup {Base}
  <2>1. c = NodeAt(s, j) /\ j \in 0 .. Len(s) /\ j - 1 \in 0 .. Len(s) /\ (j - 1) + 1 = j
    BY <1>1
  <2> QED
    BY <1>1, <1>2, <2>1
<1>7. /\ nx2 = [nx EXCEPT ![NodeAt(s, j - 1)] = NodeAt(s, j + 1), ![NodeAt(s, j)] = Nil]
      /\ pv2 = [pv EXCEPT ![NodeAt(s, j + 1)] = NodeAt(s, j - 1), ![NodeAt(s, j)] = Nil]
  BY <1>6
<1>8. /\ NodeAt(s, j - 1) # NodeAt(s, j) /\ NodeAt(s, j + 1) # NodeAt(s, j)
      /\ \A i \in {j - 1, j, j + 1} : NodeAt(s, i) \in Cells \cup {Base}
  <2>1. j - 1 \in 0 .. Len(s) /\ j \in 0 .. Len(s) /\ j - 1 # j
    BY <1>1
  <2>2. j + 1 \in 1 .. Len(s) + 1 /\ j \in 1 .. Len(s) + 1 /\ j + 1 # j
    BY <1>1
  <2> QED
    BY <1>1, <2>1, <2>2
<1> HIDE DEF t, nx2, pv2, c
<1>9. /\ nx2[NodeAt(s, j - 1)] = NodeAt(s, j + 1)
      /\ \A x \in Cells \cup {Base} :
           x # NodeAt(s, j) /\ x # NodeAt(s, j - 1) => nx2[x] = nx[x]
  BY <1>7, <1>8
<1>10. /\ pv2[NodeAt(s, j + 1)] = NodeAt(s, j - 1)
       /\ \A x \in Cells \cup {Base} :
            x # NodeAt(s, j) /\ x # NodeAt(s, j + 1) => pv2[x] = pv[x]
  BY <1>7, <1>8
<1>11. ASSUME NEW i \in 0 .. Len(t)
       PROVE  nx2[NodeAt(t, i)] = NodeAt(t, i + 1) /\ pv2[NodeAt(t, i + 1)] = NodeAt(t, i)
  <2>0. i \in 0 .. Len(s) /\ i + 1 \in 0 .. Len(s)
    BY <1>1, <1>3
  <2>1. CASE i < j - 1
    <3>1. NodeAt(t, i) = NodeAt(s, i) /\ NodeAt(t, i + 1) = NodeAt(s, i + 1)
      BY <1>5, <2>0, <2>1
    <3>2. /\ i \in 0 .. Len(s) /\ j - 1 \in 0 .. Len(s) /\ j \in 0 .. Len(s)
          /\ i # j - 1 /\ i # j
      BY <1>1, <2>0, <2>1
    <3>3. /\ i + 1 \in 1 .. Len(s) + 1 /\ j \in 1 .. Len(s) + 1 /\ j + 1 \in 1 .. Len(s) + 1
          /\ i + 1 # j /\ i + 1 # j + 1
      BY <1>1, <2>0, <2>1
    <3>4. /\ NodeAt(s, i) # NodeAt(s, j - 1) /\ NodeAt(s, i) # NodeAt(s, j)
          /\ NodeAt(s, i + 1) # NodeAt(s, j) /\ NodeAt(s, i + 1) # NodeAt(s, j + 1)
      BY <1>1, <3>2, <3>3
    <3> QED
      BY <1>1, <1>2, <1>9, <1>10, <3>1, <3>2, <3>4
  <2>2. CASE i = j - 1
    <3>1. NodeAt(t, i) = NodeAt(s, j - 1) /\ NodeAt(t, i + 1) = NodeAt(s, j + 1)
      <4>1. i < j /\ ~ (i + 1 < j) /\ (i + 1) + 1 = j + 1
        BY <2>2
      <4> QED
        BY <1>5, <2>0, <2>2, <4>1
    <3> QED
      BY <1>9, <1>10, <3>1
  <2>3. CASE i > j - 1
    <3>1. NodeAt(t, i) = NodeAt(s, i + 1) /\ NodeAt(t, i + 1) = NodeAt(s, i + 2)
      <4>1. ~ (i < j) /\ ~ (i + 1 < j) /\ (i + 1) + 1 = i + 2
        BY <2>0, <2>3
      <4> QED
        BY <1>5, <2>0, <4>1
    <3>2. /\ i + 1 \in 0 .. Len(s) /\ j - 1 \in 0 .. Len(s) /\ j \in 0 .. Len(s)
          /\ i + 1 # j - 1 /\ i + 1 # j
      BY <1>1, <1>3, <2>0, <2>3
    <3>3. /\ i + 2 \in 1 .. Len(s) + 1 /\ j \in 1 .. Len(s) + 1 /\ j + 1 \in 1 .. Len(s) + 1
          /\ i + 2 # j /\ i + 2 # j + 1
      BY <1>1, <1>3, <2>0, <2>3
    <3>4. /\ NodeAt(s, i + 1) # NodeAt(s, j - 1) /\ NodeAt(s, i + 1) # NodeAt(s, j)
          /\ NodeAt(s, i + 2) # NodeAt(s, j) /\ NodeAt(s, i + 2) # NodeAt(s, j + 1)
      BY <1>1, <3>2, <3>3
    <3>5. nx[NodeAt(s, i + 1)] = NodeAt(s, i + 2) /\ pv[NodeAt(s, i + 2)] = NodeAt(s, i + 1)
      <4>1. (i + 1) + 1 = i + 2
        BY <2>0
      <4> QED
        BY <1>2, <3>2, <4>1
    <3> QED
      BY <1>1, <1>9, <1>10, <3>1, <3>2, <3>3, <3>4, <3>5
  <2> QED
    BY <2>0, <2>1, <2>2, <2>3
<1> QED
  BY <1>11 DEF Linked, t, nx2, pv2, c
-----------------------------------------------------------------------------
(* The invariant.  The pointers make a circle of some sequence of the      *)
(* allocated cells; and while the callback is called for pos, every cell   *)
(* in front of tmp that has been there from the beginning has been visited.*)
Listed(s) == Ranks(s, allocated) /\ Len(s) = _size /\ Linked(s, next, prev)

Halfway(s) ==
    removal = "current" =>
      /\ ~crashed
      /\ Walking => /\ tmp # pos
                    /\ \E t \in 1 .. Len(s) + 1 :
                         /\ tmp = NodeAt(s, t)
                         /\ \A i \in 1 .. t - 1 : s[i] \in staying => s[i] \in visited

DLInv ==
    /\ DLTypeOK
    /\ staying \subseteq allocated /\ (~Walking => staying = {})
    /\ \E s : Listed(s) /\ Halfway(s)

LEMMA ListStarts == DLInit => DLInv
PROOF
<1> SUFFICES ASSUME DLInit PROVE DLInv
  OBVIOUS
<1> USE DEF DLInit
<1>1. DLTypeOK
  <2>1. /\ next \in [Cells \cup {Base} -> Pointers] /\ prev \in [Cells \cup {Base} -> Pointers]
    <3>1. \A c \in Cells \cup {Base} : (IF c = Base THEN Base ELSE Nil) \in Pointers
      BY DEF Pointers
    <3> QED
      BY <3>1
  <2>2. pos \in Pointers /\ tmp \in Pointers
    BY DEF Pointers
  <2>3. /\ removal \in Removals /\ allocated \subseteq Cells /\ _size \in Int
        /\ staying \subseteq Cells /\ visited \subseteq Cells /\ crashed \in BOOLEAN
    <3>1. allocated \subseteq Cells /\ _size \in Int /\ staying \subseteq Cells /\ visited \subseteq Cells
      OBVIOUS
    <3>2. removal \in Removals /\ crashed \in BOOLEAN
      BY Zenon
    <3> QED
      BY <3>1, <3>2, Zenon
  <2> HIDE DEF DLInit
  <2> QED
    BY <2>1, <2>2, <2>3 DEF DLTypeOK
<1>2. staying \subseteq allocated /\ (~Walking => staying = {})
  OBVIOUS
<1>3. Ranks(<< >>, {}) /\ Len(<< >>) = 0
  BY DEF Ranks
<1>4. Linked(<< >>, next, prev)
  BY DEF Linked, NodeAt
<1>5. Halfway(<< >>)
  BY DEF Halfway, Walking
<1> QED
  BY <1>1, <1>2, <1>3, <1>4, <1>5 DEF DLInv, Listed

LEMMA AddKeeps ==
    ASSUME DLInv, NEW c \in Cells, NEW at \in Cells \cup {Base}, Add(c, at),
           NEW s, Listed(s), Halfway(s)
    PROVE  /\ DLInv'
           /\ \E j \in 1 .. Len(s) + 1 : /\ at = NodeAt(s, j)
                                         /\ Listed(Inserted(s, j, c))'
PROOF
<1> USE DEF Add
<1>1. Ranks(s, allocated) /\ Len(s) = _size /\ Linked(s, next, prev) /\ Len(s) \in Nat
  BY NodesDiffer DEF Listed
<1>2. next \in [Cells \cup {Base} -> Pointers] /\ prev \in [Cells \cup {Base} -> Pointers]
  BY DEF DLInv, DLTypeOK
<1>3. PICK j \in 1 .. Len(s) + 1 : at = NodeAt(s, j)
  <2>1. CASE at = Base
    <3>1. Len(s) + 1 \in 1 .. Len(s) + 1 /\ at = NodeAt(s, Len(s) + 1)
      BY <1>1, <2>1, NodesDiffer
    <3> QED
      BY <3>1
  <2>2. CASE at \in allocated
    <3>1. PICK j \in 1 .. Len(s) : at = s[j]
      BY <1>1, <2>2 DEF Ranks
    <3>2. at = NodeAt(s, j) /\ j \in 1 .. Len(s) + 1
      BY <1>1, <3>1, NodesDiffer
    <3> QED
      BY <3>2
  <2> QED
    BY <2>1, <2>2
<1>4. prev[at] = NodeAt(s, j - 1)
  <2>1. j - 1 \in 0 .. Len(s) /\ (j - 1) + 1 = j
    BY <1>1
  <2> QED
    BY <1>1, <1>3, <2>1 DEF Linked
<1> DEFINE t == Inserted(s, j, c)
<1>5. /\ Ranks(t, allocated') /\ Len(t) = Len(s) + 1
  BY <1>1, RanksInserted
<1>6. Linked(t, next', prev')
  BY <1>1, <1>2, <1>3, <1>4, LinkedInserted DEF ListAddTail, Link
<1>7. Listed(t)'
  BY <1>1, <1>5, <1>6 DEF Listed
<1>8. Halfway(t)'
  <2> SUFFICES ASSUME removal = "current"
               PROVE  /\ ~crashed
                      /\ Walking => /\ tmp # pos
                                    /\ \E m \in 1 .. Len(t) + 1 :
                                         /\ tmp = NodeAt(t, m)
                                         /\ \A i \in 1 .. m - 1 : t[i] \in staying => t[i] \in visited'
    BY DEF Halfway, Walking
  <2>1. ~crashed
    BY DEF Halfway
  <2> SUFFICES ASSUME Walking
               PROVE  \E m \in 1 .. Len(t) + 1 :
                         /\ tmp = NodeAt(t, m)
                         /\ \A i \in 1 .. m - 1 : t[i] \in staying => t[i] \in visited'
    BY <2>1 DEF Halfway
  <2>2. PICK m \in 1 .. Len(s) + 1 :
          /\ tmp = NodeAt(s, m)
          /\ \A i \in 1 .. m - 1 : s[i] \in staying => s[i] \in visited
    BY DEF Halfway
  <2>3. \A i \in 1 .. Len(s) + 1 :
          t[i] = IF i < j THEN s[i] ELSE IF i = j THEN c ELSE s[i - 1]
    BY <1>1 DEF Inserted
  <2>4. \A i \in 0 .. Len(s) + 2 :
          NodeAt(t, i) = IF i < j THEN NodeAt(s, i) ELSE IF i = j THEN c ELSE NodeAt(s, i - 1)
    BY <1>1, NodeInserted
  <2>5. c \notin staying /\ \A x \in staying : x \in visited => x \in visited'
    BY DEF DLInv
  <2> HIDE DEF t
  <2>6. CASE m < j
    <3>1. tmp = NodeAt(t, m) /\ m \in 1 .. Len(t) + 1
      BY <1>1, <1>5, <2>2, <2>4, <2>6
    <3>2. \A i \in 1 .. m - 1 : t[i] = s[i]
      BY <1>1, <2>3, <2>6
    <3> QED
      BY <2>2, <2>5, <3>1, <3>2
  <2>7. CASE m >= j
    <3>1. tmp = NodeAt(t, m + 1) /\ m + 1 \in 1 .. Len(t) + 1
      <4>1. m + 1 \in 0 .. Len(s) + 2 /\ ~ (m + 1 < j) /\ m + 1 # j /\ (m + 1) - 1 = m
        BY <1>1, <2>7
      <4> QED
        BY <1>1, <1>5, <2>2, <2>4, <4>1
    <3>2. ASSUME NEW i \in 1 .. (m + 1) - 1, t[i] \in staying PROVE t[i] \in visited'
      <4>1. CASE i < j
        BY <1>1, <2>2, <2>3, <2>5, <2>7, <3>2, <4>1
      <4>2. CASE i = j
        BY <1>1, <2>3, <2>5, <3>2, <4>2
      <4>3. CASE i > j
        <5>1. t[i] = s[i - 1] /\ i - 1 \in 1 .. m - 1
          BY <1>1, <2>3, <4>3
        <5> QED
          BY <2>2, <2>5, <3>2, <5>1
      <4> QED
        BY <4>1, <4>2, <4>3
    <3> QED
      BY <3>1, <3>2
  <2> QED
    BY <1>1, <2>6, <2>7
<1>9. DLTypeOK'
  <2>1. at \in Pointers /\ c \in Pointers /\ prev[at] \in Pointers
    BY <1>2 DEF Pointers
  <2>2. /\ next' \in [Cells \cup {Base} -> Pointers]
        /\ prev' \in [Cells \cup {Base} -> Pointers]
    BY <1>2, <2>1 DEF ListAddTail, Link
  <2>3. allocated' \subseteq Cells /\ _size' \in Int /\ visited' \subseteq Cells
    BY DEF DLInv, DLTypeOK
  <2> QED
    BY <2>2, <2>3 DEF DLInv, DLTypeOK
<1>10. staying' \subseteq allocated' /\ (~Walking' => staying' = {})
  BY DEF DLInv, Walking
<1> QED
  BY <1>3, <1>7, <1>8, <1>9, <1>10 DEF DLInv

LEMMA RemoveKeeps ==
    ASSUME DLInv, NEW c \in Cells, Remove(c), NEW s, Listed(s), Halfway(s)
    PROVE  /\ DLInv'
           /\ \E j \in 1 .. Len(s) : c = s[j] /\ Listed(Deleted(s, j))'
PROOF
<1> USE DEF Remove
<1>1. Ranks(s, allocated) /\ Len(s) = _size /\ Linked(s, next, prev) /\ Len(s) \in Nat
  BY NodesDiffer DEF Listed
<1>2. next \in [Cells \cup {Base} -> Pointers] /\ prev \in [Cells \cup {Base} -> Pointers]
  BY DEF DLInv, DLTypeOK
<1>3. PICK j \in 1 .. Len(s) : c = s[j]
  BY <1>1 DEF Ranks
<1> DEFINE t == Deleted(s, j)
<1>5. /\ Ranks(t, allocated') /\ Len(t) = Len(s) - 1
  BY <1>1, <1>3, RanksDeleted
<1>6. Linked(t, next', prev')
  BY <1>1, <1>2, <1>3, LinkedDeleted DEF ListDel
<1>7. Listed(t)'
  BY <1>1, <1>5, <1>6 DEF Listed
<1>8. Halfway(t)'
  <2> SUFFICES ASSUME removal = "current"
               PROVE  /\ ~crashed
                      /\ Walking => /\ tmp # pos
                                    /\ \E m \in 1 .. Len(t) + 1 :
                                         /\ tmp = NodeAt(t, m)
                                         /\ \A i \in 1 .. m - 1 : t[i] \in staying' => t[i] \in visited
    BY DEF Halfway, Walking
  <2>1. ~crashed
    BY DEF Halfway
  <2> SUFFICES ASSUME Walking
               PROVE  \E m \in 1 .. Len(t) + 1 :
                         /\ tmp = NodeAt(t, m)
                         /\ \A i \in 1 .. m - 1 : t[i] \in staying' => t[i] \in visited
    BY <2>1 DEF Halfway
  <2>2. PICK m \in 1 .. Len(s) + 1 :
          /\ tmp = NodeAt(s, m)
          /\ \A i \in 1 .. m - 1 : s[i] \in staying => s[i] \in visited
    BY DEF Halfway
  <2>3. \A i \in 1 .. Len(s) - 1 : t[i] = IF i < j THEN s[i] ELSE s[i + 1]
    BY <1>1 DEF Deleted
  <2>4. \A i \in 0 .. Len(s) :
          NodeAt(t, i) = IF i < j THEN NodeAt(s, i) ELSE NodeAt(s, i + 1)
    BY <1>1, NodeDeleted
  <2>5. m # j
    <3>1. tmp # pos /\ c = pos
      BY DEF Halfway
    <3> QED
      BY <1>1, <1>3, <2>2, <3>1, NodesDiffer
  <2> HIDE DEF t
  <2>6. CASE m < j
    <3>1. tmp = NodeAt(t, m) /\ m \in 1 .. Len(t) + 1
      BY <1>1, <1>5, <2>2, <2>4, <2>6
    <3>2. \A i \in 1 .. m - 1 : t[i] = s[i]
      BY <1>1, <2>3, <2>6
    <3> QED
      BY <2>2, <3>1, <3>2
  <2>7. CASE m > j
    <3>1. tmp = NodeAt(t, m - 1) /\ m - 1 \in 1 .. Len(t) + 1
      <4>1. m - 1 \in 0 .. Len(s) /\ ~ (m - 1 < j) /\ (m - 1) + 1 = m
        BY <1>1, <2>7
      <4> QED
        BY <1>1, <1>5, <2>2, <2>4, <2>7, <4>1
    <3>2. ASSUME NEW i \in 1 .. (m - 1) - 1, t[i] \in staying' PROVE t[i] \in visited
      <4>1. CASE i < j
        BY <1>1, <2>2, <2>3, <2>7, <3>2, <4>1
      <4>2. CASE i >= j
        <5>1. t[i] = s[i + 1] /\ i + 1 \in 1 .. m - 1
          BY <1>1, <2>3, <2>7, <4>2
        <5> QED
          BY <2>2, <3>2, <5>1
      <4> QED
        BY <4>1, <4>2
    <3> QED
      BY <3>1, <3>2
  <2> QED
    BY <1>1, <2>5, <2>6, <2>7
<1>9. DLTypeOK'
  <2>1. next[c] \in Pointers /\ prev[c] \in Pointers /\ Nil \in Pointers
    BY <1>2 DEF Pointers
  <2> QED
    BY <1>1, <1>2, <2>1 DEF DLInv, DLTypeOK, ListDel
<1>10. staying' \subseteq allocated' /\ (~Walking' => staying' = {})
  BY DEF DLInv, Walking
<1> QED
  BY <1>3, <1>7, <1>8, <1>9, <1>10 DEF DLInv

LEMMA ClearKeeps == ASSUME DLInv, Clear PROVE DLInv'
PROOF
<1> USE DEF Clear, walkVars
<1>1. Ranks(<< >>, {}) /\ Len(<< >>) = 0
  BY DEF Ranks
<1>2. next'[Base] = Base /\ prev'[Base] = Base
  OBVIOUS
<1>3. Linked(<< >>, next', prev')
  BY <1>2 DEF Linked, NodeAt
<1>4. Listed(<< >>)'
  BY <1>1, <1>3 DEF Listed
<1>5. Halfway(<< >>)'
  BY DEF Halfway, Walking, DLInv
<1>6. DLTypeOK'
  <2>1. \A c \in Cells \cup {Base} : (IF c = Base THEN Base ELSE Nil) \in Pointers
    BY DEF Pointers
  <2>2. /\ next' \in [Cells \cup {Base} -> Pointers]
        /\ prev' \in [Cells \cup {Base} -> Pointers]
    BY <2>1
  <2>3. allocated' \subseteq Cells /\ _size' \in Int
    OBVIOUS
  <2> HIDE DEF Clear
  <2>4. /\ removal' = removal /\ pos' = pos /\ tmp' = tmp /\ staying' = staying
        /\ visited' = visited /\ crashed' = crashed
    BY DEF Clear
  <2> QED
    BY <2>2, <2>3, <2>4 DEF DLInv, DLTypeOK
<1>7. staying' \subseteq allocated' /\ (~Walking' => staying' = {})
  BY DEF DLInv, Walking
<1> QED
  BY <1>4, <1>5, <1>6, <1>7 DEF DLInv

LEMMA ForEachKeeps == ASSUME DLInv, ForEach PROVE DLInv'
PROOF
<1> USE DEF ForEach
<1>1. PICK s : Listed(s) /\ Halfway(s)
  BY DEF DLInv
<1>2. Ranks(s, allocated) /\ Len(s) = _size /\ Linked(s, next, prev) /\ Len(s) \in Nat
  BY <1>1, NodesDiffer DEF Listed
<1>3. Listed(s)'
  BY <1>1 DEF Listed
<1>4. next[Base] = NodeAt(s, 1)
  <2>1. NodeAt(s, 0) = Base /\ 0 \in 0 .. Len(s)
    BY <1>2, NodesDiffer
  <2> QED
    BY <1>2, <2>1 DEF Linked
<1>5. next[Base] \in Cells \cup {Base} /\ Base \in Cells \cup {Base}
  BY <1>2, <1>4, NodesDiffer
<1>6. /\ pos' \in Pointers /\ tmp' \in Pointers /\ visited' \subseteq Cells
      /\ staying' \subseteq allocated' /\ (~Walking' => staying' = {})
  <2>1. next[next[Base]] \in Pointers
    BY <1>5 DEF DLInv, DLTypeOK
  <2> QED
    BY <1>5, <2>1, PointersDiffer DEF DLInv, DLTypeOK, CallFor, Walking, Pointers
<1>7. DLTypeOK'
  BY <1>6 DEF DLInv, DLTypeOK
<1>8. Halfway(s)'
  <2>1. CASE next[Base] = Base
    BY <1>1, <2>1 DEF CallFor, Halfway, Walking
  <2>2. CASE next[Base] # Base
    <3>1. 1 \in 1 .. Len(s) /\ next[Base] = s[1]
      BY <1>2, <1>4, <2>2, NodesDiffer DEF NodeAt, Ranks
    <3>2. next[next[Base]] = NodeAt(s, 2)
      <4>1. s[1] = NodeAt(s, 1) /\ 1 \in 0 .. Len(s)
        BY <1>2, <3>1, NodesDiffer
      <4> QED
        BY <1>2, <3>1, <4>1 DEF Linked
    <3>3. NodeAt(s, 2) # NodeAt(s, 1)
      <4>1. 1 \in 1 .. Len(s) + 1 /\ 2 \in 1 .. Len(s) + 1
        BY <1>2, <3>1
      <4> QED
        BY <1>2, <4>1, NodesDiffer
    <3>4. pos' = s[1] /\ tmp' = NodeAt(s, 2) /\ visited' = visited \cup {s[1]}
      BY <2>2, <3>1, <3>2 DEF CallFor
    <3>5. tmp' # pos' /\ 2 \in 1 .. Len(s) + 1
      BY <1>2, <1>4, <3>1, <3>3, <3>4
    <3>6. \A i \in 1 .. 2 - 1 : s[i] \in visited'
      BY <3>4
    <3> QED
      BY <1>1, <3>4, <3>5, <3>6 DEF Halfway
  <2> QED
    BY <2>1, <2>2
<1> QED
  BY <1>3, <1>6, <1>7, <1>8 DEF DLInv

LEMMA ReturnKeeps == ASSUME DLInv, CallbackReturns PROVE DLInv'
PROOF
<1> USE DEF CallbackReturns
<1>1. PICK s : Listed(s) /\ Halfway(s)
  BY DEF DLInv
<1>2. Ranks(s, allocated) /\ Len(s) = _size /\ Linked(s, next, prev) /\ Len(s) \in Nat
  BY <1>1, NodesDiffer DEF Listed
<1>3. Listed(s)'
  BY <1>1 DEF Listed
<1>4. CASE tmp \notin allocated \cup {Base}
  <2>1. removal # "current"
    <3> SUFFICES ASSUME removal = "current" PROVE FALSE
      OBVIOUS
    <3>1. PICK t \in 1 .. Len(s) + 1 : tmp = NodeAt(s, t)
      BY <1>1 DEF Halfway
    <3>2. tmp = Base \/ t \in 1 .. Len(s)
      BY <1>2, <3>1, NodesDiffer
    <3> QED
      BY <1>2, <1>4, <3>1, <3>2, NodesDiffer DEF Ranks
  <2>2. Halfway(s)'
    BY <2>1 DEF Halfway
  <2>3. DLTypeOK'
    BY <1>4 DEF DLInv, DLTypeOK
  <2>4. staying' \subseteq allocated' /\ (~Walking' => staying' = {})
    BY <1>4 DEF DLInv, Walking
  <2> QED
    BY <1>3, <2>2, <2>3, <2>4 DEF DLInv
<1>5. CASE tmp \in allocated \cup {Base}
  <2>0. allocated \subseteq Cells
    BY DEF DLInv, DLTypeOK
  <2>1. /\ pos' \in Pointers /\ tmp' \in Pointers /\ visited' \subseteq Cells
        /\ staying' \subseteq allocated' /\ (~Walking' => staying' = {})
    <3>1. next[tmp] \in Pointers /\ tmp # Nil /\ Nil \in Pointers /\ tmp \in Pointers
      BY <1>5, <2>0, PointersDiffer DEF DLInv, DLTypeOK, Pointers
    <3>2. CASE tmp = Base
      BY <1>5, <3>1, <3>2 DEF CallFor, Walking
    <3>3. CASE tmp # Base
      BY <1>5, <2>0, <3>1, <3>3 DEF CallFor, Walking, DLInv, DLTypeOK
    <3> QED
      BY <3>2, <3>3
  <2>2. DLTypeOK'
    BY <1>5, <2>1 DEF DLInv, DLTypeOK
  <2>3. Halfway(s)'
    <3> SUFFICES ASSUME removal = "current" PROVE Halfway(s)'
      BY DEF Halfway
    <3>1. PICK t \in 1 .. Len(s) + 1 :
            /\ tmp = NodeAt(s, t)
            /\ \A i \in 1 .. t - 1 : s[i] \in staying => s[i] \in visited
      BY <1>1 DEF Halfway
    <3>2. ~crashed /\ crashed' = crashed
      BY <1>1, <1>5 DEF Halfway
    <3>3. CASE tmp = Base
      BY <1>5, <3>2, <3>3 DEF CallFor, Walking, Halfway
    <3>4. CASE tmp # Base
      <4>1. t \in 1 .. Len(s) /\ tmp = s[t] /\ t \in 0 .. Len(s)
        BY <1>2, <3>1, <3>4, NodesDiffer
      <4>2. next[tmp] = NodeAt(s, t + 1)
        BY <1>2, <3>1, <4>1 DEF Linked
      <4>3. NodeAt(s, t + 1) # NodeAt(s, t)
        <5>1. t \in 1 .. Len(s) + 1 /\ t + 1 \in 1 .. Len(s) + 1 /\ t # t + 1
          BY <1>2, <4>1
        <5> QED
          BY <1>2, <5>1, NodesDiffer
      <4>4. /\ pos' = tmp /\ tmp' = NodeAt(s, t + 1) /\ visited' = visited \cup {tmp}
            /\ staying' = staying
        BY <1>5, <3>4, <4>2 DEF CallFor
      <4>5. \A i \in 1 .. (t + 1) - 1 : s[i] \in staying' => s[i] \in visited'
        BY <1>2, <3>1, <4>1, <4>4
      <4>6. tmp' # pos' /\ t + 1 \in 1 .. Len(s) + 1
        BY <1>2, <3>1, <4>1, <4>3, <4>4
      <4> QED
        BY <3>2, <4>4, <4>5, <4>6 DEF Halfway
    <3> QED
      BY <3>3, <3>4
  <2> QED
    BY <1>3, <2>1, <2>2, <2>3 DEF DLInv
<1> QED
  BY <1>4, <1>5

LEMMA ListSteps == DLInv /\ [DLNext]_dlVars => DLInv'
PROOF
<1> SUFFICES ASSUME DLInv, [DLNext]_dlVars PROVE DLInv'
  OBVIOUS
<1>1. PICK s : Listed(s) /\ Halfway(s)
  BY DEF DLInv
<1>2. ASSUME NEW c \in Cells, NEW at \in Cells \cup {Base}, Add(c, at) PROVE DLInv'
  BY <1>1, <1>2, AddKeeps
<1>3. ASSUME NEW c \in Cells, Remove(c) PROVE DLInv'
  BY <1>1, <1>3, RemoveKeeps
<1>4. CASE Clear
  BY <1>4, ClearKeeps
<1>5. CASE ForEach
  BY <1>5, ForEachKeeps
<1>6. CASE CallbackReturns
  BY <1>6, ReturnKeeps
<1>7. CASE CallbackStops
  <2>1. Listed(s)' /\ Halfway(s)'
    BY <1>1, <1>7 DEF CallbackStops, Listed, Halfway, Walking
  <2>2. DLTypeOK' /\ staying' \subseteq allocated' /\ (~Walking' => staying' = {})
    BY <1>7 DEF CallbackStops, DLInv, DLTypeOK, Walking, Pointers
  <2> QED
    BY <2>1, <2>2 DEF DLInv
<1>8. CASE UNCHANGED dlVars
  <2>1. Listed(s)' /\ Halfway(s)'
    BY <1>1, <1>8 DEF Listed, Halfway, Walking, dlVars, walkVars
  <2>2. DLTypeOK' /\ staying' \subseteq allocated' /\ (~Walking' => staying' = {})
    BY <1>8 DEF dlVars, walkVars, DLInv, DLTypeOK, Walking
  <2> QED
    BY <2>1, <2>2 DEF DLInv
<1> QED
  BY <1>2, <1>3, <1>4, <1>5, <1>6, <1>7, <1>8 DEF DLNext

(* The circle stays closed, and a walk never loses its place, for every    *)
(* memory: the invariant the theorems below rest on.                       *)
THEOREM ListsStaySound == DLSpec => []DLInv
PROOF
<1> QED
  BY ListStarts, ListSteps, PTL DEF DLSpec
-----------------------------------------------------------------------------
(* A sequence of different cells is as long as the set of them is large.   *)
LEMMA RanksCount ==
    ASSUME NEW s, NEW S, Ranks(s, S)
    PROVE  /\ Cardinality(S) = Len(s)
           /\ Cardinality(Cells) \in Nat /\ Len(s) <= Cardinality(Cells)
PROOF
<1>1. s \in Seq(Cells) /\ Len(s) \in Nat /\ \A i \in 1 .. Len(s) : s[i] \in Cells
  BY DEF Ranks
<1>2. s \in [1 .. Len(s) -> S]
  BY <1>1 DEF Ranks
<1>3. s \in Bijection(1 .. Len(s), S)
  BY <1>2 DEF Ranks, Bijection, Injection, Surjection, IsInjective
<1>4. Cardinality(S) = Len(s)
  BY <1>1, <1>3, FS_CountingElements DEF ExistsBijection
<1>5. S \subseteq Cells
  BY <1>1 DEF Ranks
<1> QED
  BY <1>4, <1>5, MemoryIsFinite, FS_CardinalityType, FS_Subset

LEMMA AheadIsTheList ==
    ASSUME NEW s, Listed(s)
    PROVE  \A k \in 0 .. Len(s) + 1 : Ahead[k] = NodeAt(s, k)
PROOF
<1>1. Ranks(s, allocated) /\ Linked(s, next, prev) /\ Len(s) \in Nat
  BY NodesDiffer DEF Listed
<1>2. Cardinality(Cells) \in Nat /\ Len(s) <= Cardinality(Cells)
  BY <1>1, RanksCount
<1>3. /\ Ahead[0] = Base
      /\ \A k \in 1 .. Cardinality(Cells) + 1 : Ahead[k] = Follow(Ahead[k - 1])
  BY <1>2, AheadFollows
<1> DEFINE Bad == {k \in 0 .. Len(s) + 1 : Ahead[k] # NodeAt(s, k)}
<1>4. SUFFICES ASSUME Bad # {} PROVE FALSE
  OBVIOUS
<1>5. Bad \in SUBSET Nat
  BY <1>1
<1>6. PICK m \in Bad : \A y \in Bad : m <= y
  BY <1>4, <1>5, LeastElement
<1>7. m \in 0 .. Len(s) + 1 /\ Ahead[m] # NodeAt(s, m)
  OBVIOUS
<1>8. m # 0
  BY <1>1, <1>3, <1>7, NodesDiffer
<1>9. m - 1 \in 0 .. Len(s) + 1 /\ m - 1 \in 0 .. Len(s) /\ ~ (m <= m - 1) /\ (m - 1) + 1 = m
  BY <1>1, <1>7, <1>8
<1>10. Ahead[m - 1] = NodeAt(s, m - 1)
  BY <1>6, <1>9
<1>11. NodeAt(s, m - 1) # Nil
  BY <1>1, <1>9, NodesDiffer, PointersDiffer
<1>12. next[NodeAt(s, m - 1)] = NodeAt(s, m)
  BY <1>1, <1>9 DEF Linked
<1>13. Ahead[m] = next[NodeAt(s, m - 1)]
  <2>1. m \in 1 .. Cardinality(Cells) + 1
    BY <1>1, <1>2, <1>7, <1>8
  <2> QED
    BY <1>3, <1>10, <1>11, <2>1 DEF Follow
<1> QED
  BY <1>7, <1>12, <1>13

ItemsListed == \A s : Listed(s) => Items = s

LEMMA ItemsAreTheList == ItemsListed
PROOF
<1> SUFFICES ASSUME NEW s, Listed(s) PROVE Items = s
  BY DEF ItemsListed
<1>1. /\ s \in Seq(Cells) /\ Len(s) \in Nat /\ Len(s) = _size
      /\ \A i \in 1 .. Len(s) : NodeAt(s, i) = s[i]
  BY NodesDiffer DEF Listed, Ranks
<1>2. \A i \in 1 .. _size : Ahead[i] = s[i]
  BY <1>1, AheadIsTheList
<1>3. s = [i \in 1 .. _size |-> s[i]]
  BY <1>1
<1> QED
  BY <1>2, <1>3 DEF Items

LEMMA SoundListsAreCircular == DLInv => Circular
PROOF
<1> SUFFICES ASSUME DLInv PROVE Circular
  OBVIOUS
<1>1. PICK s : Listed(s)
  BY DEF DLInv
<1>2. Ranks(s, allocated) /\ Len(s) = _size /\ Linked(s, next, prev) /\ Len(s) \in Nat
  BY <1>1, NodesDiffer DEF Listed
<1>3. \A k \in 0 .. _size + 1 : Ahead[k] = NodeAt(s, k)
  BY <1>1, <1>2, AheadIsTheList
<1>4. Items = s /\ DOMAIN s = 1 .. _size
  BY <1>1, <1>2, ItemsAreTheList DEF Ranks, ItemsListed
<1>5. {Items[i] : i \in DOMAIN Items} = allocated /\ Cardinality(allocated) = _size
  BY <1>2, <1>4, RanksCount DEF Ranks
<1>6. Ahead[_size + 1] = Base
  BY <1>2, <1>3, NodesDiffer
<1>7. \A i \in 0 .. _size : prev[Ahead[i + 1]] = Ahead[i]
  BY <1>2, <1>3 DEF Linked
<1> QED
  BY <1>5, <1>6, <1>7 DEF Circular

LEMMA InsertedIs ==
    ASSUME NEW s \in Seq(Cells), NEW c \in Cells, NEW j \in 1 .. Len(s) + 1
    PROVE  Inserted(s, j, c) = SubSeq(s, 1, j - 1) \o <<c>> \o SubSeq(s, j, Len(s))
PROOF
<1> DEFINE front == SubSeq(s, 1, j - 1)
           back == SubSeq(s, j, Len(s))
           u == (front \o <<c>>) \o back
           t == Inserted(s, j, c)
<1>1. Len(s) \in Nat /\ \A i \in 1 .. Len(s) : s[i] \in Cells
  OBVIOUS
<1>2. /\ front \in Seq(Cells) /\ Len(front) = j - 1
      /\ \A i \in 1 .. j - 1 : front[i] = s[i]
  <2>1. \A i \in 1 .. j - 1 : s[i] \in Cells
    BY <1>1
  <2> QED
    BY <1>1, <2>1, SubSeqProperties
<1>3. /\ back \in Seq(Cells) /\ Len(back) = Len(s) - j + 1
      /\ \A i \in 1 .. Len(s) - j + 1 : back[i] = s[j + i - 1]
  <2>1. \A i \in j .. Len(s) : s[i] \in Cells
    BY <1>1
  <2> QED
    BY <1>1, <2>1, SubSeqProperties
<1>4. <<c>> \in Seq(Cells) /\ Len(<<c>>) = 1 /\ <<c>>[1] = c
  OBVIOUS
<1> HIDE DEF front, back
<1>5. /\ front \o <<c>> \in Seq(Cells) /\ Len(front \o <<c>>) = j
      /\ \A i \in 1 .. j : (front \o <<c>>)[i] = IF i < j THEN s[i] ELSE c
  BY <1>1, <1>2, <1>4, ConcatProperties
<1>6. /\ u \in Seq(Cells) /\ Len(u) = Len(s) + 1
      /\ \A i \in 1 .. Len(s) + 1 : u[i] = IF i <= j THEN (front \o <<c>>)[i] ELSE back[i - j]
  BY <1>1, <1>3, <1>5, ConcatProperties
<1>7. \A i \in 1 .. Len(s) + 1 :
        u[i] = IF i < j THEN s[i] ELSE IF i = j THEN c ELSE s[i - 1]
  <2> SUFFICES ASSUME NEW i \in 1 .. Len(s) + 1
               PROVE  u[i] = IF i < j THEN s[i] ELSE IF i = j THEN c ELSE s[i - 1]
    OBVIOUS
  <2> HIDE DEF u
  <2>1. CASE i <= j
    BY <1>1, <1>5, <1>6, <2>1
  <2>2. CASE i > j
    <3>1. i - j \in 1 .. Len(s) - j + 1 /\ j + (i - j) - 1 = i - 1
      BY <1>1, <2>2
    <3> QED
      BY <1>1, <1>3, <1>6, <2>2, <3>1
  <2> QED
    BY <1>1, <2>1, <2>2
<1>8. /\ t \in Seq(Cells) /\ Len(t) = Len(s) + 1
      /\ \A k \in 1 .. Len(s) + 1 :
           t[k] = IF k < j THEN s[k] ELSE IF k = j THEN c ELSE s[k - 1]
  <2>1. \A k \in 1 .. Len(s) + 1 :
          (IF k < j THEN s[k] ELSE IF k = j THEN c ELSE s[k - 1]) \in Cells
    BY <1>1
  <2> QED
    BY <1>1, <2>1 DEF Inserted
<1> HIDE DEF t, u
<1>9. t = u
  BY <1>6, <1>7, <1>8, SeqEqual
<1> QED
  BY <1>9 DEF t, u, front, back

LEMMA AppendedIs ==
    ASSUME NEW s \in Seq(Cells), NEW c \in Cells
    PROVE  Inserted(s, Len(s) + 1, c) = Append(s, c)
PROOF
<1>1. Len(s) \in Nat /\ Len(s) + 1 \in 1 .. Len(s) + 1
  OBVIOUS
<1>2. Inserted(s, Len(s) + 1, c)
        = SubSeq(s, 1, (Len(s) + 1) - 1) \o <<c>> \o SubSeq(s, Len(s) + 1, Len(s))
  BY <1>1, InsertedIs
<1>3. SubSeq(s, 1, (Len(s) + 1) - 1) = s
  BY <1>1
<1>4. SubSeq(s, Len(s) + 1, Len(s)) = << >>
  BY <1>1, SubSeqEmpty
<1>5. s \o <<c>> = Append(s, c) /\ Append(s, c) \in Seq(Cells)
  BY AppendIsConcat
<1>6. Append(s, c) \o << >> = Append(s, c)
  BY <1>5, ConcatEmptySeq
<1> QED
  BY <1>2, <1>3, <1>4, <1>5, <1>6

LEMMA DeletedIs ==
    ASSUME NEW s \in Seq(Cells), NEW j \in 1 .. Len(s)
    PROVE  Deleted(s, j) = SubSeq(s, 1, j - 1) \o SubSeq(s, j + 1, Len(s))
PROOF
<1> DEFINE front == SubSeq(s, 1, j - 1)
           back == SubSeq(s, j + 1, Len(s))
           u == front \o back
           t == Deleted(s, j)
<1>1. Len(s) \in Nat /\ \A i \in 1 .. Len(s) : s[i] \in Cells
  OBVIOUS
<1>2. /\ front \in Seq(Cells) /\ Len(front) = j - 1
      /\ \A i \in 1 .. j - 1 : front[i] = s[i]
  <2>1. \A i \in 1 .. j - 1 : s[i] \in Cells
    BY <1>1
  <2> QED
    BY <1>1, <2>1, SubSeqProperties
<1>3. /\ back \in Seq(Cells) /\ Len(back) = Len(s) - j
      /\ \A i \in 1 .. Len(s) - j : back[i] = s[j + i]
  <2>1. \A i \in j + 1 .. Len(s) : s[i] \in Cells
    BY <1>1
  <2>2. \A i \in 1 .. Len(s) - (j + 1) + 1 : back[i] = s[(j + 1) + i - 1]
    BY <1>1, <2>1, SubSeqProperties
  <2>3. ASSUME NEW i \in 1 .. Len(s) - j PROVE back[i] = s[j + i]
    <3>1. i \in 1 .. Len(s) - (j + 1) + 1 /\ (j + 1) + i - 1 = j + i
      BY <1>1
    <3> HIDE DEF back
    <3> QED
      BY <2>2, <3>1
  <2>5. back \in Seq(Cells) /\ Len(back) = Len(s) - j
    BY <1>1, <2>1, SubSeqProperties
  <2> QED
    BY <2>3, <2>5
<1> HIDE DEF front, back
<1>6. /\ u \in Seq(Cells) /\ Len(u) = Len(s) - 1
      /\ \A i \in 1 .. Len(s) - 1 : u[i] = IF i < j THEN front[i] ELSE back[i - (j - 1)]
  <2>1. Len(front) + Len(back) = Len(s) - 1
    BY <1>1, <1>2, <1>3
  <2>2. /\ u \in Seq(Cells) /\ Len(u) = Len(front) + Len(back)
        /\ \A i \in 1 .. Len(front) + Len(back) :
             u[i] = IF i <= Len(front) THEN front[i] ELSE back[i - Len(front)]
    BY <1>2, <1>3, ConcatProperties
  <2> HIDE DEF u
  <2> QED
    BY <1>1, <1>2, <2>1, <2>2
<1>7. \A i \in 1 .. Len(s) - 1 : u[i] = IF i < j THEN s[i] ELSE s[i + 1]
  <2> SUFFICES ASSUME NEW i \in 1 .. Len(s) - 1
               PROVE  u[i] = IF i < j THEN s[i] ELSE s[i + 1]
    OBVIOUS
  <2> HIDE DEF u
  <2>1. CASE i < j
    <3>1. i \in 1 .. j - 1
      BY <2>1
    <3>2. front[i] = s[i]
      BY <1>2, <3>1
    <3>3. u[i] = front[i]
      BY <1>6, <2>1
    <3> QED
      BY <2>1, <3>2, <3>3
  <2>2. CASE i >= j
    <3>1. i - (j - 1) \in 1 .. Len(s) - j /\ j + (i - (j - 1)) = i + 1
      BY <1>1, <2>2
    <3> QED
      BY <1>1, <1>3, <1>6, <2>2, <3>1
  <2> QED
    BY <1>1, <2>1, <2>2
<1>8. /\ t \in Seq(Cells) /\ Len(t) = Len(s) - 1
      /\ \A k \in 1 .. Len(s) - 1 : t[k] = IF k < j THEN s[k] ELSE s[k + 1]
  <2>1. \A k \in 1 .. Len(s) - 1 : (IF k < j THEN s[k] ELSE s[k + 1]) \in Cells
    BY <1>1
  <2> QED
    BY <1>1, <2>1 DEF Deleted
<1> HIDE DEF t, u
<1>9. t = u
  BY <1>6, <1>7, <1>8, SeqEqual
<1> QED
  BY <1>9 DEF t, u, front, back
-----------------------------------------------------------------------------
LEMMA StepsOnItems ==
    ASSUME DLInv, ItemsListed, ItemsListed'
    PROVE  /\ \A c \in Cells : Add(c, Base) => Items' = Append(Items, c)
           /\ \A c \in Cells, i \in 1 .. _size : Add(c, Items[i]) =>
                Items' = SubSeq(Items, 1, i - 1) \o <<c>> \o SubSeq(Items, i, _size)
           /\ \A i \in 1 .. _size : Remove(Items[i]) =>
                Items' = SubSeq(Items, 1, i - 1) \o SubSeq(Items, i + 1, _size)
PROOF
<1>1. PICK s : Listed(s) /\ Halfway(s)
  BY DEF DLInv
<1>2. /\ Ranks(s, allocated) /\ Len(s) = _size /\ Len(s) \in Nat
      /\ s \in Seq(Cells) /\ Items = s
  BY <1>1, NodesDiffer DEF Listed, Ranks, ItemsListed
<1>3. ASSUME NEW c \in Cells, Add(c, Base) PROVE Items' = Append(Items, c)
  <2>1. PICK j \in 1 .. Len(s) + 1 : Base = NodeAt(s, j) /\ Listed(Inserted(s, j, c))'
    BY <1>1, <1>3, AddKeeps
  <2>2. j = Len(s) + 1
    <3>1. Len(s) + 1 \in 1 .. Len(s) + 1
      BY <1>2
    <3> QED
      BY <1>2, <2>1, <3>1, NodesDiffer
  <2>3. Items' = Inserted(s, Len(s) + 1, c)
    BY <2>1, <2>2 DEF ItemsListed
  <2> QED
    BY <1>2, <2>3, AppendedIs
<1>4. ASSUME NEW c \in Cells, NEW i \in 1 .. _size, Add(c, Items[i])
      PROVE  Items' = SubSeq(Items, 1, i - 1) \o <<c>> \o SubSeq(Items, i, _size)
  <2>1. /\ i \in 1 .. Len(s) /\ i \in 1 .. Len(s) + 1 /\ Items[i] = s[i]
        /\ s[i] = NodeAt(s, i) /\ s[i] \in Cells
    BY <1>2, NodesDiffer
  <2>2. PICK j \in 1 .. Len(s) + 1 : s[i] = NodeAt(s, j) /\ Listed(Inserted(s, j, c))'
    BY <1>1, <1>4, <2>1, AddKeeps
  <2>3. j = i
    BY <1>2, <2>1, <2>2, NodesDiffer
  <2>4. Items' = Inserted(s, i, c)
    BY <2>2, <2>3 DEF ItemsListed
  <2> QED
    BY <1>2, <2>1, <2>4, InsertedIs
<1>5. ASSUME NEW i \in 1 .. _size, Remove(Items[i])
      PROVE  Items' = SubSeq(Items, 1, i - 1) \o SubSeq(Items, i + 1, _size)
  <2>1. i \in 1 .. Len(s) /\ Items[i] = s[i] /\ s[i] \in Cells
    BY <1>2, NodesDiffer
  <2>2. PICK j \in 1 .. Len(s) : s[i] = s[j] /\ Listed(Deleted(s, j))'
    BY <1>1, <1>5, <2>1, RemoveKeeps
  <2>3. j = i
    BY <1>2, <2>1, <2>2 DEF Ranks
  <2>4. Items' = Deleted(s, i)
    BY <2>2, <2>3 DEF ItemsListed
  <2> QED
    BY <1>2, <2>1, <2>4, DeletedIs
<1> QED
  BY <1>3, <1>4, <1>5

(* A linked list is a sequence, for every memory: an addition at the head  *)
(* appends, one at a cell inserts in front of it, a removal takes out one  *)
(* cell and leaves the rest in its order, also while forEach walks it      *)
(* (dlist.h:46-101, linkedlist.c:33-56).                                   *)
THEOREM ListsActAsSequences == DLSpec => ActsAsSequence
PROOF
<1>1. DLInv /\ DLInv' /\ ItemsListed /\ ItemsListed' /\ Circular' =>
        /\ Circular'
        /\ \A c \in Cells : Add(c, Base) => Items' = Append(Items, c)
        /\ \A c \in Cells, i \in 1 .. _size : Add(c, Items[i]) =>
             Items' = SubSeq(Items, 1, i - 1) \o <<c>> \o SubSeq(Items, i, _size)
        /\ \A i \in 1 .. _size : Remove(Items[i]) =>
             Items' = SubSeq(Items, 1, i - 1) \o SubSeq(Items, i + 1, _size)
  BY StepsOnItems
<1> QED
  BY <1>1, ListsStaySound, ItemsAreTheList, SoundListsAreCircular, PTL DEF ActsAsSequence

LEMMA WalkSteps ==
    ASSUME DLInv, [DLNext]_dlVars, DLInv', removal = "current"
    PROVE  /\ ~crashed'
           /\ CallbackReturns /\ tmp = Base => staying \subseteq visited
PROOF
<1>1. removal' = removal
  <2>1. ASSUME NEW c \in Cells, NEW at \in Cells \cup {Base}, Add(c, at) PROVE removal' = removal
    BY <2>1 DEF Add
  <2>2. ASSUME NEW c \in Cells, Remove(c) PROVE removal' = removal
    BY <2>2 DEF Remove
  <2>3. Clear \/ ForEach \/ CallbackReturns \/ CallbackStops \/ UNCHANGED dlVars
          => removal' = removal
    BY DEF Clear, ForEach, CallbackReturns, CallbackStops, dlVars
  <2> QED
    BY <2>1, <2>2, <2>3 DEF DLNext
<1>2. ~crashed'
  BY <1>1 DEF DLInv, Halfway
<1>3. ASSUME CallbackReturns, tmp = Base PROVE staying \subseteq visited
  <2>1. PICK s : Listed(s) /\ Halfway(s)
    BY DEF DLInv
  <2>2. Ranks(s, allocated) /\ Len(s) \in Nat
    BY <2>1, NodesDiffer DEF Listed
  <2>3. PICK t \in 1 .. Len(s) + 1 :
          /\ tmp = NodeAt(s, t)
          /\ \A i \in 1 .. t - 1 : s[i] \in staying => s[i] \in visited
    BY <1>3, <2>1 DEF Halfway, CallbackReturns
  <2>4. t = Len(s) + 1
    <3>1. Len(s) + 1 \in 1 .. Len(s) + 1
      BY <2>2
    <3> QED
      BY <1>3, <2>2, <2>3, <3>1, NodesDiffer
  <2>5. \A x \in staying : \E i \in 1 .. t - 1 : x = s[i]
    BY <2>2, <2>4 DEF DLInv, Ranks
  <2> QED
    BY <2>3, <2>5
<1> QED
  BY <1>2, <1>3

(* forEach, with callbacks that remove only the cell they are called for,  *)
(* uses no freed cell and misses none that stays (linkedlist.c:203).       *)
THEOREM WalksVisitAll == DLSpec => VisitsAll
PROOF
<1>1. DLInv /\ [DLNext]_dlVars /\ DLInv' =>
        (removal = "current" => /\ ~crashed'
                                /\ CallbackReturns /\ tmp = Base => staying \subseteq visited)
  BY WalkSteps
<1> QED
  BY <1>1, ListsStaySound, PTL DEF DLSpec, VisitsAll
-----------------------------------------------------------------------------
(* The types of the containers, connections and packets, whatever the      *)
(* program does with them: also without a lock, and with the index that    *)
(* readReady returned passed on to readFinish.                             *)

(* A set of numbers below a bound has a greatest one.                      *)
LEMMA GreatestElement ==
    ASSUME NEW n \in Nat, NEW T \in SUBSET (0 .. n - 1), T # {}
    PROVE  \E x \in T : \A y \in T : y <= x
PROOF
<1> DEFINE below == {n - x : x \in T}
<1>1. below \in SUBSET Nat /\ below # {}
  OBVIOUS
<1>2. PICK m \in below : \A y \in below : m <= y
  <2> HIDE DEF below
  <2> QED
    BY <1>1, LeastElement
<1>3. PICK x \in T : m = n - x
  OBVIOUS
<1>4. ASSUME NEW y \in T PROVE y <= x
  <2>1. n - x <= n - y
    BY <1>2, <1>3
  <2>2. x \in Int /\ y \in Int
    OBVIOUS
  <2> QED
    BY <2>1, <2>2
<1> QED
  BY <1>4

LEMMA CopyTyped ==
    ASSUME RBTypeOK, PutCopy
    PROVE  buffer' \in [0 .. capacity - 1 -> Bytes]
PROOF
<1> DEFINE Here(s) == {i \in 0 .. putSize - 1 : Slot(in, i) = s}
           Pick(s) == CHOOSE i \in Here(s) : \A j \in Here(s) : j <= i
<1>1. putSize \in Nat /\ data \in Seq(Values) /\ DOMAIN buffer = 0 .. capacity - 1
      /\ \A s \in 0 .. capacity - 1 : buffer[s] \in Bytes
  BY WrapIsNumber DEF RBTypeOK
<1>2. buffer' = [s \in DOMAIN buffer |-> IF Here(s) = {} THEN buffer[s] ELSE Offered(Pick(s))]
  BY DEF PutCopy
<1>3. \A i \in 0 .. putSize - 1 : Offered(i) \in Bytes
  BY <1>1 DEF Offered, Bytes
<1>4. ASSUME NEW s, Here(s) # {} PROVE Offered(Pick(s)) \in Bytes
  <2> DEFINE T == Here(s)
  <2>1. T \in SUBSET (0 .. putSize - 1) /\ T # {}
    BY <1>4
  <2> HIDE DEF T
  <2>2. \E i \in T : \A j \in T : j <= i
    BY <1>1, <2>1, GreatestElement
  <2>3. (CHOOSE i \in T : \A j \in T : j <= i) \in T
    BY <2>2
  <2>4. Pick(s) \in 0 .. putSize - 1
    BY <2>1, <2>3 DEF T
  <2> HIDE DEF Pick
  <2> QED
    BY <1>3, <2>4
<1> HIDE DEF Here, Pick
<1> QED
  BY <1>1, <1>2, <1>4

LEMMA RemaindersAreIndices ==
    ASSUME NEW x \in Int
    PROVE  x % Wrap \in 0 .. Wrap - 1
PROOF
<1> QED
  BY WrapIsNumber, Quotient

LEMMA BuffersTyped == RBTypeOK /\ [RBNext]_rbVars => RBTypeOK'
PROOF
<1> SUFFICES ASSUME RBTypeOK, [RBNext]_rbVars PROVE RBTypeOK'
  OBVIOUS
<1>0. /\ in \in Int /\ out \in Int /\ putSize \in Nat /\ getSize \in Nat
      /\ Wrap \in Nat \ {0} /\ capacity \in Nat /\ Len(data) \in Nat /\ room \in Nat
  BY WrapIsNumber, CapacitiesDivide DEF RBTypeOK
<1>1. Free \in 0 .. Wrap - 1 /\ Stored \in 0 .. Wrap - 1
  <2> DEFINE x == capacity - in + out
             y == in - out
  <2>1. x \in Int /\ y \in Int
    BY <1>0
  <2> HIDE DEF x, y
  <2>2. x % Wrap \in 0 .. Wrap - 1 /\ y % Wrap \in 0 .. Wrap - 1
    BY <2>1, RemaindersAreIndices
  <2> QED
    BY <2>2 DEF Free, Stored, x, y
<1>2. ASSUME NEW batch \in Batches, Put(batch) PROVE RBTypeOK'
  <2>1. batch \in Seq(Values)
    BY BatchIsNumber DEF Batches
  <2> QED
    BY <1>2, <2>1 DEF Put, ringVars, readerVars, RBTypeOK, Places
<1>3. CASE PutLimit \/ PutReload
  <2>1. putSize' \in 0 .. Wrap - 1 /\ putting' \in Places
    BY <1>0, <1>1, <1>3 DEF PutLimit, PutReload, Places
  <2> QED
    BY <1>3, <2>1 DEF PutLimit, PutReload, ringVars, readerVars, RBTypeOK
<1>4. CASE PutCopy
  BY <1>4, CopyTyped DEF PutCopy, readerVars, RBTypeOK, Places
<1>5. CASE PutMove
  <2>1. in' \in 0 .. Wrap - 1
    <3> DEFINE x == in + putSize
    <3>1. x \in Int
      BY <1>0
    <3> HIDE DEF x
    <3>2. x % Wrap \in 0 .. Wrap - 1
      BY <1>0, <3>1, Quotient
    <3> QED
      BY <1>5, <3>2 DEF PutMove, x
  <2> QED
    BY <1>0, <1>5, <2>1 DEF PutMove, readerVars, RBTypeOK, Places
<1>6. ASSUME NEW n \in 0 .. MaxBatch, Get(n) PROVE RBTypeOK'
  BY <1>6, BatchIsNumber DEF Get, ringVars, writerVars, RBTypeOK, Places
<1>7. CASE GetLimit \/ GetReload
  <2>1. getSize' \in 0 .. Wrap - 1 /\ getting' \in Places
    BY <1>0, <1>1, <1>7 DEF GetLimit, GetReload, Places
  <2> QED
    BY <1>7, <2>1 DEF GetLimit, GetReload, ringVars, writerVars, RBTypeOK
<1>8. CASE GetCopy
  <2>1. \A s : (IF s \in DOMAIN buffer THEN buffer[s] ELSE Junk) \in Bytes
    BY DEF RBTypeOK, Bytes
  <2>2. copied' \in Seq(Bytes)
    BY <1>0, <1>8, <2>1 DEF GetCopy
  <2> QED
    BY <1>8, <2>2 DEF GetCopy, ringVars, writerVars, RBTypeOK, Places
<1>9. CASE GetMove
  <2>1. out' \in 0 .. Wrap - 1
    <3> DEFINE x == out + getSize
    <3>1. x \in Int
      BY <1>0
    <3> HIDE DEF x
    <3>2. x % Wrap \in 0 .. Wrap - 1
      BY <1>0, <3>1, Quotient
    <3> QED
      BY <1>9, <3>2 DEF GetMove, x
  <2> QED
    BY <1>0, <1>9, <2>1 DEF GetMove, writerVars, RBTypeOK, Places
<1>10. ASSUME NEW n \in 1 .. MaxBatch, MoveReadPosition(n) PROVE RBTypeOK'
  <2>1. out' \in 0 .. Wrap - 1
    <3> DEFINE x == out + n
    <3>1. x \in Int
      BY <1>0, BatchIsNumber
    <3> HIDE DEF x
    <3>2. x % Wrap \in 0 .. Wrap - 1
      BY <1>0, <3>1, Quotient
    <3> QED
      BY <1>10, <3>2 DEF MoveReadPosition, x
  <2> QED
    BY <1>10, <2>1 DEF MoveReadPosition, writerVars, readerVars, RBTypeOK
<1>11. CASE UNCHANGED rbVars
  BY <1>11 DEF rbVars, ringVars, writerVars, readerVars, RBTypeOK
<1> QED
  BY <1>2, <1>3, <1>4, <1>5, <1>6, <1>7, <1>8, <1>9, <1>10, <1>11 DEF RBNext

(* The writer and the reader of a ring array hold a slot between ready and *)
(* finish.                                                                 *)
ArraysTyped ==
    /\ RATypeOK
    /\ writing # "out" => item # <<>>
    /\ reading # "out" => rresult \in 0 .. size - 1

LEMMA ArrayStepsTyped == ArraysTyped /\ [RANext]_raVars => ArraysTyped'
PROOF
<1> SUFFICES ASSUME ArraysTyped, [RANext]_raVars PROVE ArraysTyped'
  OBVIOUS
<1>0. /\ size \in Sizes /\ size \in Nat \ {0}
      /\ rindex \in 0 .. size - 1 /\ windex \in 0 .. size - 1
      /\ nmemb \in Int /\ wcount \in Int /\ rcount \in Int
      /\ item \in Seq(Entries) /\ taken \in Seq(Entries \cup {Unfilled})
  BY SizesArePositive DEF ArraysTyped, RATypeOK
<1>1. ASSUME NEW v \in Entries, WriteReady(v) PROVE ArraysTyped'
  <2>1. <<v>> \in Seq(Entries) /\ <<v>> # <<>>
    OBVIOUS
  <2> QED
    BY <1>0, <1>1, <2>1 DEF WriteReady, slotVars, indexVars, rVars, ArraysTyped, RATypeOK
<1>2. CASE Fill
  <2>1. item[1] \in Entries
    BY <1>0, <1>2 DEF Fill, ArraysTyped
  <2>2. slots' \in [0 .. size - 1 -> Entries \cup {Unfilled}]
    BY <1>2, <2>1 DEF Fill, ArraysTyped, RATypeOK
  <2> QED
    BY <1>2, <2>2 DEF Fill, indexVars, rVars, ArraysTyped, RATypeOK
<1>3. CASE WriteFinish
  <2>1. windex' \in 0 .. size - 1
    <3> DEFINE x == windex + 1
    <3>1. x \in Int
      BY <1>0
    <3> HIDE DEF x
    <3>2. x % size \in 0 .. size - 1
      BY <1>0, <3>1, Quotient
    <3> QED
      BY <1>3, <3>2 DEF WriteFinish, x
  <2> QED
    BY <1>3, <2>1 DEF WriteFinish, slotVars, rVars, ArraysTyped, RATypeOK
<1>4. CASE WriteLoad
  BY <1>0, <1>4 DEF WriteLoad, slotVars, indexVars, rVars, ArraysTyped, RATypeOK
<1>5. CASE WriteStore
  BY <1>0, <1>5 DEF WriteStore, slotVars, rVars, ArraysTyped, RATypeOK
<1>6. CASE ReadReady
  BY <1>0, <1>6 DEF ReadReady, slotVars, indexVars, wVars, ArraysTyped, RATypeOK
<1>7. CASE Read
  <2>1. slots[rresult] \in Entries \cup {Unfilled}
    BY <1>7 DEF Read, ArraysTyped, RATypeOK
  <2>2. taken' \in Seq(Entries \cup {Unfilled})
    BY <1>7, <2>1 DEF Read
  <2> QED
    BY <1>7, <2>2 DEF Read, slotVars, indexVars, wVars, ArraysTyped, RATypeOK
<1>8. CASE ReadFinish
  <2>1. rindex' \in 0 .. size - 1
    <3> DEFINE x == rindex + 1
    <3>1. x \in Int
      BY <1>0
    <3> HIDE DEF x
    <3>2. x % size \in 0 .. size - 1
      BY <1>0, <3>1, Quotient
    <3> QED
      BY <1>0, <1>8, <3>2 DEF ReadFinish, x
  <2>2. /\ reading' = "out" \/ (reading' = "load" /\ rresult' = rresult /\ reading = "read")
        /\ rresult' \in {rresult, -2} /\ taken' \in {taken, <<>>}
        /\ consumed' \in {consumed, taken}
    BY <1>8 DEF ReadFinish
  <2>3. UNCHANGED <<slotVars, windex, nmemb, wVars, rcount>>
    BY <1>8 DEF ReadFinish
  <2>4. rresult' \in {-2} \cup 0 .. size - 1 /\ (reading' # "out" => rresult' \in 0 .. size - 1)
    BY <2>2 DEF ArraysTyped, RATypeOK
  <2>5. reading' \in {"out", "ready", "read", "load", "store"}
    BY <2>2
  <2>6. taken' \in Seq(Entries \cup {Unfilled}) /\ consumed' \in Seq(Entries \cup {Unfilled})
    <3> DEFINE Takings == Seq(Entries \cup {Unfilled})
    <3>1. <<>> \in Takings /\ taken \in Takings /\ consumed \in Takings
      BY DEF ArraysTyped, RATypeOK
    <3> HIDE DEF Takings
    <3>2. taken' \in Takings /\ consumed' \in Takings
      BY <2>2, <3>1
    <3> QED
      BY <3>2 DEF Takings
  <2> QED
    BY <2>1, <2>3, <2>4, <2>5, <2>6 DEF slotVars, wVars, ArraysTyped, RATypeOK
<1>9. CASE ReadLoad
  BY <1>0, <1>9 DEF ReadLoad, slotVars, indexVars, wVars, ArraysTyped, RATypeOK
<1>10. CASE ReadStore
  BY <1>0, <1>10 DEF ReadStore, slotVars, wVars, ArraysTyped, RATypeOK
<1>11. CASE UNCHANGED raVars
  BY <1>11 DEF raVars, slotVars, indexVars, wVars, rVars, ArraysTyped, RATypeOK
<1> QED
  BY <1>1, <1>2, <1>3, <1>4, <1>5, <1>6, <1>7, <1>8, <1>9, <1>10, <1>11 DEF RANext, Retry

LEMMA Int32IsInt32 ==
    ASSUME NEW n \in Int
    PROVE  Int32(n) \in Ints
PROOF
<1>1. Half \in Nat \ {0} /\ 2 * Half \in Nat \ {0} /\ n + Half \in Int
  BY HalfIsPositive
<1>2. (n + Half) % (2 * Half) \in 0 .. 2 * Half - 1
  BY <1>1, Quotient
<1> QED
  BY <1>1, <1>2 DEF Int32, Ints

LEMMA PacketsTyped == PKTypeOK /\ [PKNext]_pkVars => PKTypeOK'
PROOF
<1> SUFFICES ASSUME PKTypeOK, [PKNext]_pkVars PROVE PKTypeOK'
  OBVIOUS
<1>0. /\ Half \in Nat \ {0} /\ MaxHolders \in Nat \ {0} /\ refs \in Nat
      /\ rangeOffset \in Int /\ rangeLength \in Int /\ 0 \in Ints
      /\ \A c \in PacketSizes : c \in Ints
      /\ packetSize \in Nat
  BY HalfIsPositive, PacketSizesFit DEF PKTypeOK, Ints
<1>1. ASSUME NEW c \in PacketSizes, PacketCreate(c) PROVE PKTypeOK'
  BY <1>0, <1>1 DEF PacketCreate, PKTypeOK
<1>2. CASE PacketAddRef
  BY <1>0, <1>2 DEF PacketAddRef, PKTypeOK
<1>3. CASE PacketAutorelease
  <2>1. refs' \in 0 .. MaxHolders
    BY <1>0, <1>3 DEF PacketAutorelease, PKTypeOK
  <2>2. /\ packetSize' \in {packetSize, 0}
        /\ rangeOffset' \in {rangeOffset, 0} /\ rangeLength' \in {rangeLength, 0}
        /\ payload' \in {payload, "freed"}
    BY <1>3 DEF PacketAutorelease
  <2>3. ownsData' \in BOOLEAN
    BY <1>3, Zenon DEF PacketAutorelease, PKTypeOK
  <2>4. UNCHANGED <<careful, aborted>>
    BY <1>3 DEF PacketAutorelease
  <2> QED
    BY <1>0, <2>1, <2>2, <2>3, <2>4 DEF PKTypeOK
<1>4. ASSUME NEW b \in BOOLEAN, UnfreeData(b) PROVE PKTypeOK'
  BY <1>4 DEF UnfreeData, PKTypeOK
<1>5. ASSUME NEW o \in Ints, NEW s \in Ints, NEW e, RangeIs(o, s, e) PROVE PKTypeOK'
  BY <1>5 DEF RangeIs, PKTypeOK
<1>6. ASSUME NEW o \in Ints, NEW s \in Ints, SetRange(o, s) \/ SetRange2(o, s) \/ SetRange3(o, s)
      PROVE  PKTypeOK'
  <2>1. o \in Int /\ s \in Int
    BY <1>0 DEF Ints
  <2>2. /\ Int32(rangeOffset + o) \in Ints /\ Int32(rangeLength + s) \in Ints
        /\ rangeOffset \in Ints /\ rangeLength \in Ints
    BY <1>0, <2>1, Int32IsInt32 DEF PKTypeOK
  <2> QED
    BY <1>5, <1>6, <2>2 DEF SetRange, SetRange2, SetRange3
<1>7. CASE UNCHANGED pkVars
  BY <1>7 DEF pkVars, PKTypeOK
<1> QED
  BY <1>1, <1>2, <1>3, <1>4, <1>6, <1>7 DEF PKNext

(* All of them, side by side.                                              *)
AllTyped == RBTypeOK /\ ArraysTyped /\ DLInv /\ ConnInv /\ PKTypeOK

LEMMA InitTyped == Init => AllTyped
PROOF
<1> SUFFICES ASSUME Init PROVE AllTyped
  OBVIOUS
<1>1. RBTypeOK
  <2>1. capacity \in Nat \ {0} /\ Wrap \in Nat \ {0} /\ capacity \in Capacities
    BY CapacitiesDivide, WrapIsNumber DEF Init, RBInit
  <2>2. buffer \in [0 .. capacity - 1 -> Bytes]
    BY DEF Init, RBInit, Bytes
  <2> QED
    BY <2>1, <2>2 DEF Init, RBInit, RBTypeOK, Places
<1>2. ArraysTyped
  <2>1. size \in Nat \ {0}
    BY SizesArePositive DEF Init, RAInit
  <2> QED
    BY <2>1 DEF Init, RAInit, ArraysTyped, RATypeOK
<1>3. DLInv /\ ConnInv
  BY ListStarts, InitConn DEF Init
<1>4. PKTypeOK
  <2>1. 0 \in Ints /\ 0 \in 0 .. MaxHolders
    BY HalfIsPositive DEF Ints
  <2>2. careful \in BOOLEAN /\ aborted \in BOOLEAN /\ ownsData \in BOOLEAN
    BY Zenon DEF Init, PKInit
  <2>3. /\ refs = 0 /\ packetSize = 0 /\ rangeOffset = 0 /\ rangeLength = 0
        /\ payload = "none"
    BY DEF Init, PKInit
  <2> QED
    BY <2>1, <2>2, <2>3 DEF PKTypeOK
<1> QED
  BY <1>1, <1>2, <1>3, <1>4 DEF AllTyped

LEMMA NextTyped == AllTyped /\ [Next]_vars => AllTyped'
PROOF
<1> SUFFICES ASSUME AllTyped, [Next]_vars PROVE AllTyped'
  OBVIOUS
<1>1. /\ [RBNext]_rbVars /\ [RANext]_raVars /\ [DLNext]_dlVars
      /\ [ConnNext]_connVars /\ [PKNext]_pkVars
  BY DEF Next, vars
<1> QED
  BY <1>1, BuffersTyped, ArrayStepsTyped, ListSteps, NextConn, PacketsTyped DEF AllTyped

(* Rings, lists, connections and packets, used as the runs use them and in *)
(* every other way: an index stays an index and a slot's number the number *)
(* of a slot, and what lists, connections and packets hold stays of its    *)
(* kind (ringbuffer.c, ringarray.c, linkedlist.c, connection.c, packet.c). *)
THEOREM ContainerTypes == Spec => []TypeOK
PROOF
<1>1. AllTyped => TypeOK
  BY DEF AllTyped, ArraysTyped, DLInv, ConnInv, Counted, ConnMap, HoldMap, ConnTypeOK, TypeOK
<1> HIDE DEF AllTyped, TypeOK
<1> QED
  BY <1>1, InitTyped, NextTyped, PTL DEF Spec
=============================================================================

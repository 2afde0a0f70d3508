------------------------------- MODULE Packet -------------------------------
(***************************************************************************)
(* src/packet.c: a packet is shared by its holders, owns its data unless   *)
(* the program says otherwise, and has a range of it, which is moved and   *)
(* resized with int32_t arithmetic, here of 2 * Half values.  A range that *)
(* ends beyond the capacity aborts the program (AWE_CHECK_LE).             *)
(*                                                                         *)
(* The check looks at the end of the range only, and after the sum may     *)
(* have wrapped.  A careful program passes no argument below 0 or above    *)
(* the capacity, except that setrange3 may shrink a range down to nothing. *)
(***************************************************************************)
EXTENDS Integers

CONSTANTS
    PacketSizes,   \* the capacities a packet is created with
    Half,          \* 2^(w-1) for integers of w bits
    MaxHolders     \* bound on the references to a packet

(* Line 19; and three arguments of careful programs do not overflow.       *)
ASSUME PacketSizesFit == \A c \in PacketSizes : c \in Nat /\ 0 < c /\ 3 * c < Half
ASSUME HalfIsPositive == Half \in Nat \ {0} /\ MaxHolders \in Nat \ {0}

VARIABLES
    careful,       \* is the program careful?
    refs,          \* _refs; there is no packet if it is 0
    packetSize,    \* _capacity
    rangeOffset,   \* _rangeOffset
    rangeLength,   \* _rangeLength
    ownsData,      \* _ownsData
    payload,       \* whose the data is, or whether it was freed
    aborted        \* a check has failed

pkVars == <<careful, refs, packetSize, rangeOffset, rangeLength, ownsData, payload, aborted>>

Ints == -Half .. Half - 1
Int32(n) == ((n + Half) % (2 * Half)) - Half

PKTypeOK ==
    /\ careful \in BOOLEAN /\ aborted \in BOOLEAN /\ ownsData \in BOOLEAN
    /\ refs \in 0 .. MaxHolders
    /\ packetSize \in PacketSizes \cup {0}
    /\ rangeOffset \in Ints /\ rangeLength \in Ints
    /\ payload \in {"none", "packet", "program", "freed"}

PKInit ==
    /\ careful \in BOOLEAN
    /\ refs = 0 /\ packetSize = 0 /\ rangeOffset = 0 /\ rangeLength = 0
    /\ ownsData = FALSE /\ payload = "none" /\ aborted = FALSE
-----------------------------------------------------------------------------
(* awe_packet_create: the range is all of the data.                        *)
PacketCreate(capacity) ==
    /\ refs = 0
    /\ refs' = 1 /\ packetSize' = capacity
    /\ rangeOffset' = 0 /\ rangeLength' = capacity
    /\ ownsData' = TRUE /\ payload' = "packet"
    /\ UNCHANGED <<careful, aborted>>

(* awe_packet_addref.                                                      *)
PacketAddRef ==
    /\ refs \in 1 .. MaxHolders - 1
    /\ refs' = refs + 1
    /\ UNCHANGED <<careful, packetSize, rangeOffset, rangeLength, ownsData, payload, aborted>>

(* awe_packet_autorelease and packet_destroy.                              *)
PacketAutorelease ==
    /\ refs > 0
    /\ refs' = refs - 1
    /\ IF refs > 1
         THEN UNCHANGED <<packetSize, rangeOffset, rangeLength, ownsData, payload>>
         ELSE /\ packetSize' = 0 /\ rangeOffset' = 0 /\ rangeLength' = 0
              /\ ownsData' = FALSE
              /\ payload' = IF ownsData THEN "freed" ELSE payload
    /\ UNCHANGED <<careful, aborted>>

(* awe_packet_unfree_data.                                                 *)
UnfreeData(b) ==
    /\ refs > 0
    /\ ownsData' = ~b
    /\ payload' = IF b THEN "program" ELSE "packet"
    /\ UNCHANGED <<careful, refs, packetSize, rangeOffset, rangeLength, aborted>>
-----------------------------------------------------------------------------
(* A range is set, and its end compared with the capacity.                 *)
RangeIs(offset, length, end) ==
    /\ refs > 0
    /\ rangeOffset' = offset /\ rangeLength' = length
    /\ aborted' = (Int32(end) > packetSize)
    /\ UNCHANGED <<careful, refs, packetSize, ownsData, payload>>

Allowed(n) == careful => n \in 0 .. packetSize

(* awe_packet_setrange, where the check comes first.                       *)
SetRange(offset, size) ==
    /\ Allowed(offset) /\ Allowed(size)
    /\ IF Int32(offset + size) > packetSize
         THEN RangeIs(rangeOffset, rangeLength, offset + size)
         ELSE RangeIs(offset, size, offset + size)

(* Mutant: the check comes first, with the offset of before.               *)
SetRange2ChecksFirst(offset, size) ==
    /\ Allowed(offset) /\ Allowed(size)
    /\ RangeIs(Int32(rangeOffset + offset), size, rangeOffset + size)

(* awe_packet_setrange2: the range moves.                                  *)
SetRange2(offset, size) ==
    /\ Allowed(offset) /\ Allowed(size)
    /\ RangeIs(Int32(rangeOffset + offset), size, Int32(rangeOffset + offset) + size)

(* awe_packet_setrange3: the range grows or shrinks.                       *)
SetRange3(offset, size) ==
    /\ Allowed(offset)
    /\ careful => size \in -rangeLength .. packetSize
    /\ RangeIs(offset, Int32(rangeLength + size), offset + Int32(rangeLength + size))

PKNext ==
    \/ /\ ~aborted
       /\ \/ \E c \in PacketSizes : PacketCreate(c)
          \/ PacketAddRef \/ PacketAutorelease
          \/ \E b \in BOOLEAN : UnfreeData(b)
          \/ \E o, s \in Ints : SetRange(o, s) \/ SetRange2(o, s) \/ SetRange3(o, s)
    \/ aborted /\ UNCHANGED pkVars

PKSpec == PKInit /\ [][PKNext]_pkVars
-----------------------------------------------------------------------------
(* What a holder reads is inside the data: whatever calls moved and sized  *)
(* the range of a careful program before, it begins and ends within the    *)
(* capacity, or the program was aborted (packet.c:66-88).                  *)
RangeInData ==
    careful /\ refs > 0 /\ ~aborted =>
        /\ 0 <= rangeOffset /\ 0 <= rangeLength
        /\ rangeOffset + rangeLength <= packetSize
=============================================================================

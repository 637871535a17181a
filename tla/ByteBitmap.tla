----------------------------- MODULE ByteBitmap -----------------------------
(***************************************************************************)
(* The bitmap of bitmap.c at the level of its bytes.  A byte is the set of *)
(* the positions, counted from the least significant one, of its bits that *)
(* are 1: OR with a mask adds a position, AND with the complement removes  *)
(* it, and 255 is the byte with all of them.                               *)
(***************************************************************************)
EXTENDS Bitmap, FiniteSetsExt

CONSTANT ValidBits  \* num_bits of allocate_bitmap

ASSUME ValidBitsAssumption == ValidBits \in Nat

VARIABLES
  bytes,  \* map->bits
  found   \* the last value first_unset_bit returned

vars == <<bytes, found>>

Position == 0 .. BitsPerByte - 1

(* Bytes a run can touch: the scanned ones and the one that holds bit      *)
(* ValidBits, which callers set when the search fails.                     *)
LastByte == ValidBits \div BitsPerByte
ByteIndex == 0 .. LastByte
Bit == 0 .. (LastByte + 1) * BitsPerByte - 1

(* Mutant: the mask of a bit reaches into the next byte. *)
MaskTooWide(i) == i % (BitsPerByte + 1)

ByteOf(i) == i \div BitsPerByte
MaskOf(i) == i % BitsPerByte

get_bit(i) == MaskOf(i) \in bytes[ByteOf(i)]

allocate_bitmap == bytes = [b \in ByteIndex |-> {}] /\ found = ValidBits

(* Mutant: the byte is assigned instead of OR-ed. *)
AssignByte(i) ==
  /\ bytes' = [bytes EXCEPT ![ByteOf(i)] = {MaskOf(i)}]
  /\ UNCHANGED found

set_bit(i) ==
  /\ bytes' = [bytes EXCEPT ![ByteOf(i)] = @ \cup {MaskOf(i)}]
  /\ UNCHANGED found

clear_bit(i) ==
  /\ bytes' = [bytes EXCEPT ![ByteOf(i)] = @ \ {MaskOf(i)}]
  /\ UNCHANGED found

(* Mutant: the number of bytes is not rounded up. *)
WholeBytes == 0 .. ValidBits \div BitsPerByte - 1

ScannedBytes == 0 .. (ValidBits + BitsPerByte - 1) \div BitsPerByte - 1

OpenBytes == {b \in ScannedBytes : bytes[b] # Position}

first_unset_bit ==
  /\ found' = IF OpenBytes = {}
              THEN ValidBits
              ELSE LET b == Min(OpenBytes)
                   IN  b * BitsPerByte + Min(Position \ bytes[b])
  /\ UNCHANGED bytes

Init == allocate_bitmap

Next ==
  \/ \E i \in Bit : set_bit(i)
  \/ \E i \in Bit : clear_bit(i)
  \/ first_unset_bit

Spec == Init /\ [][Next]_vars

-----------------------------------------------------------------------------
(* Types: a byte has no bits but its own, and a search answers a bit the   *)
(* buffer has room for.                                                    *)
TypeOK ==
  /\ bytes \in [ByteIndex -> SUBSET Position]
  /\ found \in Bit

(* The bytes read back through get_bit. *)
BitsSet == {i \in Bit : get_bit(i)}

Abstract == INSTANCE BitSet WITH bits <- BitsSet

(* The byte array, its masks and its byte-by-byte scan behave as a set of  *)
(* bits: no call touches a neighbouring bit, and the search of bitmap.c    *)
(* returns the lowest free valid bit, or an invalid one only when all      *)
(* valid bits are taken.                                                   *)
ImplementsBitSet == Abstract!Spec

(* The scan of bitmap.c answers what FirstUnset says, also in the last,    *)
(* partly valid byte, where it may return bits past the valid ones.        *)
ScanIsFirstUnset == [][first_unset_bit => found' = FirstUnset(BitsSet, ValidBits)]_vars

(* Three searches in a row, each followed by set_bit on its answer, hand   *)
(* out the first three unset bits: what the allocators of RefsFS assume    *)
(* of the blocks that one handler reserves.                                *)
NthUnsetIsRepeatedSearch ==
  \A k \in 1 .. 3 :
    LET earlier == {NthUnset(BitsSet, ValidBits, j) : j \in 1 .. k - 1}
    IN  NthUnset(BitsSet, ValidBits, k) = FirstUnset(BitsSet \cup earlier, ValidBits)

=============================================================================

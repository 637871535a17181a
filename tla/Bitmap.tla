------------------------------- MODULE Bitmap -------------------------------
(***************************************************************************)
(* A bitmap of ReFS seen as the set of its bits that are 1, and what       *)
(* first_unset_bit (bitmap.c) answers about it.  The allocators of         *)
(* RefsFS use these operators; ByteBitmap shows that the byte array of     *)
(* bitmap.c, scanned byte by byte, computes the same answers.              *)
(***************************************************************************)
EXTENDS Integers, FiniteSets

CONSTANT BitsPerByte  \* 8 in the code; smaller bytes keep instances small

ASSUME BitsPerByteAssumption == BitsPerByte \in Nat \ {0}

(* The bits first_unset_bit looks at in a bitmap of n valid bits: the scan *)
(* stops at a byte boundary, so up to BitsPerByte - 1 bits past the valid  *)
(* ones are scanned too.                                                   *)
Scanned(n) == ((n + BitsPerByte - 1) \div BitsPerByte) * BitsPerByte

UnsetBits(bits, n) == (0 .. Scanned(n) - 1) \ bits

(* Mutant: every call answers as if no other had set its bit. *)
NthIsFirst(bits, n, k) ==
  LET first == {i \in UnsetBits(bits, n) : UnsetBits(bits, n) \cap 0 .. i - 1 = {}}
  IN  IF first = {} THEN n ELSE CHOOSE i \in first : TRUE

(* The k-th of k successive calls that each set the bit they were given:   *)
(* the scanned bit with k-1 unset bits below it, or n, the error signal,   *)
(* when fewer than k bits are unset.  Setting bit n itself changes no      *)
(* scanned bit when n is a byte boundary, and otherwise bit n is scanned,  *)
(* so the signal is repeated by every later call.                          *)
NthUnset(bits, n, k) ==
  LET kth == {i \in UnsetBits(bits, n) :
                Cardinality({j \in UnsetBits(bits, n) : j < i}) = k - 1}
  IN  IF kth = {} THEN n ELSE CHOOSE i \in kth : TRUE

FirstUnset(bits, n) == NthUnset(bits, n, 1)

=============================================================================

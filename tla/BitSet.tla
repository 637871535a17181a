------------------------------- MODULE BitSet -------------------------------
(***************************************************************************)
(* What bitmap.c promises: a set of bits with set, clear and a search that *)
(* returns the lowest bit that is not in the set, or some bit that is not  *)
(* a valid one when every valid bit is taken.                              *)
(***************************************************************************)
EXTENDS Integers

CONSTANTS
  ValidBits,   \* n_valid_bits of the bitmap
  Bit          \* the bits the memory buffer has room for

VARIABLES
  bits,        \* the bits that are 1
  found        \* what the last search returned

vars == <<bits, found>>

Valid == 0 .. ValidBits - 1

Init == bits = {} /\ found = ValidBits

SetBit(i)   == bits' = bits \cup {i} /\ UNCHANGED found

ClearBit(i) == bits' = bits \ {i} /\ UNCHANGED found

SearchFinds ==
  /\ \E i \in Valid \ bits :
       /\ \A j \in Valid \ bits : i <= j
       /\ found' = i
  /\ UNCHANGED bits

SearchFails ==
  /\ Valid \subseteq bits
  /\ found' \in Bit \ Valid
  /\ UNCHANGED bits

Next ==
  \/ \E i \in Bit : SetBit(i) \/ ClearBit(i)
  \/ SearchFinds
  \/ SearchFails

Spec == Init /\ [][Next]_vars

=============================================================================

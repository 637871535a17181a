-------------------------- MODULE ByteBitmapProofs --------------------------
(***************************************************************************)
(* The bytes and masks of bitmap.c make up a set of bits, for every number *)
(* of valid bits and every size of byte: see the theorems at the end.      *)
(***************************************************************************)
EXTENDS ByteBitmap, BitmapProofs

-----------------------------------------------------------------------------
(* Bits and bytes *)

(* The number of valid bits, in bytes and the bits of the last one. *)
LEMMA Sizes ==
  /\ BitsPerByte \in Nat \ {0}
  /\ ValidBits \in Nat
  /\ LastByte \in Nat
  /\ \A b, k \in Nat : BitsPerByte * b \in Nat /\ BitsPerByte * b + k \in Nat
  /\ ValidBits % BitsPerByte \in 0 .. BitsPerByte - 1
  /\ ValidBits = BitsPerByte * LastByte + (ValidBits % BitsPerByte)
<1>1. BitsPerByte \in Nat \ {0} /\ ValidBits \in Nat
  BY BitsPerByteAssumption, ValidBitsAssumption
<1>2. \A b, k \in Nat : BitsPerByte * b \in Nat /\ BitsPerByte * b + k \in Nat
  BY <1>1
<1>3. /\ LastByte \in Nat
      /\ ValidBits % BitsPerByte \in 0 .. BitsPerByte - 1
      /\ ValidBits = BitsPerByte * LastByte + (ValidBits % BitsPerByte)
  BY <1>1 DEF LastByte
<1> QED
  BY <1>1, <1>2, <1>3

(* Multiplication by a byte's size keeps the order of bytes. *)
LEMMA BytesInOrder ==
  ASSUME NEW b \in Nat, NEW c \in Nat, b < c
  PROVE  BitsPerByte * b + BitsPerByte <= BitsPerByte * c
<1>1. BitsPerByte * (b + 1) <= BitsPerByte * c
  <2>1. b + 1 <= c
    OBVIOUS
  <2> QED
    BY <2>1, Sizes
<1>2. BitsPerByte * (b + 1) = BitsPerByte * b + BitsPerByte
  BY Sizes
<1> QED
  BY <1>1, <1>2

(* A bit number is its byte and its place there. *)
LEMMA BitSplits ==
  ASSUME NEW i \in Nat
  PROVE  /\ ByteOf(i) \in Nat
         /\ MaskOf(i) \in Position
         /\ i = BitsPerByte * ByteOf(i) + MaskOf(i)
BY Sizes DEF ByteOf, MaskOf, Position

(* A place in a byte is that of one bit. *)
LEMMA BitJoins ==
  ASSUME NEW b \in Nat, NEW k \in Position
  PROVE  /\ BitsPerByte * b + k \in Nat
         /\ ByteOf(BitsPerByte * b + k) = b
         /\ MaskOf(BitsPerByte * b + k) = k
<1> DEFINE a == BitsPerByte * b + k
<1>1. a \in Nat /\ k \in 0 .. BitsPerByte - 1
  BY Sizes DEF Position
<1> HIDE DEF a
<1>2. a = BitsPerByte * b + k
  BY DEF a
<1>3. a \div BitsPerByte = b /\ a % BitsPerByte = k
  <2>1. BitsPerByte \in Nat \ {0}
    BY Sizes
  <2> QED
    BY <1>1, <1>2, <2>1, DivisionIs
<1> QED
  BY <1>1, <1>3 DEF ByteOf, MaskOf, a

(* The bits below a whole number of bytes are those of these bytes. *)
LEMMA BelowBytes ==
  ASSUME NEW i \in Nat, NEW c \in Nat
  PROVE  i < BitsPerByte * c <=> ByteOf(i) < c
<1> DEFINE b == ByteOf(i)
           k == MaskOf(i)
<1>1. b \in Nat /\ k \in 0 .. BitsPerByte - 1 /\ i = BitsPerByte * b + k
  BY BitSplits DEF Position
<1>2. BitsPerByte * b \in Nat /\ BitsPerByte * c \in Nat /\ BitsPerByte \in Nat \ {0}
  BY <1>1, Sizes
<1> HIDE DEF b, k
<1>3. ASSUME b < c PROVE i < BitsPerByte * c
  <2>1. BitsPerByte * b + BitsPerByte <= BitsPerByte * c
    BY <1>1, <1>3, BytesInOrder
  <2> QED
    BY <1>1, <1>2, <2>1
<1>4. ASSUME ~ (b < c) PROVE ~ (i < BitsPerByte * c)
  <2>1. CASE c = b
    BY <1>1, <1>2, <2>1
  <2>2. CASE c < b
    <3>1. BitsPerByte * c + BitsPerByte <= BitsPerByte * b
      BY <1>1, <2>2, BytesInOrder
    <3> QED
      BY <1>1, <1>2, <3>1
  <2> QED
    BY <1>1, <1>4, <2>1, <2>2
<1> QED
  BY <1>3, <1>4 DEF b

(* The buffer has room for exactly the bits of its bytes. *)
LEMMA BitsOfBuffer ==
  /\ Bit \subseteq Nat
  /\ ValidBits \in Bit
  /\ \A i \in Nat : i \in Bit <=> ByteOf(i) \in ByteIndex
<1>1. (LastByte + 1) * BitsPerByte = BitsPerByte * (LastByte + 1) /\ LastByte + 1 \in Nat
  BY Sizes
<1> DEFINE m == BitsPerByte * (LastByte + 1)
<1>2. m \in Nat
  BY <1>1, Sizes
<1>3. Bit = 0 .. m - 1
  BY <1>1 DEF Bit
<1>4. \A i \in Nat : i < m <=> ByteOf(i) < LastByte + 1
  BY <1>1, BelowBytes
<1>5. ByteOf(ValidBits) = LastByte
  BY DEF ByteOf, LastByte
<1> HIDE DEF m
<1>6. \A i \in Nat : i \in Bit <=> ByteOf(i) \in ByteIndex
  <2> TAKE i \in Nat
  <2>1. ByteOf(i) \in Nat
    BY BitSplits
  <2> QED
    BY <1>2, <1>3, <1>4, <2>1, Sizes DEF ByteIndex
<1>7. ValidBits \in Bit
  BY <1>5, <1>6, Sizes DEF ByteIndex
<1> QED
  BY <1>2, <1>3, <1>6, <1>7

(* The scan looks at bytes the buffer has, and at all their bits. *)
LEMMA BitsOfScan ==
  /\ ScannedBytes \subseteq ByteIndex
  /\ \A i \in Nat : i \in 0 .. Scanned(ValidBits) - 1 <=> ByteOf(i) \in ScannedBytes
<1> DEFINE m == ValidBits + BitsPerByte - 1
           c == m \div BitsPerByte
           r == m % BitsPerByte
<1>1. m \in Nat
  BY Sizes
<1>2. c \in Nat /\ r \in 0 .. BitsPerByte - 1 /\ m = BitsPerByte * c + r
  BY <1>1, Sizes
<1>3. ScannedBytes = 0 .. c - 1 /\ Scanned(ValidBits) = c * BitsPerByte
  BY DEF ScannedBytes, Scanned
<1>4. m = ValidBits + BitsPerByte - 1
  OBVIOUS
<1> HIDE DEF m, c, r
<1>5. c * BitsPerByte = BitsPerByte * c /\ BitsPerByte * c \in Nat
  BY <1>2, Sizes
<1>6. \A i \in Nat : i \in 0 .. Scanned(ValidBits) - 1 <=> ByteOf(i) \in ScannedBytes
  <2> TAKE i \in Nat
  <2>1. ByteOf(i) \in Nat
    BY BitSplits
  <2>2. i < BitsPerByte * c <=> ByteOf(i) < c
    BY <1>2, BelowBytes
  <2> QED
    BY <1>2, <1>3, <1>5, <2>1, <2>2
<1>7. c <= LastByte + 1
  <2>1. SUFFICES ASSUME LastByte + 1 < c PROVE FALSE
    BY <1>2, Sizes
  <2>2. BitsPerByte * (LastByte + 1) + BitsPerByte <= BitsPerByte * c
    BY <1>2, <2>1, Sizes, BytesInOrder
  <2>3. BitsPerByte * (LastByte + 1) = BitsPerByte * LastByte + BitsPerByte
    BY Sizes
  <2>4. BitsPerByte * LastByte \in Nat
    BY Sizes
  <2> QED
    BY <1>2, <1>4, <1>5, <2>2, <2>3, <2>4, Sizes
<1>8. ScannedBytes \subseteq ByteIndex
  BY <1>2, <1>3, <1>7, Sizes DEF ByteIndex
<1> QED
  BY <1>6, <1>8

-----------------------------------------------------------------------------
(* The bytes as a set of bits *)

(* A bit is in the set when the byte it is in has it. *)
LEMMA BitsSetAre ==
  \A i : i \in BitsSet <=> i \in Bit /\ MaskOf(i) \in bytes[ByteOf(i)]
BY DEF BitsSet, get_bit

(* Bits are different when their bytes or their places there are. *)
LEMMA BitsDiffer ==
  ASSUME NEW i \in Bit, NEW j \in Bit
  PROVE  i = j <=> ByteOf(i) = ByteOf(j) /\ MaskOf(i) = MaskOf(j)
<1>1. i \in Nat /\ j \in Nat
  BY BitsOfBuffer
<1> QED
  BY <1>1, BitSplits

(* OR with the mask adds the one bit. *)
LEMMA SetBitSets ==
  ASSUME TypeOK, NEW i \in Bit, set_bit(i)
  PROVE  TypeOK' /\ Abstract!SetBit(i)
<1>1. ByteOf(i) \in ByteIndex /\ MaskOf(i) \in Position /\ i \in Nat
  BY BitsOfBuffer, BitSplits
<1>2. /\ bytes' \in [ByteIndex -> SUBSET Position]
      /\ found' = found
  BY <1>1 DEF TypeOK, set_bit
<1>3. \A j \in Bit : MaskOf(j) \in bytes'[ByteOf(j)]
                       <=> MaskOf(j) \in bytes[ByteOf(j)] \/ j = i
  <2> TAKE j \in Bit
  <2>1. ByteOf(j) \in ByteIndex
    BY BitsOfBuffer
  <2>2. j = i <=> ByteOf(j) = ByteOf(i) /\ MaskOf(j) = MaskOf(i)
    BY BitsDiffer
  <2> QED
    BY <1>1, <2>1, <2>2 DEF TypeOK, set_bit
<1>4. BitsSet' = BitsSet \cup {i}
  BY <1>3 DEF BitsSet, get_bit
<1> QED
  BY <1>2, <1>4 DEF TypeOK, Abstract!SetBit

(* AND with the complement of the mask removes the one bit. *)
LEMMA ClearBitClears ==
  ASSUME TypeOK, NEW i \in Bit, clear_bit(i)
  PROVE  TypeOK' /\ Abstract!ClearBit(i)
<1>1. ByteOf(i) \in ByteIndex /\ MaskOf(i) \in Position /\ i \in Nat
  BY BitsOfBuffer, BitSplits
<1>2. /\ bytes' \in [ByteIndex -> SUBSET Position]
      /\ found' = found
  BY <1>1 DEF TypeOK, clear_bit
<1>3. \A j \in Bit : MaskOf(j) \in bytes'[ByteOf(j)]
                       <=> MaskOf(j) \in bytes[ByteOf(j)] /\ j # i
  <2> TAKE j \in Bit
  <2>1. ByteOf(j) \in ByteIndex
    BY BitsOfBuffer
  <2>2. j = i <=> ByteOf(j) = ByteOf(i) /\ MaskOf(j) = MaskOf(i)
    BY BitsDiffer
  <2> QED
    BY <1>1, <2>1, <2>2 DEF TypeOK, clear_bit
<1>4. BitsSet' = BitsSet \ {i}
  BY <1>3 DEF BitsSet, get_bit
<1> QED
  BY <1>2, <1>4 DEF TypeOK, Abstract!ClearBit

-----------------------------------------------------------------------------
(* The search *)

(* A least element is what Min answers. *)
LEMMA MinIs ==
  ASSUME NEW S \in SUBSET Nat, S # {}
  PROVE  Min(S) \in S /\ \A x \in S : Min(S) <= x
<1>1. \E m \in S : \A x \in S : m <= x
  BY LeastExists
<1> QED
  BY <1>1 DEF Min

(* The unset bits are those that the scanned bytes do not have. *)
LEMMA UnsetBitsAre ==
  /\ UnsetBits(BitsSet, ValidBits) \subseteq Nat
  /\ \A i \in Nat : i \in UnsetBits(BitsSet, ValidBits)
                      <=> ByteOf(i) \in ScannedBytes /\ MaskOf(i) \notin bytes[ByteOf(i)]
<1>1. UnsetBits(BitsSet, ValidBits) \subseteq Nat
  BY UnsetBitsFinite, Sizes
<1>2. \A i \in Nat : i \in UnsetBits(BitsSet, ValidBits)
                      <=> ByteOf(i) \in ScannedBytes /\ MaskOf(i) \notin bytes[ByteOf(i)]
  <2> TAKE i \in Nat
  <2>1. i \in UnsetBits(BitsSet, ValidBits)
          <=> i \in 0 .. Scanned(ValidBits) - 1 /\ i \notin BitsSet
    BY DEF UnsetBits
  <2>2. i \in 0 .. Scanned(ValidBits) - 1 <=> ByteOf(i) \in ScannedBytes
    BY BitsOfScan
  <2>3. i \in BitsSet <=> ByteOf(i) \in ByteIndex /\ MaskOf(i) \in bytes[ByteOf(i)]
    BY BitsSetAre, BitsOfBuffer
  <2>4. ByteOf(i) \in ScannedBytes => ByteOf(i) \in ByteIndex
    BY BitsOfScan
  <2> QED
    BY <2>1, <2>2, <2>3, <2>4
<1> QED
  BY <1>1, <1>2

(* The lowest place of the lowest byte with one to spare is the lowest     *)
(* unset bit.                                                              *)
LEMMA ScanFindsLeast ==
  ASSUME TypeOK, OpenBytes # {}
  PROVE  LET b == Min(OpenBytes)
             i == b * BitsPerByte + Min(Position \ bytes[b])
         IN  /\ i \in UnsetBits(BitsSet, ValidBits)
             /\ \A y \in UnsetBits(BitsSet, ValidBits) : i <= y
<1> DEFINE b == Min(OpenBytes)
           k == Min(Position \ bytes[b])
           i == b * BitsPerByte + k
<1>1. OpenBytes \in SUBSET Nat
  BY DEF OpenBytes, ScannedBytes
<1>2. b \in OpenBytes /\ \A c \in OpenBytes : b <= c
  BY <1>1, MinIs
<1> HIDE DEF b
<1>3. b \in Nat /\ b \in ScannedBytes /\ bytes[b] # Position /\ bytes[b] \subseteq Position
  BY <1>1, <1>2, BitsOfScan DEF OpenBytes, TypeOK
<1>4. Position \ bytes[b] \in SUBSET Nat /\ Position \ bytes[b] # {}
  <2>1. Position \ bytes[b] # {}
    BY <1>3
  <2>2. Position \in SUBSET Nat
    BY DEF Position
  <2> QED
    BY <2>1, <2>2
<1>5. k \in Position \ bytes[b] /\ \A l \in Position \ bytes[b] : k <= l
  BY <1>4, MinIs
<1> HIDE DEF k
<1>6. i = BitsPerByte * b + k
  BY <1>3, Sizes
<1> HIDE DEF i
<1>7. i \in Nat /\ ByteOf(i) = b /\ MaskOf(i) = k
  BY <1>3, <1>5, <1>6, BitJoins
<1>8. i \in UnsetBits(BitsSet, ValidBits)
  BY <1>3, <1>5, <1>7, UnsetBitsAre
<1>9. ASSUME NEW y \in UnsetBits(BitsSet, ValidBits) PROVE i <= y
  <2> DEFINE c == ByteOf(y)
             l == MaskOf(y)
  <2>1. y \in Nat /\ c \in ScannedBytes /\ l \notin bytes[c]
    BY UnsetBitsAre
  <2>2. c \in Nat /\ l \in Position /\ y = BitsPerByte * c + l
    BY <2>1, BitSplits
  <2> HIDE DEF c, l
  <2>3. c \in OpenBytes
    BY <2>1, <2>2 DEF OpenBytes
  <2>4. b <= c
    BY <1>2, <2>3
  <2>5. k \in 0 .. BitsPerByte - 1 /\ l \in 0 .. BitsPerByte - 1 /\ BitsPerByte \in Nat
    BY <1>5, <2>2, Sizes DEF Position
  <2>6. BitsPerByte * b \in Nat /\ BitsPerByte * c \in Nat
    BY <1>3, <2>2, Sizes
  <2>7. CASE c = b
    <3>1. k <= l
      BY <1>5, <2>1, <2>2, <2>7
    <3> QED
      BY <1>6, <2>2, <2>5, <2>6, <2>7, <3>1
  <2>8. CASE b < c
    <3>1. BitsPerByte * b + BitsPerByte <= BitsPerByte * c
      BY <1>3, <2>2, <2>8, BytesInOrder
    <3> QED
      BY <1>6, <2>2, <2>5, <2>6, <3>1
  <2> QED
    BY <1>3, <2>2, <2>4, <2>7, <2>8
<1> QED
  BY <1>8, <1>9 DEF i, k, b

(* Without such a byte no bit is unset. *)
LEMMA ScanFindsNone ==
  ASSUME TypeOK, OpenBytes = {}
  PROVE  UnsetBits(BitsSet, ValidBits) = {}
<1>1. SUFFICES ASSUME NEW y \in UnsetBits(BitsSet, ValidBits) PROVE FALSE
  OBVIOUS
<1>2. y \in Nat /\ ByteOf(y) \in ScannedBytes /\ MaskOf(y) \notin bytes[ByteOf(y)]
  BY UnsetBitsAre
<1>3. MaskOf(y) \in Position
  BY <1>2, BitSplits
<1> QED
  BY <1>2, <1>3 DEF OpenBytes

(* Either way the search answers what FirstUnset says. *)
LEMMA SearchAnswers ==
  ASSUME TypeOK, first_unset_bit
  PROVE  found' = FirstUnset(BitsSet, ValidBits)
<1>1. CASE OpenBytes = {}
  BY <1>1, ScanFindsNone, NoneIsFirst, Sizes DEF first_unset_bit
<1>2. CASE OpenBytes # {}
  <2>1. /\ found' \in UnsetBits(BitsSet, ValidBits)
        /\ \A y \in UnsetBits(BitsSet, ValidBits) : found' <= y
    BY <1>2, ScanFindsLeast DEF first_unset_bit
  <2> QED
    BY <2>1, LeastIsFirst, Sizes
<1> QED
  BY <1>1, <1>2

(* The lowest unset bit is the lowest free valid one, if there is one.     *)
LEMMA SearchIsAbstract ==
  ASSUME TypeOK, first_unset_bit
  PROVE  TypeOK' /\ (Abstract!SearchFinds \/ Abstract!SearchFails)
<1> DEFINE U == UnsetBits(BitsSet, ValidBits)
<1>1. bytes' = bytes /\ BitsSet' = BitsSet
  BY DEF first_unset_bit, BitsSet, get_bit
<1>2. \A i \in Abstract!Valid : i \notin BitsSet => i \in U
  BY ScannedCovers, Sizes DEF Abstract!Valid, UnsetBits
<1>3. CASE OpenBytes = {}
  <2>1. found' = ValidBits
    BY <1>3 DEF first_unset_bit
  <2>2. Abstract!Valid \subseteq BitsSet
    BY <1>2, <1>3, ScanFindsNone
  <2>3. found' \in Bit \ Abstract!Valid
    BY <2>1, BitsOfBuffer, Sizes DEF Abstract!Valid
  <2> QED
    BY <1>1, <2>2, <2>3 DEF TypeOK, Abstract!SearchFails
<1>4. CASE OpenBytes # {}
  <2>1. found' \in U /\ \A y \in U : found' <= y
    BY <1>4, ScanFindsLeast DEF first_unset_bit
  <2>2. found' \in Nat /\ ByteOf(found') \in ScannedBytes
    BY <2>1, UnsetBitsAre
  <2>3. found' \in Bit
    BY <2>2, BitsOfScan, BitsOfBuffer
  <2>4. found' \notin BitsSet
    BY <2>1 DEF UnsetBits
  <2> HIDE DEF U
  <2>5. CASE found' \in Abstract!Valid
    <3>1. \A j \in Abstract!Valid \ BitsSet : found' <= j
      BY <1>2, <2>1
    <3>2. Abstract!SearchFinds
      BY <1>1, <2>4, <2>5, <3>1 DEF Abstract!SearchFinds
    <3> QED
      BY <1>1, <2>3, <3>2 DEF TypeOK
  <2>6. CASE found' \notin Abstract!Valid
    <3>1. ~ (found' < ValidBits)
      BY <2>2, <2>6, Sizes DEF Abstract!Valid
    <3>2. Abstract!Valid \subseteq BitsSet
      <4>1. SUFFICES ASSUME NEW j \in Abstract!Valid, j \notin BitsSet PROVE FALSE
        OBVIOUS
      <4>2. found' <= j
        BY <1>2, <2>1, <4>1
      <4>3. j \in Nat /\ j < ValidBits
        BY Sizes DEF Abstract!Valid
      <4> QED
        BY <2>2, <3>1, <4>2, <4>3, Sizes
    <3>3. Abstract!SearchFails
      BY <1>1, <2>3, <2>6, <3>2 DEF Abstract!SearchFails
    <3> QED
      BY <1>1, <2>3, <3>3 DEF TypeOK
  <2> QED
    BY <2>5, <2>6
<1> QED
  BY <1>3, <1>4

-----------------------------------------------------------------------------
(* The theorems *)

(* An allocated bitmap is empty. *)
LEMMA InitBits == Init => TypeOK /\ Abstract!Init
<1> SUFFICES ASSUME Init PROVE TypeOK /\ Abstract!Init
  OBVIOUS
<1>1. bytes = [b \in ByteIndex |-> {}] /\ found = ValidBits
  BY DEF Init, allocate_bitmap
<1>2. \A i \in Bit : i \in Nat /\ ByteOf(i) \in ByteIndex
  BY BitsOfBuffer
<1>3. BitsSet = {}
  BY <1>1, <1>2 DEF BitsSet, get_bit
<1> QED
  BY <1>1, <1>3, BitsOfBuffer DEF TypeOK, Abstract!Init

(* Each call is the call of the set of bits. *)
LEMMA NextBits ==
  ASSUME TypeOK, [Next]_vars
  PROVE  TypeOK' /\ [Abstract!Next]_(Abstract!vars)
<1>1. ASSUME NEW i \in Bit, set_bit(i) PROVE TypeOK' /\ Abstract!Next
  BY <1>1, SetBitSets DEF Abstract!Next
<1>2. ASSUME NEW i \in Bit, clear_bit(i) PROVE TypeOK' /\ Abstract!Next
  BY <1>2, ClearBitClears DEF Abstract!Next
<1>3. CASE first_unset_bit
  BY <1>3, SearchIsAbstract DEF Abstract!Next
<1>4. CASE UNCHANGED vars
  BY <1>4 DEF vars, TypeOK, Abstract!vars, BitsSet, get_bit
<1> QED
  BY <1>1, <1>2, <1>3, <1>4 DEF Next

(* Bytes never get bits that are not theirs, and a search answers only     *)
(* bits that the buffer of the bitmap has room for.                        *)
THEOREM BytesAreTyped == Spec => []TypeOK
<1>1. Init => TypeOK
  BY InitBits
<1>2. TypeOK /\ [Next]_vars => TypeOK'
  BY NextBits
<1> QED
  BY <1>1, <1>2, PTL DEF Spec

(* set_bit, clear_bit and first_unset_bit work on the bytes of a bitmap as *)
(* the same calls on a set of bits: the masks touch no other bit, and the  *)
(* scan, byte by byte, answers the lowest free valid bit or, when all of   *)
(* these are taken, one that is not valid.                                 *)
THEOREM BytesImplementBitSet == Spec => ImplementsBitSet
<1>1. Init => Abstract!Init
  BY InitBits
<1>2. TypeOK /\ [Next]_vars => [Abstract!Next]_(Abstract!vars)
  BY NextBits
<1> QED
  BY <1>1, <1>2, BytesAreTyped, PTL DEF Spec, ImplementsBitSet, Abstract!Spec

(* first_unset_bit answers what the allocators of RefsFS are modelled to   *)
(* get from it, for every state of the bytes.                              *)
THEOREM ScanAnswersFirstUnset == Spec => ScanIsFirstUnset
<1>1. TypeOK /\ [Next]_vars
        => [first_unset_bit => found' = FirstUnset(BitsSet, ValidBits)]_vars
  BY SearchAnswers
<1> QED
  BY <1>1, BytesAreTyped, PTL DEF Spec, ScanIsFirstUnset

(* A handler that reserves several blocks gets the bits of that many       *)
(* searches, each followed by set_bit.                                     *)
THEOREM NthUnsetRepeatsTheSearch == Spec => []NthUnsetIsRepeatedSearch
<1>1. NthUnsetIsRepeatedSearch
  BY SearchesAreRepeated, Sizes DEF NthUnsetIsRepeatedSearch, Earlier
<1> QED
  BY <1>1, PTL

=============================================================================

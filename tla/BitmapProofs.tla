---------------------------- MODULE BitmapProofs ----------------------------
(***************************************************************************)
(* What a handler may rely on when it reserves bits of a bitmap, for every *)
(* size of bitmap and byte: see the theorems at the end.                   *)
(***************************************************************************)
EXTENDS Bitmap, FunctionTheorems, FiniteSetTheorems, WellFoundedInduction, TLAPS

(* The scan covers the valid bits. *)
LEMMA ScannedCovers ==
  ASSUME NEW n \in Nat
  PROVE  Scanned(n) \in Nat /\ n <= Scanned(n)
<1> DEFINE m == n + BitsPerByte - 1
           q == m \div BitsPerByte
<1>1. BitsPerByte \in Nat /\ BitsPerByte > 0
  BY BitsPerByteAssumption
<1>2. m \in Nat
  BY <1>1
<1>3. q \in Nat /\ m % BitsPerByte \in 0 .. BitsPerByte - 1 /\ m = BitsPerByte * q + (m % BitsPerByte)
  BY <1>1, <1>2
<1> QED
  BY <1>1, <1>2, <1>3 DEF Scanned

(* A nonempty set of natural numbers has a least element. *)
LEMMA LeastExists ==
  ASSUME NEW S \in SUBSET Nat, S # {}
  PROVE  \E m \in S : \A x \in S : m <= x
<1> DEFINE R == {xy \in Nat \X Nat : xy[1] < xy[2]}
<1>1. R = OpToRel(<, Nat)
  BY DEF OpToRel
<1>2. IsWellFoundedOn(R, Nat)
  BY <1>1, NatLessThanWellFounded
<1> HIDE DEF R
<1>3. PICK m \in S : \A x \in S : ~ (<<x, m>> \in R)
  BY <1>2, WFMin
<1>4. \A x \in S : ~ (x < m)
  BY <1>3 DEF R
<1> QED
  BY <1>4

(* There are finitely many unset bits, all of them natural numbers. *)
LEMMA UnsetBitsFinite ==
  ASSUME NEW n \in Nat, NEW bits
  PROVE  /\ UnsetBits(bits, n) \in SUBSET Nat
         /\ IsFiniteSet(UnsetBits(bits, n))
<1>1. IsFiniteSet(0 .. Scanned(n) - 1)
  BY ScannedCovers, FS_Interval
<1>2. UnsetBits(bits, n) \in SUBSET (0 .. Scanned(n) - 1)
  BY DEF UnsetBits
<1> QED
  BY <1>1, <1>2, FS_Subset, ScannedCovers

-----------------------------------------------------------------------------
(* Division *)

(* A number has one quotient and one remainder. *)
LEMMA DivisionIs ==
  ASSUME NEW m \in Nat \ {0}, NEW q \in Nat, NEW r \in 0 .. m - 1, NEW a \in Nat, a = m * q + r
  PROVE  a \div m = q /\ a % m = r
<1> DEFINE q2 == a \div m
           r2 == a % m
<1>1. q2 \in Nat /\ r2 \in 0 .. m - 1 /\ a = m * q2 + r2
  OBVIOUS
<1> HIDE DEF q2, r2
<1>2. ASSUME q2 < q PROVE FALSE
  <2>1. m * (q2 + 1) <= m * q
    <3>1. q2 + 1 <= q
      BY <1>1, <1>2
    <3> QED
      BY <1>1, <3>1
  <2>2. m * (q2 + 1) = m * q2 + m
    BY <1>1
  <2>3. m * q \in Nat /\ m * q2 \in Nat
    BY <1>1
  <2> QED
    BY <1>1, <2>1, <2>2, <2>3
<1>3. ASSUME q < q2 PROVE FALSE
  <2>1. m * (q + 1) <= m * q2
    <3>1. q + 1 <= q2
      BY <1>1, <1>3
    <3> QED
      BY <1>1, <3>1
  <2>2. m * (q + 1) = m * q + m
    BY <1>1
  <2>3. m * q \in Nat /\ m * q2 \in Nat
    BY <1>1
  <2> QED
    BY <1>1, <2>1, <2>2, <2>3
<1>4. q2 = q
  BY <1>1, <1>2, <1>3
<1>5. m * q \in Nat
  OBVIOUS
<1> QED
  BY <1>1, <1>4, <1>5 DEF q2, r2

(* Remainders of sums. *)
LEMMA RemainderOfSum ==
  ASSUME NEW m \in Nat \ {0}, NEW a \in Nat, NEW b \in Nat
  PROVE  ((a % m) + b) % m = (a + b) % m
<1> DEFINE q  == a \div m
           r  == a % m
           q2 == (r + b) \div m
           r2 == (r + b) % m
<1>1. q \in Nat /\ r \in 0 .. m - 1 /\ a = m * q + r
  OBVIOUS
<1>2. q2 \in Nat /\ r2 \in 0 .. m - 1 /\ r + b = m * q2 + r2
  <2> HIDE DEF r
  <2>1. r + b \in Nat
    BY <1>1
  <2> QED
    BY <2>1
<1> HIDE DEF q, r, q2, r2
<1>3. a + b = m * (q + q2) + r2
  <2>1. m * (q + q2) = m * q + m * q2
    BY <1>1, <1>2
  <2>2. m * q \in Nat /\ m * q2 \in Nat
    BY <1>1, <1>2
  <2> QED
    BY <1>1, <1>2, <2>1, <2>2
<1>4. (a + b) % m = r2
  <2> DEFINE t == q + q2
             c == a + b
  <2>1. t \in Nat /\ c \in Nat /\ c = m * t + r2
    BY <1>1, <1>2, <1>3
  <2> HIDE DEF t, c
  <2>2. c % m = r2
    BY <1>2, <2>1, DivisionIs
  <2> QED
    BY <2>2 DEF c
<1> QED
  BY <1>4 DEF r, r2

(* A multiple more leaves the remainder as it is. *)
LEMMA RemainderOfMore ==
  ASSUME NEW m \in Nat \ {0}, NEW a \in Nat
  PROVE  (a + m) % m = a % m
<1> DEFINE q == a \div m
           r == a % m
<1>1. q \in Nat /\ r \in 0 .. m - 1 /\ a = m * q + r
  OBVIOUS
<1> HIDE DEF q, r
<1>2. a + m = m * (q + 1) + r
  <2>1. m * (q + 1) = m * q + m /\ m * q \in Nat
    BY <1>1
  <2> QED
    BY <1>1, <2>1
<1>3. (a + m) % m = r
  BY <1>1, <1>2, DivisionIs
<1> QED
  BY <1>3 DEF r

-----------------------------------------------------------------------------

(* The number of unset bits below a bit. *)
Rank(bits, n, i) == Cardinality({j \in UnsetBits(bits, n) : j < i})

(* The ranks of the unset bits are different and are 0, 1, 2 and so on.    *)
LEMMA RankOrders ==
  ASSUME NEW n \in Nat, NEW bits,
         NEW i \in UnsetBits(bits, n), NEW l \in UnsetBits(bits, n), i < l
  PROVE  Rank(bits, n, i) < Rank(bits, n, l)
<1> DEFINE U    == UnsetBits(bits, n)
           A(x) == {j \in U : j < x}
<1>1. IsFiniteSet(U) /\ U \in SUBSET Nat
  BY UnsetBitsFinite
<1>2. IsFiniteSet(A(i)) /\ IsFiniteSet(A(l))
  BY <1>1, FS_Subset
<1>3. A(i) \subseteq A(l) /\ i \in A(l) /\ i \notin A(i)
  BY <1>1
<1>4. Cardinality(A(i)) <= Cardinality(A(l)) /\ Cardinality(A(i)) # Cardinality(A(l))
  BY <1>2, <1>3, FS_Subset
<1>5. Cardinality(A(i)) \in Nat /\ Cardinality(A(l)) \in Nat
  BY <1>2, FS_CardinalityType
<1> QED
  BY <1>4, <1>5 DEF Rank

(* No two unset bits have one rank. *)
LEMMA RankInjective ==
  ASSUME NEW n \in Nat, NEW bits,
         NEW i \in UnsetBits(bits, n), NEW l \in UnsetBits(bits, n),
         Rank(bits, n, i) = Rank(bits, n, l)
  PROVE  i = l
<1> DEFINE U == UnsetBits(bits, n)
<1>1. U \in SUBSET Nat
  BY UnsetBitsFinite
<1>2. i \in Nat /\ l \in Nat
  BY <1>1
<1>3. Rank(bits, n, i) \in Nat /\ Rank(bits, n, l) \in Nat
  BY UnsetBitsFinite, FS_Subset, FS_CardinalityType DEF Rank
<1>4. ~ (i < l) /\ ~ (l < i)
  BY <1>3, RankOrders
<1> QED
  BY <1>2, <1>4

(* Ranks are below the number of unset bits. *)
LEMMA RankBelow ==
  ASSUME NEW n \in Nat, NEW bits, NEW i \in UnsetBits(bits, n)
  PROVE  Rank(bits, n, i) \in 0 .. Cardinality(UnsetBits(bits, n)) - 1
<1> DEFINE U == UnsetBits(bits, n)
           A == {j \in U : j < i}
<1>1. IsFiniteSet(U) /\ U \in SUBSET Nat
  BY UnsetBitsFinite
<1>2. A \in SUBSET U /\ i \in U /\ i \notin A
  BY <1>1
<1>3. IsFiniteSet(A) /\ Cardinality(A) <= Cardinality(U) /\ Cardinality(A) # Cardinality(U)
  BY <1>1, <1>2, FS_Subset
<1>4. Cardinality(A) \in Nat /\ Cardinality(U) \in Nat
  BY <1>1, <1>3, FS_CardinalityType
<1> QED
  BY <1>3, <1>4 DEF Rank

(* Every number below it is the rank of an unset bit. *)
LEMMA RankOnto ==
  ASSUME NEW n \in Nat, NEW bits, NEW r \in 0 .. Cardinality(UnsetBits(bits, n)) - 1
  PROVE  \E i \in UnsetBits(bits, n) : Rank(bits, n, i) = r
<1> DEFINE U == UnsetBits(bits, n)
           T == 0 .. Cardinality(U) - 1
           f == [i \in U |-> Rank(bits, n, i)]
<1>1. IsFiniteSet(U) /\ Cardinality(U) \in Nat
  BY UnsetBitsFinite, FS_CardinalityType
<1>2. IsFiniteSet(T) /\ Cardinality(T) = Cardinality(U)
  BY <1>1, FS_Interval
<1>3. f \in [U -> T]
  BY RankBelow
<1>4. \A i, l \in U : f[i] = f[l] => i = l
  BY RankInjective
<1>5. f \in Injection(U, T)
  BY <1>3, <1>4, Fun_IsInj
<1>6. f \in Surjection(U, T)
  BY <1>2, <1>5, FS_Injection
<1>7. PICK i \in U : f[i] = r
  BY <1>6 DEF Surjection
<1> QED
  BY <1>7

-----------------------------------------------------------------------------

(* A search answers an unset bit of that rank, or the error value. *)
LEMMA NthUnsetCases ==
  ASSUME NEW n \in Nat, NEW bits, NEW k \in Nat \ {0}
  PROVE  \/ /\ NthUnset(bits, n, k) \in UnsetBits(bits, n)
            /\ Rank(bits, n, NthUnset(bits, n, k)) = k - 1
         \/ /\ NthUnset(bits, n, k) = n
            /\ \A i \in UnsetBits(bits, n) : Rank(bits, n, i) # k - 1
BY DEF NthUnset, Rank

(* The error value is at most the end of the scan. *)
LEMMA NthUnsetType ==
  ASSUME NEW n \in Nat, NEW bits, NEW k \in Nat \ {0}
  PROVE  NthUnset(bits, n, k) \in 0 .. Scanned(n)
<1>1. CASE NthUnset(bits, n, k) \in UnsetBits(bits, n)
  BY <1>1, ScannedCovers DEF UnsetBits
<1>2. CASE NthUnset(bits, n, k) = n
  BY <1>2, ScannedCovers
<1> QED
  BY <1>1, <1>2, NthUnsetCases

(* While enough bits are unset, each of several searches answers a bit     *)
(* that was unset and that no other of them answers: what every handler    *)
(* that reserves several blocks needs of first_unset_bit and set_bit.      *)
THEOREM SearchesAnswerFreshBits ==
  ASSUME NEW n \in Nat, NEW bits,
         NEW k \in 1 .. Cardinality(UnsetBits(bits, n)),
         NEW l \in 1 .. Cardinality(UnsetBits(bits, n))
  PROVE  /\ NthUnset(bits, n, k) \notin bits
         /\ k # l => NthUnset(bits, n, k) # NthUnset(bits, n, l)
<1> DEFINE U == UnsetBits(bits, n)
<1>1. Cardinality(U) \in Nat
  BY UnsetBitsFinite, FS_CardinalityType
<1>2. \A x \in 1 .. Cardinality(U) :
        /\ NthUnset(bits, n, x) \in U
        /\ Rank(bits, n, NthUnset(bits, n, x)) = x - 1
  <2> TAKE x \in 1 .. Cardinality(U)
  <2>1. x - 1 \in 0 .. Cardinality(U) - 1 /\ x \in Nat \ {0}
    BY <1>1
  <2>2. \E i \in U : Rank(bits, n, i) = x - 1
    BY <2>1, RankOnto
  <2> QED
    BY <2>1, <2>2, NthUnsetCases
<1>3. NthUnset(bits, n, k) \notin bits
  BY <1>2 DEF UnsetBits
<1>4. ASSUME k # l PROVE k - 1 # l - 1
  BY <1>1, <1>4
<1> QED
  BY <1>2, <1>3, <1>4

(* When more searches are made than bits are unset, they answer all of     *)
(* them: nothing is out of their reach but what is taken.                  *)
THEOREM SearchesExhaustBits ==
  ASSUME NEW n \in Nat, NEW bits, NEW m \in Nat,
         m > Cardinality(UnsetBits(bits, n))
  PROVE  \A i \in UnsetBits(bits, n) : \E k \in 1 .. m : NthUnset(bits, n, k) = i
<1> DEFINE U == UnsetBits(bits, n)
<1> TAKE i \in U
<1> DEFINE k == Rank(bits, n, i) + 1
<1>1. Cardinality(U) \in Nat
  BY UnsetBitsFinite, FS_CardinalityType
<1>2. k \in 1 .. m /\ k \in Nat \ {0} /\ Rank(bits, n, i) = k - 1
  BY <1>1, RankBelow
<1>3. NthUnset(bits, n, k) \in U /\ Rank(bits, n, NthUnset(bits, n, k)) = k - 1
  BY <1>2, NthUnsetCases
<1>4. NthUnset(bits, n, k) = i
  BY <1>2, <1>3, RankInjective
<1> QED
  BY <1>2, <1>4

-----------------------------------------------------------------------------

(* The first search answers the least unset bit, if there is one. *)
LEMMA LeastIsFirst ==
  ASSUME NEW n \in Nat, NEW bits, NEW x \in UnsetBits(bits, n),
         \A y \in UnsetBits(bits, n) : x <= y
  PROVE  FirstUnset(bits, n) = x
<1>1. UnsetBits(bits, n) \in SUBSET Nat
  BY UnsetBitsFinite
<1>2. {j \in UnsetBits(bits, n) : j < x} = {}
  BY <1>1
<1>3. Rank(bits, n, x) = 0
  BY <1>2, FS_EmptySet DEF Rank
<1>4. 1 \in Nat \ {0} /\ 1 - 1 = 0
  OBVIOUS
<1>5. /\ NthUnset(bits, n, 1) \in UnsetBits(bits, n)
      /\ Rank(bits, n, NthUnset(bits, n, 1)) = 0
  BY <1>3, <1>4, NthUnsetCases
<1> QED
  BY <1>3, <1>5, RankInjective DEF FirstUnset

(* Without an unset bit it answers the error value. *)
LEMMA NoneIsFirst ==
  ASSUME NEW n \in Nat, NEW bits, UnsetBits(bits, n) = {}
  PROVE  FirstUnset(bits, n) = n
BY DEF FirstUnset, NthUnset

(* The answers of the first searches. *)
Earlier(bits, n, k) == {NthUnset(bits, n, j) : j \in 1 .. k - 1}

(* They are the bits of the lowest ranks. *)
LEMMA EarlierAre ==
  ASSUME NEW n \in Nat, NEW bits, NEW k \in Nat \ {0},
         NEW y \in UnsetBits(bits, n)
  PROVE  y \in Earlier(bits, n, k) <=> Rank(bits, n, y) < k - 1
<1> DEFINE U == UnsetBits(bits, n)
           c == Cardinality(U)
           r == Rank(bits, n, y)
<1>1. c \in Nat
  BY UnsetBitsFinite, FS_CardinalityType
<1>2. r \in 0 .. c - 1
  BY RankBelow
<1>3. ASSUME r < k - 1 PROVE y \in Earlier(bits, n, k)
  <2>1. r + 1 \in 1 .. k - 1 /\ r + 1 \in Nat \ {0} /\ (r + 1) - 1 = r
    BY <1>1, <1>2, <1>3
  <2>2. NthUnset(bits, n, r + 1) \in U /\ Rank(bits, n, NthUnset(bits, n, r + 1)) = r
    BY <2>1, NthUnsetCases
  <2>3. NthUnset(bits, n, r + 1) = y
    BY <2>2, RankInjective
  <2> QED
    BY <2>1, <2>3 DEF Earlier
<1>4. ASSUME y \in Earlier(bits, n, k) PROVE r < k - 1
  <2>1. PICK j \in 1 .. k - 1 : y = NthUnset(bits, n, j)
    BY <1>4 DEF Earlier
  <2>2. j \in Nat \ {0} /\ j - 1 < k - 1 /\ j - 1 \in Nat
    OBVIOUS
  <2>3. CASE Rank(bits, n, y) = j - 1
    BY <2>2, <2>3
  <2>4. CASE \A i \in U : Rank(bits, n, i) # j - 1
    <3>1. ~ (j - 1 \in 0 .. c - 1)
      BY <2>4, RankOnto
    <3>2. c <= j - 1
      BY <1>1, <2>2, <3>1
    <3> QED
      BY <1>1, <1>2, <2>2, <3>2
  <2> QED
    BY <2>1, <2>2, <2>3, <2>4, NthUnsetCases
<1> QED
  BY <1>3, <1>4

(* The k-th search answers what a first search would, once the bits that   *)
(* the earlier ones answered are set: handlers may be modelled with one    *)
(* step for all the bits they reserve.                                     *)
THEOREM SearchesAreRepeated ==
  ASSUME NEW n \in Nat, NEW bits, NEW k \in Nat \ {0}
  PROVE  NthUnset(bits, n, k) = FirstUnset(bits \cup Earlier(bits, n, k), n)
<1> DEFINE U    == UnsetBits(bits, n)
           then == bits \cup Earlier(bits, n, k)
           V    == UnsetBits(then, n)
           x    == NthUnset(bits, n, k)
<1>1. \A y : y \in V <=> y \in U /\ ~ (Rank(bits, n, y) < k - 1)
  <2>1. \A y : y \in V <=> y \in U /\ y \notin Earlier(bits, n, k)
    BY DEF UnsetBits
  <2>2. \A y \in U : y \in Earlier(bits, n, k) <=> Rank(bits, n, y) < k - 1
    BY EarlierAre
  <2> QED
    BY <2>1, <2>2
<1>2. Cardinality(U) \in Nat /\ U \in SUBSET Nat
  BY UnsetBitsFinite, FS_CardinalityType
<1>3. \A y \in U : Rank(bits, n, y) \in 0 .. Cardinality(U) - 1
  BY RankBelow
<1> HIDE DEF V, then
<1>4. CASE x \in U /\ Rank(bits, n, x) = k - 1
  <2>1. x \in V
    BY <1>1, <1>4
  <2>2. \A y \in V : x <= y
    <3> TAKE y \in V
    <3>1. y \in U /\ ~ (Rank(bits, n, y) < Rank(bits, n, x))
      BY <1>1, <1>4
    <3>2. ~ (y < x)
      BY <1>4, <3>1, RankOrders
    <3> QED
      BY <1>2, <1>4, <3>1, <3>2
  <2> HIDE DEF x
  <2>3. FirstUnset(then, n) = x
    BY <2>1, <2>2, LeastIsFirst DEF V
  <2> QED
    BY <2>3 DEF x, then
<1>5. CASE x = n /\ \A i \in U : Rank(bits, n, i) # k - 1
  <2>1. ~ (k - 1 \in 0 .. Cardinality(U) - 1)
    BY <1>5, RankOnto
  <2>2. Cardinality(U) <= k - 1
    BY <1>2, <2>1
  <2>3. V = {}
    BY <1>1, <1>2, <1>3, <2>2
  <2>4. FirstUnset(then, n) = n
    BY <2>3, NoneIsFirst DEF V
  <2> QED
    BY <1>5, <2>4 DEF then
<1> QED
  BY <1>4, <1>5, NthUnsetCases

=============================================================================

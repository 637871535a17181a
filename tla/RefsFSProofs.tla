---------------------------- MODULE RefsFSProofs ----------------------------
(***************************************************************************)
(* Theorems of RefsFS: types, and the agreement of the inode table with    *)
(* the two allocation bitmaps, for every number of inodes, blocks, names,  *)
(* entries and pointers.                                                   *)
(***************************************************************************)
EXTENDS RefsFS, BitmapProofs

-----------------------------------------------------------------------------
(* Inode records and directory places: which blocks a record holds after   *)
(* it grew or shrank, and that each block reserved for it is used once.    *)

(* The first of a nonempty set of places is one of them. *)
LEMMA FirstIsPlace ==
  ASSUME NEW S \in SUBSET (Nat \X Nat), S # {}
  PROVE  First(S) \in S
<1> DEFINE rows == {x[1] : x \in S}
<1>1. rows \in SUBSET Nat /\ rows # {}
  OBVIOUS
<1>2. PICK i \in rows : \A j \in rows : i <= j
  BY <1>1, LeastExists
<1> DEFINE row == {x \in S : x[1] = i}
           cols == {x[2] : x \in row}
<1>3. cols \in SUBSET Nat /\ cols # {}
  OBVIOUS
<1>4. PICK l \in cols : \A j \in cols : l <= j
  BY <1>3, LeastExists
<1>5. PICK x \in row : x[2] = l
  OBVIOUS
<1>6. \A y \in S : x[1] < y[1] \/ (x[1] = y[1] /\ x[2] <= y[2])
  <2> TAKE y \in S
  <2>1. x[1] = i /\ i \in Nat /\ y[1] \in Nat /\ i <= y[1]
    BY <1>1, <1>2
  <2>2. CASE x[1] = y[1]
    <3>1. y[2] \in cols
      BY <2>1, <2>2
    <3> QED
      BY <1>4, <1>5, <2>2, <3>1
  <2> QED
    BY <2>1, <2>2
<1> QED
  BY <1>6 DEF First

-----------------------------------------------------------------------------
(* The blocks an inode holds *)

(* Records that agree on their addresses hold the same blocks. *)
LEMMA SameHoldings ==
  ASSUME NEW r, NEW s, s.blocks = r.blocks, s.ptrs = r.ptrs, s.indirect = r.indirect
  PROVE  Held(s) = Held(r) /\ (HoldsDistinct(r) => HoldsDistinct(s))
BY DEF Held, HoldsDistinct, BlocksAt

(* A record given other addresses. *)
Reshape(r, n, i, q) == [r EXCEPT !.blocks = n, !.indirect = i, !.ptrs = q]

(* Its other fields are kept. *)
LEMMA Reshaped ==
  ASSUME NEW r \in InodeType, NEW n \in 0 .. MaxFileBlocks,
         NEW i \in Block \cup {NoBlock}, NEW q \in [PtrIndex -> Block \cup {NoBlock}]
  PROVE  /\ Reshape(r, n, i, q) \in InodeType
         /\ Reshape(r, n, i, q).inUse = r.inUse
         /\ Reshape(r, n, i, q).isDir = r.isDir
         /\ Reshape(r, n, i, q).blocks = n
         /\ Reshape(r, n, i, q).indirect = i
         /\ Reshape(r, n, i, q).ptrs = q
BY DEF Reshape, InodeType

(* One more direct block. *)
LEMMA AddBlockShape ==
  ASSUME NEW r \in InodeType, r.blocks < NumDirect, NEW b \in Block
  PROVE  /\ AddBlock(r, b) \in InodeType
         /\ AddBlock(r, b).inUse = r.inUse
         /\ AddBlock(r, b).isDir = r.isDir
         /\ AddBlock(r, b).nLinks = r.nLinks
         /\ AddBlock(r, b).size = r.size
         /\ AddBlock(r, b).blocks = r.blocks + 1
         /\ AddBlock(r, b).indirect = r.indirect
         /\ AddBlock(r, b).ptrs = [r.ptrs EXCEPT ![r.blocks] = b]
<1>1. NumDirect \in Nat \ {0} /\ PtrsPerBlock \in Nat \ {0}
  BY PointersAssumption
<1>2. r.blocks \in Nat /\ r.blocks + 1 \in 0 .. MaxFileBlocks
  BY <1>1 DEF InodeType, MaxFileBlocks
<1> QED
  BY <1>2 DEF AddBlock, InodeType

(* A record given one more direct block holds that one too. *)
LEMMA AddBlockHolds ==
  ASSUME NEW r \in InodeType, HoldsDistinct(r), r.blocks < NumDirect,
         NEW b \in Block, b \notin Held(r)
  PROVE  /\ Held(AddBlock(r, b)) = Held(r) \cup {b}
         /\ HoldsDistinct(AddBlock(r, b))
<1> DEFINE s == AddBlock(r, b)
<1>1. NumDirect \in Nat \ {0} /\ PtrsPerBlock \in Nat \ {0}
  BY PointersAssumption
<1>2. r.blocks \in Nat /\ r.blocks \in PtrIndex
  BY <1>1 DEF InodeType, PtrIndex, MaxFileBlocks
<1>3. /\ s.blocks = r.blocks + 1
      /\ s.indirect = r.indirect
      /\ s.ptrs = [r.ptrs EXCEPT ![r.blocks] = b]
  BY AddBlockShape
<1> HIDE DEF s
<1>4. /\ \A k \in 0 .. r.blocks - 1 : s.ptrs[k] = r.ptrs[k]
      /\ s.ptrs[r.blocks] = b
  <2>1. r.ptrs \in [PtrIndex -> Block \cup {NoBlock}]
    BY DEF InodeType
  <2>2. \A k \in 0 .. r.blocks - 1 : k \in PtrIndex /\ k # r.blocks
    BY <1>1, <1>2 DEF PtrIndex, MaxFileBlocks
  <2> QED
    BY <1>2, <1>3, <2>1, <2>2
<1>5. \A k : k \in 0 .. s.blocks - 1 <=> k \in 0 .. r.blocks - 1 \/ k = r.blocks
  BY <1>2, <1>3
<1>6. ~ (s.blocks > NumDirect) /\ ~ (r.blocks > NumDirect)
  BY <1>1, <1>2, <1>3
<1>7. Held(s) = Held(r) \cup {b}
  <2>1. BlocksAt(s, 0 .. s.blocks - 1) = BlocksAt(r, 0 .. r.blocks - 1) \cup {b}
    BY <1>4, <1>5 DEF BlocksAt
  <2> QED
    BY <1>6, <2>1 DEF Held
<1>8. \A k \in 0 .. r.blocks - 1 : r.ptrs[k] # b
  BY <1>6 DEF Held, BlocksAt
<1>9. HoldsDistinct(s)
  BY <1>4, <1>5, <1>6, <1>8 DEF HoldsDistinct
<1> QED
  BY <1>7, <1>9 DEF s

(* A shorter file holds what is left when Released is given back. *)
LEMMA ShrunkHolds ==
  ASSUME NEW r \in InodeType, HoldsDistinct(r),
         NEW count \in Nat, count < r.blocks
  PROVE  /\ Shrunk(r, count) \in InodeType
         /\ Shrunk(r, count).inUse = r.inUse
         /\ Shrunk(r, count).isDir = r.isDir
         /\ Shrunk(r, count).blocks = count
         /\ Shrunk(r, count).indirect = IF count > NumDirect THEN r.indirect ELSE NoBlock
         /\ \A k \in 0 .. count - 1 : Shrunk(r, count).ptrs[k] = r.ptrs[k]
         /\ Held(Shrunk(r, count)) = Held(r) \ Released(r, count)
         /\ HoldsDistinct(Shrunk(r, count))
<1> DEFINE s == Shrunk(r, count)
<1>1. /\ r.blocks \in 0 .. MaxFileBlocks /\ MaxFileBlocks \in Nat /\ NumDirect \in Nat
      /\ r.ptrs \in [PtrIndex -> Block \cup {NoBlock}]
      /\ r.indirect \in Block \cup {NoBlock}
  BY PointersAssumption DEF InodeType, MaxFileBlocks
<1>2. /\ s \in InodeType
      /\ s.inUse = r.inUse /\ s.isDir = r.isDir
      /\ s.blocks = count
      /\ s.indirect = IF count > NumDirect THEN r.indirect ELSE NoBlock
      /\ s.ptrs = [k \in PtrIndex |-> IF k < count THEN r.ptrs[k] ELSE NoBlock]
  <2> DEFINE q == [k \in PtrIndex |-> IF k < count THEN r.ptrs[k] ELSE NoBlock]
             i == IF count > NumDirect THEN r.indirect ELSE NoBlock
  <2>1. q \in [PtrIndex -> Block \cup {NoBlock}] /\ i \in Block \cup {NoBlock}
    BY <1>1
  <2>2. count \in 0 .. MaxFileBlocks
    BY <1>1
  <2>3. s = Reshape(r, count, i, q)
    BY DEF Reshape, Shrunk
  <2> HIDE DEF q, i, s
  <2>4. /\ Reshape(r, count, i, q) \in InodeType
        /\ Reshape(r, count, i, q).inUse = r.inUse
        /\ Reshape(r, count, i, q).isDir = r.isDir
        /\ Reshape(r, count, i, q).blocks = count
        /\ Reshape(r, count, i, q).indirect = i
        /\ Reshape(r, count, i, q).ptrs = q
    BY <2>1, <2>2, Reshaped
  <2> QED
    BY <2>3, <2>4 DEF q, i
<1> HIDE DEF s
<1>3. \A k \in 0 .. r.blocks - 1 : k \in PtrIndex
  BY <1>1 DEF PtrIndex
<1>4. \A k \in 0 .. count - 1 : k \in 0 .. r.blocks - 1 /\ s.ptrs[k] = r.ptrs[k]
  BY <1>1, <1>2, <1>3
<1>5. \A k : k \in 0 .. r.blocks - 1 <=> k \in 0 .. count - 1 \/ k \in count .. r.blocks - 1
  BY <1>1
<1>6. \A k \in 0 .. count - 1, l \in count .. r.blocks - 1 : r.ptrs[k] # r.ptrs[l]
  BY <1>1, <1>5 DEF HoldsDistinct
<1>7. BlocksAt(r, 0 .. r.blocks - 1) = BlocksAt(s, 0 .. count - 1) \cup BlocksAt(r, count .. r.blocks - 1)
  BY <1>4, <1>5 DEF BlocksAt
<1>8. BlocksAt(s, 0 .. count - 1) \cap BlocksAt(r, count .. r.blocks - 1) = {}
  BY <1>4, <1>6 DEF BlocksAt
<1>9. r.blocks > NumDirect => r.indirect \notin BlocksAt(r, 0 .. r.blocks - 1)
  BY DEF HoldsDistinct, BlocksAt
<1>10. Held(s) = Held(r) \ Released(r, count)
  BY <1>1, <1>2, <1>7, <1>8, <1>9 DEF Held, Released
<1>11. HoldsDistinct(s)
  BY <1>1, <1>2, <1>4 DEF HoldsDistinct
<1> QED
  BY <1>2, <1>4, <1>10, <1>11 DEF s

-----------------------------------------------------------------------------

(* The number of blocks a longer file reserves. *)
Wanted(r, count) == count - r.blocks + (IF NeedsIndirect(r, count) THEN 1 ELSE 0)

IndirectTurn(r) == NumDirect - r.blocks + 1

(* Every block reserved has one use: it becomes the block at one position, *)
(* or the indirect block.                                                  *)
LEMMA TurnsAreUsedOnce ==
  ASSUME NEW r \in InodeType, NEW count \in r.blocks + 1 .. MaxFileBlocks
  PROVE  /\ Wanted(r, count) \in Nat
         /\ NeedsIndirect(r, count) => IndirectTurn(r) \in 1 .. Wanted(r, count)
         /\ \A k \in r.blocks .. count - 1 :
              /\ Turn(r, count, k) \in 1 .. Wanted(r, count)
              /\ NeedsIndirect(r, count) => Turn(r, count, k) # IndirectTurn(r)
              /\ \A l \in r.blocks .. count - 1 : k # l => Turn(r, count, k) # Turn(r, count, l)
         /\ \A t \in 1 .. Wanted(r, count) :
              \/ NeedsIndirect(r, count) /\ t = IndirectTurn(r)
              \/ \E k \in r.blocks .. count - 1 : Turn(r, count, k) = t
<1>1. r.blocks \in 0 .. MaxFileBlocks /\ MaxFileBlocks \in Nat /\ NumDirect \in Nat
  BY PointersAssumption DEF InodeType, MaxFileBlocks
<1>2. count \in Nat /\ count > r.blocks
  BY <1>1
<1>3. CASE ~ NeedsIndirect(r, count)
  <2>1. \A t \in 1 .. Wanted(r, count) :
          t + r.blocks - 1 \in r.blocks .. count - 1 /\ Turn(r, count, t + r.blocks - 1) = t
    BY <1>1, <1>2, <1>3 DEF Turn, Wanted
  <2> QED
    BY <1>1, <1>2, <1>3, <2>1 DEF Turn, Wanted
<1>4. CASE NeedsIndirect(r, count)
  <2> DEFINE m == count - r.blocks + 1
             at(t) == IF t < IndirectTurn(r) THEN t + r.blocks - 1 ELSE t + r.blocks - 2
  <2>1. /\ Wanted(r, count) = m /\ m \in Nat
        /\ r.blocks <= NumDirect /\ NumDirect < count
        /\ IndirectTurn(r) \in 1 .. m
        /\ IndirectTurn(r) = NumDirect - r.blocks + 1
    BY <1>1, <1>2, <1>4 DEF Wanted, NeedsIndirect, IndirectTurn
  <2>2. \A k \in r.blocks .. count - 1 :
          Turn(r, count, k) = IF k >= NumDirect THEN k - r.blocks + 2 ELSE k - r.blocks + 1
    BY <1>1, <1>2, <1>4 DEF Turn
  <2> HIDE DEF m
  <2>3. m = count - r.blocks + 1
    BY DEF m
  <2>4. ASSUME NEW t \in 1 .. m, t # IndirectTurn(r)
        PROVE  at(t) \in r.blocks .. count - 1 /\ Turn(r, count, at(t)) = t
    BY <1>1, <1>2, <2>1, <2>2, <2>3, <2>4
  <2>5. \A t \in 1 .. m : t = IndirectTurn(r) \/ \E k \in r.blocks .. count - 1 : Turn(r, count, k) = t
    BY <2>4
  <2>6. \A k \in r.blocks .. count - 1 :
          /\ Turn(r, count, k) \in 1 .. m
          /\ Turn(r, count, k) # IndirectTurn(r)
          /\ \A l \in r.blocks .. count - 1 : k # l => Turn(r, count, k) # Turn(r, count, l)
    BY <1>1, <1>2, <2>1, <2>2, <2>3
  <2> QED
    BY <1>4, <2>1, <2>5, <2>6
<1> QED
  BY <1>3, <1>4

(* A longer file keeps its blocks in place and adds the ones reserved. *)
LEMMA GrownShape ==
  ASSUME NEW r \in InodeType, NEW count \in r.blocks + 1 .. MaxFileBlocks,
         NEW got \in [1 .. Wanted(r, count) -> Block]
  PROVE  /\ Grown(r, count, got) \in InodeType
         /\ Grown(r, count, got).inUse = r.inUse
         /\ Grown(r, count, got).isDir = r.isDir
         /\ Grown(r, count, got).blocks = count
         /\ Grown(r, count, got).indirect =
              IF NeedsIndirect(r, count) THEN got[IndirectTurn(r)] ELSE r.indirect
         /\ NeedsIndirect(r, count) => got[IndirectTurn(r)] \in Block
         /\ \A k \in 0 .. r.blocks - 1 : Grown(r, count, got).ptrs[k] = r.ptrs[k]
         /\ \A k \in r.blocks .. count - 1 :
              Grown(r, count, got).ptrs[k] = got[Turn(r, count, k)]
<1> DEFINE s == Grown(r, count, got)
           new == r.blocks .. count - 1
<1>1. /\ r.blocks \in 0 .. MaxFileBlocks /\ MaxFileBlocks \in Nat /\ NumDirect \in Nat
      /\ r.ptrs \in [PtrIndex -> Block \cup {NoBlock}]
      /\ r.indirect \in Block \cup {NoBlock}
      /\ count \in Nat
  BY PointersAssumption DEF InodeType, MaxFileBlocks
<1>2. /\ s \in InodeType
      /\ s.inUse = r.inUse /\ s.isDir = r.isDir
      /\ s.blocks = count
      /\ s.indirect = IF NeedsIndirect(r, count) THEN got[IndirectTurn(r)] ELSE r.indirect
      /\ s.ptrs = [k \in PtrIndex |-> IF k \in new THEN got[Turn(r, count, k)] ELSE r.ptrs[k]]
  <2> DEFINE q == [k \in PtrIndex |-> IF k \in new THEN got[Turn(r, count, k)] ELSE r.ptrs[k]]
             i == IF NeedsIndirect(r, count) THEN got[IndirectTurn(r)] ELSE r.indirect
  <2>1. q \in [PtrIndex -> Block \cup {NoBlock}] /\ i \in Block \cup {NoBlock}
    BY <1>1, TurnsAreUsedOnce
  <2>2. count \in 0 .. MaxFileBlocks
    BY <1>1
  <2>3. s = Reshape(r, count, i, q)
    BY DEF Reshape, Grown, IndirectTurn
  <2> HIDE DEF q, i, s
  <2>4. /\ Reshape(r, count, i, q) \in InodeType
        /\ Reshape(r, count, i, q).inUse = r.inUse
        /\ Reshape(r, count, i, q).isDir = r.isDir
        /\ Reshape(r, count, i, q).blocks = count
        /\ Reshape(r, count, i, q).indirect = i
        /\ Reshape(r, count, i, q).ptrs = q
    BY <2>1, <2>2, Reshaped
  <2> QED
    BY <2>3, <2>4 DEF q, i
<1> HIDE DEF s
<1>3. \A k \in 0 .. count - 1 : k \in PtrIndex
  BY <1>1 DEF PtrIndex
<1>4. /\ \A k \in 0 .. r.blocks - 1 : s.ptrs[k] = r.ptrs[k]
      /\ \A k \in new : s.ptrs[k] = got[Turn(r, count, k)]
  BY <1>1, <1>2, <1>3
<1>5. NeedsIndirect(r, count) => got[IndirectTurn(r)] \in Block
  BY TurnsAreUsedOnce
<1> QED
  BY <1>2, <1>4, <1>5 DEF s

(* A longer file holds its old blocks and the ones reserved. *)
LEMMA GrownHolds ==
  ASSUME NEW r \in InodeType, HoldsDistinct(r), r.indirect # NoBlock <=> r.blocks > NumDirect,
         NEW count \in r.blocks + 1 .. MaxFileBlocks,
         NEW got \in [1 .. Wanted(r, count) -> Block],
         \A t \in 1 .. Wanted(r, count) : got[t] \notin Held(r),
         \A t, u \in 1 .. Wanted(r, count) : t # u => got[t] # got[u]
  PROVE  /\ Held(Grown(r, count, got)) = Held(r) \cup BlocksIn(got)
         /\ HoldsDistinct(Grown(r, count, got))
<1> DEFINE s == Grown(r, count, got)
           new == r.blocks .. count - 1
<1>1. /\ r.blocks \in 0 .. MaxFileBlocks /\ MaxFileBlocks \in Nat /\ NumDirect \in Nat
      /\ r.ptrs \in [PtrIndex -> Block \cup {NoBlock}]
      /\ r.indirect \in Block \cup {NoBlock}
      /\ count \in Nat
  BY PointersAssumption DEF InodeType, MaxFileBlocks
<1>2. /\ s.blocks = count
      /\ s.indirect = IF NeedsIndirect(r, count) THEN got[IndirectTurn(r)] ELSE r.indirect
  BY GrownShape
<1>3. /\ \A k \in 0 .. r.blocks - 1 : s.ptrs[k] = r.ptrs[k]
      /\ \A k \in new : s.ptrs[k] = got[Turn(r, count, k)]
  BY GrownShape
<1> HIDE DEF s
<1>4. \A k : k \in 0 .. count - 1 <=> k \in 0 .. r.blocks - 1 \/ k \in new
  BY <1>1
<1>5. BlocksAt(s, 0 .. count - 1) = BlocksAt(r, 0 .. r.blocks - 1) \cup {got[Turn(r, count, k)] : k \in new}
  BY <1>3, <1>4 DEF BlocksAt
<1>6. BlocksIn(got) = {got[Turn(r, count, k)] : k \in new}
                        \cup (IF NeedsIndirect(r, count) THEN {got[IndirectTurn(r)]} ELSE {})
  <2>1. BlocksIn(got) = {got[t] : t \in 1 .. Wanted(r, count)}
    BY DEF BlocksIn
  <2> QED
    BY <2>1, TurnsAreUsedOnce
<1>7. Held(s) = Held(r) \cup BlocksIn(got)
  <2>1. CASE NeedsIndirect(r, count)
    BY <1>1, <1>2, <1>5, <1>6, <2>1 DEF Held, NeedsIndirect
  <2>2. CASE ~ NeedsIndirect(r, count)
    BY <1>1, <1>2, <1>5, <1>6, <2>2 DEF Held, NeedsIndirect
  <2> QED
    BY <2>1, <2>2
<1>8. \A k \in 0 .. r.blocks - 1 : r.ptrs[k] \in Held(r)
  BY DEF Held, BlocksAt
<1>9. \A k \in new : s.ptrs[k] \notin Held(r)
  BY <1>3, TurnsAreUsedOnce
<1>10. \A k, l \in 0 .. count - 1 : k # l => s.ptrs[k] # s.ptrs[l]
  <2> SUFFICES ASSUME NEW k \in 0 .. count - 1, NEW l \in 0 .. count - 1, k # l
               PROVE  s.ptrs[k] # s.ptrs[l]
    OBVIOUS
  <2>1. CASE k \in new /\ l \in new
    <3>1. Turn(r, count, k) \in 1 .. Wanted(r, count) /\ Turn(r, count, l) \in 1 .. Wanted(r, count)
          /\ Turn(r, count, k) # Turn(r, count, l)
      BY <2>1, TurnsAreUsedOnce
    <3> QED
      BY <1>3, <2>1, <3>1
  <2>2. CASE k \in new /\ l \notin new
    BY <1>3, <1>4, <1>8, <1>9, <2>2
  <2>3. CASE k \notin new /\ l \in new
    BY <1>3, <1>4, <1>8, <1>9, <2>3
  <2>4. CASE k \notin new /\ l \notin new
    BY <1>3, <1>4, <2>4 DEF HoldsDistinct
  <2> QED
    BY <2>1, <2>2, <2>3, <2>4
<1>11. ASSUME count > NumDirect, NEW k \in 0 .. count - 1
       PROVE  s.ptrs[k] # s.indirect
  <2>1. CASE NeedsIndirect(r, count)
    <3>1. s.indirect = got[IndirectTurn(r)] /\ IndirectTurn(r) \in 1 .. Wanted(r, count)
      BY <1>2, <2>1, TurnsAreUsedOnce
    <3>2. CASE k \in new
      BY <1>3, <2>1, <3>1, <3>2, TurnsAreUsedOnce
    <3>3. CASE k \notin new
      BY <1>3, <1>4, <1>8, <3>1, <3>3
    <3> QED
      BY <3>2, <3>3
  <2>2. CASE ~ NeedsIndirect(r, count)
    <3>1. r.blocks > NumDirect /\ s.indirect = r.indirect /\ r.indirect \in Held(r)
      BY <1>1, <1>2, <1>11, <2>2 DEF NeedsIndirect, Held
    <3>2. CASE k \in new
      BY <1>3, <3>1, <3>2, TurnsAreUsedOnce
    <3>3. CASE k \notin new
      BY <1>3, <1>4, <3>1, <3>3 DEF HoldsDistinct
    <3> QED
      BY <3>2, <3>3
  <2> QED
    BY <2>1, <2>2
<1>12. HoldsDistinct(s)
  BY <1>2, <1>10, <1>11 DEF HoldsDistinct
<1> QED
  BY <1>7, <1>12 DEF s

-----------------------------------------------------------------------------
(* The inductive invariant *)

(* A free inode has no blocks, another one those its size calls for. *)
Shape(r) == IF r.inUse THEN FitsSize(r) ELSE r.blocks = 0

(* The inode table agrees with the bitmaps, no block is held twice, and    *)
(* inodes have their shape.                                                *)
Sane(bits, blocks, table) ==
  /\ bits = {i \in Inum : table[i].inUse}
  /\ blocks = UNION {Held(table[i]) : i \in Inum}
  /\ \A i, j \in Inum : i # j => Held(table[i]) \cap Held(table[j]) = {}
  /\ \A i \in Inum : HoldsDistinct(table[i])
  /\ \A i \in Inum : Shape(table[i])

(* The inductive invariant: bitmaps and inodes agree while mounted. *)
Ind == TypeOK /\ (Up => Sane(inodeBitmap, dataBitmap, inode))

(* One inode changes.  Its new blocks are its old ones or belong to nobody. *)
Put(table, i, r) == [table EXCEPT ![i] = r]

(* The table after one inode changed. *)
LEMMA PutIs ==
  ASSUME NEW table \in [Inum -> InodeType], NEW i \in Inum, NEW r \in InodeType
  PROVE  /\ Put(table, i, r) \in [Inum -> InodeType]
         /\ Put(table, i, r)[i] = r
         /\ \A j \in Inum : j # i => Put(table, i, r)[j] = table[j]
BY DEF Put

(* A record that takes no block of another inode keeps the table sane. *)
LEMMA SanePut ==
  ASSUME NEW bits, NEW blocks, NEW table \in [Inum -> InodeType],
         Sane(bits, blocks, table),
         NEW i \in Inum, NEW r \in InodeType,
         HoldsDistinct(r), Shape(r),
         \A b \in Held(r) : b \in blocks => b \in Held(table[i])
  PROVE  Sane(IF r.inUse THEN bits \cup {i} ELSE bits \ {i},
              (blocks \ Held(table[i])) \cup Held(r),
              Put(table, i, r))
<1> DEFINE t == Put(table, i, r)
<1>1. t[i] = r /\ \A j \in Inum : j # i => t[j] = table[j]
  BY PutIs
<1> HIDE DEF t
<1>2. (IF r.inUse THEN bits \cup {i} ELSE bits \ {i}) = {j \in Inum : t[j].inUse}
  BY <1>1 DEF Sane
<1>3. (blocks \ Held(table[i])) \cup Held(r) = UNION {Held(t[j]) : j \in Inum}
  <2>1. blocks = UNION {Held(table[j]) : j \in Inum}
        /\ \A j \in Inum : i # j => Held(table[i]) \cap Held(table[j]) = {}
    BY DEF Sane
  <2>2. ASSUME NEW b \in (blocks \ Held(table[i])) \cup Held(r)
        PROVE  b \in UNION {Held(t[j]) : j \in Inum}
    <3>1. CASE b \in Held(r)
      BY <1>1, <3>1
    <3>2. CASE b \notin Held(r)
      <4>1. PICK j \in Inum : b \in Held(table[j])
        BY <2>1, <2>2, <3>2
      <4> QED
        BY <1>1, <2>2, <3>2, <4>1
    <3> QED
      BY <3>1, <3>2
  <2>3. ASSUME NEW b \in UNION {Held(t[j]) : j \in Inum}
        PROVE  b \in (blocks \ Held(table[i])) \cup Held(r)
    <3>1. PICK j \in Inum : b \in Held(t[j])
      BY <2>3
    <3>2. CASE j = i
      BY <1>1, <3>1, <3>2
    <3>3. CASE j # i
      BY <1>1, <2>1, <3>1, <3>3
    <3> QED
      BY <3>2, <3>3
  <2> QED
    BY <2>2, <2>3
<1>4. \A j, l \in Inum : j # l => Held(t[j]) \cap Held(t[l]) = {}
  <2> SUFFICES ASSUME NEW j \in Inum, NEW l \in Inum, j # l,
                      NEW b \in Held(t[j]), b \in Held(t[l])
               PROVE  FALSE
    OBVIOUS
  <2>1. \A k \in Inum : b \in Held(table[k]) => b \in blocks
    BY DEF Sane
  <2>2. \A k, m \in Inum : b \in Held(table[k]) /\ b \in Held(table[m]) => k = m
    BY DEF Sane
  <2> QED
    BY <1>1, <2>1, <2>2
<1>5. \A j \in Inum : HoldsDistinct(t[j]) /\ Shape(t[j])
  BY <1>1 DEF Sane
<1> QED
  BY <1>2, <1>3, <1>4, <1>5 DEF Sane, t

(* One inode changes that keeps its addresses. *)
Alike(r, s) ==
  /\ s.inUse = r.inUse
  /\ s.isDir = r.isDir
  /\ s.blocks = r.blocks
  /\ s.ptrs = r.ptrs
  /\ s.indirect = r.indirect

(* So does one that keeps the addresses. *)
LEMMA SaneAlike ==
  ASSUME NEW bits, NEW blocks, NEW table \in [Inum -> InodeType],
         Sane(bits, blocks, table),
         NEW i \in Inum, NEW r \in InodeType,
         Alike(table[i], r), Shape(r)
  PROVE  Sane(bits, blocks, Put(table, i, r))
<1>1. Held(r) = Held(table[i]) /\ HoldsDistinct(r)
  BY SameHoldings DEF Alike, Sane
<1>2. (blocks \ Held(table[i])) \cup Held(r) = blocks
  BY <1>1 DEF Sane
<1>3. (IF r.inUse THEN bits \cup {i} ELSE bits \ {i}) = bits
  BY DEF Sane, Alike
<1>4. Sane(IF r.inUse THEN bits \cup {i} ELSE bits \ {i},
           (blocks \ Held(table[i])) \cup Held(r),
           Put(table, i, r))
  BY <1>1, SanePut
<1> QED
  BY <1>2, <1>3, <1>4, Zenon

(* The fields of a free inode. *)
LEMMA FreeInodeFields ==
  /\ FreeInode \in InodeType
  /\ ~ FreeInode.inUse /\ ~ FreeInode.isDir
  /\ FreeInode.size = 0
  /\ FreeInode.blocks = 0
  /\ FreeInode.indirect = NoBlock
  /\ FreeInode.ptrs = [k \in PtrIndex |-> NoBlock]
<1>1. MaxFileBlocks \in Nat /\ LinkModulus \in Nat \ {0}
  BY PointersAssumption, LinksAssumption DEF MaxFileBlocks
<1> QED
  BY <1>1 DEF FreeInode, InodeType

(* An inode without blocks holds nothing. *)
LEMMA EmptyHoldsNothing ==
  ASSUME NEW r, r.blocks = 0
  PROVE  Held(r) = {}
<1>1. ~ (0 > NumDirect) /\ \A k : k \notin 0 .. 0 - 1
  BY PointersAssumption
<1> QED
  BY <1>1 DEF Held, BlocksAt

(* A free inode holds nothing. *)
LEMMA FreeHoldsNothing ==
  /\ FreeInode \in InodeType
  /\ ~ FreeInode.inUse
  /\ Held(FreeInode) = {}
  /\ HoldsDistinct(FreeInode)
  /\ Shape(FreeInode)
<1>1. NumDirect \in Nat \ {0}
  BY PointersAssumption
<1>2. FreeInode \in InodeType /\ ~ FreeInode.inUse /\ FreeInode.blocks = 0
  BY FreeInodeFields
<1>3. ~ (0 > NumDirect) /\ \A k : k \notin 0 .. 0 - 1
  BY <1>1
<1> QED
  BY <1>2, <1>3 DEF Held, BlocksAt, HoldsDistinct, Shape

(* What the invariant says to a reader of the bitmaps. *)
LEMMA IndImplies ==
  ASSUME Ind
  PROVE  InodeBitmapMatches /\ DataBitmapMatches /\ NoBlockShared /\ BlocksFitSize
<1> SUFFICES ASSUME Up
             PROVE  /\ inodeBitmap = InUse
                    /\ dataBitmap = UNION {Owned(i) : i \in InUse}
                    /\ \A i, j \in InUse : i # j => Owned(i) \cap Owned(j) = {}
                    /\ \A i \in InUse : HoldsDistinct(inode[i])
                    /\ \A i \in InUse : FitsSize(inode[i])
  BY DEF InodeBitmapMatches, DataBitmapMatches, NoBlockShared, BlocksFitSize
<1>1. Sane(inodeBitmap, dataBitmap, inode)
  BY DEF Ind
<1>2. \A i \in Inum : ~ inode[i].inUse => Held(inode[i]) = {}
  BY <1>1, EmptyHoldsNothing DEF Sane, Shape
<1>3. UNION {Held(inode[i]) : i \in Inum} = UNION {Held(inode[i]) : i \in InUse}
  BY <1>2 DEF InUse
<1> QED
  BY <1>1, <1>3 DEF Sane, Shape, InUse, Owned

(* A new directory holds its one block. *)
LEMMA NewDirInodeHolds ==
  ASSUME NEW b \in Block
  PROVE  /\ NewDirInode(b) \in InodeType
         /\ NewDirInode(b).inUse /\ NewDirInode(b).isDir
         /\ Held(NewDirInode(b)) = {b}
         /\ HoldsDistinct(NewDirInode(b))
         /\ Shape(NewDirInode(b))
<1> DEFINE s == NewDirInode(b)
<1>1. NumDirect \in Nat \ {0} /\ MaxFileBlocks \in Nat /\ 1 <= MaxFileBlocks /\ BlockSize \in Nat
      /\ LinkModulus \in Nat /\ LinkModulus > 2 /\ 0 \in PtrIndex /\ b # NoBlock
  BY PointersAssumption, LinksAssumption, BlockSizeAssumption
     DEF MaxFileBlocks, PtrIndex, Block, NoBlock
<1>2. /\ s \in InodeType
      /\ s.inUse /\ s.isDir
      /\ s.blocks = 1
      /\ s.indirect = NoBlock
      /\ s.ptrs[0] = b
  BY <1>1 DEF NewDirInode, InodeType
<1> HIDE DEF s
<1>3. \A k : k \in 0 .. 1 - 1 <=> k = 0
  OBVIOUS
<1>4. ~ (1 > NumDirect)
  BY <1>1
<1>5. Held(s) = {b}
  <2>1. BlocksAt(s, 0 .. 1 - 1) = {b}
    BY <1>2, <1>3 DEF BlocksAt
  <2> QED
    BY <1>2, <1>4, <2>1 DEF Held
<1>6. HoldsDistinct(s)
  BY <1>2, <1>3, <1>4 DEF HoldsDistinct
<1>7. Shape(s)
  BY <1>1, <1>2, <1>4 DEF Shape, FitsSize
<1> QED
  BY <1>2, <1>5, <1>6, <1>7 DEF s

(* A new file holds nothing. *)
LEMMA NewRegInodeHolds ==
  ASSUME NEW w \in BOOLEAN
  PROVE  /\ NewRegInode(w) \in InodeType
         /\ NewRegInode(w).inUse /\ ~ NewRegInode(w).isDir
         /\ Held(NewRegInode(w)) = {}
         /\ HoldsDistinct(NewRegInode(w))
         /\ Shape(NewRegInode(w))
<1> DEFINE s == NewRegInode(w)
<1>1. NumDirect \in Nat \ {0} /\ MaxFileBlocks \in Nat /\ BlockSize \in Nat \ {0}
      /\ LinkModulus \in Nat /\ LinkModulus > 2
  BY PointersAssumption, LinksAssumption, BlockSizeAssumption DEF MaxFileBlocks
<1>2. /\ s \in InodeType
      /\ s.inUse /\ ~ s.isDir
      /\ s.blocks = 0 /\ s.size = 0
      /\ s.indirect = NoBlock
  BY <1>1 DEF NewRegInode, InodeType
<1> HIDE DEF s
<1>3. (BlockSize - 1) \div BlockSize = 0
  BY <1>1
<1>4. 0 = BlocksFor(0)
  BY <1>1, <1>3 DEF BlocksFor
<1>5. ~ (0 > NumDirect) /\ \A k : k \notin 0 .. 0 - 1
  BY <1>1
<1>6. Held(s) = {} /\ HoldsDistinct(s)
  BY <1>2, <1>5 DEF Held, BlocksAt, HoldsDistinct
<1>7. Shape(s)
  BY <1>2, <1>4, <1>5 DEF Shape, FitsSize
<1> QED
  BY <1>2, <1>6, <1>7 DEF s

(* What handlers write into directory blocks are entries. *)
LEMMA DirBlockType ==
  /\ EmptyBlock \in [Slot -> EntryType]
  /\ OtherBlock \in [Slot -> EntryType]
  /\ \A i, j \in Inum : DirBlock(i, j) \in [Slot -> EntryType]
<1>1. ROOT_INUM \in Inum
  BY InodesAssumption DEF Inum, ROOT_INUM
<1>2. EmptyBlock \in [Slot -> EntryType]
  BY <1>1 DEF EmptyBlock, NoEntry, EntryType
<1>3. OtherBlock \in [Slot -> EntryType]
  BY DEF OtherBlock, EntryType
<1>4. ASSUME NEW i \in Inum, NEW j \in Inum
      PROVE  DirBlock(i, j) \in [Slot -> EntryType]
  <2>1. [name |-> ".", inum |-> i] \in EntryType /\ [name |-> "..", inum |-> j] \in EntryType
    BY DEF EntryType
  <2> QED
    BY <1>2, <2>1 DEF DirBlock
<1> QED
  BY <1>2, <1>3, <1>4

(* alloc_root_dir establishes the invariant. *)
LEMMA InitInd == Init => Ind
<1> SUFFICES ASSUME Init PROVE Ind
  OBVIOUS
<1> DEFINE dir0 == NewDirInode(0)
           free == [i \in Inum |-> FreeInode]
<1>1. /\ NumInodes \in Nat \ {0} /\ NumDataBlocks \in Nat
      /\ LinkModulus \in Nat /\ LinkModulus > 2
  BY InodesAssumption, BlocksAssumption, LinksAssumption
<1>2. Scanned(NumInodes) \in Nat /\ NumInodes <= Scanned(NumInodes)
      /\ Scanned(NumDataBlocks) \in Nat
  BY <1>1, ScannedCovers
<1>3. ROOT_INUM = 0 /\ 0 \in Inum /\ 0 \in Block
  BY <1>1, <1>2 DEF Inum, Block, ROOT_INUM
<1>4. free \in [Inum -> InodeType]
  BY FreeHoldsNothing
<1>5. Sane({}, {}, free)
  <2>1. \A i \in Inum : free[i] = FreeInode
    OBVIOUS
  <2> HIDE DEF free
  <2>2. {i \in Inum : free[i].inUse} = {}
    BY <2>1, FreeHoldsNothing
  <2>3. UNION {Held(free[i]) : i \in Inum} = {}
    BY <2>1, FreeHoldsNothing
  <2> QED
    BY <2>1, <2>2, <2>3, FreeHoldsNothing DEF Sane
<1>6. inode = Put(free, 0, dir0)
  BY <1>3 DEF Init, Put
<1>7. /\ dir0 \in InodeType /\ dir0.inUse /\ Held(dir0) = {0}
      /\ HoldsDistinct(dir0) /\ Shape(dir0)
  BY <1>3, NewDirInodeHolds
<1>8. Held(free[0]) = {}
  BY <1>3, FreeHoldsNothing
<1> HIDE DEF free, dir0
<1>9. inode \in [Inum -> InodeType]
  BY <1>3, <1>4, <1>6, <1>7, PutIs
<1>10. Sane(IF dir0.inUse THEN {} \cup {0} ELSE {} \ {0},
            ({} \ Held(free[0])) \cup Held(dir0), Put(free, 0, dir0))
  BY <1>3, <1>4, <1>5, <1>7, SanePut
<1>11. /\ inodeBitmap = IF dir0.inUse THEN {} \cup {0} ELSE {} \ {0}
       /\ dataBitmap = ({} \ Held(free[0])) \cup Held(dir0)
  BY <1>3, <1>7, <1>8 DEF Init
<1>12. Sane(inodeBitmap, dataBitmap, inode)
  BY <1>6, <1>10, <1>11
<1>13. data \in [Block -> [Slot -> EntryType]]
  BY <1>3, DirBlockType DEF Init
<1> QED
  BY <1>1, <1>2, <1>3, <1>9, <1>12, <1>13 DEF Init, Ind, TypeOK, Status, Replies

-----------------------------------------------------------------------------
(* Allocation *)

(* Blocks reserved while the process stays up are new, each of them.       *)
LEMMA Reserved ==
  ASSUME NEW m \in Nat
  PROVE  /\ reserve_data_blocks(m) \in [1 .. m -> Block]
         /\ BlocksIn(reserve_data_blocks(m)) \subseteq Block
         /\ AfterReserving(reserve_data_blocks(m)) \in Status
         /\ AfterReserving(reserve_data_blocks(m)) = "up" =>
              /\ \A t \in 1 .. m : reserve_data_blocks(m)[t] \notin dataBitmap
              /\ \A t, u \in 1 .. m :
                   t # u => reserve_data_blocks(m)[t] # reserve_data_blocks(m)[u]
<1> DEFINE got == reserve_data_blocks(m)
<1>1. NumDataBlocks \in Nat
  BY BlocksAssumption
<1>2. \A k \in 1 .. m : NthUnset(dataBitmap, NumDataBlocks, k) \in Block
  BY <1>1, NthUnsetType DEF Block
<1>3. got \in [1 .. m -> Block] /\ DOMAIN got = 1 .. m
  BY <1>2 DEF reserve_data_blocks
<1> HIDE DEF got
<1>4. BlocksIn(got) \subseteq Block
  BY <1>3 DEF BlocksIn
<1>5. AfterReserving(got) \in Status
  BY DEF AfterReserving, Status
<1>6. ASSUME AfterReserving(got) = "up"
      PROVE  /\ \A t \in 1 .. m : got[t] \notin dataBitmap
             /\ \A t, u \in 1 .. m : t # u => got[t] # got[u]
  <2>1. \A k \in 1 .. m : got[k] \notin dataBitmap /\ \A j \in 1 .. k - 1 : got[j] # got[k]
    BY <1>3, <1>6 DEF AfterReserving
  <2>2. \A t, u \in 1 .. m : t < u => t \in 1 .. u - 1
    OBVIOUS
  <2>3. \A t, u \in 1 .. m : t # u => t < u \/ u < t
    OBVIOUS
  <2> QED
    BY <2>1, <2>2, <2>3
<1> QED
  BY <1>3, <1>4, <1>5, <1>6 DEF got

(* An inode number in the table is that of a free inode. *)
LEMMA ReservedInode ==
  /\ reserve_inode \in Nat
  /\ reserve_inode < NumInodes => reserve_inode \in Inum /\ reserve_inode \notin inodeBitmap
<1>1. NumInodes \in Nat
  BY InodesAssumption
<1>2. UnsetBits(inodeBitmap, NumInodes) \in SUBSET Nat
  BY <1>1, UnsetBitsFinite
<1>3. \/ reserve_inode \in UnsetBits(inodeBitmap, NumInodes)
      \/ reserve_inode = NumInodes
  BY <1>1, NthUnsetCases DEF reserve_inode, FirstUnset
<1> QED
  BY <1>1, <1>2, <1>3 DEF Inum, UnsetBits

-----------------------------------------------------------------------------
(* Reading directories *)

(* The blocks of an inode in use are valid numbers of blocks. *)
LEMMA PtrsAreBlocks ==
  ASSUME Ind, Up, NEW i \in Inum, NEW k \in 0 .. inode[i].blocks - 1
  PROVE  inode[i].ptrs[k] \in Block /\ inode[i].ptrs[k] \in Owned(i)
<1>1. inode[i].ptrs[k] \in Owned(i)
  BY DEF Owned, Held, BlocksAt
<1>2. Owned(i) \subseteq dataBitmap /\ dataBitmap \subseteq Block
  BY DEF Ind, Sane, TypeOK, Owned
<1> QED
  BY <1>1, <1>2

(* The first of some places of a directory is a place of it. *)
LEMMA PlacesType ==
  ASSUME TypeOK, NEW d \in Inum, NEW S, S \subseteq Places(d), S # {}
  PROVE  First(S) \in S /\ First(S)[1] \in 0 .. inode[d].blocks - 1 /\ First(S)[2] \in Slot
<1>1. inode[d].blocks \in Nat /\ DirentsPerBlock \in Nat
  BY PointersAssumption, DirentsAssumption DEF TypeOK, InodeType, MaxFileBlocks
<1>2. Places(d) \subseteq Nat \X Nat
  BY <1>1 DEF Places, Slot
<1>3. First(S) \in S
  BY <1>2, FirstIsPlace
<1>4. First(S) \in (0 .. inode[d].blocks - 1) \X Slot
  BY <1>3 DEF Places
<1> QED
  BY <1>3, <1>4

(* inum_from_path answers an inode number or none. *)
LEMMA LookupType ==
  ASSUME Ind, Up, NEW d \in Inum, NEW n
  PROVE  inum_from_path(d, n) \in Inum \cup {NoInum}
<1>1. CASE Hits(d, n) = {}
  BY <1>1 DEF inum_from_path
<1>2. CASE Hits(d, n) # {}
  <2> DEFINE x == First(Hits(d, n))
  <2>1. Hits(d, n) \subseteq Places(d) /\ TypeOK
    BY DEF Hits, Ind
  <2>2. x[1] \in 0 .. inode[d].blocks - 1 /\ x[2] \in Slot
    BY <1>2, <2>1, PlacesType
  <2> HIDE DEF x
  <2>3. inode[d].ptrs[x[1]] \in Block
    BY <2>2, PtrsAreBlocks
  <2>4. EntryAt(d, x) \in EntryType
    BY <2>1, <2>2, <2>3 DEF EntryAt, TypeOK
  <2> QED
    BY <1>2, <2>4 DEF inum_from_path, EntryType, x
<1> QED
  BY <1>1, <1>2

-----------------------------------------------------------------------------
(* Each handler keeps the invariant *)

(* A step that changes nothing. *)
LEMMA StutterInd ==
  ASSUME Ind, UNCHANGED vars
  PROVE  Ind'
BY DEF Ind, TypeOK, Up, vars

(* A handler that returns an error. *)
LEMMA RefuseInd ==
  ASSUME Ind, NEW r \in Replies, Refuse(r)
  PROVE  Ind'
BY DEF Refuse, Return, fsVars, Ind, TypeOK, Up

(* A handler that leaves defined behaviour. *)
LEMMA UndefinedInd ==
  ASSUME Ind, Undefined
  PROVE  Ind'
BY DEF Undefined, fsVars, Ind, TypeOK, Up, Status

(* Records that are alike but for links, size and permission. *)
LEMMA LessLinkKeeps ==
  ASSUME NEW bits, NEW blocks, NEW table \in [Inum -> InodeType], NEW i \in Inum,
         Sane(bits, blocks, table)
  PROVE  /\ LessLink(table, i) \in [Inum -> InodeType]
         /\ Sane(bits, blocks, LessLink(table, i))
         /\ \A j \in Inum : Alike(table[j], LessLink(table, i)[j])
<1> DEFINE r == [table[i] EXCEPT !.nLinks = DecLinks(@)]
<1>1. table[i] \in InodeType /\ LinkModulus \in Nat /\ LinkModulus > 2
  BY LinksAssumption
<1>2. DecLinks(table[i].nLinks) \in 0 .. LinkModulus - 1
  <2>1. table[i].nLinks \in 0 .. LinkModulus - 1
    BY <1>1 DEF InodeType
  <2>2. table[i].nLinks + LinkModulus - 1 \in Nat
    BY <1>1, <2>1
  <2> QED
    BY <1>1, <2>2 DEF DecLinks
<1>3. r \in InodeType /\ Alike(table[i], r) /\ r.size = table[i].size
  BY <1>1, <1>2 DEF InodeType, Alike
<1>4. LessLink(table, i) = Put(table, i, r)
  BY DEF LessLink, Put
<1> HIDE DEF r
<1>5. Shape(r)
  BY <1>3 DEF Sane, Shape, FitsSize, Alike
<1>6. Sane(bits, blocks, Put(table, i, r))
  BY <1>3, <1>5, SaneAlike
<1>7. \A j \in Inum : Alike(table[j], Put(table, i, r)[j])
  <2> TAKE j \in Inum
  <2>1. Put(table, i, r)[i] = r /\ (j # i => Put(table, i, r)[j] = table[j])
    BY <1>3, PutIs
  <2>2. Alike(table[j], table[j])
    BY DEF Alike
  <2> QED
    BY <1>3, <2>1, <2>2
<1> QED
  BY <1>3, <1>4, <1>6, <1>7, PutIs

(* What rmdir and unlink take out of a directory leaves entries behind. *)
LEMMA WithoutEntryType ==
  ASSUME TypeOK, NEW p, NEW n
  PROVE  WithoutEntry(p, n) \in [Block -> [Slot -> EntryType]]
<1>1. NoEntry \in EntryType
  BY InodesAssumption DEF NoEntry, EntryType, Inum, ROOT_INUM
<1> QED
  BY <1>1 DEF TypeOK, WithoutEntry

(* Two links less, then the child is freed with what it holds. *)
LEMMA RemovalKeeps ==
  ASSUME Ind, Up, NEW p \in Inum, NEW c \in Inum
  PROVE  /\ WithoutLinks(p, c) \in [Inum -> InodeType]
         /\ Sane(inodeBitmap, dataBitmap, WithoutLinks(p, c))
         /\ [WithoutLinks(p, c) EXCEPT ![c] = FreeInode] \in [Inum -> InodeType]
         /\ Sane(inodeBitmap \ {c}, dataBitmap \ Owned(c),
                 [WithoutLinks(p, c) EXCEPT ![c] = FreeInode])
         /\ \A j \in Inum : Alike(inode[j], WithoutLinks(p, c)[j])
<1> DEFINE once == LessLink(inode, p)
           left == WithoutLinks(p, c)
<1>1. inode \in [Inum -> InodeType] /\ Sane(inodeBitmap, dataBitmap, inode)
  BY DEF Ind, TypeOK
<1>2. /\ once \in [Inum -> InodeType]
      /\ Sane(inodeBitmap, dataBitmap, once)
      /\ \A j \in Inum : Alike(inode[j], once[j])
  BY <1>1, LessLinkKeeps
<1> HIDE DEF once
<1>3. /\ left \in [Inum -> InodeType]
      /\ Sane(inodeBitmap, dataBitmap, left)
      /\ \A j \in Inum : Alike(once[j], left[j])
  <2>1. left = LessLink(once, c)
    BY DEF WithoutLinks, once
  <2> HIDE DEF left
  <2> QED
    BY <1>2, <2>1, LessLinkKeeps
<1>4. \A j \in Inum : Alike(inode[j], left[j])
  BY <1>2, <1>3 DEF Alike
<1> HIDE DEF left
<1>5. Held(left[c]) = Owned(c)
  BY <1>4, SameHoldings DEF Alike, Owned
<1>6. Sane(IF FreeInode.inUse THEN inodeBitmap \cup {c} ELSE inodeBitmap \ {c},
           (dataBitmap \ Held(left[c])) \cup Held(FreeInode), Put(left, c, FreeInode))
  BY <1>3, FreeHoldsNothing, SanePut
<1>7. /\ (IF FreeInode.inUse THEN inodeBitmap \cup {c} ELSE inodeBitmap \ {c}) = inodeBitmap \ {c}
      /\ (dataBitmap \ Held(left[c])) \cup Held(FreeInode) = dataBitmap \ Owned(c)
  BY <1>5, FreeHoldsNothing
<1>8. Sane(inodeBitmap \ {c}, dataBitmap \ Owned(c), Put(left, c, FreeInode))
  BY <1>6, <1>7
<1>9. Put(left, c, FreeInode) = [left EXCEPT ![c] = FreeInode]
  BY DEF Put
<1>10. Put(left, c, FreeInode) \in [Inum -> InodeType]
  BY <1>3, FreeHoldsNothing, PutIs
<1> QED
  BY <1>3, <1>4, <1>8, <1>9, <1>10 DEF left

(* A directory has no indirect block: rmdir releases all it holds. *)
LEMMA DirBlocksAreAll ==
  ASSUME Ind, Up, NEW c \in Inum, IsDir(c)
  PROVE  DirBlocks(c) = Owned(c)
<1>1. FitsSize(inode[c])
  BY DEF Ind, Sane, Shape, IsDir
<1>2. ~ (inode[c].blocks > NumDirect)
  BY <1>1, PointersAssumption DEF FitsSize, IsDir
<1> QED
  BY <1>2 DEF DirBlocks, Owned, Held

(* The history variable counts in 16 bits. *)
LEMMA UnlinkedType ==
  ASSUME TypeOK, NEW p \in Inum
  PROVE  /\ [unlinked EXCEPT ![p] = 0] \in [Inum -> 0 .. LinkModulus - 1]
         /\ [unlinked EXCEPT ![p] = (@ + 1) % LinkModulus] \in [Inum -> 0 .. LinkModulus - 1]
<1>1. LinkModulus \in Nat /\ LinkModulus > 2
  BY LinksAssumption
<1>2. unlinked \in [Inum -> 0 .. LinkModulus - 1]
  BY DEF TypeOK
<1>3. (unlinked[p] + 1) % LinkModulus \in 0 .. LinkModulus - 1
  BY <1>1, <1>2
<1> QED
  BY <1>1, <1>2, <1>3

(* rmdir keeps the invariant. *)
LEMMA rmdirInd ==
  ASSUME Ind, NEW p \in Inum, NEW n \in Names, rmdir(p, n)
  PROVE  Ind'
<1> DEFINE c == inum_from_path(p, n)
<1>1. Up /\ IsDir(p) /\ TypeOK
  BY DEF rmdir, RemoveDir, Ind
<1>2. c \in Inum \cup {NoInum}
  BY <1>1, LookupType
<1>3. CASE Refuse("ENOENT") \/ Refuse("ENOTDIR") \/ Refuse("ENOTEMPTY")
  BY <1>3, RefuseInd DEF Replies
<1>4. CASE /\ c # NoInum
           /\ IsDir(c)
           /\ data' = [b \in Block |-> IF b \in DirBlocks(c) THEN OtherBlock ELSE WithoutEntry(p, n)[b]]
           /\ ReleaseBits({c})
           /\ dataBitmap' = dataBitmap \ DirBlocks(c)
           /\ unlinked' = [unlinked EXCEPT ![c] = 0]
           /\ IF WithoutLinks(p, c)[c].nLinks <= 1
              THEN /\ inode' = [WithoutLinks(p, c) EXCEPT ![c] = FreeInode]
                   /\ Return("OK") /\ UNCHANGED status
              ELSE inode' = WithoutLinks(p, c) /\ status' = "links_assert" /\ UNCHANGED reply
  <2> HIDE DEF c
  <2>1. c \in Inum /\ DirBlocks(c) = Owned(c)
    BY <1>1, <1>2, <1>4, DirBlocksAreAll
  <2>2. data' \in [Block -> [Slot -> EntryType]]
    <3>1. WithoutEntry(p, n) \in [Block -> [Slot -> EntryType]]
      BY <1>1, WithoutEntryType
    <3> QED
      BY <1>4, <3>1, DirBlockType
  <2>3. unlinked' \in [Inum -> 0 .. LinkModulus - 1]
    BY <1>1, <1>4, <2>1, UnlinkedType
  <2>4. /\ WithoutLinks(p, c) \in [Inum -> InodeType]
        /\ [WithoutLinks(p, c) EXCEPT ![c] = FreeInode] \in [Inum -> InodeType]
        /\ Sane(inodeBitmap \ {c}, dataBitmap \ Owned(c),
                [WithoutLinks(p, c) EXCEPT ![c] = FreeInode])
    BY <1>1, <1>4, <2>1, RemovalKeeps DEF IsDir
  <2>5. /\ inodeBitmap' = inodeBitmap \ {c} /\ dataBitmap' = dataBitmap \ Owned(c)
        /\ inodeBitmap' \subseteq 0 .. Scanned(NumInodes) - 1
        /\ dataBitmap' \subseteq Block
    BY <1>1, <1>4, <2>1 DEF ReleaseBits, TypeOK
  <2>6. CASE WithoutLinks(p, c)[c].nLinks <= 1
    <3>1. inode' = [WithoutLinks(p, c) EXCEPT ![c] = FreeInode] /\ reply' = "OK" /\ status' = status
      BY <1>4, <2>6 DEF Return
    <3> QED
      BY <1>1, <2>2, <2>3, <2>4, <2>5, <3>1 DEF Ind, TypeOK, Replies
  <2>7. CASE ~ (WithoutLinks(p, c)[c].nLinks <= 1)
    <3>1. inode' = WithoutLinks(p, c) /\ status' = "links_assert" /\ reply' = reply
      BY <1>4, <2>7
    <3> QED
      BY <1>1, <2>2, <2>3, <2>4, <2>5, <3>1 DEF Ind, TypeOK, Status, Up
  <2> QED
    BY <2>6, <2>7
<1> QED
  BY <1>3, <1>4 DEF rmdir, RemoveDir

(* unlink keeps the invariant. *)
LEMMA unlinkInd ==
  ASSUME Ind, NEW p \in Inum, NEW n \in Names, unlink(p, n)
  PROVE  Ind'
<1> DEFINE c == inum_from_path(p, n)
<1>1. Up /\ IsDir(p) /\ TypeOK
  BY DEF unlink, RemoveFile, Ind
<1>2. CASE Refuse("EISDIR")
  BY <1>2, RefuseInd DEF Replies
<1>3. CASE /\ c # NoInum
           /\ ~ IsDir(c)
           /\ data' = WithoutEntry(p, n)
           /\ IF WithoutLinks(p, c)[c].nLinks = 0
              THEN /\ inode' = [WithoutLinks(p, c) EXCEPT ![c] = FreeInode]
                   /\ ReleaseBits({c})
                   /\ dataBitmap' = dataBitmap \ Owned(c)
              ELSE inode' = WithoutLinks(p, c) /\ UNCHANGED <<inodeBitmap, dataBitmap>>
           /\ unlinked' = [unlinked EXCEPT ![p] = (@ + 1) % LinkModulus]
           /\ Return("OK")
           /\ UNCHANGED status
  <2>1. c \in Inum
    BY <1>1, <1>3, LookupType
  <2> HIDE DEF c
  <2>2. data' \in [Block -> [Slot -> EntryType]]
    BY <1>1, <1>3, WithoutEntryType
  <2>3. unlinked' \in [Inum -> 0 .. LinkModulus - 1]
    BY <1>1, <1>3, UnlinkedType
  <2>4. status' = status /\ reply' = "OK"
    BY <1>3 DEF Return
  <2>5. /\ WithoutLinks(p, c) \in [Inum -> InodeType]
        /\ Sane(inodeBitmap, dataBitmap, WithoutLinks(p, c))
        /\ [WithoutLinks(p, c) EXCEPT ![c] = FreeInode] \in [Inum -> InodeType]
        /\ Sane(inodeBitmap \ {c}, dataBitmap \ Owned(c),
                [WithoutLinks(p, c) EXCEPT ![c] = FreeInode])
    BY <1>1, <2>1, RemovalKeeps
  <2>6. CASE WithoutLinks(p, c)[c].nLinks = 0
    <3>1. /\ inode' = [WithoutLinks(p, c) EXCEPT ![c] = FreeInode]
          /\ inodeBitmap' = inodeBitmap \ {c} /\ dataBitmap' = dataBitmap \ Owned(c)
      BY <1>3, <2>6 DEF ReleaseBits
    <3> QED
      BY <1>1, <2>2, <2>3, <2>4, <2>5, <3>1 DEF Ind, TypeOK, Replies
  <2>7. CASE ~ (WithoutLinks(p, c)[c].nLinks = 0)
    <3>1. inode' = WithoutLinks(p, c) /\ inodeBitmap' = inodeBitmap /\ dataBitmap' = dataBitmap
      BY <1>3, <2>7
    <3> QED
      BY <1>1, <2>2, <2>3, <2>4, <2>5, <3>1 DEF Ind, TypeOK, Replies
  <2> QED
    BY <2>6, <2>7
<1> QED
  BY <1>2, <1>3 DEF unlink, RemoveFile

(* chmod keeps the invariant. *)
LEMMA chmodInd ==
  ASSUME Ind, NEW i \in Inum, NEW w \in Perms, chmod(i, w)
  PROVE  Ind'
<1> DEFINE r == [inode[i] EXCEPT !.writable = w]
<1>1. Up /\ TypeOK /\ Sane(inodeBitmap, dataBitmap, inode) /\ inode \in [Inum -> InodeType]
  BY DEF chmod, Ind, TypeOK
<1>2. inode[i] \in InodeType /\ w \in BOOLEAN
  BY <1>1, PermsAssumption
<1>3. r \in InodeType /\ Alike(inode[i], r) /\ r.size = inode[i].size
  BY <1>2 DEF InodeType, Alike
<1>4. inode' = Put(inode, i, r)
  BY DEF chmod, Put
<1> HIDE DEF r
<1>5. Shape(r)
  BY <1>1, <1>3 DEF Sane, Shape, FitsSize, Alike
<1>6. Sane(inodeBitmap, dataBitmap, inode') /\ inode' \in [Inum -> InodeType]
  BY <1>1, <1>3, <1>4, <1>5, SaneAlike, PutIs
<1> QED
  BY <1>1, <1>6 DEF chmod, Return, Ind, TypeOK, Replies

(* A size needs a number of blocks. *)
LEMMA BlocksForType ==
  ASSUME NEW sz \in Nat
  PROVE  BlocksFor(sz) \in Nat
<1>1. BlockSize \in Nat /\ BlockSize > 0 /\ sz + BlockSize - 1 \in Nat
  BY BlockSizeAssumption
<1> HIDE DEF BlocksFor
<1> QED
  BY <1>1 DEF BlocksFor

(* Another size for an inode that has the blocks for it. *)
LEMMA Resized ==
  ASSUME NEW r \in InodeType, NEW sz \in Nat
  PROVE  /\ [r EXCEPT !.size = sz] \in InodeType
         /\ Alike(r, [r EXCEPT !.size = sz])
         /\ [r EXCEPT !.size = sz].size = sz
BY DEF InodeType, Alike

(* The inode record of a truncated file, and the blocks it then holds. *)
LEMMA TruncatedInd ==
  ASSUME Ind, Up, NEW i \in Inum, IsFile(i), NEW r \in InodeType, NEW sz \in Nat,
         r.inUse, ~ r.isDir, r.blocks = BlocksFor(sz),
         inode' = [inode EXCEPT ![i] = [r EXCEPT !.size = sz]],
         dataBitmap' \subseteq Block, status' \in Status,
         UNCHANGED <<inodeBitmap, data, unlinked>>, Return("OK"),
         Up' => /\ HoldsDistinct(r)
                /\ r.indirect # NoBlock <=> r.blocks > NumDirect
                /\ \A b \in Held(r) : b \in dataBitmap => b \in Owned(i)
                /\ dataBitmap' = (dataBitmap \ Owned(i)) \cup Held(r)
  PROVE  Ind'
<1> DEFINE s == [r EXCEPT !.size = sz]
<1>1. TypeOK /\ Sane(inodeBitmap, dataBitmap, inode) /\ inode \in [Inum -> InodeType]
  BY DEF Ind, TypeOK
<1>2. s \in InodeType /\ Alike(r, s) /\ s.size = sz
  BY Resized
<1>3. inode' = Put(inode, i, s)
  BY DEF Put
<1> HIDE DEF s
<1>4. inode' \in [Inum -> InodeType]
  <2>1. Put(inode, i, s) \in [Inum -> InodeType]
    BY <1>1, <1>2, PutIs
  <2> QED
    BY <1>3, <2>1, Zenon
<1>5. TypeOK'
  BY <1>1, <1>4 DEF TypeOK, Return, Replies
<1>6. ASSUME Up'
      PROVE  Sane(inodeBitmap', dataBitmap', inode')
  <2>1. Shape(s)
    BY <1>2, <1>6 DEF Shape, FitsSize, Alike
  <2>2. HoldsDistinct(s) /\ Held(s) = Held(r)
    BY <1>2, <1>6, SameHoldings DEF Alike
  <2>3. Sane(IF s.inUse THEN inodeBitmap \cup {i} ELSE inodeBitmap \ {i},
             (dataBitmap \ Held(inode[i])) \cup Held(s), Put(inode, i, s))
    BY <1>1, <1>2, <1>6, <2>1, <2>2, SanePut DEF Owned
  <2>4. (IF s.inUse THEN inodeBitmap \cup {i} ELSE inodeBitmap \ {i}) = inodeBitmap'
    BY <1>1, <1>2 DEF Alike, Sane, IsFile
  <2>5. (dataBitmap \ Held(inode[i])) \cup Held(s) = dataBitmap'
    BY <1>6, <2>2 DEF Owned
  <2> QED
    BY <1>3, <2>3, <2>4, <2>5, Zenon
<1> QED
  BY <1>5, <1>6 DEF Ind

(* do_truncate keeps the invariant, on each of its paths. *)
LEMMA do_truncateInd ==
  ASSUME Ind, Up, NEW i \in Inum, IsFile(i), NEW sz \in Nat, do_truncate(i, sz)
  PROVE  Ind'
<1> DEFINE old   == inode[i]
           count == BlocksFor(sz)
           fewer == Shrunk(old, count)
           got   == reserve_data_blocks(Wanted(old, count))
           more  == Grown(old, count, got)
<1>1. /\ TypeOK /\ old \in InodeType /\ count \in Nat
      /\ old.blocks \in 0 .. MaxFileBlocks /\ MaxFileBlocks \in Nat
      /\ old.inUse /\ ~ old.isDir
  BY BlocksForType, PointersAssumption DEF Ind, TypeOK, InodeType, IsFile, MaxFileBlocks
<1>2. /\ HoldsDistinct(old)
      /\ old.indirect # NoBlock <=> old.blocks > NumDirect
      /\ Held(old) \subseteq dataBitmap
      /\ Held(old) = Owned(i)
  BY <1>1 DEF Ind, Sane, Shape, FitsSize, Owned
<1>3. dataBitmap \subseteq Block /\ status \in Status
  BY <1>1 DEF TypeOK
<1>4. CASE /\ count = old.blocks
           /\ inode' = [inode EXCEPT ![i].size = sz]
           /\ Return("OK")
           /\ UNCHANGED <<inodeBitmap, dataBitmap, data, unlinked, status>>
  <2>1. inode' = [inode EXCEPT ![i] = [old EXCEPT !.size = sz]]
    BY <1>4
  <2>2. (dataBitmap \ Owned(i)) \cup Held(old) = dataBitmap
    BY <1>2
  <2> HIDE DEF old, count
  <2>3. old.blocks = BlocksFor(sz)
    BY <1>4 DEF count
  <2> QED
    BY <1>1, <1>2, <1>3, <1>4, <2>1, <2>2, <2>3, TruncatedInd
<1>5. CASE /\ count < old.blocks
           /\ inode' = [inode EXCEPT ![i] = [fewer EXCEPT !.size = sz]]
           /\ dataBitmap' = dataBitmap \ Released(old, count)
           /\ Return("OK")
           /\ UNCHANGED <<inodeBitmap, data, unlinked, status>>
  <2>1. /\ fewer \in InodeType /\ fewer.inUse /\ ~ fewer.isDir
        /\ fewer.blocks = count
        /\ fewer.indirect = IF count > NumDirect THEN old.indirect ELSE NoBlock
        /\ Held(fewer) = Held(old) \ Released(old, count)
        /\ HoldsDistinct(fewer)
    BY <1>1, <1>2, <1>5, ShrunkHolds
  <2>2. Released(old, count) \subseteq Held(old)
    <3>1. \A k \in count .. old.blocks - 1 : k \in 0 .. old.blocks - 1
      BY <1>1
    <3> QED
      BY <3>1 DEF Released, Held, BlocksAt
  <2>3. (dataBitmap \ Owned(i)) \cup Held(fewer) = dataBitmap'
    BY <1>2, <1>5, <2>1, <2>2
  <2>4. fewer.indirect # NoBlock <=> fewer.blocks > NumDirect
    <3>1. NumDirect \in Nat
      BY PointersAssumption
    <3> QED
      BY <1>1, <1>2, <1>5, <2>1, <3>1
  <2> HIDE DEF fewer, old
  <2> QED
    BY <1>1, <1>2, <1>3, <1>5, <2>1, <2>3, <2>4, TruncatedInd
<1>6. CASE count > MaxFileBlocks /\ Undefined
  BY <1>6, UndefinedInd
<1>7. CASE /\ old.blocks < count
           /\ count <= MaxFileBlocks
           /\ inode' = [inode EXCEPT ![i] = [more EXCEPT !.size = sz]]
           /\ dataBitmap' = dataBitmap \cup BlocksIn(got)
           /\ status' = AfterReserving(got)
           /\ Return("OK")
           /\ UNCHANGED <<inodeBitmap, data, unlinked>>
  <2>1. count \in old.blocks + 1 .. MaxFileBlocks
    BY <1>1, <1>7
  <2>2. Wanted(old, count) \in Nat
    BY <1>1, <2>1, TurnsAreUsedOnce
  <2> HIDE DEF old, count
  <2>3. /\ got \in [1 .. Wanted(old, count) -> Block]
        /\ BlocksIn(got) \subseteq Block
        /\ AfterReserving(got) \in Status
    BY <2>2, Reserved
  <2>4. AfterReserving(got) = "up" =>
          /\ \A t \in 1 .. Wanted(old, count) : got[t] \notin dataBitmap
          /\ \A t, u \in 1 .. Wanted(old, count) : t # u => got[t] # got[u]
    BY <2>2, Reserved
  <2> HIDE DEF got
  <2>5. /\ more \in InodeType /\ more.inUse /\ ~ more.isDir
        /\ more.blocks = count
        /\ more.indirect = IF NeedsIndirect(old, count) THEN got[IndirectTurn(old)] ELSE old.indirect
        /\ NeedsIndirect(old, count) => got[IndirectTurn(old)] \in Block
    <3>1. old \in InodeType /\ got \in [1 .. Wanted(old, count) -> Block]
      BY <1>1, <2>3
    <3>2. /\ more \in InodeType
          /\ more.inUse = old.inUse
          /\ more.isDir = old.isDir
          /\ more.blocks = count
          /\ more.indirect =
               IF NeedsIndirect(old, count) THEN got[IndirectTurn(old)] ELSE old.indirect
          /\ NeedsIndirect(old, count) => got[IndirectTurn(old)] \in Block
      BY <2>1, <3>1, GrownShape, Zenon
    <3> HIDE DEF more
    <3> QED
      BY <1>1, <3>2
  <2>6. ASSUME Up'
        PROVE  /\ HoldsDistinct(more)
               /\ Held(more) = Held(old) \cup BlocksIn(got)
               /\ \A b \in BlocksIn(got) : b \notin dataBitmap
    <3>1. /\ \A t \in 1 .. Wanted(old, count) : got[t] \notin dataBitmap
          /\ \A t, u \in 1 .. Wanted(old, count) : t # u => got[t] # got[u]
      BY <1>7, <2>4, <2>6 DEF Up
    <3>2. \A t \in 1 .. Wanted(old, count) : got[t] \notin Held(old)
      BY <1>2, <3>1
    <3>3. HoldsDistinct(more) /\ Held(more) = Held(old) \cup BlocksIn(got)
      BY <1>1, <1>2, <2>1, <2>3, <3>1, <3>2, GrownHolds
    <3> QED
      BY <2>3, <3>1, <3>3 DEF BlocksIn
  <2>7. more.indirect # NoBlock <=> more.blocks > NumDirect
    <3>1. NumDirect \in Nat /\ \A b \in Block : b # NoBlock
      BY PointersAssumption DEF Block, NoBlock
    <3> QED
      BY <1>1, <1>2, <1>7, <2>5, <3>1 DEF NeedsIndirect
  <2> HIDE DEF more
  <2>8. Up' => /\ \A b \in Held(more) : b \in dataBitmap => b \in Owned(i)
               /\ dataBitmap' = (dataBitmap \ Owned(i)) \cup Held(more)
    BY <1>2, <1>7, <2>6
  <2>9. dataBitmap' \subseteq Block /\ status' \in Status
    BY <1>3, <1>7, <2>3
  <2>10. more.blocks = BlocksFor(sz)
    BY <2>5 DEF count
  <2> QED
    BY <1>7, <2>5, <2>6, <2>7, <2>8, <2>9, <2>10, TruncatedInd
<1> QED
  BY <1>4, <1>5, <1>6, <1>7 DEF do_truncate, Wanted

(* truncate keeps the invariant. *)
LEMMA truncateInd ==
  ASSUME Ind, NEW i \in Inum, NEW sz \in Sizes, truncate(i, sz)
  PROVE  Ind'
<1>1. Up /\ IsFile(i) /\ sz \in Nat
  BY SizesAssumption DEF truncate
<1>2. CASE Refuse("EACCES")
  BY <1>2, RefuseInd DEF Replies
<1>3. CASE do_truncate(i, sz)
  BY <1>1, <1>3, do_truncateInd
<1> QED
  BY <1>2, <1>3 DEF truncate

(* write keeps the invariant. *)
LEMMA writeInd ==
  ASSUME Ind, NEW i \in Inum, NEW end \in Sizes, write(i, end)
  PROVE  Ind'
<1>1. Up /\ IsFile(i) /\ end \in Nat
  BY SizesAssumption DEF write
<1>2. CASE Refuse("EACCES") \/ Refuse("OK")
  BY <1>2, RefuseInd DEF Replies
<1>3. CASE do_truncate(i, end)
  BY <1>1, <1>3, do_truncateInd
<1> QED
  BY <1>2, <1>3 DEF write

-----------------------------------------------------------------------------
(* Creation *)

(* The parent keeps its blocks, and gets at most the last block reserved. *)
LEMMA ParentShape ==
  ASSUME Ind, Up, NEW p \in Inum, IsDir(p), ~ NoRoom(p), NEW isDir \in BOOLEAN,
         NEW got, NeedsBlock(p) => got[ForChild(isDir) + 1] \in Block
  PROVE  /\ WithChild(p, isDir, got) \in InodeType
         /\ WithChild(p, isDir, got).inUse
         /\ Shape(WithChild(p, isDir, got))
         /\ Alike(IF NeedsBlock(p) THEN AddBlock(inode[p], got[ForChild(isDir) + 1]) ELSE inode[p],
                  WithChild(p, isDir, got))
<1> DEFINE b == got[ForChild(isDir) + 1]
           r == IF NeedsBlock(p) THEN AddBlock(inode[p], b) ELSE inode[p]
           l == IF isDir THEN IncLinks(r.nLinks) ELSE r.nLinks
           s == [r EXCEPT !.nLinks = l]
<1>1. /\ inode[p] \in InodeType /\ inode[p].inUse /\ inode[p].isDir
      /\ FitsSize(inode[p]) /\ NumDirect \in Nat
      /\ LinkModulus \in Nat /\ LinkModulus > 2
  BY PointersAssumption, LinksAssumption DEF Ind, TypeOK, Sane, Shape, IsDir
<1>2. NeedsBlock(p) => inode[p].blocks < NumDirect
  BY <1>1 DEF NoRoom, FitsSize
<1>3. NeedsBlock(p) => /\ AddBlock(inode[p], b) \in InodeType
                       /\ AddBlock(inode[p], b).inUse /\ AddBlock(inode[p], b).isDir
                       /\ AddBlock(inode[p], b).blocks = inode[p].blocks + 1
                       /\ AddBlock(inode[p], b).indirect = inode[p].indirect
  BY <1>1, <1>2, AddBlockShape
<1>4. /\ r \in InodeType /\ r.inUse /\ r.isDir
      /\ r.blocks \in 1 .. NumDirect
      /\ r.indirect # NoBlock <=> r.blocks > NumDirect
  <2>1. CASE NeedsBlock(p)
    BY <1>1, <1>2, <1>3, <2>1 DEF FitsSize
  <2>2. CASE ~ NeedsBlock(p)
    BY <1>1, <2>2 DEF FitsSize
  <2> QED
    BY <2>1, <2>2
<1> HIDE DEF r
<1>5. l \in 0 .. LinkModulus - 1
  <2>1. r.nLinks \in 0 .. LinkModulus - 1
    BY <1>4 DEF InodeType
  <2>2. (r.nLinks + 1) % LinkModulus \in 0 .. LinkModulus - 1
    BY <1>1, <2>1
  <2> QED
    BY <2>1, <2>2 DEF IncLinks
<1> HIDE DEF l
<1>6. s \in InodeType /\ Alike(r, s)
  BY <1>4, <1>5 DEF InodeType, Alike
<1>7. WithChild(p, isDir, got) = s
  BY DEF WithChild, s, r, l
<1> HIDE DEF s
<1>8. Shape(s) /\ s.inUse
  BY <1>4, <1>6 DEF Shape, FitsSize, Alike
<1> QED
  BY <1>6, <1>7, <1>8 DEF r

(* The blocks of the parent after a creation. *)
LEMMA ParentHolds ==
  ASSUME Ind, Up, NEW p \in Inum, IsDir(p), ~ NoRoom(p), NEW isDir \in BOOLEAN,
         NEW got,
         NeedsBlock(p) => got[ForChild(isDir) + 1] \in Block \ dataBitmap
  PROVE  /\ Held(WithChild(p, isDir, got)) =
              Owned(p) \cup (IF NeedsBlock(p) THEN {got[ForChild(isDir) + 1]} ELSE {})
         /\ HoldsDistinct(WithChild(p, isDir, got))
<1> DEFINE b == got[ForChild(isDir) + 1]
           r == IF NeedsBlock(p) THEN AddBlock(inode[p], b) ELSE inode[p]
           s == WithChild(p, isDir, got)
<1>1. /\ inode[p] \in InodeType /\ HoldsDistinct(inode[p])
      /\ Owned(p) \subseteq dataBitmap
      /\ FitsSize(inode[p]) /\ inode[p].isDir /\ NumDirect \in Nat
  BY PointersAssumption DEF Ind, TypeOK, Sane, Shape, Owned, IsDir
<1>2. Alike(r, s)
  BY ParentShape
<1>3. CASE NeedsBlock(p)
  <2>1. b \in Block /\ b \notin Held(inode[p]) /\ inode[p].blocks < NumDirect
    BY <1>1, <1>3 DEF Owned, NoRoom, FitsSize
  <2>2. Held(AddBlock(inode[p], b)) = Held(inode[p]) \cup {b} /\ HoldsDistinct(AddBlock(inode[p], b))
    BY <1>1, <2>1, AddBlockHolds
  <2>3. Held(r) = Owned(p) \cup {b} /\ HoldsDistinct(r)
    BY <1>3, <2>2 DEF Owned
  <2> HIDE DEF r, s
  <2>4. Held(s) = Owned(p) \cup {b} /\ HoldsDistinct(s)
    BY <1>2, <2>3, SameHoldings DEF Alike
  <2> QED
    BY <1>3, <2>4 DEF s
<1>4. CASE ~ NeedsBlock(p)
  <2>1. Held(r) = Owned(p) /\ HoldsDistinct(r)
    BY <1>1, <1>4 DEF Owned
  <2> HIDE DEF r, s
  <2>2. Held(s) = Owned(p) /\ HoldsDistinct(s)
    BY <1>2, <2>1, SameHoldings DEF Alike
  <2> QED
    BY <1>4, <2>2 DEF s
<1> QED
  BY <1>3, <1>4

(* The blocks a creation reserves: those the child holds, then the one for *)
(* the parent.                                                             *)
LEMMA NewBlocksSplit ==
  ASSUME NEW p, NEW isDir \in BOOLEAN
  PROVE  /\ ForChild(isDir) + ForParent(p) \in Nat
         /\ NewBlocks(p, isDir) \in [1 .. ForChild(isDir) + ForParent(p) -> Block]
         /\ BlocksIn(NewBlocks(p, isDir)) \subseteq Block
         /\ AfterReserving(NewBlocks(p, isDir)) \in Status
         /\ isDir => NewBlocks(p, isDir)[1] \in Block
         /\ NeedsBlock(p) /\ ~ NoRoom(p) => NewBlocks(p, isDir)[ForChild(isDir) + 1] \in Block
         /\ ~ NoRoom(p) =>
              BlocksIn(NewBlocks(p, isDir)) =
                (IF isDir THEN {NewBlocks(p, isDir)[1]} ELSE {})
                  \cup (IF NeedsBlock(p) THEN {NewBlocks(p, isDir)[ForChild(isDir) + 1]} ELSE {})
         /\ AfterReserving(NewBlocks(p, isDir)) = "up" =>
              /\ BlocksIn(NewBlocks(p, isDir)) \cap dataBitmap = {}
              /\ isDir /\ NeedsBlock(p) /\ ~ NoRoom(p) =>
                   NewBlocks(p, isDir)[1] # NewBlocks(p, isDir)[2]
<1> DEFINE m   == ForChild(isDir) + ForParent(p)
           got == NewBlocks(p, isDir)
<1>1. /\ m \in Nat
      /\ isDir => 1 \in 1 .. m
      /\ NeedsBlock(p) /\ ~ NoRoom(p) => ForChild(isDir) + 1 \in 1 .. m
      /\ isDir => ForChild(isDir) = 1
  BY DEF ForChild, ForParent
<1>2. /\ got \in [1 .. m -> Block]
      /\ BlocksIn(got) \subseteq Block
      /\ AfterReserving(got) \in Status
      /\ AfterReserving(got) = "up" =>
           /\ \A t \in 1 .. m : got[t] \notin dataBitmap
           /\ \A t, u \in 1 .. m : t # u => got[t] # got[u]
  <2> HIDE DEF m
  <2>1. got = reserve_data_blocks(m)
    BY DEF NewBlocks, m
  <2> HIDE DEF got
  <2> QED
    BY <1>1, <2>1, Reserved
<1> HIDE DEF got
<1>3. BlocksIn(got) = {got[t] : t \in 1 .. m}
  BY <1>2 DEF BlocksIn
<1>4. ~ NoRoom(p) =>
        BlocksIn(got) = (IF isDir THEN {got[1]} ELSE {})
                          \cup (IF NeedsBlock(p) THEN {got[ForChild(isDir) + 1]} ELSE {})
  <2> SUFFICES ASSUME ~ NoRoom(p)
               PROVE  BlocksIn(got) = (IF isDir THEN {got[1]} ELSE {})
                        \cup (IF NeedsBlock(p) THEN {got[ForChild(isDir) + 1]} ELSE {})
    OBVIOUS
  <2>1. CASE isDir /\ NeedsBlock(p)
    <3>1. ForChild(isDir) + 1 = 2 /\ \A t : t \in 1 .. m <=> t = 1 \/ t = 2
      BY <2>1 DEF ForChild, ForParent
    <3> HIDE DEF m
    <3>2. BlocksIn(got) = {got[1], got[2]}
      BY <1>3, <3>1
    <3> QED
      BY <2>1, <3>1, <3>2
  <2>2. CASE isDir /\ ~ NeedsBlock(p)
    <3>1. \A t : t \in 1 .. m <=> t = 1
      BY <2>2 DEF ForChild, ForParent
    <3> HIDE DEF m
    <3>2. BlocksIn(got) = {got[1]}
      BY <1>3, <3>1
    <3> QED
      BY <2>2, <3>2
  <2>3. CASE ~ isDir /\ NeedsBlock(p)
    <3>1. ForChild(isDir) + 1 = 1 /\ \A t : t \in 1 .. m <=> t = 1
      BY <2>3 DEF ForChild, ForParent
    <3> QED
      BY <1>3, <2>3, <3>1
  <2>4. CASE ~ isDir /\ ~ NeedsBlock(p)
    <3>1. \A t : t \notin 1 .. m
      BY <2>4 DEF ForChild, ForParent
    <3> QED
      BY <1>3, <2>4, <3>1
  <2> QED
    BY <2>1, <2>2, <2>3, <2>4
<1>5. AfterReserving(got) = "up" => BlocksIn(got) \cap dataBitmap = {}
  BY <1>2, <1>3
<1> QED
  BY <1>1, <1>2, <1>4, <1>5 DEF got

(* A creation keeps the invariant when its child holds new blocks only. *)
LEMMA CreateInInd ==
  ASSUME Ind, Up, NEW p \in Inum, IsDir(p), NEW n \in Names,
         NEW isDir \in BOOLEAN, NEW child \in InodeType,
         child.inUse, child.isDir = isDir, HoldsDistinct(child), Shape(child),
         Held(child) = (IF isDir THEN {NewBlocks(p, isDir)[1]} ELSE {}),
         NEW contents,
         reserve_inode \in Inum => contents \in [Block -> [Slot -> EntryType]],
         CreateIn(p, n, child, contents, NewBlocks(p, isDir))
  PROVE  Ind'
<1> DEFINE c   == reserve_inode
           got == NewBlocks(p, isDir)
<1>1. /\ TypeOK /\ inode \in [Inum -> InodeType]
      /\ Sane(inodeBitmap, dataBitmap, inode)
  BY DEF Ind, TypeOK
<1>2. /\ c \in Nat /\ NumInodes \in Nat
      /\ c < NumInodes => c \in Inum /\ c \notin inodeBitmap
      /\ c \in Inum => inodeBitmap \cup {c} \subseteq 0 .. Scanned(NumInodes) - 1
  <2>1. NumInodes \in Nat /\ Scanned(NumInodes) \in Nat /\ NumInodes <= Scanned(NumInodes)
    BY InodesAssumption, ScannedCovers
  <2>2. \A k \in Inum : k \in 0 .. Scanned(NumInodes) - 1
    BY <2>1 DEF Inum
  <2>3. inodeBitmap \subseteq 0 .. Scanned(NumInodes) - 1
    BY <1>1 DEF TypeOK
  <2> QED
    BY <1>1, <2>1, <2>2, <2>3, ReservedInode
<1>3. BlocksIn(got) \subseteq Block /\ AfterReserving(got) \in Status
  BY NewBlocksSplit
<1>4. dataBitmap \cup BlocksIn(got) \subseteq Block
  BY <1>1, <1>3 DEF TypeOK
<1>5. CASE c >= NumInodes /\ Undefined
  BY <1>5, UndefinedInd
<1>6. CASE c < NumInodes /\ NoRoom(p) /\ StopForRoom(c, child, contents, got)
  <2> HIDE DEF c, got
  <2>1. [inode EXCEPT ![c] = child] \in [Inum -> InodeType]
    BY <1>1, <1>2, <1>6
  <2>2. contents \in [Block -> [Slot -> EntryType]]
    BY <1>2, <1>6 DEF c
  <2> QED
    BY <1>1, <1>2, <1>4, <1>6, <2>1, <2>2 DEF StopForRoom, AfterReserving, Ind, TypeOK, Status, Up
<1>7. CASE c < NumInodes /\ ~ NoRoom(p) /\ Link(p, n, c, child, contents, got)
  <2> DEFINE parent == WithChild(p, isDir, got)
             once   == Put(inode, c, child)
             twice  == Put(once, p, parent)
             x      == OpenPlace(p)
             home   == parent.ptrs[x[1]]
             before == IF NeedsBlock(p) THEN EmptyBlock ELSE contents[home]
  <2>1. /\ c \in Inum /\ c \notin inodeBitmap /\ c # p
        /\ contents \in [Block -> [Slot -> EntryType]]
    BY <1>1, <1>2, <1>7 DEF Sane, IsDir
  <2>2. NeedsBlock(p) => got[ForChild(isDir) + 1] \in Block
    BY <1>7, NewBlocksSplit
  <2> HIDE DEF c, got
  <2>3. /\ parent \in InodeType /\ parent.inUse /\ Shape(parent)
    BY <1>7, <2>2, ParentShape
  <2>4. data' \in [Block -> [Slot -> EntryType]]
    <3>1. data' = [contents EXCEPT ![home] = [before EXCEPT ![x[2]] = [name |-> n, inum |-> c]]]
      BY <1>7 DEF Link
    <3>2. [name |-> n, inum |-> c] \in EntryType
      BY <2>1 DEF EntryType
    <3>3. home \in Block => before \in [Slot -> EntryType]
      BY <2>1, DirBlockType
    <3> HIDE DEF home, before, x
    <3> QED
      BY <2>1, <3>1, <3>2, <3>3
  <2>5. inode' = twice
    BY <1>7 DEF Link, Put
  <2> HIDE DEF parent
  <2>6. once \in [Inum -> InodeType] /\ once[c] = child /\ once[p] = inode[p]
    BY <1>1, <2>1, PutIs
  <2> HIDE DEF once
  <2>7. twice \in [Inum -> InodeType]
    BY <2>3, <2>6, PutIs
  <2>8. /\ inodeBitmap' = inodeBitmap \cup {c}
        /\ dataBitmap' = dataBitmap \cup BlocksIn(got)
        /\ status' = AfterReserving(got)
        /\ reply' = "OK" /\ unlinked' = unlinked
    BY <1>7 DEF Link, Return
  <2>9. TypeOK'
    <3>1. inode' \in [Inum -> InodeType]
      BY <2>5, <2>7, Zenon
    <3> QED
      BY <1>1, <1>2, <1>3, <1>4, <2>1, <2>4, <2>8, <3>1 DEF TypeOK, Replies
  <2>10. ASSUME Up'
         PROVE  Sane(inodeBitmap', dataBitmap', inode')
    <3> DEFINE last == IF NeedsBlock(p) THEN {got[ForChild(isDir) + 1]} ELSE {}
    <3>1. AfterReserving(got) = "up"
      BY <2>8, <2>10 DEF Up
    <3>2. /\ BlocksIn(got) \cap dataBitmap = {}
          /\ BlocksIn(got) = Held(child) \cup last
          /\ Held(child) \cap last = {}
      BY <1>7, <3>1, NewBlocksSplit DEF got, ForChild
    <3> HIDE DEF last
    <3>3. Held(parent) = Owned(p) \cup last /\ HoldsDistinct(parent)
      <4>1. NeedsBlock(p) => got[ForChild(isDir) + 1] \in Block \ dataBitmap
        BY <2>2, <3>2 DEF last
      <4> QED
        BY <1>7, <4>1, ParentHolds DEF parent, last
    <3>4. Held(inode[c]) = {}
      BY <1>1, <2>1, EmptyHoldsNothing DEF Sane, Shape
    <3>5. Sane(inodeBitmap \cup {c}, dataBitmap \cup Held(child), once)
      <4>1. \A b \in Held(child) : b \in dataBitmap => b \in Held(inode[c])
        BY <3>2
      <4>2. Sane(IF child.inUse THEN inodeBitmap \cup {c} ELSE inodeBitmap \ {c},
                 (dataBitmap \ Held(inode[c])) \cup Held(child), Put(inode, c, child))
        BY <1>1, <2>1, <4>1, SanePut
      <4>3. (dataBitmap \ Held(inode[c])) \cup Held(child) = dataBitmap \cup Held(child)
        BY <3>4
      <4> QED
        BY <4>2, <4>3 DEF once
    <3>6. Owned(p) \subseteq dataBitmap
      BY <1>1 DEF Sane, Owned
    <3>7. Sane(IF parent.inUse THEN (inodeBitmap \cup {c}) \cup {p} ELSE (inodeBitmap \cup {c}) \ {p},
               ((dataBitmap \cup Held(child)) \ Held(once[p])) \cup Held(parent), twice)
      <4>1. \A b \in Held(parent) : b \in dataBitmap \cup Held(child) => b \in Held(once[p])
        BY <2>6, <3>2, <3>3 DEF Owned
      <4> QED
        BY <2>3, <2>6, <3>3, <3>5, <4>1, SanePut
    <3>8. (IF parent.inUse THEN (inodeBitmap \cup {c}) \cup {p} ELSE (inodeBitmap \cup {c}) \ {p})
            = inodeBitmap'
      BY <1>1, <2>3, <2>8 DEF Sane, IsDir
    <3>9. ((dataBitmap \cup Held(child)) \ Held(once[p])) \cup Held(parent) = dataBitmap'
      BY <2>6, <2>8, <3>2, <3>3, <3>6 DEF Owned
    <3> QED
      BY <2>5, <3>7, <3>8, <3>9, Zenon
  <2> QED
    BY <2>9, <2>10 DEF Ind
<1> QED
  BY <1>5, <1>6, <1>7 DEF CreateIn

(* mkdir keeps the invariant. *)
LEMMA mkdirInd ==
  ASSUME Ind, NEW p \in Inum, NEW n \in Names, mkdir(p, n)
  PROVE  Ind'
<1> DEFINE got      == NewBlocks(p, TRUE)
           contents == [data EXCEPT ![got[1]] = DirBlock(reserve_inode, p)]
           child    == NewDirInode(got[1])
<1>1. Up /\ IsDir(p) /\ data \in [Block -> [Slot -> EntryType]]
  BY DEF mkdir, Ind, TypeOK
<1>2. CASE Refuse("EEXIST")
  BY <1>2, RefuseInd DEF Replies
<1>3. CASE CreateIn(p, n, child, contents, got)
  <2>1. got[1] \in Block
    BY <1>1, NewBlocksSplit
  <2>2. /\ child \in InodeType /\ child.inUse /\ child.isDir = TRUE
        /\ Held(child) = {got[1]}
        /\ HoldsDistinct(child) /\ Shape(child)
    <3>1. child.isDir \in BOOLEAN
      BY <2>1, NewDirInodeHolds DEF InodeType
    <3> QED
      BY <2>1, <3>1, NewDirInodeHolds
  <2>3. reserve_inode \in Inum => contents \in [Block -> [Slot -> EntryType]]
    BY <1>1, DirBlockType
  <2> HIDE DEF child, contents
  <2>4. Held(child) = IF TRUE THEN {NewBlocks(p, TRUE)[1]} ELSE {}
    BY <2>2
  <2> QED
    BY <1>1, <1>3, <2>2, <2>3, <2>4, CreateInInd
<1> QED
  BY <1>2, <1>3 DEF mkdir

(* mknod keeps the invariant. *)
LEMMA mknodInd ==
  ASSUME Ind, NEW p \in Inum, NEW n \in Names, NEW w \in BOOLEAN, mknod(p, n, w)
  PROVE  Ind'
<1> DEFINE child == NewRegInode(w)
<1>1. Up /\ IsDir(p) /\ data \in [Block -> [Slot -> EntryType]]
  BY DEF mknod, Ind, TypeOK
<1>2. CASE Refuse("EEXIST")
  BY <1>2, RefuseInd DEF Replies
<1>3. CASE CreateIn(p, n, child, data, NewBlocks(p, FALSE))
  <2>1. /\ child \in InodeType /\ child.inUse /\ child.isDir = FALSE
        /\ Held(child) = {}
        /\ HoldsDistinct(child) /\ Shape(child)
    <3>1. child.isDir \in BOOLEAN
      BY <1>1, NewRegInodeHolds DEF InodeType
    <3> QED
      BY <1>1, <3>1, NewRegInodeHolds
  <2> HIDE DEF child
  <2>2. Held(child) = IF FALSE THEN {NewBlocks(p, FALSE)[1]} ELSE {}
    BY <2>1
  <2> QED
    BY <1>1, <1>3, <2>1, <2>2, CreateInInd
<1> QED
  BY <1>2, <1>3 DEF mknod

(* Every step keeps the invariant. *)
LEMMA NextInd == Ind /\ [Next]_vars => Ind'
<1> SUFFICES ASSUME Ind, [Next]_vars PROVE Ind'
  OBVIOUS
<1>1. CASE \E p \in Inum, n \in Names : mkdir(p, n)
  BY <1>1, mkdirInd
<1>2. CASE \E p \in Inum, n \in Names, w \in Perms : mknod(p, n, w)
  BY <1>2, PermsAssumption, mknodInd
<1>3. CASE \E p \in Inum, n \in Names : rmdir(p, n)
  BY <1>3, rmdirInd
<1>4. CASE \E p \in Inum, n \in Names : unlink(p, n)
  BY <1>4, unlinkInd
<1>5. CASE \E i \in Inum, w \in Perms : chmod(i, w)
  BY <1>5, chmodInd
<1>6. CASE \E i \in Inum, sz \in Sizes : truncate(i, sz)
  BY <1>6, truncateInd
<1>7. CASE \E i \in Inum, end \in Sizes : write(i, end)
  BY <1>7, writeInd
<1>8. CASE UNCHANGED vars
  BY <1>8, StutterInd
<1> QED
  BY <1>1, <1>2, <1>3, <1>4, <1>5, <1>6, <1>7, <1>8 DEF Next

(* The inode table and the two bitmaps agree in every reachable state: the *)
(* invariant the theorems below follow from.                               *)
THEOREM InvariantHolds == Spec => []Ind
BY InitInd, NextInd, PTL DEF Spec

-----------------------------------------------------------------------------
(* The theorems *)

(* Every handler leaves each variable with a value of its type: no inode   *)
(* number, block number or link count outside its range is ever stored,    *)
(* also by the request after which the process is stopped.                 *)
THEOREM TypeCorrect == Spec => []TypeOK
<1>1. Ind => TypeOK
  BY DEF Ind
<1> QED
  BY <1>1, InvariantHolds, PTL

(* While the process is up the inode bitmap has a 1 for exactly the inodes *)
(* in use: reserve_inode never hands out a live inode, and none is lost.   *)
THEOREM InodeBitmapTellsTheTruth == Spec => []InodeBitmapMatches
<1>1. Ind => InodeBitmapMatches
  BY IndImplies
<1> QED
  BY <1>1, InvariantHolds, PTL

(* While the process is up the data bitmap has a 1 for exactly the blocks  *)
(* that inodes in use hold, indirect blocks included.                      *)
THEOREM DataBitmapTellsTheTruth == Spec => []DataBitmapMatches
<1>1. Ind => DataBitmapMatches
  BY IndImplies
<1> QED
  BY <1>1, InvariantHolds, PTL

(* No data block has two owners or two places in one file, after any       *)
(* sequence of requests.                                                   *)
THEOREM BlocksHaveOneOwner == Spec => []NoBlockShared
<1>1. Ind => NoBlockShared
  BY IndImplies
<1> QED
  BY <1>1, InvariantHolds, PTL

(* A file has the blocks its size calls for, and an indirect block exactly *)
(* when it needs one; a directory has at least one block and no indirect.  *)
THEOREM SizesFit == Spec => []BlocksFitSize
<1>1. Ind => BlocksFitSize
  BY IndImplies
<1> QED
  BY <1>1, InvariantHolds, PTL

-----------------------------------------------------------------------------
(* Reserving when the disk is full *)

(* A search that answers a block in use has found all the others used. *)
LEMMA OvercommitFills ==
  ASSUME TypeOK, NEW m \in Nat, AfterReserving(reserve_data_blocks(m)) = "overcommitted"
  PROVE  0 .. NumDataBlocks - 1 \subseteq dataBitmap \cup BlocksIn(reserve_data_blocks(m))
<1> DEFINE got   == reserve_data_blocks(m)
           unset == UnsetBits(dataBitmap, NumDataBlocks)
<1>1. NumDataBlocks \in Nat /\ Scanned(NumDataBlocks) \in Nat /\ NumDataBlocks <= Scanned(NumDataBlocks)
  BY BlocksAssumption, ScannedCovers
<1>2. Cardinality(unset) \in Nat
  BY <1>1, UnsetBitsFinite, FS_CardinalityType
<1>3. got = [k \in 1 .. m |-> NthUnset(dataBitmap, NumDataBlocks, k)]
  BY DEF reserve_data_blocks
<1> HIDE DEF got, unset
<1>4. m > Cardinality(unset)
  <2> SUFFICES ASSUME m <= Cardinality(unset) PROVE FALSE
    BY <1>2
  <2>1. \A k \in 1 .. m : k \in 1 .. Cardinality(unset)
    BY <1>2
  <2>2. \A k, j \in 1 .. m : got[k] \notin dataBitmap /\ (k # j => got[k] # got[j])
    BY <1>1, <1>3, <2>1, SearchesAnswerFreshBits DEF unset
  <2>3. PICK k \in 1 .. m : got[k] \in dataBitmap \/ \E j \in 1 .. k - 1 : got[j] = got[k]
    BY <1>3 DEF AfterReserving, got
  <2>4. \A j \in 1 .. k - 1 : j \in 1 .. m /\ j # k
    OBVIOUS
  <2> QED
    BY <2>2, <2>3, <2>4
<1>5. \A i \in unset : i \in BlocksIn(got)
  <2>1. \A i \in unset : \E k \in 1 .. m : NthUnset(dataBitmap, NumDataBlocks, k) = i
    BY <1>1, <1>4, SearchesExhaustBits DEF unset
  <2> QED
    BY <1>3, <2>1 DEF BlocksIn
<1>6. \A i \in 0 .. NumDataBlocks - 1 : i \in dataBitmap \/ i \in unset
  BY <1>1 DEF unset, UnsetBits
<1> QED
  BY <1>5, <1>6 DEF got

(* So mkdir and mknod, *)
LEMMA CreateInFills ==
  ASSUME Ind, Up, NEW p \in Inum, NEW isDir \in BOOLEAN, NEW n, NEW child, NEW contents,
         CreateIn(p, n, child, contents, NewBlocks(p, isDir)), status' = "overcommitted"
  PROVE  0 .. NumDataBlocks - 1 \subseteq dataBitmap'
<1>1. \/ Link(p, n, reserve_inode, child, contents, NewBlocks(p, isDir))
      \/ StopForRoom(reserve_inode, child, contents, NewBlocks(p, isDir))
  BY DEF CreateIn, Undefined
<1>2. /\ AfterReserving(NewBlocks(p, isDir)) = "overcommitted"
      /\ dataBitmap' = dataBitmap \cup BlocksIn(NewBlocks(p, isDir))
  BY <1>1 DEF Link, StopForRoom
<1>3. ForChild(isDir) + ForParent(p) \in Nat
  BY DEF ForChild, ForParent
<1> QED
  BY <1>2, <1>3, OvercommitFills DEF NewBlocks, Ind

(* and truncate and write. *)
LEMMA do_truncateFills ==
  ASSUME Ind, Up, NEW i \in Inum, NEW sz \in Nat, do_truncate(i, sz), status' = "overcommitted"
  PROVE  0 .. NumDataBlocks - 1 \subseteq dataBitmap'
<1> DEFINE m == Wanted(inode[i], BlocksFor(sz))
<1>1. /\ inode[i] \in InodeType /\ inode[i].blocks \in Nat /\ BlocksFor(sz) \in Nat
      /\ MaxFileBlocks \in Nat
  BY BlocksForType, PointersAssumption DEF Ind, TypeOK, InodeType, MaxFileBlocks
<1>2. /\ inode[i].blocks < BlocksFor(sz) /\ BlocksFor(sz) <= MaxFileBlocks
      /\ AfterReserving(reserve_data_blocks(m)) = "overcommitted"
      /\ dataBitmap' = dataBitmap \cup BlocksIn(reserve_data_blocks(m))
  BY DEF do_truncate, Undefined, Up, Wanted
<1>3. m \in Nat
  BY <1>1, <1>2, TurnsAreUsedOnce
<1> QED
  BY <1>2, <1>3, OvercommitFills DEF Ind

(* A step that overcommits leaves no valid block unset. *)
LEMMA NextFills ==
  ASSUME Ind, Next, status' = "overcommitted"
  PROVE  0 .. NumDataBlocks - 1 \subseteq dataBitmap'
<1>1. \A r : ~ (Up /\ Refuse(r))
  BY DEF Up, Refuse
<1>2. ASSUME NEW p \in Inum, NEW n \in Names, mkdir(p, n)
      PROVE  0 .. NumDataBlocks - 1 \subseteq dataBitmap'
  BY <1>1, <1>2, CreateInFills DEF mkdir
<1>3. ASSUME NEW p \in Inum, NEW n \in Names, NEW w \in Perms, mknod(p, n, w)
      PROVE  0 .. NumDataBlocks - 1 \subseteq dataBitmap'
  BY <1>1, <1>3, CreateInFills DEF mknod
<1>4. ASSUME NEW p \in Inum, NEW n \in Names, rmdir(p, n)
      PROVE  FALSE
  BY <1>1, <1>4 DEF rmdir, RemoveDir, Up
<1>5. ASSUME NEW p \in Inum, NEW n \in Names, unlink(p, n)
      PROVE  FALSE
  BY <1>1, <1>5 DEF unlink, RemoveFile, Up
<1>6. ASSUME NEW i \in Inum, NEW w \in Perms, chmod(i, w)
      PROVE  FALSE
  BY <1>6 DEF chmod, Up
<1>7. ASSUME NEW i \in Inum, NEW sz \in Sizes, truncate(i, sz)
      PROVE  0 .. NumDataBlocks - 1 \subseteq dataBitmap'
  BY <1>1, <1>7, do_truncateFills, SizesAssumption DEF truncate
<1>8. ASSUME NEW i \in Inum, NEW end \in Sizes, write(i, end)
      PROVE  0 .. NumDataBlocks - 1 \subseteq dataBitmap'
  BY <1>1, <1>8, do_truncateFills, SizesAssumption DEF write
<1> QED
  BY <1>2, <1>3, <1>4, <1>5, <1>6, <1>7, <1>8 DEF Next

(* reserve_data_block hands out a block that is in use, which nothing in   *)
(* it prevents, only in a request that finds or leaves every valid block   *)
(* taken: the allocator loses no space to the scan by bytes.               *)
THEOREM OvercommitsOnlyWhenFull == Spec => []OvercommitOnlyWhenFull
<1>1. Init => OvercommitOnlyWhenFull
  BY DEF Init, OvercommitOnlyWhenFull
<1>2. Ind /\ OvercommitOnlyWhenFull /\ [Next]_vars => OvercommitOnlyWhenFull'
  <2>1. CASE UNCHANGED vars
    BY <2>1 DEF vars, OvercommitOnlyWhenFull
  <2>2. ASSUME Ind, Next PROVE OvercommitOnlyWhenFull'
    BY <2>2, NextFills DEF OvercommitOnlyWhenFull
  <2> QED
    BY <2>1, <2>2
<1> QED
  BY <1>1, <1>2, InvariantHolds, PTL DEF Spec

-----------------------------------------------------------------------------
(* Blocks stay in place *)

(* A change of other fields moves no block. *)
LEMMA AlikeInPlace ==
  ASSUME NEW r, NEW s, NEW t, InPlace(r, s), Alike(s, t)
  PROVE  InPlace(r, t)
BY DEF InPlace, Alike

(* No change moves no block. *)
LEMMA SameInPlace ==
  ASSUME NEW r
  PROVE  InPlace(r, r)
BY DEF InPlace

(* Nor does one more block, *)
LEMMA AddBlockInPlace ==
  ASSUME NEW r \in InodeType, r.blocks < NumDirect, NEW b \in Block
  PROVE  InPlace(r, AddBlock(r, b))
<1> DEFINE s == AddBlock(r, b)
<1>1. /\ s.indirect = r.indirect
      /\ s.ptrs = [r.ptrs EXCEPT ![r.blocks] = b]
  BY AddBlockShape
<1> HIDE DEF s
<1>2. \A k \in PtrIndex : k < r.blocks => s.ptrs[k] = r.ptrs[k]
  <2>1. r.ptrs \in [PtrIndex -> Block \cup {NoBlock}] /\ r.blocks \in Nat
    BY PointersAssumption DEF InodeType, MaxFileBlocks
  <2>2. \A k \in PtrIndex : k < r.blocks => k # r.blocks
    BY <2>1, PointersAssumption DEF PtrIndex, MaxFileBlocks
  <2> QED
    BY <1>1, <2>1, <2>2
<1> QED
  BY <1>1, <1>2 DEF InPlace, s

(* nor a shorter file, *)
LEMMA ShrunkInPlace ==
  ASSUME NEW r \in InodeType, HoldsDistinct(r), NEW count \in Nat, count < r.blocks
  PROVE  InPlace(r, Shrunk(r, count))
<1>1. /\ Shrunk(r, count).blocks = count
      /\ Shrunk(r, count).indirect = IF count > NumDirect THEN r.indirect ELSE NoBlock
      /\ \A k \in 0 .. count - 1 : Shrunk(r, count).ptrs[k] = r.ptrs[k]
  BY ShrunkHolds
<1>2. \A k \in PtrIndex : k < count => k \in 0 .. count - 1
  BY PointersAssumption DEF PtrIndex, MaxFileBlocks
<1> QED
  BY <1>1, <1>2 DEF InPlace

(* nor a longer one. *)
LEMMA GrownInPlace ==
  ASSUME NEW r \in InodeType, NEW count \in r.blocks + 1 .. MaxFileBlocks,
         NEW got \in [1 .. Wanted(r, count) -> Block]
  PROVE  InPlace(r, Grown(r, count, got))
<1>1. /\ Grown(r, count, got).indirect =
           IF NeedsIndirect(r, count) THEN got[IndirectTurn(r)] ELSE r.indirect
      /\ \A k \in 0 .. r.blocks - 1 : Grown(r, count, got).ptrs[k] = r.ptrs[k]
  BY GrownShape
<1>2. r.blocks \in Nat /\ NumDirect \in Nat
  BY PointersAssumption DEF InodeType, MaxFileBlocks
<1>3. \A k \in PtrIndex : k < r.blocks => k \in 0 .. r.blocks - 1
  BY <1>2, PointersAssumption DEF PtrIndex, MaxFileBlocks
<1>4. r.blocks > NumDirect => ~ NeedsIndirect(r, count)
  BY <1>2 DEF NeedsIndirect
<1> QED
  BY <1>1, <1>3, <1>4 DEF InPlace

(* What BlocksStay says of one step. *)
AllInPlace == \A i \in InUse : status' = "up" /\ inode'[i].inUse => InPlace(inode[i], inode'[i])

(* One inode changes, in place. *)
LEMMA OneChangesInPlace ==
  ASSUME Ind, NEW i \in Inum, NEW r, inode' = [inode EXCEPT ![i] = r], InPlace(inode[i], r)
  PROVE  AllInPlace
<1>1. \A j \in Inum : inode'[j] = IF j = i THEN r ELSE inode[j]
  BY DEF Ind, TypeOK
<1> QED
  BY <1>1, SameInPlace DEF AllInPlace, InUse

(* A handler that changes nothing. *)
LEMMA RefuseInPlace ==
  ASSUME NEW r, Refuse(r) \/ Undefined
  PROVE  AllInPlace
BY SameInPlace DEF Refuse, Undefined, fsVars, AllInPlace

(* Creation moves no block, *)
LEMMA CreateInInPlace ==
  ASSUME Ind, Up, NEW p \in Inum, IsDir(p), NEW isDir \in BOOLEAN, NEW n,
         NEW child, child.isDir = isDir, NEW contents,
         CreateIn(p, n, child, contents, NewBlocks(p, isDir))
  PROVE  AllInPlace
<1> DEFINE c      == reserve_inode
           got    == NewBlocks(p, isDir)
           parent == WithChild(p, isDir, got)
<1>1. CASE Undefined
  BY <1>1, RefuseInPlace
<1>2. CASE StopForRoom(c, child, contents, got)
  BY <1>2 DEF StopForRoom, AllInPlace
<1>3. CASE c < NumInodes /\ ~ NoRoom(p) /\ Link(p, n, c, child, contents, got)
  <2>1. c \in Inum /\ c \notin InUse
    BY <1>3, ReservedInode DEF Ind, Sane, InUse
  <2>2. inode' = [inode EXCEPT ![c] = child, ![p] = parent]
    BY <1>3 DEF Link
  <2>3. \A j \in InUse : inode'[j] = IF j = p THEN parent ELSE inode[j]
    BY <2>1, <2>2 DEF Ind, TypeOK, InUse
  <2>4. NeedsBlock(p) => got[ForChild(isDir) + 1] \in Block
    BY <1>3, NewBlocksSplit
  <2>5. InPlace(inode[p], parent)
    <3>1. Alike(IF NeedsBlock(p) THEN AddBlock(inode[p], got[ForChild(isDir) + 1]) ELSE inode[p], parent)
      BY <1>3, <2>4, ParentShape
    <3>2. CASE NeedsBlock(p)
      <4>1. inode[p] \in InodeType /\ inode[p].blocks < NumDirect
        BY <1>3, <3>2, PointersAssumption DEF Ind, TypeOK, NoRoom, InodeType, MaxFileBlocks
      <4>2. InPlace(inode[p], AddBlock(inode[p], got[ForChild(isDir) + 1]))
        BY <2>4, <3>2, <4>1, AddBlockInPlace
      <4> HIDE DEF parent
      <4> QED
        BY <3>1, <3>2, <4>2, AlikeInPlace
    <3>3. CASE ~ NeedsBlock(p)
      <4> HIDE DEF parent
      <4> QED
        BY <3>1, <3>3, SameInPlace, AlikeInPlace
    <3> QED
      BY <3>2, <3>3
  <2> HIDE DEF parent
  <2> QED
    BY <2>3, <2>5, SameInPlace DEF AllInPlace
<1> QED
  BY <1>1, <1>2, <1>3 DEF CreateIn

(* nor does removal, *)
LEMMA RemovalInPlace ==
  ASSUME Ind, Up, NEW p \in Inum, NEW c \in Inum,
         \/ inode' = WithoutLinks(p, c)
         \/ inode' = [WithoutLinks(p, c) EXCEPT ![c] = FreeInode]
  PROVE  AllInPlace
<1>1. /\ \A j \in Inum : Alike(inode[j], WithoutLinks(p, c)[j])
      /\ WithoutLinks(p, c) \in [Inum -> InodeType]
  BY RemovalKeeps
<1>2. \A j \in Inum : InPlace(inode[j], WithoutLinks(p, c)[j])
  BY <1>1, SameInPlace, AlikeInPlace
<1>3. \A j \in Inum : inode'[j] = WithoutLinks(p, c)[j] \/ inode'[j] = FreeInode
  BY <1>1
<1> QED
  BY <1>2, <1>3, FreeInodeFields DEF AllInPlace, InUse

(* nor truncation, *)
LEMMA do_truncateInPlace ==
  ASSUME Ind, Up, NEW i \in Inum, IsFile(i), NEW sz \in Nat, do_truncate(i, sz)
  PROVE  AllInPlace
<1> DEFINE old   == inode[i]
           count == BlocksFor(sz)
           fewer == Shrunk(old, count)
           got   == reserve_data_blocks(Wanted(old, count))
           more  == Grown(old, count, got)
<1>1. /\ old \in InodeType /\ HoldsDistinct(old) /\ count \in Nat
      /\ old.blocks \in Nat /\ MaxFileBlocks \in Nat
  BY BlocksForType, PointersAssumption DEF Ind, Sane, TypeOK, InodeType, MaxFileBlocks
<1>2. CASE Undefined
  BY <1>2, RefuseInPlace
<1>3. CASE inode' = [inode EXCEPT ![i].size = sz]
  <2>1. inode' = [inode EXCEPT ![i] = [old EXCEPT !.size = sz]]
    BY <1>3
  <2> HIDE DEF old
  <2>2. InPlace(old, [old EXCEPT !.size = sz])
    BY <1>1, Resized, SameInPlace, AlikeInPlace
  <2> QED
    BY <2>1, <2>2, OneChangesInPlace DEF old
<1>4. CASE count < old.blocks /\ inode' = [inode EXCEPT ![i] = [fewer EXCEPT !.size = sz]]
  <2>1. InPlace(old, fewer) /\ fewer \in InodeType
    BY <1>1, <1>4, ShrunkInPlace, ShrunkHolds
  <2> HIDE DEF fewer
  <2>2. InPlace(old, [fewer EXCEPT !.size = sz])
    BY <2>1, Resized, AlikeInPlace
  <2> QED
    BY <1>4, <2>2, OneChangesInPlace
<1>5. CASE /\ old.blocks < count /\ count <= MaxFileBlocks
           /\ inode' = [inode EXCEPT ![i] = [more EXCEPT !.size = sz]]
  <2>1. count \in old.blocks + 1 .. MaxFileBlocks
    BY <1>1, <1>5
  <2>2. got \in [1 .. Wanted(old, count) -> Block]
    BY <1>1, <2>1, TurnsAreUsedOnce, Reserved
  <2> HIDE DEF got, old, count
  <2>3. InPlace(old, more) /\ more \in InodeType
    BY <1>1, <2>1, <2>2, GrownInPlace, GrownShape
  <2> HIDE DEF more
  <2>4. InPlace(old, [more EXCEPT !.size = sz])
    BY <2>3, Resized, AlikeInPlace
  <2> QED
    BY <1>5, <2>4, OneChangesInPlace DEF old
<1> QED
  BY <1>2, <1>3, <1>4, <1>5 DEF do_truncate, Wanted

(* nor any step. *)
LEMMA NextInPlace ==
  ASSUME Ind, Next
  PROVE  AllInPlace
<1>1. ASSUME NEW p \in Inum, NEW n \in Names, mkdir(p, n)
      PROVE  AllInPlace
  <2>1. CASE Refuse("EEXIST")
    BY <2>1, RefuseInPlace
  <2>2. CASE ~ Refuse("EEXIST")
    <3> DEFINE got      == NewBlocks(p, TRUE)
               contents == [data EXCEPT ![got[1]] = DirBlock(reserve_inode, p)]
               child    == NewDirInode(got[1])
    <3>1. Up /\ IsDir(p) /\ CreateIn(p, n, child, contents, got)
      BY <1>1, <2>2 DEF mkdir
    <3>2. child.isDir = TRUE
      BY DEF NewDirInode
    <3> HIDE DEF child, contents
    <3> QED
      BY <1>1, <3>1, <3>2, CreateInInPlace
  <2> QED
    BY <2>1, <2>2
<1>2. ASSUME NEW p \in Inum, NEW n \in Names, NEW w \in Perms, mknod(p, n, w)
      PROVE  AllInPlace
  <2>1. CASE Refuse("EEXIST")
    BY <2>1, RefuseInPlace
  <2>2. CASE ~ Refuse("EEXIST")
    <3>1. Up /\ IsDir(p) /\ CreateIn(p, n, NewRegInode(w), data, NewBlocks(p, FALSE))
      BY <1>2, <2>2 DEF mknod
    <3>2. NewRegInode(w).isDir = FALSE
      BY DEF NewRegInode
    <3> QED
      BY <1>2, <3>1, <3>2, CreateInInPlace
  <2> QED
    BY <2>1, <2>2
<1>3. ASSUME NEW p \in Inum, NEW n \in Names, rmdir(p, n) \/ unlink(p, n)
      PROVE  AllInPlace
  <2> DEFINE c == inum_from_path(p, n)
  <2>1. Up /\ c \in Inum \cup {NoInum}
    BY <1>3, LookupType DEF rmdir, RemoveDir, unlink, RemoveFile
  <2>2. CASE \E r \in Replies : Refuse(r)
    BY <2>2, RefuseInPlace
  <2>3. CASE ~ \E r \in Replies : Refuse(r)
    <3>1. /\ c # NoInum
          /\ \/ inode' = WithoutLinks(p, c)
             \/ inode' = [WithoutLinks(p, c) EXCEPT ![c] = FreeInode]
      BY <1>3, <2>3 DEF rmdir, RemoveDir, unlink, RemoveFile, Replies
    <3> HIDE DEF c
    <3> QED
      BY <1>3, <2>1, <3>1, RemovalInPlace
  <2> QED
    BY <2>2, <2>3
<1>4. ASSUME NEW i \in Inum, NEW w \in Perms, chmod(i, w)
      PROVE  AllInPlace
  <2>1. inode' = [inode EXCEPT ![i] = [inode[i] EXCEPT !.writable = w]]
    BY <1>4 DEF chmod
  <2>2. inode[i] \in InodeType
    BY DEF Ind, TypeOK
  <2>3. Alike(inode[i], [inode[i] EXCEPT !.writable = w])
    BY <2>2 DEF InodeType, Alike
  <2>4. InPlace(inode[i], [inode[i] EXCEPT !.writable = w])
    BY <2>3, SameInPlace, AlikeInPlace
  <2> QED
    BY <2>1, <2>4, OneChangesInPlace
<1>5. ASSUME NEW i \in Inum, NEW sz \in Sizes, truncate(i, sz) \/ write(i, sz)
      PROVE  AllInPlace
  <2>1. Up /\ IsFile(i) /\ sz \in Nat
    BY <1>5, SizesAssumption DEF truncate, write
  <2>2. do_truncate(i, sz) \/ Refuse("EACCES") \/ Refuse("OK")
    BY <1>5 DEF truncate, write
  <2> QED
    BY <2>1, <2>2, do_truncateInPlace, RefuseInPlace
<1> QED
  BY <1>1, <1>2, <1>3, <1>4, <1>5 DEF Next

(* No request moves a block of an inode that stays in use: growing and     *)
(* shrinking only touch the end, and a directory given one more block      *)
(* keeps its others.                                                       *)
THEOREM BlocksStayInPlace == Spec => BlocksStay
<1>1. Ind /\ [Next]_vars =>
        [\A i \in InUse :
           status' = "up" /\ inode'[i].inUse => InPlace(inode[i], inode'[i])]_vars
  BY NextInPlace DEF AllInPlace
<1> QED
  BY <1>1, InvariantHolds, PTL DEF Spec, BlocksStay

=============================================================================

----------------------------- MODULE DiskProofs -----------------------------
(***************************************************************************)
(* The disk image of RefsCrash: where its blocks are, what a mount reads   *)
(* from it, what a sequence of writes makes of it on the way, and what the *)
(* start and the end of the process do to it, for every size of the file   *)
(* system.  CrashInd is the inductive invariant that RefsCrashProofs shows *)
(* of every reachable state: the memory is a sound name space, and so is   *)
(* the disk, after every prefix of the writes that are still to be done.   *)
(***************************************************************************)
EXTENDS RefsCrash, RefsFSProofs

(* A quotient rounds down. *)
LEMMA Quotient ==
  ASSUME NEW a \in Nat, NEW d \in Nat \ {0}
  PROVE  /\ a \div d \in Nat
         /\ a % d \in 0 .. d - 1
         /\ a = d * (a \div d) + (a % d)
  OBVIOUS

(* Quotients are in the order of the numbers. *)
LEMMA QuotientsInOrder ==
  ASSUME NEW a \in Nat, NEW b \in Nat, NEW d \in Nat \ {0}, a <= b
  PROVE  a \div d <= b \div d
<1> DEFINE q == a \div d
           r == b \div d
<1>1. /\ q \in Nat /\ a % d \in 0 .. d - 1 /\ a = d * q + (a % d)
      /\ r \in Nat /\ b % d \in 0 .. d - 1 /\ b = d * r + (b % d)
  BY Quotient
<1> HIDE DEF q, r
<1>2. ASSUME r < q PROVE FALSE
  <2>1. r + 1 <= q
    BY <1>1, <1>2
  <2>2. d * (r + 1) <= d * q
    BY <1>1, <2>1
  <2>3. d * (r + 1) = d * r + d
    BY <1>1
  <2> QED
    BY <1>1, <2>2, <2>3
<1>3. q <= r
  BY <1>1, <1>2
<1> QED
  BY <1>3 DEF q, r

(* A multiple of d, and what is below it. *)
LEMMA QuotientBelow ==
  ASSUME NEW a \in Nat, NEW b \in Nat, NEW d \in Nat \ {0}, b % d = 0, a < b
  PROVE  a \div d < b \div d
<1> DEFINE q == a \div d
           r == b \div d
<1>1. /\ q \in Nat /\ a % d \in 0 .. d - 1 /\ a = d * q + (a % d)
      /\ r \in Nat /\ b % d \in 0 .. d - 1 /\ b = d * r + (b % d)
  BY Quotient
<1>2. d * q < d * r
  BY <1>1
<1> HIDE DEF q, r
<1>3. ASSUME r <= q PROVE FALSE
  <2>1. d * r <= d * q
    BY <1>1, <1>3
  <2> QED
    BY <1>1, <1>2, <2>1
<1>4. q < r
  BY <1>1, <1>3
<1> QED
  BY <1>4 DEF q, r

(* The bytes of a bitmap are at most its bits. *)
LEMMA BitmapFitsRoom ==
  ASSUME NEW n \in Nat, BlockSize \in Nat \ {0}
  PROVE  /\ Layout!BitmapBlocks(n) \in Nat
         /\ Layout!BitmapRoom(n) \in Nat
         /\ Layout!BitmapBlocks(n) <= Layout!BitmapRoom(n)
<1> DEFINE bytes == (n + BitsPerByte - 1) \div BitsPerByte
<1>1. BitsPerByte \in Nat \ {0}
  BY BitsPerByteAssumption
<1>2. n + BitsPerByte - 1 \in Nat
  BY <1>1
<1>3. bytes \in Nat
  BY <1>1, <1>2, Quotient
<1>4. bytes <= n
  <2>1. CASE n = 0
    <3>1. n + BitsPerByte - 1 < BitsPerByte
      BY <1>1, <2>1
    <3>2. BitsPerByte % BitsPerByte = 0 /\ BitsPerByte \div BitsPerByte = 1
      BY <1>1
    <3>3. bytes < 1
      BY <1>1, <1>2, <3>1, <3>2, QuotientBelow
    <3> QED
      BY <1>3, <2>1, <3>3
  <2>2. CASE n > 0
    <3>1. /\ (n + BitsPerByte - 1) % BitsPerByte \in 0 .. BitsPerByte - 1
          /\ n + BitsPerByte - 1 = BitsPerByte * bytes + ((n + BitsPerByte - 1) % BitsPerByte)
      BY <1>1, <1>2, Quotient
    <3> HIDE DEF bytes
    <3>2. ASSUME bytes > n PROVE FALSE
      <4>1. BitsPerByte * bytes >= BitsPerByte * (n + 1)
        BY <1>1, <1>3, <3>2
      <4>2. BitsPerByte * (n + 1) = BitsPerByte * n + BitsPerByte
        BY <1>1
      <4>3. BitsPerByte * n >= n
        BY <1>1
      <4> QED
        BY <1>1, <1>3, <3>1, <4>1, <4>2, <4>3
    <3> QED
      BY <1>3, <3>2
  <2> QED
    BY <2>1, <2>2
<1> HIDE DEF bytes
<1>5. n + BlockSize - 1 \in Nat /\ bytes + BlockSize - 1 \in Nat
  BY <1>3
<1>6. bytes + BlockSize - 1 <= n + BlockSize - 1
  BY <1>3, <1>4
<1>7. Layout!BlocksOf(bytes) <= Layout!BlocksOf(n) /\ Layout!BlocksOf(bytes) \in Nat /\ Layout!BlocksOf(n) \in Nat
  BY <1>5, <1>6, Quotient, QuotientsInOrder DEF Layout!BlocksOf
<1> QED
  BY <1>7 DEF Layout!BitmapBlocks, Layout!BitmapRoom, bytes

(* What init_super computes: superblock, inode bitmap, inode table, data   *)
(* bitmap and data blocks follow each other without overlap, so no write   *)
(* of write_inode, of sync_inode_bitmap, of sync_data_bitmap or of a data  *)
(* block lands in another region, whatever the number of inodes, as long   *)
(* as they fill whole blocks, and of data blocks.                          *)
THEOREM RegionsApart ==
  ASSUME BlockSize \in Nat \ {0}, NumInodes \in Nat, NumDataBlocks \in Nat,
         InodesPerBlock \in Nat \ {0}, NumInodes % InodesPerBlock = 0
  PROVE  /\ \A x \in Layout!InodeBitmapRegion : Layout!SUPER_LBA < x /\ x < Layout!i_table_start
         /\ \A i \in 0 .. NumInodes - 1 : Layout!InodeLba(i) \in Layout!i_table_start .. Layout!d_bitmap_start - 1
         /\ \A x \in Layout!DataBitmapRegion : Layout!d_bitmap_start <= x /\ x < Layout!d_region_start
         /\ \A b \in Nat : Layout!d_region_start <= Layout!DataLba(b)
<1>1. /\ Layout!BitmapBlocks(NumInodes) \in Nat /\ Layout!BitmapRoom(NumInodes) \in Nat
      /\ Layout!BitmapBlocks(NumInodes) <= Layout!BitmapRoom(NumInodes)
      /\ Layout!BitmapBlocks(NumDataBlocks) \in Nat /\ Layout!BitmapRoom(NumDataBlocks) \in Nat
      /\ Layout!BitmapBlocks(NumDataBlocks) <= Layout!BitmapRoom(NumDataBlocks)
  BY BitmapFitsRoom
<1>2. Layout!TableBlocks \in Nat
  BY Quotient DEF Layout!TableBlocks
<1>3. ASSUME NEW i \in 0 .. NumInodes - 1
      PROVE  i \div InodesPerBlock \in 0 .. Layout!TableBlocks - 1
  <2>1. i \div InodesPerBlock \in Nat
    BY Quotient
  <2>2. i \div InodesPerBlock < NumInodes \div InodesPerBlock
    BY QuotientBelow
  <2> QED
    BY <1>2, <2>1, <2>2 DEF Layout!TableBlocks
<1> HIDE DEF Layout!TableBlocks
<1>4. /\ Layout!i_bitmap_start \in Nat /\ Layout!i_table_start \in Nat
      /\ Layout!d_bitmap_start \in Nat /\ Layout!d_region_start \in Nat
      /\ Layout!i_bitmap_start = 1
      /\ Layout!i_table_start = Layout!i_bitmap_start + Layout!BitmapRoom(NumInodes)
      /\ Layout!d_bitmap_start = Layout!i_table_start + Layout!TableBlocks
      /\ Layout!d_region_start = Layout!d_bitmap_start + Layout!BitmapRoom(NumDataBlocks)
  BY <1>1, <1>2 DEF Layout!i_bitmap_start, Layout!i_table_start, Layout!d_bitmap_start, Layout!d_region_start
<1>5. \A x \in Layout!InodeBitmapRegion : Layout!SUPER_LBA < x /\ x < Layout!i_table_start
  BY <1>1, <1>4 DEF Layout!InodeBitmapRegion, Layout!SUPER_LBA
<1>6. ASSUME NEW i \in 0 .. NumInodes - 1
      PROVE  Layout!InodeLba(i) \in Layout!i_table_start .. Layout!d_bitmap_start - 1
  <2>1. PICK k \in 0 .. Layout!TableBlocks - 1 : k = i \div InodesPerBlock
    BY <1>3
  <2>2. Layout!InodeLba(i) = Layout!i_table_start + k
    BY <2>1 DEF Layout!InodeLba
  <2> QED
    BY <1>2, <1>4, <2>1, <2>2
<1>7. \A x \in Layout!DataBitmapRegion : Layout!d_bitmap_start <= x /\ x < Layout!d_region_start
  BY <1>1, <1>4 DEF Layout!DataBitmapRegion
<1>8. \A b \in Nat : Layout!d_region_start <= Layout!DataLba(b)
  BY <1>4 DEF Layout!DataLba
<1> QED
  BY <1>5, <1>6, <1>7, <1>8

(* With the defaults of refs.h the data blocks begin at block 67 and the   *)
(* last one is inside the 10 MiB that ftruncate makes: 2560 blocks, of     *)
(* which one is left over.                                                 *)
THEOREM DefaultsFitTheDisk ==
  ASSUME BlockSize = 4096, NumInodes = 1024, NumDataBlocks = 2492, InodesPerBlock = 16
  PROVE  /\ Layout!d_region_start = 67
         /\ \A b \in 0 .. NumDataBlocks - 1 : Layout!DataLba(b) < (10 * 1024 * 1024) \div BlockSize
<1>1. Layout!BitmapRoom(NumInodes) = 1 /\ Layout!BitmapRoom(NumDataBlocks) = 1 /\ Layout!TableBlocks = 64
  BY DEF Layout!BitmapRoom, Layout!BlocksOf, Layout!TableBlocks
<1>2. Layout!d_region_start = 67
  BY <1>1 DEF Layout!d_region_start, Layout!d_bitmap_start, Layout!i_table_start, Layout!i_bitmap_start
<1>3. (10 * 1024 * 1024) \div BlockSize = 2560
  OBVIOUS
<1> QED
  BY <1>2, <1>3 DEF Layout!DataLba

-----------------------------------------------------------------------------
(* What ReachedBy computes: the smallest set with the root that no edge    *)
(* leaves.                                                                 *)

Ahead(S, edges) == S \cup {e.node : e \in {f \in edges : f.parent \in S}}

Rounds(g, n, edges) ==
  /\ g = [k \in 0 .. n |-> g[k]]
  /\ g[0] = {ROOT_INUM}
  /\ \A k \in 1 .. n : g[k] = Ahead(g[k - 1], edges)

(* A step along the edges keeps what was already reached. *)
LEMMA AheadType ==
  ASSUME NEW edges, NEW S
  PROVE  S \subseteq Ahead(S, edges)
BY DEF Ahead

(* The root's number is one of the inode numbers (src/refs.h:39). *)
LEMMA RootIsInum == ROOT_INUM \in Inum
BY InodesAssumption DEF ROOT_INUM, Inum

(* There are as many rounds as one likes. *)
LEMMA RoundsExist ==
  ASSUME NEW edges
  PROVE  \A n \in Nat : \E g : Rounds(g, n, edges)
<1> DEFINE S == {n \in Nat : ~ \E g : Rounds(g, n, edges)}
<1>1. SUFFICES ASSUME S # {} PROVE FALSE
  OBVIOUS
<1>2. PICK m \in S : \A x \in S : m <= x
  BY <1>1, LeastExists
<1>3. CASE m = 0
  <2> DEFINE g == [k \in 0 .. 0 |-> {ROOT_INUM}]
  <2>1. g = [k \in 0 .. 0 |-> g[k]] /\ g[0] = {ROOT_INUM}
    OBVIOUS
  <2>2. Rounds(g, 0, edges)
    BY <2>1 DEF Rounds
  <2> QED
    BY <1>2, <1>3, <2>2
<1>4. CASE m # 0
  <2> DEFINE l == m - 1
  <2>1. l \in Nat /\ l \notin S /\ m = l + 1
    BY <1>2, <1>4
  <2> HIDE DEF l
  <2>2. PICK f : Rounds(f, l, edges)
    BY <2>1
  <2>3. f[0] = {ROOT_INUM} /\ \A k \in 1 .. l : f[k] = Ahead(f[k - 1], edges)
    BY <2>2 DEF Rounds
  <2> DEFINE g == [k \in 0 .. l + 1 |-> IF k = l + 1 THEN Ahead(f[l], edges) ELSE f[k]]
  <2>5. /\ \A k \in 0 .. l : k \in 0 .. l + 1 /\ k # l + 1
        /\ \A k \in 0 .. l + 1 : k \in 0 .. l \/ k = l + 1
        /\ \A k \in 1 .. l + 1 : k - 1 \in 0 .. l /\ k \in 0 .. l + 1 /\ (k = l + 1 => k - 1 = l)
                                 /\ (k # l + 1 => k \in 1 .. l)
        /\ l + 1 \in 0 .. l + 1 /\ 0 \in 0 .. l
    BY <2>1
  <2>6. g[l + 1] = Ahead(f[l], edges) /\ \A k \in 0 .. l : g[k] = f[k]
    BY <2>5
  <2>7. g = [k \in 0 .. l + 1 |-> g[k]]
    OBVIOUS
  <2> HIDE DEF g
  <2>8. \A k \in 1 .. l + 1 : g[k] = Ahead(g[k - 1], edges)
    BY <2>3, <2>5, <2>6
  <2>9. Rounds(g, l + 1, edges)
    BY <2>3, <2>5, <2>6, <2>7, <2>8 DEF Rounds
  <2> QED
    BY <1>2, <2>1, <2>9
<1> QED
  BY <1>3, <1>4

(* ReachedBy is the last of NumInodes rounds. *)
LEMMA ReachedIsRounds ==
  ASSUME NEW edges
  PROVE  \E g : Rounds(g, NumInodes, edges) /\ ReachedBy(edges) = g[NumInodes]
<1> DEFINE Step(f) == [k \in 0 .. NumInodes |->
              IF k = 0 THEN {ROOT_INUM}
              ELSE LET near == f[k - 1]
                   IN  near \cup {e.node : e \in {e \in edges : e.parent \in near}}]
<1>0. NumInodes \in Nat /\ NumInodes \in 0 .. NumInodes
  BY InodesAssumption
<1>1. PICK g : Rounds(g, NumInodes, edges)
  BY <1>0, RoundsExist
<1>2. /\ g = [k \in 0 .. NumInodes |-> g[k]] /\ g[0] = {ROOT_INUM}
      /\ \A k \in 1 .. NumInodes : g[k] = Ahead(g[k - 1], edges)
  BY <1>1 DEF Rounds
<1>3. ASSUME NEW f
      PROVE  /\ Step(f)[0] = {ROOT_INUM}
             /\ \A k \in 1 .. NumInodes : Step(f)[k] = Ahead(f[k - 1], edges)
  <2>1. 0 \in 0 .. NumInodes /\ \A k \in 1 .. NumInodes : k \in 0 .. NumInodes /\ k # 0
    BY <1>0
  <2> QED
    BY <2>1 DEF Ahead
<1>4. g = Step(g)
  <2>1. ASSUME NEW k \in 0 .. NumInodes PROVE g[k] = Step(g)[k]
    <3>1. k = 0 \/ k \in 1 .. NumInodes
      BY <1>0
    <3> HIDE DEF Step
    <3> QED
      BY <1>2, <1>3, <3>1
  <2>2. g = [k \in 0 .. NumInodes |-> g[k]]
    BY <1>2
  <2>3. Step(g) = [k \in 0 .. NumInodes |-> Step(g)[k]]
    OBVIOUS
  <2> HIDE DEF Step
  <2> QED
    BY <2>1, <2>2, <2>3
<1> DEFINE h == CHOOSE f : f = Step(f)
<1>5. h = Step(h)
  <2> HIDE DEF Step
  <2> QED
    BY <1>4
<1>6. ReachedBy(edges) = h[NumInodes]
  BY DEF ReachedBy
<1> HIDE DEF h
<1>7. h = [k \in 0 .. NumInodes |-> h[k]]
  BY <1>5
<1>8. h[0] = {ROOT_INUM} /\ \A k \in 1 .. NumInodes : h[k] = Ahead(h[k - 1], edges)
  <2> HIDE DEF Step
  <2> QED
    BY <1>3, <1>5
<1> HIDE DEF Step
<1> DEFINE S == {k \in 0 .. NumInodes : h[k] # g[k]}
<1>9. ASSUME S # {} PROVE FALSE
  <2>1. S \in SUBSET Nat
    BY <1>0
  <2> HIDE DEF S
  <2>2. PICK m \in S : \A x \in S : m <= x
    BY <1>9, <2>1, LeastExists
  <2>3. m \in 0 .. NumInodes /\ h[m] # g[m] /\ \A k \in 0 .. NumInodes : k < m => h[k] = g[k]
    BY <2>2, <1>0 DEF S
  <2>4. m # 0
    BY <1>2, <1>8, <2>3
  <2>5. m \in 1 .. NumInodes /\ m - 1 \in 0 .. NumInodes /\ m - 1 < m
    BY <2>3, <2>4, <1>0
  <2> QED
    BY <1>2, <1>8, <2>3, <2>5
<1> QED
  BY <1>0, <1>1, <1>6, <1>9

(* What was reached stays reached. *)
LEMMA RoundsWithin ==
  ASSUME NEW edges, NEW n \in Nat, NEW g, Rounds(g, n, edges)
  PROVE  \A k \in 0 .. n : g[k] \subseteq g[n]
<1> DEFINE S == {j \in 0 .. n : ~ (g[n - j] \subseteq g[n])}
<1>1. S \in SUBSET Nat
  OBVIOUS
<1>2. ASSUME S # {} PROVE FALSE
  <2>1. PICK m \in S : \A x \in S : m <= x
    BY <1>1, <1>2, LeastExists
  <2>2. m \in 0 .. n /\ ~ (g[n - m] \subseteq g[n]) /\ m # 0
    BY <2>1
  <2>3. m - 1 \in 0 .. n /\ m - 1 < m /\ n - (m - 1) \in 1 .. n /\ (n - (m - 1)) - 1 = n - m
    BY <2>2
  <2>4. g[n - (m - 1)] \subseteq g[n]
    BY <2>1, <2>3
  <2>5. g[n - (m - 1)] = Ahead(g[n - m], edges)
    BY <2>3 DEF Rounds
  <2>6. g[n - m] \subseteq g[n - (m - 1)]
    BY <2>5, AheadType
  <2> QED
    BY <2>2, <2>4, <2>6
<1>3. ASSUME NEW k \in 0 .. n PROVE g[k] \subseteq g[n]
  <2>1. n - k \in 0 .. n /\ n - (n - k) = k
    OBVIOUS
  <2> QED
    BY <1>2, <2>1
<1> QED
  BY <1>3

(* A round that brings nothing new is the last that does. *)
LEMMA RoundsGrow ==
  ASSUME NEW edges, NEW n \in Nat, NEW g, Rounds(g, n, edges), g[n] \subseteq Inum
  PROVE  \A k \in 0 .. n : Ahead(g[k], edges) = g[k] \/ Cardinality(g[k]) >= k + 1
<1> DEFINE Fact(k) == Ahead(g[k], edges) = g[k] \/ Cardinality(g[k]) >= k + 1
           S == {k \in 0 .. n : ~ Fact(k)}
<1>1. SUFFICES ASSUME S # {} PROVE FALSE
  OBVIOUS
<1>2. S \in SUBSET Nat
  OBVIOUS
<1> HIDE DEF S, Fact
<1>a. PICK m \in S : \A x \in S : m <= x
  BY <1>1, <1>2, LeastExists
<1>3. m \in 0 .. n /\ ~ Fact(m) /\ \A k \in 0 .. n : k < m => Fact(k)
  BY <1>a DEF S
<1> USE DEF Fact
<1>4. /\ g[0] = {ROOT_INUM}
      /\ \A k \in 1 .. n : g[k] = Ahead(g[k - 1], edges)
  BY DEF Rounds
<1>5. m # 0
  <2>1. Cardinality({ROOT_INUM}) = 1
    BY FS_Singleton
  <2>2. ASSUME m = 0 PROVE FALSE
    <3>1. g[m] = {ROOT_INUM}
      BY <1>4, <2>2
    <3>2. Cardinality(g[m]) = 1
      BY <2>1, <3>1
    <3>3. ~ (Cardinality(g[m]) >= m + 1)
      BY <1>3
    <3> QED
      BY <2>2, <3>2, <3>3
  <2> QED
    BY <2>2
<1> DEFINE l == m - 1
<1>6. l \in 0 .. n /\ m \in 1 .. n /\ l < m /\ m = l + 1
  BY <1>3, <1>5
<1> HIDE DEF l
<1>7. g[m] = Ahead(g[l], edges) /\ g[l] \in SUBSET Inum /\ g[m] \in SUBSET Inum
  <2>1. l = m - 1
    BY <1>6
  <2>2. g[m] = Ahead(g[l], edges)
    BY <1>4, <1>6, <2>1
  <2>3. g[l] \subseteq g[n] /\ g[m] \subseteq g[n]
    <3>1. \A k \in 0 .. n : g[k] \subseteq g[n]
      BY RoundsWithin
    <3> QED
      BY <1>3, <1>6, <3>1
  <2> QED
    BY <2>2, <2>3
<1>8. Ahead(g[l], edges) # g[l]
  BY <1>3, <1>7
<1>9. Cardinality(g[l]) >= l + 1
  BY <1>3, <1>6, <1>8
<1>10. IsFiniteSet(Inum)
  BY InodesAssumption, FS_Interval DEF Inum
<1>11. IsFiniteSet(g[l]) /\ IsFiniteSet(g[m])
  BY <1>7, <1>10, FS_Subset
<1>12. g[l] \subseteq g[m] /\ g[l] # g[m]
  BY <1>7, <1>8, AheadType
<1>13. Cardinality(g[l]) <= Cardinality(g[m]) /\ Cardinality(g[l]) # Cardinality(g[m])
  BY <1>11, <1>12, FS_Subset
<1>14. Cardinality(g[l]) \in Nat /\ Cardinality(g[m]) \in Nat
  BY <1>11, FS_CardinalityType
<1> QED
  BY <1>3, <1>6, <1>9, <1>13, <1>14

(* What the edges reach from the root: the root, closed under the edges,   *)
(* and least among such sets.                                              *)
LEMMA ReachedByIs ==
  ASSUME NEW edges
  PROVE  /\ ROOT_INUM \in ReachedBy(edges)
         /\ ReachedBy(edges) \subseteq Inum =>
              \A e \in edges : e.parent \in ReachedBy(edges) => e.node \in ReachedBy(edges)
         /\ \A S : /\ ROOT_INUM \in S
                   /\ \A e \in edges : e.parent \in S => e.node \in S
                   => ReachedBy(edges) \subseteq S
<1>0. NumInodes \in Nat
  BY InodesAssumption
<1>1. PICK g : Rounds(g, NumInodes, edges) /\ ReachedBy(edges) = g[NumInodes]
  BY ReachedIsRounds
<1>2. /\ g = [k \in 0 .. NumInodes |-> g[k]] /\ g[0] = {ROOT_INUM}
      /\ \A k \in 1 .. NumInodes : g[k] = Ahead(g[k - 1], edges)
  BY <1>1 DEF Rounds
<1> DEFINE R == g[NumInodes]
<1>3. NumInodes \in 0 .. NumInodes
  BY <1>0
<1>4. ROOT_INUM \in R
  <2> DEFINE S == {k \in 0 .. NumInodes : ROOT_INUM \notin g[k]}
  <2>1. S = {} => ROOT_INUM \in R
    BY <1>3
  <2>2. S \in SUBSET Nat
    BY <1>0
  <2> HIDE DEF S
  <2>3. ASSUME S # {} PROVE FALSE
    <3>1. PICK m \in S : \A x \in S : m <= x
      BY <2>2, <2>3, LeastExists
    <3>2. m \in 0 .. NumInodes /\ ROOT_INUM \notin g[m] /\ m # 0
      BY <1>2, <3>1 DEF S
    <3>3. m \in 1 .. NumInodes /\ m - 1 \in 0 .. NumInodes /\ m - 1 < m
      BY <1>0, <3>2
    <3>4. ROOT_INUM \in g[m - 1]
      BY <3>1, <3>3 DEF S
    <3> QED
      BY <1>2, <3>2, <3>3, <3>4 DEF Ahead
  <2> QED
    BY <2>1, <2>3
<1>5. ASSUME NEW T, ROOT_INUM \in T, \A e \in edges : e.parent \in T => e.node \in T
      PROVE  R \subseteq T
  <2> DEFINE S == {k \in 0 .. NumInodes : ~ (g[k] \subseteq T)}
  <2>1. S = {} => R \subseteq T
    BY <1>3
  <2>2. S \in SUBSET Nat
    BY <1>0
  <2> HIDE DEF S
  <2>3. ASSUME S # {} PROVE FALSE
    <3>1. PICK m \in S : \A x \in S : m <= x
      BY <2>2, <2>3, LeastExists
    <3>2. m \in 0 .. NumInodes /\ ~ (g[m] \subseteq T) /\ m # 0
      BY <1>2, <1>5, <3>1 DEF S
    <3>3. m \in 1 .. NumInodes /\ m - 1 \in 0 .. NumInodes /\ m - 1 < m
      BY <1>0, <3>2
    <3>4. g[m - 1] \subseteq T
      BY <3>1, <3>3 DEF S
    <3>5. g[m] = Ahead(g[m - 1], edges)
      BY <1>2, <3>3
    <3>6. g[m] \subseteq T
      BY <1>5, <3>4, <3>5 DEF Ahead
    <3> QED
      BY <3>2, <3>6
  <2> QED
    BY <2>1, <2>3
<1>6. ASSUME R \in SUBSET Inum PROVE Ahead(R, edges) = R
  <2> HIDE DEF R
  <2>1. ~ (Cardinality(R) >= NumInodes + 1)
    <3>1. IsFiniteSet(Inum) /\ Cardinality(Inum) = NumInodes
      BY <1>0, FS_Interval DEF Inum
    <3>2. IsFiniteSet(R) /\ Cardinality(R) <= Cardinality(Inum)
      BY <1>6, <3>1, FS_Subset
    <3>3. Cardinality(R) \in Nat
      BY <3>2, FS_CardinalityType
    <3> QED
      BY <1>0, <3>1, <3>2, <3>3
  <2> QED
    <3>1. Ahead(g[NumInodes], edges) = g[NumInodes] \/ Cardinality(g[NumInodes]) >= NumInodes + 1
      BY <1>0, <1>1, <1>3, <1>6, RoundsGrow DEF R
    <3> QED
      BY <2>1, <3>1 DEF R
<1>7. ASSUME R \in SUBSET Inum, NEW e \in edges, e.parent \in R PROVE e.node \in R
  BY <1>6, <1>7 DEF Ahead
<1> QED
  BY <1>1, <1>3, <1>4, <1>5, <1>7

(* The same edges lead to the same nodes, *)
LEMMA ReachedSame ==
  ASSUME NEW E, NEW F, ReachedBy(E) \subseteq Inum,
         \A e \in E : e.parent \in ReachedBy(E) => e \in F,
         \A e \in F : e.parent \in ReachedBy(E) => e \in E
  PROVE  ReachedBy(F) = ReachedBy(E)
<1> DEFINE R == ReachedBy(E)
           Q == ReachedBy(F)
<1>1. ROOT_INUM \in R /\ ROOT_INUM \in Q
  BY ReachedByIs
<1>2. \A e \in E : e.parent \in R => e.node \in R
  BY ReachedByIs
<1> HIDE DEF R, Q
<1>3. \A e \in F : e.parent \in R => e.node \in R
  BY <1>2 DEF R
<1>4. Q \subseteq R
  BY <1>1, <1>3, ReachedByIs DEF Q
<1>5. \A e \in F : e.parent \in Q => e.node \in Q
  BY <1>4, ReachedByIs DEF Q, R
<1>6. \A e \in E : e.parent \in Q => e.node \in Q
  BY <1>4, <1>5 DEF R
<1>7. R \subseteq Q
  BY <1>1, <1>6, ReachedByIs DEF R
<1> QED
  BY <1>4, <1>7 DEF R, Q

(* one more edge to a node without edges leads to one node more, *)
LEMMA ReachedMore ==
  ASSUME NEW E, NEW F, ReachedBy(E) \subseteq Inum,
         NEW c \in Inum, NEW a \in F, a.parent \in ReachedBy(E), a.node = c,
         \A e \in E : e.parent \in ReachedBy(E) => e \in F,
         \A e \in F : e.parent \in ReachedBy(E) \cup {c} =>
                        e = a \/ (e \in E /\ e.parent \in ReachedBy(E))
  PROVE  ReachedBy(F) = ReachedBy(E) \cup {c}
<1> DEFINE R == ReachedBy(E)
           Q == ReachedBy(F)
<1>1. ROOT_INUM \in R /\ ROOT_INUM \in Q
  BY ReachedByIs
<1>2. \A e \in E : e.parent \in R => e.node \in R
  BY ReachedByIs
<1> HIDE DEF R, Q
<1>3. ASSUME NEW e \in F, e.parent \in R \cup {c}
      PROVE  e.node \in R \cup {c}
  <2>1. e = a \/ (e \in E /\ e.parent \in R)
    BY <1>3 DEF R
  <2> QED
    BY <1>2, <2>1
<1>4. Q \subseteq R \cup {c}
  <2> DEFINE T == R \cup {c}
  <2>1. ROOT_INUM \in T
    BY <1>1
  <2>2. \A e \in F : e.parent \in T => e.node \in T
    BY <1>3
  <2> HIDE DEF T
  <2>3. Q \subseteq T
    BY <2>1, <2>2, ReachedByIs DEF Q
  <2> QED
    BY <2>3 DEF T
<1>5. \A e \in F : e.parent \in Q => e.node \in Q
  BY <1>4, ReachedByIs DEF Q, R
<1>6. \A e \in E : e.parent \in R \cap Q => e.node \in R \cap Q
  BY <1>2, <1>5 DEF R
<1>7. R \subseteq R \cap Q
  BY <1>1, <1>6, ReachedByIs DEF R
<1>8. c \in Q
  BY <1>5, <1>7 DEF R
<1> QED
  BY <1>4, <1>7, <1>8 DEF R, Q

(* and without the one edge to a node without edges it is not reached. *)
LEMMA ReachedLess ==
  ASSUME NEW E, NEW F, ReachedBy(E) \subseteq Inum,
         NEW a \in E, a.node # ROOT_INUM,
         \A e \in E : e.parent \in ReachedBy(E) /\ e.node = a.node => e = a,
         \A e \in E : e.parent # a.node,
         \A e \in E : e.parent \in ReachedBy(E) /\ e # a => e \in F,
         \A e \in F : e.parent \in ReachedBy(E) \ {a.node} => e \in E /\ e # a
  PROVE  ReachedBy(F) = ReachedBy(E) \ {a.node}
<1> DEFINE R == ReachedBy(E)
           Q == ReachedBy(F)
           c == a.node
<1>1. ROOT_INUM \in R /\ ROOT_INUM \in Q
  BY ReachedByIs
<1>2. \A e \in E : e.parent \in R => e.node \in R
  BY ReachedByIs
<1> HIDE DEF R, Q
<1>3. ASSUME NEW e \in F, e.parent \in R \ {c}
      PROVE  e.node \in R \ {c}
  <2>1. e \in E /\ e # a
    BY <1>3 DEF R
  <2>2. e.node # c
    BY <1>3, <2>1 DEF R
  <2> QED
    BY <1>2, <1>3, <2>1, <2>2
<1>4. Q \subseteq R \ {c}
  <2> DEFINE T == R \ {c}
  <2>1. ROOT_INUM \in T
    BY <1>1
  <2>2. \A e \in F : e.parent \in T => e.node \in T
    BY <1>3
  <2> HIDE DEF T
  <2>3. Q \subseteq T
    BY <2>1, <2>2, ReachedByIs DEF Q
  <2> QED
    BY <2>3 DEF T
<1>5. \A e \in F : e.parent \in Q => e.node \in Q
  BY <1>4, ReachedByIs DEF Q, R
<1>6. \A e \in E : e.parent \in Q \cup {c} => e.node \in Q \cup {c}
  BY <1>4, <1>5 DEF R
<1>7. R \subseteq Q \cup {c}
  <2> DEFINE T == Q \cup {c}
  <2>1. ROOT_INUM \in T
    BY <1>1
  <2>2. \A e \in E : e.parent \in T => e.node \in T
    BY <1>6
  <2> HIDE DEF T
  <2>3. R \subseteq T
    BY ONLY <2>1, <2>2, ReachedByIs DEF R
  <2> QED
    BY <2>3 DEF T
<1> QED
  BY <1>4, <1>7 DEF R, Q

-----------------------------------------------------------------------------
(* A name space made of an inode table and directory blocks: those in      *)
(* memory, those on the disk, and those in between that a handler passes   *)
(* through.                                                                *)

Dirs(tab)  == {i \in Inum : tab[i].inUse /\ tab[i].isDir}
Spots(r)   == (0 .. r.blocks - 1) \X Slot
IsNamed(e) == e # NoEntry /\ e.name \notin {".", ".."}

EntryIn(r, dat, x) == dat[r.ptrs[x[1]]][x[2]]
NamedIn(r, dat)    == {x \in Spots(r) : IsNamed(EntryIn(r, dat, x))}

EdgeAt(tab, dat, d, x) ==
  [parent |-> d, name |-> EntryIn(tab[d], dat, x).name, node |-> EntryIn(tab[d], dat, x).inum]

EdgesIn(tab, dat) == UNION {{EdgeAt(tab, dat, d, x) : x \in NamedIn(tab[d], dat)} : d \in Dirs(tab)}
Live(tab, dat)    == ReachedBy(EdgesIn(tab, dat))
TreeOf(tab, dat)  == WalkedTree(EdgesIn(tab, dat), Dirs(tab))

(* The record of a file or directory that can be reached. *)
Fine(r) ==
  /\ r.inUse
  /\ FitsSize(r)
  /\ HoldsDistinct(r)
  /\ Held(r) \subseteq Block
  /\ ~ r.isDir => r.nLinks = 1

(* What can be reached is a tree of such records, without common blocks. *)
LiveDirs(tab, dat) == {d \in Live(tab, dat) : tab[d].isDir}

Sound(tab, dat) ==
  /\ Live(tab, dat) \subseteq Inum
  /\ tab[ROOT_INUM].isDir
  /\ \A i \in Live(tab, dat) : Fine(tab[i])
  /\ \A i, j \in Live(tab, dat) : i # j => Held(tab[i]) \cap Held(tab[j]) = {}
  /\ \A d \in LiveDirs(tab, dat) : \A x \in NamedIn(tab[d], dat) :
       EntryIn(tab[d], dat, x).name \in Names /\ EntryIn(tab[d], dat, x).inum # ROOT_INUM
  /\ \A d, e \in LiveDirs(tab, dat) : \A x \in NamedIn(tab[d], dat), y \in NamedIn(tab[e], dat) :
       EntryIn(tab[d], dat, x).inum = EntryIn(tab[e], dat, y).inum => d = e /\ x = y
  /\ \A d \in LiveDirs(tab, dat) : \A x, y \in NamedIn(tab[d], dat) :
       EntryIn(tab[d], dat, x).name = EntryIn(tab[d], dat, y).name => x = y

-----------------------------------------------------------------------------
(* What a disk d has of the inodes in L: their records, their entries, the *)
(* bits of their blocks.                                                   *)

Recs(L, d, tab) ==
  \A i \in L : /\ Durable(LoadedInode(d, i)) = Durable(tab[i])
               /\ ~ tab[i].isDir => LoadedInode(d, i).nLinks = 1

Ents(L, d, tab, dat) ==
  \A i \in L : tab[i].isDir =>
    \A k \in 0 .. tab[i].blocks - 1 : LoadedData(d)[tab[i].ptrs[k]] = dat[tab[i].ptrs[k]]

Marked(L, bits, tab) == \A i \in L : Held(tab[i]) \subseteq bits

Shows(L, d, tab, dat, c) ==
  /\ Formatted(d)
  /\ Recs(L, d, tab)
  /\ Ents(L, d, tab, dat)
  /\ L \subseteq LoadedInodeBitmap(d)
  /\ Marked(L \ {c}, LoadedDataBitmap(d), tab)

LiveOn(d) == Live(LoadedTable(d), LoadedData(d))
TreeOn(d) == TreeOf(LoadedTable(d), LoadedData(d))

DiskSound(d, c) ==
  /\ Sound(LoadedTable(d), LoadedData(d))
  /\ LiveOn(d) \subseteq LoadedInodeBitmap(d)
  /\ Marked(LiveOn(d) \ {c}, LoadedDataBitmap(d), LoadedTable(d))

-----------------------------------------------------------------------------
(* What the blocks of each region may contain. *)

Address == 0 .. Layout!DataLba(Scanned(NumDataBlocks))

SavedInode ==
  [inUse : BOOLEAN, isDir : BOOLEAN, writable : BOOLEAN, nLinks : 0 .. LinkModulus - 1,
   size : Nat, blocks : 0 .. MaxFileBlocks, indirect : Block \cup {NoBlock},
   ptrs : [0 .. NumDirect - 1 -> Block \cup {NoBlock}]]

IsBits(blk, all) ==
  blk.kind = "zero" \/ (blk.kind = "bits" /\ blk.bits \subseteq all)

IsTable(blk, g) ==
  \/ blk.kind = "zero"
  \/ /\ blk.kind = "inodes"
     /\ blk.inodes \in [Shelf -> SavedInode]
     /\ \A j \in Shelf : blk.nums[j] \in {0, g * InodesPerBlock + j}

IsData(blk) ==
  \/ blk.kind \in {"zero", "bytes"}
  \/ blk.kind = "entries" /\ blk.entries \in [Slot -> EntryType]
  \/ blk.kind = "ptrs"

BlockOK(a, blk) ==
  /\ a = Layout!SUPER_LBA => blk \in {Zero, Super}
  /\ a = Layout!i_bitmap_start => IsBits(blk, 0 .. Scanned(NumInodes) - 1)
  /\ a = Layout!d_bitmap_start => IsBits(blk, Block)
  /\ \A g \in 0 .. Layout!TableBlocks - 1 : a = Layout!i_table_start + g => IsTable(blk, g)
  /\ \A b \in Block : a = Layout!DataLba(b) => IsData(blk)
  /\ blk.kind = "ptrs" => blk.ptrs \in [Ptr -> Block \cup {NoBlock}]

IsDisk(d) == d = [a \in Address |-> d[a]] /\ \A a \in Address : BlockOK(a, d[a])

(* A sequence of writes, and the disk after the first k of them. *)
IsWrites(w) ==
  /\ Len(w) \in Nat
  /\ w = [k \in 1 .. Len(w) |-> w[k]]
  /\ \A k \in 1 .. Len(w) : w[k].lba \in Address /\ BlockOK(w[k].lba, w[k].block)

DiskAfter(d, w, k) ==
  [a \in Address |->
     LET at == {j \in 1 .. k : w[j].lba = a}
     IN  IF at = {} THEN d[a] ELSE w[CHOOSE j \in at : \A l \in at : l <= j].block]

-----------------------------------------------------------------------------
(* The inductive invariant. *)

CrashTypes ==
  /\ inode \in [Inum -> InodeType]
  /\ data \in [Block -> [Slot -> EntryType]]
  /\ inodeBitmap \subseteq 0 .. Scanned(NumInodes) - 1
  /\ dataBitmap \subseteq Block
  /\ status \in CrashStatus
  /\ inum \in [Inum -> Inum] /\ \A i \in Inum : inum[i] \in {0, i}
  /\ cutting \in Inum \cup {NoInum}
  /\ disk = NoDisk \/ IsDisk(disk)
  /\ IsWrites(pending)

(* The tree in memory. *)
MemoryOK ==
  /\ Sound(inode, data)
  /\ Live(inode, data) \ {ROOT_INUM} \subseteq inodeBitmap
  /\ Marked(Live(inode, data), dataBitmap, inode)

(* From d, the writes w pass through sound disks only, and through no tree *)
(* but the one that is there and T.                                        *)
Safe(d, w, c, T) ==
  /\ \A k \in 0 .. Len(w) : Formatted(DiskAfter(d, w, k)) => DiskSound(DiskAfter(d, w, k), c)
  /\ \A k \in 1 .. Len(w) : Formatted(DiskAfter(d, w, k - 1)) =>
       TreeOn(DiskAfter(d, w, k)) \in {TreeOn(DiskAfter(d, w, k - 1)), T}

LinksFollow(L, d, tab) ==
  inum = OwnNumbers =>
    \A i \in L : tab[i].nLinks \in {LoadedInode(d, i).nLinks, IncLinks(LoadedInode(d, i).nLinks)}

AfterAll == DiskAfter(disk, pending, Len(pending))

CrashInd ==
  /\ CrashTypes
  /\ disk = NoDisk => status = "down"
  /\ status = "up" /\ pending = <<>> => cutting = NoInum
  /\ ~ Alive => pending = <<>> /\ (Formatted(disk) => DiskSound(disk, cutting))
  /\ Alive => /\ MemoryOK
              /\ Safe(disk, pending, cutting, TreeOf(inode, data))
              /\ Shows(Live(inode, data), AfterAll, inode, data, NoInum)
              /\ LinksFollow(Live(inode, data), AfterAll, inode)

-----------------------------------------------------------------------------
(* Moves from one sound name space to another. *)

(* When an entry of a live directory is an edge of the name space. *)
LEMMA IsEdge ==
  ASSUME NEW tab, NEW dat, NEW e
  PROVE  e \in EdgesIn(tab, dat) <=>
           \E d \in Dirs(tab) : \E x \in NamedIn(tab[d], dat) : e = EdgeAt(tab, dat, d, x)
BY DEF EdgesIn

(* The fields of the edge an entry of a directory stands for. *)
LEMMA EdgeFields ==
  ASSUME NEW tab, NEW dat, NEW d, NEW x
  PROVE  /\ EdgeAt(tab, dat, d, x).parent = d
         /\ EdgeAt(tab, dat, d, x).name = EntryIn(tab[d], dat, x).name
         /\ EdgeAt(tab, dat, d, x).node = EntryIn(tab[d], dat, x).inum
BY DEF EdgeAt

(* What Sound gives. *)
LEMMA SoundIs ==
  ASSUME NEW tab, NEW dat, Sound(tab, dat)
  PROVE  /\ ROOT_INUM \in LiveDirs(tab, dat)
         /\ LiveDirs(tab, dat) = Dirs(tab) \cap Live(tab, dat)
         /\ \A d \in LiveDirs(tab, dat) : \A x \in NamedIn(tab[d], dat) :
              /\ EdgeAt(tab, dat, d, x) \in EdgesIn(tab, dat)
              /\ EntryIn(tab[d], dat, x).inum \in Live(tab, dat)
<1>1. ROOT_INUM \in Live(tab, dat)
  BY ReachedByIs DEF Live
<1>2. LiveDirs(tab, dat) = Dirs(tab) \cap Live(tab, dat)
  BY DEF Sound, Fine, LiveDirs, Dirs
<1>3. ASSUME NEW d \in LiveDirs(tab, dat), NEW x \in NamedIn(tab[d], dat)
      PROVE  /\ EdgeAt(tab, dat, d, x) \in EdgesIn(tab, dat)
             /\ EntryIn(tab[d], dat, x).inum \in Live(tab, dat)
  <2>1. EdgeAt(tab, dat, d, x) \in EdgesIn(tab, dat)
    BY <1>2, IsEdge
  <2>2. EdgeAt(tab, dat, d, x).parent \in Live(tab, dat)
    BY <1>2, EdgeFields
  <2>3. EdgeAt(tab, dat, d, x).node \in Live(tab, dat)
    BY <2>1, <2>2, ReachedByIs DEF Live, Sound
  <2> QED
    BY <2>1, <2>3, EdgeFields
<1> QED
  BY <1>1, <1>2, <1>3 DEF LiveDirs, Sound

(* In a sound name space an inode hangs in one place only, and a directory *)
(* holds a name once.                                                      *)
LEMMA SoundOnce ==
  ASSUME NEW tab, NEW dat, Sound(tab, dat),
         NEW d \in LiveDirs(tab, dat), NEW x \in NamedIn(tab[d], dat)
  PROVE  /\ EntryIn(tab[d], dat, x).name \in Names
         /\ EntryIn(tab[d], dat, x).inum # ROOT_INUM
         /\ \A e \in LiveDirs(tab, dat) : \A y \in NamedIn(tab[e], dat) :
              EntryIn(tab[d], dat, x).inum = EntryIn(tab[e], dat, y).inum => d = e /\ x = y
         /\ \A y \in NamedIn(tab[d], dat) :
              EntryIn(tab[d], dat, x).name = EntryIn(tab[d], dat, y).name => x = y
BY DEF Sound

(* No entry changes. *)
LEMMA SoundSame ==
  ASSUME NEW tab, NEW dat, NEW tab2, NEW dat2, Sound(tab, dat),
         \A i \in Live(tab, dat) : Fine(tab2[i]) /\ tab2[i].isDir = tab[i].isDir,
         \A i, j \in Live(tab, dat) : i # j => Held(tab2[i]) \cap Held(tab2[j]) = {},
         \A d \in LiveDirs(tab, dat) :
           /\ NamedIn(tab2[d], dat2) = NamedIn(tab[d], dat)
           /\ \A x \in NamedIn(tab[d], dat) : EntryIn(tab2[d], dat2, x) = EntryIn(tab[d], dat, x)
  PROVE  /\ Sound(tab2, dat2)
         /\ Live(tab2, dat2) = Live(tab, dat)
         /\ TreeOf(tab2, dat2) = TreeOf(tab, dat)
<1> DEFINE L == Live(tab, dat)
           E == EdgesIn(tab, dat)
           F == EdgesIn(tab2, dat2)
<1>1. /\ L \subseteq Inum
      /\ \A i \in L : tab[i].inUse /\ tab2[i].inUse
      /\ LiveDirs(tab, dat) = Dirs(tab) \cap L
  BY SoundIs DEF Sound, Fine
<1>2. \A d \in L : d \in Dirs(tab) <=> d \in Dirs(tab2)
  BY <1>1 DEF Dirs
<1>3. \A d \in LiveDirs(tab, dat) : \A x \in NamedIn(tab[d], dat) :
        EdgeAt(tab2, dat2, d, x) = EdgeAt(tab, dat, d, x)
  BY DEF EdgeAt
<1>4. ASSUME NEW e, e.parent \in L
      PROVE  e \in E <=> e \in F
  <2>1. ASSUME e \in E PROVE e \in F
    <3>1. PICK d \in Dirs(tab) : \E x \in NamedIn(tab[d], dat) : e = EdgeAt(tab, dat, d, x)
      BY <2>1, IsEdge
    <3>2. PICK x \in NamedIn(tab[d], dat) : e = EdgeAt(tab, dat, d, x)
      BY <3>1
    <3>3. d \in L /\ d \in LiveDirs(tab, dat) /\ d \in Dirs(tab2)
      BY <1>1, <1>2, <1>4, <3>2, EdgeFields
    <3>4. x \in NamedIn(tab2[d], dat2) /\ e = EdgeAt(tab2, dat2, d, x)
      BY <1>3, <3>2, <3>3
    <3> QED
      BY <3>3, <3>4, IsEdge
  <2>2. ASSUME e \in F PROVE e \in E
    <3>1. PICK d \in Dirs(tab2) : \E x \in NamedIn(tab2[d], dat2) : e = EdgeAt(tab2, dat2, d, x)
      BY <2>2, IsEdge
    <3>2. PICK x \in NamedIn(tab2[d], dat2) : e = EdgeAt(tab2, dat2, d, x)
      BY <3>1
    <3>3. d \in L /\ d \in LiveDirs(tab, dat) /\ d \in Dirs(tab)
      BY <1>1, <1>2, <1>4, <3>2, EdgeFields
    <3>4. x \in NamedIn(tab[d], dat) /\ e = EdgeAt(tab, dat, d, x)
      BY <1>3, <3>2, <3>3
    <3> QED
      BY <3>3, <3>4, IsEdge
  <2> QED
    BY <2>1, <2>2
<1>5. Live(tab2, dat2) = L
  <2> HIDE DEF E, F
  <2>1. ReachedBy(E) = L
    BY DEF Live, E
  <2>2. ReachedBy(F) = ReachedBy(E)
    BY <1>1, <1>4, <2>1, ReachedSame
  <2> QED
    BY <2>1, <2>2 DEF Live, F
<1>6. LiveDirs(tab2, dat2) = LiveDirs(tab, dat)
  BY <1>5 DEF LiveDirs
<1>7. TreeOf(tab2, dat2) = TreeOf(tab, dat)
  <2>1. {e \in F : e.parent \in L} = {e \in E : e.parent \in L}
    BY <1>4
  <2>2. Dirs(tab2) \cap L = Dirs(tab) \cap L
    BY <1>2
  <2>3. ReachedBy(F) = L /\ ReachedBy(E) = L
    BY <1>5 DEF Live
  <2> HIDE DEF E, F, L
  <2> QED
    BY <2>1, <2>2, <2>3 DEF TreeOf, WalkedTree, E, F
<1>8. tab2[ROOT_INUM].isDir
  BY SoundIs DEF LiveDirs
<1>9. \A d \in LiveDirs(tab, dat) : \A x \in NamedIn(tab[d], dat) :
        EntryIn(tab2[d], dat2, x).name \in Names /\ EntryIn(tab2[d], dat2, x).inum # ROOT_INUM
  BY DEF Sound
<1>10. \A d, e \in LiveDirs(tab, dat) : \A x \in NamedIn(tab[d], dat), y \in NamedIn(tab[e], dat) :
        EntryIn(tab2[d], dat2, x).inum = EntryIn(tab2[e], dat2, y).inum => d = e /\ x = y
  BY DEF Sound
<1>11. \A d \in LiveDirs(tab, dat) : \A x, y \in NamedIn(tab[d], dat) :
        EntryIn(tab2[d], dat2, x).name = EntryIn(tab2[d], dat2, y).name => x = y
  BY DEF Sound
<1>12. /\ \A d \in LiveDirs(tab2, dat2) : \A x \in NamedIn(tab2[d], dat2) :
            EntryIn(tab2[d], dat2, x).name \in Names /\ EntryIn(tab2[d], dat2, x).inum # ROOT_INUM
       /\ \A d, e \in LiveDirs(tab2, dat2) : \A x \in NamedIn(tab2[d], dat2), y \in NamedIn(tab2[e], dat2) :
            EntryIn(tab2[d], dat2, x).inum = EntryIn(tab2[e], dat2, y).inum => d = e /\ x = y
       /\ \A d \in LiveDirs(tab2, dat2) : \A x, y \in NamedIn(tab2[d], dat2) :
            EntryIn(tab2[d], dat2, x).name = EntryIn(tab2[d], dat2, y).name => x = y
  <2>1. \A d \in LiveDirs(tab, dat) : NamedIn(tab2[d], dat2) = NamedIn(tab[d], dat)
    OBVIOUS
  <2>2. \A d \in LiveDirs(tab2, dat2) : \A x \in NamedIn(tab2[d], dat2) :
            EntryIn(tab2[d], dat2, x).name \in Names /\ EntryIn(tab2[d], dat2, x).inum # ROOT_INUM
    BY <1>6, <1>9, <2>1
  <2>3. ASSUME NEW d \in LiveDirs(tab2, dat2), NEW e \in LiveDirs(tab2, dat2),
               NEW x \in NamedIn(tab2[d], dat2), NEW y \in NamedIn(tab2[e], dat2),
               EntryIn(tab2[d], dat2, x).inum = EntryIn(tab2[e], dat2, y).inum
        PROVE  d = e /\ x = y
    BY <1>6, <1>10, <2>1, <2>3
  <2>4. ASSUME NEW d \in LiveDirs(tab2, dat2), NEW x \in NamedIn(tab2[d], dat2), NEW y \in NamedIn(tab2[d], dat2),
               EntryIn(tab2[d], dat2, x).name = EntryIn(tab2[d], dat2, y).name
        PROVE  x = y
    BY <1>6, <1>11, <2>1, <2>4
  <2> QED
    BY <2>2, <2>3, <2>4
<1>13. \A i \in L : Fine(tab2[i])
  OBVIOUS
<1>14. \A i, j \in L : i # j => Held(tab2[i]) \cap Held(tab2[j]) = {}
  OBVIOUS
<1>15. Sound(tab2, dat2)
  <2> HIDE DEF L
  <2> QED
    BY <1>1, <1>5, <1>8, <1>12, <1>13, <1>14 DEF Sound
<1> QED
  BY <1>5, <1>7, <1>15

(* One entry more, for a node without entries. *)
Adds(tab, dat, tab2, dat2, c, p, x, n) ==
  /\ c \in Inum /\ c \notin Live(tab, dat) /\ p \in LiveDirs(tab, dat) /\ n \in Names
  /\ \A i \in Live(tab, dat) \cup {c} : Fine(tab2[i])
  /\ \A i \in Live(tab, dat) : tab2[i].isDir = tab[i].isDir
  /\ \A i, j \in Live(tab, dat) \cup {c} : i # j => Held(tab2[i]) \cap Held(tab2[j]) = {}
  /\ \A d \in LiveDirs(tab, dat) : \A y \in NamedIn(tab[d], dat) :
       y \in NamedIn(tab2[d], dat2) /\ EntryIn(tab2[d], dat2, y) = EntryIn(tab[d], dat, y)
  /\ \A d \in LiveDirs(tab, dat) : \A y \in NamedIn(tab2[d], dat2) :
       y \in NamedIn(tab[d], dat) \/ (d = p /\ y = x)
  /\ x \in NamedIn(tab2[p], dat2)
  /\ EntryIn(tab2[p], dat2, x).name = n /\ EntryIn(tab2[p], dat2, x).inum = c
  /\ \A y \in NamedIn(tab[p], dat) : EntryIn(tab[p], dat, y).name # n
  /\ tab2[c].isDir => NamedIn(tab2[c], dat2) = {}

(* Linking a fresh inode into a live directory leaves the name space       *)
(* sound, with that inode live as well.                                    *)
LEMMA SoundAdd ==
  ASSUME NEW tab, NEW dat, NEW tab2, NEW dat2, Sound(tab, dat),
         NEW c, NEW p, NEW x, NEW n, Adds(tab, dat, tab2, dat2, c, p, x, n)
  PROVE  /\ Sound(tab2, dat2)
         /\ Live(tab2, dat2) = Live(tab, dat) \cup {c}
<1> USE DEF Adds
<1> DEFINE L == Live(tab, dat)
           E == EdgesIn(tab, dat)
           F == EdgesIn(tab2, dat2)
           a == EdgeAt(tab2, dat2, p, x)
           D == LiveDirs(tab, dat)
<1>1. /\ L \subseteq Inum
      /\ \A i \in L : tab[i].inUse /\ tab2[i].inUse
      /\ tab2[c].inUse
      /\ D = Dirs(tab) \cap L
  BY SoundIs DEF Sound, Fine
<1>2. \A d \in L : d \in Dirs(tab) <=> d \in Dirs(tab2)
  BY <1>1 DEF Dirs
<1>3. \A d \in D : \A y \in NamedIn(tab[d], dat) : EdgeAt(tab2, dat2, d, y) = EdgeAt(tab, dat, d, y)
  BY DEF EdgeAt
<1>4. p \in L /\ p \in D /\ p \in Dirs(tab2)
  BY <1>1, <1>2
<1>5. a \in F /\ a.parent = p /\ a.node = c
  BY <1>4, IsEdge, EdgeFields
<1>6. ASSUME NEW e \in E, e.parent \in L
      PROVE  e \in F
  <2>1. PICK d \in Dirs(tab) : \E y \in NamedIn(tab[d], dat) : e = EdgeAt(tab, dat, d, y)
    BY IsEdge
  <2>2. PICK y \in NamedIn(tab[d], dat) : e = EdgeAt(tab, dat, d, y)
    BY <2>1
  <2>3. d \in L /\ d \in D /\ d \in Dirs(tab2)
    BY <1>1, <1>2, <1>6, <2>2, EdgeFields
  <2>4. y \in NamedIn(tab2[d], dat2) /\ e = EdgeAt(tab2, dat2, d, y)
    BY <1>3, <2>2, <2>3
  <2> QED
    BY <2>3, <2>4, IsEdge
<1>7. ASSUME NEW e \in F, e.parent \in L \cup {c}
      PROVE  e = a \/ (e \in E /\ e.parent \in L)
  <2>1. PICK d \in Dirs(tab2) : \E y \in NamedIn(tab2[d], dat2) : e = EdgeAt(tab2, dat2, d, y)
    BY IsEdge
  <2>2. PICK y \in NamedIn(tab2[d], dat2) : e = EdgeAt(tab2, dat2, d, y)
    BY <2>1
  <2>3. e.parent = d
    BY <2>2, EdgeFields
  <2>4. d # c
    BY <2>1, <2>2 DEF Dirs
  <2>5. d \in L /\ d \in D /\ d \in Dirs(tab)
    BY <1>1, <1>2, <1>7, <2>1, <2>3, <2>4
  <2>6. CASE d = p /\ y = x
    BY <2>2, <2>6
  <2>7. CASE y \in NamedIn(tab[d], dat)
    <3>1. e = EdgeAt(tab, dat, d, y)
      BY <1>3, <2>2, <2>5, <2>7
    <3>2. e \in E
      BY <2>5, <2>7, <3>1, IsEdge
    <3> QED
      BY <2>3, <2>5, <3>2
  <2> QED
    BY <2>2, <2>5, <2>6, <2>7
<1>8. Live(tab2, dat2) = L \cup {c}
  <2> HIDE DEF E, F, a
  <2>1. ReachedBy(E) = L
    BY DEF Live, E
  <2>2. ReachedBy(F) = ReachedBy(E) \cup {c}
    <3>1. a.parent \in ReachedBy(E)
      BY <1>4, <1>5, <2>1
    <3>2. \A e \in E : e.parent \in ReachedBy(E) => e \in F
      BY <1>6, <2>1
    <3>3. \A e \in F : e.parent \in ReachedBy(E) \cup {c} => e = a \/ (e \in E /\ e.parent \in ReachedBy(E))
      BY <1>7, <2>1
    <3> QED
      BY <1>1, <1>5, <2>1, <3>1, <3>2, <3>3, ReachedMore
  <2> QED
    BY <2>1, <2>2 DEF Live, F
<1>9. \A d \in LiveDirs(tab2, dat2) : d \in D \/ (d = c /\ NamedIn(tab2[d], dat2) = {})
  BY <1>8 DEF LiveDirs
<1>10. \A d \in LiveDirs(tab2, dat2) : \A y \in NamedIn(tab2[d], dat2) :
         /\ d \in D
         /\ \/ d = p /\ y = x
            \/ y \in NamedIn(tab[d], dat) /\ EntryIn(tab2[d], dat2, y) = EntryIn(tab[d], dat, y)
  BY <1>9
<1>11. ROOT_INUM \in L /\ c # ROOT_INUM /\ n \in Names
  BY SoundIs DEF LiveDirs
<1>12. \A d \in D : \A y \in NamedIn(tab[d], dat) :
          EntryIn(tab[d], dat, y).inum \in L /\ EntryIn(tab[d], dat, y).inum # c
  BY SoundIs
<1>13. ASSUME NEW d \in LiveDirs(tab2, dat2), NEW y \in NamedIn(tab2[d], dat2)
       PROVE  EntryIn(tab2[d], dat2, y).name \in Names /\ EntryIn(tab2[d], dat2, y).inum # ROOT_INUM
  BY <1>10, <1>11 DEF Sound
<1>14. ASSUME NEW d \in LiveDirs(tab2, dat2), NEW e \in LiveDirs(tab2, dat2),
              NEW y \in NamedIn(tab2[d], dat2), NEW z \in NamedIn(tab2[e], dat2),
              EntryIn(tab2[d], dat2, y).inum = EntryIn(tab2[e], dat2, z).inum
       PROVE  d = e /\ y = z
  <2>1. CASE d = p /\ y = x
    BY <1>10, <1>12, <1>14, <2>1
  <2>2. CASE e = p /\ z = x
    BY <1>10, <1>12, <1>14, <2>2
  <2>3. CASE ~ (d = p /\ y = x) /\ ~ (e = p /\ z = x)
    <3>1. /\ d \in D /\ y \in NamedIn(tab[d], dat) /\ EntryIn(tab2[d], dat2, y) = EntryIn(tab[d], dat, y)
          /\ e \in D /\ z \in NamedIn(tab[e], dat) /\ EntryIn(tab2[e], dat2, z) = EntryIn(tab[e], dat, z)
      BY <1>10, <2>3
    <3> QED
      BY <1>14, <3>1 DEF Sound
  <2> QED
    BY <2>1, <2>2, <2>3
<1>15. ASSUME NEW d \in LiveDirs(tab2, dat2), NEW y \in NamedIn(tab2[d], dat2), NEW z \in NamedIn(tab2[d], dat2),
              EntryIn(tab2[d], dat2, y).name = EntryIn(tab2[d], dat2, z).name
       PROVE  y = z
  <2>1. d \in D
    BY <1>10
  <2>2. CASE d = p /\ (y = x \/ z = x)
    BY <1>10, <1>15, <2>2
  <2>3. CASE ~ (d = p /\ (y = x \/ z = x))
    <3>1. /\ y \in NamedIn(tab[d], dat) /\ EntryIn(tab2[d], dat2, y) = EntryIn(tab[d], dat, y)
          /\ z \in NamedIn(tab[d], dat) /\ EntryIn(tab2[d], dat2, z) = EntryIn(tab[d], dat, z)
      BY <1>10, <2>3
    <3> QED
      BY <1>15, <2>1, <3>1 DEF Sound
  <2> QED
    BY <2>2, <2>3
<1>16. tab2[ROOT_INUM].isDir
  BY SoundIs DEF LiveDirs
<1>17. /\ Live(tab2, dat2) \subseteq Inum
       /\ \A i \in Live(tab2, dat2) : Fine(tab2[i])
       /\ \A i, j \in Live(tab2, dat2) : i # j => Held(tab2[i]) \cap Held(tab2[j]) = {}
  BY <1>1, <1>8
<1>18. Sound(tab2, dat2)
  BY <1>13, <1>14, <1>15, <1>16, <1>17 DEF Sound
<1> QED
  BY <1>8, <1>18

(* One entry less, of a node without entries. *)
Removes(tab, dat, tab2, dat2, c, p, x) ==
  /\ p \in LiveDirs(tab, dat) /\ x \in NamedIn(tab[p], dat) /\ c = EntryIn(tab[p], dat, x).inum
  /\ tab[c].isDir => NamedIn(tab[c], dat) = {}
  /\ \A i \in Live(tab, dat) \ {c} : Fine(tab2[i]) /\ tab2[i].isDir = tab[i].isDir
  /\ \A i, j \in Live(tab, dat) \ {c} : i # j => Held(tab2[i]) \cap Held(tab2[j]) = {}
  /\ \A d \in LiveDirs(tab, dat) \ {c} : \A y \in NamedIn(tab[d], dat) :
       (d = p /\ y = x) \/ (y \in NamedIn(tab2[d], dat2) /\ EntryIn(tab2[d], dat2, y) = EntryIn(tab[d], dat, y))
  /\ \A d \in LiveDirs(tab, dat) \ {c} : \A y \in NamedIn(tab2[d], dat2) :
       y \in NamedIn(tab[d], dat) /\ ~ (d = p /\ y = x)

(* Clearing the entry of an empty inode leaves the name space sound,       *)
(* without that inode.                                                     *)
LEMMA SoundRemove ==
  ASSUME NEW tab, NEW dat, NEW tab2, NEW dat2, Sound(tab, dat),
         NEW c, NEW p, NEW x, Removes(tab, dat, tab2, dat2, c, p, x)
  PROVE  /\ Sound(tab2, dat2)
         /\ Live(tab2, dat2) = Live(tab, dat) \ {c}
         /\ c \in Live(tab, dat) /\ c # ROOT_INUM /\ c # p
<1> USE DEF Removes
<1> DEFINE L == Live(tab, dat)
           E == EdgesIn(tab, dat)
           F == EdgesIn(tab2, dat2)
           a == EdgeAt(tab, dat, p, x)
           D == LiveDirs(tab, dat)
<1>1. /\ L \subseteq Inum
      /\ \A i \in L : tab[i].inUse
      /\ \A i \in L \ {c} : tab2[i].inUse
      /\ D = Dirs(tab) \cap L
  BY SoundIs DEF Sound, Fine
<1>2. /\ a \in E /\ a.parent = p /\ a.node = c
      /\ c \in L /\ c # ROOT_INUM
  <2>1. a \in E /\ c \in L
    BY SoundIs
  <2>2. a.parent = p /\ a.node = c
    BY EdgeFields
  <2>3. c # ROOT_INUM
    BY SoundOnce
  <2> QED
    BY <2>1, <2>2, <2>3
<1>3. c # p /\ p \in L
  BY <1>1, <1>2 DEF LiveDirs
<1>4. \A d \in L \ {c} : d \in Dirs(tab) <=> d \in Dirs(tab2)
  BY <1>1 DEF Dirs
<1>5. ASSUME NEW e \in E, e.parent \in L
      PROVE  /\ e # a => e \in F
             /\ e.node = c => e = a
  <2>1. PICK d \in Dirs(tab) : \E y \in NamedIn(tab[d], dat) : e = EdgeAt(tab, dat, d, y)
    BY IsEdge
  <2>2. PICK y \in NamedIn(tab[d], dat) : e = EdgeAt(tab, dat, d, y)
    BY <2>1
  <2>3. e.parent = d /\ e.node = EntryIn(tab[d], dat, y).inum
    BY <2>2, EdgeFields
  <2>4. d # c
    BY <1>2, <2>1, <2>2 DEF Dirs
  <2>5. d \in L /\ d \in D /\ d \in Dirs(tab2)
    BY <1>1, <1>4, <1>5, <2>1, <2>3, <2>4
  <2>6. ASSUME e # a PROVE e \in F
    <3>1. ~ (d = p /\ y = x)
      BY <2>2, <2>6
    <3>2. y \in NamedIn(tab2[d], dat2) /\ EntryIn(tab2[d], dat2, y) = EntryIn(tab[d], dat, y)
      BY <2>2, <2>4, <2>5, <3>1
    <3>3. e = EdgeAt(tab2, dat2, d, y)
      BY <2>2, <3>2 DEF EdgeAt
    <3> QED
      BY <2>5, <3>2, <3>3, IsEdge
  <2>7. ASSUME e.node = c PROVE e = a
    <3>1. d = p /\ y = x
      <4>1. EntryIn(tab[p], dat, x).inum = EntryIn(tab[d], dat, y).inum
        BY <2>3, <2>7
      <4> HIDE DEF a, E, F, D
      <4>2. d \in LiveDirs(tab, dat)
        BY <2>5 DEF D
      <4> QED
        BY <2>2, <4>1, <4>2, SoundOnce
    <3> QED
      BY <2>2, <3>1
  <2> QED
    BY <2>6, <2>7
<1>6. ASSUME NEW e \in F, e.parent \in L \ {c}
      PROVE  e \in E /\ e # a
  <2>1. PICK d \in Dirs(tab2) : \E y \in NamedIn(tab2[d], dat2) : e = EdgeAt(tab2, dat2, d, y)
    BY IsEdge
  <2>2. PICK y \in NamedIn(tab2[d], dat2) : e = EdgeAt(tab2, dat2, d, y)
    BY <2>1
  <2>3. e.parent = d
    BY <2>2, EdgeFields
  <2>4. d \in L \ {c} /\ d \in D \ {c} /\ d \in Dirs(tab)
    BY <1>1, <1>4, <1>6, <2>1, <2>3
  <2>5. /\ y \in NamedIn(tab[d], dat) /\ ~ (d = p /\ y = x)
        /\ EntryIn(tab2[d], dat2, y) = EntryIn(tab[d], dat, y)
    BY <2>2, <2>4
  <2>6. e = EdgeAt(tab, dat, d, y)
    BY <2>2, <2>5 DEF EdgeAt
  <2>7. e \in E
    BY <2>4, <2>5, <2>6, IsEdge
  <2>8. e # a
    <3>1. ASSUME e = a PROVE FALSE
      <4>1. d = p /\ e.node = c
        BY <1>2, <2>3, <3>1
      <4>2. e.node = EntryIn(tab[d], dat, y).inum
        BY <2>6 DEF EdgeAt
      <4>3. y = x
        <5> HIDE DEF a, E, F, D
        <5>1. d \in LiveDirs(tab, dat) /\ y \in NamedIn(tab[d], dat)
          BY <2>4, <2>5 DEF D
        <5>2. EntryIn(tab[p], dat, x).inum = EntryIn(tab[d], dat, y).inum
          BY <4>1, <4>2
        <5> QED
          BY <4>1, <5>1, <5>2, SoundOnce
      <4> QED
        BY <2>5, <4>1, <4>3
    <3> QED
      BY <3>1
  <2> QED
    BY <2>7, <2>8
<1>7. \A e \in E : e.parent # c
  <2>1. ASSUME NEW e \in E, e.parent = c PROVE FALSE
    <3>1. PICK d \in Dirs(tab) : \E y \in NamedIn(tab[d], dat) : e = EdgeAt(tab, dat, d, y)
      BY IsEdge
    <3>2. d = c
      BY <2>1, <3>1, EdgeFields
    <3> QED
      BY <3>1, <3>2 DEF Dirs
  <2> QED
    BY <2>1
<1>8. Live(tab2, dat2) = L \ {c}
  <2> HIDE DEF E, F, a
  <2>1. ReachedBy(E) = L
    BY DEF Live, E
  <2>2. ReachedBy(F) = ReachedBy(E) \ {a.node}
    <3>1. a.node # ROOT_INUM /\ a \in E
      BY <1>2
    <3>2. \A e \in E : e.parent \in ReachedBy(E) /\ e.node = a.node => e = a
      BY <1>2, <1>5, <2>1
    <3>3. \A e \in E : e.parent # a.node
      BY <1>2, <1>7
    <3>4. \A e \in E : e.parent \in ReachedBy(E) /\ e # a => e \in F
      BY <1>5, <2>1
    <3>5. \A e \in F : e.parent \in ReachedBy(E) \ {a.node} => e \in E /\ e # a
      BY <1>2, <1>6, <2>1
    <3> QED
      BY <1>1, <2>1, <3>1, <3>2, <3>3, <3>4, <3>5, ReachedLess
  <2> QED
    BY <1>2, <2>1, <2>2 DEF Live, F
<1>9. LiveDirs(tab2, dat2) = D \ {c}
  BY <1>8 DEF LiveDirs
<1>10. \A d \in LiveDirs(tab2, dat2) : \A y \in NamedIn(tab2[d], dat2) :
         d \in D /\ y \in NamedIn(tab[d], dat) /\ EntryIn(tab2[d], dat2, y) = EntryIn(tab[d], dat, y)
  BY <1>9
<1>11. ASSUME NEW d \in LiveDirs(tab2, dat2), NEW y \in NamedIn(tab2[d], dat2)
       PROVE  EntryIn(tab2[d], dat2, y).name \in Names /\ EntryIn(tab2[d], dat2, y).inum # ROOT_INUM
  BY <1>10 DEF Sound
<1>12. ASSUME NEW d \in LiveDirs(tab2, dat2), NEW e \in LiveDirs(tab2, dat2),
              NEW y \in NamedIn(tab2[d], dat2), NEW z \in NamedIn(tab2[e], dat2),
              EntryIn(tab2[d], dat2, y).inum = EntryIn(tab2[e], dat2, z).inum
       PROVE  d = e /\ y = z
  BY <1>10, <1>12 DEF Sound
<1>13. ASSUME NEW d \in LiveDirs(tab2, dat2), NEW y \in NamedIn(tab2[d], dat2), NEW z \in NamedIn(tab2[d], dat2),
              EntryIn(tab2[d], dat2, y).name = EntryIn(tab2[d], dat2, z).name
       PROVE  y = z
  BY <1>10, <1>13 DEF Sound
<1>14. tab2[ROOT_INUM].isDir
  BY <1>2, SoundIs DEF LiveDirs
<1>15. /\ Live(tab2, dat2) \subseteq Inum
       /\ \A i \in Live(tab2, dat2) : Fine(tab2[i])
       /\ \A i, j \in Live(tab2, dat2) : i # j => Held(tab2[i]) \cap Held(tab2[j]) = {}
  BY <1>1, <1>8
<1>16. Sound(tab2, dat2)
  BY <1>11, <1>12, <1>13, <1>14, <1>15 DEF Sound
<1> QED
  BY <1>2, <1>3, <1>8, <1>16

-----------------------------------------------------------------------------
(* Where the blocks of the disk are. *)

(* A region has at least one block. *)
LEMMA SomeBlocks ==
  ASSUME NEW n \in Nat \ {0}
  PROVE  Layout!BlocksOf(n) \in Nat \ {0}
<1>1. n + BlockSize - 1 \in Nat /\ BlockSize \in Nat \ {0} /\ BlockSize \in Nat /\ BlockSize <= n + BlockSize - 1
  BY BlockSizeAssumption
<1>2. (n + BlockSize - 1) \div BlockSize \in Nat
  BY <1>1, Quotient
<1>3. BlockSize \div BlockSize <= (n + BlockSize - 1) \div BlockSize
  BY <1>1, QuotientsInOrder
<1>4. BlockSize \div BlockSize = 1
  BY <1>1
<1> QED
  BY <1>2, <1>3, <1>4 DEF Layout!BlocksOf

(* The regions of the disk begin in the order init_super gives them        *)
(* (src/refs.c:375-378).                                                   *)
LEMMA Starts ==
  /\ Layout!SUPER_LBA = 0
  /\ Layout!i_bitmap_start = 1
  /\ Layout!i_table_start \in Nat /\ 1 < Layout!i_table_start
  /\ Layout!TableBlocks \in Nat
  /\ Layout!d_bitmap_start = Layout!i_table_start + Layout!TableBlocks
  /\ Layout!d_region_start \in Nat /\ Layout!d_bitmap_start < Layout!d_region_start
<1>1. /\ Layout!BitmapRoom(NumInodes) \in Nat \ {0}
      /\ Layout!BitmapRoom(NumDataBlocks) \in Nat \ {0}
  BY SomeBlocks, InodesAssumption, BlocksAssumption DEF Layout!BitmapRoom
<1>2. Layout!TableBlocks \in Nat
  BY Quotient, TableAssumption, InodesAssumption DEF Layout!TableBlocks
<1> QED
  BY <1>1, <1>2 DEF Layout!SUPER_LBA, Layout!i_bitmap_start, Layout!i_table_start,
                    Layout!d_bitmap_start, Layout!d_region_start

(* An inode number is its table block and its place in that block. *)
LEMMA Groups ==
  ASSUME NEW i \in Inum
  PROVE  /\ i \div InodesPerBlock \in 0 .. Layout!TableBlocks - 1
         /\ i % InodesPerBlock \in Shelf
         /\ (i \div InodesPerBlock) * InodesPerBlock + (i % InodesPerBlock) = i
<1>1. i \in Nat /\ i < NumInodes /\ NumInodes \in Nat /\ InodesPerBlock \in Nat \ {0}
  BY InodesAssumption, TableAssumption DEF Inum
<1> DEFINE g == i \div InodesPerBlock
           j == i % InodesPerBlock
<1>2. g \in Nat /\ j \in 0 .. InodesPerBlock - 1 /\ i = InodesPerBlock * g + j
  BY <1>1, Quotient
<1>3. g < Layout!TableBlocks /\ Layout!TableBlocks \in Nat
  BY <1>1, TableAssumption, QuotientBelow, Quotient DEF Layout!TableBlocks
<1> HIDE DEF g, j
<1>4. g * InodesPerBlock = InodesPerBlock * g
  BY <1>1, <1>2
<1> QED
  BY <1>2, <1>3, <1>4 DEF g, j, Shelf

(* An inode by its block and its place there. *)
LEMMA OnShelf ==
  ASSUME NEW g \in 0 .. Layout!TableBlocks - 1, NEW j \in Shelf
  PROVE  g * InodesPerBlock + j \in Inum
<1>1. NumInodes \in Nat /\ InodesPerBlock \in Nat \ {0}
  BY InodesAssumption, TableAssumption
<1> DEFINE t == Layout!TableBlocks
<1>2. t \in Nat /\ NumInodes = InodesPerBlock * t + (NumInodes % InodesPerBlock)
  BY <1>1, Quotient DEF Layout!TableBlocks
<1>3. NumInodes = InodesPerBlock * t
  BY <1>1, <1>2, TableAssumption
<1> HIDE DEF t
<1>4. g \in Nat /\ g + 1 <= t /\ j \in Nat /\ j < InodesPerBlock
  BY <1>1, <1>2 DEF t, Shelf
<1>5. InodesPerBlock * (g + 1) <= InodesPerBlock * t
  BY <1>1, <1>2, <1>4
<1>6. InodesPerBlock * (g + 1) = g * InodesPerBlock + InodesPerBlock
  BY <1>1, <1>4
<1>7. g * InodesPerBlock \in Nat
  BY <1>1, <1>4
<1> QED
  BY <1>1, <1>3, <1>4, <1>5, <1>6, <1>7 DEF Inum

(* The data blocks the bitmap can hand out; the mark for no block is none  *)
(* of them.                                                                *)
LEMMA BlockIs == Scanned(NumDataBlocks) \in Nat /\ Block = 0 .. Scanned(NumDataBlocks) /\ NoBlock \notin Block
BY BlocksAssumption, ScannedCovers DEF Block, NoBlock

(* The blocks that are written are in the file and are different ones. *)
LEMMA Addresses ==
  /\ Layout!SUPER_LBA \in Address
  /\ Layout!i_bitmap_start \in Address
  /\ Layout!d_bitmap_start \in Address
  /\ Layout!SUPER_LBA # Layout!i_bitmap_start
  /\ Layout!SUPER_LBA # Layout!d_bitmap_start
  /\ Layout!i_bitmap_start # Layout!d_bitmap_start
  /\ Layout!d_region_start + NoBlock \in Address
  /\ \A g \in 0 .. Layout!TableBlocks - 1 :
       /\ Layout!i_table_start + g \in Address
       /\ Layout!i_table_start + g # Layout!SUPER_LBA
       /\ Layout!i_table_start + g # Layout!i_bitmap_start
       /\ Layout!i_table_start + g # Layout!d_bitmap_start
       /\ \A b \in Block : Layout!DataLba(b) # Layout!i_table_start + g
       /\ \A h \in 0 .. Layout!TableBlocks - 1 :
            Layout!i_table_start + h = Layout!i_table_start + g => h = g
  /\ \A b \in Block :
       /\ Layout!DataLba(b) \in Address
       /\ Layout!DataLba(b) # Layout!SUPER_LBA
       /\ Layout!DataLba(b) # Layout!i_bitmap_start
       /\ Layout!DataLba(b) # Layout!d_bitmap_start
       /\ \A c \in Block : Layout!DataLba(b) = Layout!DataLba(c) => b = c
BY Starts, BlockIs DEF Address, Layout!DataLba, NoBlock

(* The block of the inode table that holds an inode is neither the super   *)
(* block, a bitmap nor a data block.                                       *)
LEMMA TableAddresses ==
  ASSUME NEW i \in Inum
  PROVE  /\ Layout!InodeLba(i) \in Address
         /\ Layout!InodeLba(i) # Layout!SUPER_LBA
         /\ Layout!InodeLba(i) # Layout!i_bitmap_start
         /\ Layout!InodeLba(i) # Layout!d_bitmap_start
         /\ \A b \in Block : Layout!DataLba(b) # Layout!InodeLba(i)
         /\ \A j \in Inum : Layout!InodeLba(j) = Layout!InodeLba(i) <=>
                            j \div InodesPerBlock = i \div InodesPerBlock
BY Addresses, Groups DEF Layout!InodeLba

-----------------------------------------------------------------------------
(* What is loaded from a disk. *)

(* A superblock says where the regions are. *)
LEMMA LoadedFrom ==
  ASSUME NEW d, IsDisk(d), Formatted(d)
  PROVE  /\ d[Layout!SUPER_LBA] = Super
         /\ LoadedInodeBitmap(d) = BitsAt(d, Layout!i_bitmap_start)
         /\ LoadedDataBitmap(d) = BitsAt(d, Layout!d_bitmap_start)
         /\ \A i : TableBlockOf(d, i) = d[Layout!InodeLba(i)]
         /\ SuperOf(d).d_region_start = Layout!d_region_start
<1>1. d[Layout!SUPER_LBA] \in {Zero, Super}
  BY Addresses DEF IsDisk, BlockOK
<1>2. d[Layout!SUPER_LBA] = Super
  BY <1>1 DEF Formatted, Zero
<1>3. SuperOf(d) = Layout!init_super
  BY <1>2 DEF SuperOf, Super
<1>4. /\ SuperOf(d).i_bitmap_start = Layout!i_bitmap_start
      /\ SuperOf(d).d_bitmap_start = Layout!d_bitmap_start
      /\ SuperOf(d).i_table_start = Layout!i_table_start
      /\ SuperOf(d).d_region_start = Layout!d_region_start
  BY <1>3 DEF Layout!init_super
<1> QED
  BY <1>2, <1>4 DEF LoadedInodeBitmap, LoadedDataBitmap, TableBlockOf, Layout!InodeLba

(* What a reader of entries finds in a block. *)
Seen(blk) ==
  CASE blk.kind = "entries" -> blk.entries
    [] blk.kind = "zero"    -> EmptyBlock
    [] OTHER                -> OtherBlock

(* Any data block read as a directory gives entries. *)
LEMMA SeenType ==
  ASSUME NEW blk, IsData(blk)
  PROVE  Seen(blk) \in [Slot -> EntryType]
<1>1. CASE blk.kind = "entries"
  BY <1>1 DEF Seen, IsData
<1>2. CASE blk.kind # "entries"
  BY <1>2, DirBlockType DEF Seen
<1> QED
  BY <1>1, <1>2

(* The contents a mount finds in the data blocks. *)
LEMMA LoadedDataIs ==
  ASSUME NEW d, IsDisk(d), Formatted(d)
  PROVE  /\ LoadedData(d) = [b \in Block |-> Seen(d[Layout!DataLba(b)])]
         /\ LoadedData(d) \in [Block -> [Slot -> EntryType]]
<1>1. LoadedData(d) = [b \in Block |-> Seen(d[Layout!DataLba(b)])]
  BY LoadedFrom DEF LoadedData, Seen, Layout!DataLba
<1>2. ASSUME NEW b \in Block PROVE Seen(d[Layout!DataLba(b)]) \in [Slot -> EntryType]
  BY Addresses, SeenType DEF IsDisk, BlockOK
<1> QED
  BY <1>1, <1>2

(* The block of pointers of a record, if it has one. *)
HasPtrs(r) == r.blocks > NumDirect => r.indirect \in Block

PtrsAt(d, r) ==
  IF r.blocks > NumDirect /\ d[Layout!d_region_start + r.indirect].kind = "ptrs"
  THEN d[Layout!d_region_start + r.indirect].ptrs ELSE [l \in Ptr |-> NoBlock]

(* The pointers of an inode: the direct ones from its record, the others   *)
(* from its indirect block.                                                *)
LEMMA PointersAre ==
  ASSUME NEW d, IsDisk(d), Formatted(d), NEW r
  PROVE  PointersOf(d, r) =
           [k \in PtrIndex |-> IF k < NumDirect THEN r.ptrs[k]
                               ELSE IF k < r.blocks THEN PtrsAt(d, r)[k - NumDirect] ELSE NoBlock]
<1>1. SuperOf(d).d_region_start = Layout!d_region_start
  BY LoadedFrom
<1>2. (IF (IF r.blocks > NumDirect THEN d[Layout!d_region_start + r.indirect] ELSE Zero).kind = "ptrs"
       THEN (IF r.blocks > NumDirect THEN d[Layout!d_region_start + r.indirect] ELSE Zero).ptrs
       ELSE [l \in Ptr |-> NoBlock]) = PtrsAt(d, r)
  BY DEF PtrsAt, Zero
<1> QED
  BY <1>1, <1>2 DEF PointersOf

(* The indexes of the direct pointers and of those in the indirect block. *)
LEMMA PtrRange ==
  /\ NumDirect \in Nat \ {0} /\ PtrsPerBlock \in Nat \ {0} /\ MaxFileBlocks \in Nat
  /\ NumDirect < MaxFileBlocks
  /\ PtrIndex = 0 .. MaxFileBlocks - 1
  /\ \A k \in PtrIndex : k < NumDirect => k \in 0 .. NumDirect - 1
  /\ \A k \in PtrIndex : ~ (k < NumDirect) => k - NumDirect \in Ptr
  /\ 0 .. NumDirect - 1 \subseteq PtrIndex
BY PointersAssumption DEF MaxFileBlocks, PtrIndex, Ptr

(* The pointers a mount reads name data blocks or nothing. *)
LEMMA PointersType ==
  ASSUME NEW d, IsDisk(d), Formatted(d), NEW r,
         r.indirect \in Block \cup {NoBlock},
         \A k \in 0 .. NumDirect - 1 : r.ptrs[k] \in Block \cup {NoBlock}
  PROVE  PointersOf(d, r) \in [PtrIndex -> Block \cup {NoBlock}]
<1>1. Layout!d_region_start + r.indirect \in Address
  BY Addresses DEF Layout!DataLba
<1>2. d[Layout!d_region_start + r.indirect].kind = "ptrs" =>
        d[Layout!d_region_start + r.indirect].ptrs \in [Ptr -> Block \cup {NoBlock}]
  BY <1>1 DEF IsDisk, BlockOK
<1>3. PtrsAt(d, r) \in [Ptr -> Block \cup {NoBlock}]
  BY <1>2 DEF PtrsAt
<1> DEFINE P(k) == IF k < NumDirect THEN r.ptrs[k]
                   ELSE IF k < r.blocks THEN PtrsAt(d, r)[k - NumDirect] ELSE NoBlock
<1>4. ASSUME NEW k \in PtrIndex PROVE P(k) \in Block \cup {NoBlock}
  BY <1>3, PtrRange
<1>5. PointersOf(d, r) = [k \in PtrIndex |-> P(k)]
  BY PointersAre
<1> QED
  BY <1>4, <1>5

(* Two disks with the same block of pointers. *)
LEMMA PointersSame ==
  ASSUME NEW d, NEW e, IsDisk(d), Formatted(d), IsDisk(e), Formatted(e), NEW r,
         r.blocks > NumDirect =>
           d[Layout!d_region_start + r.indirect] = e[Layout!d_region_start + r.indirect]
  PROVE  PointersOf(e, r) = PointersOf(d, r)
<1>1. PtrsAt(e, r) = PtrsAt(d, r)
  BY DEF PtrsAt
<1>2. PointersOf(e, r) = [k \in PtrIndex |-> IF k < NumDirect THEN r.ptrs[k]
                            ELSE IF k < r.blocks THEN PtrsAt(e, r)[k - NumDirect] ELSE NoBlock]
  BY PointersAre
<1>3. PointersOf(d, r) = [k \in PtrIndex |-> IF k < NumDirect THEN r.ptrs[k]
                            ELSE IF k < r.blocks THEN PtrsAt(d, r)[k - NumDirect] ELSE NoBlock]
  BY PointersAre
<1> QED
  BY <1>1, <1>2, <1>3

(* What the table on the disk has of an inode. *)
Raw(d, i) ==
  IF d[Layout!InodeLba(i)].kind = "inodes"
  THEN d[Layout!InodeLba(i)].inodes[i % InodesPerBlock] ELSE FreeInode

(* The inode a mount builds is the record on the disk with its pointers    *)
(* filled in (src/refs.c:471, 1359).                                       *)
LEMMA LoadedInodeIs ==
  ASSUME NEW d, IsDisk(d), Formatted(d), NEW i \in Inum
  PROVE  /\ LoadedInode(d, i) \in InodeType
         /\ LoadedInode(d, i) = [Raw(d, i) EXCEPT !.ptrs = PointersOf(d, Raw(d, i))]
         /\ LoadedInode(d, i).blocks = Raw(d, i).blocks
         /\ LoadedInode(d, i).indirect = Raw(d, i).indirect
         /\ LoadedInode(d, i).ptrs = PointersOf(d, Raw(d, i))
         /\ \A k \in 0 .. NumDirect - 1 : LoadedInode(d, i).ptrs[k] = Raw(d, i).ptrs[k]
<1> DEFINE blk == d[Layout!InodeLba(i)]
           r   == Raw(d, i)
<1>1. IsTable(blk, i \div InodesPerBlock)
  BY Groups, Addresses DEF IsDisk, BlockOK, Layout!InodeLba
<1>2. CASE blk.kind = "inodes"
  <2>1. r = blk.inodes[i % InodesPerBlock] /\ r \in SavedInode
    BY <1>1, <1>2, Groups DEF IsTable, Raw
  <2>2. LoadedInode(d, i) = [r EXCEPT !.ptrs = PointersOf(d, r)]
    BY <1>2, <2>1, LoadedFrom DEF LoadedInode
  <2> HIDE DEF r, blk
  <2>3. PointersOf(d, r) \in [PtrIndex -> Block \cup {NoBlock}]
    BY <2>1, PointersType DEF SavedInode
  <2>4. /\ LoadedInode(d, i) \in InodeType
        /\ LoadedInode(d, i).blocks = r.blocks
        /\ LoadedInode(d, i).indirect = r.indirect
        /\ LoadedInode(d, i).ptrs = PointersOf(d, r)
    BY <2>1, <2>2, <2>3 DEF SavedInode, InodeType
  <2>5. \A k \in 0 .. NumDirect - 1 : PointersOf(d, r)[k] = r.ptrs[k]
    BY PointersAre, PtrRange
  <2> QED
    BY <2>2, <2>4, <2>5 DEF r
<1>3. CASE blk.kind # "inodes"
  <2>1. r = FreeInode /\ LoadedInode(d, i) = FreeInode
    BY <1>3, LoadedFrom DEF LoadedInode, Raw
  <2>2. PointersOf(d, r) = [k \in PtrIndex |-> NoBlock]
    <3>1. r.blocks = 0 /\ r.ptrs = [k \in PtrIndex |-> NoBlock]
      BY <2>1, FreeInodeFields
    <3> HIDE DEF r
    <3>2. \A k \in PtrIndex : (IF k < NumDirect THEN r.ptrs[k]
                 ELSE IF k < r.blocks THEN PtrsAt(d, r)[k - NumDirect] ELSE NoBlock) = NoBlock
      BY <3>1, PtrRange
    <3>3. PointersOf(d, r) =
            [k \in PtrIndex |-> IF k < NumDirect THEN r.ptrs[k]
                                ELSE IF k < r.blocks THEN PtrsAt(d, r)[k - NumDirect] ELSE NoBlock]
      BY PointersAre
    <3> QED
      BY ONLY <3>2, <3>3
  <2>3. FreeInode.ptrs = [k \in PtrIndex |-> NoBlock] /\ FreeInode \in InodeType
    BY FreeInodeFields
  <2>4. [FreeInode EXCEPT !.ptrs = FreeInode.ptrs] = FreeInode
    BY <2>3 DEF InodeType
  <2>5. \A k \in 0 .. NumDirect - 1 : k \in PtrIndex
    BY PtrRange
  <2> QED
    BY <2>1, <2>2, <2>3, <2>4, <2>5
<1> QED
  BY <1>2, <1>3

(* The table a mount builds is a table of inodes. *)
LEMMA LoadedTableType ==
  ASSUME NEW d, IsDisk(d), Formatted(d)
  PROVE  /\ LoadedTable(d) \in [Inum -> InodeType]
         /\ \A i \in Inum : LoadedTable(d)[i] = LoadedInode(d, i)
BY LoadedInodeIs DEF LoadedTable

(* The bitmaps a mount reads hold only numbers they can count. *)
LEMMA LoadedBitsType ==
  ASSUME NEW d, IsDisk(d), Formatted(d)
  PROVE  /\ LoadedInodeBitmap(d) \subseteq 0 .. Scanned(NumInodes) - 1
         /\ LoadedDataBitmap(d) \subseteq Block
BY LoadedFrom, Addresses DEF IsDisk, BlockOK, IsBits, BitsAt

(* An inode is loaded alike from disks with the same block of inodes. *)
LEMMA LoadedInodeSame ==
  ASSUME NEW d, NEW e, IsDisk(d), Formatted(d), IsDisk(e), Formatted(e), NEW i \in Inum,
         e[Layout!InodeLba(i)] = d[Layout!InodeLba(i)],
         LoadedInode(d, i).blocks > NumDirect =>
           d[Layout!d_region_start + LoadedInode(d, i).indirect]
             = e[Layout!d_region_start + LoadedInode(d, i).indirect]
  PROVE  LoadedInode(e, i) = LoadedInode(d, i)
<1>1. Raw(e, i) = Raw(d, i)
  BY DEF Raw
<1> DEFINE r == Raw(d, i)
<1>2. LoadedInode(d, i).blocks = r.blocks /\ LoadedInode(d, i).indirect = r.indirect
  BY LoadedInodeIs
<1> HIDE DEF r
<1>3. PointersOf(e, r) = PointersOf(d, r)
  BY <1>2, PointersSame
<1> QED
  BY <1>1, <1>3, LoadedInodeIs DEF r

-----------------------------------------------------------------------------
(* What a write that lands changes of what is loaded. *)

Landed(d, w) == [d EXCEPT ![w.lba] = w.block]

(* A write that reaches the disk changes its own block and no other. *)
LEMMA LandedIs ==
  ASSUME NEW d, IsDisk(d), NEW a \in Address, NEW blk, BlockOK(a, blk)
  PROVE  /\ IsDisk(Landed(d, Write(a, blk)))
         /\ Landed(d, Write(a, blk))[a] = blk
         /\ \A x \in Address : x # a => Landed(d, Write(a, blk))[x] = d[x]
<1>1. Write(a, blk).lba = a /\ Write(a, blk).block = blk
  BY DEF Write
<1> DEFINE e == Landed(d, Write(a, blk))
<1>2. e = [d EXCEPT ![a] = blk]
  BY <1>1 DEF Landed
<1>3. d = [x \in Address |-> d[x]] /\ \A x \in Address : BlockOK(x, d[x])
  BY DEF IsDisk
<1>4. e = [x \in Address |-> IF x = a THEN blk ELSE d[x]]
  BY <1>2, <1>3
<1> HIDE DEF e
<1>5. e[a] = blk /\ \A x \in Address : x # a => e[x] = d[x]
  BY <1>4
<1>6. e = [x \in Address |-> e[x]]
  BY <1>4
<1>7. \A x \in Address : BlockOK(x, e[x])
  BY <1>3, <1>5
<1> QED
  BY <1>5, <1>6, <1>7 DEF e, IsDisk

(* A disk whose super block stays is still formatted. *)
LEMMA StaysFormatted ==
  ASSUME NEW d, NEW e, Formatted(d), IsDisk(e), e[Layout!SUPER_LBA] = d[Layout!SUPER_LBA]
  PROVE  Formatted(e)
<1>1. e # NoDisk
  <2>1. DOMAIN e = Address /\ Layout!SUPER_LBA \in Address
    BY Addresses DEF IsDisk
  <2>2. DOMAIN NoDisk = {}
    BY DEF NoDisk
  <2> QED
    BY <2>1, <2>2
<1> QED
  BY <1>1 DEF Formatted

(* The address of a data block counts from the start of the data region. *)
LEMMA DataAddress ==
  ASSUME NEW b
  PROVE  Layout!d_region_start + b = Layout!DataLba(b)
BY DEF Layout!DataLba

(* Entries, bytes and pointers of data blocks may stand at a data block's  *)
(* address.                                                                *)
LEMMA DataBlockOK ==
  ASSUME NEW b \in Block, NEW blk, IsData(blk), blk.kind = "ptrs" => blk.ptrs \in [Ptr -> Block \cup {NoBlock}]
  PROVE  BlockOK(Layout!DataLba(b), blk)
BY Addresses DEF BlockOK

(* A data block, *)
LEMMA DataLands ==
  ASSUME NEW d, IsDisk(d), Formatted(d), NEW b \in Block, NEW blk, IsData(blk),
         blk.kind = "ptrs" => blk.ptrs \in [Ptr -> Block \cup {NoBlock}],
         NEW e, e = Landed(d, DataWrite(b, blk))
  PROVE  /\ IsDisk(e) /\ Formatted(e)
         /\ LoadedInodeBitmap(e) = LoadedInodeBitmap(d)
         /\ LoadedDataBitmap(e) = LoadedDataBitmap(d)
         /\ LoadedData(e) = [LoadedData(d) EXCEPT ![b] = Seen(blk)]
         /\ \A r : HasPtrs(r) /\ (r.blocks > NumDirect => r.indirect # b) =>
              PointersOf(e, r) = PointersOf(d, r)
         /\ \A i \in Inum : /\ HasPtrs(LoadedInode(d, i))
                            /\ LoadedInode(d, i).blocks > NumDirect => LoadedInode(d, i).indirect # b
                            => LoadedInode(e, i) = LoadedInode(d, i)
<1> DEFINE a == Layout!DataLba(b)
<1>1. a \in Address /\ BlockOK(a, blk)
  BY Addresses, DataBlockOK
<1>2. e = Landed(d, Write(a, blk))
  BY DEF DataWrite
<1>3. IsDisk(e) /\ e[a] = blk /\ \A x \in Address : x # a => e[x] = d[x]
  BY <1>1, <1>2, LandedIs
<1>4. /\ e[Layout!SUPER_LBA] = d[Layout!SUPER_LBA]
      /\ e[Layout!i_bitmap_start] = d[Layout!i_bitmap_start]
      /\ e[Layout!d_bitmap_start] = d[Layout!d_bitmap_start]
      /\ \A i \in Inum : e[Layout!InodeLba(i)] = d[Layout!InodeLba(i)]
      /\ \A c \in Block : c # b => e[Layout!DataLba(c)] = d[Layout!DataLba(c)]
  BY <1>3, Addresses, TableAddresses
<1>6. Formatted(e)
  BY <1>3, <1>4, StaysFormatted
<1>7. LoadedInodeBitmap(e) = LoadedInodeBitmap(d) /\ LoadedDataBitmap(e) = LoadedDataBitmap(d)
  <2>1. /\ LoadedInodeBitmap(d) = BitsAt(d, Layout!i_bitmap_start)
        /\ LoadedDataBitmap(d) = BitsAt(d, Layout!d_bitmap_start)
    BY LoadedFrom
  <2>2. /\ LoadedInodeBitmap(e) = BitsAt(e, Layout!i_bitmap_start)
        /\ LoadedDataBitmap(e) = BitsAt(e, Layout!d_bitmap_start)
    BY <1>3, <1>6, LoadedFrom
  <2>3. /\ e[Layout!i_bitmap_start] = d[Layout!i_bitmap_start]
        /\ e[Layout!d_bitmap_start] = d[Layout!d_bitmap_start]
    BY <1>4
  <2> QED
    BY <2>1, <2>2, <2>3 DEF BitsAt
<1>8. LoadedData(e) = [LoadedData(d) EXCEPT ![b] = Seen(blk)]
  <2>1. LoadedData(e) = [c \in Block |-> Seen(e[Layout!DataLba(c)])]
    BY <1>3, <1>6, LoadedDataIs
  <2>2. LoadedData(d) = [c \in Block |-> Seen(d[Layout!DataLba(c)])]
    BY LoadedDataIs
  <2>3. \A c \in Block : Seen(e[Layout!DataLba(c)]) = IF c = b THEN Seen(blk) ELSE Seen(d[Layout!DataLba(c)])
    BY <1>3, <1>4
  <2> QED
    BY <2>1, <2>2, <2>3
<1>9. ASSUME NEW r, HasPtrs(r), r.blocks > NumDirect => r.indirect # b
      PROVE  r.blocks > NumDirect =>
               d[Layout!d_region_start + r.indirect] = e[Layout!d_region_start + r.indirect]
  BY <1>4, <1>9, DataAddress DEF HasPtrs
<1>10. \A r : HasPtrs(r) /\ (r.blocks > NumDirect => r.indirect # b) => PointersOf(e, r) = PointersOf(d, r)
  BY <1>3, <1>6, <1>9, PointersSame
<1>11. ASSUME NEW i \in Inum, HasPtrs(LoadedInode(d, i)),
              LoadedInode(d, i).blocks > NumDirect => LoadedInode(d, i).indirect # b
       PROVE  LoadedInode(e, i) = LoadedInode(d, i)
  BY <1>3, <1>4, <1>6, <1>9, <1>11, LoadedInodeSame
<1> QED
  BY <1>3, <1>6, <1>7, <1>8, <1>10, <1>11

(* A disk that differs outside the data blocks. *)
LEMMA OutsideData ==
  ASSUME NEW d, NEW e, IsDisk(d), Formatted(d), IsDisk(e),
         e[Layout!SUPER_LBA] = d[Layout!SUPER_LBA],
         \A c \in Block : e[Layout!DataLba(c)] = d[Layout!DataLba(c)]
  PROVE  /\ Formatted(e)
         /\ LoadedData(e) = LoadedData(d)
         /\ \A r : HasPtrs(r) => PointersOf(e, r) = PointersOf(d, r)
         /\ \A i \in Inum : HasPtrs(LoadedInode(d, i)) /\ e[Layout!InodeLba(i)] = d[Layout!InodeLba(i)]
                            => LoadedInode(e, i) = LoadedInode(d, i)
         /\ e[Layout!i_bitmap_start] = d[Layout!i_bitmap_start] => LoadedInodeBitmap(e) = LoadedInodeBitmap(d)
         /\ e[Layout!d_bitmap_start] = d[Layout!d_bitmap_start] => LoadedDataBitmap(e) = LoadedDataBitmap(d)
<1>2. Formatted(e)
  BY StaysFormatted
<1>3. LoadedData(e) = LoadedData(d)
  <2>1. LoadedData(e) = [c \in Block |-> Seen(e[Layout!DataLba(c)])]
    BY <1>2, LoadedDataIs
  <2>2. LoadedData(d) = [c \in Block |-> Seen(d[Layout!DataLba(c)])]
    BY LoadedDataIs
  <2> QED
    BY <2>1, <2>2
<1>4. ASSUME NEW r, HasPtrs(r)
      PROVE  r.blocks > NumDirect =>
               d[Layout!d_region_start + r.indirect] = e[Layout!d_region_start + r.indirect]
  BY <1>4, DataAddress DEF HasPtrs
<1>5. \A r : HasPtrs(r) => PointersOf(e, r) = PointersOf(d, r)
  BY <1>2, <1>4, PointersSame
<1>6. \A i \in Inum : HasPtrs(LoadedInode(d, i)) /\ e[Layout!InodeLba(i)] = d[Layout!InodeLba(i)]
                       => LoadedInode(e, i) = LoadedInode(d, i)
  BY <1>2, <1>4, LoadedInodeSame
<1>7. /\ e[Layout!i_bitmap_start] = d[Layout!i_bitmap_start] => LoadedInodeBitmap(e) = LoadedInodeBitmap(d)
      /\ e[Layout!d_bitmap_start] = d[Layout!d_bitmap_start] => LoadedDataBitmap(e) = LoadedDataBitmap(d)
  BY <1>2, LoadedFrom DEF BitsAt
<1> QED
  BY <1>2, <1>3, <1>5, <1>6, <1>7

(* the data bitmap, *)
LEMMA DataBitsLand ==
  ASSUME NEW d, IsDisk(d), Formatted(d), NEW bits \in SUBSET Block,
         NEW e, e = Landed(d, sync_data_bitmap(bits))
  PROVE  /\ IsDisk(e) /\ Formatted(e)
         /\ LoadedInodeBitmap(e) = LoadedInodeBitmap(d)
         /\ LoadedDataBitmap(e) = bits
         /\ LoadedData(e) = LoadedData(d)
         /\ \A r : HasPtrs(r) => PointersOf(e, r) = PointersOf(d, r)
         /\ \A i \in Inum : HasPtrs(LoadedInode(d, i)) => LoadedInode(e, i) = LoadedInode(d, i)
<1> DEFINE a == Layout!d_bitmap_start
           blk == BitsBlock(bits)
<1>1. blk.kind = "bits" /\ blk.bits = bits
  BY DEF BitsBlock
<1>2. a \in Address /\ BlockOK(a, blk)
  BY <1>1, Addresses DEF BlockOK, IsBits
<1>3. IsDisk(e) /\ e[a] = blk /\ \A x \in Address : x # a => e[x] = d[x]
  BY <1>2, LandedIs DEF sync_data_bitmap
<1>4. /\ e[Layout!SUPER_LBA] = d[Layout!SUPER_LBA]
      /\ e[Layout!i_bitmap_start] = d[Layout!i_bitmap_start]
      /\ \A i \in Inum : e[Layout!InodeLba(i)] = d[Layout!InodeLba(i)]
      /\ \A c \in Block : e[Layout!DataLba(c)] = d[Layout!DataLba(c)]
  BY <1>3, Addresses, TableAddresses
<1>5. Formatted(e)
  BY <1>3, <1>4, OutsideData
<1>6. LoadedDataBitmap(e) = bits
  BY <1>1, <1>3, <1>5, LoadedFrom DEF BitsAt
<1> QED
  BY <1>3, <1>4, <1>5, <1>6, OutsideData

(* the inode bitmap, *)
LEMMA InodeBitsLand ==
  ASSUME NEW d, IsDisk(d), Formatted(d), NEW bits, bits \subseteq 0 .. Scanned(NumInodes) - 1,
         NEW e, e = Landed(d, sync_inode_bitmap(bits))
  PROVE  /\ IsDisk(e) /\ Formatted(e)
         /\ LoadedInodeBitmap(e) = bits
         /\ LoadedDataBitmap(e) = LoadedDataBitmap(d)
         /\ LoadedData(e) = LoadedData(d)
         /\ \A r : HasPtrs(r) => PointersOf(e, r) = PointersOf(d, r)
         /\ \A i \in Inum : HasPtrs(LoadedInode(d, i)) => LoadedInode(e, i) = LoadedInode(d, i)
<1> DEFINE a == Layout!i_bitmap_start
           blk == BitsBlock(bits)
<1>1. blk.kind = "bits" /\ blk.bits = bits
  BY DEF BitsBlock
<1>2. a \in Address /\ BlockOK(a, blk)
  BY <1>1, Addresses DEF BlockOK, IsBits
<1>3. IsDisk(e) /\ e[a] = blk /\ \A x \in Address : x # a => e[x] = d[x]
  BY <1>2, LandedIs DEF sync_inode_bitmap
<1>4. /\ e[Layout!SUPER_LBA] = d[Layout!SUPER_LBA]
      /\ e[Layout!d_bitmap_start] = d[Layout!d_bitmap_start]
      /\ \A i \in Inum : e[Layout!InodeLba(i)] = d[Layout!InodeLba(i)]
      /\ \A c \in Block : e[Layout!DataLba(c)] = d[Layout!DataLba(c)]
  BY <1>3, Addresses, TableAddresses
<1>5. Formatted(e)
  BY <1>3, <1>4, OutsideData
<1>6. LoadedInodeBitmap(e) = bits
  BY <1>1, <1>3, <1>5, LoadedFrom DEF BitsAt
<1> QED
  BY <1>3, <1>4, <1>5, <1>6, OutsideData

(* and a block of inodes. *)
LEMMA OnDiskInodeIs ==
  ASSUME NEW r \in InodeType
  PROVE  /\ OnDiskInode(r) \in SavedInode
         /\ OnDiskInode(r).blocks = r.blocks
         /\ OnDiskInode(r).indirect = r.indirect
         /\ \A k \in 0 .. NumDirect - 1 : OnDiskInode(r).ptrs[k] = r.ptrs[k]
         /\ \A q : [OnDiskInode(r) EXCEPT !.ptrs = q] = [r EXCEPT !.ptrs = q]
BY PtrRange DEF OnDiskInode, InodeType, SavedInode

(* Saving a record keeps what its pointers are read from. *)
LEMMA PointersOfSaved ==
  ASSUME NEW e, IsDisk(e), Formatted(e), NEW r \in InodeType
  PROVE  PointersOf(e, OnDiskInode(r)) = PointersOf(e, r)
<1>1. PtrsAt(e, OnDiskInode(r)) = PtrsAt(e, r)
  BY OnDiskInodeIs DEF PtrsAt
<1>2. \A k \in PtrIndex :
        (IF k < NumDirect THEN OnDiskInode(r).ptrs[k]
         ELSE IF k < OnDiskInode(r).blocks THEN PtrsAt(e, OnDiskInode(r))[k - NumDirect] ELSE NoBlock)
        = (IF k < NumDirect THEN r.ptrs[k]
           ELSE IF k < r.blocks THEN PtrsAt(e, r)[k - NumDirect] ELSE NoBlock)
  <2> DEFINE s == OnDiskInode(r)
  <2>1. s.blocks = r.blocks /\ \A k \in 0 .. NumDirect - 1 : s.ptrs[k] = r.ptrs[k]
    BY OnDiskInodeIs
  <2>2. PtrsAt(e, s) = PtrsAt(e, r)
    BY <1>1
  <2> HIDE DEF s
  <2>3. ASSUME NEW k \in PtrIndex
        PROVE  (IF k < NumDirect THEN s.ptrs[k]
                ELSE IF k < s.blocks THEN PtrsAt(e, s)[k - NumDirect] ELSE NoBlock)
               = (IF k < NumDirect THEN r.ptrs[k]
                  ELSE IF k < r.blocks THEN PtrsAt(e, r)[k - NumDirect] ELSE NoBlock)
    <3>1. k < NumDirect => s.ptrs[k] = r.ptrs[k]
      BY <2>1, PtrRange
    <3> QED
      BY <2>1, <2>2, <3>1
  <2> QED
    BY <2>3 DEF s
<1>3. PointersOf(e, r) = [k \in PtrIndex |-> IF k < NumDirect THEN r.ptrs[k]
                           ELSE IF k < r.blocks THEN PtrsAt(e, r)[k - NumDirect] ELSE NoBlock]
  BY PointersAre
<1>4. PointersOf(e, OnDiskInode(r)) =
        [k \in PtrIndex |->
          IF k < NumDirect THEN OnDiskInode(r).ptrs[k]
          ELSE IF k < OnDiskInode(r).blocks THEN PtrsAt(e, OnDiskInode(r))[k - NumDirect] ELSE NoBlock]
  BY PointersAre
<1> QED
  BY <1>2, <1>3, <1>4

(* A block of inodes may stand at its address in the table, and holds the  *)
(* saved record of each.                                                   *)
LEMMA InodeBlockOK ==
  ASSUME NEW table \in [Inum -> InodeType], NEW nums \in [Inum -> Inum],
         \A i \in Inum : nums[i] \in {0, i},
         NEW i \in Inum
  PROVE  /\ BlockOK(Layout!InodeLba(i), InodeBlock(table, nums, i \div InodesPerBlock))
         /\ InodeBlock(table, nums, i \div InodesPerBlock).kind = "inodes"
         /\ \A j \in Inum : j \div InodesPerBlock = i \div InodesPerBlock =>
              InodeBlock(table, nums, i \div InodesPerBlock).inodes[j % InodesPerBlock] = OnDiskInode(table[j])
<1> DEFINE g == i \div InodesPerBlock
           blk == InodeBlock(table, nums, g)
<1>1. g \in 0 .. Layout!TableBlocks - 1
  BY Groups
<1> HIDE DEF g
<1>2. /\ blk.kind = "inodes"
      /\ blk.inodes = [j \in Shelf |-> OnDiskInode(table[g * InodesPerBlock + j])]
      /\ blk.nums = [j \in Shelf |-> nums[g * InodesPerBlock + j]]
  BY DEF InodeBlock
<1> HIDE DEF blk
<1>3. \A j \in Shelf : g * InodesPerBlock + j \in Inum
  BY <1>1, OnShelf
<1>4. IsTable(blk, g)
  <2>1. \A j \in Shelf : OnDiskInode(table[g * InodesPerBlock + j]) \in SavedInode
    BY <1>3, OnDiskInodeIs
  <2> QED
    BY <1>2, <1>3, <2>1 DEF IsTable
<1>5. BlockOK(Layout!i_table_start + g, blk)
  BY <1>1, <1>2, <1>4, Addresses DEF BlockOK
<1>6. ASSUME NEW j \in Inum, j \div InodesPerBlock = g
      PROVE  blk.inodes[j % InodesPerBlock] = OnDiskInode(table[j])
  <2>1. j % InodesPerBlock \in Shelf /\ g * InodesPerBlock + (j % InodesPerBlock) = j
    BY <1>6, Groups
  <2> QED
    BY <1>2, <2>1
<1> QED
  BY <1>2, <1>5, <1>6 DEF g, blk, Layout!InodeLba

Filled(d, r) == [r EXCEPT !.ptrs = PointersOf(d, r)]

(* A block of inodes that reaches the disk: the inodes in it become the    *)
(* given ones, with their pointers as the disk has them, and nothing else  *)
(* changes.                                                                *)
LEMMA InodesLand ==
  ASSUME NEW d, IsDisk(d), Formatted(d), NEW table \in [Inum -> InodeType], NEW nums \in [Inum -> Inum],
         \A i \in Inum : nums[i] \in {0, i}, NEW i \in Inum,
         NEW e, e = Landed(d, Write(Layout!InodeLba(i), InodeBlock(table, nums, i \div InodesPerBlock)))
  PROVE  /\ IsDisk(e) /\ Formatted(e)
         /\ LoadedInodeBitmap(e) = LoadedInodeBitmap(d)
         /\ LoadedDataBitmap(e) = LoadedDataBitmap(d)
         /\ LoadedData(e) = LoadedData(d)
         /\ \A r : HasPtrs(r) => PointersOf(e, r) = PointersOf(d, r)
         /\ \A j \in Inum : j \div InodesPerBlock # i \div InodesPerBlock /\ HasPtrs(LoadedInode(d, j)) =>
              LoadedInode(e, j) = LoadedInode(d, j)
         /\ \A j \in Inum : j \div InodesPerBlock = i \div InodesPerBlock /\ HasPtrs(table[j]) =>
              LoadedInode(e, j) = Filled(d, table[j])
<1> DEFINE a == Layout!InodeLba(i)
           blk == InodeBlock(table, nums, i \div InodesPerBlock)
<1>1. /\ BlockOK(a, blk) /\ blk.kind = "inodes"
      /\ \A j \in Inum : j \div InodesPerBlock = i \div InodesPerBlock =>
           blk.inodes[j % InodesPerBlock] = OnDiskInode(table[j])
  BY InodeBlockOK
<1> HIDE DEF blk
<1>2. a \in Address
  BY TableAddresses
<1>3. IsDisk(e) /\ e[a] = blk /\ \A x \in Address : x # a => e[x] = d[x]
  BY <1>1, <1>2, LandedIs DEF blk
<1>4. /\ e[Layout!SUPER_LBA] = d[Layout!SUPER_LBA]
      /\ e[Layout!d_bitmap_start] = d[Layout!d_bitmap_start]
      /\ e[Layout!i_bitmap_start] = d[Layout!i_bitmap_start]
      /\ \A c \in Block : e[Layout!DataLba(c)] = d[Layout!DataLba(c)]
  BY <1>3, Addresses, TableAddresses
<1>5. /\ Formatted(e)
      /\ \A r : HasPtrs(r) => PointersOf(e, r) = PointersOf(d, r)
  BY <1>3, <1>4, OutsideData
<1>6. ASSUME NEW j \in Inum, j \div InodesPerBlock # i \div InodesPerBlock, HasPtrs(LoadedInode(d, j))
      PROVE  LoadedInode(e, j) = LoadedInode(d, j)
  <2>1. Layout!InodeLba(j) \in Address /\ Layout!InodeLba(j) # a
    BY <1>6, TableAddresses
  <2> QED
    BY <1>3, <1>4, <1>6, <2>1, OutsideData
<1>7. ASSUME NEW j \in Inum, j \div InodesPerBlock = i \div InodesPerBlock, HasPtrs(table[j])
      PROVE  LoadedInode(e, j) = Filled(d, table[j])
  <2> DEFINE r == table[j]
  <2>1. Layout!InodeLba(j) = a
    BY <1>7, TableAddresses
  <2>2. Raw(e, j) = OnDiskInode(r)
    BY <1>1, <1>3, <1>7, <2>1 DEF Raw
  <2>3. LoadedInode(e, j) = [OnDiskInode(r) EXCEPT !.ptrs = PointersOf(e, OnDiskInode(r))]
    BY <1>3, <1>5, <2>2, LoadedInodeIs
  <2>4. r \in InodeType
    OBVIOUS
  <2> HIDE DEF r
  <2>5. PointersOf(e, OnDiskInode(r)) = PointersOf(e, r)
    BY <1>3, <1>5, <2>4, PointersOfSaved
  <2>6. PointersOf(e, r) = PointersOf(d, r)
    BY <1>5, <1>7 DEF r
  <2> QED
    BY <2>3, <2>4, <2>5, <2>6, OnDiskInodeIs DEF r, Filled
<1> QED
  BY <1>3, <1>4, <1>5, <1>6, <1>7, OutsideData

-----------------------------------------------------------------------------
(* A disk that shows a name space. *)

(* What is kept of a record besides its link count and permissions. *)
LEMMA DurableIs ==
  ASSUME NEW r \in InodeType, NEW s \in InodeType
  PROVE  Durable(r) = Durable(s) <=>
           /\ r.inUse = s.inUse
           /\ r.isDir = s.isDir
           /\ r.size = s.size
           /\ r.blocks = s.blocks
           /\ r.indirect = s.indirect
           /\ r.ptrs = s.ptrs
BY DEF Durable, InodeType

(* What Fine gives. *)
LEMMA FineIs ==
  ASSUME NEW r \in InodeType, Fine(r)
  PROVE  /\ HasPtrs(r)
         /\ \A k \in 0 .. r.blocks - 1 : r.ptrs[k] \in Block /\ r.ptrs[k] \in Held(r)
         /\ r.blocks > NumDirect => r.indirect \in Held(r)
         /\ r.isDir => r.blocks \in 1 .. NumDirect
         /\ r.blocks \in Nat
<1>1. \A k \in 0 .. r.blocks - 1 : r.ptrs[k] \in Held(r)
  BY DEF Held, BlocksAt
<1>2. r.blocks > NumDirect => r.indirect \in Held(r)
  BY DEF Held
<1>3. r.blocks \in Nat
  BY DEF InodeType
<1> QED
  BY <1>1, <1>2, <1>3 DEF Fine, HasPtrs, FitsSize

(* A record with the durable part of a fine one. *)
LEMMA FineSame ==
  ASSUME NEW r \in InodeType, NEW s \in InodeType, Fine(r), Durable(s) = Durable(r),
         ~ r.isDir => s.nLinks = 1
  PROVE  Fine(s) /\ s.isDir = r.isDir /\ Held(s) = Held(r) /\ s.blocks = r.blocks /\ s.ptrs = r.ptrs
<1>1. /\ s.inUse = r.inUse
      /\ s.isDir = r.isDir
      /\ s.size = r.size
      /\ s.blocks = r.blocks
      /\ s.indirect = r.indirect
      /\ s.ptrs = r.ptrs
  BY DurableIs
<1>2. Held(s) = Held(r)
  BY <1>1 DEF Held, BlocksAt
<1>3. FitsSize(s) /\ HoldsDistinct(s)
  BY <1>1 DEF Fine, FitsSize, HoldsDistinct
<1> QED
  BY <1>1, <1>2, <1>3 DEF Fine

(* The pointers of a record that a disk shows are on it. *)
LEMMA ShownPointers ==
  ASSUME NEW d, IsDisk(d), Formatted(d), NEW tab \in [Inum -> InodeType], NEW i \in Inum,
         Durable(LoadedInode(d, i)) = Durable(tab[i])
  PROVE  PointersOf(d, tab[i]) = tab[i].ptrs
<1> DEFINE r == tab[i]
           s == Raw(d, i)
           t == LoadedInode(d, i)
<1>1. t \in InodeType /\ t.blocks = s.blocks /\ t.indirect = s.indirect
      /\ t.ptrs = PointersOf(d, s) /\ \A k \in 0 .. NumDirect - 1 : t.ptrs[k] = s.ptrs[k]
  BY LoadedInodeIs
<1>2. r \in InodeType
  OBVIOUS
<1>3. t.blocks = r.blocks /\ t.indirect = r.indirect /\ t.ptrs = r.ptrs
  <2>1. Durable(t) = Durable(r)
    OBVIOUS
  <2> HIDE DEF t, r
  <2> QED
    BY <1>1, <1>2, <2>1, DurableIs
<1> HIDE DEF r, s, t
<1>4. PtrsAt(d, r) = PtrsAt(d, s)
  BY <1>1, <1>3 DEF PtrsAt
<1>5. ASSUME NEW k \in PtrIndex
      PROVE  (IF k < NumDirect THEN r.ptrs[k] ELSE IF k < r.blocks THEN PtrsAt(d, r)[k - NumDirect] ELSE NoBlock)
             = (IF k < NumDirect THEN s.ptrs[k] ELSE IF k < s.blocks THEN PtrsAt(d, s)[k - NumDirect] ELSE NoBlock)
  <2>1. k < NumDirect => r.ptrs[k] = s.ptrs[k]
    BY <1>1, <1>3, PtrRange
  <2> QED
    BY <1>1, <1>3, <1>4, <2>1
<1>6. PointersOf(d, r) = [k \in PtrIndex |-> IF k < NumDirect THEN r.ptrs[k]
                            ELSE IF k < r.blocks THEN PtrsAt(d, r)[k - NumDirect] ELSE NoBlock]
  BY PointersAre
<1>7. PointersOf(d, s) = [k \in PtrIndex |-> IF k < NumDirect THEN s.ptrs[k]
                            ELSE IF k < s.blocks THEN PtrsAt(d, s)[k - NumDirect] ELSE NoBlock]
  BY PointersAre
<1>8. PointersOf(d, r) = PointersOf(d, s)
  BY <1>5, <1>6, <1>7
<1> QED
  BY <1>1, <1>3, <1>8 DEF r

(* An inode the disk shows as memory has it has as many pointers as it has *)
(* blocks.                                                                 *)
LEMMA ShownHasPtrs ==
  ASSUME NEW d, IsDisk(d), Formatted(d), NEW tab \in [Inum -> InodeType], NEW i \in Inum,
         Durable(LoadedInode(d, i)) = Durable(tab[i]), Fine(tab[i])
  PROVE  /\ HasPtrs(LoadedInode(d, i))
         /\ LoadedInode(d, i).blocks = tab[i].blocks
         /\ LoadedInode(d, i).indirect = tab[i].indirect
<1> DEFINE r == tab[i]
           t == LoadedInode(d, i)
<1>1. t \in InodeType /\ r \in InodeType /\ Durable(t) = Durable(r) /\ Fine(r)
  BY LoadedInodeIs
<1> HIDE DEF t, r
<1>2. t.blocks = r.blocks /\ t.indirect = r.indirect
  BY <1>1, DurableIs
<1>3. HasPtrs(r)
  BY <1>1, FineIs
<1> QED
  BY <1>2, <1>3 DEF HasPtrs, t, r

(* A sound name space that a disk shows is the one on it. *)
LEMMA ShowsSound ==
  ASSUME NEW d, IsDisk(d), NEW tab \in [Inum -> InodeType], NEW dat, NEW L, NEW c,
         Shows(L, d, tab, dat, c), Sound(tab, dat), Live(tab, dat) \subseteq L, L \subseteq Inum
  PROVE  /\ DiskSound(d, c)
         /\ TreeOn(d) = TreeOf(tab, dat)
         /\ LiveOn(d) = Live(tab, dat)
<1> DEFINE tab2 == LoadedTable(d)
           dat2 == LoadedData(d)
           M == Live(tab, dat)
<1>1. Formatted(d) /\ Recs(L, d, tab) /\ Ents(L, d, tab, dat)
  BY DEF Shows
<1>2. \A i \in M : Fine(tab[i]) /\ i \in Inum /\ i \in L
  BY DEF Sound
<1>3. ASSUME NEW i \in M
      PROVE  Fine(tab2[i]) /\ tab2[i].isDir = tab[i].isDir /\ Held(tab2[i]) = Held(tab[i])
             /\ tab2[i].blocks = tab[i].blocks /\ tab2[i].ptrs = tab[i].ptrs
  <2>1. i \in Inum /\ i \in L /\ Fine(tab[i])
    BY <1>2
  <2>2. tab2[i] = LoadedInode(d, i) /\ LoadedInode(d, i) \in InodeType
    BY <1>1, <2>1, LoadedTableType, LoadedInodeIs
  <2>3. Durable(LoadedInode(d, i)) = Durable(tab[i]) /\ (~ tab[i].isDir => LoadedInode(d, i).nLinks = 1)
    BY <1>1, <2>1 DEF Recs
  <2>4. tab[i] \in InodeType
    BY <2>1
  <2> HIDE DEF tab2, M
  <2> DEFINE r == tab[i]
             t == LoadedInode(d, i)
  <2>5. r \in InodeType /\ t \in InodeType /\ Durable(t) = Durable(r) /\ (~ r.isDir => t.nLinks = 1) /\ Fine(r)
    BY <2>1, <2>2, <2>3, <2>4
  <2> HIDE DEF r, t
  <2>6. Fine(t) /\ t.isDir = r.isDir /\ Held(t) = Held(r) /\ t.blocks = r.blocks /\ t.ptrs = r.ptrs
    BY <2>5, FineSame
  <2> QED
    BY <2>2, <2>6 DEF r, t
<1>4. ASSUME NEW i \in LiveDirs(tab, dat)
      PROVE  /\ NamedIn(tab2[i], dat2) = NamedIn(tab[i], dat)
             /\ \A x \in NamedIn(tab[i], dat) : EntryIn(tab2[i], dat2, x) = EntryIn(tab[i], dat, x)
  <2>1. i \in M /\ i \in L /\ tab[i].isDir
    BY <1>2 DEF LiveDirs
  <2>2. tab2[i].blocks = tab[i].blocks /\ tab2[i].ptrs = tab[i].ptrs
    BY <1>3, <2>1
  <2>3. \A k \in 0 .. tab[i].blocks - 1 : dat2[tab[i].ptrs[k]] = dat[tab[i].ptrs[k]]
    BY <1>1, <2>1 DEF Ents
  <2> HIDE DEF tab2, dat2
  <2>4. Spots(tab2[i]) = Spots(tab[i])
    BY <2>2 DEF Spots
  <2>5. \A x \in Spots(tab[i]) : EntryIn(tab2[i], dat2, x) = EntryIn(tab[i], dat, x)
    BY <2>2, <2>3 DEF Spots, EntryIn
  <2>6. NamedIn(tab2[i], dat2) = NamedIn(tab[i], dat)
    BY <2>4, <2>5 DEF NamedIn
  <2> QED
    BY <2>5, <2>6 DEF NamedIn
<1>5. \A i, j \in M : i # j => Held(tab2[i]) \cap Held(tab2[j]) = {}
  <2>1. \A i, j \in M : i # j => Held(tab[i]) \cap Held(tab[j]) = {}
    BY DEF Sound
  <2> HIDE DEF tab2, M
  <2> QED
    BY <1>3, <2>1
<1> HIDE DEF tab2, dat2
<1>6. /\ Sound(tab2, dat2)
      /\ Live(tab2, dat2) = Live(tab, dat)
      /\ TreeOf(tab2, dat2) = TreeOf(tab, dat)
  <2>1. \A i \in Live(tab, dat) : Fine(tab2[i]) /\ tab2[i].isDir = tab[i].isDir
    BY <1>3
  <2>2. \A i, j \in Live(tab, dat) : i # j => Held(tab2[i]) \cap Held(tab2[j]) = {}
    BY <1>5
  <2>3. \A i \in LiveDirs(tab, dat) :
           /\ NamedIn(tab2[i], dat2) = NamedIn(tab[i], dat)
           /\ \A x \in NamedIn(tab[i], dat) : EntryIn(tab2[i], dat2, x) = EntryIn(tab[i], dat, x)
    BY <1>4
  <2> HIDE DEF M
  <2> QED
    BY <2>1, <2>2, <2>3, SoundSame
<1>7. LiveOn(d) = M /\ TreeOn(d) = TreeOf(tab, dat)
  BY <1>6 DEF LiveOn, TreeOn, tab2, dat2
<1>8. LiveOn(d) \subseteq LoadedInodeBitmap(d)
  BY <1>7 DEF Shows
<1>9. Marked(LiveOn(d) \ {c}, LoadedDataBitmap(d), LoadedTable(d))
  <2>1. \A i \in L \ {c} : Held(tab[i]) \subseteq LoadedDataBitmap(d)
    BY DEF Shows, Marked
  <2>2. \A i \in M \ {c} : Held(tab2[i]) \subseteq LoadedDataBitmap(d)
    BY <1>2, <1>3, <2>1
  <2> QED
    BY <1>7, <2>2 DEF Marked, tab2
<1> QED
  BY <1>6, <1>7, <1>8, <1>9 DEF DiskSound, tab2, dat2

(* The records of the inodes in L are on the disk e what they are on d. *)
SameRecords(L, d, e) == \A i \in L : LoadedInode(e, i) = LoadedInode(d, i)

Moved(L, d, e, tab, dat, c) == IsDisk(e) /\ Shows(L, e, tab, dat, c) /\ SameRecords(L, d, e)

(* The records and the blocks of what can be reached. *)
FineTable(L, tab) ==
  /\ L \subseteq Inum
  /\ tab \in [Inum -> InodeType]
  /\ \A i \in L : Fine(tab[i])

(* What a table of fine inodes gives of each live one: its pointers, and   *)
(* the blocks it holds.                                                    *)
LEMMA FineTableIs ==
  ASSUME NEW L, NEW tab, FineTable(L, tab), NEW i \in L
  PROVE  /\ i \in Inum /\ tab[i] \in InodeType /\ Fine(tab[i])
         /\ HasPtrs(tab[i])
         /\ \A k \in 0 .. tab[i].blocks - 1 : tab[i].ptrs[k] \in Block /\ tab[i].ptrs[k] \in Held(tab[i])
         /\ tab[i].blocks > NumDirect => tab[i].indirect \in Held(tab[i])
         /\ tab[i].isDir => tab[i].blocks \in 1 .. NumDirect
         /\ tab[i].blocks \in Nat
<1>1. i \in Inum /\ tab[i] \in InodeType /\ Fine(tab[i])
  BY DEF FineTable
<1> QED
  BY <1>1, FineIs

(* A data block that is no indirect block is written. *)
LEMMA ShowsData ==
  ASSUME NEW d, IsDisk(d), NEW L, NEW tab, FineTable(L, tab), NEW dat, NEW c, Shows(L, d, tab, dat, c),
         NEW b \in Block, NEW blk, IsData(blk),
         blk.kind = "ptrs" => blk.ptrs \in [Ptr -> Block \cup {NoBlock}],
         \A i \in L : tab[i].blocks > NumDirect => tab[i].indirect # b,
         NEW dat2,
         \A i \in L : tab[i].isDir => \A k \in 0 .. tab[i].blocks - 1 :
           dat2[tab[i].ptrs[k]] = IF tab[i].ptrs[k] = b THEN Seen(blk) ELSE dat[tab[i].ptrs[k]],
         NEW e, e = Landed(d, DataWrite(b, blk))
  PROVE  Moved(L, d, e, tab, dat2, c)
<1>1. Formatted(d) /\ Recs(L, d, tab) /\ Ents(L, d, tab, dat)
      /\ L \subseteq LoadedInodeBitmap(d) /\ Marked(L \ {c}, LoadedDataBitmap(d), tab)
  BY DEF Shows
<1>2. /\ IsDisk(e) /\ Formatted(e)
      /\ LoadedInodeBitmap(e) = LoadedInodeBitmap(d)
      /\ LoadedDataBitmap(e) = LoadedDataBitmap(d)
      /\ LoadedData(e) = [LoadedData(d) EXCEPT ![b] = Seen(blk)]
      /\ \A i \in Inum : /\ HasPtrs(LoadedInode(d, i))
                         /\ LoadedInode(d, i).blocks > NumDirect => LoadedInode(d, i).indirect # b
                         => LoadedInode(e, i) = LoadedInode(d, i)
  BY <1>1, DataLands
<1>3. ASSUME NEW i \in L PROVE LoadedInode(e, i) = LoadedInode(d, i)
  <2>1. i \in Inum /\ Fine(tab[i]) /\ Durable(LoadedInode(d, i)) = Durable(tab[i])
    BY <1>1, FineTableIs DEF Recs
  <2>2. /\ HasPtrs(LoadedInode(d, i))
        /\ LoadedInode(d, i).blocks = tab[i].blocks
        /\ LoadedInode(d, i).indirect = tab[i].indirect
    BY <1>1, <2>1, ShownHasPtrs DEF FineTable
  <2> QED
    BY <1>2, <2>1, <2>2
<1>4. Recs(L, e, tab)
  BY <1>1, <1>3 DEF Recs
<1>5. Ents(L, e, tab, dat2)
  <2> SUFFICES ASSUME NEW i \in L, tab[i].isDir, NEW k \in 0 .. tab[i].blocks - 1
               PROVE  LoadedData(e)[tab[i].ptrs[k]] = dat2[tab[i].ptrs[k]]
    BY DEF Ents
  <2>1. LoadedData(d)[tab[i].ptrs[k]] = dat[tab[i].ptrs[k]] /\ tab[i].ptrs[k] \in Block
    BY <1>1, FineTableIs DEF Ents
  <2>2. DOMAIN LoadedData(d) = Block
    BY <1>1, LoadedDataIs
  <2> QED
    BY <1>2, <2>1, <2>2
<1> QED
  BY <1>1, <1>2, <1>3, <1>4, <1>5 DEF Shows, SameRecords, Moved

(* The data bitmap is written. *)
LEMMA ShowsDataBits ==
  ASSUME NEW d, IsDisk(d), NEW L, NEW tab, FineTable(L, tab), NEW dat, NEW c, Shows(L, d, tab, dat, c),
         NEW bits \in SUBSET Block, NEW c2, Marked(L \ {c2}, bits, tab),
         NEW e, e = Landed(d, sync_data_bitmap(bits))
  PROVE  Moved(L, d, e, tab, dat, c2)
<1>1. Formatted(d) /\ Recs(L, d, tab) /\ Ents(L, d, tab, dat)
      /\ L \subseteq LoadedInodeBitmap(d)
  BY DEF Shows
<1>2. /\ IsDisk(e) /\ Formatted(e)
      /\ LoadedInodeBitmap(e) = LoadedInodeBitmap(d)
      /\ LoadedDataBitmap(e) = bits
      /\ LoadedData(e) = LoadedData(d)
      /\ \A i \in Inum : HasPtrs(LoadedInode(d, i)) => LoadedInode(e, i) = LoadedInode(d, i)
  BY <1>1, DataBitsLand
<1>3. ASSUME NEW i \in L PROVE LoadedInode(e, i) = LoadedInode(d, i)
  <2>1. i \in Inum /\ Fine(tab[i]) /\ Durable(LoadedInode(d, i)) = Durable(tab[i])
    BY <1>1, FineTableIs DEF Recs
  <2>2. HasPtrs(LoadedInode(d, i))
    BY <1>1, <2>1, ShownHasPtrs DEF FineTable
  <2> QED
    BY <1>2, <2>1, <2>2
<1>4. Recs(L, e, tab)
  BY <1>1, <1>3 DEF Recs
<1>5. Ents(L, e, tab, dat)
  BY <1>1, <1>2 DEF Ents
<1> QED
  BY <1>1, <1>2, <1>3, <1>4, <1>5 DEF Shows, SameRecords, Moved

(* The inode bitmap is written. *)
LEMMA ShowsInodeBits ==
  ASSUME NEW d, IsDisk(d), NEW L, NEW tab, FineTable(L, tab), NEW dat, NEW c,
         Formatted(d), Recs(L, d, tab), Ents(L, d, tab, dat), Marked(L \ {c}, LoadedDataBitmap(d), tab),
         NEW bits, bits \subseteq 0 .. Scanned(NumInodes) - 1, L \subseteq bits,
         NEW e, e = Landed(d, sync_inode_bitmap(bits))
  PROVE  Moved(L, d, e, tab, dat, c)
<1>2. /\ IsDisk(e) /\ Formatted(e)
      /\ LoadedInodeBitmap(e) = bits
      /\ LoadedDataBitmap(e) = LoadedDataBitmap(d)
      /\ LoadedData(e) = LoadedData(d)
      /\ \A i \in Inum : HasPtrs(LoadedInode(d, i)) => LoadedInode(e, i) = LoadedInode(d, i)
  BY InodeBitsLand
<1>3. ASSUME NEW i \in L PROVE LoadedInode(e, i) = LoadedInode(d, i)
  <2>1. i \in Inum /\ Fine(tab[i]) /\ Durable(LoadedInode(d, i)) = Durable(tab[i])
    BY FineTableIs DEF Recs
  <2>2. HasPtrs(LoadedInode(d, i))
    BY <2>1, ShownHasPtrs DEF FineTable
  <2> QED
    BY <1>2, <2>1, <2>2
<1>4. Recs(L, e, tab)
  BY <1>3 DEF Recs
<1>5. Ents(L, e, tab, dat)
  BY <1>2 DEF Ents
<1> QED
  BY <1>2, <1>3, <1>4, <1>5 DEF Shows, SameRecords, Moved

(* The inodes whose records are in the block of i. *)
Near(i) == {j \in Inum : j \div InodesPerBlock = i \div InodesPerBlock}

(* The numbers of the inodes in memory. *)
AreNumbers(nums) == nums \in [Inum -> Inum] /\ \A i \in Inum : nums[i] \in {0, i}

(* The block of inodes of i has reached the disk. *)
MovedInodes(L, d, e, tab, table, dat, i) ==
  /\ IsDisk(e) /\ Formatted(e)
  /\ Recs(L, e, tab)
  /\ Ents(L, e, tab, dat)
  /\ LoadedInodeBitmap(e) = LoadedInodeBitmap(d)
  /\ LoadedDataBitmap(e) = LoadedDataBitmap(d)
  /\ \A j \in L \cap Near(i) : LoadedInode(e, j) = table[j]
  /\ \A j \in L \ Near(i) : LoadedInode(e, j) = LoadedInode(d, j)

(* A block of inodes is written: records and entries on the disk are then  *)
(* those of a table tab2.                                                  *)
LEMMA ShowsInodes ==
  ASSUME NEW d, IsDisk(d), Formatted(d), NEW tab \in [Inum -> InodeType], NEW dat,
         NEW table \in [Inum -> InodeType], NEW nums, AreNumbers(nums), NEW i \in Inum,
         NEW L, FineTable(L, tab),
         \A j \in L \cap Near(i) : /\ Durable(table[j]) = Durable(tab[j])
                                   /\ ~ tab[j].isDir => table[j].nLinks = 1
                                   /\ PointersOf(d, tab[j]) = tab[j].ptrs,
         Recs(L \ Near(i), d, tab),
         Ents(L, d, tab, dat),
         NEW e, e = Landed(d, Write(Layout!InodeLba(i), InodeBlock(table, nums, i \div InodesPerBlock)))
  PROVE  MovedInodes(L, d, e, tab, table, dat, i)
<1>0. nums \in [Inum -> Inum] /\ \A j \in Inum : nums[j] \in {0, j}
  BY DEF AreNumbers
<1>1. /\ IsDisk(e) /\ Formatted(e)
      /\ LoadedInodeBitmap(e) = LoadedInodeBitmap(d)
      /\ LoadedDataBitmap(e) = LoadedDataBitmap(d)
      /\ LoadedData(e) = LoadedData(d)
      /\ \A j \in Inum : j \div InodesPerBlock # i \div InodesPerBlock /\ HasPtrs(LoadedInode(d, j)) =>
           LoadedInode(e, j) = LoadedInode(d, j)
      /\ \A j \in Inum : j \div InodesPerBlock = i \div InodesPerBlock /\ HasPtrs(table[j]) =>
           LoadedInode(e, j) = Filled(d, table[j])
  <2>1. IsDisk(e) /\ Formatted(e)
    BY <1>0, InodesLand
  <2>2. LoadedInodeBitmap(e) = LoadedInodeBitmap(d) /\ LoadedDataBitmap(e) = LoadedDataBitmap(d)
    BY <1>0, InodesLand
  <2>3. LoadedData(e) = LoadedData(d)
    BY <1>0, InodesLand
  <2>4. \A j \in Inum : j \div InodesPerBlock # i \div InodesPerBlock /\ HasPtrs(LoadedInode(d, j)) =>
           LoadedInode(e, j) = LoadedInode(d, j)
    BY <1>0, InodesLand
  <2>5. \A j \in Inum : j \div InodesPerBlock = i \div InodesPerBlock /\ HasPtrs(table[j]) =>
           LoadedInode(e, j) = Filled(d, table[j])
    BY <1>0, InodesLand
  <2> QED
    BY <2>1, <2>2, <2>3, <2>4, <2>5
<1>2. ASSUME NEW j \in L \ Near(i) PROVE LoadedInode(e, j) = LoadedInode(d, j)
  <2>1. j \in Inum /\ Fine(tab[j]) /\ Durable(LoadedInode(d, j)) = Durable(tab[j])
    BY FineTableIs DEF Recs
  <2>2. HasPtrs(LoadedInode(d, j))
    BY <2>1, ShownHasPtrs
  <2> QED
    BY <1>1, <2>1, <2>2 DEF Near
<1>3. ASSUME NEW j \in L \cap Near(i) PROVE LoadedInode(e, j) = table[j]
  <2> DEFINE r == tab[j]
             t == table[j]
  <2>1. j \in Inum /\ j \div InodesPerBlock = i \div InodesPerBlock /\ Fine(r) /\ HasPtrs(r)
        /\ r \in InodeType /\ t \in InodeType /\ Durable(t) = Durable(r) /\ PointersOf(d, r) = r.ptrs
    BY FineTableIs DEF Near
  <2> HIDE DEF r, t
  <2>2. t.blocks = r.blocks /\ t.indirect = r.indirect /\ t.ptrs = r.ptrs
    BY <2>1, DurableIs
  <2>3. HasPtrs(t)
    BY <2>1, <2>2 DEF HasPtrs
  <2>4. PointersOf(d, t) = PointersOf(d, r)
    BY <2>2 DEF PointersOf
  <2>5. LoadedInode(e, j) = [t EXCEPT !.ptrs = PointersOf(d, t)]
    BY <1>1, <2>1, <2>3 DEF t, Filled
  <2>6. LoadedInode(e, j) = [t EXCEPT !.ptrs = t.ptrs]
    BY <2>1, <2>2, <2>4, <2>5
  <2>7. [t EXCEPT !.ptrs = t.ptrs] = t
    BY <2>1 DEF InodeType
  <2> QED
    BY <2>6, <2>7 DEF t
<1>4. Recs(L, e, tab)
  <2> SUFFICES ASSUME NEW j \in L
               PROVE  /\ Durable(LoadedInode(e, j)) = Durable(tab[j])
                      /\ ~ tab[j].isDir => LoadedInode(e, j).nLinks = 1
    BY DEF Recs
  <2>1. CASE j \in Near(i)
    BY <1>3, <2>1
  <2>2. CASE j \notin Near(i)
    BY <1>2, <2>2 DEF Recs
  <2> QED
    BY <2>1, <2>2
<1>5. Ents(L, e, tab, dat)
  BY <1>1 DEF Ents
<1> QED
  BY <1>1, <1>2, <1>3, <1>4, <1>5 DEF MovedInodes

(* A pointer beyond the direct ones is read from the indirect block. *)
LEMMA PointerBehind ==
  ASSUME NEW d, IsDisk(d), Formatted(d), NEW r, NEW k \in PtrIndex, ~ (k < NumDirect), k < r.blocks
  PROVE  PtrsAt(d, r)[k - NumDirect] = PointersOf(d, r)[k]
BY PointersAre

(* Two disks with the same indirect block give a record the same pointers. *)
LEMMA PointersAlike ==
  ASSUME NEW d, NEW e, IsDisk(d), Formatted(d), IsDisk(e), Formatted(e), NEW r,
         \A k \in PtrIndex : ~ (k < NumDirect) /\ k < r.blocks =>
           PtrsAt(e, r)[k - NumDirect] = PtrsAt(d, r)[k - NumDirect]
  PROVE  PointersOf(e, r) = PointersOf(d, r)
<1>1. PointersOf(e, r) = [k \in PtrIndex |-> IF k < NumDirect THEN r.ptrs[k]
                            ELSE IF k < r.blocks THEN PtrsAt(e, r)[k - NumDirect] ELSE NoBlock]
  BY PointersAre
<1>2. PointersOf(d, r) = [k \in PtrIndex |-> IF k < NumDirect THEN r.ptrs[k]
                            ELSE IF k < r.blocks THEN PtrsAt(d, r)[k - NumDirect] ELSE NoBlock]
  BY PointersAre
<1> QED
  BY <1>1, <1>2

(* The indirect block of a file that gets longer is written again. *)
LEMMA ShowsIndirect ==
  ASSUME NEW d, IsDisk(d), NEW L, NEW tab, FineTable(L, tab), NEW dat, NEW c, Shows(L, d, tab, dat, c),
         \A j, l \in L : j # l => Held(tab[j]) \cap Held(tab[l]) = {},
         NEW i \in L, ~ tab[i].isDir, tab[i].blocks > NumDirect,
         NEW new \in InodeType, new.indirect = tab[i].indirect,
         \A k \in 0 .. tab[i].blocks - 1 : new.ptrs[k] = tab[i].ptrs[k],
         NEW k \in Nat, tab[i].blocks <= k,
         \A l \in Ptr : IndirectBlock(new, k).ptrs[l] \in Block \cup {NoBlock},
         NEW e, e = Landed(d, DataWrite(new.indirect, IndirectBlock(new, k)))
  PROVE  Moved(L, d, e, tab, dat, c)
<1> DEFINE b   == new.indirect
           blk == IndirectBlock(new, k)
           r   == tab[i]
<1>1. Formatted(d) /\ Recs(L, d, tab) /\ Ents(L, d, tab, dat)
      /\ L \subseteq LoadedInodeBitmap(d) /\ Marked(L \ {c}, LoadedDataBitmap(d), tab)
  BY DEF Shows
<1>2. i \in Inum /\ r \in InodeType /\ Fine(r) /\ HasPtrs(r) /\ b \in Held(r) /\ b \in Block
      /\ r.blocks \in Nat
  BY FineTableIs DEF HasPtrs
<1>3. blk.kind = "ptrs" /\ IsData(blk)
      /\ blk.ptrs = [l \in Ptr |-> IF l <= k - NumDirect THEN new.ptrs[NumDirect + l] ELSE NoBlock]
  BY DEF IndirectBlock, IsData
<1>4. blk.ptrs \in [Ptr -> Block \cup {NoBlock}]
  BY <1>3
<1>5. b = tab[i].indirect
  OBVIOUS
<1> HIDE DEF b, blk
<1>6. /\ IsDisk(e) /\ Formatted(e)
      /\ LoadedInodeBitmap(e) = LoadedInodeBitmap(d)
      /\ LoadedDataBitmap(e) = LoadedDataBitmap(d)
      /\ LoadedData(e) = [LoadedData(d) EXCEPT ![b] = Seen(blk)]
      /\ \A j \in Inum : /\ HasPtrs(LoadedInode(d, j))
                         /\ LoadedInode(d, j).blocks > NumDirect => LoadedInode(d, j).indirect # b
                         => LoadedInode(e, j) = LoadedInode(d, j)
  <2>1. e = Landed(d, DataWrite(b, blk))
    BY DEF b, blk
  <2> QED
    BY <1>1, <1>2, <1>3, <1>4, <2>1, DataLands
<1>7. ASSUME NEW j \in L, j # i PROVE LoadedInode(e, j) = LoadedInode(d, j)
  <2>1. j \in Inum /\ Fine(tab[j]) /\ Durable(LoadedInode(d, j)) = Durable(tab[j])
    BY <1>1, FineTableIs DEF Recs
  <2>2. /\ HasPtrs(LoadedInode(d, j))
        /\ LoadedInode(d, j).blocks = tab[j].blocks
        /\ LoadedInode(d, j).indirect = tab[j].indirect
    BY <1>1, <2>1, ShownHasPtrs DEF FineTable
  <2>3. tab[j].blocks > NumDirect => tab[j].indirect # b
    <3>1. tab[j].blocks > NumDirect => tab[j].indirect \in Held(tab[j])
      BY FineTableIs
    <3>2. Held(tab[j]) \cap Held(tab[i]) = {}
      BY <1>7
    <3> QED
      BY <1>2, <3>1, <3>2
  <2> QED
    BY <1>6, <2>1, <2>2, <2>3
<1>8. LoadedInode(e, i) = LoadedInode(d, i)
  <2> DEFINE s == Raw(d, i)
             t == LoadedInode(d, i)
  <2>1. t \in InodeType /\ t = [s EXCEPT !.ptrs = PointersOf(d, s)] /\ t.blocks = s.blocks /\ t.indirect = s.indirect
        /\ t.ptrs = PointersOf(d, s) /\ \A l \in 0 .. NumDirect - 1 : t.ptrs[l] = s.ptrs[l]
    BY <1>1, <1>2, LoadedInodeIs
  <2>2. Raw(e, i) = s
    <3>1. d[Layout!InodeLba(i)] = e[Layout!InodeLba(i)]
      <4>1. BlockOK(Layout!DataLba(b), blk)
        BY <1>2, <1>3, <1>4, DataBlockOK
      <4>2. Layout!DataLba(b) \in Address
        BY <1>2, Addresses
      <4>3. \A x \in Address : x # Layout!DataLba(b) => e[x] = d[x]
        BY <4>1, <4>2, LandedIs DEF b, blk, DataWrite
      <4> QED
        BY <1>2, <4>3, TableAddresses
    <3> QED
      BY <3>1 DEF Raw
  <2>3. LoadedInode(e, i) = [s EXCEPT !.ptrs = PointersOf(e, s)]
    BY <1>2, <1>6, <2>2, LoadedInodeIs
  <2>4. t.blocks = r.blocks /\ t.indirect = r.indirect /\ t.ptrs = r.ptrs
    <3>1. Durable(t) = Durable(r)
      BY <1>1 DEF Recs
    <3> HIDE DEF t, r
    <3> QED
      BY <1>2, <2>1, <3>1, DurableIs
  <2>5. e[Layout!DataLba(b)] = blk
    <3>1. BlockOK(Layout!DataLba(b), blk)
      BY <1>2, <1>3, <1>4, DataBlockOK
    <3>2. Layout!DataLba(b) \in Address
      BY <1>2, Addresses
    <3> QED
      BY <3>1, <3>2, LandedIs DEF b, blk, DataWrite
  <2>6. s.blocks > NumDirect /\ s.indirect = b
    BY <2>1, <2>4, <1>5
  <2> HIDE DEF s, t
  <2>7. PtrsAt(e, s) = blk.ptrs
    BY <1>3, <2>5, <2>6, DataAddress DEF PtrsAt
  <2>8. PointersOf(e, s) = PointersOf(d, s)
    <3>1. \A m \in 0 .. r.blocks - 1 : new.ptrs[m] = r.ptrs[m]
      OBVIOUS
    <3>2. r.blocks = s.blocks /\ r.ptrs = PointersOf(d, s) /\ r.blocks <= k
      BY <2>1, <2>4
    <3> HIDE DEF r
    <3>5. ASSUME NEW m \in PtrIndex, ~ (m < NumDirect), m < s.blocks
          PROVE  PtrsAt(e, s)[m - NumDirect] = r.ptrs[m]
      <4>1. m - NumDirect \in Ptr /\ m \in Nat /\ NumDirect \in Nat /\ m <= k /\ m \in 0 .. r.blocks - 1
        BY <1>2, <3>2, <3>5, PtrRange
      <4>2. m - NumDirect <= k - NumDirect /\ NumDirect + (m - NumDirect) = m
        BY <4>1
      <4>3. blk.ptrs[m - NumDirect] = new.ptrs[m]
        BY <1>3, <4>1, <4>2
      <4> QED
        BY <2>7, <3>1, <4>1, <4>3
    <3>6. ASSUME NEW m \in PtrIndex, ~ (m < NumDirect), m < s.blocks
          PROVE  PtrsAt(d, s)[m - NumDirect] = r.ptrs[m]
      BY <1>1, <3>2, <3>6, PointerBehind
    <3> QED
      BY <1>1, <1>6, <3>5, <3>6, PointersAlike
  <2> QED
    BY <2>1, <2>3, <2>8 DEF t
<1>9. Recs(L, e, tab)
  BY <1>1, <1>7, <1>8 DEF Recs
<1>10. Ents(L, e, tab, dat)
  <2> SUFFICES ASSUME NEW j \in L, tab[j].isDir, NEW m \in 0 .. tab[j].blocks - 1
               PROVE  LoadedData(e)[tab[j].ptrs[m]] = dat[tab[j].ptrs[m]]
    BY DEF Ents
  <2>1. LoadedData(d)[tab[j].ptrs[m]] = dat[tab[j].ptrs[m]] /\ tab[j].ptrs[m] \in Held(tab[j])
    BY <1>1, FineTableIs DEF Ents
  <2>2. DOMAIN LoadedData(d) = Block
    BY <1>1, LoadedDataIs
  <2>3. j # i
    OBVIOUS
  <2>4. tab[j].ptrs[m] # b
    BY <1>2, <2>1, <2>3
  <2> QED
    BY <1>6, <2>1, <2>2, <2>4
<1> QED
  BY <1>1, <1>6, <1>7, <1>8, <1>9, <1>10 DEF Shows, SameRecords, Moved

-----------------------------------------------------------------------------
(* Sequences of writes. *)

(* A bounded set of numbers that is not empty has a greatest one. *)
LEMMA GreatestExists ==
  ASSUME NEW k \in Nat, NEW S \in SUBSET (1 .. k), S # {}
  PROVE  \E m \in S : \A l \in S : l <= m
<1> DEFINE T == {k - l : l \in S}
<1>1. T \in SUBSET Nat /\ T # {}
  <2>1. \A l \in S : k - l \in Nat
    OBVIOUS
  <2> QED
    BY <2>1
<1>2. PICK t \in T : \A u \in T : t <= u
  BY <1>1, LeastExists
<1>3. PICK m \in S : t = k - m
  BY <1>2
<1>4. \A l \in S : k - m <= k - l
  BY <1>2, <1>3
<1> QED
  BY <1>4

NoneFor(w, k, a)    == \A j \in 1 .. k : w[j].lba # a
LastFor(w, k, a, m) == m \in 1 .. k /\ w[m].lba = a /\ \A l \in 1 .. k : m < l => w[l].lba # a

(* Of the first writes of a list, one is the last for an address or none   *)
(* is for it.                                                              *)
LEMMA LastWrite ==
  ASSUME NEW w, NEW k \in Nat, NEW a
  PROVE  NoneFor(w, k, a) \/ \E m : LastFor(w, k, a, m)
<1> DEFINE at == {j \in 1 .. k : w[j].lba = a}
<1>1. CASE at = {}
  BY <1>1 DEF NoneFor
<1>2. CASE at # {}
  <2>1. PICK m \in at : \A l \in at : l <= m
    BY <1>2, GreatestExists
  <2>2. LastFor(w, k, a, m)
    BY <2>1 DEF LastFor
  <2> QED
    BY <2>2
<1> QED
  BY <1>1, <1>2

(* A block after the first k writes: as the last of them that was for it   *)
(* left it, or as it was.                                                  *)
LEMMA DiskAfterAt ==
  ASSUME NEW d, NEW w, NEW k \in Nat, NEW a \in Address
  PROVE  /\ NoneFor(w, k, a) => DiskAfter(d, w, k)[a] = d[a]
         /\ \A m : LastFor(w, k, a, m) => DiskAfter(d, w, k)[a] = w[m].block
<1> DEFINE at == {j \in 1 .. k : w[j].lba = a}
<1>1. DiskAfter(d, w, k)[a] = IF at = {} THEN d[a] ELSE w[CHOOSE j \in at : \A l \in at : l <= j].block
  BY DEF DiskAfter
<1>2. NoneFor(w, k, a) => DiskAfter(d, w, k)[a] = d[a]
  BY <1>1 DEF NoneFor
<1>3. ASSUME NEW m, LastFor(w, k, a, m)
      PROVE  DiskAfter(d, w, k)[a] = w[m].block
  <2>1. m \in at /\ \A l \in at : l <= m
    BY <1>3 DEF LastFor
  <2>2. \A j \in at : (\A l \in at : l <= j) => j = m
    <3>1. at \subseteq Int
      OBVIOUS
    <3> HIDE DEF at
    <3> QED
      BY <2>1, <3>1
  <2> DEFINE h == CHOOSE j \in at : \A l \in at : l <= j
  <2>3. h \in at /\ \A l \in at : l <= h
    <3> HIDE DEF at
    <3> QED
      BY <2>1
  <2>4. h = m
    <3> HIDE DEF h, at
    <3> QED
      BY <2>2, <2>3
  <2> QED
    BY <1>1, <2>1, <2>4
<1> QED
  BY <1>2, <1>3

(* The disk after some writes is a function of the address. *)
LEMMA DiskAfterIs ==
  ASSUME NEW d, NEW w, NEW k
  PROVE  DiskAfter(d, w, k) = [a \in Address |-> DiskAfter(d, w, k)[a]]
BY DEF DiskAfter

(* No write, the same disk. *)
LEMMA DiskAfterNone ==
  ASSUME NEW d, IsDisk(d), NEW w
  PROVE  DiskAfter(d, w, 0) = d
<1>1. \A a \in Address : DiskAfter(d, w, 0)[a] = d[a]
  <2>1. \A a \in Address : NoneFor(w, 0, a)
    BY DEF NoneFor
  <2> QED
    BY <2>1, DiskAfterAt
<1>2. d = [a \in Address |-> d[a]]
  BY DEF IsDisk
<1> QED
  BY <1>1, <1>2, DiskAfterIs

(* The first of the writes of w are those of u, the next those of v. *)
AreJoined(w, u, m, v, k) ==
  (\A j \in 1 .. m : w[j] = u[j]) /\ \A j \in 1 .. k : w[m + j] = v[j]

(* The disk after two lists of writes is the second list applied to the    *)
(* disk after the first.                                                   *)
LEMMA DiskAfterSplit ==
  ASSUME NEW d, NEW u, NEW v, NEW w, NEW m \in Nat, NEW k \in Nat, AreJoined(w, u, m, v, k),
         NEW n, n = m + k
  PROVE  DiskAfter(d, w, n) = DiskAfter(DiskAfter(d, u, m), v, k)
<1> DEFINE e == DiskAfter(d, u, m)
<1>1. n \in Nat
  OBVIOUS
<1>2. \A l \in 1 .. n : l \in 1 .. m \/ (l - m \in 1 .. k /\ l = m + (l - m) /\ w[l] = v[l - m])
  BY DEF AreJoined
<1>3. \A l \in 1 .. k : m + l \in 1 .. n /\ w[m + l] = v[l]
  BY DEF AreJoined
<1>4. ASSUME NEW a \in Address PROVE DiskAfter(d, w, n)[a] = DiskAfter(e, v, k)[a]
  <2> HIDE DEF e
  <2>1. ASSUME NEW h, LastFor(v, k, a, h) PROVE DiskAfter(d, w, n)[a] = DiskAfter(e, v, k)[a]
    <3>1. h \in 1 .. k /\ v[h].lba = a /\ \A l \in 1 .. k : h < l => v[l].lba # a
      BY <2>1 DEF LastFor
    <3>2. ASSUME NEW l \in 1 .. n, m + h < l PROVE w[l].lba # a
      <4>1. l - m \in 1 .. k /\ l = m + (l - m) /\ w[l] = v[l - m]
        BY <1>1, <1>2, <3>1, <3>2
      <4> QED
        BY <1>1, <3>1, <3>2, <4>1
    <3>3. LastFor(w, n, a, m + h)
      BY <1>3, <3>1, <3>2 DEF LastFor
    <3>4. DiskAfter(d, w, n)[a] = w[m + h].block
      BY <1>1, <3>3, DiskAfterAt
    <3>5. DiskAfter(e, v, k)[a] = v[h].block
      BY <2>1, DiskAfterAt
    <3> QED
      BY <1>3, <3>1, <3>4, <3>5
  <2>2. ASSUME NoneFor(v, k, a) PROVE DiskAfter(d, w, n)[a] = DiskAfter(e, v, k)[a]
    <3>1. DiskAfter(e, v, k)[a] = e[a]
      BY <2>2, DiskAfterAt
    <3>2. ASSUME NEW l \in 1 .. n, ~ (l \in 1 .. m) PROVE w[l].lba # a
      BY <1>2, <2>2, <3>2 DEF NoneFor
    <3>3. ASSUME NoneFor(u, m, a) PROVE DiskAfter(d, w, n)[a] = e[a]
      <4>1. NoneFor(w, n, a)
        BY <3>2, <3>3 DEF NoneFor, AreJoined
      <4>2. DiskAfter(d, w, n)[a] = d[a]
        BY <1>1, <4>1, DiskAfterAt
      <4>3. e[a] = d[a]
        BY <3>3, DiskAfterAt DEF e
      <4> QED
        BY <4>2, <4>3
    <3>4. ASSUME NEW h, LastFor(u, m, a, h) PROVE DiskAfter(d, w, n)[a] = e[a]
      <4>1. h \in 1 .. m /\ u[h].lba = a /\ \A l \in 1 .. m : h < l => u[l].lba # a
        BY <3>4 DEF LastFor
      <4>2. h \in 1 .. n /\ w[h] = u[h]
        BY <4>1 DEF AreJoined
      <4>3. \A l \in 1 .. n : h < l => w[l].lba # a
        BY <3>2, <4>1 DEF AreJoined
      <4>4. LastFor(w, n, a, h)
        BY <4>1, <4>2, <4>3 DEF LastFor
      <4>5. DiskAfter(d, w, n)[a] = w[h].block
        BY <1>1, <4>4, DiskAfterAt
      <4>6. e[a] = u[h].block
        BY <3>4, DiskAfterAt DEF e
      <4> QED
        BY <4>2, <4>5, <4>6
    <3> QED
      BY <3>1, <3>3, <3>4, LastWrite
  <2> QED
    BY <2>1, <2>2, LastWrite
<1> QED
  BY <1>4, DiskAfterIs

(* One write. *)
LEMMA DiskAfterOne ==
  ASSUME NEW d, IsDisk(d), NEW w, w[1].lba \in Address
  PROVE  DiskAfter(d, w, 1) = Landed(d, w[1])
<1>1. d = [a \in Address |-> d[a]]
  BY DEF IsDisk
<1>2. Landed(d, w[1]) = [a \in Address |-> IF a = w[1].lba THEN w[1].block ELSE d[a]]
  BY <1>1 DEF Landed
<1>3. ASSUME NEW a \in Address
      PROVE  DiskAfter(d, w, 1)[a] = IF a = w[1].lba THEN w[1].block ELSE d[a]
  <2>1. \A j \in 1 .. 1 : j = 1 /\ ~ (1 < j)
    OBVIOUS
  <2>2. a # w[1].lba => NoneFor(w, 1, a)
    BY <2>1 DEF NoneFor
  <2>3. a = w[1].lba => LastFor(w, 1, a, 1)
    BY <2>1 DEF LastFor
  <2> QED
    BY <2>2, <2>3, DiskAfterAt
<1> QED
  BY <1>2, <1>3, DiskAfterIs

(* Well-formed writes leave a well-formed disk. *)
LEMMA DiskAfterIsDisk ==
  ASSUME NEW d, IsDisk(d), NEW w, IsWrites(w), NEW k \in 0 .. Len(w)
  PROVE  IsDisk(DiskAfter(d, w, k))
<1>1. k \in Nat /\ \A j \in 1 .. k : j \in 1 .. Len(w)
  BY DEF IsWrites
<1>2. ASSUME NEW a \in Address PROVE BlockOK(a, DiskAfter(d, w, k)[a])
  <2>1. ASSUME NoneFor(w, k, a) PROVE BlockOK(a, DiskAfter(d, w, k)[a])
    BY <1>1, <2>1, DiskAfterAt DEF IsDisk
  <2>2. ASSUME NEW m, LastFor(w, k, a, m) PROVE BlockOK(a, DiskAfter(d, w, k)[a])
    <3>1. m \in 1 .. k /\ w[m].lba = a
      BY <2>2 DEF LastFor
    <3>2. DiskAfter(d, w, k)[a] = w[m].block
      BY <1>1, <2>2, DiskAfterAt
    <3>3. BlockOK(w[m].lba, w[m].block)
      BY <1>1, <3>1 DEF IsWrites
    <3> QED
      BY <3>1, <3>2, <3>3
  <2> QED
    BY <1>1, <2>1, <2>2, LastWrite
<1> QED
  BY <1>2, DiskAfterIs DEF IsDisk

-----------------------------------------------------------------------------
(* Sequences put together. *)

(* A list of writes is a sequence. *)
LEMMA WritesAreSeq ==
  ASSUME NEW w, Len(w) \in Nat, w = [k \in 1 .. Len(w) |-> w[k]],
         NEW S, \A k \in 1 .. Len(w) : w[k] \in S
  PROVE  w \in Seq(S)
<1>1. w \in [1 .. Len(w) -> S]
  <2> DEFINE n == Len(w)
  <2>1. n \in Nat /\ w = [k \in 1 .. n |-> w[k]] /\ \A k \in 1 .. n : w[k] \in S
    OBVIOUS
  <2> HIDE DEF n
  <2>2. w \in [1 .. n -> S]
    BY <2>1
  <2> QED
    BY <2>2 DEF n
<1>2. \E n \in Nat : w \in [1 .. n -> S]
  BY <1>1
<1> QED
  BY <1>2

(* The length and the elements of two sequences joined. *)
LEMMA JoinedIs ==
  ASSUME NEW S, NEW u \in Seq(S), NEW v \in Seq(S)
  PROVE  /\ u \o v \in Seq(S)
         /\ Len(u \o v) = Len(u) + Len(v)
         /\ \A k \in 1 .. Len(u) : (u \o v)[k] = u[k]
         /\ \A k \in 1 .. Len(v) : (u \o v)[Len(u) + k] = v[k]
OBVIOUS

(* The length and the elements of the rest of a sequence. *)
LEMMA TailIs ==
  ASSUME NEW S, NEW w \in Seq(S), w # <<>>
  PROVE  /\ Tail(w) \in Seq(S)
         /\ Len(w) \in Nat \ {0}
         /\ Len(Tail(w)) = Len(w) - 1
         /\ Head(w) = w[1]
         /\ \A k \in 1 .. Len(w) - 1 : Tail(w)[k] = w[k + 1]
OBVIOUS

(* A list of writes is a sequence of its own elements. *)
LEMMA WritesSeq ==
  ASSUME NEW w, IsWrites(w)
  PROVE  w \in Seq({w[k] : k \in 1 .. Len(w)})
BY WritesAreSeq DEF IsWrites

(* No write is a list of writes. *)
LEMMA NoWrites == IsWrites(<<>>)
BY DEF IsWrites

IsWrite(x) == x.lba \in Address /\ BlockOK(x.lba, x.block)

(* One write is a list of writes. *)
LEMMA OneWrite ==
  ASSUME NEW x, IsWrite(x)
  PROVE  IsWrites(<<x>>) /\ Len(<<x>>) = 1 /\ <<x>>[1] = x
BY DEF IsWrites, IsWrite

(* Two lists of writes joined are a list of writes. *)
LEMMA JoinedWrites ==
  ASSUME NEW u, NEW v, IsWrites(u), IsWrites(v)
  PROVE  /\ IsWrites(u \o v)
         /\ Len(u) \in Nat /\ Len(v) \in Nat
         /\ Len(u \o v) = Len(u) + Len(v)
         /\ \A k \in 1 .. Len(u) : (u \o v)[k] = u[k]
         /\ \A k \in 1 .. Len(v) : (u \o v)[Len(u) + k] = v[k]
<1> DEFINE S == {x \in {u[k] : k \in 1 .. Len(u)} \cup {v[k] : k \in 1 .. Len(v)} : IsWrite(x)}
<1>1. Len(u) \in Nat /\ Len(v) \in Nat
  BY DEF IsWrites
<1>2. u \in Seq(S) /\ v \in Seq(S)
  <2>1. \A k \in 1 .. Len(u) : u[k] \in S
    BY DEF IsWrites, IsWrite
  <2>2. \A k \in 1 .. Len(v) : v[k] \in S
    BY DEF IsWrites, IsWrite
  <2>3. u = [k \in 1 .. Len(u) |-> u[k]] /\ v = [k \in 1 .. Len(v) |-> v[k]]
    BY DEF IsWrites
  <2> HIDE DEF S
  <2> QED
    BY <1>1, <2>1, <2>2, <2>3, WritesAreSeq
<1>3. \A x \in S : IsWrite(x)
  OBVIOUS
<1> HIDE DEF S
<1>4. /\ u \o v \in Seq(S)
      /\ Len(u \o v) = Len(u) + Len(v)
      /\ \A k \in 1 .. Len(u) : (u \o v)[k] = u[k]
      /\ \A k \in 1 .. Len(v) : (u \o v)[Len(u) + k] = v[k]
  BY <1>2, JoinedIs
<1> DEFINE w == u \o v
<1>5. w \in Seq(S)
  BY <1>4
<1> HIDE DEF w
<1>6. Len(w) \in Nat /\ w = [k \in 1 .. Len(w) |-> w[k]] /\ \A k \in 1 .. Len(w) : w[k] \in S
  BY <1>5
<1>7. IsWrites(w)
  BY <1>3, <1>6 DEF IsWrites, IsWrite
<1> QED
  BY <1>1, <1>4, <1>7 DEF w

(* The rest of a list of writes, after its head reached the disk. *)
LEMMA TailWrites ==
  ASSUME NEW w, IsWrites(w), w # <<>>
  PROVE  /\ IsWrites(Tail(w))
         /\ Len(w) \in Nat \ {0}
         /\ Len(Tail(w)) = Len(w) - 1
         /\ Head(w) = w[1] /\ IsWrite(Head(w))
         /\ \A k \in 1 .. Len(w) - 1 : Tail(w)[k] = w[1 + k]
<1> DEFINE S == {x \in {w[k] : k \in 1 .. Len(w)} : IsWrite(x)}
<1>1. w \in Seq(S)
  <2>1. \A k \in 1 .. Len(w) : w[k] \in S
    BY DEF IsWrites, IsWrite
  <2>2. Len(w) \in Nat /\ w = [k \in 1 .. Len(w) |-> w[k]]
    BY DEF IsWrites
  <2> HIDE DEF S
  <2> QED
    BY <2>1, <2>2, WritesAreSeq
<1>2. \A x \in S : IsWrite(x)
  OBVIOUS
<1> HIDE DEF S
<1>3. /\ Tail(w) \in Seq(S)
      /\ Len(w) \in Nat \ {0}
      /\ Len(Tail(w)) = Len(w) - 1
      /\ Head(w) = w[1]
      /\ \A k \in 1 .. Len(w) - 1 : Tail(w)[k] = w[k + 1]
  BY <1>1, TailIs
<1> DEFINE t == Tail(w)
<1>4. t \in Seq(S)
  BY <1>3
<1> HIDE DEF t
<1>5. Len(t) \in Nat /\ t = [k \in 1 .. Len(t) |-> t[k]] /\ \A k \in 1 .. Len(t) : t[k] \in S
  BY <1>4
<1>6. IsWrites(t)
  BY <1>2, <1>5 DEF IsWrites, IsWrite
<1>7. w[1] \in S
  BY <1>1, <1>3
<1>8. \A k \in 1 .. Len(w) - 1 : Tail(w)[k] = w[1 + k]
  BY <1>3
<1> QED
  BY <1>2, <1>3, <1>6, <1>7, <1>8 DEF t

-----------------------------------------------------------------------------
(* The disks that a sequence of writes passes through. *)

Holds(d, c, T) == Formatted(d) /\ DiskSound(d, c) /\ TreeOn(d) = T

(* The writes w lead from d to e, and each of them to a disk with the tree *)
(* T.                                                                      *)
Passes(d, w, e, c, T) ==
  /\ IsWrites(w)
  /\ DiskAfter(d, w, Len(w)) = e
  /\ IsDisk(e)
  /\ \A k \in 1 .. Len(w) : Holds(DiskAfter(d, w, k), c, T)

(* Without a write the disk passes to itself. *)
LEMMA PassesNone ==
  ASSUME NEW d, IsDisk(d), NEW c, NEW T
  PROVE  Passes(d, <<>>, d, c, T)
<1>1. Len(<<>>) = 0
  OBVIOUS
<1>2. DiskAfter(d, <<>>, 0) = d
  BY DiskAfterNone
<1> QED
  BY <1>1, <1>2, NoWrites DEF Passes

(* One write takes the disk to what it leaves, when that is sound. *)
LEMMA PassesOne ==
  ASSUME NEW d, IsDisk(d), NEW x, IsWrite(x), NEW e, e = Landed(d, x), IsDisk(e), NEW c, NEW T, Holds(e, c, T)
  PROVE  Passes(d, <<x>>, e, c, T)
<1>1. IsWrites(<<x>>) /\ Len(<<x>>) = 1 /\ <<x>>[1] = x
  BY OneWrite
<1> DEFINE w == <<x>>
<1>2. w[1].lba \in Address
  BY <1>1 DEF IsWrite
<1> HIDE DEF w
<1>3. DiskAfter(d, w, 1) = e
  BY <1>1, <1>2, DiskAfterOne DEF w
<1>4. \A k \in 1 .. 1 : k = 1
  OBVIOUS
<1> QED
  BY <1>1, <1>3, <1>4 DEF Passes, w

(* The disks on the way through two lists of writes joined. *)
LEMMA JoinedDisks ==
  ASSUME NEW d, NEW u, NEW v, IsWrites(u), IsWrites(v)
  PROVE  /\ \A k \in 0 .. Len(u) : DiskAfter(d, u \o v, k) = DiskAfter(d, u, k)
         /\ \A k \in 0 .. Len(v) :
              DiskAfter(d, u \o v, Len(u) + k) = DiskAfter(DiskAfter(d, u, Len(u)), v, k)
<1> DEFINE w == u \o v
           m == Len(u)
           n == Len(v)
<1>1. /\ m \in Nat /\ n \in Nat
      /\ \A k \in 1 .. m : w[k] = u[k]
      /\ \A k \in 1 .. n : w[m + k] = v[k]
  BY JoinedWrites
<1> HIDE DEF w, m, n
<1>2. ASSUME NEW k \in 0 .. m PROVE DiskAfter(d, w, k) = DiskAfter(d, u, k)
  <2>1. \A j \in 1 .. k : w[j] = u[j]
    BY <1>1
  <2>2. ASSUME NEW a \in Address PROVE DiskAfter(d, w, k)[a] = DiskAfter(d, u, k)[a]
    <3>1. NoneFor(w, k, a) <=> NoneFor(u, k, a)
      BY <2>1 DEF NoneFor
    <3>2. \A h : LastFor(w, k, a, h) <=> LastFor(u, k, a, h)
      BY <2>1 DEF LastFor
    <3>3. \A h : LastFor(u, k, a, h) => w[h] = u[h]
      BY <2>1 DEF LastFor
    <3>4. k \in Nat
      BY <1>1
    <3>5. ASSUME NoneFor(u, k, a) PROVE DiskAfter(d, w, k)[a] = DiskAfter(d, u, k)[a]
      BY <3>1, <3>4, <3>5, DiskAfterAt
    <3>6. ASSUME NEW h, LastFor(u, k, a, h) PROVE DiskAfter(d, w, k)[a] = DiskAfter(d, u, k)[a]
      BY <3>2, <3>3, <3>4, <3>6, DiskAfterAt
    <3> QED
      BY <3>4, <3>5, <3>6, LastWrite
  <2> QED
    BY <2>2, DiskAfterIs
<1>3. ASSUME NEW k \in 0 .. n PROVE DiskAfter(d, w, m + k) = DiskAfter(DiskAfter(d, u, m), v, k)
  <2>1. k \in Nat /\ \A j \in 1 .. k : w[m + j] = v[j]
    BY <1>1
  <2>2. m \in Nat /\ AreJoined(w, u, m, v, k)
    BY <1>1, <2>1 DEF AreJoined
  <2> DEFINE x == m + k
  <2>3. x = m + k
    OBVIOUS
  <2> HIDE DEF x
  <2>4. DiskAfter(d, w, x) = DiskAfter(DiskAfter(d, u, m), v, k)
    BY <2>1, <2>2, <2>3, DiskAfterSplit
  <2> QED
    BY <2>3, <2>4
<1> QED
  BY <1>2, <1>3 DEF w, m, n

(* Two lists of writes that each keep the disk sound keep it sound joined. *)
LEMMA PassesJoined ==
  ASSUME NEW d, NEW u, NEW e, NEW v, NEW f, NEW c, NEW T, Passes(d, u, e, c, T), Passes(e, v, f, c, T)
  PROVE  Passes(d, u \o v, f, c, T)
<1> DEFINE w == u \o v
           m == Len(u)
           n == Len(v)
<1>1. IsWrites(u) /\ IsWrites(v) /\ DiskAfter(d, u, m) = e /\ DiskAfter(e, v, n) = f /\ IsDisk(f)
  BY DEF Passes
<1>2. IsWrites(w) /\ m \in Nat /\ n \in Nat /\ Len(w) = m + n
  BY <1>1, JoinedWrites
<1>3. /\ \A k \in 0 .. m : DiskAfter(d, w, k) = DiskAfter(d, u, k)
      /\ \A k \in 0 .. n : DiskAfter(d, w, m + k) = DiskAfter(e, v, k)
  BY <1>1, JoinedDisks
<1>4. /\ \A k \in 1 .. m : Holds(DiskAfter(d, u, k), c, T)
      /\ \A k \in 1 .. n : Holds(DiskAfter(e, v, k), c, T)
  BY DEF Passes
<1> HIDE DEF w, m, n
<1>5. DiskAfter(d, w, m + n) = f
  BY <1>1, <1>2, <1>3
<1>6. ASSUME NEW k \in 1 .. m + n PROVE Holds(DiskAfter(d, w, k), c, T)
  <2>1. CASE k \in 1 .. m
    BY <1>2, <1>3, <1>4, <2>1
  <2>2. CASE ~ (k \in 1 .. m)
    <3>1. k - m \in 1 .. n /\ k = m + (k - m) /\ k - m \in 0 .. n
      BY <1>2, <2>2
    <3>2. DiskAfter(d, w, k) = DiskAfter(e, v, k - m)
      BY <1>3, <3>1
    <3> QED
      BY <1>4, <3>1, <3>2
  <2> QED
    BY <2>1, <2>2
<1> QED
  BY <1>1, <1>2, <1>5, <1>6 DEF Passes, w

(* The tree changes once. *)
LEMMA PassesSafe ==
  ASSUME NEW d, IsDisk(d), NEW u, NEW e, NEW v, NEW f, NEW c, NEW T0, NEW T1, Holds(d, c, T0),
         Passes(d, u, e, c, T0), Passes(e, v, f, c, T1)
  PROVE  /\ IsWrites(u \o v)
         /\ Safe(d, u \o v, c, T1)
         /\ DiskAfter(d, u \o v, Len(u \o v)) = f
         /\ IsDisk(f)
<1> DEFINE w == u \o v
           m == Len(u)
           n == Len(v)
<1>1. IsWrites(u) /\ IsWrites(v) /\ DiskAfter(d, u, m) = e /\ DiskAfter(e, v, n) = f /\ IsDisk(f)
  BY DEF Passes
<1>2. IsWrites(w) /\ m \in Nat /\ n \in Nat /\ Len(w) = m + n
  BY <1>1, JoinedWrites
<1>3. /\ \A k \in 0 .. m : DiskAfter(d, w, k) = DiskAfter(d, u, k)
      /\ \A k \in 0 .. n : DiskAfter(d, w, m + k) = DiskAfter(e, v, k)
  BY <1>1, JoinedDisks
<1>4. /\ \A k \in 1 .. m : Holds(DiskAfter(d, u, k), c, T0)
      /\ \A k \in 1 .. n : Holds(DiskAfter(e, v, k), c, T1)
  BY DEF Passes
<1> HIDE DEF w, m, n
<1>5. DiskAfter(d, w, m + n) = f
  BY <1>1, <1>2, <1>3
<1>6. ASSUME NEW k \in 0 .. m PROVE Holds(DiskAfter(d, w, k), c, T0)
  <2>1. CASE k = 0
    <3>1. DiskAfter(d, w, 0) = d
      BY DiskAfterNone
    <3> QED
      BY <2>1, <3>1
  <2>2. CASE k # 0
    <3>1. k \in 1 .. m
      BY <1>2, <2>2
    <3> QED
      BY <1>3, <1>4, <3>1
  <2> QED
    BY <2>1, <2>2
<1>7. ASSUME NEW k \in 1 .. m + n, ~ (k \in 0 .. m) PROVE Holds(DiskAfter(d, w, k), c, T1)
  <2>1. k - m \in 1 .. n /\ k = m + (k - m) /\ k - m \in 0 .. n
    BY <1>2, <1>7
  <2>2. DiskAfter(d, w, k) = DiskAfter(e, v, k - m)
    BY <1>3, <2>1
  <2> QED
    BY <1>4, <2>1, <2>2
<1>8. \A k \in 0 .. m + n : DiskSound(DiskAfter(d, w, k), c)
  BY <1>2, <1>6, <1>7 DEF Holds
<1>9. ASSUME NEW k \in 1 .. m + n
      PROVE  TreeOn(DiskAfter(d, w, k)) \in {TreeOn(DiskAfter(d, w, k - 1)), T1}
  <2>1. CASE k \in 0 .. m
    <3>1. k - 1 \in 0 .. m
      BY <1>2, <2>1
    <3> QED
      BY <1>6, <2>1, <3>1 DEF Holds
  <2>2. CASE ~ (k \in 0 .. m)
    BY <1>7, <2>2 DEF Holds
  <2> QED
    BY <2>1, <2>2
<1>10. Safe(d, w, c, T1)
  BY <1>2, <1>8, <1>9 DEF Safe
<1> QED
  BY <1>1, <1>2, <1>5, <1>10 DEF w

(* The tree never changes. *)
LEMMA PassesSteady ==
  ASSUME NEW d, IsDisk(d), NEW w, NEW e, NEW c, NEW T, NEW T1, Holds(d, c, T), Passes(d, w, e, c, T)
  PROVE  /\ IsWrites(w)
         /\ Safe(d, w, c, T1)
         /\ DiskAfter(d, w, Len(w)) = e
         /\ IsDisk(e)
<1>1. IsWrites(w) /\ DiskAfter(d, w, Len(w)) = e /\ IsDisk(e) /\ Len(w) \in Nat
  BY DEF Passes, IsWrites
<1>2. ASSUME NEW k \in 0 .. Len(w) PROVE Holds(DiskAfter(d, w, k), c, T)
  <2>1. CASE k = 0
    <3>1. DiskAfter(d, w, 0) = d
      BY DiskAfterNone
    <3> QED
      BY <2>1, <3>1
  <2>2. CASE k # 0
    <3>1. k \in 1 .. Len(w)
      BY <1>1, <2>2
    <3> QED
      BY <3>1 DEF Passes
  <2> QED
    BY <2>1, <2>2
<1>3. \A k \in 1 .. Len(w) : k \in 0 .. Len(w) /\ k - 1 \in 0 .. Len(w)
  BY <1>1
<1>4. Safe(d, w, c, T1)
  BY <1>2, <1>3 DEF Safe, Holds
<1> QED
  BY <1>1, <1>4

-----------------------------------------------------------------------------
(* The name space in memory and the one on the disk *)

(* The names RefsCrash uses for the state of the memory, as those of its   *)
(* tables.                                                                 *)
LEMMA InMemory ==
  /\ Edges = EdgesIn(inode, data)
  /\ Directories = Dirs(inode)
  /\ Reachable = Live(inode, data)
  /\ MemoryTree = TreeOf(inode, data)
<1>1. Directories = Dirs(inode)
  BY DEF Directories, IsDir, Dirs
<1>2. \A d : {x \in Places(d) : EntryAt(d, x) # NoEntry /\ EntryAt(d, x).name \notin {".", ".."}}
                = NamedIn(inode[d], data)
  BY DEF Places, EntryAt, NamedIn, Spots, EntryIn, IsNamed
<1>3. Edges = EdgesIn(inode, data)
  <2> DEFINE A(d) == {[parent |-> d, name |-> EntryAt(d, x).name, node |-> EntryAt(d, x).inum] :
                        x \in {y \in Places(d) : EntryAt(d, y) # NoEntry
                                                   /\ EntryAt(d, y).name \notin {".", ".."}}}
             B(d) == {EdgeAt(inode, data, d, x) : x \in NamedIn(inode[d], data)}
  <2>1. \A d : A(d) = B(d)
    BY <1>2, Zenon DEF EdgeAt, EntryAt, EntryIn
  <2>2. Edges = UNION {A(d) : d \in Directories}
    BY DEF Edges
  <2>3. EdgesIn(inode, data) = UNION {B(d) : d \in Dirs(inode)}
    BY DEF EdgesIn
  <2> HIDE DEF A, B
  <2> QED
    BY <1>1, <2>1, <2>2, <2>3
<1> QED
  BY <1>1, <1>3 DEF Reachable, Live, MemoryTree, TreeOf

(* The names RefsCrash uses for the state of the disk, as those of a disk. *)
LEMMA OnTheDisk ==
  /\ ReachableOnDisk = LiveOn(disk)
  /\ TreeOnDisk = TreeOn(disk)
  /\ \A i \in Inum : OnDisk!Owned(i) = Held(LoadedTable(disk)[i])
<1> DEFINE tab == LoadedTable(disk)
           dat == LoadedData(disk)
<1>1. OnDisk!Directories = Dirs(tab)
  BY DEF OnDisk!Directories, OnDisk!IsDir, OnDisk!Inum, Dirs, Inum
<1>2. \A d : {x \in OnDisk!Places(d) : OnDisk!EntryAt(d, x) # OnDisk!NoEntry
                                        /\ OnDisk!EntryAt(d, x).name \notin {".", ".."}}
                = NamedIn(tab[d], dat)
  BY DEF OnDisk!Places, OnDisk!EntryAt, OnDisk!NoEntry, OnDisk!Slot, NamedIn, Spots, EntryIn, IsNamed,
         NoEntry, Slot, OnDisk!ROOT_INUM, ROOT_INUM
<1>3. OnDisk!Edges = EdgesIn(tab, dat)
  <2> DEFINE A(d) == {[parent |-> d, name |-> OnDisk!EntryAt(d, x).name, node |-> OnDisk!EntryAt(d, x).inum] :
                        x \in {y \in OnDisk!Places(d) : OnDisk!EntryAt(d, y) # OnDisk!NoEntry
                                                   /\ OnDisk!EntryAt(d, y).name \notin {".", ".."}}}
             B(d) == {EdgeAt(tab, dat, d, x) : x \in NamedIn(tab[d], dat)}
  <2>1. \A d : A(d) = B(d)
    BY <1>2, Zenon DEF EdgeAt, OnDisk!EntryAt, EntryIn
  <2>2. OnDisk!Edges = UNION {A(d) : d \in OnDisk!Directories}
    BY DEF OnDisk!Edges
  <2>3. EdgesIn(tab, dat) = UNION {B(d) : d \in Dirs(tab)}
    BY DEF EdgesIn
  <2> HIDE DEF A, B, tab, dat
  <2> QED
    BY <1>1, <2>1, <2>2, <2>3
<1>4. \A i \in Inum : OnDisk!Owned(i) = Held(tab[i])
  BY DEF OnDisk!Owned, OnDisk!Held, OnDisk!BlocksAt, Held, BlocksAt
<1> QED
  BY <1>1, <1>3, <1>4 DEF ReachableOnDisk, LiveOn, Live, TreeOnDisk, TreeOn, TreeOf

-----------------------------------------------------------------------------
(* What the invariant says. *)

(* A formatted disk is sound at every moment, also in the middle of a      *)
(* request.                                                                *)
LEMMA SoundDisk ==
  ASSUME CrashInd, Formatted(disk)
  PROVE  IsDisk(disk) /\ DiskSound(disk, cutting)
<1>1. IsDisk(disk)
  BY DEF CrashInd, CrashTypes, Formatted
<1>2. CASE ~ Alive
  BY <1>1, <1>2 DEF CrashInd
<1>3. CASE Alive
  <2>1. DiskAfter(disk, pending, 0) = disk
    BY <1>1, DiskAfterNone
  <2>2. 0 \in 0 .. Len(pending)
    BY DEF CrashInd, CrashTypes, IsWrites
  <2>3. Safe(disk, pending, cutting, TreeOf(inode, data))
    BY <1>3 DEF CrashInd
  <2> QED
    BY <1>1, <2>1, <2>2, <2>3 DEF Safe
<1> QED
  BY <1>2, <1>3

(* The links of the inodes in L as the disk d has them. *)
Follows(L, d, tab) ==
  \A i \in L : tab[i].nLinks \in {LoadedInode(d, i).nLinks, IncLinks(LoadedInode(d, i).nLinks)}

(* Between two requests the disk shows what is in memory. *)
LEMMA BetweenRequests ==
  ASSUME CrashInd, Serving
  PROVE  /\ IsDisk(disk)
         /\ cutting = NoInum
         /\ Sound(inode, data)
         /\ FineTable(Live(inode, data), inode)
         /\ Live(inode, data) \ {ROOT_INUM} \subseteq inodeBitmap
         /\ Marked(Live(inode, data), dataBitmap, inode)
         /\ Shows(Live(inode, data), disk, inode, data, NoInum)
         /\ Holds(disk, NoInum, TreeOf(inode, data))
         /\ inum = OwnNumbers => Follows(Live(inode, data), disk, inode)
<1>1. Alive /\ status = "up" /\ pending = <<>>
  BY DEF Serving, Up, Alive
<1>2. disk # NoDisk /\ IsDisk(disk) /\ cutting = NoInum /\ inode \in [Inum -> InodeType]
  BY <1>1 DEF CrashInd, CrashTypes
<1>3. MemoryOK /\ Shows(Live(inode, data), AfterAll, inode, data, NoInum)
      /\ LinksFollow(Live(inode, data), AfterAll, inode)
  BY <1>1 DEF CrashInd
<1>4. AfterAll = disk
  <2>1. Len(<<>>) = 0
    OBVIOUS
  <2>2. DiskAfter(disk, <<>>, 0) = disk
    BY <1>2, DiskAfterNone
  <2> QED
    BY <1>1, <2>1, <2>2 DEF AfterAll
<1>5. /\ Sound(inode, data)
      /\ Live(inode, data) \ {ROOT_INUM} \subseteq inodeBitmap
      /\ Marked(Live(inode, data), dataBitmap, inode)
  BY <1>3 DEF MemoryOK
<1>6. FineTable(Live(inode, data), inode)
  BY <1>2, <1>5 DEF FineTable, Sound
<1>7. Shows(Live(inode, data), disk, inode, data, NoInum)
  BY <1>3, <1>4
<1>8. Holds(disk, NoInum, TreeOf(inode, data))
  <2>1. Live(inode, data) \subseteq Inum
    BY <1>6 DEF FineTable
  <2>2. DiskSound(disk, NoInum) /\ TreeOn(disk) = TreeOf(inode, data)
    BY <1>2, <1>5, <1>7, <2>1, ShowsSound
  <2> QED
    BY <1>7, <2>2 DEF Holds, Shows
<1>9. inum = OwnNumbers => Follows(Live(inode, data), disk, inode)
  BY <1>3, <1>4 DEF LinksFollow, Follows
<1> QED
  BY <1>2, <1>5, <1>6, <1>7, <1>8, <1>9

(* The inductive invariant implies each of the invariants the runs check. *)
LEMMA CrashIndImplies ==
  ASSUME CrashInd
  PROVE  /\ CrashTypeOK
         /\ NothingDangles
         /\ BlocksSafeOnDisk
         /\ ReturnedIsDurable
         /\ LinksOneBehind
<1>1. CrashTypeOK
  <2>1. ASSUME NEW k \in DOMAIN pending PROVE pending[k].lba \in DOMAIN disk
    <3>1. IsWrites(pending)
      BY DEF CrashInd, CrashTypes
    <3>2. k \in 1 .. Len(pending)
      <4>1. pending = [j \in 1 .. Len(pending) |-> pending[j]]
        BY <3>1 DEF IsWrites
      <4> QED
        BY <4>1
    <3>3. pending # <<>>
      <4>1. Len(<<>>) = 0 /\ 1 .. 0 = {}
        OBVIOUS
      <4> QED
        BY <3>2, <4>1
    <3>4. disk # NoDisk
      BY <3>3 DEF CrashInd, Alive
    <3>5. IsDisk(disk)
      BY <3>4 DEF CrashInd, CrashTypes
    <3>6. DOMAIN disk = Address
      BY <3>5 DEF IsDisk
    <3> QED
      BY <3>1, <3>2, <3>6 DEF IsWrites
  <2> QED
    BY <2>1 DEF CrashTypeOK, CrashInd, CrashTypes
<1>2. ASSUME Formatted(disk)
      PROVE  /\ IsDisk(disk) /\ LiveOn(disk) \subseteq Inum
             /\ \A i \in LiveOn(disk) : LoadedTable(disk)[i] = LoadedInode(disk, i)
             /\ Sound(LoadedTable(disk), LoadedData(disk))
             /\ LiveOn(disk) \subseteq LoadedInodeBitmap(disk)
             /\ Marked(LiveOn(disk) \ {cutting}, LoadedDataBitmap(disk), LoadedTable(disk))
  <2>1. IsDisk(disk) /\ DiskSound(disk, cutting)
    BY <1>2, SoundDisk
  <2>2. Sound(LoadedTable(disk), LoadedData(disk)) /\ LiveOn(disk) \subseteq LoadedInodeBitmap(disk)
        /\ Marked(LiveOn(disk) \ {cutting}, LoadedDataBitmap(disk), LoadedTable(disk))
    BY <2>1 DEF DiskSound
  <2>3. LiveOn(disk) \subseteq Inum
    BY <2>2 DEF Sound, LiveOn
  <2> QED
    BY <1>2, <2>1, <2>2, <2>3, LoadedTableType
<1>3. NothingDangles
  <2> SUFFICES ASSUME Formatted(disk), NEW i \in ReachableOnDisk
               PROVE  LoadedInode(disk, i).inUse /\ i \in LoadedInodeBitmap(disk)
    BY DEF NothingDangles
  <2>1. i \in LiveOn(disk)
    BY OnTheDisk
  <2>2. Fine(LoadedTable(disk)[i])
    BY <1>2, <2>1 DEF Sound, LiveOn
  <2> QED
    BY <1>2, <2>1, <2>2 DEF Fine
<1>4. BlocksSafeOnDisk
  <2> SUFFICES ASSUME Formatted(disk)
               PROVE  /\ UnmarkedOnDisk \subseteq {cutting}
                      /\ \A i, j \in ReachableOnDisk : i # j => OnDisk!Owned(i) \cap OnDisk!Owned(j) = {}
    BY DEF BlocksSafeOnDisk
  <2>1. ReachableOnDisk = LiveOn(disk)
        /\ \A i \in LiveOn(disk) : OnDisk!Owned(i) = Held(LoadedTable(disk)[i])
    BY <1>2, OnTheDisk
  <2>2. UnmarkedOnDisk \subseteq {cutting}
    BY <1>2, <2>1 DEF UnmarkedOnDisk, Marked
  <2>3. \A i, j \in LiveOn(disk) : i # j => Held(LoadedTable(disk)[i]) \cap Held(LoadedTable(disk)[j]) = {}
    BY <1>2 DEF Sound, LiveOn
  <2> QED
    BY <2>1, <2>2, <2>3
<1>5. ReturnedIsDurable
  <2> SUFFICES ASSUME Serving
               PROVE  /\ TreeOnDisk = MemoryTree
                      /\ \A i \in Reachable : Durable(LoadedInode(disk, i)) = Durable(inode[i])
    BY DEF ReturnedIsDurable
  <2>1. TreeOn(disk) = TreeOf(inode, data) /\ Recs(Live(inode, data), disk, inode)
    BY BetweenRequests DEF Holds, Shows
  <2> QED
    BY <2>1, InMemory, OnTheDisk DEF Recs
<1>6. LinksOneBehind
  <2> SUFFICES ASSUME Serving, inum = OwnNumbers, NEW i \in Reachable
               PROVE  inode[i].nLinks \in {LoadedInode(disk, i).nLinks, IncLinks(LoadedInode(disk, i).nLinks)}
    BY DEF LinksOneBehind
  <2> QED
    BY InMemory, BetweenRequests DEF Follows
<1> QED
  BY <1>1, <1>3, <1>4, <1>5, <1>6

-----------------------------------------------------------------------------
(* Steps that write nothing new. *)

(* The contents of memory after a step. *)
MemoryTypes(tab, dat, ibits, dbits) ==
  /\ tab \in [Inum -> InodeType]
  /\ dat \in [Block -> [Slot -> EntryType]]
  /\ ibits \subseteq 0 .. Scanned(NumInodes) - 1
  /\ dbits \subseteq Block

(* A handler that ran in full: what it has to show. *)
LEMMA HandlerEnds ==
  ASSUME CrashInd, Serving, disk' = disk, inum' = inum,
         status' \in {"up", "links_assert", "slots_assert"},
         MemoryTypes(inode', data', inodeBitmap', dataBitmap'),
         cutting' \in Inum \cup {NoInum},
         status' = "up" /\ pending' = <<>> => cutting' = NoInum,
         IsWrites(pending'),
         Safe(disk, pending', cutting', TreeOf(inode', data')),
         NEW f, f = DiskAfter(disk, pending', Len(pending')),
         NEW L, L = Live(inode', data'),
         Sound(inode', data'), L \ {ROOT_INUM} \subseteq inodeBitmap',
         Marked(L, dataBitmap', inode'), Shows(L, f, inode', data', NoInum),
         inum = OwnNumbers => Follows(L, f, inode')
  PROVE  CrashInd'
<1>1. CrashTypes'
  BY BetweenRequests DEF CrashInd, CrashTypes, MemoryTypes, CrashStatus, Status
<1>2. (disk = NoDisk => status = "down")'
  BY DEF CrashInd, Serving, Up
<1>3. (status = "up" /\ pending = <<>> => cutting = NoInum)'
  OBVIOUS
<1>4. Alive'
  BY DEF Alive
<1>5. MemoryOK'
  BY DEF MemoryOK
<1>6. Safe(disk, pending, cutting, TreeOf(inode, data))'
  OBVIOUS
<1>7. Shows(Live(inode, data), AfterAll, inode, data, NoInum)'
  BY DEF AfterAll
<1>8. LinksFollow(Live(inode, data), AfterAll, inode)'
  BY DEF LinksFollow, AfterAll, Follows
<1> QED
  BY <1>1, <1>2, <1>3, <1>4, <1>5, <1>6, <1>7, <1>8 DEF CrashInd

(* A request about which nothing is claimed. *)
LEMMA HandlerGivesUp ==
  ASSUME CrashInd, Serving, disk' = disk, inum' = inum,
         status' \in {"reused", "overcommitted", "undefined"},
         MemoryTypes(inode', data', inodeBitmap', dataBitmap'),
         cutting' = cutting, pending' = <<>>
  PROVE  CrashInd'
<1>1. CrashTypes'
  BY BetweenRequests, NoWrites DEF CrashInd, CrashTypes, MemoryTypes, CrashStatus, Status
<1>2. (disk = NoDisk => status = "down")'
  BY DEF CrashInd, Serving, Up
<1>3. ~ Alive' /\ status' # "up"
  BY DEF Alive
<1>4. Formatted(disk) => DiskSound(disk, cutting)
  BY SoundDisk
<1> QED
  BY <1>1, <1>2, <1>3, <1>4 DEF CrashInd

(* A request that changes no more than permissions, and writes nothing. *)
LEMMA NothingWritten ==
  ASSUME CrashInd, Serving, disk' = disk, inum' = inum, status' = "up", cutting' = cutting, pending' = <<>>,
         inodeBitmap' = inodeBitmap, dataBitmap' = dataBitmap, data' = data,
         inode' \in [Inum -> InodeType],
         \A i \in Inum : Durable(inode'[i]) = Durable(inode[i]) /\ inode'[i].nLinks = inode[i].nLinks
  PROVE  CrashInd'
<1> DEFINE L == Live(inode, data)
           T == TreeOf(inode, data)
<1>1. /\ IsDisk(disk)
      /\ cutting = NoInum
      /\ Sound(inode, data)
      /\ FineTable(L, inode)
      /\ L \ {ROOT_INUM} \subseteq inodeBitmap
      /\ Marked(L, dataBitmap, inode)
      /\ Shows(L, disk, inode, data, NoInum)
      /\ Holds(disk, NoInum, T)
      /\ inum = OwnNumbers => Follows(L, disk, inode)
  BY BetweenRequests
<1>2. \A i \in L : i \in Inum
  BY <1>1 DEF FineTable
<1>3. ASSUME NEW i \in L
      PROVE  /\ Fine(inode'[i]) /\ inode'[i].isDir = inode[i].isDir /\ Held(inode'[i]) = Held(inode[i])
             /\ inode'[i].blocks = inode[i].blocks /\ inode'[i].ptrs = inode[i].ptrs
  <2>1. i \in Inum /\ inode[i] \in InodeType /\ Fine(inode[i]) /\ inode'[i] \in InodeType
    BY <1>1, <1>2, FineTableIs
  <2>2. ~ inode[i].isDir => inode'[i].nLinks = 1
    BY <2>1 DEF Fine
  <2> QED
    BY <2>1, <2>2, FineSame
<1>4. \A i \in LiveDirs(inode, data) :
           /\ NamedIn(inode'[i], data) = NamedIn(inode[i], data)
           /\ \A x \in NamedIn(inode[i], data) : EntryIn(inode'[i], data, x) = EntryIn(inode[i], data, x)
  BY <1>3 DEF LiveDirs, NamedIn, Spots, EntryIn
<1>5. \A i, j \in L : i # j => Held(inode'[i]) \cap Held(inode'[j]) = {}
  BY <1>1, <1>3 DEF Sound
<1>6. Sound(inode', data') /\ Live(inode', data') = L /\ TreeOf(inode', data') = T
  <2> DEFINE tab == inode'
  <2>1. /\ \A i \in L : Fine(tab[i]) /\ tab[i].isDir = inode[i].isDir
        /\ \A i, j \in L : i # j => Held(tab[i]) \cap Held(tab[j]) = {}
        /\ \A i \in LiveDirs(inode, data) :
             /\ NamedIn(tab[i], data) = NamedIn(inode[i], data)
             /\ \A x \in NamedIn(inode[i], data) : EntryIn(tab[i], data, x) = EntryIn(inode[i], data, x)
    BY <1>3, <1>4, <1>5
  <2> HIDE DEF tab
  <2>2. Sound(inode, data)
    BY <1>1
  <2>3. Sound(tab, data) /\ Live(tab, data) = L /\ TreeOf(tab, data) = T
    BY ONLY <2>1, <2>2, SoundSame, SMTT(30)
  <2> QED
    BY <2>3 DEF tab
<1>7. MemoryTypes(inode', data', inodeBitmap', dataBitmap')
  BY DEF MemoryTypes, CrashInd, CrashTypes
<1>8. /\ IsWrites(pending')
      /\ Safe(disk, pending', cutting', T)
      /\ DiskAfter(disk, pending', Len(pending')) = disk
  BY <1>1, PassesNone, PassesSteady
<1>9. Marked(L, dataBitmap', inode')
  BY <1>1, <1>3 DEF Marked
<1>10. Shows(L, disk, inode', data', NoInum)
  <2>1. Recs(L, disk, inode')
    BY <1>1, <1>2, <1>3 DEF Recs, Shows
  <2>2. Ents(L, disk, inode', data')
    BY <1>1, <1>3 DEF Ents, Shows
  <2>3. Marked(L \ {NoInum}, LoadedDataBitmap(disk), inode')
    BY <1>1, <1>3 DEF Marked, Shows
  <2> QED
    BY <1>1, <2>1, <2>2, <2>3 DEF Shows
<1>11. inum = OwnNumbers => Follows(L, disk, inode')
  BY <1>1, <1>2 DEF Follows
<1> HIDE DEF L, T
<1> QED
  BY <1>1, <1>6, <1>7, <1>8, <1>9, <1>10, <1>11, HandlerEnds

(* A request that stores nothing keeps the inductive invariant. *)
LEMMA NothingChanged ==
  ASSUME CrashInd, Serving, UNCHANGED <<fsVars, status, inum, disk, cutting>>, pending' = <<>>
  PROVE  CrashInd'
<1>1. status' = "up" /\ inode' \in [Inum -> InodeType]
  BY DEF fsVars, CrashInd, CrashTypes, Serving, Up
<1> QED
  BY <1>1, NothingWritten DEF fsVars

(* A stuttering step keeps the inductive invariant. *)
LEMMA StutterCrashInd ==
  ASSUME CrashInd, UNCHANGED crashVars
  PROVE  CrashInd'
BY DEF crashVars, vars, diskVars, CrashInd, CrashTypes, MemoryOK, AfterAll, LinksFollow, Alive

(* A creation that is given an inode in use ends what is claimed, and      *)
(* keeps the inductive invariant.                                          *)
LEMMA ReuseInd ==
  ASSUME CrashInd, NEW p \in Inum, NEW n \in Names, Reuse(p, n)
  PROVE  CrashInd'
BY HandlerGivesUp DEF Reuse, ServingAbout, Serving, fsVars, diskVars, CrashInd, CrashTypes, MemoryTypes

(* refs_chmod writes nothing, and what it changes is not claimed of the    *)
(* disk (src/refs.c:1138).                                                 *)
LEMMA chmod_to_diskInd ==
  ASSUME CrashInd, NEW i \in Inum, NEW w \in Perms, chmod_to_disk(i, w)
  PROVE  CrashInd'
<1>1. Serving /\ inode \in [Inum -> InodeType] /\ w \in BOOLEAN
  BY PermsAssumption DEF chmod_to_disk, ServingAbout, CrashInd, CrashTypes
<1>2. /\ inode' = [inode EXCEPT ![i].writable = w]
      /\ UNCHANGED <<inodeBitmap, dataBitmap, data, status, inum, disk, cutting, pending>>
  BY DEF chmod_to_disk, chmod, diskVars
<1>3. [inode[i] EXCEPT !.writable = w] \in InodeType
      /\ Durable([inode[i] EXCEPT !.writable = w]) = Durable(inode[i])
      /\ [inode[i] EXCEPT !.writable = w].nLinks = inode[i].nLinks
  BY <1>1 DEF InodeType, Durable
<1>4. inode' = [inode EXCEPT ![i] = [inode[i] EXCEPT !.writable = w]]
  BY <1>1, <1>2
<1>5. inode' \in [Inum -> InodeType]
  BY <1>1, <1>3, <1>4
<1>6. \A j \in Inum : Durable(inode'[j]) = Durable(inode[j]) /\ inode'[j].nLinks = inode[j].nLinks
  BY <1>1, <1>3, <1>4
<1>7. status' = "up" /\ pending' = <<>>
  BY <1>1, <1>2 DEF Serving, Up
<1> QED
  BY <1>1, <1>2, <1>5, <1>6, <1>7, NothingWritten

-----------------------------------------------------------------------------
(* The writes reach the disk. *)

(* The disks to come stay the same. *)
LEMMA RestOfWrites ==
  ASSUME NEW d, IsDisk(d), NEW w, IsWrites(w), w # <<>>,
         NEW e, e = Landed(d, Head(w)), NEW k \in 0 .. Len(Tail(w)), NEW n, n = 1 + k
  PROVE  DiskAfter(e, Tail(w), k) = DiskAfter(d, w, n)
<1>1. /\ Len(w) \in Nat \ {0} /\ Len(Tail(w)) = Len(w) - 1
      /\ Head(w) = w[1] /\ IsWrite(Head(w))
      /\ \A j \in 1 .. Len(w) - 1 : Tail(w)[j] = w[1 + j]
  BY TailWrites
<1>2. DiskAfter(d, w, 1) = e
  BY <1>1, DiskAfterOne DEF IsWrite
<1>3. AreJoined(w, w, 1, Tail(w), k)
  BY <1>1 DEF AreJoined
<1>4. k \in Nat
  BY <1>1
<1> QED
  BY <1>2, <1>3, <1>4, DiskAfterSplit

(* A pending write that reaches the disk keeps the inductive invariant,    *)
(* and the disk's tree stays or becomes that of memory.                    *)
LEMMA WriteOutInd ==
  ASSUME CrashInd, WriteOut
  PROVE  /\ CrashInd'
         /\ Formatted(disk) => TreeOn(disk') \in {TreeOn(disk), TreeOf(inode, data)}
<1> DEFINE w == pending
           t == Tail(pending)
           e == Landed(disk, Head(pending))
           T == TreeOf(inode, data)
           L == Live(inode, data)
<1>1. /\ Alive /\ w # <<>> /\ disk' = e /\ pending' = t
      /\ cutting' = IF t = <<>> THEN NoInum ELSE cutting
      /\ UNCHANGED <<vars, inum, mounts>>
  BY DEF WriteOut, Landed
<1>2. /\ IsDisk(disk) /\ IsWrites(w) /\ inode \in [Inum -> InodeType]
      /\ MemoryOK
      /\ Safe(disk, w, cutting, T)
      /\ Shows(L, DiskAfter(disk, w, Len(w)), inode, data, NoInum)
      /\ LinksFollow(L, DiskAfter(disk, w, Len(w)), inode)
  BY <1>1 DEF CrashInd, CrashTypes, Alive, AfterAll
<1>3. /\ Len(w) \in Nat \ {0} /\ Len(t) = Len(w) - 1 /\ IsWrites(t)
      /\ Head(w) = w[1] /\ IsWrite(Head(w))
  BY <1>1, <1>2, TailWrites
<1>4. DiskAfter(disk, w, 0) = disk
  BY <1>2, DiskAfterNone
<1>5. DiskAfter(disk, w, 1) = e
  BY <1>2, <1>3, DiskAfterOne DEF IsWrite
<1>6. IsDisk(e)
  BY <1>2, <1>3, <1>5, DiskAfterIsDisk
<1>7. \A k \in 0 .. Len(t) : DiskAfter(e, t, k) = DiskAfter(disk, w, 1 + k)
  BY <1>1, <1>2, RestOfWrites
<1>8. DiskAfter(e, t, Len(t)) = DiskAfter(disk, w, Len(w))
  <2>1. Len(t) \in 0 .. Len(t) /\ 1 + Len(t) = Len(w)
    BY <1>3
  <2> QED
    BY <1>7, <2>1
<1> HIDE DEF w, t, e, T, L
<1>9. Safe(e, t, cutting, T)
  <2>1. ASSUME NEW k \in 0 .. Len(t), Formatted(DiskAfter(e, t, k))
        PROVE  DiskSound(DiskAfter(e, t, k), cutting)
    <3>1. 1 + k \in 0 .. Len(w)
      BY <1>3
    <3>2. DiskAfter(e, t, k) = DiskAfter(disk, w, 1 + k)
      BY <1>7
    <3> QED
      BY <1>2, <2>1, <3>1, <3>2 DEF Safe
  <2>2. ASSUME NEW k \in 1 .. Len(t), Formatted(DiskAfter(e, t, k - 1))
        PROVE  TreeOn(DiskAfter(e, t, k)) \in {TreeOn(DiskAfter(e, t, k - 1)), T}
    <3>1. 1 + k \in 1 .. Len(w) /\ 1 + k - 1 = k /\ k \in 0 .. Len(t) /\ k - 1 \in 0 .. Len(t)
          /\ 1 + (k - 1) = k
      BY <1>3
    <3>2. DiskAfter(e, t, k) = DiskAfter(disk, w, 1 + k)
      BY <1>7, <3>1
    <3>3. DiskAfter(e, t, k - 1) = DiskAfter(disk, w, k)
      BY <1>7, <3>1
    <3>4. Formatted(DiskAfter(disk, w, 1 + k - 1)) =>
            TreeOn(DiskAfter(disk, w, 1 + k)) \in {TreeOn(DiskAfter(disk, w, 1 + k - 1)), T}
      BY <1>2, <3>1 DEF Safe
    <3> QED
      BY <2>2, <3>1, <3>2, <3>3, <3>4
  <2> QED
    BY <2>1, <2>2 DEF Safe
<1>10. ASSUME t = <<>>
       PROVE  Safe(e, t, NoInum, T)
  <2>1. Len(t) = 0
    BY <1>10
  <2>2. DiskAfter(e, t, 0) = DiskAfter(disk, w, Len(w))
    BY <1>8, <2>1
  <2>3. IsDisk(DiskAfter(e, t, 0))
    BY <1>6, DiskAfterNone
  <2>4. Sound(inode, data) /\ Live(inode, data) = L /\ L \subseteq Inum
    BY <1>2 DEF MemoryOK, Sound, L
  <2>5. DiskSound(DiskAfter(e, t, 0), NoInum)
    BY <1>2, <2>2, <2>3, <2>4, ShowsSound
  <2>6. \A k \in 0 .. Len(t) : k = 0
    BY <2>1
  <2>7. \A k \in 1 .. Len(t) : FALSE
    BY <2>1
  <2> QED
    BY <2>5, <2>6, <2>7 DEF Safe
<1>11. Safe(e, t, cutting', T)
  BY <1>1, <1>9, <1>10
<1>12. Formatted(disk) => TreeOn(disk') \in {TreeOn(disk), T}
  <2>1. 1 \in 1 .. Len(w) /\ 1 - 1 = 0
    BY <1>3
  <2>2. Formatted(DiskAfter(disk, w, 1 - 1)) =>
            TreeOn(DiskAfter(disk, w, 1)) \in {TreeOn(DiskAfter(disk, w, 1 - 1)), T}
    BY <1>2, <2>1 DEF Safe
  <2> QED
    BY <1>1, <1>4, <1>5, <2>1, <2>2
<1>13. CrashTypes'
  BY <1>1, <1>3, <1>6 DEF CrashInd, CrashTypes, vars
<1>14. inode' = inode /\ data' = data /\ status' = status /\ inum' = inum
       /\ dataBitmap' = dataBitmap /\ inodeBitmap' = inodeBitmap
  BY <1>1 DEF vars
<1>15. CrashInd'
  <2>1. (disk = NoDisk => status = "down")'
    <3>1. e # NoDisk
      <4>1. e = [a \in Address |-> e[a]] /\ Layout!SUPER_LBA \in Address
        BY <1>6, Addresses DEF IsDisk
      <4>2. DOMAIN e = Address /\ DOMAIN NoDisk = {}
        BY <4>1 DEF NoDisk
      <4> QED
        BY <4>1, <4>2
    <3> QED
      BY <1>1, <3>1
  <2>2. (status = "up" /\ pending = <<>> => cutting = NoInum)'
    BY <1>1
  <2>3. Alive'
    BY <1>1, <1>14 DEF Alive
  <2>4. MemoryOK'
    BY <1>2, <1>14 DEF MemoryOK
  <2>5. Safe(disk, pending, cutting, TreeOf(inode, data))'
    BY <1>1, <1>11, <1>14 DEF T
  <2>6. AfterAll' = DiskAfter(disk, w, Len(w))
    BY <1>1, <1>8 DEF AfterAll
  <2>7. Shows(Live(inode, data), AfterAll, inode, data, NoInum)'
    BY <1>2, <1>14, <2>6 DEF L
  <2>8. LinksFollow(Live(inode, data), AfterAll, inode)'
    BY <1>2, <1>14, <2>6 DEF L, LinksFollow
  <2> QED
    BY <1>13, <2>1, <2>2, <2>3, <2>4, <2>5, <2>7, <2>8 DEF CrashInd
<1> QED
  BY <1>12, <1>15 DEF T

-----------------------------------------------------------------------------
(* The writes of the handlers are writes of blocks that belong there. *)

(* Writing a data block is a write (write_block). *)
LEMMA DataWriteOK ==
  ASSUME NEW b \in Block, NEW blk, IsData(blk), blk.kind = "ptrs" => blk.ptrs \in [Ptr -> Block \cup {NoBlock}]
  PROVE  IsWrite(DataWrite(b, blk))
BY Addresses, DataBlockOK DEF IsWrite, DataWrite, Write

(* Writing a block of entries is a write, and it reads back as those       *)
(* entries.                                                                *)
LEMMA EntriesOK ==
  ASSUME NEW b \in Block, NEW e \in [Slot -> EntryType]
  PROVE  /\ IsData(Entries(e))
         /\ Entries(e).kind # "ptrs"
         /\ Seen(Entries(e)) = e
         /\ IsWrite(DataWrite(b, Entries(e)))
<1>1. Entries(e).kind = "entries" /\ Entries(e).entries = e
  BY DEF Entries
<1>2. IsData(Entries(e)) /\ Seen(Entries(e)) = e
  BY <1>1 DEF IsData, Seen
<1> QED
  BY <1>1, <1>2, DataWriteOK

(* Writing bytes of a file is a write of a data block. *)
LEMMA FileBytesOK ==
  ASSUME NEW b \in Block
  PROVE  /\ IsData(FileBytes)
         /\ FileBytes.kind # "ptrs"
         /\ IsWrite(DataWrite(b, FileBytes))
<1>1. FileBytes.kind = "bytes"
  BY DEF FileBytes
<1>2. IsData(FileBytes)
  BY <1>1 DEF IsData
<1> QED
  BY <1>1, <1>2, DataWriteOK

(* Writing the data bitmap is a write (sync_data_bitmap). *)
LEMMA DataBitsOK ==
  ASSUME NEW bits \in SUBSET Block
  PROVE  IsWrite(sync_data_bitmap(bits))
<1>1. BitsBlock(bits).kind = "bits" /\ BitsBlock(bits).bits = bits
  BY DEF BitsBlock
<1>2. BlockOK(Layout!d_bitmap_start, BitsBlock(bits))
  BY <1>1, Addresses DEF BlockOK, IsBits
<1> QED
  BY <1>2, Addresses DEF IsWrite, sync_data_bitmap, Write

(* Writing the inode bitmap is a write (sync_inode_bitmap). *)
LEMMA InodeBitsOK ==
  ASSUME NEW bits, bits \subseteq 0 .. Scanned(NumInodes) - 1
  PROVE  IsWrite(sync_inode_bitmap(bits))
<1>1. BitsBlock(bits).kind = "bits" /\ BitsBlock(bits).bits = bits
  BY DEF BitsBlock
<1>2. BlockOK(Layout!i_bitmap_start, BitsBlock(bits))
  BY <1>1, Addresses DEF BlockOK, IsBits
<1> QED
  BY <1>2, Addresses DEF IsWrite, sync_inode_bitmap, Write

(* Writing a block of the inode table is a write (sync_inode). *)
LEMMA InodeWriteOK ==
  ASSUME NEW table \in [Inum -> InodeType], NEW nums, AreNumbers(nums), NEW i \in Inum
  PROVE  IsWrite(Write(Layout!InodeLba(i), InodeBlock(table, nums, i \div InodesPerBlock)))
BY InodeBlockOK, TableAddresses DEF IsWrite, Write, AreNumbers

(* Writing the super block is a write (write_super). *)
LEMMA SuperOK == IsWrite(write_super)
<1>1. Super.kind = "super"
  BY DEF Super
<1>2. BlockOK(Layout!SUPER_LBA, Super)
  BY <1>1, Addresses DEF BlockOK
<1> QED
  BY <1>2, Addresses DEF IsWrite, write_super, Write

(* No file is in the middle of a truncate: then none that has a name. *)
LEMMA ShowsAnyCut ==
  ASSUME NEW L, L \subseteq Inum, NEW d, NEW tab, NEW dat, NEW c, Shows(L, d, tab, dat, NoInum)
  PROVE  Shows(L, d, tab, dat, c)
<1>1. NoInum \notin L
  BY InodesAssumption DEF NoInum, Inum
<1>2. Marked(L \ {c}, LoadedDataBitmap(d), tab)
  BY <1>1 DEF Shows, Marked
<1> QED
  BY <1>2 DEF Shows

-----------------------------------------------------------------------------
(* The end of the process *)

(* A free inode is an inode. *)
LEMMA FreeInodeType == FreeInode \in InodeType
<1>1. NumDirect \in Nat /\ MaxFileBlocks \in Nat
  BY PtrRange
<1> QED
  BY <1>1, LinksAssumption DEF FreeInode, InodeType

(* A block of unknown bytes, read as a directory, gives entries. *)
LEMMA OtherBlockType == OtherBlock \in [Slot -> EntryType]
BY DEF OtherBlock, EntryType, NoInum

(* Losing the memory and what was not written keeps the inductive          *)
(* invariant: the disk is sound by itself.                                 *)
LEMMA ForgetInd ==
  ASSUME CrashInd, Forget, pending' = <<>>, disk' = disk, cutting' = cutting
  PROVE  CrashInd'
<1>1. CrashTypes'
  <2>1. /\ inode' \in [Inum -> InodeType]
        /\ data' \in [Block -> [Slot -> EntryType]]
    BY FreeInodeType, OtherBlockType DEF Forget
  <2>2. inum' \in [Inum -> Inum] /\ \A i \in Inum : inum'[i] \in {0, i}
    BY InodesAssumption DEF Forget, Inum
  <2>3. inodeBitmap' = {} /\ dataBitmap' = {} /\ status' \in CrashStatus
    BY DEF Forget, CrashStatus
  <2> QED
    BY <2>1, <2>2, <2>3, NoWrites DEF CrashInd, CrashTypes
<1>2. status' = "down"
  BY DEF Forget
<1>3. Formatted(disk) => DiskSound(disk, cutting)
  BY SoundDisk
<1> QED
  BY <1>1, <1>2, <1>3 DEF CrashInd, Alive

(* The end of the process, after any of the writes of a request, keeps the *)
(* inductive invariant.                                                    *)
LEMMA CrashEndInd ==
  ASSUME CrashInd, Crash
  PROVE  CrashInd'
BY ForgetInd DEF Crash

(* Unmounting writes nothing and keeps the inductive invariant             *)
(* (refs_destroy, src/refs.c:485).                                         *)
LEMMA refs_destroyInd ==
  ASSUME CrashInd, refs_destroy
  PROVE  CrashInd'
BY ForgetInd DEF refs_destroy, Serving

-----------------------------------------------------------------------------
(* refs_init with a disk file *)

(* The number a mount finds in an inode is its own, or zero where its      *)
(* block of the table was never written.                                   *)
LEMMA LoadedNumIs ==
  ASSUME NEW d, IsDisk(d), Formatted(d), NEW i \in Inum
  PROVE  LoadedNum(d, i) \in {0, i}
<1> DEFINE blk == TableBlockOf(d, i)
           g == i \div InodesPerBlock
           j == i % InodesPerBlock
<1>1. blk = d[Layout!InodeLba(i)]
  BY LoadedFrom
<1>2. g \in 0 .. Layout!TableBlocks - 1 /\ j \in Shelf /\ g * InodesPerBlock + j = i
  BY Groups
<1>3. IsTable(blk, g)
  <2>1. Layout!InodeLba(i) = Layout!i_table_start + g
    BY DEF Layout!InodeLba
  <2>2. BlockOK(Layout!InodeLba(i), blk)
    BY <1>1, TableAddresses DEF IsDisk
  <2> HIDE DEF blk, g
  <2> QED
    BY <1>2, <2>1, <2>2 DEF BlockOK
<1>4. CASE blk.kind = "inodes"
  <2>1. LoadedNum(d, i) = blk.nums[j]
    BY <1>4 DEF LoadedNum
  <2>2. blk.nums[j] \in {0, g * InodesPerBlock + j}
    <3> HIDE DEF blk, g, j
    <3> QED
      BY <1>2, <1>3, <1>4 DEF IsTable
  <2> HIDE DEF blk, g, j
  <2> QED
    BY <1>2, <2>1, <2>2
<1>5. CASE blk.kind # "inodes"
  BY <1>5 DEF LoadedNum
<1> QED
  BY <1>4, <1>5

(* Mounting a formatted disk brings back what the disk has (refs_init,     *)
(* src/refs.c:443-474).                                                    *)
LEMMA MountInd ==
  ASSUME CrashInd, Mount
  PROVE  CrashInd'
<1>1. /\ status = "down" /\ disk # NoDisk /\ IsDisk(disk) /\ pending = <<>>
      /\ disk' = disk /\ pending' = pending
  BY DEF Mount, CrashInd, CrashTypes, Alive
<1>2. CASE /\ ~ Formatted(disk)
           /\ status' = "undefined"
           /\ UNCHANGED <<fsVars, inum, cutting>>
  <2>1. CrashTypes'
    BY <1>1, <1>2 DEF CrashInd, CrashTypes, fsVars, CrashStatus, Status
  <2> QED
    BY <1>1, <1>2, <2>1 DEF CrashInd, Alive
<1>3. ASSUME /\ Formatted(disk)
             /\ inodeBitmap' = LoadedInodeBitmap(disk)
             /\ dataBitmap' = LoadedDataBitmap(disk)
             /\ inode' = LoadedTable(disk)
             /\ data' = LoadedData(disk)
             /\ inum' = [i \in Inum |-> LoadedNum(disk, i)]
             /\ status' = IF UnmarkedOnDisk = {} THEN "up" ELSE "torn"
             /\ cutting' = IF UnmarkedOnDisk = {} THEN NoInum ELSE cutting
      PROVE  CrashInd'
  <2> DEFINE tab == LoadedTable(disk)
             dat == LoadedData(disk)
             L == LiveOn(disk)
  <2>1. DiskSound(disk, cutting)
    BY <1>3, SoundDisk
  <2>2. tab \in [Inum -> InodeType] /\ \A i \in Inum : tab[i] = LoadedInode(disk, i)
    BY <1>1, <1>3, LoadedTableType
  <2>3. CrashTypes'
    <3>1. /\ data' \in [Block -> [Slot -> EntryType]]
          /\ inodeBitmap' \subseteq 0 .. Scanned(NumInodes) - 1
          /\ dataBitmap' \subseteq Block
      BY <1>1, <1>3, LoadedDataIs, LoadedBitsType
    <3>2. inum' \in [Inum -> Inum] /\ \A i \in Inum : inum'[i] \in {0, i}
      <4>1. \A i \in Inum : LoadedNum(disk, i) \in {0, i} /\ 0 \in Inum
        BY <1>1, <1>3, LoadedNumIs, InodesAssumption DEF Inum
      <4> QED
        BY <1>3, <4>1
    <3>3. status' \in CrashStatus /\ cutting' \in Inum \cup {NoInum}
      BY <1>3 DEF CrashStatus, Status, CrashInd, CrashTypes
    <3> QED
      BY <1>1, <1>3, <2>2, <3>1, <3>2, <3>3 DEF CrashInd, CrashTypes
  <2>4. CASE UnmarkedOnDisk # {}
    BY <1>1, <1>3, <2>1, <2>3, <2>4 DEF CrashInd, Alive
  <2>5. CASE UnmarkedOnDisk = {}
    <3>1. Sound(tab, dat) /\ Live(tab, dat) = L /\ L \subseteq Inum /\ L \subseteq LoadedInodeBitmap(disk)
      BY <2>1 DEF DiskSound, LiveOn, Sound
    <3>2. Marked(L, LoadedDataBitmap(disk), tab)
      BY <2>5, <3>1, OnTheDisk DEF UnmarkedOnDisk, Marked
    <3>3. Shows(L, disk, tab, dat, NoInum)
      <4>1. Recs(L, disk, tab)
        <5>1. \A i \in L : Fine(tab[i])
          BY <3>1 DEF Sound
        <5> QED
          BY <2>2, <3>1, <5>1 DEF Recs, Fine
      <4>2. Ents(L, disk, tab, dat)
        BY DEF Ents
      <4> HIDE DEF tab, dat, L
      <4> QED
        BY <1>3, <3>1, <3>2, <4>1, <4>2 DEF Shows, Marked
    <3>4. Holds(disk, NoInum, TreeOf(tab, dat))
      BY <1>1, <1>3, <2>2, <3>1, <3>3, ShowsSound DEF Holds
    <3>5. Safe(disk, <<>>, NoInum, TreeOf(tab, dat)) /\ DiskAfter(disk, <<>>, Len(<<>>)) = disk
      BY <1>1, <3>4, PassesNone, PassesSteady
    <3>6. \A i \in L : tab[i].nLinks = LoadedInode(disk, i).nLinks
      BY <2>2, <3>1
    <3>7. /\ inode' = tab /\ data' = dat /\ status' = "up" /\ cutting' = NoInum /\ pending' = <<>>
      BY <1>1, <1>3, <2>5
    <3>8. MemoryOK'
      BY <1>3, <3>1, <3>2, <3>7 DEF MemoryOK
    <3>9. AfterAll' = disk
      BY <1>1, <3>5, <3>7 DEF AfterAll
    <3>10. Safe(disk, pending, cutting, TreeOf(inode, data))'
      BY <1>1, <3>5, <3>7
    <3>11. Shows(Live(inode, data), AfterAll, inode, data, NoInum)'
      BY <3>1, <3>3, <3>7, <3>9
    <3>12. LinksFollow(Live(inode, data), AfterAll, inode)'
      BY <3>1, <3>6, <3>7, <3>9 DEF LinksFollow
    <3>13. (disk = NoDisk => status = "down")' /\ (status = "up" /\ pending = <<>> => cutting = NoInum)' /\ Alive'
      BY <1>1, <3>7 DEF Alive
    <3> QED
      BY <2>3, <3>8, <3>10, <3>11, <3>12, <3>13 DEF CrashInd
  <2> QED
    BY <2>4, <2>5
<1> QED
  BY <1>2, <1>3 DEF Mount

-----------------------------------------------------------------------------
(* refs_init without a disk file *)

(* A new directory holds one block, with the entries for itself and its    *)
(* parent (initialize_dir_inode).                                          *)
LEMMA NewDirIs ==
  ASSUME NEW b \in Block
  PROVE  /\ NewDirInode(b) \in InodeType
         /\ Fine(NewDirInode(b))
         /\ NewDirInode(b).isDir
         /\ NewDirInode(b).blocks = 1
         /\ NewDirInode(b).ptrs[0] = b
         /\ Held(NewDirInode(b)) = {b}
<1>1. NewDirInode(b) \in InodeType /\ Fine(NewDirInode(b)) /\ Held(NewDirInode(b)) = {b}
  <2>1. FitsSize(NewDirInode(b))
    BY PointersAssumption DEF FitsSize, NewDirInode
  <2> QED
    BY <2>1, NewDirInodeHolds DEF Fine
<1>2. 0 \in PtrIndex
  BY PtrRange
<1> QED
  BY <1>1, <1>2 DEF NewDirInode

(* A directory block with no more than "." and "..". *)
LEMMA BareBlock ==
  ASSUME NEW self \in Inum, NEW parent \in Inum
  PROVE  /\ DirBlock(self, parent) \in [Slot -> EntryType]
         /\ \A s \in Slot : ~ IsNamed(DirBlock(self, parent)[s])
<1>1. \A s \in Slot : \/ DirBlock(self, parent)[s] = NoEntry
                      \/ DirBlock(self, parent)[s].name \in {".", ".."}
  <2>1. 0 \in Slot /\ 1 \in Slot
    BY DirentsAssumption DEF Slot
  <2> QED
    BY <2>1 DEF DirBlock, EmptyBlock
<1> QED
  BY <1>1, DirBlockType DEF IsNamed

(* A new directory has no named entries. *)
LEMMA BareDirectory ==
  ASSUME NEW b \in Block, NEW self \in Inum, NEW parent \in Inum, NEW dat, dat[b] = DirBlock(self, parent)
  PROVE  NamedIn(NewDirInode(b), dat) = {}
<1>1. ASSUME NEW x \in Spots(NewDirInode(b)) PROVE ~ IsNamed(EntryIn(NewDirInode(b), dat, x))
  <2>1. x[1] = 0 /\ x[2] \in Slot
    BY <1>1, NewDirIs DEF Spots
  <2> QED
    BY <2>1, NewDirIs, BareBlock DEF EntryIn
<1> QED
  BY <1>1 DEF NamedIn

(* The root alone is a sound tree. *)
LEMMA SoundRoot ==
  ASSUME NEW tab, NEW dat, tab = RootTable, NEW c \in Inum, dat[0] = DirBlock(ROOT_INUM, c)
  PROVE  /\ tab \in [Inum -> InodeType]
         /\ Live(tab, dat) = {ROOT_INUM}
         /\ Sound(tab, dat)
<1>1. ROOT_INUM \in Inum /\ 0 \in Block
  BY InodesAssumption, BlockIs DEF Inum, ROOT_INUM
<1>2. /\ tab[ROOT_INUM] = NewDirInode(0)
      /\ \A i \in Inum \ {ROOT_INUM} : tab[i] = FreeInode
      /\ tab \in [Inum -> InodeType]
  BY <1>1, NewDirIs, FreeInodeType DEF RootTable
<1>3. NamedIn(tab[ROOT_INUM], dat) = {}
  BY <1>1, <1>2, BareDirectory
<1>4. Dirs(tab) = {ROOT_INUM}
  BY <1>1, <1>2 DEF Dirs, FreeInode, NewDirInode
<1>5. EdgesIn(tab, dat) = {}
  BY <1>3, <1>4 DEF EdgesIn
<1>6. Live(tab, dat) = {ROOT_INUM}
  <2> DEFINE S == {ROOT_INUM}
  <2>1. ROOT_INUM \in S /\ \A e \in EdgesIn(tab, dat) : e.parent \in S => e.node \in S
    BY <1>5
  <2> HIDE DEF S
  <2>2. ROOT_INUM \in Live(tab, dat) /\ Live(tab, dat) \subseteq S
    BY <2>1, ReachedByIs DEF Live
  <2> QED
    BY <2>2 DEF S
<1>7. LiveDirs(tab, dat) = {ROOT_INUM}
  BY <1>1, <1>2, <1>6, NewDirIs DEF LiveDirs
<1> QED
  BY <1>1, <1>2, <1>3, <1>6, <1>7, NewDirIs DEF Sound

(* The length and the elements of a sequence with one appended. *)
LEMMA AppendIs ==
  ASSUME NEW S, NEW s \in Seq(S), NEW x \in S
  PROVE  /\ Append(s, x) \in Seq(S)
         /\ Len(Append(s, x)) = Len(s) + 1
         /\ Append(s, x)[Len(s) + 1] = x
         /\ \A k \in 1 .. Len(s) : Append(s, x)[k] = s[k]
OBVIOUS

(* What format_writes is, write by write. *)
LEMMA FormatWrites ==
  /\ Len(format_writes) = 5
  /\ format_writes = [k \in 1 .. 5 |-> format_writes[k]]
  /\ format_writes[1] = DataWrite(0, Entries(RootBlock))
  /\ format_writes[2] = sync_data_bitmap({0})
  /\ format_writes[3] = Write(Layout!InodeLba(ROOT_INUM), InodeBlock(RootTable, OwnNumbers, 0))
  /\ format_writes[4] = sync_inode_bitmap({ROOT_INUM})
  /\ format_writes[5] = write_super
<1> DEFINE a == DataWrite(0, Entries(RootBlock))
           b == sync_data_bitmap({0})
           c == Write(Layout!InodeLba(ROOT_INUM), InodeBlock(RootTable, OwnNumbers, 0))
           d == sync_inode_bitmap({ROOT_INUM})
<1>1. format_writes = Append(<<a, b, c, d>>, write_super)
  BY DEF format_writes, alloc_root_dir_writes
<1> HIDE DEF a, b, c, d
<1>2. /\ <<a, b, c, d>> \in Seq({a, b, c, d, write_super})
      /\ Len(<<a, b, c, d>>) = 4
      /\ <<a, b, c, d>>[1] = a /\ <<a, b, c, d>>[2] = b /\ <<a, b, c, d>>[3] = c /\ <<a, b, c, d>>[4] = d
  OBVIOUS
<1>3. /\ Len(format_writes) = 5
      /\ format_writes[1] = a /\ format_writes[2] = b /\ format_writes[3] = c /\ format_writes[4] = d
      /\ format_writes[5] = write_super
      /\ format_writes = [k \in 1 .. 5 |-> format_writes[k]]
  <2> DEFINE s == <<a, b, c, d>>
             S == {a, b, c, d, write_super}
  <2>1. s \in Seq(S) /\ Len(s) = 4 /\ write_super \in S /\ format_writes = Append(s, write_super)
    BY <1>1, <1>2
  <2> HIDE DEF s, S
  <2>2. /\ format_writes \in Seq(S)
        /\ Len(format_writes) = 5
        /\ format_writes[5] = write_super
        /\ \A k \in 1 .. 4 : format_writes[k] = s[k]
    <3>1. /\ Append(s, write_super) \in Seq(S)
          /\ Len(Append(s, write_super)) = Len(s) + 1
          /\ Append(s, write_super)[Len(s) + 1] = write_super
          /\ \A k \in 1 .. Len(s) : Append(s, write_super)[k] = s[k]
      <4> DEFINE x == write_super
      <4>1. s \in Seq(S) /\ x \in S
        BY <2>1
      <4> HIDE DEF x
      <4>2. /\ Append(s, x) \in Seq(S)
            /\ Len(Append(s, x)) = Len(s) + 1
            /\ Append(s, x)[Len(s) + 1] = x
            /\ \A k \in 1 .. Len(s) : Append(s, x)[k] = s[k]
        BY <4>1, AppendIs
      <4> QED
        BY <4>2 DEF x
    <3> QED
      BY <2>1, <3>1
  <2>3. format_writes = [k \in 1 .. 5 |-> format_writes[k]]
    BY <2>2
  <2>4. format_writes[1] = s[1] /\ format_writes[2] = s[2] /\ format_writes[3] = s[3] /\ format_writes[4] = s[4]
    BY <2>2
  <2> QED
    BY <1>2, <2>2, <2>3, <2>4 DEF s
<1> QED
  BY <1>3 DEF a, b, c, d

(* The writes that format a disk, in the order of alloc_root_dir and       *)
(* write_super (src/refs.c:420-423).                                       *)
LEMMA FormatWritesOK ==
  /\ IsWrites(format_writes)
  /\ format_writes[1].lba = Layout!DataLba(0) /\ format_writes[1].block = Entries(RootBlock)
  /\ format_writes[2].lba = Layout!d_bitmap_start /\ format_writes[2].block = BitsBlock({0})
  /\ format_writes[3].lba = Layout!InodeLba(ROOT_INUM)
  /\ format_writes[3].block = InodeBlock(RootTable, OwnNumbers, 0)
  /\ format_writes[4].lba = Layout!i_bitmap_start /\ format_writes[4].block = BitsBlock({ROOT_INUM})
  /\ format_writes[5].lba = Layout!SUPER_LBA /\ format_writes[5].block = Super
<1> DEFINE w == format_writes
<1>1. ROOT_INUM \in Inum /\ 0 \in Block /\ ROOT_INUM \div InodesPerBlock = 0
  BY InodesAssumption, BlockIs, TableAssumption DEF Inum, ROOT_INUM
<1>2. RootTable \in [Inum -> InodeType]
  BY <1>1, NewDirIs, FreeInodeType DEF RootTable
<1>3. AreNumbers(OwnNumbers)
  BY DEF AreNumbers, OwnNumbers
<1>4. RootBlock \in [Slot -> EntryType]
  BY <1>1, BareBlock DEF RootBlock
<1>5. {ROOT_INUM} \subseteq 0 .. Scanned(NumInodes) - 1
  BY ScannedCovers, InodesAssumption DEF ROOT_INUM
<1>6. IsWrite(w[1]) /\ IsWrite(w[2]) /\ IsWrite(w[3]) /\ IsWrite(w[4]) /\ IsWrite(w[5])
  <2>1. IsWrite(w[1])
    BY <1>1, <1>4, EntriesOK, FormatWrites
  <2>2. IsWrite(w[2])
    BY <1>1, DataBitsOK, FormatWrites
  <2>3. IsWrite(w[3])
    BY <1>1, <1>2, <1>3, InodeWriteOK, FormatWrites
  <2>4. IsWrite(w[4])
    BY <1>5, InodeBitsOK, FormatWrites
  <2> QED
    BY <2>1, <2>2, <2>3, <2>4, SuperOK, FormatWrites
<1>7. IsWrites(w)
  <2>1. \A k \in 1 .. 5 : k = 1 \/ k = 2 \/ k = 3 \/ k = 4 \/ k = 5
    OBVIOUS
  <2>2. \A k \in 1 .. 5 : IsWrite(w[k])
    BY <1>6, <2>1
  <2> HIDE DEF w
  <2>3. Len(w) = 5 /\ w = [k \in 1 .. 5 |-> w[k]]
    BY FormatWrites DEF w
  <2> QED
    BY <2>2, <2>3 DEF IsWrites, IsWrite
<1> QED
  BY <1>7, FormatWrites DEF DataWrite, sync_data_bitmap, sync_inode_bitmap, write_super, Write

(* A disk of zeros is a disk. *)
LEMMA ZeroDiskIsDisk == IsDisk(ZeroDisk)
<1>1. Zero.kind = "zero"
  BY DEF Zero
<1>2. ZeroDisk = [a \in Address |-> Zero]
  BY DEF ZeroDisk, Address
<1>3. \A a \in Address : BlockOK(a, Zero)
  BY <1>1 DEF BlockOK, IsBits, IsTable, IsData
<1>4. \A a \in Address : ZeroDisk[a] = Zero
  BY <1>2
<1> QED
  BY <1>2, <1>3, <1>4 DEF IsDisk

(* The disk of a root alone. *)
LEMMA FormattedDisk ==
  ASSUME NEW e, e = DiskAfter(ZeroDisk, format_writes, 5)
  PROVE  /\ IsDisk(e) /\ Formatted(e)
         /\ LoadedInode(e, ROOT_INUM) = NewDirInode(0)
         /\ LoadedData(e)[0] = RootBlock
         /\ LoadedInodeBitmap(e) = {ROOT_INUM}
         /\ LoadedDataBitmap(e) = {0}
<1> DEFINE w == format_writes
           r == NewDirInode(0)
<1>1. ROOT_INUM \in Inum /\ 0 \in Block /\ ROOT_INUM \div InodesPerBlock = 0
  BY InodesAssumption, BlockIs, TableAssumption DEF Inum, ROOT_INUM
<1>2. IsDisk(e)
  <2>1. IsWrites(w) /\ 5 \in 0 .. Len(w)
    BY FormatWritesOK, FormatWrites
  <2> HIDE DEF w
  <2>2. e = DiskAfter(ZeroDisk, w, 5)
    BY DEF w
  <2> QED
    BY <2>1, <2>2, ZeroDiskIsDisk, DiskAfterIsDisk
<1>3. \A k \in 1 .. 5 : k = 1 \/ k = 2 \/ k = 3 \/ k = 4 \/ k = 5
  OBVIOUS
<1>4. /\ LastFor(w, 5, Layout!DataLba(0), 1)
      /\ LastFor(w, 5, Layout!d_bitmap_start, 2)
      /\ LastFor(w, 5, Layout!InodeLba(ROOT_INUM), 3)
      /\ LastFor(w, 5, Layout!i_bitmap_start, 4)
      /\ LastFor(w, 5, Layout!SUPER_LBA, 5)
  <2> DEFINE A == Layout!DataLba(0)
             B == Layout!d_bitmap_start
             C == Layout!InodeLba(ROOT_INUM)
             D == Layout!i_bitmap_start
             E == Layout!SUPER_LBA
  <2>1. w[1].lba = A /\ w[2].lba = B /\ w[3].lba = C /\ w[4].lba = D /\ w[5].lba = E
    BY FormatWritesOK
  <2>2. A # B /\ A # C /\ A # D /\ A # E
    BY <1>1, Addresses, TableAddresses
  <2>3. B # C /\ B # D /\ B # E /\ C # D /\ C # E /\ D # E
    BY <1>1, Addresses, TableAddresses
  <2> HIDE DEF A, B, C, D, E, w
  <2>4. LastFor(w, 5, A, 1)
    BY <1>3, <2>1, <2>2 DEF LastFor
  <2>5. LastFor(w, 5, B, 2)
    BY <1>3, <2>1, <2>3 DEF LastFor
  <2>6. LastFor(w, 5, C, 3)
    BY <1>3, <2>1, <2>3 DEF LastFor
  <2>7. LastFor(w, 5, D, 4)
    BY <1>3, <2>1, <2>3 DEF LastFor
  <2>8. LastFor(w, 5, E, 5)
    BY <1>3, <2>1, <2>3 DEF LastFor
  <2> QED
    BY <2>4, <2>5, <2>6, <2>7, <2>8 DEF A, B, C, D, E
<1>5. /\ e[Layout!DataLba(0)] = Entries(RootBlock)
      /\ e[Layout!d_bitmap_start] = BitsBlock({0})
      /\ e[Layout!InodeLba(ROOT_INUM)] = InodeBlock(RootTable, OwnNumbers, 0)
      /\ e[Layout!i_bitmap_start] = BitsBlock({ROOT_INUM})
      /\ e[Layout!SUPER_LBA] = Super
  <2>1. /\ Layout!DataLba(0) \in Address /\ Layout!d_bitmap_start \in Address
        /\ Layout!InodeLba(ROOT_INUM) \in Address
        /\ Layout!i_bitmap_start \in Address /\ Layout!SUPER_LBA \in Address
    BY <1>1, Addresses, TableAddresses
  <2>2. e[Layout!DataLba(0)] = w[1].block
    BY <1>4, <2>1, DiskAfterAt
  <2>3. e[Layout!d_bitmap_start] = w[2].block
    BY <1>4, <2>1, DiskAfterAt
  <2>4. e[Layout!InodeLba(ROOT_INUM)] = w[3].block
    BY <1>4, <2>1, DiskAfterAt
  <2>5. e[Layout!i_bitmap_start] = w[4].block
    BY <1>4, <2>1, DiskAfterAt
  <2>6. e[Layout!SUPER_LBA] = w[5].block
    BY <1>4, <2>1, DiskAfterAt
  <2> QED
    BY <2>2, <2>3, <2>4, <2>5, <2>6, FormatWritesOK
<1> HIDE DEF w, r
<1>6. Formatted(e)
  <2>1. Super.kind = "super"
    BY DEF Super
  <2>2. e # NoDisk
    <3>1. e = [a \in Address |-> e[a]] /\ Layout!SUPER_LBA \in Address
      BY <1>2, Addresses DEF IsDisk
    <3>2. DOMAIN e = Address /\ DOMAIN NoDisk = {}
      BY <3>1 DEF NoDisk
    <3> QED
      BY <3>1, <3>2
  <2> QED
    BY <1>5, <2>1, <2>2 DEF Formatted
<1>7. LoadedInode(e, ROOT_INUM) = r
  <2>1. RootTable \in [Inum -> InodeType] /\ RootTable[ROOT_INUM] = r
    BY <1>1, NewDirIs, FreeInodeType DEF RootTable, r
  <2>2. AreNumbers(OwnNumbers)
    BY DEF AreNumbers, OwnNumbers
  <2>3. /\ InodeBlock(RootTable, OwnNumbers, 0).kind = "inodes"
        /\ InodeBlock(RootTable, OwnNumbers, 0).inodes[ROOT_INUM % InodesPerBlock] = OnDiskInode(r)
    BY <1>1, <2>1, <2>2, InodeBlockOK DEF AreNumbers
  <2>4. Raw(e, ROOT_INUM) = OnDiskInode(r)
    BY <1>5, <2>3 DEF Raw
  <2>5. LoadedInode(e, ROOT_INUM) = [OnDiskInode(r) EXCEPT !.ptrs = PointersOf(e, OnDiskInode(r))]
    BY <1>1, <1>2, <1>6, <2>4, LoadedInodeIs
  <2>6. r \in InodeType
    BY <1>1, NewDirIs DEF r
  <2>7. PointersOf(e, OnDiskInode(r)) = PointersOf(e, r)
    BY <1>2, <1>6, <2>6, PointersOfSaved
  <2>8. PointersOf(e, r) = r.ptrs
    <3>1. PointersOf(e, r) =
            [k \in PtrIndex |-> IF k < NumDirect THEN r.ptrs[k]
                                ELSE IF k < r.blocks THEN PtrsAt(e, r)[k - NumDirect] ELSE NoBlock]
      BY <1>2, <1>6, PointersAre
    <3>2. r.blocks = 1 /\ r.ptrs = [k \in PtrIndex |-> IF k = 0 THEN 0 ELSE NoBlock]
      BY DEF r, NewDirInode
    <3>3. \A k \in PtrIndex : ~ (k < NumDirect) => ~ (k < 1) /\ k # 0
      BY PtrRange
    <3> QED
      BY <3>1, <3>2, <3>3
  <2>9. [OnDiskInode(r) EXCEPT !.ptrs = r.ptrs] = [r EXCEPT !.ptrs = r.ptrs]
    BY <2>6, OnDiskInodeIs
  <2>10. [r EXCEPT !.ptrs = r.ptrs] = r
    BY <2>6 DEF InodeType
  <2> QED
    BY <2>5, <2>7, <2>8, <2>9, <2>10
<1>8. LoadedData(e)[0] = RootBlock
  <2>1. RootBlock \in [Slot -> EntryType]
    BY <1>1, BareBlock DEF RootBlock
  <2> QED
    BY <1>1, <1>2, <1>5, <1>6, <2>1, EntriesOK, LoadedDataIs
<1>9. LoadedInodeBitmap(e) = {ROOT_INUM} /\ LoadedDataBitmap(e) = {0}
  BY <1>2, <1>5, <1>6, LoadedFrom DEF BitsAt, BitsBlock
<1> QED
  BY <1>2, <1>6, <1>7, <1>8, <1>9 DEF r

(* Formatting, cut short or not, keeps the inductive invariant: the super  *)
(* block is written last.                                                  *)
LEMMA FormatInd ==
  ASSUME CrashInd, Format
  PROVE  CrashInd'
<1> DEFINE w == format_writes
           e == DiskAfter(ZeroDisk, w, 5)
           R == {ROOT_INUM}
<1>1. /\ disk' = ZeroDisk /\ inodeBitmap' = R /\ dataBitmap' = {0} /\ inode' = RootTable
      /\ data' = [data EXCEPT ![0] = RootBlock] /\ inum' = OwnNumbers /\ pending' = w
      /\ status' = "up" /\ cutting' = cutting
  BY DEF Format
<1>2. ROOT_INUM \in Inum /\ 0 \in Block
  BY InodesAssumption, BlockIs DEF Inum, ROOT_INUM
<1>3. data \in [Block -> [Slot -> EntryType]]
  BY DEF CrashInd, CrashTypes
<1>4. data' \in [Block -> [Slot -> EntryType]] /\ data'[0] = RootBlock
  <2>1. RootBlock \in [Slot -> EntryType]
    BY <1>2, BareBlock DEF RootBlock
  <2> QED
    BY <1>1, <1>2, <1>3, <2>1
<1>5. inode' \in [Inum -> InodeType] /\ Live(inode', data') = R /\ Sound(inode', data')
  BY <1>1, <1>2, <1>4, SoundRoot DEF RootBlock
<1>6. inode'[ROOT_INUM] = NewDirInode(0)
  BY <1>1, <1>2 DEF RootTable
<1>7. /\ IsDisk(e) /\ Formatted(e) /\ LoadedInode(e, ROOT_INUM) = NewDirInode(0)
      /\ LoadedData(e)[0] = RootBlock /\ LoadedInodeBitmap(e) = R /\ LoadedDataBitmap(e) = {0}
  BY FormattedDisk
<1>8. IsWrites(w) /\ Len(w) = 5
  BY FormatWrites, FormatWritesOK
<1>9. IsDisk(ZeroDisk)
  BY ZeroDiskIsDisk
<1>10. \A k \in 0 .. 4 : ~ Formatted(DiskAfter(ZeroDisk, w, k))
  <2> SUFFICES ASSUME NEW k \in 0 .. 4 PROVE ~ Formatted(DiskAfter(ZeroDisk, w, k))
    OBVIOUS
  <2>1. \A j \in 1 .. k : j = 1 \/ j = 2 \/ j = 3 \/ j = 4
    OBVIOUS
  <2>2. w[1].lba # Layout!SUPER_LBA /\ w[2].lba # Layout!SUPER_LBA /\ w[3].lba # Layout!SUPER_LBA
        /\ w[4].lba # Layout!SUPER_LBA
    BY <1>2, FormatWritesOK, Addresses, TableAddresses
  <2>3. NoneFor(w, k, Layout!SUPER_LBA)
    BY <2>1, <2>2 DEF NoneFor
  <2>4. Layout!SUPER_LBA \in Address /\ k \in Nat
    BY Addresses
  <2>5. DiskAfter(ZeroDisk, w, k)[Layout!SUPER_LBA] = ZeroDisk[Layout!SUPER_LBA]
    BY <2>3, <2>4, DiskAfterAt
  <2>6. ZeroDisk[Layout!SUPER_LBA] = Zero
    BY <2>4 DEF ZeroDisk, Address
  <2> QED
    BY <2>5, <2>6 DEF Formatted, Zero
<1> HIDE DEF w, e
<1>11. Shows(R, e, inode', data', NoInum)
  <2>1. NewDirInode(0).isDir /\ NewDirInode(0).blocks = 1 /\ NewDirInode(0).ptrs[0] = 0
        /\ Held(NewDirInode(0)) = {0}
    BY <1>2, NewDirIs
  <2>2. Recs(R, e, inode')
    BY <1>6, <1>7, <2>1 DEF Recs
  <2>3. Ents(R, e, inode', data')
    BY <1>4, <1>6, <1>7, <2>1 DEF Ents
  <2>4. Marked(R \ {NoInum}, {0}, inode')
    BY <1>6, <2>1 DEF Marked
  <2> QED
    BY <1>7, <2>2, <2>3, <2>4 DEF Shows
<1>12. Safe(ZeroDisk, w, cutting, TreeOf(inode', data'))
  <2>1. DiskSound(e, cutting)
    <3>1. R \subseteq Inum
      BY <1>2
    <3>2. Shows(R, e, inode', data', cutting)
      BY <1>11, <3>1, ShowsAnyCut
    <3>3. Live(inode', data') \subseteq R
      BY <1>5
    <3> HIDE DEF R
    <3> QED
      BY <1>5, <1>7, <3>1, <3>2, <3>3, ShowsSound
  <2>2. \A k \in 0 .. Len(w) : k \in 0 .. 4 \/ k = 5
    BY <1>8
  <2>3. \A k \in 1 .. Len(w) : k - 1 \in 0 .. 4
    BY <1>8
  <2>4. \A k \in 0 .. Len(w) : Formatted(DiskAfter(ZeroDisk, w, k)) => DiskSound(DiskAfter(ZeroDisk, w, k), cutting)
    BY <1>10, <2>1, <2>2 DEF e
  <2> QED
    BY <1>10, <2>3, <2>4 DEF Safe
<1>13. AfterAll' = e
  BY <1>1, <1>8 DEF AfterAll, e
<1>14. CrashTypes'
  <2>1. R \subseteq 0 .. Scanned(NumInodes) - 1
    BY ScannedCovers, InodesAssumption DEF ROOT_INUM
  <2>2. AreNumbers(OwnNumbers)
    BY DEF AreNumbers, OwnNumbers
  <2>3. status' \in CrashStatus
    BY <1>1 DEF CrashStatus, Status
  <2> QED
    BY <1>1, <1>2, <1>4, <1>5, <1>8, <1>9, <2>1, <2>2, <2>3 DEF CrashInd, CrashTypes, AreNumbers
<1>15. MemoryOK'
  <2>1. Held(NewDirInode(0)) = {0}
    BY <1>2, NewDirIs
  <2>2. Marked(R, {0}, inode')
    BY <1>6, <2>1 DEF Marked
  <2> QED
    BY <1>1, <1>5, <2>2 DEF MemoryOK
<1>16. LinksFollow(Live(inode, data), AfterAll, inode)'
  BY <1>5, <1>6, <1>7, <1>13 DEF LinksFollow
<1>17. (disk = NoDisk => status = "down")'
  <2>1. DOMAIN ZeroDisk = Address /\ Layout!SUPER_LBA \in Address /\ DOMAIN NoDisk = {}
    BY Addresses DEF ZeroDisk, Address, NoDisk
  <2>2. ZeroDisk # NoDisk
    BY <2>1
  <2> QED
    BY <1>1, <2>2
<1>18. (status = "up" /\ pending = <<>> => cutting = NoInum)'
  <2>1. w # <<>>
    BY <1>8
  <2> QED
    BY <1>1, <2>1
<1>19. Alive' /\ Safe(disk, pending, cutting, TreeOf(inode, data))'
       /\ Shows(Live(inode, data), AfterAll, inode, data, NoInum)'
  BY <1>1, <1>5, <1>11, <1>12, <1>13 DEF Alive
<1> QED
  BY <1>14, <1>15, <1>16, <1>17, <1>18, <1>19 DEF CrashInd

-----------------------------------------------------------------------------
(* What a disk shows from one write of a handler to the next: the inodes   *)
(* in L as tab and dat have them, of c perhaps without its blocks marked.  *)

View(L, d, tab, dat, c) ==
  /\ IsDisk(d)
  /\ FineTable(L, tab)
  /\ Shows(L, d, tab, dat, c)
  /\ inum = OwnNumbers => Follows(L, d, tab)

(* And that this is a sound name space with the tree T. *)
Stands(L, d, tab, dat, c, T) ==
  /\ View(L, d, tab, dat, c)
  /\ Sound(tab, dat)
  /\ Live(tab, dat) \subseteq L
  /\ TreeOf(tab, dat) = T

(* What stands on the way of a request is a sound disk. *)
LEMMA StandsHolds ==
  ASSUME NEW L, NEW d, NEW tab, NEW dat, NEW c, NEW T, Stands(L, d, tab, dat, c, T)
  PROVE  IsDisk(d) /\ Holds(d, c, T)
<1>1. IsDisk(d) /\ tab \in [Inum -> InodeType] /\ Shows(L, d, tab, dat, c) /\ Sound(tab, dat)
      /\ Live(tab, dat) \subseteq L /\ L \subseteq Inum /\ TreeOf(tab, dat) = T
  BY DEF Stands, View, FineTable
<1>2. DiskSound(d, c) /\ TreeOn(d) = TreeOf(tab, dat)
  BY <1>1, ShowsSound
<1> QED
  BY <1>1, <1>2 DEF Holds, Shows

(* One more write. *)
LEMMA StepPasses ==
  ASSUME NEW d, IsDisk(d), NEW x, IsWrite(x), NEW e, e = Landed(d, x),
         NEW L, NEW tab, NEW dat, NEW c, NEW T, Stands(L, e, tab, dat, c, T)
  PROVE  Passes(d, <<x>>, e, c, T)
BY StandsHolds, PassesOne

(* The link counts follow memory on any disk with the same records. *)
LEMMA FollowsSame ==
  ASSUME NEW L, NEW d, NEW e, NEW tab, SameRecords(L, d, e), Follows(L, d, tab)
  PROVE  Follows(L, e, tab)
BY DEF SameRecords, Follows

(* Fewer inodes are looked at. *)
LEMMA ViewLess ==
  ASSUME NEW L, NEW d, NEW tab, NEW dat, NEW c, View(L, d, tab, dat, c), NEW M, M \subseteq L
  PROVE  View(M, d, tab, dat, c)
<1>1. FineTable(M, tab)
  BY DEF View, FineTable
<1>2. Shows(M, d, tab, dat, c)
  <2>1. Shows(L, d, tab, dat, c)
    BY DEF View
  <2>2. Recs(M, d, tab)
    BY <2>1 DEF Shows, Recs
  <2>3. Ents(M, d, tab, dat)
    BY <2>1 DEF Shows, Ents
  <2>4. Marked(M \ {c}, LoadedDataBitmap(d), tab)
    BY <2>1 DEF Shows, Marked
  <2> QED
    BY <2>1, <2>2, <2>3, <2>4 DEF Shows
<1>3. inum = OwnNumbers => Follows(M, d, tab)
  BY DEF View, Follows
<1> QED
  BY <1>1, <1>2, <1>3 DEF View

(* A block of entries or of file bytes is written. *)
LEMMA ViewData ==
  ASSUME NEW L, NEW d, NEW tab, NEW dat, NEW c, View(L, d, tab, dat, c),
         NEW b \in Block, NEW blk, IsData(blk), blk.kind # "ptrs",
         \A i \in L : tab[i].blocks > NumDirect => tab[i].indirect # b,
         NEW dat2,
         \A i \in L : tab[i].isDir => \A k \in 0 .. tab[i].blocks - 1 :
           dat2[tab[i].ptrs[k]] = IF tab[i].ptrs[k] = b THEN Seen(blk) ELSE dat[tab[i].ptrs[k]],
         NEW e, e = Landed(d, DataWrite(b, blk))
  PROVE  /\ View(L, e, tab, dat2, c)
         /\ LoadedData(e) = [LoadedData(d) EXCEPT ![b] = Seen(blk)]
         /\ LoadedDataBitmap(e) = LoadedDataBitmap(d)
<1>1. IsDisk(d) /\ FineTable(L, tab) /\ Shows(L, d, tab, dat, c) /\ Formatted(d)
  BY DEF View, Shows
<1>2. IsDisk(e) /\ Shows(L, e, tab, dat2, c) /\ SameRecords(L, d, e)
  <2>1. blk.kind = "ptrs" => blk.ptrs \in [Ptr -> Block \cup {NoBlock}]
    OBVIOUS
  <2>2. Moved(L, d, e, tab, dat2, c)
    BY <1>1, <2>1, ShowsData
  <2> QED
    BY <2>2 DEF Moved
<1>3. LoadedData(e) = [LoadedData(d) EXCEPT ![b] = Seen(blk)] /\ LoadedDataBitmap(e) = LoadedDataBitmap(d)
  BY <1>1, DataLands
<1> QED
  BY <1>1, <1>2, <1>3, FollowsSame DEF View

(* A block that nobody has is written. *)
LEMMA ViewFresh ==
  ASSUME NEW L, NEW d, NEW tab, NEW dat, NEW c, View(L, d, tab, dat, c),
         NEW b \in Block, NEW blk, IsData(blk), blk.kind # "ptrs",
         \A i \in L : b \notin Held(tab[i]),
         NEW dat2, \A x \in Block : x # b => dat2[x] = dat[x],
         NEW e, e = Landed(d, DataWrite(b, blk))
  PROVE  /\ View(L, e, tab, dat2, c)
         /\ LoadedData(e) = [LoadedData(d) EXCEPT ![b] = Seen(blk)]
         /\ LoadedDataBitmap(e) = LoadedDataBitmap(d)
<1>1. FineTable(L, tab)
  BY DEF View
<1>2. \A i \in L : tab[i].blocks > NumDirect => tab[i].indirect # b
  BY <1>1, FineTableIs
<1>3. \A i \in L : tab[i].isDir => \A k \in 0 .. tab[i].blocks - 1 :
           dat2[tab[i].ptrs[k]] = IF tab[i].ptrs[k] = b THEN Seen(blk) ELSE dat[tab[i].ptrs[k]]
  <2> SUFFICES ASSUME NEW i \in L, tab[i].isDir, NEW k \in 0 .. tab[i].blocks - 1
               PROVE  dat2[tab[i].ptrs[k]] = dat[tab[i].ptrs[k]] /\ tab[i].ptrs[k] # b
    OBVIOUS
  <2>1. tab[i].ptrs[k] \in Held(tab[i]) /\ tab[i].ptrs[k] \in Block
    BY <1>1, FineTableIs
  <2>2. tab[i].ptrs[k] # b
    BY <2>1
  <2> QED
    BY <2>1, <2>2
<1> QED
  BY <1>2, <1>3, ViewData

(* The data bitmap that reaches the disk leaves every inode as it was, and *)
(* marks what it holds.                                                    *)
LEMMA ViewDataBits ==
  ASSUME NEW L, NEW d, NEW tab, NEW dat, NEW c, View(L, d, tab, dat, c),
         NEW bits \in SUBSET Block, NEW c2, Marked(L \ {c2}, bits, tab),
         NEW e, e = Landed(d, sync_data_bitmap(bits))
  PROVE  /\ View(L, e, tab, dat, c2)
         /\ LoadedData(e) = LoadedData(d)
         /\ LoadedDataBitmap(e) = bits
         /\ \A r : HasPtrs(r) => PointersOf(e, r) = PointersOf(d, r)
<1>1. IsDisk(d) /\ FineTable(L, tab) /\ Shows(L, d, tab, dat, c) /\ Formatted(d)
  BY DEF View, Shows
<1>2. IsDisk(e) /\ Shows(L, e, tab, dat, c2) /\ SameRecords(L, d, e)
  <2>1. Moved(L, d, e, tab, dat, c2)
    BY <1>1, ShowsDataBits
  <2> QED
    BY <2>1 DEF Moved
<1>3. /\ LoadedData(e) = LoadedData(d)
      /\ LoadedDataBitmap(e) = bits
      /\ \A r : HasPtrs(r) => PointersOf(e, r) = PointersOf(d, r)
  BY <1>1, DataBitsLand
<1> QED
  BY <1>1, <1>2, <1>3, FollowsSame DEF View

(* What a block of inodes makes of the records tab: those in table.  They  *)
(* may differ near i, where the pointers and the entries are on the disk.  *)
Turns(L, d, tab, table, dat, i) ==
  \A j \in L :
    \/ Durable(table[j]) = Durable(tab[j])
    \/ /\ j \in Near(i)
       /\ PointersOf(d, table[j]) = table[j].ptrs
       /\ table[j].isDir => \A k \in 0 .. table[j].blocks - 1 :
            LoadedData(d)[table[j].ptrs[k]] = dat[table[j].ptrs[k]]

(* A block of inodes is written from table. *)
InodesWrite(table, i) == Write(Layout!InodeLba(i), InodeBlock(table, inum, i \div InodesPerBlock))

(* A block of the inode table that reaches the disk shows the changed      *)
(* inode, and keeps the others in it.                                      *)
LEMMA ViewInodes ==
  ASSUME NEW L, NEW d, NEW tab, NEW dat, NEW c, View(L, d, tab, dat, c), AreNumbers(inum), NEW i \in Inum,
         NEW table, FineTable(L, table), Turns(L, d, tab, table, dat, i),
         NEW c2, Marked(L \ {c2}, LoadedDataBitmap(d), table),
         inum = OwnNumbers => \A j \in L \ Near(i) : table[j].nLinks = tab[j].nLinks,
         NEW e, e = Landed(d, InodesWrite(table, i))
  PROVE  /\ View(L, e, table, dat, c2)
         /\ \A j \in L \cap Near(i) : LoadedInode(e, j).nLinks = table[j].nLinks
<1>1. /\ IsDisk(d) /\ FineTable(L, tab) /\ Formatted(d) /\ Recs(L, d, tab) /\ Ents(L, d, tab, dat)
      /\ L \subseteq LoadedInodeBitmap(d)
  BY DEF View, Shows
<1>2. /\ table \in [Inum -> InodeType] /\ tab \in [Inum -> InodeType]
      /\ inum \in [Inum -> Inum] /\ \A j \in Inum : inum[j] \in {0, j}
      /\ L \subseteq Inum
  BY <1>1 DEF FineTable, AreNumbers
<1>3. \A j \in L \cap Near(i) : /\ Durable(table[j]) = Durable(table[j])
                                /\ ~ table[j].isDir => table[j].nLinks = 1
                                /\ PointersOf(d, table[j]) = table[j].ptrs
  <2> SUFFICES ASSUME NEW j \in L \cap Near(i)
               PROVE  (~ table[j].isDir => table[j].nLinks = 1) /\ PointersOf(d, table[j]) = table[j].ptrs
    OBVIOUS
  <2>1. ~ table[j].isDir => table[j].nLinks = 1
    BY DEF FineTable, Fine
  <2>2. ASSUME Durable(table[j]) = Durable(tab[j]) PROVE PointersOf(d, table[j]) = table[j].ptrs
    <3>1. Durable(LoadedInode(d, j)) = Durable(table[j]) /\ j \in Inum
      BY <1>1, <1>2, <2>2 DEF Recs
    <3> QED
      BY <1>1, <1>2, <3>1, ShownPointers
  <2> QED
    BY <2>1, <2>2 DEF Turns
<1>4. Recs(L \ Near(i), d, table)
  <2> SUFFICES ASSUME NEW j \in L \ Near(i)
               PROVE  /\ Durable(LoadedInode(d, j)) = Durable(table[j])
                      /\ ~ table[j].isDir => LoadedInode(d, j).nLinks = 1
    BY DEF Recs
  <2>1. Durable(table[j]) = Durable(tab[j])
    BY DEF Turns
  <2>2. table[j].isDir = tab[j].isDir
    <3>1. j \in Inum /\ table[j] \in InodeType /\ tab[j] \in InodeType
      BY <1>2
    <3> QED
      BY <2>1, <3>1, DurableIs
  <2> QED
    BY <1>1, <2>1, <2>2 DEF Recs
<1>5. Ents(L, d, table, dat)
  <2> SUFFICES ASSUME NEW j \in L, table[j].isDir, NEW k \in 0 .. table[j].blocks - 1
               PROVE  LoadedData(d)[table[j].ptrs[k]] = dat[table[j].ptrs[k]]
    BY DEF Ents
  <2>1. CASE Durable(table[j]) = Durable(tab[j])
    <3>1. j \in Inum /\ table[j] \in InodeType /\ tab[j] \in InodeType
      BY <1>2
    <3>2. table[j].isDir = tab[j].isDir /\ table[j].blocks = tab[j].blocks /\ table[j].ptrs = tab[j].ptrs
      BY <2>1, <3>1, DurableIs
    <3> QED
      BY <1>1, <3>2 DEF Ents
  <2> QED
    BY <2>1 DEF Turns
<1>6. /\ IsDisk(e) /\ Formatted(e)
      /\ Recs(L, e, table)
      /\ Ents(L, e, table, dat)
      /\ LoadedInodeBitmap(e) = LoadedInodeBitmap(d)
      /\ LoadedDataBitmap(e) = LoadedDataBitmap(d)
      /\ \A j \in L \cap Near(i) : LoadedInode(e, j) = table[j]
      /\ \A j \in L \ Near(i) : LoadedInode(e, j) = LoadedInode(d, j)
  <2>1. e = Landed(d, Write(Layout!InodeLba(i), InodeBlock(table, inum, i \div InodesPerBlock)))
    BY DEF InodesWrite
  <2>2. MovedInodes(L, d, e, table, table, dat, i)
    BY <1>1, <1>2, <1>3, <1>4, <1>5, <2>1, ShowsInodes
  <2> QED
    BY <2>2 DEF MovedInodes
<1>7. Shows(L, e, table, dat, c2)
  BY <1>1, <1>6 DEF Shows
<1>8. inum = OwnNumbers => Follows(L, e, table)
  <2> SUFFICES ASSUME inum = OwnNumbers, NEW j \in L
               PROVE  table[j].nLinks \in {LoadedInode(e, j).nLinks, IncLinks(LoadedInode(e, j).nLinks)}
    BY DEF Follows
  <2>1. CASE j \in Near(i)
    BY <1>6, <2>1
  <2>2. CASE j \notin Near(i)
    BY <1>6, <2>2 DEF Follows, View
  <2> QED
    BY <2>1, <2>2
<1> QED
  BY <1>6, <1>7, <1>8 DEF View

(* Records that differ in no more than links and permissions, and blocks   *)
(* that no directory has.                                                  *)
LEMMA ViewAlike ==
  ASSUME NEW L, NEW d, NEW tab, NEW dat, NEW c, View(L, d, tab, dat, c),
         NEW tab2, FineTable(L, tab2), \A j \in L : Durable(tab2[j]) = Durable(tab[j]),
         inum = OwnNumbers => Follows(L, d, tab2),
         NEW dat2,
         \A j \in L : tab[j].isDir => \A k \in 0 .. tab[j].blocks - 1 : dat2[tab[j].ptrs[k]] = dat[tab[j].ptrs[k]]
  PROVE  View(L, d, tab2, dat2, c)
<1>1. /\ IsDisk(d) /\ FineTable(L, tab) /\ Formatted(d) /\ Recs(L, d, tab) /\ Ents(L, d, tab, dat)
      /\ L \subseteq LoadedInodeBitmap(d) /\ Marked(L \ {c}, LoadedDataBitmap(d), tab)
  BY DEF View, Shows
<1>2. ASSUME NEW j \in L
      PROVE  /\ tab2[j].isDir = tab[j].isDir /\ Held(tab2[j]) = Held(tab[j])
             /\ tab2[j].blocks = tab[j].blocks /\ tab2[j].ptrs = tab[j].ptrs
  <2>1. tab[j] \in InodeType /\ tab2[j] \in InodeType /\ Fine(tab[j]) /\ Fine(tab2[j])
    BY <1>1 DEF FineTable
  <2>2. ~ tab[j].isDir => tab2[j].nLinks = 1
    <3>1. tab2[j].isDir = tab[j].isDir
      BY <2>1, DurableIs
    <3> QED
      BY <2>1, <3>1 DEF Fine
  <2> QED
    BY <2>1, <2>2, FineSame
<1>3. Recs(L, d, tab2)
  BY <1>1, <1>2 DEF Recs
<1>4. Ents(L, d, tab2, dat2)
  BY <1>1, <1>2 DEF Ents
<1>5. Marked(L \ {c}, LoadedDataBitmap(d), tab2)
  BY <1>1, <1>2 DEF Marked
<1> QED
  BY <1>1, <1>3, <1>4, <1>5 DEF View, Shows

(* The bit of the root is 1 whenever a search finds another one. *)
LEMMA RootBit ==
  ASSUME inodeBitmap \subseteq 0 .. Scanned(NumInodes) - 1, reserve_inode # ROOT_INUM
  PROVE  ROOT_INUM \in inodeBitmap
<1>1. NumInodes \in Nat /\ Scanned(NumInodes) \in Nat /\ 0 \in 0 .. Scanned(NumInodes) - 1
  BY InodesAssumption, ScannedCovers
<1>2. ASSUME 0 \notin inodeBitmap PROVE FALSE
  <2>1. 0 \in UnsetBits(inodeBitmap, NumInodes)
    BY <1>1, <1>2 DEF UnsetBits
  <2>2. \A y \in UnsetBits(inodeBitmap, NumInodes) : 0 <= y
    BY <1>1 DEF UnsetBits
  <2> QED
    BY <1>1, <2>1, <2>2, LeastIsFirst DEF reserve_inode, ROOT_INUM
<1> QED
  BY <1>2 DEF ROOT_INUM

(* The pointers of a record without an indirect block. *)
LEMMA DirectPointers ==
  ASSUME NEW d, IsDisk(d), Formatted(d), NEW r \in InodeType, ~ (r.blocks > NumDirect),
         \A k \in PtrIndex : ~ (k < NumDirect) => r.ptrs[k] = NoBlock
  PROVE  PointersOf(d, r) = r.ptrs
<1>1. PointersOf(d, r) =
        [k \in PtrIndex |-> IF k < NumDirect THEN r.ptrs[k]
                            ELSE IF k < r.blocks THEN PtrsAt(d, r)[k - NumDirect] ELSE NoBlock]
  BY PointersAre
<1>2. r.ptrs \in [PtrIndex -> Block \cup {NoBlock}] /\ r.blocks \in Nat
  BY DEF InodeType
<1>3. \A k \in PtrIndex : ~ (k < NumDirect) => ~ (k < r.blocks)
  BY <1>2, PtrRange
<1> QED
  BY <1>1, <1>2, <1>3

(* The record of a directory is shown: it has no pointers beyond the       *)
(* direct ones.                                                            *)
LEMMA NoMorePointers ==
  ASSUME NEW L, NEW d, NEW tab, NEW dat, NEW c, View(L, d, tab, dat, c), NEW i \in L,
         NEW k \in PtrIndex, ~ (k < NumDirect), ~ (k < tab[i].blocks)
  PROVE  tab[i].ptrs[k] = NoBlock
<1>1. IsDisk(d) /\ Formatted(d) /\ tab \in [Inum -> InodeType] /\ i \in Inum
      /\ Durable(LoadedInode(d, i)) = Durable(tab[i])
  BY DEF View, Shows, Recs, FineTable
<1>2. PointersOf(d, tab[i]) = tab[i].ptrs
  BY <1>1, ShownPointers
<1>3. PointersOf(d, tab[i]) =
        [l \in PtrIndex |-> IF l < NumDirect THEN tab[i].ptrs[l]
                            ELSE IF l < tab[i].blocks THEN PtrsAt(d, tab[i])[l - NumDirect] ELSE NoBlock]
  BY <1>1, PointersAre
<1> QED
  BY <1>2, <1>3

(* A new inode is on the disk, then also its bit. *)
LEMMA ViewNewInode ==
  ASSUME NEW L, NEW d, NEW tab, NEW dat, View(L, d, tab, dat, NoInum), AreNumbers(inum),
         NEW c \in Inum, c \notin L, NEW table, table = Put(tab, c, table[c]),
         table[c] \in InodeType, Fine(table[c]), PointersOf(d, table[c]) = table[c].ptrs,
         table[c].isDir => \A k \in 0 .. table[c].blocks - 1 :
           LoadedData(d)[table[c].ptrs[k]] = dat[table[c].ptrs[k]],
         Held(table[c]) \subseteq LoadedDataBitmap(d),
         NEW bits, bits \subseteq 0 .. Scanned(NumInodes) - 1, L \cup {c} \subseteq bits,
         NEW e, e = Landed(d, InodesWrite(table, c)),
         NEW f, f = Landed(e, sync_inode_bitmap(bits))
  PROVE  /\ View(L, e, table, dat, NoInum)
         /\ View(L \cup {c}, f, table, dat, NoInum)
<1> DEFINE M == L \cup {c}
<1>1. /\ IsDisk(d) /\ FineTable(L, tab) /\ Formatted(d) /\ Recs(L, d, tab) /\ Ents(L, d, tab, dat)
      /\ L \subseteq LoadedInodeBitmap(d) /\ Marked(L \ {NoInum}, LoadedDataBitmap(d), tab)
  BY DEF View, Shows
<1>2. tab \in [Inum -> InodeType] /\ L \subseteq Inum
  BY <1>1 DEF FineTable
<1>3. table \in [Inum -> InodeType] /\ \A j \in L : table[j] = tab[j]
  <2>1. Put(tab, c, table[c]) \in [Inum -> InodeType] /\ \A j \in Inum : j # c => Put(tab, c, table[c])[j] = tab[j]
    BY <1>2, PutIs
  <2> QED
    BY <1>2, <2>1
<1>4. FineTable(L, table) /\ FineTable(M, table)
  BY <1>1, <1>3 DEF FineTable
<1>5. View(L, e, table, dat, NoInum)
  <2>1. Turns(L, d, tab, table, dat, c)
    BY <1>3 DEF Turns
  <2>2. Marked(L \ {NoInum}, LoadedDataBitmap(d), table)
    BY <1>1, <1>3 DEF Marked
  <2>3. \A j \in L \ Near(c) : table[j].nLinks = tab[j].nLinks
    BY <1>3
  <2> QED
    BY <1>4, <2>1, <2>2, <2>3, ViewInodes
<1>6. MovedInodes(M, d, e, table, table, dat, c)
  <2>1. \A j \in M \cap Near(c) :
          /\ Durable(table[j]) = Durable(table[j])
          /\ ~ table[j].isDir => table[j].nLinks = 1
          /\ PointersOf(d, table[j]) = table[j].ptrs
    <3> SUFFICES ASSUME NEW j \in M \cap Near(c)
                 PROVE  (~ table[j].isDir => table[j].nLinks = 1) /\ PointersOf(d, table[j]) = table[j].ptrs
      OBVIOUS
    <3>1. ~ table[j].isDir => table[j].nLinks = 1
      BY <1>4 DEF FineTable, Fine
    <3>2. CASE j # c
      <4>1. Durable(LoadedInode(d, j)) = Durable(table[j]) /\ j \in Inum
        BY <1>1, <1>2, <1>3, <3>2 DEF Recs
      <4> QED
        BY <1>1, <1>3, <3>1, <4>1, ShownPointers
    <3> QED
      BY <3>1, <3>2
  <2>2. Recs(M \ Near(c), d, table)
    <3>1. c \in Near(c)
      BY DEF Near
    <3> QED
      BY <1>1, <1>3, <3>1 DEF Recs
  <2>3. Ents(M, d, table, dat)
    <3> SUFFICES ASSUME NEW j \in M, table[j].isDir, NEW k \in 0 .. table[j].blocks - 1
                 PROVE  LoadedData(d)[table[j].ptrs[k]] = dat[table[j].ptrs[k]]
      BY DEF Ents
    <3> QED
      BY <1>1, <1>3 DEF Ents
  <2>4. e = Landed(d, Write(Layout!InodeLba(c), InodeBlock(table, inum, c \div InodesPerBlock)))
    BY DEF InodesWrite
  <2>5. IsDisk(d) /\ Formatted(d) /\ table \in [Inum -> InodeType] /\ FineTable(M, table)
    BY <1>1, <1>3, <1>4
  <2> HIDE DEF M
  <2> QED
    BY <2>1, <2>2, <2>3, <2>4, <2>5, ShowsInodes
<1>7. Moved(M, e, f, table, dat, NoInum)
  <2>1. Marked(M \ {NoInum}, LoadedDataBitmap(e), table)
    BY <1>1, <1>3, <1>6 DEF Marked, MovedInodes
  <2>2. IsDisk(e) /\ Formatted(e) /\ Recs(M, e, table) /\ Ents(M, e, table, dat)
    BY <1>6 DEF MovedInodes
  <2> QED
    BY <1>4, <2>1, <2>2, ShowsInodeBits
<1>8. inum = OwnNumbers => Follows(M, f, table)
  <2>1. c \in Near(c)
    BY DEF Near
  <2>2. LoadedInode(e, c) = table[c]
    BY <1>6, <2>1 DEF MovedInodes
  <2>3. inum = OwnNumbers => Follows(M, e, table)
    BY <1>5, <2>2 DEF View, Follows
  <2>4. SameRecords(M, e, f)
    BY <1>7 DEF Moved
  <2> QED
    BY <2>3, <2>4, FollowsSame
<1>9. View(M, f, table, dat, NoInum)
  BY <1>4, <1>7, <1>8 DEF View, Moved
<1> QED
  BY <1>5, <1>9

-----------------------------------------------------------------------------
(* Short sequences of writes. *)

(* Sequences of the same length and elements are the same. *)
LEMMA SeqSame ==
  ASSUME NEW S, NEW s \in Seq(S), NEW t \in Seq(S), Len(s) = Len(t), \A k \in 1 .. Len(s) : s[k] = t[k]
  PROVE  s = t
<1>1. s = [k \in 1 .. Len(s) |-> s[k]] /\ t = [k \in 1 .. Len(t) |-> t[k]]
  OBVIOUS
<1> QED
  BY <1>1

(* Two single writes joined. *)
LEMMA TwoWrites ==
  ASSUME NEW x, NEW y
  PROVE  <<x>> \o <<y>> = <<x, y>>
<1> DEFINE S == {x, y}
           s == <<x>>
           t == <<y>>
           w == <<x, y>>
<1>1. s \in Seq(S) /\ t \in Seq(S) /\ w \in Seq(S)
  OBVIOUS
<1>2. Len(s) = 1 /\ Len(t) = 1 /\ Len(w) = 2 /\ s[1] = x /\ t[1] = y /\ w[1] = x /\ w[2] = y
  OBVIOUS
<1> HIDE DEF S, s, t, w
<1>3. s \o t \in Seq(S) /\ Len(s \o t) = 2 /\ (s \o t)[1] = x /\ (s \o t)[2] = y
  <2>1. (s \o t)[Len(s) + 1] = t[1] /\ (s \o t)[1] = s[1] /\ Len(s \o t) = Len(s) + Len(t) /\ s \o t \in Seq(S)
    <3>1. 1 \in 1 .. Len(s) /\ 1 \in 1 .. Len(t)
      BY <1>2
    <3> QED
      BY <1>1, <3>1, JoinedIs
  <2>2. 1 + 1 = 2
    OBVIOUS
  <2> QED
    BY <1>2, <2>1, <2>2
<1>4. s \o t = w
  BY <1>1, <1>2, <1>3, SeqSame
<1> QED
  BY <1>4 DEF s, t, w

(* Two writes and one joined. *)
LEMMA ThreeWrites ==
  ASSUME NEW x, NEW y, NEW z
  PROVE  <<x, y>> \o <<z>> = <<x, y, z>>
<1> DEFINE S == {x, y, z}
           s == <<x, y>>
           t == <<z>>
           w == <<x, y, z>>
<1>1. s \in Seq(S) /\ t \in Seq(S) /\ w \in Seq(S)
  OBVIOUS
<1>2. Len(s) = 2 /\ Len(t) = 1 /\ Len(w) = 3 /\ s[1] = x /\ s[2] = y /\ t[1] = z /\ w[1] = x /\ w[2] = y /\ w[3] = z
  OBVIOUS
<1> HIDE DEF S, s, t, w
<1>3. s \o t \in Seq(S) /\ Len(s \o t) = 3 /\ (s \o t)[1] = x /\ (s \o t)[2] = y /\ (s \o t)[3] = z
  <2>1. /\ (s \o t)[Len(s) + 1] = t[1] /\ (s \o t)[1] = s[1] /\ (s \o t)[2] = s[2]
        /\ Len(s \o t) = Len(s) + Len(t) /\ s \o t \in Seq(S)
    <3>1. 1 \in 1 .. Len(s) /\ 2 \in 1 .. Len(s) /\ 1 \in 1 .. Len(t)
      BY <1>2
    <3> QED
      BY <1>1, <3>1, JoinedIs
  <2>2. 2 + 1 = 3
    OBVIOUS
  <2> QED
    BY <1>2, <2>1, <2>2
<1>4. s \o t = w
  <2>1. \A k \in 1 .. 3 : k = 1 \/ k = 2 \/ k = 3
    OBVIOUS
  <2> QED
    BY <1>1, <1>2, <1>3, <2>1, SeqSame
<1> QED
  BY <1>4 DEF s, t, w

(* Two writes that each keep the disk sound. *)
LEMMA PassesTwo ==
  ASSUME NEW d, NEW x, NEW e, NEW y, NEW f, NEW c, NEW T, Passes(d, <<x>>, e, c, T), Passes(e, <<y>>, f, c, T)
  PROVE  Passes(d, <<x, y>>, f, c, T)
BY PassesJoined, TwoWrites

(* Three writes that each keep the disk sound. *)
LEMMA PassesThree ==
  ASSUME NEW d, NEW x, NEW y, NEW e, NEW z, NEW f, NEW c, NEW T,
         Passes(d, <<x, y>>, e, c, T), Passes(e, <<z>>, f, c, T)
  PROVE  Passes(d, <<x, y, z>>, f, c, T)
BY PassesJoined, ThreeWrites

=============================================================================

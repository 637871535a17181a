--------------------------- MODULE RefsCrashProofs ---------------------------
(***************************************************************************)
(* Theorems of RefsCrash, at the end: whichever write of a handler is the  *)
(* last that reaches the disk, and however often the file system is        *)
(* mounted again, the disk has a name space without dangling entries or    *)
(* shared blocks, which is the one before or the one after the request.    *)
(***************************************************************************)
EXTENDS DiskProofs

-----------------------------------------------------------------------------
(* Between two requests *)

(* Between two requests the disk shows what the memory has. *)
LEMMA AtRest ==
  ASSUME CrashInd, Serving
  PROVE  /\ Stands(Live(inode, data), disk, inode, data, NoInum, TreeOf(inode, data))
         /\ AreNumbers(inum)
         /\ IsDisk(disk) /\ cutting = NoInum /\ dataBitmap \subseteq Block
         /\ inodeBitmap \subseteq 0 .. Scanned(NumInodes) - 1
         /\ data \in [Block -> [Slot -> EntryType]]
         /\ inode \in [Inum -> InodeType]
         /\ Live(inode, data) \subseteq Inum
         /\ Live(inode, data) \ {ROOT_INUM} \subseteq inodeBitmap
         /\ Marked(Live(inode, data), dataBitmap, inode)
         /\ \A b : b \notin dataBitmap => \A i \in Live(inode, data) : b \notin Held(inode[i])
<1>1. /\ IsDisk(disk) /\ cutting = NoInum
      /\ Sound(inode, data)
      /\ FineTable(Live(inode, data), inode)
      /\ Live(inode, data) \ {ROOT_INUM} \subseteq inodeBitmap
      /\ Marked(Live(inode, data), dataBitmap, inode)
      /\ Shows(Live(inode, data), disk, inode, data, NoInum)
      /\ inum = OwnNumbers => Follows(Live(inode, data), disk, inode)
  BY BetweenRequests
<1>2. /\ AreNumbers(inum) /\ dataBitmap \subseteq Block /\ inodeBitmap \subseteq 0 .. Scanned(NumInodes) - 1
      /\ data \in [Block -> [Slot -> EntryType]] /\ inode \in [Inum -> InodeType]
  BY DEF CrashInd, CrashTypes, AreNumbers
<1>3. \A b : b \notin dataBitmap => \A i \in Live(inode, data) : b \notin Held(inode[i])
  BY <1>1 DEF Marked
<1> QED
  BY <1>1, <1>2, <1>3 DEF Stands, View, FineTable

(* A block of data that no directory has changes no name. *)
LEMMA SameNames ==
  ASSUME NEW L, NEW tab, NEW dat, FineTable(L, tab), Sound(tab, dat), L = Live(tab, dat),
         NEW b, \A i \in L : b \notin Held(tab[i]),
         NEW dat2, \A x \in Block : x # b => dat2[x] = dat[x],
         NEW tab2, \A i \in L : tab2[i] = tab[i]
  PROVE  /\ Sound(tab2, dat2)
         /\ Live(tab2, dat2) = L
         /\ TreeOf(tab2, dat2) = TreeOf(tab, dat)
<1>1. \A i \in L : Fine(tab2[i]) /\ tab2[i].isDir = tab[i].isDir
  BY DEF FineTable
<1>2. \A i, j \in L : i # j => Held(tab2[i]) \cap Held(tab2[j]) = {}
  BY DEF Sound
<1>3. ASSUME NEW i \in LiveDirs(tab, dat)
      PROVE  /\ NamedIn(tab2[i], dat2) = NamedIn(tab[i], dat)
             /\ \A x \in NamedIn(tab[i], dat) : EntryIn(tab2[i], dat2, x) = EntryIn(tab[i], dat, x)
  <2>1. i \in L /\ tab2[i] = tab[i]
    BY DEF LiveDirs
  <2>2. ASSUME NEW x \in Spots(tab[i])
        PROVE  EntryIn(tab[i], dat2, x) = EntryIn(tab[i], dat, x)
    <3>1. x[1] \in 0 .. tab[i].blocks - 1
      BY DEF Spots
    <3>2. tab[i].ptrs[x[1]] \in Held(tab[i]) /\ tab[i].ptrs[x[1]] \in Block
      BY <2>1, <3>1, FineTableIs
    <3>3. tab[i].ptrs[x[1]] # b
      BY <2>1, <3>2
    <3> QED
      BY <3>2, <3>3 DEF EntryIn
  <2> QED
    BY <2>1, <2>2 DEF NamedIn
<1> QED
  BY <1>1, <1>2, <1>3, SoundSame

-----------------------------------------------------------------------------
(* The child of a creation *)

(* The record of a new child c of p, and what the data blocks then are. *)
IsChild(c, p, child, contents) ==
  \/ \E b \in Block \ dataBitmap : /\ child = NewDirInode(b)
                                   /\ contents = [data EXCEPT ![b] = DirBlock(c, p)]
  \/ \E w \in BOOLEAN : child = NewRegInode(w) /\ contents = data

(* A new file has no block (new_reg_inode). *)
LEMMA NewRegIs ==
  ASSUME NEW w \in BOOLEAN
  PROVE  /\ NewRegInode(w) \in InodeType
         /\ Fine(NewRegInode(w))
         /\ ~ NewRegInode(w).isDir
         /\ ~ (NewRegInode(w).blocks > NumDirect)
         /\ \A k \in PtrIndex : NewRegInode(w).ptrs[k] = NoBlock
         /\ Held(NewRegInode(w)) = {}
<1>1. NewRegInode(w) \in InodeType /\ HoldsDistinct(NewRegInode(w)) /\ Held(NewRegInode(w)) = {}
      /\ FitsSize(NewRegInode(w))
  BY NewRegInodeHolds DEF Shape
<1>2. NumDirect \in Nat
  BY PointersAssumption
<1>3. NewRegInode(w).inUse /\ ~ NewRegInode(w).isDir /\ NewRegInode(w).nLinks = 1 /\ NewRegInode(w).blocks = 0
      /\ NewRegInode(w).ptrs = [k \in PtrIndex |-> NoBlock]
  BY DEF NewRegInode
<1>4. Fine(NewRegInode(w))
  BY <1>1, <1>3 DEF Fine
<1>5. ~ (NewRegInode(w).blocks > NumDirect)
  BY <1>2, <1>3
<1> QED
  BY <1>1, <1>3, <1>4, <1>5

(* A new directory has no indirect block. *)
LEMMA NewDirPointers ==
  ASSUME NEW b \in Block
  PROVE  /\ ~ (NewDirInode(b).blocks > NumDirect)
         /\ \A k \in PtrIndex : ~ (k < NumDirect) => NewDirInode(b).ptrs[k] = NoBlock
<1>1. NumDirect \in Nat \ {0} /\ \A k \in PtrIndex : ~ (k < NumDirect) => k # 0
  BY PointersAssumption
<1> QED
  BY <1>1 DEF NewDirInode

(* What holds of it in both cases. *)
LEMMA ChildIs ==
  ASSUME CrashInd, Serving, NEW c \in Inum, NEW p \in Inum, NEW child, NEW contents,
         IsChild(c, p, child, contents)
  PROVE  /\ child \in InodeType /\ Fine(child)
         /\ contents \in [Block -> [Slot -> EntryType]]
         /\ child.isDir => NamedIn(child, contents) = {}
         /\ Held(child) \subseteq Block \ dataBitmap
         /\ \A x \in Block : x \notin Held(child) => contents[x] = data[x]
<1>1. data \in [Block -> [Slot -> EntryType]]
  BY AtRest
<1>2. ASSUME NEW b \in Block \ dataBitmap, child = NewDirInode(b), contents = [data EXCEPT ![b] = DirBlock(c, p)]
      PROVE  /\ child \in InodeType /\ Fine(child)
             /\ contents \in [Block -> [Slot -> EntryType]]
             /\ child.isDir => NamedIn(child, contents) = {}
             /\ Held(child) \subseteq Block \ dataBitmap
             /\ \A x \in Block : x \notin Held(child) => contents[x] = data[x]
  <2>1. DirBlock(c, p) \in [Slot -> EntryType]
    BY BareBlock
  <2>2. contents[b] = DirBlock(c, p) /\ contents \in [Block -> [Slot -> EntryType]]
    BY <1>1, <1>2, <2>1
  <2>3. NamedIn(child, contents) = {}
    BY <1>2, <2>2, BareDirectory
  <2>4. \A x \in Block : x # b => contents[x] = data[x]
    BY <1>1, <1>2
  <2>5. child \in InodeType /\ Fine(child) /\ Held(child) = {b}
    BY <1>2, NewDirIs
  <2>6. \A x \in Block : x \notin Held(child) => contents[x] = data[x]
    BY <2>4, <2>5
  <2> QED
    BY <2>2, <2>3, <2>5, <2>6
<1>3. ASSUME NEW w \in BOOLEAN, child = NewRegInode(w), contents = data
      PROVE  /\ child \in InodeType /\ Fine(child)
             /\ contents \in [Block -> [Slot -> EntryType]]
             /\ ~ child.isDir
             /\ Held(child) = {}
  BY <1>1, <1>3, NewRegIs
<1> QED
  BY <1>2, <1>3 DEF IsChild

(* Joining lists of writes is associative. *)
LEMMA JoinedOnce ==
  ASSUME NEW u, NEW v, NEW w, IsWrites(u), IsWrites(v), IsWrites(w)
  PROVE  u \o (v \o w) = (u \o v) \o w
<1> DEFINE S == {u[k] : k \in 1 .. Len(u)} \cup {v[k] : k \in 1 .. Len(v)} \cup {w[k] : k \in 1 .. Len(w)}
<1>1. u \in Seq(S) /\ v \in Seq(S) /\ w \in Seq(S)
  BY WritesAreSeq DEF IsWrites
<1> HIDE DEF S
<1> QED
  BY <1>1

(* What stands on the way of a request shows the tables as given. *)
LEMMA StandsView ==
  ASSUME NEW L, NEW d, NEW tab, NEW dat, NEW c, NEW T, Stands(L, d, tab, dat, c, T)
  PROVE  View(L, d, tab, dat, c) /\ IsDisk(d) /\ Formatted(d) /\ FineTable(L, tab)
BY DEF Stands, View, Shows

(* The record and the bit of the child are written. *)
LEMMA NewInodeWritten ==
  ASSUME CrashInd, Serving, NEW c \in Inum, c = reserve_inode, NEW L, L = Live(inode, data), c \notin L,
         NEW child \in InodeType, Fine(child), NEW contents, NEW d, NEW T,
         Stands(L, d, inode, contents, NoInum, T),
         NEW tab1, tab1 = Put(inode, c, child),
         Sound(tab1, contents), Live(tab1, contents) = L, TreeOf(tab1, contents) = T,
         PointersOf(d, child) = child.ptrs,
         child.isDir => \A k \in 0 .. child.blocks - 1 : LoadedData(d)[child.ptrs[k]] = contents[child.ptrs[k]],
         Held(child) \subseteq LoadedDataBitmap(d),
         NEW y, y = InodesWrite(tab1, c), NEW z, z = sync_inode_bitmap(inodeBitmap \cup {c}),
         NEW e, e = Landed(d, y), NEW f, f = Landed(e, z)
  PROVE  /\ Passes(d, <<y, z>>, f, NoInum, T)
         /\ Stands(L \cup {c}, f, tab1, contents, NoInum, T)
<1> DEFINE M == L \cup {c}
           bits == inodeBitmap \cup {c}
<1>1. /\ AreNumbers(inum) /\ inodeBitmap \subseteq 0 .. Scanned(NumInodes) - 1
      /\ inode \in [Inum -> InodeType] /\ L \ {ROOT_INUM} \subseteq inodeBitmap
  BY AtRest
<1>2. tab1 \in [Inum -> InodeType] /\ tab1[c] = child
  BY <1>1, PutIs
<1>3. bits \subseteq 0 .. Scanned(NumInodes) - 1
  <2>1. NumInodes \in Nat /\ Scanned(NumInodes) \in Nat /\ NumInodes <= Scanned(NumInodes)
    BY InodesAssumption, ScannedCovers
  <2>2. c \in 0 .. Scanned(NumInodes) - 1
    BY <2>1 DEF Inum
  <2> QED
    BY <1>1, <2>2
<1>4. M \subseteq bits
  <2>1. ROOT_INUM \in L
    BY ReachedByIs DEF Live
  <2>2. reserve_inode # ROOT_INUM
    BY <2>1
  <2>3. ROOT_INUM \in inodeBitmap
    BY <1>1, <2>2, RootBit
  <2> QED
    BY <1>1, <2>3
<1>5. View(L, e, tab1, contents, NoInum) /\ View(M, f, tab1, contents, NoInum)
  <2>1. View(L, d, inode, contents, NoInum)
    BY DEF Stands
  <2>2. tab1 = Put(inode, c, tab1[c])
    BY <1>2
  <2>3. f = Landed(e, sync_inode_bitmap(bits)) /\ e = Landed(d, InodesWrite(tab1, c))
    OBVIOUS
  <2>4. /\ tab1[c] \in InodeType /\ Fine(tab1[c]) /\ PointersOf(d, tab1[c]) = tab1[c].ptrs
        /\ tab1[c].isDir => \A k \in 0 .. tab1[c].blocks - 1 : LoadedData(d)[tab1[c].ptrs[k]] = contents[tab1[c].ptrs[k]]
        /\ Held(tab1[c]) \subseteq LoadedDataBitmap(d)
    BY <1>2
  <2>5. AreNumbers(inum) /\ c \in Inum /\ c \notin L /\ bits \subseteq 0 .. Scanned(NumInodes) - 1
        /\ L \cup {c} \subseteq bits
    BY <1>1, <1>3, <1>4
  <2> HIDE DEF bits
  <2> QED
    BY ONLY <2>1, <2>2, <2>3, <2>4, <2>5, ViewNewInode DEF M
<1>6. Stands(L, e, tab1, contents, NoInum, T) /\ Stands(M, f, tab1, contents, NoInum, T)
  BY <1>5 DEF Stands
<1>7. IsWrite(y) /\ IsWrite(z) /\ IsDisk(d)
  <2>1. IsWrite(y)
    BY <1>1, <1>2, InodeWriteOK DEF InodesWrite
  <2>2. IsWrite(z)
    BY <1>3, InodeBitsOK
  <2> QED
    BY <2>1, <2>2 DEF Stands, View
<1>8. Passes(d, <<y>>, e, NoInum, T)
  BY <1>6, <1>7, StepPasses
<1>9. Passes(e, <<z>>, f, NoInum, T)
  BY <1>5, <1>6, <1>7, StepPasses DEF View
<1> QED
  BY <1>6, <1>8, <1>9, PassesTwo

(* initialize_inode_writes leave the name space as it was. *)
LEMMA ChildWritten ==
  ASSUME CrashInd, Serving, NEW c \in Inum, c = reserve_inode, NEW L, L = Live(inode, data), c \notin L,
         NEW p \in Inum, NEW child, NEW contents, IsChild(c, p, child, contents),
         NEW T, T = TreeOf(inode, data), NEW tab1, tab1 = Put(inode, c, child)
  PROVE  \E f : /\ Passes(disk, initialize_inode_writes(c, child, p), f, NoInum, T)
                /\ Stands(L \cup {c}, f, tab1, contents, NoInum, T)
<1>1. /\ Stands(L, disk, inode, data, NoInum, T)
      /\ IsDisk(disk) /\ dataBitmap \subseteq Block
      /\ inode \in [Inum -> InodeType] /\ L \subseteq Inum
      /\ Marked(L, dataBitmap, inode)
      /\ \A b : b \notin dataBitmap => \A i \in L : b \notin Held(inode[i])
  BY AtRest
<1>2. /\ View(L, disk, inode, data, NoInum) /\ Formatted(disk)
      /\ FineTable(L, inode) /\ Sound(inode, data)
  BY <1>1, StandsView DEF Stands
<1>3. child \in InodeType /\ Fine(child)
  BY ChildIs
<1>4. \A i \in L : tab1[i] = inode[i]
  <2>1. Put(inode, c, child) = tab1 /\ \A j \in Inum : j # c => Put(inode, c, child)[j] = inode[j]
    BY <1>1, <1>3, PutIs
  <2> QED
    BY <1>1, <2>1
<1>5. ASSUME NEW b \in Block \ dataBitmap, child = NewDirInode(b), contents = [data EXCEPT ![b] = DirBlock(c, p)]
      PROVE  \E f : /\ Passes(disk, initialize_inode_writes(c, child, p), f, NoInum, T)
                    /\ Stands(L \cup {c}, f, tab1, contents, NoInum, T)
  <2> DEFINE blk == Entries(DirBlock(c, p))
             x1 == DataWrite(b, blk)
             d1 == Landed(disk, x1)
             bits == dataBitmap \cup {b}
             x2 == sync_data_bitmap(bits)
             d2 == Landed(d1, x2)
             x3 == InodesWrite(tab1, c)
             d3 == Landed(d2, x3)
             x4 == sync_inode_bitmap(inodeBitmap \cup {c})
             d4 == Landed(d3, x4)
  <2>1. IsData(blk) /\ blk.kind # "ptrs" /\ Seen(blk) = DirBlock(c, p) /\ IsWrite(x1)
    BY BareBlock, EntriesOK
  <2>2. (\A x \in Block : x # b => contents[x] = data[x]) /\ contents[b] = DirBlock(c, p)
    BY AtRest, <1>5
  <2>3. /\ NewDirInode(b).isDir /\ NewDirInode(b).blocks = 1 /\ NewDirInode(b).ptrs[0] = b
        /\ Held(NewDirInode(b)) = {b}
    BY NewDirIs
  <2>4. \A i \in L : b \notin Held(inode[i])
    BY <1>1
  <2>5. /\ Sound(inode, contents) /\ Live(inode, contents) = L /\ TreeOf(inode, contents) = T
        /\ Sound(tab1, contents) /\ Live(tab1, contents) = L /\ TreeOf(tab1, contents) = T
    BY <1>2, <1>4, <2>2, <2>4, SameNames
  <2>6. bits \in SUBSET Block /\ Marked(L \ {NoInum}, bits, inode)
    BY <1>1 DEF Marked
  <2>7. IsWrite(x2)
    BY <2>6, DataBitsOK
  <2> HIDE DEF blk, bits
  <2>8. View(L, d1, inode, contents, NoInum) /\ LoadedData(d1) = [LoadedData(disk) EXCEPT ![b] = Seen(blk)]
    <3> HIDE DEF d1
    <3>1. d1 = Landed(disk, DataWrite(b, blk))
      BY DEF d1
    <3> QED
      BY <1>2, <2>1, <2>2, <2>4, <3>1, ViewFresh
  <2> HIDE DEF x1, d1
  <2>9. View(L, d2, inode, contents, NoInum) /\ LoadedData(d2) = LoadedData(d1) /\ LoadedDataBitmap(d2) = bits
    <3> HIDE DEF d2
    <3>1. d2 = Landed(d1, sync_data_bitmap(bits))
      BY DEF d2
    <3>2. View(L, d1, inode, contents, NoInum)
      BY <2>8
    <3> HIDE DEF d1
    <3> QED
      BY ONLY <2>6, <3>1, <3>2, ViewDataBits
  <2> HIDE DEF x2
  <2>10. Stands(L, d1, inode, contents, NoInum, T) /\ Stands(L, d2, inode, contents, NoInum, T)
    BY <2>5, <2>8, <2>9 DEF Stands
  <2>11. Passes(disk, <<x1>>, d1, NoInum, T)
    BY <1>1, <2>1, <2>10, StepPasses DEF d1
  <2>12. Passes(d1, <<x2>>, d2, NoInum, T)
    BY <2>7, <2>8, <2>10, StepPasses DEF View
  <2>13. Passes(disk, <<x1, x2>>, d2, NoInum, T)
    BY <2>11, <2>12, PassesTwo
  <2>14. LoadedData(d2)[b] = contents[b]
    <3>1. LoadedData(disk) \in [Block -> [Slot -> EntryType]]
      BY <1>1, <1>2, LoadedDataIs
    <3> QED
      BY <2>1, <2>2, <2>8, <2>9, <3>1
  <2>15. IsDisk(d2) /\ Formatted(d2)
    BY <2>10, StandsView
  <2> HIDE DEF d2
  <2>16. PointersOf(d2, child) = child.ptrs
    BY <1>3, <1>5, <2>15, NewDirPointers, DirectPointers
  <2>17. child.isDir => \A k \in 0 .. child.blocks - 1 : LoadedData(d2)[child.ptrs[k]] = contents[child.ptrs[k]]
    <3>1. \A k \in 0 .. 0 : k = 0
      OBVIOUS
    <3> QED
      BY <1>5, <2>3, <2>14, <3>1
  <2>18. Held(child) \subseteq LoadedDataBitmap(d2)
    BY <1>5, <2>3, <2>9 DEF bits
  <2>19. Passes(d2, <<x3, x4>>, d4, NoInum, T) /\ Stands(L \cup {c}, d4, tab1, contents, NoInum, T)
    <3> HIDE DEF x3, x4, d3, d4
    <3>1. x3 = InodesWrite(tab1, c) /\ x4 = sync_inode_bitmap(inodeBitmap \cup {c})
          /\ d3 = Landed(d2, x3) /\ d4 = Landed(d3, x4)
      BY DEF x3, x4, d3, d4
    <3> QED
      BY <1>3, <2>5, <2>10, <2>16, <2>17, <2>18, <3>1, NewInodeWritten
  <2>20. initialize_inode_writes(c, child, p) = <<x1, x2>> \o <<x3, x4>>
    BY <1>5, <2>3 DEF initialize_inode_writes, x1, x2, blk, bits, write_inode, InodesWrite, Put
  <2> HIDE DEF x3, x4, d4
  <2>21. Passes(disk, initialize_inode_writes(c, child, p), d4, NoInum, T)
    BY <2>13, <2>19, <2>20, PassesJoined
  <2> QED
    BY <2>19, <2>21
<1>6. ASSUME NEW w \in BOOLEAN, child = NewRegInode(w), contents = data
      PROVE  \E f : /\ Passes(disk, initialize_inode_writes(c, child, p), f, NoInum, T)
                    /\ Stands(L \cup {c}, f, tab1, contents, NoInum, T)
  <2> DEFINE x3 == InodesWrite(tab1, c)
             d3 == Landed(disk, x3)
             x4 == sync_inode_bitmap(inodeBitmap \cup {c})
             d4 == Landed(d3, x4)
  <2>1. /\ ~ child.isDir /\ ~ (child.blocks > NumDirect)
        /\ \A k \in PtrIndex : child.ptrs[k] = NoBlock
        /\ Held(child) = {}
    BY <1>6, NewRegIs
  <2>2. Sound(tab1, contents) /\ Live(tab1, contents) = L /\ TreeOf(tab1, contents) = T
    <3>1. NoBlock \notin Block /\ \A i \in L : Held(inode[i]) \subseteq Block
      BY <1>2, BlockIs DEF FineTable, Fine
    <3>2. \A i \in L : NoBlock \notin Held(inode[i])
      BY <3>1
    <3>3. \A x \in Block : x # NoBlock => contents[x] = data[x]
      BY <1>6
    <3> QED
      BY <1>2, <1>4, <3>2, <3>3, SameNames
  <2>3. PointersOf(disk, child) = child.ptrs
    BY <1>1, <1>2, <1>3, <2>1, DirectPointers
  <2>4. Passes(disk, <<x3, x4>>, d4, NoInum, T) /\ Stands(L \cup {c}, d4, tab1, contents, NoInum, T)
    <3> HIDE DEF x3, x4, d3, d4
    <3>1. x3 = InodesWrite(tab1, c) /\ x4 = sync_inode_bitmap(inodeBitmap \cup {c})
          /\ d3 = Landed(disk, x3) /\ d4 = Landed(d3, x4)
      BY DEF x3, x4, d3, d4
    <3>2. Stands(L, disk, inode, contents, NoInum, T)
      BY <1>1, <1>6
    <3> QED
      BY <1>3, <2>1, <2>2, <2>3, <3>1, <3>2, NewInodeWritten
  <2>5. initialize_inode_writes(c, child, p) = <<>> \o <<x3, x4>>
    BY <2>1 DEF initialize_inode_writes, write_inode, InodesWrite, Put
  <2> HIDE DEF x3, x4, d4
  <2>6. Passes(disk, initialize_inode_writes(c, child, p), d4, NoInum, T)
    BY <1>1, <2>4, <2>5, PassesNone, PassesJoined
  <2> QED
    BY <2>4, <2>6
<1> QED
  BY <1>5, <1>6 DEF IsChild

-----------------------------------------------------------------------------
(* Entries of directories *)

(* The places of entries in a directory. *)
LEMMA SpotsAre ==
  ASSUME NEW r \in InodeType
  PROVE  /\ Spots(r) \subseteq Nat \X Nat
         /\ \A x \in Spots(r) : x[1] \in 0 .. r.blocks - 1 /\ x[2] \in Slot /\ x = <<x[1], x[2]>>
<1>1. r.blocks \in Nat /\ DirentsPerBlock \in Nat
  BY DirentsAssumption, PtrRange DEF InodeType
<1> QED
  BY <1>1 DEF Spots, Slot

(* A name of a request is none of the reserved ones. *)
LEMMA NamesAreNames ==
  ASSUME NEW n \in Names
  PROVE  n \notin {"", ".", "..", "?"}
BY NamesAssumption

(* What a handler finds in a directory that can be reached. *)
LEMMA Found ==
  ASSUME CrashInd, Serving, NEW p \in Live(inode, data), IsDir(p), NEW n \in Names
  PROVE  /\ p \in LiveDirs(inode, data)
         /\ Hits(p, n) = {x \in Spots(inode[p]) : EntryIn(inode[p], data, x).name = n}
         /\ FreePlaces(p) = {x \in Spots(inode[p]) : EntryIn(inode[p], data, x) = NoEntry}
         /\ Hits(p, n) \subseteq NamedIn(inode[p], data)
         /\ Hits(p, n) # {} => First(Hits(p, n)) \in Hits(p, n)
         /\ FreePlaces(p) # {} => First(FreePlaces(p)) \in FreePlaces(p)
<1>1. p \in Inum /\ inode[p] \in InodeType
  BY AtRest
<1>2. /\ Hits(p, n) = {x \in Spots(inode[p]) : EntryIn(inode[p], data, x).name = n}
      /\ FreePlaces(p) = {x \in Spots(inode[p]) : EntryIn(inode[p], data, x) = NoEntry}
  BY DEF Hits, FreePlaces, Places, Spots, EntryAt, EntryIn
<1>3. Hits(p, n) \subseteq Nat \X Nat /\ FreePlaces(p) \subseteq Nat \X Nat
  BY <1>1, <1>2, SpotsAre
<1>4. Hits(p, n) \subseteq NamedIn(inode[p], data)
  <2> SUFFICES ASSUME NEW x \in Hits(p, n)
               PROVE  x \in NamedIn(inode[p], data)
    OBVIOUS
  <2>1. x \in Spots(inode[p]) /\ EntryIn(inode[p], data, x).name = n
    BY <1>2
  <2>2. n # "" /\ n # "." /\ n # ".."
    BY NamesAreNames
  <2>3. NoEntry.name = ""
    BY DEF NoEntry
  <2>4. EntryIn(inode[p], data, x) # NoEntry
    BY <2>1, <2>2, <2>3
  <2>5. EntryIn(inode[p], data, x).name \notin {".", ".."}
    BY <2>1, <2>2
  <2> QED
    BY <2>1, <2>4, <2>5 DEF NamedIn, IsNamed
<1>5. p \in LiveDirs(inode, data)
  BY DEF LiveDirs, IsDir
<1> QED
  BY <1>2, <1>3, <1>4, <1>5, FirstIsPlace

(* A name that leads nowhere is that of no entry. *)
LEMMA NoSuchName ==
  ASSUME CrashInd, Serving, NEW p \in Live(inode, data), IsDir(p), NEW n \in Names,
         inum_from_path(p, n) = NoInum
  PROVE  \A x \in NamedIn(inode[p], data) : EntryIn(inode[p], data, x).name # n
<1>1. Sound(inode, data) /\ Live(inode, data) \subseteq Inum
  BY AtRest DEF Stands
<1>2. CASE Hits(p, n) = {}
  BY <1>2, Found DEF NamedIn
<1>3. CASE Hits(p, n) # {}
  <2> DEFINE x == First(Hits(p, n))
  <2>1. x \in NamedIn(inode[p], data) /\ p \in LiveDirs(inode, data)
    BY <1>3, Found
  <2>2. EntryIn(inode[p], data, x).inum \in Inum
    BY <1>1, <2>1, SoundIs
  <2>3. inum_from_path(p, n) = EntryIn(inode[p], data, x).inum
    BY <1>3 DEF inum_from_path, EntryAt, EntryIn
  <2>4. NoInum \notin Inum
    BY DEF NoInum, Inum
  <2> QED
    BY <2>2, <2>3, <2>4
<1> QED
  BY <1>2, <1>3

(* A name that leads somewhere is that of the first hit. *)
LEMMA NamedChild ==
  ASSUME CrashInd, Serving, NEW p \in Live(inode, data), IsDir(p), NEW n \in Names,
         NEW c, c = inum_from_path(p, n), c # NoInum,
         NEW x, x = First(Hits(p, n))
  PROVE  /\ x \in NamedIn(inode[p], data)
         /\ EntryIn(inode[p], data, x).inum = c
         /\ c \in Live(inode, data) /\ c \in Inum
<1>1. Sound(inode, data) /\ Live(inode, data) \subseteq Inum
  BY AtRest DEF Stands
<1>2. Hits(p, n) # {} /\ c = EntryIn(inode[p], data, x).inum
  BY DEF inum_from_path, EntryAt, EntryIn
<1>3. x \in NamedIn(inode[p], data) /\ p \in LiveDirs(inode, data)
  BY <1>2, Found
<1> QED
  BY <1>1, <1>2, <1>3, SoundIs

(* One entry of a directory is written. *)
EntryPut(tab, dat, p, x, r, dat2) ==
  LET home == tab[p].ptrs[x[1]]
  IN  /\ dat2[home] = [dat[home] EXCEPT ![x[2]] = r]
      /\ \A b \in Block : b # home => dat2[b] = dat[b]

Replaced(tab, dat, p, x, r, dat2) ==
  /\ tab[p].ptrs[x[1]] \in Block /\ tab[p].ptrs[x[1]] \in Held(tab[p])
  /\ EntryIn(tab[p], dat2, x) = r
  /\ r \in EntryType => dat2[tab[p].ptrs[x[1]]] \in [Slot -> EntryType]
  /\ \A d \in LiveDirs(tab, dat) : \A y \in Spots(tab[d]) :
       (d = p /\ y = x) \/ EntryIn(tab[d], dat2, y) = EntryIn(tab[d], dat, y)

(* An entry put into a slot of a directory changes that slot and no other, *)
(* because no other directory holds the block.                             *)
LEMMA EntryPutIs ==
  ASSUME NEW tab, NEW dat, Sound(tab, dat), FineTable(Live(tab, dat), tab),
         dat \in [Block -> [Slot -> EntryType]],
         NEW p \in LiveDirs(tab, dat), NEW x \in Spots(tab[p]), NEW r, NEW dat2, EntryPut(tab, dat, p, x, r, dat2)
  PROVE  Replaced(tab, dat, p, x, r, dat2)
<1> DEFINE L == Live(tab, dat)
           home == tab[p].ptrs[x[1]]
<1>1. p \in L /\ tab[p] \in InodeType /\ x[1] \in 0 .. tab[p].blocks - 1 /\ x[2] \in Slot
  BY SpotsAre, FineTableIs DEF LiveDirs
<1>2. home \in Block /\ home \in Held(tab[p])
  BY <1>1, FineTableIs
<1>3. dat[home] \in [Slot -> EntryType]
  BY <1>2
<1>4. dat2[home] = [dat[home] EXCEPT ![x[2]] = r] /\ \A b \in Block : b # home => dat2[b] = dat[b]
  BY DEF EntryPut
<1> HIDE DEF home
<1>5. dat2[home][x[2]] = r /\ \A s \in Slot : s # x[2] => dat2[home][s] = dat[home][s]
  BY <1>1, <1>3, <1>4
<1>6. r \in EntryType => dat2[home] \in [Slot -> EntryType]
  BY <1>1, <1>3, <1>4
<1>7. ASSUME NEW d \in LiveDirs(tab, dat), NEW y \in Spots(tab[d]), ~ (d = p /\ y = x)
      PROVE  EntryIn(tab[d], dat2, y) = EntryIn(tab[d], dat, y)
  <2>1. /\ d \in L /\ tab[d] \in InodeType /\ y[1] \in 0 .. tab[d].blocks - 1 /\ y[2] \in Slot
        /\ y = <<y[1], y[2]>> /\ x = <<x[1], x[2]>>
    BY <1>1, SpotsAre, FineTableIs DEF LiveDirs
  <2>2. CASE tab[d].ptrs[y[1]] # home
    <3>1. tab[d].ptrs[y[1]] \in Block
      BY <2>1, FineTableIs
    <3> QED
      BY <1>4, <2>2, <3>1 DEF EntryIn
  <2>3. CASE tab[d].ptrs[y[1]] = home
    <3>1. tab[d].ptrs[y[1]] \in Held(tab[d])
      BY <2>1, FineTableIs
    <3>2. d = p
      BY <1>1, <1>2, <2>1, <2>3, <3>1 DEF Sound
    <3>3. y[1] = x[1]
      <4>1. HoldsDistinct(tab[p])
        BY <1>1, FineTableIs DEF Fine
      <4> QED
        BY <1>1, <2>1, <2>3, <3>2, <4>1 DEF HoldsDistinct, home
    <3>4. y[2] # x[2]
      BY <1>7, <2>1, <3>2, <3>3
    <3> QED
      BY <1>5, <2>1, <2>3, <3>4 DEF EntryIn
  <2> QED
    BY <2>2, <2>3
<1> QED
  BY <1>2, <1>5, <1>6, <1>7 DEF home, EntryIn, Replaced

-----------------------------------------------------------------------------
(* The entry of a creation, its last write *)

(* All is ready on the disk d for the entry of c at place x of p. *)
Linking(M, d, tab, dat, T, c, p, x, n, dat2) ==
  /\ Stands(M, d, tab, dat, NoInum, T)
  /\ dat \in [Block -> [Slot -> EntryType]]
  /\ c \in Inum /\ c \notin Live(tab, dat) /\ M = Live(tab, dat) \cup {c}
  /\ p \in LiveDirs(tab, dat)
  /\ x \in Spots(tab[p]) /\ EntryIn(tab[p], dat, x) = NoEntry
  /\ n \in Names /\ \A y \in NamedIn(tab[p], dat) : EntryIn(tab[p], dat, y).name # n
  /\ \A i, j \in M : i # j => Held(tab[i]) \cap Held(tab[j]) = {}
  /\ tab[c].isDir => NamedIn(tab[c], dat) = {}
  /\ EntryPut(tab, dat, p, x, [name |-> n, inum |-> c], dat2)

(* The entry of a new inode that reaches the disk links it: the disk has   *)
(* the old tree and now the new one.                                       *)
LEMMA EntryAdded ==
  ASSUME NEW M, NEW d, NEW tab, NEW dat, NEW T, NEW c, NEW p, NEW x, NEW n, NEW dat2,
         Linking(M, d, tab, dat, T, c, p, x, n, dat2),
         NEW w, w = DataWrite(tab[p].ptrs[x[1]], Entries(dat2[tab[p].ptrs[x[1]]])),
         NEW f, f = Landed(d, w)
  PROVE  /\ IsWrite(w)
         /\ Stands(M, f, tab, dat2, NoInum, TreeOf(tab, dat2))
         /\ Live(tab, dat2) = M
<1> DEFINE home == tab[p].ptrs[x[1]]
           r == [name |-> n, inum |-> c]
           L == Live(tab, dat)
           blk == Entries(dat2[home])
<1>0. /\ Stands(M, d, tab, dat, NoInum, T)
      /\ dat \in [Block -> [Slot -> EntryType]]
      /\ c \in Inum /\ c \notin L /\ M = L \cup {c}
      /\ p \in LiveDirs(tab, dat)
      /\ x \in Spots(tab[p]) /\ EntryIn(tab[p], dat, x) = NoEntry
      /\ n \in Names /\ \A y \in NamedIn(tab[p], dat) : EntryIn(tab[p], dat, y).name # n
      /\ \A i, j \in M : i # j => Held(tab[i]) \cap Held(tab[j]) = {}
      /\ tab[c].isDir => NamedIn(tab[c], dat) = {}
      /\ EntryPut(tab, dat, p, x, r, dat2)
  BY DEF Linking
<1>1. View(M, d, tab, dat, NoInum) /\ FineTable(M, tab) /\ Sound(tab, dat)
  BY <1>0 DEF Stands, View
<1>2. FineTable(L, tab) /\ p \in L /\ tab[p].isDir
  BY <1>0, <1>1 DEF FineTable, LiveDirs
<1>3. r \in EntryType /\ r.name = n /\ r.inum = c
  BY <1>0 DEF EntryType
<1>4. IsNamed(r)
  <2>1. n # "" /\ n # "." /\ n # ".." /\ NoEntry.name = ""
    BY <1>0, NamesAreNames DEF NoEntry
  <2>2. r # NoEntry
    BY <1>0, <1>3, <2>1
  <2> QED
    BY <1>0, <1>3, <2>1, <2>2 DEF IsNamed
<1>5. ~ IsNamed(NoEntry)
  BY DEF IsNamed
<1> HIDE DEF r
<1>6. /\ home \in Block /\ home \in Held(tab[p])
      /\ EntryIn(tab[p], dat2, x) = r
      /\ dat2[home] \in [Slot -> EntryType]
      /\ \A e \in LiveDirs(tab, dat) : \A y \in Spots(tab[e]) :
           (e = p /\ y = x) \/ EntryIn(tab[e], dat2, y) = EntryIn(tab[e], dat, y)
  <2>1. EntryPut(tab, dat, p, x, r, dat2)
    BY <1>0
  <2> QED
    <3>1. Sound(tab, dat) /\ FineTable(Live(tab, dat), tab)
      BY <1>0, <1>1, <1>2
    <3>2. Replaced(tab, dat, p, x, r, dat2)
      BY ONLY <1>0, <2>1, <3>1, EntryPutIs
    <3> QED
      BY <1>0, <1>3, <3>2 DEF Replaced
<1>7. \A b \in Block : b # home => dat2[b] = dat[b]
  BY <1>0 DEF EntryPut
<1> HIDE DEF home
<1>8. IsData(blk) /\ blk.kind # "ptrs" /\ Seen(blk) = dat2[home] /\ IsWrite(w)
  <2> HIDE DEF blk
  <2>1. blk = Entries(dat2[home]) /\ w = DataWrite(home, Entries(dat2[home]))
    BY DEF blk, home
  <2> QED
    BY <1>0, <1>6, <2>1, EntriesOK
<1>9. View(M, f, tab, dat2, NoInum)
  <2>1. \A i \in M : tab[i].blocks > NumDirect => tab[i].indirect # home
    <3> SUFFICES ASSUME NEW i \in M, tab[i].blocks > NumDirect, tab[i].indirect = home PROVE FALSE
      OBVIOUS
    <3>1. home \in Held(tab[i])
      BY <1>0, <1>1, FineTableIs
    <3>2. i = p
      BY <1>0, <1>2, <1>6, <3>1
    <3>3. tab[p].blocks \in 1 .. NumDirect /\ NumDirect \in Nat
      BY <1>0, <1>2, FineTableIs, PtrRange
    <3> QED
      BY <1>0, <3>2, <3>3
  <2>2. \A i \in M : tab[i].isDir => \A k \in 0 .. tab[i].blocks - 1 :
           dat2[tab[i].ptrs[k]] = IF tab[i].ptrs[k] = home THEN Seen(blk) ELSE dat[tab[i].ptrs[k]]
    <3>1. \A i \in M : \A k \in 0 .. tab[i].blocks - 1 : tab[i].ptrs[k] \in Block
      BY <1>1, FineTableIs
    <3> QED
      BY <1>7, <1>8, <3>1
  <2> HIDE DEF blk
  <2>3. f = Landed(d, DataWrite(home, blk))
    BY DEF home, blk
  <2> QED
    BY ONLY <1>1, <1>6, <1>8, <2>1, <2>2, <2>3, ViewData
<1>10. Sound(tab, dat2) /\ Live(tab, dat2) = L \cup {c}
  <2>1. \A i \in L \cup {c} : Fine(tab[i])
    BY <1>0, <1>1 DEF FineTable
  <2>2. \A i \in L : tab[i].isDir = tab[i].isDir
    OBVIOUS
  <2>3. x \notin NamedIn(tab[p], dat)
    BY <1>0, <1>5 DEF NamedIn
  <2>4. \A e \in LiveDirs(tab, dat) : \A y \in NamedIn(tab[e], dat) :
           y \in NamedIn(tab[e], dat2) /\ EntryIn(tab[e], dat2, y) = EntryIn(tab[e], dat, y)
    BY <1>0, <1>6, <2>3 DEF NamedIn
  <2>5. \A e \in LiveDirs(tab, dat) : \A y \in NamedIn(tab[e], dat2) :
           y \in NamedIn(tab[e], dat) \/ (e = p /\ y = x)
    BY <1>0, <1>6 DEF NamedIn
  <2>6. x \in NamedIn(tab[p], dat2)
    BY <1>0, <1>4, <1>6 DEF NamedIn
  <2>7. EntryIn(tab[p], dat2, x).name = n /\ EntryIn(tab[p], dat2, x).inum = c
    BY <1>0, <1>3, <1>6
  <2>8. tab[c].isDir => NamedIn(tab[c], dat2) = {}
    <3> SUFFICES ASSUME tab[c].isDir, NEW y \in NamedIn(tab[c], dat2) PROVE y \in NamedIn(tab[c], dat)
      BY <1>0
    <3>1. y \in Spots(tab[c]) /\ c \in M /\ c # p
      BY <1>0, <1>2 DEF NamedIn
    <3>2. tab[c].ptrs[y[1]] \in Held(tab[c]) /\ tab[c].ptrs[y[1]] \in Block
      BY <1>0, <1>1, <3>1, FineTableIs, SpotsAre
    <3>3. tab[c].ptrs[y[1]] # home
      BY <1>0, <1>2, <1>6, <3>1, <3>2
    <3>4. EntryIn(tab[c], dat2, y) = EntryIn(tab[c], dat, y)
      BY <1>0, <1>7, <3>2, <3>3 DEF EntryIn
    <3> QED
      BY <1>0, <3>1, <3>4 DEF NamedIn
  <2> HIDE DEF L
  <2>9. Adds(tab, dat, tab, dat2, c, p, x, n)
    BY <1>0, <2>1, <2>4, <2>5, <2>6, <2>7, <2>8 DEF Adds, L
  <2>10. Sound(tab, dat)
    BY <1>0, <1>1
  <2> QED
    BY ONLY <2>9, <2>10, SoundAdd DEF L
<1> QED
  BY <1>0, <1>8, <1>9, <1>10 DEF Stands

-----------------------------------------------------------------------------
(* The parent of a creation *)

(* The name space stays as it is when no record of it and no block of it   *)
(* changes.                                                                *)
LEMMA SoundKept ==
  ASSUME CrashInd, Serving, NEW L, L = Live(inode, data), NEW T, T = TreeOf(inode, data),
         NEW tab2, \A i \in L : tab2[i] = inode[i],
         NEW dat2, \A b \in dataBitmap : dat2[b] = data[b]
  PROVE  Sound(tab2, dat2) /\ Live(tab2, dat2) = L /\ TreeOf(tab2, dat2) = T
<1>1. Sound(inode, data) /\ FineTable(L, inode) /\ Marked(L, dataBitmap, inode)
  BY AtRest DEF Stands, View
<1>2. \A i \in L : Fine(tab2[i]) /\ tab2[i].isDir = inode[i].isDir
  BY <1>1 DEF FineTable
<1>3. \A i, j \in L : i # j => Held(tab2[i]) \cap Held(tab2[j]) = {}
  BY <1>1 DEF Sound
<1>4. ASSUME NEW i \in LiveDirs(inode, data)
      PROVE  /\ NamedIn(tab2[i], dat2) = NamedIn(inode[i], data)
             /\ \A x \in NamedIn(inode[i], data) : EntryIn(tab2[i], dat2, x) = EntryIn(inode[i], data, x)
  <2>1. i \in L /\ tab2[i] = inode[i] /\ inode[i] \in InodeType
    BY <1>1, FineTableIs DEF LiveDirs
  <2>2. ASSUME NEW x \in Spots(inode[i])
        PROVE  EntryIn(inode[i], dat2, x) = EntryIn(inode[i], data, x)
    <3>1. inode[i].ptrs[x[1]] \in Held(inode[i])
      BY <1>1, <2>1, SpotsAre, FineTableIs
    <3>2. inode[i].ptrs[x[1]] \in dataBitmap
      BY <1>1, <2>1, <3>1 DEF Marked
    <3> QED
      BY <3>2 DEF EntryIn
  <2> QED
    BY <2>1, <2>2 DEF NamedIn
<1> QED
  <2>1. Sound(inode, data)
    BY <1>1
  <2>2. \A i, j \in Live(inode, data) : i # j => Held(tab2[i]) \cap Held(tab2[j]) = {}
    BY <1>3
  <2>3. \A i \in Live(inode, data) : Fine(tab2[i]) /\ tab2[i].isDir = inode[i].isDir
    BY <1>2
  <2>4. \A d \in LiveDirs(inode, data) :
           /\ NamedIn(tab2[d], dat2) = NamedIn(inode[d], data)
           /\ \A x \in NamedIn(inode[d], data) : EntryIn(tab2[d], dat2, x) = EntryIn(inode[d], data, x)
    BY <1>4
  <2>5. Sound(tab2, dat2) /\ Live(tab2, dat2) = Live(inode, data) /\ TreeOf(tab2, dat2) = TreeOf(inode, data)
    BY ONLY <2>1, <2>2, <2>3, <2>4, SoundSame
  <2> QED
    BY <2>5

(* The record of p with the block b if it needs one, *)
Base(p, b) == IF NeedsBlock(p) THEN AddBlock(inode[p], b) ELSE inode[p]

(* The parent with the block of entries it may need: what it holds and     *)
(* what it lists is otherwise the same.                                    *)
LEMMA BaseIs ==
  ASSUME CrashInd, Serving, NEW L, L = Live(inode, data), NEW p \in L, IsDir(p), ~ NoRoom(p),
         NEW b, NeedsBlock(p) => b \in Block \ dataBitmap,
         NEW r, r = Base(p, b)
  PROVE  /\ r \in InodeType /\ Fine(r) /\ r.isDir
         /\ r.nLinks = inode[p].nLinks
         /\ Held(r) = Held(inode[p]) \cup (IF NeedsBlock(p) THEN {b} ELSE {})
         /\ r.blocks = (IF NeedsBlock(p) THEN inode[p].blocks + 1 ELSE inode[p].blocks)
         /\ ~ (r.blocks > NumDirect)
         /\ \A k \in 0 .. inode[p].blocks - 1 : r.ptrs[k] = inode[p].ptrs[k]
         /\ NeedsBlock(p) => r.ptrs[inode[p].blocks] = b
         /\ \A k \in PtrIndex : ~ (k < NumDirect) => r.ptrs[k] = NoBlock
<1> DEFINE o == inode[p]
<1>1. /\ o \in InodeType /\ Fine(o) /\ o.isDir /\ o.blocks \in 1 .. NumDirect /\ NumDirect \in Nat
      /\ p \in Inum /\ Held(o) \subseteq dataBitmap
      /\ View(L, disk, inode, data, NoInum)
  <2>1. FineTable(L, inode) /\ Marked(L, dataBitmap, inode) /\ View(L, disk, inode, data, NoInum)
    BY AtRest DEF Stands, View
  <2> QED
    BY <2>1, FineTableIs, PtrRange DEF IsDir, Marked
<1>2. \A k \in PtrIndex : ~ (k < NumDirect) => o.ptrs[k] = NoBlock
  <2>1. \A k \in PtrIndex : ~ (k < NumDirect) => ~ (k < o.blocks)
    BY <1>1, PtrRange
  <2> QED
    BY <1>1, <2>1, NoMorePointers
<1>3. CASE NeedsBlock(p)
  <2>1. o.blocks < NumDirect /\ b \in Block /\ b \notin Held(o)
    BY <1>1, <1>3 DEF NoRoom
  <2> HIDE DEF o
  <2>2. r = AddBlock(o, b)
    BY <1>3 DEF Base, o
  <2>3. /\ r \in InodeType
        /\ r.inUse = o.inUse
        /\ r.isDir = o.isDir
        /\ r.nLinks = o.nLinks
        /\ r.size = o.size
        /\ r.blocks = o.blocks + 1
        /\ r.indirect = o.indirect
        /\ r.ptrs = [o.ptrs EXCEPT ![o.blocks] = b]
    BY ONLY <1>1, <2>1, <2>2, AddBlockShape
  <2>4. Held(r) = Held(o) \cup {b} /\ HoldsDistinct(r)
    BY <1>1, <2>1, <2>2, AddBlockHolds DEF Fine
  <2>5. Fine(r)
    <3>1. FitsSize(r)
      BY <1>1, <2>1, <2>3 DEF Fine, FitsSize
    <3> QED
      BY <1>1, <2>1, <2>3, <2>4, <3>1 DEF Fine
  <2>6. o.ptrs \in [PtrIndex -> Block \cup {NoBlock}] /\ o.blocks \in PtrIndex
    BY <1>1, <2>1, PtrRange DEF InodeType
  <2>7. r.ptrs[o.blocks] = b /\ \A k \in PtrIndex : k # o.blocks => r.ptrs[k] = o.ptrs[k]
    BY <2>3, <2>6
  <2>8. \A k \in 0 .. o.blocks - 1 : k \in PtrIndex /\ k # o.blocks
    BY <1>1, PtrRange
  <2>9. \A k \in PtrIndex : ~ (k < NumDirect) => k # o.blocks
    BY <2>1
  <2>10. ~ (r.blocks > NumDirect)
    BY <1>1, <2>1, <2>3
  <2> QED
    BY <1>1, <1>2, <1>3, <2>3, <2>4, <2>5, <2>7, <2>8, <2>9, <2>10 DEF o
<1>4. CASE ~ NeedsBlock(p)
  <2>1. r = o
    BY <1>4 DEF Base
  <2>2. ~ (o.blocks > NumDirect)
    BY <1>1
  <2> QED
    BY <1>1, <1>2, <1>4, <2>1, <2>2
<1> QED
  BY <1>3, <1>4

(* and with the link of a new directory. *)
LEMMA WithChildIs ==
  ASSUME CrashInd, Serving, NEW L, L = Live(inode, data), NEW p \in L, IsDir(p), ~ NoRoom(p),
         NEW isDir \in BOOLEAN, NEW got, NEW b, b = got[ForChild(isDir) + 1],
         NeedsBlock(p) => b \in Block \ dataBitmap,
         NEW r, r = Base(p, b), NEW s, s = WithChild(p, isDir, got)
  PROVE  /\ s \in InodeType /\ Fine(s) /\ s.isDir
         /\ Durable(s) = Durable(r) /\ Held(s) = Held(r) /\ s.blocks = r.blocks /\ s.ptrs = r.ptrs
         /\ s.nLinks \in {r.nLinks, IncLinks(r.nLinks)}
<1> DEFINE l == IF isDir THEN IncLinks(r.nLinks) ELSE r.nLinks
<1>1. r \in InodeType /\ Fine(r) /\ r.isDir
  BY BaseIs
<1>2. s = [r EXCEPT !.nLinks = l]
  BY DEF WithChild, Base
<1>3. l \in 0 .. LinkModulus - 1 /\ l \in {r.nLinks, IncLinks(r.nLinks)}
  <2>1. r.nLinks \in 0 .. LinkModulus - 1 /\ LinkModulus \in Nat /\ LinkModulus > 2
    BY <1>1, LinksAssumption DEF InodeType
  <2>2. (r.nLinks + 1) % LinkModulus \in 0 .. LinkModulus - 1
    BY <2>1
  <2> QED
    BY <2>1, <2>2 DEF IncLinks
<1> HIDE DEF l
<1>4. s \in InodeType /\ s.nLinks = l
  BY <1>1, <1>2, <1>3 DEF InodeType
<1>5. Durable(s) = Durable(r)
  BY <1>1, <1>2, <1>3 DEF Durable, InodeType
<1> QED
  BY <1>1, <1>3, <1>4, <1>5, FineSame

-----------------------------------------------------------------------------
(* A creation up to its last write *)

(* The child c of p has the record child, and the data blocks are contents. *)
(* b is the block for p, if it needs one.                                   *)
Creating(p, c, child, contents, got, b) ==
  /\ c \in Inum /\ c = reserve_inode /\ c \notin Live(inode, data)
  /\ p \in Live(inode, data) /\ IsDir(p) /\ ~ NoRoom(p)
  /\ IsChild(c, p, child, contents)
  /\ b = got[ForChild(child.isDir) + 1]
  /\ NeedsBlock(p) => b \in Block \ dataBitmap /\ b \notin Held(child)

(* The data blocks with the new one of p. *)
Widened(p, contents, b) == IF NeedsBlock(p) THEN [contents EXCEPT ![b] = EmptyBlock] ELSE contents

(* What creating an inode takes from memory: a free number, and blocks no  *)
(* inode holds.                                                            *)
LEMMA CreatingIs ==
  ASSUME CrashInd, Serving, NEW p, NEW c, NEW child, NEW contents, NEW got, NEW b,
         Creating(p, c, child, contents, got, b),
         NEW dat0, dat0 = Widened(p, contents, b)
  PROVE  /\ p \in Inum /\ c # p /\ child \in InodeType /\ Fine(child) /\ child.isDir \in BOOLEAN
         /\ Held(child) \subseteq Block \ dataBitmap
         /\ contents \in [Block -> [Slot -> EntryType]]
         /\ dat0 \in [Block -> [Slot -> EntryType]]
         /\ \A x \in dataBitmap : contents[x] = data[x] /\ dat0[x] = data[x]
         /\ NeedsBlock(p) => dat0[b] = EmptyBlock
         /\ \A x \in Block : x # b => dat0[x] = contents[x]
         /\ ~ NeedsBlock(p) => dat0 = contents
         /\ child.isDir => NamedIn(child, dat0) = {}
<1>1. p \in Inum /\ c # p
  BY AtRest DEF Creating
<1>2. /\ child \in InodeType /\ Fine(child)
      /\ contents \in [Block -> [Slot -> EntryType]]
      /\ child.isDir => NamedIn(child, contents) = {}
      /\ Held(child) \subseteq Block \ dataBitmap
      /\ \A x \in Block : x \notin Held(child) => contents[x] = data[x]
  BY <1>1, ChildIs DEF Creating
<1>3. child.isDir \in BOOLEAN
  BY <1>2 DEF InodeType
<1>4. dataBitmap \subseteq Block /\ \A x \in dataBitmap : contents[x] = data[x]
  <2>1. dataBitmap \subseteq Block
    BY AtRest
  <2> QED
    BY <1>2, <2>1
<1>5. CASE NeedsBlock(p)
  <2>1. b \in Block \ dataBitmap /\ b \notin Held(child)
    BY <1>5 DEF Creating
  <2>2. dat0 = [contents EXCEPT ![b] = EmptyBlock]
    BY <1>5 DEF Widened
  <2>3. dat0 \in [Block -> [Slot -> EntryType]] /\ dat0[b] = EmptyBlock /\ \A x \in Block : x # b => dat0[x] = contents[x]
    BY <1>2, <2>1, <2>2, DirBlockType
  <2>4. child.isDir => NamedIn(child, dat0) = {}
    <3> SUFFICES ASSUME child.isDir, NEW y \in NamedIn(child, dat0) PROVE y \in NamedIn(child, contents)
      BY <1>2
    <3>1. y \in Spots(child)
      BY DEF NamedIn
    <3>2. child.ptrs[y[1]] \in Held(child) /\ child.ptrs[y[1]] \in Block
      BY <1>2, <3>1, SpotsAre, FineIs
    <3>3. EntryIn(child, dat0, y) = EntryIn(child, contents, y)
      BY <2>1, <2>3, <3>2 DEF EntryIn
    <3> QED
      BY <3>1, <3>3 DEF NamedIn
  <2> QED
    BY <1>1, <1>2, <1>3, <1>4, <1>5, <2>1, <2>3, <2>4
<1>6. CASE ~ NeedsBlock(p)
  <2>1. dat0 = contents
    BY <1>6 DEF Widened
  <2> QED
    BY <1>1, <1>2, <1>3, <1>4, <1>6, <2>1
<1> QED
  BY <1>5, <1>6

(* The parent then. *)
LEMMA CreatingParent ==
  ASSUME CrashInd, Serving, NEW p, NEW c, NEW child, NEW contents, NEW got, NEW b,
         Creating(p, c, child, contents, got, b),
         NEW r, r = Base(p, b), NEW s, s = WithChild(p, child.isDir, got)
  PROVE  /\ r \in InodeType /\ Fine(r) /\ r.isDir
         /\ r.nLinks = inode[p].nLinks
         /\ Held(r) = Held(inode[p]) \cup (IF NeedsBlock(p) THEN {b} ELSE {})
         /\ r.blocks = (IF NeedsBlock(p) THEN inode[p].blocks + 1 ELSE inode[p].blocks)
         /\ ~ (r.blocks > NumDirect)
         /\ \A k \in 0 .. inode[p].blocks - 1 : r.ptrs[k] = inode[p].ptrs[k]
         /\ NeedsBlock(p) => r.ptrs[inode[p].blocks] = b
         /\ \A k \in PtrIndex : ~ (k < NumDirect) => r.ptrs[k] = NoBlock
         /\ s \in InodeType /\ Fine(s) /\ s.isDir
         /\ Durable(s) = Durable(r) /\ Held(s) = Held(r) /\ s.blocks = r.blocks /\ s.ptrs = r.ptrs
         /\ s.nLinks \in {r.nLinks, IncLinks(r.nLinks)}
<1>1. p \in Live(inode, data) /\ IsDir(p) /\ ~ NoRoom(p) /\ b = got[ForChild(child.isDir) + 1]
      /\ (NeedsBlock(p) => b \in Block \ dataBitmap)
  BY DEF Creating
<1>2. child.isDir \in BOOLEAN
  BY CreatingIs
<1> QED
  BY <1>1, <1>2, BaseIs, WithChildIs

(* The table with the child, with the block of the parent, and with its    *)
(* link.                                                                   *)
LEMMA CreatingTables ==
  ASSUME CrashInd, Serving, NEW p, NEW c, NEW child, NEW contents, NEW got, NEW b,
         Creating(p, c, child, contents, got, b),
         NEW M, M = Live(inode, data) \cup {c},
         NEW r, r = Base(p, b), NEW s, s = WithChild(p, child.isDir, got),
         NEW tab1, tab1 = Put(inode, c, child), NEW tab2, tab2 = Put(tab1, p, r), NEW tab3, tab3 = Put(tab1, p, s)
  PROVE  /\ FineTable(M, tab1) /\ FineTable(M, tab2) /\ FineTable(M, tab3)
         /\ tab1[c] = child /\ tab1[p] = inode[p] /\ tab2[p] = r /\ tab3[p] = s /\ tab3[c] = child
         /\ \A j \in Inum : j # p => tab2[j] = tab1[j] /\ tab3[j] = tab1[j]
         /\ \A j \in Live(inode, data) : tab1[j] = inode[j]
         /\ \A i, j \in M : i # j => Held(tab3[i]) \cap Held(tab3[j]) = {}
<1>1. /\ Sound(inode, data) /\ FineTable(Live(inode, data), inode) /\ Marked(Live(inode, data), dataBitmap, inode)
      /\ inode \in [Inum -> InodeType] /\ Live(inode, data) \subseteq Inum
  BY AtRest DEF Stands, View
<1>2. /\ c \in Inum /\ p \in Inum /\ c # p /\ c \notin Live(inode, data) /\ p \in Live(inode, data)
      /\ child \in InodeType /\ Fine(child)
      /\ Held(child) \subseteq Block \ dataBitmap
      /\ NeedsBlock(p) => b \in Block \ dataBitmap /\ b \notin Held(child)
  BY CreatingIs DEF Creating
<1>3. /\ r \in InodeType /\ Fine(r) /\ s \in InodeType /\ Fine(s)
      /\ Held(s) = Held(inode[p]) \cup (IF NeedsBlock(p) THEN {b} ELSE {})
  BY CreatingParent
<1>4. /\ tab1 \in [Inum -> InodeType] /\ tab1[c] = child /\ \A j \in Inum : j # c => tab1[j] = inode[j]
  BY <1>1, <1>2, PutIs
<1>5. /\ tab2 \in [Inum -> InodeType] /\ tab2[p] = r /\ \A j \in Inum : j # p => tab2[j] = tab1[j]
  BY <1>2, <1>3, <1>4, PutIs
<1>6. /\ tab3 \in [Inum -> InodeType] /\ tab3[p] = s /\ \A j \in Inum : j # p => tab3[j] = tab1[j]
  BY <1>2, <1>3, <1>4, PutIs
<1>7. FineTable(M, tab1) /\ FineTable(M, tab2) /\ FineTable(M, tab3)
  <2>1. \A j \in M : Fine(tab1[j])
    BY <1>1, <1>2, <1>4 DEF FineTable
  <2>2. \A j \in M : Fine(tab2[j]) /\ Fine(tab3[j])
    BY <1>1, <1>2, <1>3, <1>5, <1>6, <2>1
  <2>3. M \subseteq Inum
    BY <1>1, <1>2
  <2> QED
    BY <1>4, <1>5, <1>6, <2>1, <2>2, <2>3 DEF FineTable
<1>8. \A j \in Live(inode, data) : tab1[j] = inode[j]
  BY <1>1, <1>2, <1>4
<1>9. \A i, j \in M : i # j => Held(tab3[i]) \cap Held(tab3[j]) = {}
  <2>1. \A j \in Live(inode, data) \ {p} : tab3[j] = inode[j] /\ Held(inode[j]) \subseteq dataBitmap
    BY <1>1, <1>6, <1>8 DEF Marked
  <2>2. tab3[c] = child /\ tab3[p] = s /\ Held(inode[p]) \subseteq dataBitmap
    BY <1>1, <1>2, <1>4, <1>6 DEF Marked
  <2>3. \A j \in Live(inode, data) \ {p} : Held(tab3[j]) \cap Held(tab3[p]) = {}
    <3>1. \A j \in Live(inode, data) \ {p} : Held(inode[j]) \cap Held(inode[p]) = {}
      BY <1>1, <1>2 DEF Sound
    <3> QED
      BY <1>2, <1>3, <2>1, <2>2, <3>1
  <2>4. \A j \in Live(inode, data) : Held(tab3[j]) \cap Held(tab3[c]) = {}
    <3>1. Held(s) \cap Held(child) = {}
      BY <1>2, <1>3, <2>2
    <3> QED
      BY <1>2, <2>1, <2>2, <3>1
  <2>5. \A i, j \in Live(inode, data) \ {p} : i # j => Held(tab3[i]) \cap Held(tab3[j]) = {}
    BY <1>1, <2>1 DEF Sound
  <2>6. \A i \in M : i = c \/ i = p \/ i \in Live(inode, data) \ {p}
    OBVIOUS
  <2> QED
    BY <1>2, <2>3, <2>4, <2>5, <2>6
<1> QED
  BY <1>2, <1>4, <1>5, <1>6, <1>7, <1>8, <1>9

(* The parent is written. *)
LEMMA ParentWritten ==
  ASSUME CrashInd, Serving, NEW p, NEW c, NEW child, NEW contents, NEW got, NEW b,
         Creating(p, c, child, contents, got, b),
         NEW M, M = Live(inode, data) \cup {c}, NEW dat0,
         NEW r, r = Base(p, b), NEW s, s = WithChild(p, child.isDir, got),
         NEW tab1, tab1 = Put(inode, c, child), NEW tab2, tab2 = Put(tab1, p, r), NEW tab3, tab3 = Put(tab1, p, s),
         NEW d, View(M, d, tab1, dat0, NoInum),
         NeedsBlock(p) => LoadedData(d)[b] = dat0[b] /\ b \in LoadedDataBitmap(d),
         NEW e, e = Landed(d, InodesWrite(tab2, p))
  PROVE  View(M, e, tab3, dat0, NoInum) /\ IsWrite(InodesWrite(tab2, p))
<1>1. /\ FineTable(M, tab1) /\ FineTable(M, tab2) /\ FineTable(M, tab3)
      /\ tab1[p] = inode[p] /\ tab2[p] = r /\ tab3[p] = s
      /\ \A j \in Inum : j # p => tab2[j] = tab1[j] /\ tab3[j] = tab1[j]
  BY CreatingTables
<1>2. /\ r \in InodeType /\ Fine(r) /\ r.isDir
      /\ r.nLinks = inode[p].nLinks
      /\ Held(r) = Held(inode[p]) \cup (IF NeedsBlock(p) THEN {b} ELSE {})
      /\ r.blocks = (IF NeedsBlock(p) THEN inode[p].blocks + 1 ELSE inode[p].blocks)
      /\ ~ (r.blocks > NumDirect)
      /\ \A k \in 0 .. inode[p].blocks - 1 : r.ptrs[k] = inode[p].ptrs[k]
      /\ NeedsBlock(p) => r.ptrs[inode[p].blocks] = b
      /\ \A k \in PtrIndex : ~ (k < NumDirect) => r.ptrs[k] = NoBlock
      /\ Durable(s) = Durable(r)
      /\ s.nLinks \in {r.nLinks, IncLinks(r.nLinks)}
  BY CreatingParent
<1>3. /\ IsDisk(d) /\ Formatted(d) /\ Recs(M, d, tab1) /\ Ents(M, d, tab1, dat0)
      /\ Marked(M \ {NoInum}, LoadedDataBitmap(d), tab1)
  BY DEF View, Shows
<1>4. p \in M /\ p \in Inum /\ M \subseteq Inum /\ inode[p].isDir /\ p \in Near(p) /\ inode[p].blocks \in Nat
  <2>1. p \in Inum /\ p \in M /\ inode[p].isDir
    BY CreatingIs DEF Creating, IsDir
  <2>2. M \subseteq Inum /\ FineTable(M, tab1)
    BY <1>1 DEF FineTable
  <2>3. tab1[p].blocks \in Nat
    BY <2>1, <2>2, FineTableIs
  <2>4. p \in Near(p)
    BY <2>1 DEF Near
  <2> QED
    BY <1>1, <2>1, <2>2, <2>3, <2>4
<1>5. AreNumbers(inum)
  BY AtRest
<1>6. Turns(M, d, tab1, tab2, dat0, p)
  <2>1. \A j \in M : j # p => Durable(tab2[j]) = Durable(tab1[j])
    BY <1>1, <1>4
  <2>2. PointersOf(d, r) = r.ptrs
    BY <1>2, <1>3, DirectPointers
  <2>3. ASSUME NEW k \in 0 .. r.blocks - 1 PROVE LoadedData(d)[r.ptrs[k]] = dat0[r.ptrs[k]]
    <3>1. CASE k \in 0 .. inode[p].blocks - 1
      BY <1>1, <1>2, <1>3, <1>4, <3>1 DEF Ents
    <3>2. CASE NeedsBlock(p) /\ k = inode[p].blocks
      BY <1>2, <3>2
    <3>3. k \in 0 .. inode[p].blocks - 1 \/ (NeedsBlock(p) /\ k = inode[p].blocks)
      BY <1>2, <1>4
    <3> QED
      BY <3>1, <3>2, <3>3
  <2> QED
    BY <1>1, <1>4, <2>1, <2>2, <2>3 DEF Turns
<1>7. Marked(M \ {NoInum}, LoadedDataBitmap(d), tab2)
  <2>1. p \in M \ {NoInum}
    BY <1>4 DEF NoInum, Inum
  <2>2. Held(inode[p]) \subseteq LoadedDataBitmap(d)
    BY <1>1, <1>3, <2>1 DEF Marked
  <2>3. Held(r) \subseteq LoadedDataBitmap(d)
    BY <1>2, <2>2
  <2> QED
    BY <1>1, <1>3, <1>4, <2>3 DEF Marked
<1>8. \A j \in M \ Near(p) : tab2[j].nLinks = tab1[j].nLinks
  BY <1>1, <1>4
<1>9. View(M, e, tab2, dat0, NoInum) /\ \A j \in M \cap Near(p) : LoadedInode(e, j).nLinks = tab2[j].nLinks
  BY <1>1, <1>4, <1>5, <1>6, <1>7, <1>8, ViewInodes
<1>10. View(M, e, tab3, dat0, NoInum)
  <2>1. \A j \in M : Durable(tab3[j]) = Durable(tab2[j])
    BY <1>1, <1>2, <1>4
  <2>2. inum = OwnNumbers => Follows(M, e, tab3)
    <3> SUFFICES ASSUME inum = OwnNumbers, NEW j \in M
                 PROVE  tab3[j].nLinks \in {LoadedInode(e, j).nLinks, IncLinks(LoadedInode(e, j).nLinks)}
      BY DEF Follows
    <3>1. CASE j = p
      BY <1>1, <1>2, <1>4, <1>9, <3>1
    <3>2. CASE j # p
      BY <1>1, <1>4, <1>9, <3>2 DEF View, Follows
    <3> QED
      BY <3>1, <3>2
  <2>3. \A j \in M : tab2[j].isDir => \A k \in 0 .. tab2[j].blocks - 1 : dat0[tab2[j].ptrs[k]] = dat0[tab2[j].ptrs[k]]
    OBVIOUS
  <2>4. View(M, e, tab2, dat0, NoInum) /\ FineTable(M, tab3)
    BY <1>1, <1>9
  <2> QED
    BY ONLY <2>1, <2>2, <2>3, <2>4, ViewAlike
<1>11. IsWrite(InodesWrite(tab2, p))
  <2>1. tab2 \in [Inum -> InodeType]
    BY <1>1 DEF FineTable
  <2> QED
    BY <1>4, <1>5, <2>1, InodeWriteOK DEF InodesWrite
<1> QED
  BY <1>10, <1>11

(* No entry has changed. *)
LEMMA ParentSound ==
  ASSUME CrashInd, Serving, NEW p, NEW c, NEW child, NEW contents, NEW got, NEW b,
         Creating(p, c, child, contents, got, b),
         NEW L, L = Live(inode, data), NEW T, T = TreeOf(inode, data),
         NEW dat0, dat0 = Widened(p, contents, b), NEW s, s = WithChild(p, child.isDir, got),
         NEW tab1, tab1 = Put(inode, c, child), NEW tab3, tab3 = Put(tab1, p, s)
  PROVE  /\ Sound(tab3, dat0) /\ Live(tab3, dat0) = L /\ TreeOf(tab3, dat0) = T
         /\ NamedIn(s, dat0) = NamedIn(inode[p], data)
         /\ \A x \in NamedIn(inode[p], data) : EntryIn(s, dat0, x) = EntryIn(inode[p], data, x)
<1>1. Sound(inode, data) /\ FineTable(L, inode) /\ Marked(L, dataBitmap, inode)
  BY AtRest DEF Stands, View
<1>2. /\ FineTable(L \cup {c}, tab3) /\ tab3[p] = s /\ \A j \in L : j # p => tab3[j] = inode[j]
      /\ \A i, j \in L \cup {c} : i # j => Held(tab3[i]) \cap Held(tab3[j]) = {}
  <2>1. L \subseteq Inum
    BY <1>1 DEF FineTable
  <2> QED
    BY <2>1, CreatingTables
<1>3. /\ s \in InodeType /\ s.isDir
      /\ s.blocks = (IF NeedsBlock(p) THEN inode[p].blocks + 1 ELSE inode[p].blocks)
      /\ \A k \in 0 .. inode[p].blocks - 1 : s.ptrs[k] = inode[p].ptrs[k]
      /\ NeedsBlock(p) => s.ptrs[inode[p].blocks] = b
  BY CreatingParent
<1>4. /\ p \in L /\ inode[p].isDir /\ inode[p] \in InodeType /\ inode[p].blocks \in Nat
      /\ \A x \in dataBitmap : dat0[x] = data[x]
      /\ NeedsBlock(p) => dat0[b] = EmptyBlock
  <2>1. p \in L /\ inode[p].isDir
    BY DEF Creating, IsDir
  <2> QED
    BY <1>1, <2>1, CreatingIs, FineTableIs
<1>5. ASSUME NEW i \in L, NEW x \in Spots(inode[i])
      PROVE  EntryIn(inode[i], dat0, x) = EntryIn(inode[i], data, x)
  <2>1. inode[i].ptrs[x[1]] \in Held(inode[i])
    BY <1>1, SpotsAre, FineTableIs
  <2>2. inode[i].ptrs[x[1]] \in dataBitmap
    BY <1>1, <2>1 DEF Marked
  <2> QED
    BY <1>4, <2>2 DEF EntryIn
<1>6. ASSUME NEW x \in Spots(inode[p])
      PROVE  x \in Spots(s) /\ EntryIn(s, dat0, x) = EntryIn(inode[p], data, x)
  <2>1. x[1] \in 0 .. inode[p].blocks - 1 /\ x[2] \in Slot /\ x = <<x[1], x[2]>>
    BY <1>4, SpotsAre
  <2>2. x[1] \in 0 .. s.blocks - 1
    BY <1>3, <1>4, <2>1
  <2>3. x \in Spots(s)
    BY <2>1, <2>2 DEF Spots
  <2>4. EntryIn(s, dat0, x) = EntryIn(inode[p], dat0, x)
    BY <1>3, <2>1 DEF EntryIn
  <2> QED
    BY <1>4, <1>5, <2>3, <2>4
<1>7. ASSUME NEW x \in Spots(s), x \notin Spots(inode[p])
      PROVE  EntryIn(s, dat0, x) = NoEntry
  <2>1. x[1] \in 0 .. s.blocks - 1 /\ x[2] \in Slot /\ x = <<x[1], x[2]>>
    BY <1>3, SpotsAre
  <2>2. x[1] \notin 0 .. inode[p].blocks - 1
    BY <1>7, <2>1 DEF Spots
  <2>3. NeedsBlock(p) /\ x[1] = inode[p].blocks
    BY <1>3, <1>4, <2>1, <2>2
  <2>4. EntryIn(s, dat0, x) = EmptyBlock[x[2]]
    BY <1>3, <1>4, <2>3 DEF EntryIn
  <2> QED
    BY <2>1, <2>4 DEF EmptyBlock
<1>8. /\ NamedIn(s, dat0) = NamedIn(inode[p], data)
      /\ \A x \in NamedIn(inode[p], data) : EntryIn(s, dat0, x) = EntryIn(inode[p], data, x)
  <2>1. ~ IsNamed(NoEntry)
    BY DEF IsNamed
  <2>2. \A x \in NamedIn(s, dat0) : x \in NamedIn(inode[p], data)
    BY <1>6, <1>7, <2>1 DEF NamedIn
  <2>3. \A x \in NamedIn(inode[p], data) : x \in NamedIn(s, dat0) /\ EntryIn(s, dat0, x) = EntryIn(inode[p], data, x)
    BY <1>6 DEF NamedIn
  <2> QED
    BY <2>2, <2>3
<1>9. \A i \in L : Fine(tab3[i]) /\ tab3[i].isDir = inode[i].isDir
  <2>1. \A i \in L : Fine(tab3[i])
    BY <1>2 DEF FineTable
  <2>2. \A i \in L : tab3[i].isDir = inode[i].isDir
    <3> SUFFICES ASSUME NEW i \in L PROVE tab3[i].isDir = inode[i].isDir
      OBVIOUS
    <3>1. CASE i = p
      BY <1>2, <1>3, <1>4, <3>1
    <3>2. CASE i # p
      BY <1>2, <3>2
    <3> QED
      BY <3>1, <3>2
  <2> QED
    BY <2>1, <2>2
<1>10. \A i, j \in L : i # j => Held(tab3[i]) \cap Held(tab3[j]) = {}
  BY <1>2
<1>11. \A i \in LiveDirs(inode, data) :
         /\ NamedIn(tab3[i], dat0) = NamedIn(inode[i], data)
         /\ \A x \in NamedIn(inode[i], data) : EntryIn(tab3[i], dat0, x) = EntryIn(inode[i], data, x)
  <2> SUFFICES ASSUME NEW i \in L
               PROVE  /\ NamedIn(tab3[i], dat0) = NamedIn(inode[i], data)
                      /\ \A x \in NamedIn(inode[i], data) : EntryIn(tab3[i], dat0, x) = EntryIn(inode[i], data, x)
    BY DEF LiveDirs
  <2>1. CASE i = p
    BY <1>2, <1>8, <2>1
  <2>2. CASE i # p
    BY <1>2, <1>5, <2>2 DEF NamedIn
  <2> QED
    BY <2>1, <2>2
<1>12. Sound(tab3, dat0) /\ Live(tab3, dat0) = L /\ TreeOf(tab3, dat0) = T
  <2>1. Sound(inode, data)
    BY <1>1
  <2>2. \A i \in Live(inode, data) : Fine(tab3[i]) /\ tab3[i].isDir = inode[i].isDir
    BY <1>9
  <2>3. \A i, j \in Live(inode, data) : i # j => Held(tab3[i]) \cap Held(tab3[j]) = {}
    BY <1>10
  <2>4. Sound(tab3, dat0) /\ Live(tab3, dat0) = Live(inode, data) /\ TreeOf(tab3, dat0) = TreeOf(inode, data)
    BY ONLY <2>1, <2>2, <2>3, <1>11, SoundSame, SMTT(20)
  <2> QED
    BY <2>4
<1> QED
  BY <1>8, <1>12

(* What first_available_dirnum writes, and the inode of p after it. *)
ParentWrites(p, tab1, b) ==
  IF NeedsBlock(p) THEN new_block_writes(p, [tab1 EXCEPT ![p] = AddBlock(@, b)], b)
  ELSE same_blocks_writes(p, tab1)

(* The writes for the parent, its block, its record and the bitmap, keep   *)
(* the old tree until the entry is written.                                *)
LEMMA ParentUpdated ==
  ASSUME CrashInd, Serving, NEW p, NEW c, NEW child, NEW contents, NEW got, NEW b,
         Creating(p, c, child, contents, got, b),
         NEW L, L = Live(inode, data), NEW M, M = L \cup {c}, NEW T, T = TreeOf(inode, data),
         NEW dat0, dat0 = Widened(p, contents, b), NEW s, s = WithChild(p, child.isDir, got),
         NEW tab1, tab1 = Put(inode, c, child), NEW tab3, tab3 = Put(tab1, p, s),
         NEW f, Stands(M, f, tab1, contents, NoInum, T),
         dataBitmap' \subseteq Block, dataBitmap \subseteq dataBitmap', Held(child) \subseteq dataBitmap',
         NeedsBlock(p) => b \in dataBitmap'
  PROVE  \E g : /\ Passes(f, ParentWrites(p, tab1, b), g, NoInum, T)
                /\ Stands(M, g, tab3, dat0, NoInum, T)
<1> DEFINE r == Base(p, b)
           tab2 == Put(tab1, p, r)
           w == InodesWrite(tab2, p)
<1>1. /\ \A j \in L : tab1[j] = inode[j]
      /\ tab1[p] = inode[p] /\ tab1[c] = child
      /\ p \in L /\ p \in Inum /\ L \subseteq Inum
      /\ \A i \in L : Held(inode[i]) \subseteq dataBitmap
  <2>1. p \in L /\ p \in Inum /\ L \subseteq Inum
    BY CreatingIs, AtRest DEF Creating
  <2>2. \A i \in L : Held(inode[i]) \subseteq dataBitmap
    BY AtRest DEF Marked
  <2>3. \A j \in Live(inode, data) : tab1[j] = inode[j]
    BY CreatingTables
  <2>4. tab1[p] = inode[p] /\ tab1[c] = child
    BY CreatingTables
  <2> QED
    BY <2>1, <2>2, <2>3, <2>4
<1>2. /\ \A x \in dataBitmap : contents[x] = data[x] /\ dat0[x] = data[x]
      /\ NeedsBlock(p) => dat0[b] = EmptyBlock
      /\ \A x \in Block : x # b => dat0[x] = contents[x]
      /\ ~ NeedsBlock(p) => dat0 = contents
      /\ NeedsBlock(p) => b \in Block \ dataBitmap /\ b \notin Held(child)
  BY CreatingIs DEF Creating
<1>3. /\ Sound(tab3, dat0) /\ Live(tab3, dat0) = L /\ TreeOf(tab3, dat0) = T
  BY ParentSound
<1>4. Sound(tab1, dat0) /\ Live(tab1, dat0) = L /\ TreeOf(tab1, dat0) = T
  <2>1. \A x \in dataBitmap : dat0[x] = data[x]
    BY <1>2
  <2>2. \A j \in L : tab1[j] = inode[j]
    BY <1>1
  <2> QED
    BY <2>1, <2>2, SoundKept
<1>5. tab1 \in [Inum -> InodeType]
  BY StandsView DEF FineTable
<1>6. View(M, f, tab1, contents, NoInum) /\ IsDisk(f)
  BY StandsView
<1>7. ASSUME NEW d, View(M, d, tab1, dat0, NoInum),
             NeedsBlock(p) => LoadedData(d)[b] = dat0[b] /\ b \in LoadedDataBitmap(d),
             NEW e, e = Landed(d, w)
      PROVE  Passes(d, <<w>>, e, NoInum, T) /\ Stands(M, e, tab3, dat0, NoInum, T)
  <2>1. View(M, e, tab3, dat0, NoInum) /\ IsWrite(w)
    BY <1>7, ParentWritten
  <2>2. Stands(M, e, tab3, dat0, NoInum, T)
    BY <1>3, <2>1 DEF Stands
  <2>3. IsDisk(d)
    BY <1>7 DEF View
  <2> HIDE DEF w
  <2>4. Passes(d, <<w>>, e, NoInum, T)
    BY ONLY <1>7, <2>1, <2>2, <2>3, StepPasses
  <2> QED
    BY <2>2, <2>4
<1>8. CASE ~ NeedsBlock(p)
  <2>1. r = inode[p]
    BY <1>8 DEF Base
  <2>2. tab2 = tab1
    BY <1>1, <1>5, <2>1 DEF Put
  <2>3. ParentWrites(p, tab1, b) = <<w>>
    BY <1>8, <2>2 DEF ParentWrites, same_blocks_writes, write_inode, InodesWrite
  <2>4. View(M, f, tab1, dat0, NoInum)
    BY <1>2, <1>6, <1>8
  <2> HIDE DEF w
  <2>5. Passes(f, <<w>>, Landed(f, w), NoInum, T) /\ Stands(M, Landed(f, w), tab3, dat0, NoInum, T)
    BY <1>7, <1>8, <2>4
  <2> QED
    BY <2>3, <2>5
<1>9. CASE NeedsBlock(p)
  <2> DEFINE x == DataWrite(b, Entries(EmptyBlock))
             y == sync_data_bitmap(dataBitmap')
             e1 == Landed(f, x)
             e2 == Landed(e1, y)
             e3 == Landed(e2, w)
  <2>1. tab2 = [tab1 EXCEPT ![p] = AddBlock(@, b)]
    BY <1>1, <1>5, <1>9 DEF Put, Base
  <2>2. ParentWrites(p, tab1, b) = <<x, y, w>>
    BY <1>9, <2>1 DEF ParentWrites, new_block_writes, write_inode, InodesWrite
  <2>3. /\ IsData(Entries(EmptyBlock)) /\ Entries(EmptyBlock).kind # "ptrs"
        /\ Seen(Entries(EmptyBlock)) = EmptyBlock /\ IsWrite(x)
    BY <1>2, <1>9, DirBlockType, EntriesOK
  <2>4. \A i \in M : b \notin Held(tab1[i])
    BY <1>1, <1>2, <1>9
  <2>5. /\ View(M, e1, tab1, dat0, NoInum)
        /\ LoadedData(e1) = [LoadedData(f) EXCEPT ![b] = Seen(Entries(EmptyBlock))]
    <3>1. b \in Block /\ \A z \in Block : z # b => dat0[z] = contents[z]
      BY <1>2, <1>9
    <3> QED
      BY ONLY <1>6, <2>3, <2>4, <3>1, ViewFresh
  <2>6. LoadedData(e1)[b] = dat0[b]
    <3>1. b \in DOMAIN LoadedData(f)
      BY <1>2, <1>9 DEF LoadedData
    <3> HIDE DEF e1
    <3> QED
      BY <1>2, <1>9, <2>3, <2>5, <3>1
  <2>7. Stands(M, e1, tab1, dat0, NoInum, T)
    BY <1>4, <2>5 DEF Stands
  <2>8. Passes(f, <<x>>, e1, NoInum, T)
    <3> HIDE DEF x
    <3> QED
      BY ONLY <1>6, <2>3, <2>7, StepPasses
  <2>9. View(M, e2, tab1, dat0, NoInum) /\ LoadedData(e2) = LoadedData(e1) /\ LoadedDataBitmap(e2) = dataBitmap'
    <3>1. Marked(M \ {NoInum}, dataBitmap', tab1)
      BY <1>1 DEF Marked
    <3> HIDE DEF e1
    <3> QED
      BY ONLY <2>5, <3>1, dataBitmap' \subseteq Block, ViewDataBits
  <2>10. Stands(M, e2, tab1, dat0, NoInum, T) /\ IsWrite(y)
    BY <1>4, <2>9, DataBitsOK DEF Stands
  <2>11. Passes(e1, <<y>>, e2, NoInum, T)
    <3>1. IsDisk(e1)
      BY <2>5 DEF View
    <3> HIDE DEF y, e1
    <3> QED
      BY ONLY <2>10, <3>1, StepPasses
  <2>12. Passes(e2, <<w>>, e3, NoInum, T) /\ Stands(M, e3, tab3, dat0, NoInum, T)
    <3> HIDE DEF e1, e2, w
    <3> QED
      BY <1>7, <2>6, <2>9
  <2>13. Passes(f, <<x, y, w>>, e3, NoInum, T)
    <3> HIDE DEF x, y, w, e1, e2, e3
    <3>1. Passes(f, <<x, y>>, e2, NoInum, T)
      BY ONLY <2>8, <2>11, PassesTwo
    <3> QED
      BY ONLY <2>12, <3>1, PassesThree
  <2> HIDE DEF x, y, w, e1, e2, e3
  <2> QED
    BY <2>2, <2>12, <2>13
<1> QED
  BY <1>8, <1>9

(* update_parent finds a free place for the entry. *)
LEMMA OpenPlaceIs ==
  ASSUME CrashInd, Serving, NEW p, NEW c, NEW child, NEW contents, NEW got, NEW b,
         Creating(p, c, child, contents, got, b), NEW n \in Names,
         NEW dat0, dat0 = Widened(p, contents, b), NEW s, s = WithChild(p, child.isDir, got),
         NEW x, x = OpenPlace(p)
  PROVE  /\ x \in Spots(s)
         /\ EntryIn(s, dat0, x) = NoEntry
         /\ NeedsBlock(p) => x = <<inode[p].blocks, 0>> /\ s.ptrs[x[1]] = b
         /\ s.ptrs[x[1]] \in Block
<1>1. p \in Live(inode, data) /\ IsDir(p)
  BY DEF Creating
<1>2. /\ FineTable(Live(inode, data), inode) /\ Marked(Live(inode, data), dataBitmap, inode)
      /\ inode[p] \in InodeType /\ inode[p].blocks \in Nat
      /\ \A k \in 0 .. inode[p].blocks - 1 : inode[p].ptrs[k] \in Block /\ inode[p].ptrs[k] \in Held(inode[p])
  <2>1. FineTable(Live(inode, data), inode) /\ Marked(Live(inode, data), dataBitmap, inode)
    BY AtRest DEF Stands, View
  <2> QED
    BY <1>1, <2>1, FineTableIs
<1>3. /\ s \in InodeType
      /\ s.blocks = (IF NeedsBlock(p) THEN inode[p].blocks + 1 ELSE inode[p].blocks)
      /\ \A k \in 0 .. inode[p].blocks - 1 : s.ptrs[k] = inode[p].ptrs[k]
      /\ NeedsBlock(p) => s.ptrs[inode[p].blocks] = b
  BY CreatingParent
<1>4. /\ \A z \in dataBitmap : dat0[z] = data[z]
      /\ NeedsBlock(p) => dat0[b] = EmptyBlock
      /\ NeedsBlock(p) => b \in Block
  BY CreatingIs DEF Creating
<1>5. CASE NeedsBlock(p)
  <2>1. x = <<inode[p].blocks, 0>>
    BY <1>5 DEF OpenPlace
  <2>2. 0 \in Slot
    BY DirentsAssumption DEF Slot
  <2>3. x \in Spots(s) /\ x[1] = inode[p].blocks /\ x[2] = 0
    BY <1>2, <1>3, <1>5, <2>1, <2>2 DEF Spots
  <2>4. EntryIn(s, dat0, x) = EmptyBlock[0]
    BY <1>3, <1>4, <1>5, <2>3 DEF EntryIn
  <2> QED
    BY <1>3, <1>4, <1>5, <2>1, <2>2, <2>3, <2>4 DEF EmptyBlock
<1>6. CASE ~ NeedsBlock(p)
  <2>1. x = First(FreePlaces(p)) /\ FreePlaces(p) # {}
    BY <1>6 DEF OpenPlace, NeedsBlock
  <2>2. x \in Spots(inode[p]) /\ EntryIn(inode[p], data, x) = NoEntry
    BY <1>1, <2>1, Found
  <2>3. x[1] \in 0 .. inode[p].blocks - 1 /\ x[2] \in Slot /\ x = <<x[1], x[2]>>
    BY <1>2, <2>2, SpotsAre
  <2>4. x \in Spots(s)
    BY <1>3, <1>6, <2>2 DEF Spots
  <2>5. s.ptrs[x[1]] = inode[p].ptrs[x[1]] /\ inode[p].ptrs[x[1]] \in dataBitmap /\ s.ptrs[x[1]] \in Block
    BY <1>1, <1>2, <1>3, <2>3 DEF Marked
  <2>6. EntryIn(s, dat0, x) = EntryIn(inode[p], data, x)
    BY <1>4, <2>5 DEF EntryIn
  <2> QED
    BY <1>6, <2>2, <2>4, <2>5, <2>6
<1> QED
  BY <1>5, <1>6

(* The entry as update_parent puts it. *)
LEMMA EntryLinked ==
  ASSUME CrashInd, Serving, NEW p, NEW c, NEW child, NEW contents, NEW got, NEW b,
         Creating(p, c, child, contents, got, b), NEW n \in Names,
         Link(p, n, c, child, contents, got),
         NEW dat0, dat0 = Widened(p, contents, b), NEW s, s = WithChild(p, child.isDir, got),
         NEW tab1, tab1 = Put(inode, c, child), NEW tab3, tab3 = Put(tab1, p, s),
         NEW x, x = OpenPlace(p)
  PROVE  /\ inode' = tab3
         /\ EntryPut(tab3, dat0, p, x, [name |-> n, inum |-> c], data')
<1>1. s.ptrs[x[1]] \in Block /\ (NeedsBlock(p) => s.ptrs[x[1]] = b)
  BY OpenPlaceIs
<1>2. /\ contents \in [Block -> [Slot -> EntryType]]
      /\ NeedsBlock(p) => dat0[b] = EmptyBlock
      /\ \A z \in Block : z # b => dat0[z] = contents[z]
      /\ ~ NeedsBlock(p) => dat0 = contents
      /\ p \in Inum /\ c \in Inum /\ c # p
  BY CreatingIs DEF Creating
<1>3. inode \in [Inum -> InodeType]
  BY AtRest
<1>4. tab3[p] = s
  BY <1>2, <1>3 DEF Put
<1>5. inode' = [inode EXCEPT ![c] = child, ![p] = s]
  BY DEF Link
<1>6. inode' = tab3
  BY <1>2, <1>3, <1>5 DEF Put
<1> DEFINE home == s.ptrs[x[1]]
           before == IF NeedsBlock(p) THEN EmptyBlock ELSE contents[home]
           r == [name |-> n, inum |-> c]
<1>7. data' = [contents EXCEPT ![home] = [before EXCEPT ![x[2]] = r]]
  BY DEF Link
<1>8. before = dat0[home]
  BY <1>1, <1>2
<1> HIDE DEF before, r
<1>9. data'[home] = [dat0[home] EXCEPT ![x[2]] = r]
  BY <1>1, <1>2, <1>7, <1>8
<1>10. \A z \in Block : z # home => data'[z] = contents[z]
  BY <1>2, <1>7
<1>11. \A z \in Block : z # home => data'[z] = dat0[z]
  BY <1>1, <1>2, <1>10
<1> QED
  BY <1>4, <1>6, <1>9, <1>11 DEF EntryPut, r

(* What update_parent writes. *)
LEMMA CreationWrites ==
  ASSUME CrashInd, Serving, NEW p, NEW c, NEW child, NEW contents, NEW got, NEW b,
         Creating(p, c, child, contents, got, b), NEW n \in Names,
         Link(p, n, c, child, contents, got),
         NEW s, s = WithChild(p, child.isDir, got),
         NEW tab1, tab1 = Put(inode, c, child),
         NEW x, x = OpenPlace(p), NEW home, home = s.ptrs[x[1]]
  PROVE  creation_writes(p, c, child)
           = initialize_inode_writes(c, child, p) \o (ParentWrites(p, tab1, b) \o <<DataWrite(home, Entries(data'[home]))>>)
<1>1. NeedsBlock(p) => s.ptrs[x[1]] = b
  BY OpenPlaceIs
<1>2. inode' = Put(tab1, p, s)
  BY EntryLinked
<1>3. Put(tab1, p, s)[p] = s
  <2>1. inode \in [Inum -> InodeType] /\ p \in Inum
    BY AtRest, CreatingIs
  <2> QED
    BY <2>1 DEF Put
<1>4. ~ NoRoom(p)
  BY DEF Creating
<1> DEFINE last == DataWrite(home, Entries(data'[home]))
<1>5. inode'[p].ptrs[x[1]] = home
  BY <1>2, <1>3
<1>6. update_parent_writes(p, tab1) = ParentWrites(p, tab1, b) \o <<last>>
  <2>1. CASE NeedsBlock(p)
    <3>1. home = b
      BY <1>1, <2>1
    <3> DEFINE a == new_block_writes(p, [tab1 EXCEPT ![p] = AddBlock(@, b)], b)
    <3>2. ParentWrites(p, tab1, b) = a
      BY <2>1 DEF ParentWrites
    <3>3. update_parent_writes(p, tab1) = new_block_writes(p, [tab1 EXCEPT ![p] = AddBlock(@, home)], home) \o <<last>>
      BY <1>4, <1>5, <2>1 DEF update_parent_writes
    <3> QED
      BY <3>1, <3>2, <3>3
  <2>2. CASE ~ NeedsBlock(p)
    <3>1. ParentWrites(p, tab1, b) = same_blocks_writes(p, tab1)
      BY <2>2 DEF ParentWrites
    <3>2. update_parent_writes(p, tab1) = same_blocks_writes(p, tab1) \o <<last>>
      BY <1>4, <1>5, <2>2 DEF update_parent_writes, NoRoom
    <3> QED
      BY <3>1, <3>2
  <2> QED
    BY <2>1, <2>2
<1> QED
  BY <1>6 DEF creation_writes, Put

-----------------------------------------------------------------------------
(* A creation *)

(* What mkdir and mknod have found out when update_parent can go on. *)
LEMMA CreatedInd ==
  ASSUME CrashInd, Serving, NEW p, NEW c, NEW child, NEW contents, NEW got, NEW b,
         Creating(p, c, child, contents, got, b), NEW n \in Names, inum_from_path(p, n) = NoInum,
         Link(p, n, c, child, contents, got),
         BlocksIn(got) \subseteq Block, Held(child) \subseteq BlocksIn(got), NeedsBlock(p) => b \in BlocksIn(got),
         status' = "up", pending' = creation_writes(p, c, child),
         disk' = disk, inum' = inum, cutting' = cutting
  PROVE  CrashInd'
<1> DEFINE L == Live(inode, data)
           M == L \cup {c}
           T == TreeOf(inode, data)
           dat0 == Widened(p, contents, b)
           s == WithChild(p, child.isDir, got)
           tab1 == Put(inode, c, child)
           tab3 == Put(tab1, p, s)
           x == OpenPlace(p)
           home == s.ptrs[x[1]]
           w == DataWrite(home, Entries(data'[home]))
           first == initialize_inode_writes(c, child, p)
           second == ParentWrites(p, tab1, b)
           T1 == TreeOf(tab3, data')
<1>1. /\ c \in Inum /\ c = reserve_inode /\ c \notin L /\ p \in L /\ IsDir(p)
      /\ IsChild(c, p, child, contents)
      /\ NeedsBlock(p) => b \in Block \ dataBitmap
  BY DEF Creating
<1>2. /\ Stands(L, disk, inode, data, NoInum, T) /\ AreNumbers(inum) /\ IsDisk(disk) /\ cutting = NoInum
      /\ inodeBitmap \subseteq 0 .. Scanned(NumInodes) - 1 /\ dataBitmap \subseteq Block
      /\ L \subseteq Inum /\ L \ {ROOT_INUM} \subseteq inodeBitmap
      /\ Marked(L, dataBitmap, inode)
  BY AtRest
<1>3. /\ p \in Inum /\ c # p /\ child.isDir \in BOOLEAN
      /\ dat0 \in [Block -> [Slot -> EntryType]]
      /\ contents \in [Block -> [Slot -> EntryType]]
      /\ \A y \in dataBitmap : dat0[y] = data[y]
      /\ child.isDir => NamedIn(child, dat0) = {}
  BY CreatingIs
<1>4. /\ FineTable(M, tab3)
      /\ tab3[p] = s /\ tab3[c] = child
      /\ \A i, j \in M : i # j => Held(tab3[i]) \cap Held(tab3[j]) = {}
      /\ \A j \in L : j # p => tab3[j] = inode[j]
  <2>1. c \in Inum /\ p \in Inum /\ L \subseteq Inum
    BY <1>1, <1>2, <1>3
  <2> DEFINE r == Base(p, b)
             tab2 == Put(tab1, p, r)
  <2>2. /\ FineTable(M, tab1) /\ FineTable(M, tab2) /\ FineTable(M, tab3)
        /\ tab1[c] = child /\ tab1[p] = inode[p] /\ tab2[p] = r /\ tab3[p] = s /\ tab3[c] = child
        /\ \A j \in Inum : j # p => tab2[j] = tab1[j] /\ tab3[j] = tab1[j]
        /\ \A j \in L : tab1[j] = inode[j]
        /\ \A i, j \in M : i # j => Held(tab3[i]) \cap Held(tab3[j]) = {}
    BY CreatingTables
  <2> HIDE DEF M, tab1, tab2, tab3, s, L
  <2> QED
    BY <2>1, <2>2
<1>5. dataBitmap' = dataBitmap \cup BlocksIn(got) /\ inodeBitmap' = inodeBitmap \cup {c}
  BY DEF Link
<1>6. inode' = tab3 /\ EntryPut(tab3, dat0, p, x, [name |-> n, inum |-> c], data')
  BY EntryLinked
<1>7. /\ x \in Spots(s) /\ EntryIn(s, dat0, x) = NoEntry /\ home \in Block
  BY OpenPlaceIs
<1>8. /\ Sound(tab3, dat0) /\ Live(tab3, dat0) = L /\ TreeOf(tab3, dat0) = T
      /\ NamedIn(s, dat0) = NamedIn(inode[p], data)
      /\ \A y \in NamedIn(inode[p], data) : EntryIn(s, dat0, y) = EntryIn(inode[p], data, y)
  BY ParentSound
<1>9. \A y \in NamedIn(s, dat0) : EntryIn(s, dat0, y).name # n
  BY <1>1, <1>8, NoSuchName
<1>10. pending' = first \o (second \o <<w>>)
  BY CreationWrites
<1>11. PICK f : /\ Passes(disk, first, f, NoInum, T)
                /\ Stands(M, f, tab1, contents, NoInum, T)
  BY <1>1, <1>3, ChildWritten
<1>12. PICK g : /\ Passes(f, second, g, NoInum, T)
                /\ Stands(M, g, tab3, dat0, NoInum, T)
  <2>1. /\ dataBitmap' \subseteq Block /\ dataBitmap \subseteq dataBitmap'
        /\ Held(child) \subseteq dataBitmap' /\ (NeedsBlock(p) => b \in dataBitmap')
    BY <1>2, <1>5
  <2>2. /\ L = Live(inode, data) /\ M = L \cup {c} /\ T = TreeOf(inode, data)
        /\ dat0 = Widened(p, contents, b) /\ s = WithChild(p, child.isDir, got)
        /\ tab1 = Put(inode, c, child) /\ tab3 = Put(tab1, p, s)
        /\ second = ParentWrites(p, tab1, b)
    OBVIOUS
  <2>3. Creating(p, c, child, contents, got, b)
    OBVIOUS
  <2> HIDE DEF L, M, T, dat0, s, tab1, tab3, second
  <2> QED
    BY ONLY CrashInd, Serving, <1>11, <2>1, <2>2, <2>3, ParentUpdated
<1> DEFINE h == Landed(g, w)
<1>13. /\ IsWrite(w) /\ Stands(M, h, tab3, data', NoInum, T1) /\ Live(tab3, data') = M
  <2>1. c \notin Live(tab3, dat0) /\ M = Live(tab3, dat0) \cup {c}
    BY <1>1, <1>8
  <2>2. p \in LiveDirs(tab3, dat0)
    BY <1>1, <1>4, <1>8, CreatingParent DEF LiveDirs
  <2> HIDE DEF M, dat0, tab3
  <2>3. x \in Spots(tab3[p]) /\ EntryIn(tab3[p], dat0, x) = NoEntry
    BY <1>4, <1>7
  <2>4. \A y \in NamedIn(tab3[p], dat0) : EntryIn(tab3[p], dat0, y).name # n
    BY <1>4, <1>9
  <2>5. tab3[c].isDir => NamedIn(tab3[c], dat0) = {}
    BY <1>3, <1>4
  <2>6. w = DataWrite(tab3[p].ptrs[x[1]], Entries(data'[tab3[p].ptrs[x[1]]]))
    BY <1>4
  <2>7. \A i, j \in M : i # j => Held(tab3[i]) \cap Held(tab3[j]) = {}
    BY <1>4
  <2>8. Linking(M, g, tab3, dat0, T, c, p, x, n, data')
    <3> HIDE DEF x, L, T
    <3> QED
      BY <1>1, <1>3, <1>6, <1>12, <2>1, <2>2, <2>3, <2>4, <2>5, <2>7 DEF Linking
  <2> HIDE DEF x, L, T
  <2> QED
    BY <2>1, <2>6, <2>8, EntryAdded
<1>14. Holds(disk, NoInum, T) /\ IsDisk(g) /\ Formatted(g)
  <2>1. Stands(M, g, tab3, dat0, NoInum, T)
    BY <1>12
  <2> QED
    BY <1>2, <2>1, StandsHolds, StandsView
<1>15. Passes(disk, first \o second, g, NoInum, T)
  BY <1>11, <1>12, PassesJoined
<1>16. Passes(g, <<w>>, h, NoInum, T1)
  <2> HIDE DEF w, M, tab3, T1
  <2> QED
    BY <1>13, <1>14, StepPasses
<1>17. pending' = (first \o second) \o <<w>>
  <2>1. IsWrites(first) /\ IsWrites(second) /\ IsWrites(<<w>>)
    BY <1>11, <1>12, <1>16 DEF Passes
  <2> HIDE DEF first, second, w
  <2> QED
    BY <1>10, <2>1, JoinedOnce
<1>18. /\ IsWrites(pending') /\ Safe(disk, pending', NoInum, T1)
       /\ DiskAfter(disk, pending', Len(pending')) = h
  <2> HIDE DEF first, second, w, T, T1, h
  <2> QED
    BY <1>2, <1>14, <1>15, <1>16, <1>17, PassesSafe
<1>19. Sound(inode', data') /\ Shows(M, h, inode', data', NoInum) /\ (inum = OwnNumbers => Follows(M, h, inode'))
  <2> HIDE DEF M, h, tab3, T1
  <2> QED
    BY <1>6, <1>13 DEF Stands, View
<1>20. M \ {ROOT_INUM} \subseteq inodeBitmap'
  BY <1>2, <1>5
<1>21. Marked(M, dataBitmap', inode')
  <2> SUFFICES ASSUME NEW j \in M PROVE Held(tab3[j]) \subseteq dataBitmap'
    BY <1>6 DEF Marked
  <2>1. CASE j = c
    BY <1>4, <1>5, <2>1
  <2>2. CASE j = p
    <3>1. Held(s) = Held(inode[p]) \cup (IF NeedsBlock(p) THEN {b} ELSE {})
      BY CreatingParent
    <3> QED
      BY <1>1, <1>2, <1>4, <1>5, <2>2, <3>1 DEF Marked
  <2>3. CASE j # c /\ j # p
    BY <1>2, <1>4, <1>5, <2>3 DEF Marked
  <2> QED
    BY <2>1, <2>2, <2>3
<1>22. MemoryTypes(inode', data', inodeBitmap', dataBitmap')
  <2>1. inode' \in [Inum -> InodeType]
    BY <1>4, <1>6 DEF FineTable
  <2>2. data' \in [Block -> [Slot -> EntryType]]
    <3>1. Replaced(tab3, dat0, p, x, [name |-> n, inum |-> c], data')
      <4>1. /\ Sound(tab3, dat0) /\ FineTable(Live(tab3, dat0), tab3)
            /\ dat0 \in [Block -> [Slot -> EntryType]]
            /\ p \in LiveDirs(tab3, dat0) /\ x \in Spots(tab3[p])
            /\ EntryPut(tab3, dat0, p, x, [name |-> n, inum |-> c], data')
        <5>1. FineTable(L, tab3)
          BY <1>4 DEF FineTable
        <5>2. s.isDir
          BY CreatingParent
        <5> QED
          BY <1>1, <1>3, <1>4, <1>6, <1>7, <1>8, <5>1, <5>2 DEF LiveDirs
      <4> HIDE DEF tab3, dat0, x
      <4> QED
        BY ONLY <4>1, EntryPutIs
    <3>2. [name |-> n, inum |-> c] \in EntryType
      BY <1>1 DEF EntryType
    <3>3. data'[home] \in [Slot -> EntryType] /\ home \in Block
      BY <1>4, <1>7, <3>1, <3>2 DEF Replaced
    <3>4. data' = [contents EXCEPT ![home] = data'[home]]
      <4> DEFINE row == [(IF NeedsBlock(p) THEN EmptyBlock ELSE contents[home])
                            EXCEPT ![x[2]] = [name |-> n, inum |-> c]]
      <4>1. data' = [contents EXCEPT ![home] = row]
        BY DEF Link
      <4> HIDE DEF row, home
      <4> QED
        BY <1>3, <1>7, <4>1
    <3> QED
      BY <1>3, <3>3, <3>4
  <2>3. inodeBitmap' \subseteq 0 .. Scanned(NumInodes) - 1
    <3>1. c \in 0 .. Scanned(NumInodes) - 1
      BY <1>1, InodesAssumption, ScannedCovers DEF Inum
    <3> QED
      BY <1>2, <1>5, <3>1
  <2>4. dataBitmap' \subseteq Block
    BY <1>2, <1>5
  <2> QED
    BY <2>1, <2>2, <2>3, <2>4 DEF MemoryTypes
<1>23. Live(inode', data') = M /\ TreeOf(inode', data') = T1
  BY <1>6, <1>13
<1> HIDE DEF M, h, tab3, T1, L, w, first, second, T
<1> QED
  BY ONLY CrashInd, Serving, <1>2, <1>18, <1>19, <1>20, <1>21, <1>22, <1>23, disk' = disk, inum' = inum,
     cutting' = cutting, status' = "up", HandlerEnds DEF NoInum

(* A directory without room: the child is on the disk, but no entry leads  *)
(* to it when the process stops.                                           *)
LEMMA StoppedInd ==
  ASSUME CrashInd, Serving, NEW p \in Live(inode, data), NoRoom(p),
         NEW c \in Inum, c = reserve_inode, c \notin Live(inode, data),
         NEW child, NEW contents, IsChild(c, p, child, contents), NEW got,
         StopForRoom(c, child, contents, got), status' = "slots_assert",
         BlocksIn(got) \subseteq Block, pending' = creation_writes(p, c, child),
         disk' = disk, inum' = inum, cutting' = cutting
  PROVE  CrashInd'
<1> DEFINE L == Live(inode, data)
           M == L \cup {c}
           T == TreeOf(inode, data)
           tab1 == Put(inode, c, child)
           first == initialize_inode_writes(c, child, p)
           w == InodesWrite(tab1, p)
<1>1. /\ AreNumbers(inum) /\ IsDisk(disk) /\ cutting = NoInum
      /\ Stands(L, disk, inode, data, NoInum, T)
      /\ inode \in [Inum -> InodeType]
      /\ inodeBitmap \subseteq 0 .. Scanned(NumInodes) - 1 /\ dataBitmap \subseteq Block
      /\ L \subseteq Inum /\ L \ {ROOT_INUM} \subseteq inodeBitmap
      /\ Marked(L, dataBitmap, inode)
  BY AtRest
<1>2. p \in Inum /\ p \in M
  BY <1>1
<1>3. /\ child \in InodeType /\ Held(child) \subseteq Block \ dataBitmap
      /\ contents \in [Block -> [Slot -> EntryType]]
      /\ \A x \in Block : x \notin Held(child) => contents[x] = data[x]
  BY <1>2, ChildIs
<1>4. tab1 \in [Inum -> InodeType] /\ \A j \in L : tab1[j] = inode[j]
  <2>1. tab1 \in [Inum -> InodeType] /\ \A j \in Inum : j # c => tab1[j] = inode[j]
    BY <1>1, <1>3, PutIs
  <2> QED
    BY <1>1, <2>1
<1>5. /\ inode' = tab1 /\ data' = contents
      /\ inodeBitmap' = inodeBitmap \cup {c} /\ dataBitmap' = dataBitmap \cup BlocksIn(got)
  BY DEF StopForRoom, Put
<1>6. Sound(tab1, contents) /\ Live(tab1, contents) = L /\ TreeOf(tab1, contents) = T
  <2>1. \A x \in dataBitmap : contents[x] = data[x]
    BY <1>1, <1>3
  <2> QED
    BY <1>4, <2>1, SoundKept
<1>7. pending' = first \o <<w>>
  BY DEF creation_writes, update_parent_writes, same_blocks_writes, write_inode, InodesWrite, Put
<1>8. PICK f : /\ Passes(disk, first, f, NoInum, T)
               /\ Stands(M, f, tab1, contents, NoInum, T)
  BY <1>2, ChildWritten
<1> DEFINE g == Landed(f, w)
<1>9. IsWrite(w)
  <2> HIDE DEF tab1
  <2> QED
    BY <1>1, <1>2, <1>4, InodeWriteOK DEF InodesWrite
<1>10. View(M, f, tab1, contents, NoInum) /\ IsDisk(f) /\ FineTable(M, tab1)
  BY <1>8, StandsView
<1>11. View(M, g, tab1, contents, NoInum)
  <2>1. Turns(M, f, tab1, tab1, contents, p)
    BY DEF Turns
  <2>2. Marked(M \ {NoInum}, LoadedDataBitmap(f), tab1)
    BY <1>10 DEF View, Shows
  <2>3. \A j \in M \ Near(p) : tab1[j].nLinks = tab1[j].nLinks
    OBVIOUS
  <2>4. g = Landed(f, InodesWrite(tab1, p))
    OBVIOUS
  <2> HIDE DEF tab1, M, g
  <2> QED
    BY ONLY <1>1, <1>2, <1>10, <2>1, <2>2, <2>3, <2>4, ViewInodes
<1>12. Stands(M, g, tab1, contents, NoInum, T)
  BY <1>6, <1>11 DEF Stands
<1>13. Passes(f, <<w>>, g, NoInum, T)
  <2> HIDE DEF w, M, tab1
  <2> QED
    BY <1>9, <1>10, <1>12, StepPasses
<1>14. Holds(disk, NoInum, T)
  BY <1>1, StandsHolds
<1>15. /\ IsWrites(pending') /\ Safe(disk, pending', NoInum, T)
       /\ DiskAfter(disk, pending', Len(pending')) = g
  <2>1. Passes(disk, first \o <<w>>, g, NoInum, T)
    BY <1>8, <1>13, PassesJoined
  <2> HIDE DEF first, w, g, T
  <2> QED
    BY <1>1, <1>7, <1>14, <2>1, PassesSteady
<1>16. /\ Sound(inode', data') /\ Live(inode', data') = L /\ TreeOf(inode', data') = T
  BY <1>5, <1>6
<1>17. Shows(L, g, inode', data', NoInum) /\ (inum = OwnNumbers => Follows(L, g, inode'))
  <2>1. L \subseteq M
    OBVIOUS
  <2>2. View(L, g, tab1, contents, NoInum)
    <3> HIDE DEF L, M, g, tab1
    <3> QED
      BY ONLY <1>11, <2>1, ViewLess
  <2> HIDE DEF L, g, tab1
  <2> QED
    BY <1>5, <2>2 DEF View
<1>18. Marked(L, dataBitmap', inode') /\ L \ {ROOT_INUM} \subseteq inodeBitmap'
  BY <1>1, <1>4, <1>5 DEF Marked
<1>19. MemoryTypes(inode', data', inodeBitmap', dataBitmap')
  <2>1. c \in 0 .. Scanned(NumInodes) - 1
    BY InodesAssumption, ScannedCovers DEF Inum
  <2> HIDE DEF tab1
  <2> QED
    BY <1>1, <1>3, <1>4, <1>5, <2>1 DEF MemoryTypes
<1> HIDE DEF M, g, tab1, L, w, first, T
<1> QED
  BY ONLY CrashInd, Serving, <1>1, <1>15, <1>16, <1>17, <1>18, <1>19, disk' = disk, inum' = inum,
     cutting' = cutting, status' = "slots_assert", HandlerEnds DEF NoInum

-----------------------------------------------------------------------------
(* What a creation leaves in memory, whatever it was handed out. *)

(* The child and the contents of the data blocks, of the kind isDir. *)
ChildOf(c, p, isDir, got, child, contents) ==
  \/ /\ isDir
     /\ child = NewDirInode(got[1])
     /\ contents = [data EXCEPT ![got[1]] = DirBlock(c, p)]
  \/ /\ ~ isDir
     /\ \E w \in BOOLEAN : child = NewRegInode(w)
     /\ contents = data

(* The new inode and the contents of its block are well-formed. *)
LEMMA ChildTypes ==
  ASSUME NEW c \in Inum, NEW p \in Inum, NEW isDir \in BOOLEAN,
         NEW got, got = NewBlocks(p, isDir), NEW child, NEW contents,
         ChildOf(c, p, isDir, got, child, contents), data \in [Block -> [Slot -> EntryType]]
  PROVE  /\ child \in InodeType /\ child.isDir = isDir
         /\ contents \in [Block -> [Slot -> EntryType]]
         /\ Held(child) = (IF isDir THEN {got[1]} ELSE {})
<1>1. CASE isDir
  <2>1. got[1] \in Block
    BY <1>1, NewBlocksSplit
  <2>2. child = NewDirInode(got[1]) /\ contents = [data EXCEPT ![got[1]] = DirBlock(c, p)]
    BY <1>1 DEF ChildOf
  <2>3. contents \in [Block -> [Slot -> EntryType]]
    BY <2>1, <2>2, DirBlockType
  <2>4. child.isDir = TRUE
    BY <2>2 DEF NewDirInode
  <2> QED
    BY <1>1, <2>1, <2>2, <2>3, <2>4, NewDirInodeHolds
<1>2. CASE ~ isDir
  <2>1. PICK w \in BOOLEAN : child = NewRegInode(w)
    BY <1>2 DEF ChildOf
  <2>2. child.isDir = FALSE
    BY <2>1 DEF NewRegInode
  <2> QED
    BY <1>2, <2>1, <2>2, NewRegInodeHolds DEF ChildOf
<1> QED
  BY <1>1, <1>2

(* The parent with one more child is an inode. *)
LEMMA WithChildType ==
  ASSUME CrashInd, Serving, NEW p \in Live(inode, data), IsDir(p), ~ NoRoom(p), NEW isDir \in BOOLEAN,
         NEW got, got = NewBlocks(p, isDir)
  PROVE  WithChild(p, isDir, got) \in InodeType
<1> DEFINE b == got[ForChild(isDir) + 1]
           r == IF NeedsBlock(p) THEN AddBlock(inode[p], b) ELSE inode[p]
<1>1. inode[p] \in InodeType
  BY AtRest
<1>2. NeedsBlock(p) => b \in Block /\ inode[p].blocks < NumDirect
  <2>1. NeedsBlock(p) => b \in Block
    BY NewBlocksSplit
  <2>2. inode[p].blocks \in Nat /\ NumDirect \in Nat
    BY <1>1, PtrRange, PointersAssumption DEF InodeType, MaxFileBlocks
  <2> QED
    BY <2>1, <2>2 DEF NoRoom
<1>3. r \in InodeType
  BY <1>1, <1>2, AddBlockShape
<1>4. WithChild(p, isDir, got) = [r EXCEPT !.nLinks = IF isDir THEN IncLinks(@) ELSE @]
  BY DEF WithChild
<1> HIDE DEF r
<1>5. (IF isDir THEN IncLinks(r.nLinks) ELSE r.nLinks) \in 0 .. LinkModulus - 1
  <2>1. r.nLinks \in 0 .. LinkModulus - 1 /\ LinkModulus \in Nat /\ LinkModulus > 2
    BY <1>3, LinksAssumption DEF InodeType
  <2> QED
    BY <2>1 DEF IncLinks
<1> QED
  BY <1>3, <1>4, <1>5 DEF InodeType

(* Creating an inode, or stopping for want of room, keeps the memory well- *)
(* formed.                                                                 *)
LEMMA CreationTypes ==
  ASSUME CrashInd, Serving, NEW p \in Live(inode, data), IsDir(p), NEW isDir \in BOOLEAN, NEW n \in Names,
         NEW c \in Inum, NEW got, got = NewBlocks(p, isDir), NEW child, NEW contents,
         ChildOf(c, p, isDir, got, child, contents),
         StopForRoom(c, child, contents, got) \/ (~ NoRoom(p) /\ Link(p, n, c, child, contents, got))
  PROVE  MemoryTypes(inode', data', inodeBitmap', dataBitmap')
<1>1. /\ inode \in [Inum -> InodeType] /\ dataBitmap \subseteq Block
      /\ inodeBitmap \subseteq 0 .. Scanned(NumInodes) - 1
      /\ data \in [Block -> [Slot -> EntryType]]
      /\ p \in Inum
  BY AtRest
<1>2. /\ child \in InodeType /\ child.isDir = isDir
      /\ contents \in [Block -> [Slot -> EntryType]]
  BY <1>1, ChildTypes
<1>3. BlocksIn(got) \subseteq Block
  BY NewBlocksSplit
<1>4. c \in 0 .. Scanned(NumInodes) - 1
  BY InodesAssumption, ScannedCovers DEF Inum
<1>5. inodeBitmap' = inodeBitmap \cup {c} /\ dataBitmap' = dataBitmap \cup BlocksIn(got)
  BY DEF StopForRoom, Link
<1>6. inode' \in [Inum -> InodeType] /\ data' \in [Block -> [Slot -> EntryType]]
  <2>1. CASE StopForRoom(c, child, contents, got)
    BY <1>1, <1>2, <2>1 DEF StopForRoom
  <2>2. CASE ~ NoRoom(p) /\ Link(p, n, c, child, contents, got)
    <3> DEFINE s == WithChild(p, child.isDir, got)
               x == OpenPlace(p)
               home == s.ptrs[x[1]]
               before == IF NeedsBlock(p) THEN EmptyBlock ELSE contents[home]
               row == [before EXCEPT ![x[2]] = [name |-> n, inum |-> c]]
    <3>1. inode' = [inode EXCEPT ![c] = child, ![p] = s] /\ data' = [contents EXCEPT ![home] = row]
      BY <2>2 DEF Link
    <3>2. s \in InodeType
      BY <1>2, <2>2, WithChildType
    <3>3. [name |-> n, inum |-> c] \in EntryType
      BY DEF EntryType
    <3>4. home \in Block => before \in [Slot -> EntryType]
      BY <1>2, DirBlockType
    <3> HIDE DEF before
    <3>5. home \in Block => row \in [Slot -> EntryType]
      BY <3>3, <3>4
    <3> HIDE DEF s, home, row
    <3> QED
      BY <1>1, <1>2, <3>1, <3>2, <3>5
  <2> QED
    BY <2>1, <2>2
<1> QED
  BY <1>1, <1>3, <1>4, <1>5, <1>6 DEF MemoryTypes

(* A request whose behaviour is undefined changes nothing the disk shows. *)
LEMMA GivenUp ==
  ASSUME CrashInd, Serving, UNCHANGED <<fsVars, inum, disk, cutting>>, pending' = <<>>, status' = "undefined"
  PROVE  CrashInd'
<1>1. MemoryTypes(inode', data', inodeBitmap', dataBitmap')
  <2>1. MemoryTypes(inode, data, inodeBitmap, dataBitmap)
    BY AtRest DEF MemoryTypes
  <2> QED
    BY <2>1 DEF fsVars
<1> QED
  BY <1>1, HandlerGivesUp

(* A child of a free inode number takes new blocks. *)
LEMMA NewChild ==
  ASSUME CrashInd, Serving, NEW p \in Live(inode, data), IsDir(p), NEW isDir \in BOOLEAN,
         NEW c \in Inum, NEW got, got = NewBlocks(p, isDir), NEW child, NEW contents,
         ChildOf(c, p, isDir, got, child, contents), AfterReserving(got) = "up"
  PROVE  IsChild(c, p, child, contents)
<1>1. BlocksIn(got) \cap dataBitmap = {}
  BY NewBlocksSplit
<1>2. CASE isDir
  <2>1. got[1] \in Block /\ got \in [1 .. ForChild(isDir) + ForParent(p) -> Block]
        /\ ForChild(isDir) + ForParent(p) \in Nat
    BY <1>2, NewBlocksSplit
  <2>2. 1 \in DOMAIN got
    <3>1. ForChild(isDir) = 1 /\ ForParent(p) \in {0, 1}
      BY <1>2 DEF ForChild, ForParent
    <3>2. DOMAIN got = 1 .. ForChild(isDir) + ForParent(p)
      BY <2>1
    <3>3. 1 \in 1 .. 1 + ForParent(p)
      BY <3>1
    <3> QED
      BY <3>1, <3>2, <3>3
  <2>3. got[1] \notin dataBitmap
    BY <1>1, <2>2 DEF BlocksIn
  <2> QED
    BY <1>2, <2>1, <2>3 DEF IsChild, ChildOf
<1>3. CASE ~ isDir
  BY <1>3 DEF IsChild, ChildOf
<1> QED
  BY <1>2, <1>3

(* mkdir and mknod. *)
LEMMA CreationInd ==
  ASSUME CrashInd, Serving, NEW p \in Live(inode, data), IsDir(p), NEW n \in Names, NEW isDir \in BOOLEAN,
         inum_from_path(p, n) = NoInum,
         NEW c, c = reserve_inode, c \notin Live(inode, data),
         NEW got, got = NewBlocks(p, isDir), NEW child, NEW contents,
         c \in Inum => ChildOf(c, p, isDir, got, child, contents),
         CreateIn(p, n, child, contents, got),
         pending' = (IF status' \in {"overcommitted", "undefined"} THEN <<>> ELSE creation_writes(p, c, child)),
         disk' = disk, inum' = inum, cutting' = cutting
  PROVE  CrashInd'
<1>1. /\ c \in Nat /\ NumInodes \in Nat
      /\ c < NumInodes => c \in Inum
  BY InodesAssumption, ReservedInode
<1>2. AfterReserving(got) \in {"up", "overcommitted"}
  BY DEF AfterReserving
<1>3. BlocksIn(got) \subseteq Block
  BY NewBlocksSplit
<1>4. CASE c >= NumInodes /\ Undefined
  BY <1>4, GivenUp DEF Undefined
<1>5. CASE c < NumInodes /\ NoRoom(p) /\ StopForRoom(c, child, contents, got)
  <2>1. c \in Inum /\ ChildOf(c, p, isDir, got, child, contents)
    BY <1>1, <1>5
  <2>2. CASE AfterReserving(got) = "up"
    <3>1. status' = "slots_assert" /\ StopForRoom(c, child, contents, got) /\ NoRoom(p)
      BY <1>5, <2>2 DEF StopForRoom
    <3>2. pending' = creation_writes(p, c, child)
      BY <3>1
    <3>3. IsChild(c, p, child, contents)
      BY <2>1, <2>2, NewChild
    <3> QED
      BY <1>3, <2>1, <3>1, <3>2, <3>3, StoppedInd
  <2>3. CASE AfterReserving(got) = "overcommitted"
    <3>1. status' = "overcommitted" /\ pending' = <<>>
      BY <1>5, <2>3 DEF StopForRoom
    <3>2. MemoryTypes(inode', data', inodeBitmap', dataBitmap')
      BY <1>5, <2>1, CreationTypes
    <3> QED
      BY <3>1, <3>2, HandlerGivesUp
  <2> QED
    BY <1>2, <2>2, <2>3
<1>6. CASE c < NumInodes /\ ~ NoRoom(p) /\ Link(p, n, c, child, contents, got)
  <2>1. c \in Inum /\ ChildOf(c, p, isDir, got, child, contents)
    BY <1>1, <1>6
  <2>2. CASE AfterReserving(got) = "up"
    <3> DEFINE b == got[ForChild(isDir) + 1]
    <3>1. status' = "up" /\ Link(p, n, c, child, contents, got) /\ ~ NoRoom(p)
      BY <1>6, <2>2 DEF Link
    <3>2. pending' = creation_writes(p, c, child)
      BY <3>1
    <3>3. IsChild(c, p, child, contents)
      BY <2>1, <2>2, NewChild
    <3>4. child.isDir = isDir /\ Held(child) = (IF isDir THEN {got[1]} ELSE {})
      BY <2>1, ChildTypes, AtRest
    <3>5. /\ BlocksIn(got) = (IF isDir THEN {got[1]} ELSE {}) \cup (IF NeedsBlock(p) THEN {b} ELSE {})
          /\ BlocksIn(got) \cap dataBitmap = {}
          /\ isDir /\ NeedsBlock(p) => got[1] # got[2]
      BY <2>2, <3>1, NewBlocksSplit
    <3>6. NeedsBlock(p) => b \in Block \ dataBitmap /\ b \notin Held(child)
      <4> SUFFICES ASSUME NeedsBlock(p) PROVE b \in Block \ dataBitmap /\ b \notin Held(child)
        OBVIOUS
      <4>1. b \in Block \ dataBitmap
        BY <1>3, <3>5
      <4>2. isDir => b = got[2]
        BY DEF ForChild
      <4> QED
        BY <3>4, <3>5, <4>1, <4>2
    <3>7. Creating(p, c, child, contents, got, b)
      BY <2>1, <3>1, <3>3, <3>4, <3>6 DEF Creating
    <3>8. Held(child) \subseteq BlocksIn(got) /\ (NeedsBlock(p) => b \in BlocksIn(got))
      BY <3>4, <3>5
    <3> QED
      BY <1>3, <3>1, <3>2, <3>7, <3>8, CreatedInd
  <2>3. CASE AfterReserving(got) = "overcommitted"
    <3>1. status' = "overcommitted" /\ pending' = <<>>
      BY <1>6, <2>3 DEF Link
    <3>2. MemoryTypes(inode', data', inodeBitmap', dataBitmap')
      BY <1>6, <2>1, CreationTypes
    <3> QED
      BY <3>1, <3>2, HandlerGivesUp
  <2> QED
    BY <1>2, <2>2, <2>3
<1> QED
  BY <1>4, <1>5, <1>6 DEF CreateIn

(* refs_mkdir keeps the inductive invariant, whichever way it ends         *)
(* (src/refs.c:961).                                                       *)
LEMMA mkdir_to_diskInd ==
  ASSUME CrashInd, NEW p \in Inum, NEW n \in Names, mkdir_to_disk(p, n)
  PROVE  CrashInd'
<1> DEFINE got == NewBlocks(p, TRUE)
           c == reserve_inode
           child == NewDirInode(got[1])
           contents == [data EXCEPT ![got[1]] = DirBlock(c, p)]
<1>1. /\ Serving /\ p \in Live(inode, data) /\ disk' = disk /\ inum' = inum /\ cutting' = cutting /\ IsDir(p)
      /\ pending' = (IF status' \in {"overcommitted", "undefined"} THEN <<>>
                     ELSE IF Creates(p, n) THEN creation_writes(p, c, child) ELSE <<>>)
  BY InMemory DEF mkdir_to_disk, ServingAbout, ToDisk, mkdir
<1>2. CASE inum_from_path(p, n) # NoInum /\ Refuse("EEXIST")
  <2>1. pending' = <<>>
    BY <1>1, <1>2 DEF Creates
  <2> QED
    BY <1>1, <1>2, <2>1, NothingChanged DEF Refuse
<1>3. CASE inum_from_path(p, n) = NoInum /\ CreateIn(p, n, child, contents, got)
  <2>1. c \notin Live(inode, data)
    BY <1>3, InMemory DEF mkdir_to_disk, Creates, FreshInode
  <2>2. pending' = (IF status' \in {"overcommitted", "undefined"} THEN <<>> ELSE creation_writes(p, c, child))
    BY <1>1, <1>3 DEF Creates
  <2>3. ChildOf(c, p, TRUE, got, child, contents)
    BY DEF ChildOf
  <2> HIDE DEF c, child, contents, got
  <2>4. c = reserve_inode /\ got = NewBlocks(p, TRUE)
    BY DEF c, got
  <2> QED
    BY <1>1, <1>3, <2>1, <2>2, <2>3, <2>4, CreationInd
<1> QED
  BY <1>2, <1>3 DEF mkdir_to_disk, mkdir

(* refs_mknod keeps the inductive invariant, whichever way it ends         *)
(* (src/refs.c:1180).                                                      *)
LEMMA mknod_to_diskInd ==
  ASSUME CrashInd, NEW p \in Inum, NEW n \in Names, NEW w \in Perms, mknod_to_disk(p, n, w)
  PROVE  CrashInd'
<1> DEFINE got == NewBlocks(p, FALSE)
           c == reserve_inode
           child == NewRegInode(w)
<1>1. /\ Serving /\ p \in Live(inode, data) /\ disk' = disk /\ inum' = inum /\ cutting' = cutting /\ IsDir(p)
      /\ pending' = (IF status' \in {"overcommitted", "undefined"} THEN <<>>
                     ELSE IF Creates(p, n) THEN creation_writes(p, c, child) ELSE <<>>)
  BY InMemory DEF mknod_to_disk, ServingAbout, ToDisk, mknod
<1>2. CASE inum_from_path(p, n) # NoInum /\ Refuse("EEXIST")
  <2>1. pending' = <<>>
    BY <1>1, <1>2 DEF Creates
  <2> QED
    BY <1>1, <1>2, <2>1, NothingChanged DEF Refuse
<1>3. CASE inum_from_path(p, n) = NoInum /\ CreateIn(p, n, child, data, got)
  <2>1. c \notin Live(inode, data)
    BY <1>3, InMemory DEF mknod_to_disk, Creates, FreshInode
  <2>2. pending' = (IF status' \in {"overcommitted", "undefined"} THEN <<>> ELSE creation_writes(p, c, child))
    BY <1>1, <1>3 DEF Creates
  <2>3. ChildOf(c, p, FALSE, got, child, data)
    BY PermsAssumption DEF ChildOf
  <2> HIDE DEF c, child, got
  <2>4. c = reserve_inode /\ got = NewBlocks(p, FALSE)
    BY DEF c, got
  <2> QED
    BY <1>1, <1>3, <2>1, <2>2, <2>3, <2>4, CreationInd
<1> QED
  BY <1>2, <1>3 DEF mknod_to_disk, mknod

-----------------------------------------------------------------------------
(* Removal *)

(* A name space stays sound when links, permissions and blocks that no     *)
(* directory has change.                                                   *)
LEMMA SoundAlike ==
  ASSUME NEW tab, NEW dat, Sound(tab, dat), NEW L, L = Live(tab, dat),
         FineTable(L, tab), NEW tab2, FineTable(L, tab2),
         \A i \in L : Durable(tab2[i]) = Durable(tab[i]),
         NEW dat2, \A d \in LiveDirs(tab, dat) : \A b \in Held(tab[d]) : dat2[b] = dat[b]
  PROVE  /\ Sound(tab2, dat2)
         /\ Live(tab2, dat2) = L
         /\ TreeOf(tab2, dat2) = TreeOf(tab, dat)
<1>1. \A i \in L : /\ Fine(tab2[i]) /\ tab2[i].isDir = tab[i].isDir /\ Held(tab2[i]) = Held(tab[i])
                   /\ tab2[i].blocks = tab[i].blocks /\ tab2[i].ptrs = tab[i].ptrs
  <2> TAKE i \in L
  <2>1. tab[i] \in InodeType /\ tab2[i] \in InodeType /\ Fine(tab[i]) /\ Fine(tab2[i])
    BY DEF FineTable
  <2>2. Durable(tab2[i]) = Durable(tab[i])
    OBVIOUS
  <2>3. tab2[i].isDir = tab[i].isDir
    BY <2>1, <2>2, DurableIs
  <2>4. ~ tab[i].isDir => tab2[i].nLinks = 1
    BY <2>1, <2>3 DEF Fine
  <2> QED
    BY <2>1, <2>2, <2>3, <2>4, FineSame
<1>2. \A i, j \in L : i # j => Held(tab2[i]) \cap Held(tab2[j]) = {}
  BY <1>1 DEF Sound
<1>3. ASSUME NEW d \in LiveDirs(tab, dat)
      PROVE  /\ NamedIn(tab2[d], dat2) = NamedIn(tab[d], dat)
             /\ \A x \in NamedIn(tab[d], dat) : EntryIn(tab2[d], dat2, x) = EntryIn(tab[d], dat, x)
  <2>1. d \in L
    BY DEF LiveDirs
  <2>2. Spots(tab2[d]) = Spots(tab[d])
    BY <1>1, <2>1 DEF Spots
  <2>3. \A x \in Spots(tab[d]) : EntryIn(tab2[d], dat2, x) = EntryIn(tab[d], dat, x)
    <3> TAKE x \in Spots(tab[d])
    <3>1. x[1] \in 0 .. tab[d].blocks - 1
      BY <2>1, SpotsAre DEF FineTable
    <3>2. tab[d].ptrs[x[1]] \in Held(tab[d])
      BY <2>1, <3>1, FineTableIs
    <3> QED
      BY <1>1, <2>1, <3>2 DEF EntryIn
  <2> QED
    BY <2>2, <2>3 DEF NamedIn
<1> QED
  BY <1>1, <1>2, <1>3, SoundSame

(* A link less. *)
LEMMA LessLinkIs ==
  ASSUME NEW tab \in [Inum -> InodeType], NEW i \in Inum
  PROVE  /\ LessLink(tab, i) \in [Inum -> InodeType]
         /\ \A j \in Inum : Durable(LessLink(tab, i)[j]) = Durable(tab[j])
         /\ \A j \in Inum : LessLink(tab, i)[j].isDir = tab[j].isDir
         /\ \A j \in Inum : j # i => LessLink(tab, i)[j] = tab[j]
         /\ LessLink(tab, i)[i].nLinks = DecLinks(tab[i].nLinks)
<1>1. tab[i].nLinks \in 0 .. LinkModulus - 1 /\ LinkModulus \in Nat /\ LinkModulus > 2
  BY LinksAssumption DEF InodeType
<1>2. DecLinks(tab[i].nLinks) \in 0 .. LinkModulus - 1
  BY <1>1 DEF DecLinks
<1> DEFINE r == [tab[i] EXCEPT !.nLinks = DecLinks(@)]
<1>3. LessLink(tab, i) = [tab EXCEPT ![i] = r]
  BY DEF LessLink
<1>4. r \in InodeType /\ r.isDir = tab[i].isDir /\ r.nLinks = DecLinks(tab[i].nLinks)
  BY <1>2 DEF InodeType
<1>5. Durable(r) = Durable(tab[i])
  BY <1>4, DurableIs DEF InodeType
<1> HIDE DEF r
<1> QED
  BY <1>3, <1>4, <1>5

(* Without the one entry that leads to it, and without entries of its own, *)
(* c is out of the name space.                                             *)
Removing(p, n, c, x, dat1) ==
  /\ p \in Live(inode, data) /\ IsDir(p) /\ n \in Names
  /\ c = inum_from_path(p, n) /\ c # NoInum
  /\ x = First(Hits(p, n))
  /\ IsDir(c) => dir_isempty(c)
  /\ dat1 = WithoutEntry(p, n)

(* A directory that dir_isempty finds empty has no names. *)
LEMMA EmptyHasNoNames ==
  ASSUME NEW c, dir_isempty(c)
  PROVE  NamedIn(inode[c], data) = {}
BY DEF dir_isempty, NamedIn, IsNamed, EntryIn, EntryAt, Places, Spots

(* What removing an entry takes from memory, and the tree without it. *)
LEMMA RemovingIs ==
  ASSUME CrashInd, Serving, NEW p, NEW n, NEW c, NEW x, NEW dat1, Removing(p, n, c, x, dat1),
         NEW L, L = Live(inode, data), NEW home, home = inode[p].ptrs[x[1]]
  PROVE  /\ Sound(inode, dat1) /\ Live(inode, dat1) = L \ {c}
         /\ p \in Inum /\ c \in Inum /\ c \in L /\ c # ROOT_INUM /\ c # p
         /\ dat1 \in [Block -> [Slot -> EntryType]]
         /\ home \in Block /\ home \in Held(inode[p])
         /\ \A b \in Block : b # home => dat1[b] = data[b]
<1>1. /\ p \in L /\ IsDir(p) /\ n \in Names /\ c = inum_from_path(p, n) /\ c # NoInum /\ x = First(Hits(p, n))
      /\ IsDir(c) => dir_isempty(c)
      /\ dat1 = [data EXCEPT ![home] = [data[home] EXCEPT ![x[2]] = NoEntry]]
  BY DEF Removing, WithoutEntry
<1>2. x \in NamedIn(inode[p], data) /\ EntryIn(inode[p], data, x).inum = c /\ c \in L /\ c \in Inum
  BY <1>1, NamedChild
<1>3. p \in LiveDirs(inode, data)
  BY <1>1, Found
<1>4. Sound(inode, data) /\ FineTable(L, inode) /\ data \in [Block -> [Slot -> EntryType]] /\ L \subseteq Inum
  BY AtRest DEF Stands, View
<1>5. x \in Spots(inode[p])
  BY <1>2 DEF NamedIn
<1>6. inode[p].ptrs[x[1]] \in Block
  <2>1. x[1] \in 0 .. inode[p].blocks - 1
    BY <1>1, <1>4, <1>5, SpotsAre DEF FineTable
  <2> QED
    BY <1>1, <1>4, <2>1, FineTableIs
<1>7. EntryPut(inode, data, p, x, NoEntry, dat1)
  <2>1. home \in Block
    BY <1>6
  <2>2. dat1[home] = [data[home] EXCEPT ![x[2]] = NoEntry]
    BY <1>1, <1>4, <2>1
  <2>3. \A b \in Block : b # home => dat1[b] = data[b]
    BY <1>1, <1>4
  <2>4. home = inode[p].ptrs[x[1]]
    OBVIOUS
  <2> QED
    BY ONLY <2>2, <2>3, <2>4 DEF EntryPut
<1>8. Replaced(inode, data, p, x, NoEntry, dat1)
  BY <1>3, <1>4, <1>5, <1>7, EntryPutIs
<1>9. NoEntry \in EntryType /\ ~ IsNamed(NoEntry)
  BY RootIsInum DEF NoEntry, EntryType, IsNamed
<1>10. home \in Block /\ home \in Held(inode[p]) /\ dat1[home] \in [Slot -> EntryType]
       /\ \A b \in Block : b # home => dat1[b] = data[b]
  BY <1>7, <1>8, <1>9 DEF Replaced, EntryPut
<1>11. dat1 \in [Block -> [Slot -> EntryType]]
  BY <1>1, <1>4, <1>10
<1>12. /\ EntryIn(inode[p], dat1, x) = NoEntry
       /\ \A d \in LiveDirs(inode, data) : \A y \in Spots(inode[d]) :
            (d = p /\ y = x) \/ EntryIn(inode[d], dat1, y) = EntryIn(inode[d], data, y)
  BY <1>8 DEF Replaced
<1>13. Removes(inode, data, inode, dat1, c, p, x)
  <2>1. inode[c].isDir => NamedIn(inode[c], data) = {}
    <3>1. inode[c].inUse
      BY <1>2, <1>4 DEF FineTable, Fine
    <3> QED
      BY <1>1, <3>1, EmptyHasNoNames DEF IsDir
  <2>2. \A i \in L \ {c} : Fine(inode[i])
    BY <1>4 DEF FineTable
  <2>3. \A i, j \in L \ {c} : i # j => Held(inode[i]) \cap Held(inode[j]) = {}
    BY <1>4 DEF Sound
  <2>4. \A d \in LiveDirs(inode, data) : \A y \in NamedIn(inode[d], data) :
          (d = p /\ y = x) \/ (y \in NamedIn(inode[d], dat1) /\ EntryIn(inode[d], dat1, y) = EntryIn(inode[d], data, y))
    BY <1>12 DEF NamedIn
  <2>5. \A d \in LiveDirs(inode, data) : \A y \in NamedIn(inode[d], dat1) :
          y \in NamedIn(inode[d], data) /\ ~ (d = p /\ y = x)
    <3> SUFFICES ASSUME NEW d \in LiveDirs(inode, data), NEW y \in NamedIn(inode[d], dat1)
                 PROVE  y \in NamedIn(inode[d], data) /\ ~ (d = p /\ y = x)
      OBVIOUS
    <3>1. y \in Spots(inode[d]) /\ IsNamed(EntryIn(inode[d], dat1, y))
      BY DEF NamedIn
    <3>2. ~ (d = p /\ y = x)
      BY <1>9, <1>12, <3>1
    <3>3. EntryIn(inode[d], dat1, y) = EntryIn(inode[d], data, y)
      BY <1>12, <3>1, <3>2
    <3> QED
      BY <3>1, <3>2, <3>3 DEF NamedIn
  <2> QED
    BY <1>2, <1>3, <2>1, <2>2, <2>3, <2>4, <2>5 DEF Removes
<1>14. /\ Sound(inode, dat1) /\ Live(inode, dat1) = L \ {c}
       /\ c \in L /\ c # ROOT_INUM /\ c # p
  <2>1. Sound(inode, data)
    BY <1>4
  <2> QED
    BY ONLY <1>13, <2>1, SoundRemove, L = Live(inode, data)
<1> QED
  BY <1>1, <1>2, <1>4, <1>10, <1>11, <1>14

(* A block of inodes is written that changes links and permissions only. *)
LEMMA LinksWritten ==
  ASSUME NEW L, NEW d, NEW tab, NEW dat, NEW T, Stands(L, d, tab, dat, NoInum, T), L = Live(tab, dat),
         AreNumbers(inum), NEW i \in Inum,
         NEW table, FineTable(L, table), \A j \in L : Durable(table[j]) = Durable(tab[j]),
         inum = OwnNumbers => \A j \in L \ Near(i) : table[j].nLinks = tab[j].nLinks,
         NEW w, w = InodesWrite(table, i), NEW e, e = Landed(d, w)
  PROVE  /\ Passes(d, <<w>>, e, NoInum, T)
         /\ Stands(L, e, table, dat, NoInum, T)
         /\ L = Live(table, dat)
<1>1. View(L, d, tab, dat, NoInum) /\ IsDisk(d) /\ FineTable(L, tab) /\ Sound(tab, dat) /\ TreeOf(tab, dat) = T
  BY DEF Stands, View
<1>2. IsWrite(w)
  BY InodeWriteOK DEF InodesWrite, FineTable
<1>3. Turns(L, d, tab, table, dat, i)
  BY DEF Turns
<1>4. Marked(L \ {NoInum}, LoadedDataBitmap(d), table)
  <2> SUFFICES ASSUME NEW j \in L \ {NoInum} PROVE Held(table[j]) \subseteq LoadedDataBitmap(d)
    BY DEF Marked
  <2>1. Held(tab[j]) \subseteq LoadedDataBitmap(d)
    BY <1>1 DEF View, Shows, Marked
  <2>2. /\ tab[j] \in InodeType /\ table[j] \in InodeType /\ Fine(tab[j]) /\ Fine(table[j])
        /\ Durable(table[j]) = Durable(tab[j])
    BY <1>1 DEF FineTable
  <2>3. table[j].isDir = tab[j].isDir
    BY <2>2, DurableIs
  <2>4. Held(table[j]) = Held(tab[j])
    BY <2>2, <2>3, FineSame DEF Fine
  <2> QED
    BY <2>1, <2>4
<1>5. View(L, e, table, dat, NoInum)
  BY <1>1, <1>3, <1>4, ViewInodes
<1>6. Sound(table, dat) /\ Live(table, dat) = L /\ TreeOf(table, dat) = T
  <2>1. \A f \in LiveDirs(tab, dat) : \A b \in Held(tab[f]) : dat[b] = dat[b]
    OBVIOUS
  <2> QED
    BY <1>1, <2>1, SoundAlike
<1>7. Stands(L, e, table, dat, NoInum, T)
  BY <1>5, <1>6 DEF Stands
<1> QED
  BY <1>1, <1>2, <1>6, <1>7, StepPasses

(* The writes of remove_child_abspath: the entry goes first, and with it   *)
(* the child.                                                              *)
LEMMA RemovalWritten ==
  ASSUME CrashInd, Serving, NEW p, NEW n, NEW c, NEW x, NEW dat1, Removing(p, n, c, x, dat1),
         NEW M, M = Live(inode, data) \ {c}, NEW left, left = WithoutLinks(p, c),
         NEW T1, T1 = TreeOf(inode, dat1)
  PROVE  \E e : /\ Passes(disk, removal_writes(p, n), e, NoInum, T1)
                /\ Stands(M, e, left, dat1, NoInum, T1)
                /\ M = Live(left, dat1)
<1> DEFINE L == Live(inode, data)
           home == inode[p].ptrs[x[1]]
           tab1 == LessLink(inode, p)
           w1 == DataWrite(home, Entries(dat1[home]))
           w2 == InodesWrite(tab1, inum[p])
           w3 == InodesWrite(left, inum[c])
           d1 == Landed(disk, w1)
           d2 == Landed(d1, w2)
           d3 == Landed(d2, w3)
<1>1. /\ Stands(L, disk, inode, data, NoInum, TreeOf(inode, data)) /\ AreNumbers(inum) /\ IsDisk(disk)
      /\ inode \in [Inum -> InodeType] /\ L \subseteq Inum
  BY AtRest
<1>2. /\ Sound(inode, dat1) /\ Live(inode, dat1) = L \ {c}
      /\ p \in Inum /\ c \in Inum /\ c \in L /\ c # ROOT_INUM /\ c # p
      /\ dat1 \in [Block -> [Slot -> EntryType]]
      /\ home \in Block /\ home \in Held(inode[p])
      /\ \A b \in Block : b # home => dat1[b] = data[b]
  BY RemovingIs
<1>3. c = inum_from_path(p, n) /\ x = First(Hits(p, n)) /\ dat1 = WithoutEntry(p, n) /\ p \in L /\ IsDir(p)
  BY DEF Removing
<1>4. removal_writes(p, n) = <<w1, w2, w3>>
  BY <1>3 DEF removal_writes, write_inode, InodesWrite
<1>5. /\ View(L, disk, inode, data, NoInum) /\ FineTable(L, inode) /\ Sound(inode, data)
  BY <1>1 DEF Stands, View
<1>6. inum[p] \in Inum /\ inum[c] \in Inum /\ (inum = OwnNumbers => inum[p] = p /\ inum[c] = c)
  BY <1>1, <1>2 DEF AreNumbers, OwnNumbers
<1>7. /\ tab1 \in [Inum -> InodeType]
      /\ \A j \in Inum : Durable(tab1[j]) = Durable(inode[j])
      /\ \A j \in Inum : tab1[j].isDir = inode[j].isDir
      /\ \A j \in Inum : j # p => tab1[j] = inode[j]
  BY <1>1, <1>2, LessLinkIs
<1>8. /\ left \in [Inum -> InodeType]
      /\ \A j \in Inum : Durable(left[j]) = Durable(tab1[j])
      /\ \A j \in Inum : left[j].isDir = tab1[j].isDir
      /\ \A j \in Inum : j # c => left[j] = tab1[j]
  <2> HIDE DEF tab1
  <2>1. left = LessLink(tab1, c)
    BY DEF WithoutLinks, tab1
  <2> QED
    BY <1>2, <1>7, <2>1, LessLinkIs
<1>9. FineTable(M, inode) /\ FineTable(M, tab1) /\ FineTable(M, left)
  <2>1. M \subseteq Inum /\ \A j \in M : Fine(inode[j]) /\ inode[j] \in InodeType
    BY <1>1, <1>5 DEF FineTable
  <2>2. \A j \in M : Fine(tab1[j])
    <3> SUFFICES ASSUME NEW j \in M PROVE Fine(tab1[j])
      OBVIOUS
    <3>1. ~ inode[j].isDir => tab1[j].nLinks = 1
      BY <1>3, <1>7, <2>1 DEF Fine, IsDir
    <3> QED
      BY <1>7, <2>1, <3>1, FineSame
  <2>3. \A j \in M : left[j] = tab1[j]
    BY <1>1, <1>8
  <2> QED
    BY <1>1, <1>7, <1>8, <2>1, <2>2, <2>3 DEF FineTable
<1> HIDE DEF home
<1>10. IsData(Entries(dat1[home])) /\ Entries(dat1[home]).kind # "ptrs" /\ Seen(Entries(dat1[home])) = dat1[home] /\ IsWrite(w1)
  BY <1>2, EntriesOK
<1>11. View(L, d1, inode, dat1, NoInum)
  <2>1. \A i \in L : inode[i].blocks > NumDirect => inode[i].indirect # home
    <3> SUFFICES ASSUME NEW i \in L, inode[i].blocks > NumDirect, inode[i].indirect = home PROVE FALSE
      OBVIOUS
    <3>1. home \in Held(inode[i])
      BY <1>5, FineTableIs
    <3>2. i = p
      BY <1>2, <1>3, <1>5, <3>1 DEF Sound
    <3>3. inode[p].blocks \in 1 .. NumDirect /\ NumDirect \in Nat
      BY <1>3, <1>5, FineTableIs, PtrRange DEF IsDir
    <3> QED
      BY <3>2, <3>3
  <2>2. \A i \in L : inode[i].isDir => \A k \in 0 .. inode[i].blocks - 1 :
           dat1[inode[i].ptrs[k]] = IF inode[i].ptrs[k] = home THEN Seen(Entries(dat1[home])) ELSE data[inode[i].ptrs[k]]
    <3>1. \A i \in L : \A k \in 0 .. inode[i].blocks - 1 : inode[i].ptrs[k] \in Block
      BY <1>5, FineTableIs
    <3> QED
      BY <1>2, <1>10, <3>1
  <2> DEFINE blk == Entries(dat1[home])
  <2>3. d1 = Landed(disk, DataWrite(home, blk))
    OBVIOUS
  <2>4. /\ IsData(blk) /\ blk.kind # "ptrs"
        /\ \A i \in L : inode[i].isDir => \A k \in 0 .. inode[i].blocks - 1 :
             dat1[inode[i].ptrs[k]] = IF inode[i].ptrs[k] = home THEN Seen(blk) ELSE data[inode[i].ptrs[k]]
    BY <1>10, <2>2
  <2>5. home \in Block
    BY <1>2
  <2> HIDE DEF blk, L, d1
  <2> QED
    BY ONLY <1>5, <2>1, <2>3, <2>4, <2>5, ViewData
<1>12. View(M, d1, inode, dat1, NoInum)
  BY <1>11, ViewLess
<1>13. Stands(M, d1, inode, dat1, NoInum, T1)
  BY <1>2, <1>12 DEF Stands
<1>14. Passes(disk, <<w1>>, d1, NoInum, T1)
  <2> HIDE DEF w1
  <2> QED
    BY <1>1, <1>10, <1>13, StepPasses
<1>15. M = Live(inode, dat1)
  BY <1>2
<1>16. /\ Passes(d1, <<w2>>, d2, NoInum, T1)
       /\ Stands(M, d2, tab1, dat1, NoInum, T1)
       /\ M = Live(tab1, dat1)
  <2>1. \A j \in M : Durable(tab1[j]) = Durable(inode[j])
    BY <1>1, <1>7
  <2>2. inum = OwnNumbers => \A j \in M \ Near(inum[p]) : tab1[j].nLinks = inode[j].nLinks
    <3> SUFFICES ASSUME inum = OwnNumbers, NEW j \in M \ Near(inum[p]) PROVE tab1[j].nLinks = inode[j].nLinks
      OBVIOUS
    <3>1. p \in Near(inum[p])
      BY <1>2, <1>6 DEF Near
    <3>2. j \in Inum /\ j # p
      BY <1>1, <3>1
    <3> QED
      BY <1>7, <3>2
  <2>3. w2 = InodesWrite(tab1, inum[p]) /\ d2 = Landed(d1, w2)
    OBVIOUS
  <2> HIDE DEF tab1, d1, w2, d2
  <2> QED
    BY ONLY <1>1, <1>6, <1>9, <1>13, <1>15, <2>1, <2>2, <2>3, LinksWritten
<1>17. /\ Passes(d2, <<w3>>, d3, NoInum, T1)
       /\ Stands(M, d3, left, dat1, NoInum, T1)
       /\ M = Live(left, dat1)
  <2>1. \A j \in M : Durable(left[j]) = Durable(tab1[j])
    BY <1>1, <1>8
  <2>2. inum = OwnNumbers => \A j \in M \ Near(inum[c]) : left[j].nLinks = tab1[j].nLinks
    BY <1>1, <1>8
  <2>3. w3 = InodesWrite(left, inum[c]) /\ d3 = Landed(d2, w3)
    OBVIOUS
  <2> HIDE DEF tab1, d2, w3, d3
  <2> QED
    BY ONLY <1>1, <1>6, <1>9, <1>16, <2>1, <2>2, <2>3, LinksWritten
<1>18. Passes(disk, <<w1, w2, w3>>, d3, NoInum, T1)
  <2> HIDE DEF w1, w2, w3, d1, d2, d3
  <2> QED
    BY <1>14, <1>16, <1>17, PassesTwo, PassesThree
<1> QED
  BY <1>4, <1>17, <1>18

(* No write joined to a list is the list. *)
LEMMA NoneJoined ==
  ASSUME NEW v, IsWrites(v)
  PROVE  <<>> \o v = v
<1> DEFINE S == {v[k] : k \in 1 .. Len(v)}
<1>1. v \in Seq(S) /\ <<>> \in Seq(S) /\ Len(<<>>) = 0
  BY WritesSeq
<1> HIDE DEF S
<1>2. /\ <<>> \o v \in Seq(S) /\ Len(<<>> \o v) = Len(<<>>) + Len(v)
      /\ \A k \in 1 .. Len(v) : (<<>> \o v)[Len(<<>>) + k] = v[k]
  BY <1>1, JoinedIs
<1>3. Len(v) \in Nat
  BY DEF IsWrites
<1>4. Len(<<>> \o v) = Len(v) /\ \A k \in 1 .. Len(v) : (<<>> \o v)[k] = v[k]
  BY <1>1, <1>2, <1>3
<1> QED
  BY <1>1, <1>2, <1>4, SeqSame

(* The tree changes with the first write. *)
LEMMA PassesAtOnce ==
  ASSUME NEW d, IsDisk(d), NEW w, NEW e, NEW c, NEW T0, NEW T1, Holds(d, c, T0), Passes(d, w, e, c, T1)
  PROVE  /\ IsWrites(w)
         /\ Safe(d, w, c, T1)
         /\ DiskAfter(d, w, Len(w)) = e
         /\ IsDisk(e)
<1>1. Passes(d, <<>>, d, c, T0)
  BY PassesNone
<1>2. <<>> \o w = w
  BY NoneJoined DEF Passes
<1>3. /\ IsWrites(<<>> \o w)
      /\ Safe(d, <<>> \o w, c, T1)
      /\ DiskAfter(d, <<>> \o w, Len(<<>> \o w)) = e
      /\ IsDisk(e)
  BY <1>1, PassesSafe
<1> QED
  BY <1>2, <1>3

(* A removal, whatever becomes of the inode and the blocks of the child. *)
Removed(p, n, c, x, dat1, M, left, T1, f) ==
  /\ Removing(p, n, c, x, dat1)
  /\ M = Live(inode, data) \ {c}
  /\ left = WithoutLinks(p, c)
  /\ T1 = TreeOf(inode, dat1)
  /\ MemoryTypes(inode', data', inodeBitmap', dataBitmap')
  /\ \A j \in M : inode'[j] = left[j]
  /\ \A b \in Block : b \notin Held(inode[c]) => data'[b] = dat1[b]
  /\ inodeBitmap \ {c, ROOT_INUM} \subseteq inodeBitmap'
  /\ dataBitmap \ Held(inode[c]) \subseteq dataBitmap'
  /\ Passes(disk, pending', f, NoInum, T1)
  /\ Stands(M, f, left, dat1, NoInum, T1)
  /\ M = Live(left, dat1)
  /\ disk' = disk /\ inum' = inum /\ cutting' = cutting
  /\ status' \in {"up", "links_assert"}

(* It keeps the inductive invariant. *)
LEMMA RemovedInd ==
  ASSUME CrashInd, Serving, NEW p, NEW n, NEW c, NEW x, NEW dat1, NEW M, NEW left, NEW T1, NEW f,
         Removed(p, n, c, x, dat1, M, left, T1, f)
  PROVE  CrashInd'
<1>0. /\ Removing(p, n, c, x, dat1)
      /\ M = Live(inode, data) \ {c}
      /\ left = WithoutLinks(p, c)
      /\ T1 = TreeOf(inode, dat1)
      /\ MemoryTypes(inode', data', inodeBitmap', dataBitmap')
      /\ \A j \in M : inode'[j] = left[j]
      /\ \A b \in Block : b \notin Held(inode[c]) => data'[b] = dat1[b]
      /\ inodeBitmap \ {c, ROOT_INUM} \subseteq inodeBitmap'
      /\ dataBitmap \ Held(inode[c]) \subseteq dataBitmap'
      /\ Passes(disk, pending', f, NoInum, T1)
      /\ Stands(M, f, left, dat1, NoInum, T1)
      /\ M = Live(left, dat1)
      /\ disk' = disk /\ inum' = inum /\ cutting' = cutting
      /\ status' \in {"up", "links_assert"}
  BY DEF Removed
<1> USE <1>0
<1> DEFINE L == Live(inode, data)
<1>1. /\ Stands(L, disk, inode, data, NoInum, TreeOf(inode, data)) /\ IsDisk(disk) /\ cutting = NoInum
      /\ L \subseteq Inum /\ L \ {ROOT_INUM} \subseteq inodeBitmap /\ Marked(L, dataBitmap, inode)
      /\ inode \in [Inum -> InodeType]
  BY AtRest
<1>2. c \in L /\ c # p /\ p \in Inum /\ c \in Inum
  BY RemovingIs
<1>3. View(M, f, left, dat1, NoInum) /\ FineTable(M, left) /\ Sound(left, dat1) /\ TreeOf(left, dat1) = T1
  BY DEF Stands, View
<1>4. Sound(inode, data) /\ FineTable(L, inode)
  BY <1>1 DEF Stands, View
<1>5. \A j \in M : j \in L /\ j # c /\ Held(left[j]) = Held(inode[j])
  <2> SUFFICES ASSUME NEW j \in M PROVE j \in L /\ j # c /\ Held(left[j]) = Held(inode[j])
    OBVIOUS
  <2>1. j \in L /\ j # c /\ j \in Inum
    BY <1>1
  <2> DEFINE tab1 == LessLink(inode, p)
  <2>2. tab1 \in [Inum -> InodeType] /\ Durable(tab1[j]) = Durable(inode[j])
    BY <1>1, <1>2, <2>1, LessLinkIs
  <2>3. left[j] = tab1[j]
    <3> HIDE DEF tab1
    <3>1. left = LessLink(tab1, c)
      BY DEF WithoutLinks, tab1
    <3> QED
      BY <1>2, <2>1, <2>2, <3>1, LessLinkIs
  <2>4. left[j] \in InodeType /\ Fine(left[j]) /\ inode[j] \in InodeType /\ Fine(inode[j])
    BY <1>3, <1>4, <2>1 DEF FineTable
  <2>5. Held(left[j]) = Held(inode[j])
    <3>1. Durable(left[j]) = Durable(inode[j])
      BY <2>2, <2>3
    <3>2. left[j].isDir = inode[j].isDir
      BY <2>4, <3>1, DurableIs
    <3> QED
      BY <2>4, <3>1, <3>2, FineSame DEF Fine
  <2> QED
    BY <2>1, <2>5
<1>6. \A j \in M : \A b \in Held(left[j]) : b \in Block /\ b \notin Held(inode[c])
  BY <1>2, <1>3, <1>4, <1>5 DEF Sound, FineTable, Fine
<1>7. FineTable(M, inode')
  BY <1>3 DEF FineTable, MemoryTypes
<1>8. \A j \in M : Durable(inode'[j]) = Durable(left[j])
  OBVIOUS
<1>9. Sound(inode', data') /\ Live(inode', data') = M /\ TreeOf(inode', data') = T1
  <2>1. \A d \in LiveDirs(left, dat1) : \A b \in Held(left[d]) : data'[b] = dat1[b]
    BY <1>6 DEF LiveDirs
  <2> QED
    BY <1>3, <1>7, <1>8, <2>1, SoundAlike
<1>10. View(M, f, inode', data', NoInum)
  <2>1. inum = OwnNumbers => Follows(M, f, inode')
    <3>1. inum = OwnNumbers => Follows(M, f, left)
      BY <1>3 DEF View
    <3> QED
      BY <3>1 DEF Follows
  <2>2. \A j \in M : left[j].isDir => \A k \in 0 .. left[j].blocks - 1 : data'[left[j].ptrs[k]] = dat1[left[j].ptrs[k]]
    BY <1>3, <1>6, FineTableIs
  <2> QED
    BY <1>3, <1>7, <1>8, <2>1, <2>2, ViewAlike
<1>11. Shows(M, f, inode', data', NoInum) /\ (inum = OwnNumbers => Follows(M, f, inode'))
  BY <1>10 DEF View
<1>12. M \ {ROOT_INUM} \subseteq inodeBitmap'
  BY <1>1
<1>13. Marked(M, dataBitmap', inode')
  <2> SUFFICES ASSUME NEW j \in M PROVE Held(left[j]) \subseteq dataBitmap'
    BY DEF Marked
  <2>1. Held(left[j]) \subseteq dataBitmap
    BY <1>1, <1>5 DEF Marked
  <2> QED
    BY <1>6, <2>1
<1>14. /\ IsWrites(pending') /\ Safe(disk, pending', NoInum, T1)
       /\ DiskAfter(disk, pending', Len(pending')) = f
  <2>1. Holds(disk, NoInum, TreeOf(inode, data))
    BY <1>1, StandsHolds
  <2> QED
    BY <1>1, <2>1, PassesAtOnce
<1> HIDE DEF L
<1> QED
  BY ONLY CrashInd, Serving, <1>0, <1>1, <1>9, <1>11, <1>12, <1>13, <1>14, HandlerEnds DEF NoInum

(* refs_rmdir keeps the inductive invariant, although it writes neither    *)
(* bitmap: the entry goes first, and what the bitmaps on disk still mark   *)
(* is held by nothing (src/refs.c:1064).                                   *)
LEMMA rmdir_to_diskInd ==
  ASSUME CrashInd, NEW p \in Inum, NEW n \in Names, rmdir_to_disk(p, n)
  PROVE  CrashInd'
<1> DEFINE c == inum_from_path(p, n)
           x == First(Hits(p, n))
           L == Live(inode, data)
           M == L \ {c}
           left == WithoutLinks(p, c)
           dat1 == WithoutEntry(p, n)
           T1 == TreeOf(inode, dat1)
<1>1. /\ Serving /\ p \in L /\ disk' = disk /\ inum' = inum /\ cutting' = cutting /\ IsDir(p)
      /\ pending' = (IF status' \in {"overcommitted", "undefined"} THEN <<>>
                     ELSE IF c # NoInum /\ IsDir(c) /\ dir_isempty(c) THEN removal_writes(p, n) ELSE <<>>)
      /\ RemoveDir(p, n, IF c = NoInum THEN {} ELSE BitsOf(c))
  BY InMemory DEF rmdir_to_disk, ServingAbout, ToDisk, RemoveDir
<1>2. CASE ~ (c # NoInum /\ IsDir(c) /\ dir_isempty(c))
  <2>1. pending' = <<>>
    BY <1>1, <1>2
  <2>2. UNCHANGED <<fsVars, status>>
    BY <1>1, <1>2 DEF RemoveDir, Refuse
  <2> QED
    BY <1>1, <2>1, <2>2, NothingChanged
<1>3. CASE c # NoInum /\ IsDir(c) /\ dir_isempty(c)
  <2>0. Serving /\ disk' = disk /\ inum' = inum /\ cutting' = cutting
    BY <1>1
  <2>1. /\ data' = [b \in Block |-> IF b \in DirBlocks(c) THEN OtherBlock ELSE dat1[b]]
        /\ inodeBitmap' = inodeBitmap \ BitsOf(c)
        /\ dataBitmap' = dataBitmap \ DirBlocks(c)
        /\ \/ inode' = [left EXCEPT ![c] = FreeInode] /\ status' = status
           \/ inode' = left /\ status' = "links_assert"
    BY <1>1, <1>3 DEF RemoveDir, ReleaseBits
  <2>2. status' \in {"up", "links_assert"}
    BY <1>1, <2>1 DEF Serving, Up
  <2>3. pending' = removal_writes(p, n)
    BY <1>1, <1>3, <2>2
  <2>4. Removing(p, n, c, x, dat1)
    BY <1>1, <1>3 DEF Removing
  <2>5. /\ Sound(inode, dat1) /\ Live(inode, dat1) = M
        /\ c \in Inum /\ c \in L /\ c # p
        /\ dat1 \in [Block -> [Slot -> EntryType]]
    BY <1>1, <2>4, RemovingIs
  <2>6. /\ AreNumbers(inum) /\ inode \in [Inum -> InodeType] /\ dataBitmap \subseteq Block /\ L \subseteq Inum
        /\ inodeBitmap \subseteq 0 .. Scanned(NumInodes) - 1
    BY <1>1, AtRest
  <2>7. left \in [Inum -> InodeType]
    <3> DEFINE tab1 == LessLink(inode, p)
    <3>1. tab1 \in [Inum -> InodeType]
      BY <2>6, LessLinkIs
    <3>2. left = LessLink(tab1, c)
      BY DEF WithoutLinks
    <3> HIDE DEF tab1, left
    <3> QED
      BY <2>5, <3>1, <3>2, LessLinkIs
  <2>8. PICK f : /\ Passes(disk, removal_writes(p, n), f, NoInum, T1)
                 /\ Stands(M, f, left, dat1, NoInum, T1)
                 /\ M = Live(left, dat1)
    <3>1. M = Live(inode, data) \ {c} /\ left = WithoutLinks(p, c) /\ T1 = TreeOf(inode, dat1)
      OBVIOUS
    <3> HIDE DEF M, left, T1, c, x, dat1
    <3> QED
      BY ONLY CrashInd, <2>0, <2>4, <3>1, RemovalWritten
  <2>9. DirBlocks(c) \subseteq Held(inode[c])
    BY DEF DirBlocks, Held
  <2>10. BitsOf(c) \subseteq {c, ROOT_INUM}
    BY <2>5, <2>6 DEF BitsOf, AreNumbers, ROOT_INUM
  <2> HIDE DEF left, dat1
  <2>11. MemoryTypes(inode', data', inodeBitmap', dataBitmap')
    <3>1. inode' \in [Inum -> InodeType]
      BY <2>1, <2>5, <2>7, FreeInodeType
    <3>2. data' \in [Block -> [Slot -> EntryType]]
      BY <2>1, <2>5, OtherBlockType
    <3> QED
      BY <2>1, <2>6, <3>1, <3>2 DEF MemoryTypes
  <2>12. \A j \in M : inode'[j] = left[j]
    BY <2>1, <2>5, <2>6, <2>7
  <2>13. \A b \in Block : b \notin Held(inode[c]) => data'[b] = dat1[b]
    BY <2>1, <2>9
  <2>14. inodeBitmap \ {c, ROOT_INUM} \subseteq inodeBitmap' /\ dataBitmap \ Held(inode[c]) \subseteq dataBitmap'
    BY <2>1, <2>9, <2>10
  <2>15. M = Live(inode, data) \ {c} /\ left = WithoutLinks(p, c) /\ T1 = TreeOf(inode, dat1)
    BY DEF left
  <2>16. Passes(disk, pending', f, NoInum, T1) /\ Stands(M, f, left, dat1, NoInum, T1) /\ M = Live(left, dat1)
    BY <2>3, <2>8
  <2> HIDE DEF L, M, T1, c, x
  <2>17. Removed(p, n, c, x, dat1, M, left, T1, f)
    <3>1. M = Live(inode, data) \ {c} /\ left = WithoutLinks(p, c) /\ T1 = TreeOf(inode, dat1)
      BY ONLY <2>15
    <3> QED
      BY ONLY <2>0, <2>2, <2>4, <2>11, <2>12, <2>13, <2>14, <2>16, <3>1 DEF Removed
  <2> QED
    BY ONLY CrashInd, <2>0, <2>17, RemovedInd
<1> QED
  BY <1>2, <1>3

-----------------------------------------------------------------------------
(* The writes of do_truncate *)

(* The lesser of two numbers. *)
LEMMA MinOfTwo ==
  ASSUME NEW a \in Nat, NEW b \in Nat
  PROVE  Min({a, b}) = IF a <= b THEN a ELSE b
<1> DEFINE m == IF a <= b THEN a ELSE b
<1>1. m \in {a, b} /\ \A y \in {a, b} : m <= y
  OBVIOUS
<1>2. \A x \in {a, b} : (\A y \in {a, b} : x <= y) => x = m
  OBVIOUS
<1> HIDE DEF m
<1>3. Min({a, b}) \in {a, b} /\ \A y \in {a, b} : Min({a, b}) <= y
  BY <1>1 DEF Min
<1>4. Min({a, b}) = m
  BY <1>2, <1>3
<1> QED
  BY <1>4 DEF m

(* The greater of two numbers. *)
LEMMA MaxOfTwo ==
  ASSUME NEW a \in Nat, NEW b \in Nat
  PROVE  Max({a, b}) = IF a <= b THEN b ELSE a
<1> DEFINE m == IF a <= b THEN b ELSE a
<1>1. m \in {a, b} /\ \A y \in {a, b} : m >= y
  OBVIOUS
<1>2. \A x \in {a, b} : (\A y \in {a, b} : x >= y) => x = m
  OBVIOUS
<1> HIDE DEF m
<1>3. Max({a, b}) \in {a, b} /\ \A y \in {a, b} : Max({a, b}) >= y
  BY <1>1 DEF Max
<1>4. Max({a, b}) = m
  BY <1>2, <1>3
<1> QED
  BY <1>4 DEF m

(* A function on an empty range is the empty sequence. *)
LEMMA EmptySequence ==
  ASSUME NEW m \in Int, m <= 0, NEW f, f = [j \in 1 .. m |-> f[j]]
  PROVE  f = <<>>
<1>1. 1 .. m = {}
  OBVIOUS
<1>2. f = [j \in {} |-> f[j]]
  BY <1>1
<1>3. DOMAIN f = {} /\ f = [j \in DOMAIN f |-> f[j]]
  BY <1>2
<1>4. <<>> = [j \in {} |-> <<>>[j]]
  OBVIOUS
<1> QED
  BY <1>2, <1>4

(* Two writes with none before them. *)
LEMMA NoneBeforeTwo ==
  ASSUME NEW x, NEW y
  PROVE  (<<>> \o <<>>) \o <<x, y>> = <<x, y>>
OBVIOUS

(* No block is added. *)
LEMMA NoBlockWritten ==
  ASSUME NEW i, NEW old, NEW new, NEW table, NEW bits,
         old.blocks \in Nat, new.blocks \in Nat, new.blocks <= old.blocks
  PROVE  do_truncate_writes(i, old, new, table, bits) = <<sync_data_bitmap(bits), InodesWrite(table, i)>>
<1>1. NumDirect \in Nat
  BY PtrRange
<1> DEFINE hi == Min({new.blocks, NumDirect})
           lo == Max({old.blocks, NumDirect})
           u == direct_writes(new, old.blocks, hi)
           v == indirect_writes(new, lo, new.blocks)
<1>2. hi \in Nat /\ hi <= new.blocks /\ lo \in Nat /\ old.blocks <= lo
  <2>1. hi = (IF new.blocks <= NumDirect THEN new.blocks ELSE NumDirect)
    BY <1>1, MinOfTwo
  <2>2. lo = (IF old.blocks <= NumDirect THEN NumDirect ELSE old.blocks)
    BY <1>1, MaxOfTwo
  <2> HIDE DEF hi, lo
  <2> QED
    BY <1>1, <2>1, <2>2
<1> HIDE DEF hi, lo
<1>3. u = <<>>
  <2>1. u = [j \in 1 .. hi - old.blocks |-> u[j]]
    BY DEF direct_writes
  <2>2. hi - old.blocks \in Int /\ hi - old.blocks <= 0
    BY <1>2
  <2> HIDE DEF u
  <2> QED
    BY <2>1, <2>2, EmptySequence
<1>4. v = <<>>
  <2>1. v = [j \in 1 .. 2 * (new.blocks - lo) |-> v[j]]
    BY DEF indirect_writes
  <2>2. 2 * (new.blocks - lo) \in Int /\ 2 * (new.blocks - lo) <= 0
    BY <1>2
  <2> HIDE DEF v
  <2> QED
    BY <2>1, <2>2, EmptySequence
<1>5. do_truncate_writes(i, old, new, table, bits) = (u \o v) \o <<sync_data_bitmap(bits), InodesWrite(table, i)>>
  BY DEF do_truncate_writes, write_inode, InodesWrite, hi, lo
<1> HIDE DEF u, v
<1> QED
  BY <1>3, <1>4, <1>5, NoneBeforeTwo

(* An inode cut to fewer blocks is an inode. *)
LEMMA ShrunkType ==
  ASSUME NEW r \in InodeType, NEW count \in Nat, count <= r.blocks
  PROVE  /\ Shrunk(r, count) \in InodeType
         /\ Shrunk(r, count).blocks = count
<1> DEFINE q == [k \in PtrIndex |-> IF k < count THEN r.ptrs[k] ELSE NoBlock]
           a == IF count > NumDirect THEN r.indirect ELSE NoBlock
<1>1. r.ptrs \in [PtrIndex -> Block \cup {NoBlock}] /\ r.indirect \in Block \cup {NoBlock}
      /\ r.blocks \in 0 .. MaxFileBlocks /\ MaxFileBlocks \in Nat
  BY PtrRange DEF InodeType
<1>2. q \in [PtrIndex -> Block \cup {NoBlock}]
  BY <1>1
<1>3. count \in 0 .. MaxFileBlocks
  BY <1>1
<1>4. Shrunk(r, count) = Reshape(r, count, a, q)
  BY <1>1 DEF Shrunk, Reshape, InodeType
<1>5. a \in Block \cup {NoBlock}
  BY <1>1
<1> HIDE DEF q, a
<1> QED
  BY <1>2, <1>3, <1>4, <1>5, Reshaped

(* The data bitmap is written, of c2 perhaps without its blocks. *)
LEMMA BitsWritten ==
  ASSUME NEW L, NEW d, NEW tab, NEW dat, NEW c, NEW T, Stands(L, d, tab, dat, c, T),
         NEW bits \in SUBSET Block, NEW c2, Marked(L \ {c2}, bits, tab),
         NEW w, w = sync_data_bitmap(bits), NEW e, e = Landed(d, w)
  PROVE  /\ Passes(d, <<w>>, e, c2, T)
         /\ Stands(L, e, tab, dat, c2, T)
<1>1. View(L, d, tab, dat, c) /\ IsDisk(d)
  BY DEF Stands, View
<1>2. View(L, e, tab, dat, c2)
  BY <1>1, ViewDataBits
<1>3. Stands(L, e, tab, dat, c2, T)
  BY <1>2 DEF Stands
<1> QED
  BY <1>1, <1>3, DataBitsOK, StepPasses

(* The writes of unlink after those of remove_child_abspath. *)
LEMMA TruncatedAway ==
  ASSUME CrashInd, Serving, NEW p, NEW n, NEW c, NEW x, NEW dat1, Removing(p, n, c, x, dat1),
         NEW M, M = Live(inode, data) \ {c}, NEW left, left = WithoutLinks(p, c),
         NEW T1, NEW f, Stands(M, f, left, dat1, NoInum, T1), M = Live(left, dat1),
         NEW none \in InodeType, NEW bits, bits = dataBitmap \ Held(inode[c]),
         NEW table, table = [left EXCEPT ![c] = none]
  PROVE  \E g : /\ Passes(f, <<sync_data_bitmap(bits), InodesWrite(table, c)>>, g, NoInum, T1)
                /\ Stands(M, g, left, dat1, NoInum, T1)
<1> DEFINE w1 == sync_data_bitmap(bits)
           w2 == InodesWrite(table, c)
           e == Landed(f, w1)
           g == Landed(e, w2)
<1>1. /\ dataBitmap \subseteq Block /\ AreNumbers(inum) /\ Marked(Live(inode, data), dataBitmap, inode)
      /\ inode \in [Inum -> InodeType] /\ Live(inode, data) \subseteq Inum
      /\ Sound(inode, data) /\ FineTable(Live(inode, data), inode)
  BY AtRest DEF Stands, View
<1>2. c \in Inum /\ c \in Live(inode, data) /\ p \in Inum
  BY RemovingIs
<1>3. FineTable(M, left) /\ View(M, f, left, dat1, NoInum) /\ Sound(left, dat1) /\ TreeOf(left, dat1) = T1
  BY DEF Stands, View
<1>4. \A j \in M : j \in Live(inode, data) /\ j # c /\ Held(left[j]) = Held(inode[j])
  <2> SUFFICES ASSUME NEW j \in M PROVE j \in Live(inode, data) /\ j # c /\ Held(left[j]) = Held(inode[j])
    OBVIOUS
  <2>1. j \in Live(inode, data) /\ j # c /\ j \in Inum
    BY <1>1
  <2> DEFINE tab1 == LessLink(inode, p)
  <2>2. tab1 \in [Inum -> InodeType] /\ Durable(tab1[j]) = Durable(inode[j])
    BY <1>1, <1>2, <2>1, LessLinkIs
  <2>3. left[j] = tab1[j]
    <3> HIDE DEF tab1
    <3>1. left = LessLink(tab1, c)
      BY DEF WithoutLinks, tab1
    <3> QED
      BY <1>2, <2>1, <2>2, <3>1, LessLinkIs
  <2>4. left[j] \in InodeType /\ Fine(left[j]) /\ inode[j] \in InodeType /\ Fine(inode[j])
    BY <1>1, <1>3, <2>1 DEF FineTable
  <2>5. Held(left[j]) = Held(inode[j])
    <3>1. Durable(left[j]) = Durable(inode[j])
      BY <2>2, <2>3
    <3>2. left[j].isDir = inode[j].isDir
      BY <2>4, <3>1, DurableIs
    <3> QED
      BY <2>4, <3>1, <3>2, FineSame DEF Fine
  <2> QED
    BY <2>1, <2>5
<1>5. Marked(M \ {NoInum}, bits, left)
  <2> SUFFICES ASSUME NEW j \in M PROVE Held(left[j]) \subseteq bits
    BY DEF Marked
  <2>1. Held(inode[j]) \cap Held(inode[c]) = {}
    BY <1>1, <1>2, <1>4 DEF Sound
  <2>2. Held(inode[j]) \subseteq dataBitmap
    BY <1>1, <1>4 DEF Marked
  <2> QED
    BY <1>4, <2>1, <2>2
<1>6. Passes(f, <<w1>>, e, NoInum, T1) /\ Stands(M, e, left, dat1, NoInum, T1)
  <2>1. bits \in SUBSET Block
    BY <1>1
  <2> QED
    BY <1>5, <2>1, BitsWritten
<1>7. /\ FineTable(M, table) /\ \A j \in M : table[j] = left[j]
  <2>1. left \in [Inum -> InodeType]
    BY <1>3 DEF FineTable
  <2>2. table \in [Inum -> InodeType] /\ \A j \in M : table[j] = left[j]
    BY <1>2, <1>4, <2>1
  <2> QED
    BY <1>3, <2>2 DEF FineTable
<1>8. /\ Passes(e, <<w2>>, g, NoInum, T1)
      /\ Stands(M, g, table, dat1, NoInum, T1)
  <2>1. \A j \in M : Durable(table[j]) = Durable(left[j])
    BY <1>7
  <2>2. inum = OwnNumbers => \A j \in M \ Near(c) : table[j].nLinks = left[j].nLinks
    BY <1>7
  <2>3. w2 = InodesWrite(table, c) /\ g = Landed(e, w2)
    OBVIOUS
  <2>4. M = Live(left, dat1)
    OBVIOUS
  <2> HIDE DEF w1, e, w2, g
  <2> QED
    BY ONLY <1>1, <1>2, <1>6, <1>7, <2>1, <2>2, <2>3, <2>4, LinksWritten
<1>9. View(M, g, left, dat1, NoInum)
  <2>1. View(M, g, table, dat1, NoInum)
    BY <1>8 DEF Stands
  <2> HIDE DEF g
  <2>2. inum = OwnNumbers => Follows(M, g, left)
    BY <1>7, <2>1 DEF View, Follows
  <2>3. \A j \in M : Durable(left[j]) = Durable(table[j])
    BY <1>7
  <2> QED
    BY <1>3, <2>1, <2>2, <2>3, ViewAlike
<1>10. Stands(M, g, left, dat1, NoInum, T1)
  BY <1>3, <1>9 DEF Stands
<1>11. Passes(f, <<w1, w2>>, g, NoInum, T1)
  <2> HIDE DEF w1, w2, e, g
  <2> QED
    BY <1>6, <1>8, PassesTwo
<1> QED
  BY <1>10, <1>11

(* refs_unlink keeps the inductive invariant: the entry goes before its    *)
(* blocks are marked free (src/refs.c:1499).                               *)
LEMMA unlink_to_diskInd ==
  ASSUME CrashInd, NEW p \in Inum, NEW n \in Names, unlink_to_disk(p, n)
  PROVE  CrashInd'
<1> DEFINE c == inum_from_path(p, n)
           x == First(Hits(p, n))
           L == Live(inode, data)
           M == L \ {c}
           left == WithoutLinks(p, c)
           dat1 == WithoutEntry(p, n)
           T1 == TreeOf(inode, dat1)
           bits == dataBitmap \ Held(inode[c])
           none == [Shrunk(left[c], 0) EXCEPT !.size = 0]
           table == [left EXCEPT ![c] = none]
<1>1. /\ Serving /\ p \in L /\ disk' = disk /\ inum' = inum /\ cutting' = cutting /\ IsDir(p)
      /\ pending' = (IF status' \in {"overcommitted", "undefined"} THEN <<>>
                     ELSE IF c # NoInum /\ ~IsDir(c) THEN unlink_writes(p, n) ELSE <<>>)
      /\ RemoveFile(p, n, IF c = NoInum THEN {} ELSE BitsOf(c))
  BY InMemory DEF unlink_to_disk, ServingAbout, ToDisk, RemoveFile
<1>2. CASE ~ (c # NoInum /\ ~IsDir(c))
  <2>1. pending' = <<>>
    BY <1>1, <1>2
  <2>2. UNCHANGED <<fsVars, status>>
    BY <1>1, <1>2 DEF RemoveFile, Refuse
  <2> QED
    BY <1>1, <2>1, <2>2, NothingChanged
<1>3. CASE c # NoInum /\ ~IsDir(c)
  <2>0. Serving /\ disk' = disk /\ inum' = inum /\ cutting' = cutting
    BY <1>1
  <2>1. /\ data' = dat1
        /\ IF left[c].nLinks = 0
           THEN /\ inode' = [left EXCEPT ![c] = FreeInode]
                /\ inodeBitmap' = inodeBitmap \ BitsOf(c)
                /\ dataBitmap' = bits
           ELSE inode' = left /\ UNCHANGED <<inodeBitmap, dataBitmap>>
        /\ status' = status
    BY <1>1, <1>3 DEF RemoveFile, ReleaseBits, Owned
  <2>2. status' = "up"
    BY <1>1, <2>1 DEF Serving, Up
  <2>3. pending' = unlink_writes(p, n)
    BY <1>1, <1>3, <2>2
  <2>4. Removing(p, n, c, x, dat1)
    BY <1>1, <1>3 DEF Removing
  <2>5. /\ Sound(inode, dat1) /\ Live(inode, dat1) = M
        /\ c \in Inum /\ c \in L /\ c # p
        /\ dat1 \in [Block -> [Slot -> EntryType]]
    BY <1>1, <2>4, RemovingIs
  <2>6. /\ AreNumbers(inum) /\ inode \in [Inum -> InodeType] /\ dataBitmap \subseteq Block /\ L \subseteq Inum
        /\ inodeBitmap \subseteq 0 .. Scanned(NumInodes) - 1 /\ FineTable(L, inode)
    BY <1>1, AtRest DEF Stands, View
  <2>7. left \in [Inum -> InodeType] /\ left[c].nLinks = 0
    <3> DEFINE tab1 == LessLink(inode, p)
    <3>1. tab1 \in [Inum -> InodeType] /\ tab1[c] = inode[c]
      BY <2>5, <2>6, LessLinkIs
    <3>2. left = LessLink(tab1, c)
      BY DEF WithoutLinks
    <3>3. inode[c].nLinks = 1
      BY <1>3, <2>5, <2>6 DEF FineTable, Fine, IsDir
    <3>4. DecLinks(1) = 0
      BY LinksAssumption DEF DecLinks
    <3> HIDE DEF tab1, left
    <3> QED
      BY <2>5, <3>1, <3>2, <3>3, <3>4, LessLinkIs
  <2> DEFINE two == <<sync_data_bitmap(bits), InodesWrite(table, c)>>
  <2>8. none \in InodeType /\ none.blocks = 0
    <3>1. left[c] \in InodeType /\ left[c].blocks \in Nat
      BY <2>5, <2>7, PtrRange DEF InodeType
    <3>2. Shrunk(left[c], 0) \in InodeType /\ Shrunk(left[c], 0).blocks = 0
      BY <3>1, ShrunkType
    <3> DEFINE r == Shrunk(left[c], 0)
    <3> HIDE DEF r
    <3>3. r \in InodeType /\ r.blocks = 0 => [r EXCEPT !.size = 0] \in InodeType /\ [r EXCEPT !.size = 0].blocks = 0
      BY DEF InodeType
    <3> QED
      BY <3>2, <3>3 DEF r
  <2>9. pending' = removal_writes(p, n) \o two
    <3>1. unlink_writes(p, n) = removal_writes(p, n) \o do_truncate_writes(c, left[c], none, table, bits)
      BY DEF unlink_writes, Owned
    <3>2. left[c].blocks \in Nat /\ none.blocks \in Nat /\ none.blocks <= left[c].blocks
      <4>1. left[c].blocks \in 0 .. MaxFileBlocks /\ MaxFileBlocks \in Nat
        BY <2>5, <2>7, PtrRange DEF InodeType
      <4> HIDE DEF none, left
      <4> QED
        BY <2>8, <4>1
    <3>3. do_truncate_writes(c, left[c], none, table, bits) = two
      <4> DEFINE old == left[c]
      <4>1. old.blocks \in Nat /\ none.blocks \in Nat /\ none.blocks <= old.blocks
        BY <3>2
      <4>2. do_truncate_writes(c, old, none, table, bits) = <<sync_data_bitmap(bits), InodesWrite(table, c)>>
        <5> HIDE DEF old, none, table, bits
        <5> QED
          BY <4>1, NoBlockWritten
      <4> QED
        BY <4>2
    <3> QED
      BY <2>3, <3>1, <3>3
  <2>10. M = Live(inode, data) \ {c} /\ left = WithoutLinks(p, c) /\ T1 = TreeOf(inode, dat1)
         /\ bits = dataBitmap \ Held(inode[c]) /\ table = [left EXCEPT ![c] = none]
    OBVIOUS
  <2>11. left[c].nLinks = 0 => inode' = [left EXCEPT ![c] = FreeInode] /\ inodeBitmap' = inodeBitmap \ BitsOf(c)
                               /\ dataBitmap' = bits
    BY <2>1
  <2>12. BitsOf(c) \subseteq {c, ROOT_INUM}
    BY <2>5, <2>6 DEF BitsOf, AreNumbers, ROOT_INUM
  <2>13. c \in L /\ M \subseteq Inum /\ c \notin M
    BY <2>5, <2>6
  <2> HIDE DEF left, dat1, none, table, bits, M, T1, c, x
  <2>14. PICK f : /\ Passes(disk, removal_writes(p, n), f, NoInum, T1)
                  /\ Stands(M, f, left, dat1, NoInum, T1)
                  /\ M = Live(left, dat1)
    BY ONLY CrashInd, <2>0, <2>4, <2>10, RemovalWritten
  <2>15. PICK g : /\ Passes(f, two, g, NoInum, T1)
                  /\ Stands(M, g, left, dat1, NoInum, T1)
    BY ONLY CrashInd, <2>0, <2>4, <2>8, <2>10, <2>14, TruncatedAway
  <2> HIDE DEF two
  <2>16. Passes(disk, pending', g, NoInum, T1)
    BY <2>9, <2>14, <2>15, PassesJoined
  <2>17. MemoryTypes(inode', data', inodeBitmap', dataBitmap')
    <3>1. inode' \in [Inum -> InodeType]
      BY <2>7, <2>11, FreeInodeType
    <3> QED
      BY <2>1, <2>5, <2>6, <2>7, <2>10, <2>11, <3>1 DEF MemoryTypes
  <2>18. \A j \in M : inode'[j] = left[j]
    BY <2>7, <2>11, <2>13
  <2>19. \A b \in Block : b \notin Held(inode[c]) => data'[b] = dat1[b]
    BY <2>1
  <2>20. inodeBitmap \ {c, ROOT_INUM} \subseteq inodeBitmap' /\ dataBitmap \ Held(inode[c]) \subseteq dataBitmap'
    BY <2>7, <2>10, <2>11, <2>12
  <2>21. status' \in {"up", "links_assert"}
    BY <2>2
  <2>22. Removed(p, n, c, x, dat1, M, left, T1, g)
    BY ONLY <2>0, <2>4, <2>10, <2>14, <2>15, <2>16, <2>17, <2>18, <2>19, <2>20, <2>21 DEF Removed
  <2> QED
    BY ONLY CrashInd, <2>0, <2>22, RemovedInd
<1> QED
  BY <1>2, <1>3

-----------------------------------------------------------------------------
(* Truncate and write *)

(* The file i gets the record r, and the data bitmap has what is held then. *)
Resizing(i, r) ==
  /\ i \in Live(inode, data) /\ IsFile(i)
  /\ r \in InodeType /\ Fine(r) /\ ~ r.isDir
  /\ inode' = [inode EXCEPT ![i] = r] /\ data' = data /\ inodeBitmap' = inodeBitmap
  /\ dataBitmap' \subseteq Block
  /\ Held(r) \subseteq dataBitmap'
  /\ \A j \in Live(inode, data) \ {i} :
       Held(inode[j]) \subseteq dataBitmap' /\ Held(r) \cap Held(inode[j]) = {}

(* What changing the size of a file keeps: the tree, the other inodes and  *)
(* their link counts.                                                      *)
LEMMA ResizingIs ==
  ASSUME CrashInd, Serving, NEW i, NEW r, Resizing(i, r),
         NEW L, L = Live(inode, data)
  PROVE  /\ i \in L /\ i \in Inum /\ ~ inode[i].isDir /\ inode[i] \in InodeType /\ Fine(inode[i])
         /\ inode' \in [Inum -> InodeType]
         /\ inode'[i] = r /\ \A j \in Inum : j # i => inode'[j] = inode[j]
         /\ FineTable(L, inode')
         /\ Marked(L, dataBitmap', inode')
         /\ \A j \in L : inode'[j].isDir = inode[j].isDir /\ inode'[j].nLinks = inode[j].nLinks
         /\ Sound(inode', data') /\ Live(inode', data') = L /\ TreeOf(inode', data') = TreeOf(inode, data)
<1>1. /\ i \in L /\ IsFile(i) /\ r \in InodeType /\ Fine(r) /\ ~ r.isDir
      /\ inode' = [inode EXCEPT ![i] = r] /\ data' = data
      /\ Held(r) \subseteq dataBitmap'
      /\ \A j \in L \ {i} : Held(inode[j]) \subseteq dataBitmap' /\ Held(r) \cap Held(inode[j]) = {}
  BY DEF Resizing
<1>2. /\ inode \in [Inum -> InodeType] /\ L \subseteq Inum /\ Sound(inode, data) /\ FineTable(L, inode)
  BY AtRest DEF Stands, View
<1>3. /\ i \in Inum /\ ~ inode[i].isDir /\ inode[i] \in InodeType /\ Fine(inode[i])
      /\ inode' \in [Inum -> InodeType]
      /\ inode'[i] = r /\ \A j \in Inum : j # i => inode'[j] = inode[j]
  BY <1>1, <1>2 DEF IsFile, FineTable
<1>4. FineTable(L, inode')
  BY <1>1, <1>2, <1>3 DEF FineTable
<1>5. Marked(L, dataBitmap', inode')
  BY <1>1, <1>2, <1>3 DEF Marked
<1>6. \A j \in L : inode'[j].isDir = inode[j].isDir /\ inode'[j].nLinks = inode[j].nLinks
  <2> SUFFICES ASSUME NEW j \in L PROVE inode'[j].isDir = inode[j].isDir /\ inode'[j].nLinks = inode[j].nLinks
    OBVIOUS
  <2>1. CASE j = i
    <3>1. r.isDir \in BOOLEAN /\ inode[i].isDir \in BOOLEAN
      BY <1>1, <1>3 DEF InodeType
    <3>2. r.nLinks = 1 /\ inode[i].nLinks = 1
      BY <1>1, <1>3 DEF Fine
    <3> QED
      BY <1>1, <1>3, <2>1, <3>1, <3>2
  <2>2. CASE j # i
    BY <1>2, <1>3, <2>2
  <2> QED
    BY <2>1, <2>2
<1>7. \A j, k \in L : j # k => Held(inode'[j]) \cap Held(inode'[k]) = {}
  <2> SUFFICES ASSUME NEW j \in L, NEW k \in L, j # k PROVE Held(inode'[j]) \cap Held(inode'[k]) = {}
    OBVIOUS
  <2>0. j \in Inum /\ k \in Inum
    BY <1>2
  <2>1. CASE j = i
    BY <1>1, <1>3, <2>0, <2>1
  <2>2. CASE k = i
    BY <1>1, <1>3, <2>0, <2>2
  <2>3. CASE j # i /\ k # i
    BY <1>2, <1>3, <2>0, <2>3 DEF Sound
  <2> QED
    BY <2>1, <2>2, <2>3
<1>8. \A d \in LiveDirs(inode, data) :
        /\ NamedIn(inode'[d], data) = NamedIn(inode[d], data)
        /\ \A x \in NamedIn(inode[d], data) : EntryIn(inode'[d], data, x) = EntryIn(inode[d], data, x)
  <2> SUFFICES ASSUME NEW d \in LiveDirs(inode, data) PROVE inode'[d] = inode[d]
    OBVIOUS
  <2> QED
    BY <1>2, <1>3 DEF LiveDirs
<1>9. \A j \in L : Fine(inode'[j]) /\ inode'[j].isDir = inode[j].isDir
  BY <1>4, <1>6 DEF FineTable
<1>10. Sound(inode', data) /\ Live(inode', data) = L /\ TreeOf(inode', data) = TreeOf(inode, data)
  <2>1. Sound(inode, data) /\ L = Live(inode, data)
    BY <1>2
  <2> QED
    BY ONLY <1>7, <1>8, <1>9, <2>1, SoundSame
<1> QED
  BY <1>1, <1>3, <1>4, <1>5, <1>6, <1>10

(* The last two writes of do_truncate: data bitmap and inode.  When the    *)
(* file gets shorter, c is its inode.                                      *)
LEMMA ResizeSaved ==
  ASSUME CrashInd, Serving, NEW i, NEW r, Resizing(i, r),
         NEW L, L = Live(inode, data), NEW T, T = TreeOf(inode, data),
         NEW d, NEW c, View(L, d, inode, data, c), c \in {NoInum, i},
         Marked(L \ {c}, dataBitmap', inode), PointersOf(d, r) = r.ptrs,
         NEW x, x = sync_data_bitmap(dataBitmap'), NEW y, y = InodesWrite(inode', i)
  PROVE  \E f : /\ Passes(d, <<x, y>>, f, c, T)
                /\ Stands(L, f, inode', data', NoInum, T)
<1> DEFINE e == Landed(d, x)
           f == Landed(e, y)
<1>1. /\ i \in L /\ i \in Inum /\ ~ inode[i].isDir /\ inode[i] \in InodeType /\ Fine(inode[i])
      /\ inode' \in [Inum -> InodeType]
      /\ inode'[i] = r /\ \A j \in Inum : j # i => inode'[j] = inode[j]
      /\ FineTable(L, inode')
      /\ Marked(L, dataBitmap', inode')
      /\ \A j \in L : inode'[j].isDir = inode[j].isDir /\ inode'[j].nLinks = inode[j].nLinks
      /\ Sound(inode', data') /\ Live(inode', data') = L /\ TreeOf(inode', data') = T
  BY ResizingIs
<1>2. dataBitmap' \in SUBSET Block /\ r \in InodeType /\ Fine(r) /\ ~ r.isDir /\ data' = data
  BY DEF Resizing
<1>3. AreNumbers(inum) /\ L \subseteq Inum /\ Sound(inode, data)
  BY AtRest DEF Stands, View
<1>4. IsDisk(d) /\ FineTable(L, inode)
  BY DEF View
<1>5. HasPtrs(r)
  BY <1>2, FineIs
<1>6. /\ View(L, e, inode, data, c)
      /\ LoadedDataBitmap(e) = dataBitmap'
      /\ PointersOf(e, r) = PointersOf(d, r)
  <2>1. /\ View(L, e, inode, data, c)
        /\ LoadedDataBitmap(e) = dataBitmap'
        /\ \A s : HasPtrs(s) => PointersOf(e, s) = PointersOf(d, s)
    <3>1. e = Landed(d, sync_data_bitmap(dataBitmap')) /\ View(L, d, inode, data, c) /\ Marked(L \ {c}, dataBitmap', inode)
      OBVIOUS
    <3> HIDE DEF e
    <3> QED
      BY ONLY <1>2, <3>1, ViewDataBits
  <2> HIDE DEF e
  <2> QED
    BY ONLY <1>5, <2>1
<1>7. IsDisk(e) /\ Stands(L, e, inode, data, c, T)
  BY <1>3, <1>6 DEF View, Stands
<1>8. Passes(d, <<x>>, e, c, T)
  <2>1. IsWrite(x)
    BY <1>2, DataBitsOK
  <2>2. e = Landed(d, x)
    OBVIOUS
  <2> HIDE DEF e
  <2> QED
    BY ONLY <1>4, <1>7, <2>1, <2>2, StepPasses
<1> HIDE DEF e
<1>9. Turns(L, e, inode, inode', data, i)
  <2> SUFFICES ASSUME NEW j \in L
               PROVE  \/ Durable(inode'[j]) = Durable(inode[j])
                      \/ /\ j \in Near(i)
                         /\ PointersOf(e, inode'[j]) = inode'[j].ptrs
                         /\ inode'[j].isDir => \A k \in 0 .. inode'[j].blocks - 1 :
                              LoadedData(e)[inode'[j].ptrs[k]] = data[inode'[j].ptrs[k]]
    BY DEF Turns
  <2>1. CASE j = i
    <3>1. i \in Near(i)
      BY <1>1 DEF Near
    <3> QED
      BY <1>1, <1>2, <1>6, <2>1, <3>1
  <2>2. CASE j # i
    BY <1>1, <1>3, <2>2
  <2> QED
    BY <2>1, <2>2
<1>10. View(L, f, inode', data, NoInum)
  <2>1. Marked(L \ {NoInum}, LoadedDataBitmap(e), inode')
    BY <1>1, <1>6 DEF Marked
  <2>2. inum = OwnNumbers => \A j \in L \ Near(i) : inode'[j].nLinks = inode[j].nLinks
    BY <1>1
  <2>3. f = Landed(e, InodesWrite(inode', i))
    OBVIOUS
  <2> HIDE DEF f
  <2> QED
    BY ONLY <1>1, <1>3, <1>6, <1>9, <2>1, <2>2, <2>3, ViewInodes
<1>11. Stands(L, f, inode', data', NoInum, T)
  BY <1>1, <1>2, <1>10 DEF Stands
<1>12. Stands(L, f, inode', data', c, T)
  <2>1. Shows(L, f, inode', data, c)
    <3>1. Shows(L, f, inode', data, NoInum)
      BY <1>10 DEF View
    <3> HIDE DEF f
    <3> QED
      BY <1>3, <3>1, ShowsAnyCut
  <2>2. View(L, f, inode', data', c)
    BY <1>2, <1>10, <2>1 DEF View
  <2> QED
    BY <1>11, <2>2 DEF Stands
<1>13. Passes(e, <<y>>, f, c, T)
  <2>1. IsWrite(y)
    BY <1>1, <1>3, InodeWriteOK DEF InodesWrite
  <2>2. f = Landed(e, y)
    OBVIOUS
  <2> HIDE DEF f
  <2> QED
    BY ONLY <1>7, <1>12, <2>1, <2>2, StepPasses
<1>14. Passes(d, <<x, y>>, f, c, T)
  <2> HIDE DEF f
  <2> QED
    BY ONLY <1>8, <1>13, PassesTwo
<1> QED
  BY <1>11, <1>14

(* A truncate or a write, when its writes leave the tree as it is. *)
LEMMA ResizedInd ==
  ASSUME CrashInd, Serving, NEW i, NEW r, Resizing(i, r),
         NEW L, L = Live(inode, data), NEW T, T = TreeOf(inode, data),
         NEW c, c \in {NoInum, i}, cutting' = c, c # NoInum => pending' # <<>>, status' = "up",
         NEW f, Passes(disk, pending', f, c, T), Stands(L, f, inode', data', NoInum, T),
         disk' = disk, inum' = inum
  PROVE  CrashInd'
<1>1. /\ i \in Inum /\ inode' \in [Inum -> InodeType] /\ Marked(L, dataBitmap', inode')
      /\ Sound(inode', data') /\ Live(inode', data') = L /\ TreeOf(inode', data') = T
  BY ResizingIs
<1>2. data' = data /\ inodeBitmap' = inodeBitmap /\ dataBitmap' \subseteq Block
  BY DEF Resizing
<1>3. /\ IsDisk(disk) /\ data \in [Block -> [Slot -> EntryType]] /\ L \subseteq Inum
      /\ inodeBitmap \subseteq 0 .. Scanned(NumInodes) - 1 /\ L \ {ROOT_INUM} \subseteq inodeBitmap
      /\ Stands(L, disk, inode, data, NoInum, T)
  BY AtRest
<1>4. Holds(disk, c, T)
  <2>1. Shows(L, disk, inode, data, c)
    <3>1. Shows(L, disk, inode, data, NoInum)
      BY <1>3 DEF Stands, View
    <3> QED
      BY <1>3, <3>1, ShowsAnyCut
  <2>2. Stands(L, disk, inode, data, c, T)
    BY <1>3, <2>1 DEF Stands, View
  <2> QED
    BY <2>2, StandsHolds
<1>5. MemoryTypes(inode', data', inodeBitmap', dataBitmap')
  BY <1>1, <1>2, <1>3 DEF MemoryTypes
<1>6. Shows(L, f, inode', data', NoInum) /\ (inum = OwnNumbers => Follows(L, f, inode'))
  BY DEF Stands, View
<1>7. /\ IsWrites(pending') /\ Safe(disk, pending', c, T)
      /\ DiskAfter(disk, pending', Len(pending')) = f
  BY <1>3, <1>4, PassesSteady
<1>8. cutting' \in Inum \cup {NoInum} /\ (status' = "up" /\ pending' = <<>> => cutting' = NoInum)
  BY <1>1
<1>9. status' \in {"up", "links_assert", "slots_assert"} /\ L \ {ROOT_INUM} \subseteq inodeBitmap'
  BY <1>2, <1>3
<1>10. Safe(disk, pending', cutting', TreeOf(inode', data'))
  BY <1>1, <1>7
<1>11. L = Live(inode', data') /\ f = DiskAfter(disk, pending', Len(pending'))
  BY <1>1, <1>7
<1> QED
  BY ONLY CrashInd, Serving, <1>1, <1>5, <1>6, <1>7, <1>8, <1>9, <1>10, <1>11, disk' = disk, inum' = inum,
     HandlerEnds

(* The record r has the first blocks of old. *)
CutTo(old, r) ==
  /\ r.blocks <= old.blocks
  /\ \A k \in 0 .. r.blocks - 1 : r.ptrs[k] = old.ptrs[k]
  /\ r.blocks > NumDirect => r.indirect = old.indirect
  /\ \A k \in PtrIndex : ~ (k < NumDirect) /\ ~ (k < r.blocks) => r.ptrs[k] = NoBlock

(* A file cut shorter keeps the pointers it still has. *)
LEMMA CutPointers ==
  ASSUME NEW d, IsDisk(d), Formatted(d), NEW old \in InodeType, NEW r \in InodeType, CutTo(old, r),
         PointersOf(d, old) = old.ptrs
  PROVE  PointersOf(d, r) = r.ptrs
<1>1. /\ r.blocks \in 0 .. MaxFileBlocks /\ old.blocks \in 0 .. MaxFileBlocks
      /\ r.ptrs \in [PtrIndex -> Block \cup {NoBlock}]
      /\ NumDirect \in Nat \ {0} /\ MaxFileBlocks \in Nat /\ PtrIndex = 0 .. MaxFileBlocks - 1
  BY PtrRange DEF InodeType
<1>2. PointersOf(d, r) =
        [k \in PtrIndex |-> IF k < NumDirect THEN r.ptrs[k]
                            ELSE IF k < r.blocks THEN PtrsAt(d, r)[k - NumDirect] ELSE NoBlock]
  BY PointersAre
<1>3. ASSUME NEW k \in PtrIndex PROVE PointersOf(d, r)[k] = r.ptrs[k]
  <2>1. CASE k < NumDirect
    BY <1>2, <2>1
  <2>2. CASE ~ (k < NumDirect) /\ k < r.blocks
    <3>1. NumDirect < r.blocks /\ NumDirect < old.blocks /\ k < old.blocks
      BY <1>1, <2>2 DEF CutTo
    <3>2. r.indirect = old.indirect
      BY <3>1 DEF CutTo
    <3>3. PtrsAt(d, r) = PtrsAt(d, old)
      BY <3>1, <3>2 DEF PtrsAt
    <3>4. PtrsAt(d, old)[k - NumDirect] = old.ptrs[k]
      BY <2>2, <3>1, PointerBehind
    <3>5. k \in 0 .. r.blocks - 1
      BY <1>1, <2>2
    <3>6. r.ptrs[k] = old.ptrs[k]
      BY <3>5 DEF CutTo
    <3> QED
      BY <1>2, <2>2, <3>3, <3>4, <3>6
  <2>3. CASE ~ (k < NumDirect) /\ ~ (k < r.blocks)
    BY <1>2, <2>3 DEF CutTo
  <2> QED
    BY <2>1, <2>2, <2>3
<1> QED
  BY <1>1, <1>2, <1>3

(* The writes of do_truncate when no block is added. *)
LEMMA CutWritten ==
  ASSUME CrashInd, Serving, NEW i, NEW r, Resizing(i, r), CutTo(inode[i], r),
         NEW L, L = Live(inode, data), NEW T, T = TreeOf(inode, data),
         NEW c, c \in {NoInum, i}, Marked(L \ {c}, dataBitmap', inode)
  PROVE  /\ truncated(i) = <<sync_data_bitmap(dataBitmap'), InodesWrite(inode', i)>>
         /\ \E f : /\ Passes(disk, truncated(i), f, c, T)
                   /\ Stands(L, f, inode', data', NoInum, T)
<1>1. /\ i \in L /\ inode[i] \in InodeType /\ inode'[i] = r /\ inode \in [Inum -> InodeType] /\ i \in Inum
  BY ResizingIs, AtRest
<1>2. r \in InodeType /\ r.blocks <= inode[i].blocks
  BY DEF Resizing, CutTo
<1>3. truncated(i) = <<sync_data_bitmap(dataBitmap'), InodesWrite(inode', i)>>
  <2>1. r.blocks \in Nat /\ inode[i].blocks \in Nat
    BY <1>1, <1>2, PtrRange DEF InodeType
  <2> DEFINE old == inode[i]
             table == inode'
             bits == dataBitmap'
  <2>2. do_truncate_writes(i, old, r, table, bits) = <<sync_data_bitmap(bits), InodesWrite(table, i)>>
    <3>1. old.blocks \in Nat /\ r.blocks \in Nat /\ r.blocks <= old.blocks
      BY <1>2, <2>1
    <3> HIDE DEF old, table, bits
    <3> QED
      BY <3>1, NoBlockWritten
  <2> QED
    BY <1>1, <2>2 DEF truncated
<1>4. /\ View(L, disk, inode, data, c) /\ IsDisk(disk) /\ Formatted(disk)
      /\ Durable(LoadedInode(disk, i)) = Durable(inode[i])
  <2>1. View(L, disk, inode, data, NoInum) /\ L \subseteq Inum
    BY AtRest DEF Stands
  <2>2. Shows(L, disk, inode, data, c)
    BY <2>1, ShowsAnyCut DEF View
  <2> QED
    BY <1>1, <2>1, <2>2 DEF View, Shows, Recs
<1>5. PointersOf(disk, r) = r.ptrs
  <2>1. PointersOf(disk, inode[i]) = inode[i].ptrs
    BY <1>1, <1>4, ShownPointers
  <2> QED
    BY <1>1, <1>2, <1>4, <2>1, CutPointers
<1> DEFINE x == sync_data_bitmap(dataBitmap')
           y == InodesWrite(inode', i)
<1>6. \E f : /\ Passes(disk, <<x, y>>, f, c, T)
             /\ Stands(L, f, inode', data', NoInum, T)
  <2>1. x = sync_data_bitmap(dataBitmap') /\ y = InodesWrite(inode', i)
    OBVIOUS
  <2>2. /\ Resizing(i, r) /\ L = Live(inode, data) /\ T = TreeOf(inode, data) /\ c \in {NoInum, i}
        /\ Marked(L \ {c}, dataBitmap', inode)
    OBVIOUS
  <2> HIDE DEF x, y
  <2> QED
    BY ONLY CrashInd, Serving, <1>4, <1>5, <2>1, <2>2, ResizeSaved
<1> QED
  BY <1>3, <1>6

(* Another size in a record with the blocks for it. *)
LEMMA SizedIs ==
  ASSUME NEW s \in InodeType, NEW sz \in Nat, NEW r, r = [s EXCEPT !.size = sz]
  PROVE  /\ r \in InodeType
         /\ r.inUse = s.inUse /\ r.isDir = s.isDir /\ r.nLinks = s.nLinks /\ r.size = sz
         /\ r.blocks = s.blocks /\ r.indirect = s.indirect /\ r.ptrs = s.ptrs
         /\ Held(r) = Held(s)
         /\ HoldsDistinct(s) => HoldsDistinct(r)
<1>1. /\ r \in InodeType
      /\ r.inUse = s.inUse /\ r.isDir = s.isDir /\ r.nLinks = s.nLinks /\ r.size = sz
      /\ r.blocks = s.blocks /\ r.indirect = s.indirect /\ r.ptrs = s.ptrs
  BY DEF InodeType
<1> QED
  BY <1>1, SameHoldings

(* do_truncate to as many blocks. *)
LEMMA EqualIs ==
  ASSUME CrashInd, Serving, NEW i \in Live(inode, data), IsFile(i), NEW sz \in Nat,
         BlocksFor(sz) = inode[i].blocks,
         inode' = [inode EXCEPT ![i].size = sz], UNCHANGED <<inodeBitmap, dataBitmap, data>>,
         NEW r, r = [inode[i] EXCEPT !.size = sz]
  PROVE  /\ Resizing(i, r)
         /\ CutTo(inode[i], r)
         /\ Marked(Live(inode, data), dataBitmap', inode)
<1> DEFINE L == Live(inode, data)
<1>1. /\ inode \in [Inum -> InodeType] /\ L \subseteq Inum /\ Sound(inode, data) /\ FineTable(L, inode)
      /\ View(L, disk, inode, data, NoInum) /\ Marked(L, dataBitmap, inode) /\ dataBitmap \subseteq Block
  BY AtRest DEF Stands, View
<1>2. i \in L /\ i \in Inum /\ inode[i] \in InodeType /\ Fine(inode[i]) /\ ~ inode[i].isDir
  BY <1>1 DEF FineTable, IsFile
<1>3. /\ r \in InodeType
      /\ r.inUse = inode[i].inUse /\ r.isDir = inode[i].isDir /\ r.nLinks = inode[i].nLinks /\ r.size = sz
      /\ r.blocks = inode[i].blocks /\ r.indirect = inode[i].indirect /\ r.ptrs = inode[i].ptrs
      /\ Held(r) = Held(inode[i])
      /\ HoldsDistinct(inode[i]) => HoldsDistinct(r)
  BY <1>2, SizedIs
<1>4. inode' = [inode EXCEPT ![i] = r]
  BY <1>1
<1>5. Fine(r) /\ ~ r.isDir
  <2>1. FitsSize(r)
    BY <1>2, <1>3 DEF FitsSize, Fine
  <2> QED
    BY <1>2, <1>3, <2>1 DEF Fine
<1>6. \A j \in L \ {i} : Held(inode[j]) \subseteq dataBitmap' /\ Held(r) \cap Held(inode[j]) = {}
  BY <1>1, <1>2, <1>3 DEF Sound, Marked
<1>7. Resizing(i, r)
  BY <1>1, <1>2, <1>3, <1>4, <1>5, <1>6 DEF Resizing, Marked
<1>8. CutTo(inode[i], r)
  <2>1. \A k \in PtrIndex : ~ (k < NumDirect) /\ ~ (k < inode[i].blocks) => inode[i].ptrs[k] = NoBlock
    BY <1>1, NoMorePointers
  <2>2. r.blocks <= inode[i].blocks
    BY <1>2, <1>3, PtrRange DEF InodeType
  <2> QED
    BY <1>3, <2>1, <2>2 DEF CutTo
<1> QED
  BY <1>1, <1>7, <1>8

(* do_truncate to fewer blocks. *)
LEMMA FewerIs ==
  ASSUME CrashInd, Serving, NEW i \in Live(inode, data), IsFile(i), NEW sz \in Nat,
         NEW count, count = BlocksFor(sz), count < inode[i].blocks,
         NEW r, r = [Shrunk(inode[i], count) EXCEPT !.size = sz],
         inode' = [inode EXCEPT ![i] = r], dataBitmap' = dataBitmap \ Released(inode[i], count),
         UNCHANGED <<inodeBitmap, data>>
  PROVE  /\ Resizing(i, r)
         /\ CutTo(inode[i], r)
         /\ Marked(Live(inode, data) \ {i}, dataBitmap', inode)
<1> DEFINE L == Live(inode, data)
           s == Shrunk(inode[i], count)
<1>1. /\ inode \in [Inum -> InodeType] /\ L \subseteq Inum /\ Sound(inode, data) /\ FineTable(L, inode)
      /\ Marked(L, dataBitmap, inode) /\ dataBitmap \subseteq Block
  BY AtRest DEF Stands, View
<1>2. i \in L /\ i \in Inum /\ inode[i] \in InodeType /\ Fine(inode[i]) /\ ~ inode[i].isDir
  BY <1>1 DEF FineTable, IsFile
<1>3. count \in Nat /\ inode[i].blocks \in Nat /\ NumDirect \in Nat
  BY <1>2, BlocksForType, PtrRange DEF InodeType
<1>4. /\ s \in InodeType
      /\ s.inUse = inode[i].inUse /\ s.isDir = inode[i].isDir /\ s.blocks = count
      /\ s.indirect = (IF count > NumDirect THEN inode[i].indirect ELSE NoBlock)
      /\ \A k \in 0 .. count - 1 : s.ptrs[k] = inode[i].ptrs[k]
      /\ Held(s) = Held(inode[i]) \ Released(inode[i], count)
      /\ HoldsDistinct(s)
  <2>1. HoldsDistinct(inode[i]) /\ count < inode[i].blocks
    BY <1>2 DEF Fine
  <2> QED
    BY ONLY <1>2, <1>3, <2>1, ShrunkHolds
<1>5. s.nLinks = inode[i].nLinks /\ \A k \in PtrIndex : ~ (k < count) => s.ptrs[k] = NoBlock
  <2>1. inode[i].ptrs \in [PtrIndex -> Block \cup {NoBlock}]
    BY <1>2 DEF InodeType
  <2>2. s = Shrunk(inode[i], count)
    OBVIOUS
  <2> HIDE DEF s
  <2> QED
    BY ONLY <1>2, <2>1, <2>2 DEF Shrunk, InodeType
<1> HIDE DEF s
<1>6. /\ r \in InodeType
      /\ r.inUse = s.inUse /\ r.isDir = s.isDir /\ r.nLinks = s.nLinks /\ r.size = sz
      /\ r.blocks = s.blocks /\ r.indirect = s.indirect /\ r.ptrs = s.ptrs
      /\ Held(r) = Held(s)
      /\ HoldsDistinct(s) => HoldsDistinct(r)
  <2>1. r = [s EXCEPT !.size = sz]
    BY DEF s
  <2> QED
    BY <1>4, <2>1, SizedIs
<1>7. Fine(r) /\ ~ r.isDir
  <2>1. inode[i].indirect # NoBlock <=> inode[i].blocks > NumDirect
    BY <1>2 DEF Fine, FitsSize
  <2>2. r.blocks = BlocksFor(r.size) /\ ~ r.isDir
    BY <1>2, <1>4, <1>6
  <2>3. r.indirect # NoBlock <=> r.blocks > NumDirect
    <3>1. count > NumDirect => inode[i].blocks > NumDirect
      BY <1>3
    <3> QED
      BY <1>4, <1>6, <2>1, <3>1
  <2>4. FitsSize(r)
    BY <2>2, <2>3 DEF FitsSize
  <2>5. r.inUse /\ r.nLinks = 1 /\ Held(r) \subseteq Block
    BY <1>2, <1>4, <1>5, <1>6 DEF Fine
  <2> QED
    BY <1>4, <1>6, <2>2, <2>4, <2>5 DEF Fine
<1>8. Released(inode[i], count) \subseteq Held(inode[i])
  <2>1. count .. inode[i].blocks - 1 \subseteq 0 .. inode[i].blocks - 1
    BY <1>3
  <2> QED
    BY <2>1 DEF Released, Held, BlocksAt
<1>9. \A j \in L \ {i} : Held(inode[j]) \subseteq dataBitmap' /\ Held(r) \cap Held(inode[j]) = {}
  <2> SUFFICES ASSUME NEW j \in L \ {i}
               PROVE Held(inode[j]) \subseteq dataBitmap' /\ Held(r) \cap Held(inode[j]) = {}
    OBVIOUS
  <2>1. Held(inode[i]) \cap Held(inode[j]) = {} /\ Held(inode[j]) \subseteq dataBitmap
    BY <1>1, <1>2 DEF Sound, Marked
  <2> QED
    BY <1>4, <1>6, <1>8, <2>1
<1>10. Held(r) \subseteq dataBitmap'
  BY <1>1, <1>2, <1>4, <1>6 DEF Marked
<1>11. Resizing(i, r)
  BY <1>1, <1>2, <1>6, <1>7, <1>9, <1>10 DEF Resizing
<1>12. CutTo(inode[i], r)
  BY <1>3, <1>4, <1>5, <1>6 DEF CutTo
<1>13. Marked(L \ {i}, dataBitmap', inode)
  BY <1>9 DEF Marked
<1> QED
  BY <1>11, <1>12, <1>13

-----------------------------------------------------------------------------
(* Writes after which a disk shows what it showed. *)

Keeps(L, tab, dat, x) ==
  /\ IsWrite(x)
  /\ \A e : View(L, e, tab, dat, NoInum) => View(L, Landed(e, x), tab, dat, NoInum)

(* All the disks that such writes pass through show it. *)
LEMMA ViewThrough ==
  ASSUME NEW L, NEW tab, NEW dat, NEW d, View(L, d, tab, dat, NoInum),
         NEW w, IsWrites(w), \A k \in 1 .. Len(w) : Keeps(L, tab, dat, w[k])
  PROVE  \A k \in 0 .. Len(w) : View(L, DiskAfter(d, w, k), tab, dat, NoInum)
<1> DEFINE S == {k \in 0 .. Len(w) : ~ View(L, DiskAfter(d, w, k), tab, dat, NoInum)}
<1>1. Len(w) \in Nat /\ IsDisk(d)
  BY DEF IsWrites, View
<1>2. SUFFICES ASSUME S # {} PROVE FALSE
  OBVIOUS
<1>3. PICK m \in S : \A k \in S : m <= k
  <2>1. S \in SUBSET Nat
    BY <1>1
  <2> HIDE DEF S
  <2> QED
    BY <1>2, <2>1, LeastExists
<1>4. m \in 0 .. Len(w) /\ ~ View(L, DiskAfter(d, w, m), tab, dat, NoInum)
  BY <1>3
<1>5. m # 0
  BY <1>1, <1>4, DiskAfterNone
<1>6. PICK l \in Nat : m = l + 1 /\ l \in 0 .. Len(w) /\ m \in 1 .. Len(w)
  <2>1. m - 1 \in Nat /\ m = (m - 1) + 1 /\ m - 1 \in 0 .. Len(w) /\ m \in 1 .. Len(w)
    BY <1>1, <1>4, <1>5
  <2> QED
    BY <2>1
<1>7. View(L, DiskAfter(d, w, l), tab, dat, NoInum)
  <2>1. l \notin S
    <3>1. ~ (m <= l)
      BY <1>6
    <3> HIDE DEF S
    <3> QED
      BY <1>3, <3>1
  <2> QED
    BY <1>6, <2>1
<1> DEFINE e == DiskAfter(d, w, l)
           v == <<w[m]>>
<1>8. Keeps(L, tab, dat, w[m]) /\ IsDisk(e)
  BY <1>6, <1>7 DEF View
<1>9. DiskAfter(d, w, m) = DiskAfter(e, v, 1)
  <2>1. v[1] = w[l + 1]
    BY <1>6
  <2>2. AreJoined(w, w, l, v, 1)
    BY <2>1 DEF AreJoined
  <2>3. 1 \in Nat
    OBVIOUS
  <2> HIDE DEF v
  <2> QED
    BY <1>6, <2>2, <2>3, DiskAfterSplit
<1>10. DiskAfter(e, v, 1) = Landed(e, w[m])
  <2>1. v[1] = w[m] /\ w[m].lba \in Address
    BY <1>8 DEF Keeps, IsWrite
  <2> HIDE DEF v
  <2> QED
    BY <1>8, <2>1, DiskAfterOne
<1> QED
  BY <1>4, <1>7, <1>8, <1>9, <1>10 DEF Keeps

(* So they pass through disks with the same tree. *)
LEMMA KeptPasses ==
  ASSUME NEW L, NEW tab, NEW dat, NEW T, NEW d, Stands(L, d, tab, dat, NoInum, T),
         NEW w, IsWrites(w), \A k \in 1 .. Len(w) : Keeps(L, tab, dat, w[k]),
         NEW e, e = DiskAfter(d, w, Len(w))
  PROVE  Passes(d, w, e, NoInum, T) /\ Stands(L, e, tab, dat, NoInum, T)
<1>1. \A k \in 0 .. Len(w) : View(L, DiskAfter(d, w, k), tab, dat, NoInum)
  <2>1. View(L, d, tab, dat, NoInum)
    BY DEF Stands
  <2> QED
    BY <2>1, ViewThrough
<1>2. ASSUME NEW k \in 0 .. Len(w)
      PROVE  /\ Stands(L, DiskAfter(d, w, k), tab, dat, NoInum, T)
             /\ Holds(DiskAfter(d, w, k), NoInum, T)
  <2>1. Stands(L, DiskAfter(d, w, k), tab, dat, NoInum, T)
    BY <1>1, <1>2 DEF Stands
  <2> QED
    BY <2>1, StandsHolds
<1>3. Len(w) \in Nat
  BY DEF IsWrites
<1>4. Len(w) \in 0 .. Len(w)
  BY <1>3
<1>5. Stands(L, e, tab, dat, NoInum, T) /\ IsDisk(e)
  BY <1>2, <1>4, StandsHolds
<1>6. \A k \in 1 .. Len(w) : k \in 0 .. Len(w)
  BY <1>3
<1> QED
  BY <1>2, <1>5, <1>6 DEF Passes

(* A block nobody has is written. *)
LEMMA KeepsFresh ==
  ASSUME NEW L, NEW tab, NEW dat, NEW b \in Block, \A i \in L : b \notin Held(tab[i]),
         NEW blk, IsData(blk), blk.kind = "ptrs" => blk.ptrs \in [Ptr -> Block \cup {NoBlock}]
  PROVE  Keeps(L, tab, dat, DataWrite(b, blk))
<1>1. IsWrite(DataWrite(b, blk))
  <2>1. BlockOK(Layout!DataLba(b), blk) /\ Layout!DataLba(b) \in Address
    BY DataBlockOK, Addresses
  <2> QED
    BY <2>1 DEF IsWrite, DataWrite, Write
<1>2. ASSUME NEW d, View(L, d, tab, dat, NoInum)
      PROVE  View(L, Landed(d, DataWrite(b, blk)), tab, dat, NoInum)
  <2> DEFINE e == Landed(d, DataWrite(b, blk))
  <2>1. IsDisk(d) /\ FineTable(L, tab) /\ Shows(L, d, tab, dat, NoInum)
    BY <1>2 DEF View
  <2>2. \A i \in L : tab[i].blocks > NumDirect => tab[i].indirect # b
    BY <2>1, FineTableIs
  <2>3. \A i \in L : tab[i].isDir => \A k \in 0 .. tab[i].blocks - 1 :
           dat[tab[i].ptrs[k]] = IF tab[i].ptrs[k] = b THEN Seen(blk) ELSE dat[tab[i].ptrs[k]]
    <3> SUFFICES ASSUME NEW i \in L, tab[i].isDir, NEW k \in 0 .. tab[i].blocks - 1
                 PROVE  tab[i].ptrs[k] # b
      OBVIOUS
    <3> QED
      BY <2>1, FineTableIs
  <2>4. e = Landed(d, DataWrite(b, blk))
    OBVIOUS
  <2> HIDE DEF e
  <2>5. Moved(L, d, e, tab, dat, NoInum)
    BY <2>1, <2>2, <2>3, <2>4, ShowsData
  <2>6. IsDisk(e) /\ Shows(L, e, tab, dat, NoInum) /\ SameRecords(L, d, e)
    BY <2>5 DEF Moved
  <2> QED
    BY <1>2, <2>1, <2>4, <2>6, FollowsSame DEF View
<1> QED
  BY <1>1, <1>2 DEF Keeps

(* The indirect block that a file has is written with more pointers. *)
LEMMA KeepsIndirect ==
  ASSUME NEW L, NEW tab, NEW dat, \A j, l \in L : j # l => Held(tab[j]) \cap Held(tab[l]) = {},
         NEW i \in L, ~ tab[i].isDir, tab[i].blocks > NumDirect, tab[i].indirect \in Block,
         NEW new \in InodeType, new.indirect = tab[i].indirect,
         \A k \in 0 .. tab[i].blocks - 1 : new.ptrs[k] = tab[i].ptrs[k],
         NEW k \in Nat, tab[i].blocks <= k,
         \A l \in Ptr : IndirectBlock(new, k).ptrs[l] \in Block \cup {NoBlock}
  PROVE  Keeps(L, tab, dat, DataWrite(new.indirect, IndirectBlock(new, k)))
<1>1. IsWrite(DataWrite(new.indirect, IndirectBlock(new, k)))
  <2> DEFINE blk == IndirectBlock(new, k)
             b == new.indirect
  <2>1. IsData(blk) /\ blk.kind = "ptrs" /\ blk.ptrs = [l \in Ptr |-> blk.ptrs[l]]
    BY DEF IndirectBlock, IsData
  <2>2. blk.ptrs \in [Ptr -> Block \cup {NoBlock}] /\ b \in Block
    <3>1. \A l \in Ptr : blk.ptrs[l] \in Block \cup {NoBlock}
      OBVIOUS
    <3> HIDE DEF blk
    <3> QED
      BY <2>1, <3>1
  <2> HIDE DEF blk, b
  <2>3. BlockOK(Layout!DataLba(b), blk) /\ Layout!DataLba(b) \in Address
    BY <2>1, <2>2, DataBlockOK, Addresses
  <2>4. IsWrite(DataWrite(b, blk))
    BY <2>3 DEF IsWrite, DataWrite, Write
  <2> QED
    BY <2>4 DEF b, blk
<1>2. ASSUME NEW d, View(L, d, tab, dat, NoInum)
      PROVE  View(L, Landed(d, DataWrite(new.indirect, IndirectBlock(new, k))), tab, dat, NoInum)
  <2> DEFINE e == Landed(d, DataWrite(new.indirect, IndirectBlock(new, k)))
  <2>1. IsDisk(d) /\ FineTable(L, tab) /\ Shows(L, d, tab, dat, NoInum)
    BY <1>2 DEF View
  <2>2. e = Landed(d, DataWrite(new.indirect, IndirectBlock(new, k)))
    OBVIOUS
  <2> HIDE DEF e
  <2>3. Moved(L, d, e, tab, dat, NoInum)
    BY <2>1, <2>2, ShowsIndirect
  <2>4. IsDisk(e) /\ Shows(L, e, tab, dat, NoInum) /\ SameRecords(L, d, e)
    BY <2>3 DEF Moved
  <2> QED
    BY <1>2, <2>1, <2>2, <2>4, FollowsSame DEF View
<1> QED
  BY <1>1, <1>2 DEF Keeps

(* A sequence of writes given by a function. *)
LEMMA SequenceOfWrites ==
  ASSUME NEW m \in Int, NEW f, f = [j \in 1 .. m |-> f[j]], \A j \in 1 .. m : IsWrite(f[j])
  PROVE  IsWrites(f) /\ Len(f) = IF m <= 0 THEN 0 ELSE m
<1>1. CASE m <= 0
  <2>1. f = <<>>
    BY <1>1, EmptySequence
  <2> QED
    BY ONLY <1>1, <2>1, NoWrites
<1>2. CASE ~ (m <= 0)
  <2>1. m \in Nat
    BY <1>2
  <2> DEFINE S == {f[j] : j \in 1 .. m}
  <2>2. f \in [1 .. m -> S]
    OBVIOUS
  <2> HIDE DEF S
  <2>3. f \in Seq(S) /\ Len(f) = m
    BY ONLY <2>1, <2>2
  <2> QED
    BY <1>2, <2>1, <2>3 DEF IsWrites, IsWrite
<1> QED
  BY <1>1, <1>2

(* The record r has the blocks of old first, and then blocks that were free. *)
Longer(old, r) ==
  /\ old.blocks < r.blocks
  /\ \A k \in 0 .. old.blocks - 1 : r.ptrs[k] = old.ptrs[k]
  /\ old.blocks > NumDirect => r.indirect = old.indirect
  /\ r.blocks > NumDirect => r.indirect \in Block
  /\ r.blocks > NumDirect /\ ~ (old.blocks > NumDirect) => r.indirect \notin dataBitmap
  /\ \A k \in old.blocks .. r.blocks - 1 : r.ptrs[k] \in Block /\ r.ptrs[k] \notin dataBitmap
  /\ \A k \in PtrIndex : ~ (k < NumDirect) /\ ~ (k < r.blocks) => r.ptrs[k] = NoBlock

(* What a longer file looks like. *)
IsGrown(old, count, got, s) ==
  /\ s \in InodeType
  /\ s.inUse = old.inUse /\ s.isDir = old.isDir /\ s.blocks = count
  /\ s.indirect = IF NeedsIndirect(old, count) THEN got[IndirectTurn(old)] ELSE old.indirect
  /\ NeedsIndirect(old, count) => got[IndirectTurn(old)] \in Block
  /\ \A k \in 0 .. old.blocks - 1 : s.ptrs[k] = old.ptrs[k]
  /\ \A k \in old.blocks .. count - 1 : s.ptrs[k] = got[Turn(old, count, k)]

(* A file given more blocks keeps those it has and appends the new ones. *)
LEMMA GrownIs ==
  ASSUME NEW old \in InodeType, NEW count, count \in old.blocks + 1 .. MaxFileBlocks,
         NEW got, got \in [1 .. Wanted(old, count) -> Block]
  PROVE  IsGrown(old, count, got, Grown(old, count, got))
<1> DEFINE s == Grown(old, count, got)
<1>1. /\ s \in InodeType
      /\ s.inUse = old.inUse /\ s.isDir = old.isDir /\ s.blocks = count
  BY GrownShape
<1>2. s.indirect = IF NeedsIndirect(old, count) THEN got[IndirectTurn(old)] ELSE old.indirect
  BY GrownShape
<1>3. NeedsIndirect(old, count) => got[IndirectTurn(old)] \in Block
  BY GrownShape
<1>4. /\ \A k \in 0 .. old.blocks - 1 : s.ptrs[k] = old.ptrs[k]
      /\ \A k \in old.blocks .. count - 1 : s.ptrs[k] = got[Turn(old, count, k)]
  BY GrownShape
<1> HIDE DEF s
<1>5. IsGrown(old, count, got, s)
  BY <1>1, <1>2, <1>3, <1>4 DEF IsGrown
<1> QED
  BY <1>5 DEF s

(* do_truncate to more blocks. *)
LEMMA MoreIs ==
  ASSUME CrashInd, Serving, NEW i \in Live(inode, data), IsFile(i), NEW sz \in Nat,
         NEW count, count = BlocksFor(sz), inode[i].blocks < count, count <= MaxFileBlocks,
         NEW got, got = reserve_data_blocks(Wanted(inode[i], count)), AfterReserving(got) = "up",
         NEW r, r = [Grown(inode[i], count, got) EXCEPT !.size = sz],
         inode' = [inode EXCEPT ![i] = r], dataBitmap' = dataBitmap \cup BlocksIn(got),
         UNCHANGED <<inodeBitmap, data>>
  PROVE  /\ Resizing(i, r)
         /\ Longer(inode[i], r)
         /\ Marked(Live(inode, data), dataBitmap', inode)
<1> DEFINE L == Live(inode, data)
           old == inode[i]
           s == Grown(inode[i], count, got)
           m == Wanted(old, count)
<1>1. /\ inode \in [Inum -> InodeType] /\ L \subseteq Inum /\ Sound(inode, data) /\ FineTable(L, inode)
      /\ Marked(L, dataBitmap, inode) /\ dataBitmap \subseteq Block
      /\ View(L, disk, inode, data, NoInum)
      /\ \A b : b \notin dataBitmap => \A j \in Live(inode, data) : b \notin Held(inode[j])
  BY AtRest DEF Stands, View
<1>2. i \in L /\ i \in Inum /\ old \in InodeType /\ Fine(old) /\ ~ old.isDir
  BY <1>1 DEF FineTable, IsFile
<1>3. /\ count \in Nat /\ old.blocks \in Nat /\ NumDirect \in Nat /\ MaxFileBlocks \in Nat
      /\ count \in old.blocks + 1 .. MaxFileBlocks
  BY <1>2, BlocksForType, PtrRange DEF InodeType
<1>4. /\ got \in [1 .. m -> Block] /\ BlocksIn(got) \subseteq Block
      /\ \A t \in 1 .. m : got[t] \notin dataBitmap
      /\ \A t, u \in 1 .. m : t # u => got[t] # got[u]
  <2>1. m \in Nat
    BY <1>2, <1>3, TurnsAreUsedOnce
  <2>2. got = reserve_data_blocks(m)
    OBVIOUS
  <2> HIDE DEF m
  <2> QED
    BY <2>1, <2>2, Reserved
<1>5. /\ s \in InodeType
      /\ s.inUse = old.inUse /\ s.isDir = old.isDir /\ s.blocks = count
      /\ s.indirect = IF NeedsIndirect(old, count) THEN got[IndirectTurn(old)] ELSE old.indirect
      /\ NeedsIndirect(old, count) => got[IndirectTurn(old)] \in Block
      /\ \A k \in 0 .. old.blocks - 1 : s.ptrs[k] = old.ptrs[k]
      /\ \A k \in old.blocks .. count - 1 : s.ptrs[k] = got[Turn(old, count, k)]
  <2> HIDE DEF old
  <2>1. got \in [1 .. Wanted(old, count) -> Block]
    BY <1>4 DEF m
  <2>2. IsGrown(old, count, got, Grown(old, count, got))
    BY <1>2, <1>3, <2>1, GrownIs
  <2>3. IsGrown(old, count, got, s)
    BY <2>2 DEF old
  <2> HIDE DEF s
  <2> QED
    BY <2>3 DEF IsGrown
<1>6. s.nLinks = old.nLinks /\ \A k \in PtrIndex : ~ (k \in old.blocks .. count - 1) => s.ptrs[k] = old.ptrs[k]
  <2>1. old.ptrs \in [PtrIndex -> Block \cup {NoBlock}]
    BY <1>2 DEF InodeType
  <2> QED
    BY <1>2, <2>1 DEF Grown, InodeType
<1>7. /\ \A t \in 1 .. m : got[t] \in Block /\ got[t] \notin dataBitmap /\ \A j \in L : got[t] \notin Held(inode[j])
      /\ NeedsIndirect(old, count) => IndirectTurn(old) \in 1 .. m
      /\ \A k \in old.blocks .. count - 1 : Turn(old, count, k) \in 1 .. m
  <2>1. /\ NeedsIndirect(old, count) => IndirectTurn(old) \in 1 .. m
        /\ \A k \in old.blocks .. count - 1 : Turn(old, count, k) \in 1 .. m
    <3> HIDE DEF old
    <3> QED
      BY <1>2, <1>3, TurnsAreUsedOnce DEF m
  <2> HIDE DEF m
  <2>2. \A t \in 1 .. m : got[t] \in Block /\ got[t] \notin dataBitmap /\ \A j \in L : got[t] \notin Held(inode[j])
    BY <1>1, <1>4
  <2> QED
    BY <2>1, <2>2
<1>8. old.indirect # NoBlock <=> old.blocks > NumDirect
  BY <1>2 DEF Fine, FitsSize
<1>9. Held(s) = Held(old) \cup BlocksIn(got) /\ HoldsDistinct(s)
  <2>1. HoldsDistinct(old) /\ \A t \in 1 .. m : got[t] \notin Held(old)
    BY <1>2, <1>7 DEF Fine
  <2> HIDE DEF old
  <2>2. /\ got \in [1 .. Wanted(old, count) -> Block]
        /\ \A t \in 1 .. Wanted(old, count) : got[t] \notin Held(old)
        /\ \A t, u \in 1 .. Wanted(old, count) : t # u => got[t] # got[u]
    BY <1>4, <2>1 DEF m
  <2>3. s = Grown(old, count, got)
    BY DEF old
  <2> HIDE DEF s
  <2> QED
    BY <1>2, <1>3, <1>8, <2>1, <2>2, <2>3, GrownHolds
<1> HIDE DEF s
<1>10. /\ r \in InodeType
       /\ r.inUse = s.inUse /\ r.isDir = s.isDir /\ r.nLinks = s.nLinks /\ r.size = sz
       /\ r.blocks = s.blocks /\ r.indirect = s.indirect /\ r.ptrs = s.ptrs
       /\ Held(r) = Held(s)
       /\ HoldsDistinct(s) => HoldsDistinct(r)
  <2>1. r = [s EXCEPT !.size = sz]
    BY DEF s
  <2> QED
    BY <1>5, <2>1, SizedIs
<1> HIDE DEF old, m
<1>11. \A b \in BlocksIn(got) : b \in Block /\ b \notin dataBitmap /\ \A j \in L : b \notin Held(inode[j])
  BY ONLY <1>4, <1>7 DEF BlocksIn
<1>12. r.indirect # NoBlock <=> r.blocks > NumDirect
  <2>1. CASE NeedsIndirect(old, count)
    <3>1. count > NumDirect /\ got[IndirectTurn(old)] # NoBlock
      BY <1>4, <1>7, <2>1, BlockIs DEF NeedsIndirect
    <3> QED
      BY <1>5, <1>10, <2>1, <3>1
  <2>2. CASE ~ NeedsIndirect(old, count)
    <3>1. old.blocks > NumDirect <=> count > NumDirect
      BY <1>3, <2>2 DEF NeedsIndirect
    <3> QED
      BY <1>5, <1>8, <1>10, <2>2, <3>1
  <2> QED
    BY <2>1, <2>2
<1>13. Held(r) \subseteq dataBitmap' /\ Held(r) \subseteq Block
  BY <1>1, <1>2, <1>9, <1>10, <1>11 DEF Marked, old
<1>14. Fine(r) /\ ~ r.isDir
  <2>1. r.blocks = BlocksFor(r.size) /\ ~ r.isDir
    BY <1>2, <1>5, <1>10
  <2>2. FitsSize(r)
    BY <1>12, <2>1 DEF FitsSize
  <2>3. r.inUse /\ r.nLinks = 1
    BY <1>2, <1>5, <1>6, <1>10 DEF Fine
  <2> QED
    BY <1>9, <1>10, <1>13, <2>1, <2>2, <2>3 DEF Fine
<1>15. \A j \in L \ {i} : Held(inode[j]) \subseteq dataBitmap' /\ Held(r) \cap Held(inode[j]) = {}
  <2> SUFFICES ASSUME NEW j \in L \ {i}
               PROVE Held(inode[j]) \subseteq dataBitmap' /\ Held(r) \cap Held(inode[j]) = {}
    OBVIOUS
  <2>1. Held(old) \cap Held(inode[j]) = {} /\ Held(inode[j]) \subseteq dataBitmap
    BY <1>1, <1>2 DEF Sound, Marked, old
  <2> QED
    BY <1>9, <1>10, <1>11, <2>1
<1>16. dataBitmap' \subseteq Block
  BY <1>1, <1>4
<1>17. Resizing(i, r)
  BY <1>1, <1>2, <1>10, <1>13, <1>14, <1>15, <1>16 DEF Resizing
<1>18. Marked(L, dataBitmap', inode)
  BY <1>1 DEF Marked
<1>19. Longer(old, r)
  <2>1. old.blocks < r.blocks /\ \A k \in 0 .. old.blocks - 1 : r.ptrs[k] = old.ptrs[k]
    BY <1>5, <1>10 DEF old
  <2>2. old.blocks > NumDirect => r.indirect = old.indirect
    BY <1>3, <1>5, <1>10 DEF NeedsIndirect
  <2>3. r.blocks > NumDirect => r.indirect \in Block
    <3>1. r.indirect \in Block \cup {NoBlock}
      BY <1>10 DEF InodeType
    <3> QED
      BY <1>12, <3>1
  <2>4. r.blocks > NumDirect /\ ~ (old.blocks > NumDirect) => r.indirect \notin dataBitmap
    <3>1. r.blocks > NumDirect /\ ~ (old.blocks > NumDirect) => NeedsIndirect(old, count)
      BY <1>3, <1>5, <1>10 DEF NeedsIndirect
    <3> QED
      BY <1>5, <1>7, <1>10, <3>1
  <2>5. \A k \in old.blocks .. r.blocks - 1 : r.ptrs[k] \in Block /\ r.ptrs[k] \notin dataBitmap
    BY <1>5, <1>7, <1>10
  <2>6. ASSUME NEW k \in PtrIndex, ~ (k < NumDirect), ~ (k < r.blocks) PROVE r.ptrs[k] = NoBlock
    <3>1. ~ (k \in old.blocks .. count - 1) /\ ~ (k < old.blocks)
      <4>1. k \in Nat
        BY <2>6, PtrRange
      <4> QED
        BY <1>3, <1>5, <1>10, <2>6, <4>1
    <3>2. inode[i].ptrs[k] = NoBlock
      BY <1>1, <1>2, <2>6, <3>1, NoMorePointers DEF old
    <3> QED
      BY <1>6, <1>10, <3>1, <3>2 DEF old
  <2> QED
    BY <2>1, <2>2, <2>3, <2>4, <2>5, <2>6 DEF Longer
<1> QED
  BY <1>17, <1>18, <1>19 DEF old

(* A record of a file that gets longer, with its inode. *)
Growing(i, r) == i \in Live(inode, data) /\ r \in InodeType /\ Longer(inode[i], r) /\ ~ inode[i].isDir

(* A file that grows takes blocks that no live inode holds. *)
LEMMA GrowingIs ==
  ASSUME CrashInd, Serving, NEW i, NEW r, Growing(i, r), NEW L, L = Live(inode, data)
  PROVE  /\ i \in L /\ i \in Inum /\ inode[i] \in InodeType /\ ~ inode[i].isDir
         /\ inode[i].blocks \in Nat /\ r.blocks \in Nat /\ r.blocks <= MaxFileBlocks
         /\ inode[i].blocks < r.blocks
         /\ NumDirect \in Nat \ {0} /\ PtrIndex = 0 .. MaxFileBlocks - 1 /\ MaxFileBlocks \in Nat
         /\ r.ptrs \in [PtrIndex -> Block \cup {NoBlock}]
         /\ \A k \in inode[i].blocks .. r.blocks - 1 :
              r.ptrs[k] \in Block /\ \A j \in L : r.ptrs[k] \notin Held(inode[j])
         /\ r.blocks > NumDirect /\ ~ (inode[i].blocks > NumDirect) =>
              r.indirect \in Block /\ \A j \in L : r.indirect \notin Held(inode[j])
         /\ \A j, l \in L : j # l => Held(inode[j]) \cap Held(inode[l]) = {}
<1>1. /\ inode \in [Inum -> InodeType] /\ L \subseteq Inum /\ Sound(inode, data)
      /\ \A b : b \notin dataBitmap => \A j \in L : b \notin Held(inode[j])
  BY AtRest DEF Stands
<1>2. i \in L /\ i \in Inum /\ r \in InodeType /\ Longer(inode[i], r) /\ inode[i] \in InodeType /\ ~ inode[i].isDir
  BY <1>1 DEF Growing
<1>3. /\ inode[i].blocks \in 0 .. MaxFileBlocks /\ r.blocks \in 0 .. MaxFileBlocks
      /\ r.ptrs \in [PtrIndex -> Block \cup {NoBlock}]
  BY <1>2 DEF InodeType
<1>4. NumDirect \in Nat \ {0} /\ PtrIndex = 0 .. MaxFileBlocks - 1 /\ MaxFileBlocks \in Nat
  BY PtrRange
<1>5. /\ inode[i].blocks < r.blocks
      /\ \A k \in inode[i].blocks .. r.blocks - 1 : r.ptrs[k] \in Block /\ r.ptrs[k] \notin dataBitmap
      /\ r.blocks > NumDirect /\ ~ (inode[i].blocks > NumDirect) => r.indirect \in Block /\ r.indirect \notin dataBitmap
  BY <1>2 DEF Longer
<1>6. \A j, l \in L : j # l => Held(inode[j]) \cap Held(inode[l]) = {}
  BY <1>1 DEF Sound
<1>7. \A k \in inode[i].blocks .. r.blocks - 1 :
        r.ptrs[k] \in Block /\ \A j \in L : r.ptrs[k] \notin Held(inode[j])
  BY <1>1, <1>5
<1>8. r.blocks > NumDirect /\ ~ (inode[i].blocks > NumDirect) =>
        r.indirect \in Block /\ \A j \in L : r.indirect \notin Held(inode[j])
  BY <1>1, <1>5
<1>9. inode[i].blocks \in Nat /\ r.blocks \in Nat /\ r.blocks <= MaxFileBlocks
  BY <1>3, <1>4
<1> QED
  BY <1>2, <1>3, <1>4, <1>5, <1>6, <1>7, <1>8, <1>9

(* A new block of the file is written with zeros. *)
LEMMA ZeroedKeeps ==
  ASSUME CrashInd, Serving, NEW i, NEW r, Growing(i, r), NEW L, L = Live(inode, data),
         NEW k \in inode[i].blocks .. r.blocks - 1
  PROVE  Keeps(L, inode, data, DataWrite(r.ptrs[k], FileBytes))
<1>1. r.ptrs[k] \in Block /\ \A j \in L : r.ptrs[k] \notin Held(inode[j])
  BY GrowingIs
<1>2. IsData(FileBytes) /\ FileBytes.kind # "ptrs"
  BY DEF IsData, FileBytes
<1> QED
  BY <1>1, <1>2, KeepsFresh

(* The block of pointers is written. *)
LEMMA PointersKeep ==
  ASSUME CrashInd, Serving, NEW i, NEW r, Growing(i, r), NEW L, L = Live(inode, data),
         NEW k \in Nat, inode[i].blocks <= k, NumDirect <= k, k <= r.blocks - 1
  PROVE  Keeps(L, inode, data, DataWrite(r.indirect, IndirectBlock(r, k)))
<1>1. /\ i \in L /\ i \in Inum /\ inode[i] \in InodeType /\ ~ inode[i].isDir
      /\ inode[i].blocks \in Nat /\ r.blocks \in Nat /\ r.blocks <= MaxFileBlocks
      /\ inode[i].blocks < r.blocks
      /\ NumDirect \in Nat \ {0} /\ PtrIndex = 0 .. MaxFileBlocks - 1 /\ MaxFileBlocks \in Nat
      /\ r.ptrs \in [PtrIndex -> Block \cup {NoBlock}]
  BY GrowingIs
<1>0. \A j, l \in L : j # l => Held(inode[j]) \cap Held(inode[l]) = {}
  <2>1. Sound(inode, data)
    BY AtRest DEF Stands
  <2> QED
    BY <2>1 DEF Sound
<1>2. /\ r.blocks > NumDirect /\ ~ (inode[i].blocks > NumDirect) =>
           r.indirect \in Block /\ \A j \in L : r.indirect \notin Held(inode[j])
      /\ inode[i].blocks > NumDirect => r.indirect = inode[i].indirect
      /\ \A l \in 0 .. inode[i].blocks - 1 : r.ptrs[l] = inode[i].ptrs[l]
      /\ r.blocks > NumDirect => r.indirect \in Block
  BY GrowingIs DEF Growing, Longer
<1>3. r.blocks > NumDirect
  BY <1>1
<1> DEFINE blk == IndirectBlock(r, k)
<1>4. \A l \in Ptr : blk.ptrs[l] \in Block \cup {NoBlock}
  <2> SUFFICES ASSUME NEW l \in Ptr PROVE blk.ptrs[l] \in Block \cup {NoBlock}
    OBVIOUS
  <2>1. blk.ptrs[l] = IF l <= k - NumDirect THEN r.ptrs[NumDirect + l] ELSE NoBlock
    BY DEF IndirectBlock
  <2> HIDE DEF blk
  <2>2. l \in Nat
    BY PtrRange DEF Ptr
  <2>3. CASE l <= k - NumDirect
    <3>1. NumDirect + l \in PtrIndex
      BY <1>1, <2>2, <2>3
    <3>2. r.ptrs[NumDirect + l] \in Block \cup {NoBlock}
      BY <1>1, <3>1
    <3> QED
      BY <2>1, <2>3, <3>2
  <2>4. CASE ~ (l <= k - NumDirect)
    BY <2>1, <2>4
  <2> QED
    BY <2>3, <2>4
<1>5. CASE ~ (inode[i].blocks > NumDirect)
  <2>1. IsData(blk) /\ blk.ptrs = [l \in Ptr |-> blk.ptrs[l]]
    BY DEF IsData, IndirectBlock
  <2>2. r.indirect \in Block /\ \A j \in L : r.indirect \notin Held(inode[j])
    BY <1>2, <1>3, <1>5
  <2>3. blk = IndirectBlock(r, k)
    OBVIOUS
  <2> HIDE DEF blk
  <2>4. blk.ptrs \in [Ptr -> Block \cup {NoBlock}]
    BY <1>4, <2>1
  <2>5. Keeps(L, inode, data, DataWrite(r.indirect, blk))
    BY <2>1, <2>2, <2>4, KeepsFresh
  <2> QED
    BY <2>3, <2>5
<1>6. CASE inode[i].blocks > NumDirect
  <2>1. r \in InodeType /\ r.indirect = inode[i].indirect /\ inode[i].indirect \in Block
    BY <1>2, <1>3, <1>6 DEF Growing
  <2>2. \A l \in Ptr : IndirectBlock(r, k).ptrs[l] \in Block \cup {NoBlock}
    BY <1>4
  <2> QED
    BY <1>0, <1>1, <1>2, <1>6, <2>1, <2>2, KeepsIndirect
<1> QED
  BY <1>5, <1>6

(* The writes of the direct blocks. *)
LEMMA DirectWritten ==
  ASSUME CrashInd, Serving, NEW i, NEW r, Growing(i, r), NEW L, L = Live(inode, data),
         NEW hi \in Nat, hi <= r.blocks, NEW u, u = direct_writes(r, inode[i].blocks, hi)
  PROVE  /\ IsWrites(u)
         /\ \A k \in 1 .. Len(u) : Keeps(L, inode, data, u[k])
<1> DEFINE ob == inode[i].blocks
           m == hi - ob
<1>1. ob \in Nat /\ r.blocks \in Nat
  BY GrowingIs
<1>2. u = [j \in 1 .. m |-> DataWrite(r.ptrs[ob + j - 1], FileBytes)]
  BY DEF direct_writes
<1>3. ASSUME NEW j \in 1 .. m PROVE Keeps(L, inode, data, u[j]) /\ IsWrite(u[j])
  <2>1. ob + j - 1 \in ob .. r.blocks - 1
    BY <1>1
  <2>2. u[j] = DataWrite(r.ptrs[ob + j - 1], FileBytes)
    BY <1>2
  <2>3. Keeps(L, inode, data, DataWrite(r.ptrs[ob + j - 1], FileBytes))
    BY <2>1, ZeroedKeeps
  <2> QED
    BY <2>2, <2>3 DEF Keeps
<1>4. u = [j \in 1 .. m |-> u[j]] /\ m \in Int
  BY <1>1, <1>2
<1> HIDE DEF m, ob
<1>5. IsWrites(u) /\ Len(u) = IF m <= 0 THEN 0 ELSE m
  BY <1>3, <1>4, SequenceOfWrites
<1>6. \A k \in 1 .. Len(u) : k \in 1 .. m
  <2>1. CASE m <= 0
    <3>1. Len(u) = 0
      BY <1>5, <2>1
    <3>2. 1 .. 0 = {}
      OBVIOUS
    <3> QED
      BY <3>1, <3>2
  <2>2. CASE ~ (m <= 0)
    BY <1>4, <1>5, <2>2
  <2> QED
    BY <2>1, <2>2
<1> QED
  BY <1>3, <1>5, <1>6

(* The writes of the blocks behind them, and of the block of pointers with *)
(* each.                                                                   *)
LEMMA IndirectWritten ==
  ASSUME CrashInd, Serving, NEW i, NEW r, Growing(i, r), NEW L, L = Live(inode, data),
         NEW lo \in Nat, inode[i].blocks <= lo, NumDirect <= lo,
         NEW v, v = indirect_writes(r, lo, r.blocks)
  PROVE  /\ IsWrites(v)
         /\ \A k \in 1 .. Len(v) : Keeps(L, inode, data, v[k])
         /\ lo < r.blocks => /\ Len(v) \in 1 .. Len(v)
                             /\ v[Len(v)] = DataWrite(r.indirect, IndirectBlock(r, r.blocks - 1))
<1> DEFINE m == 2 * (r.blocks - lo)
           at(j) == lo + (j - 1) \div 2
<1>1. inode[i].blocks \in Nat /\ r.blocks \in Nat
  BY GrowingIs
<1>2. v = [j \in 1 .. m |-> IF j % 2 = 1 THEN DataWrite(r.ptrs[at(j)], FileBytes)
                            ELSE DataWrite(r.indirect, IndirectBlock(r, at(j)))]
  BY DEF indirect_writes
<1>3. ASSUME NEW j \in 1 .. m PROVE Keeps(L, inode, data, v[j]) /\ IsWrite(v[j])
  <2>1. at(j) \in Nat /\ lo <= at(j) /\ at(j) <= r.blocks - 1
    BY <1>1
  <2>2. at(j) \in inode[i].blocks .. r.blocks - 1 /\ inode[i].blocks <= at(j) /\ NumDirect <= at(j)
    <3>1. NumDirect \in Nat
      BY PtrRange
    <3> HIDE DEF at
    <3> QED
      BY <1>1, <2>1, <3>1
  <2>3. v[j] = IF j % 2 = 1 THEN DataWrite(r.ptrs[at(j)], FileBytes)
               ELSE DataWrite(r.indirect, IndirectBlock(r, at(j)))
    BY <1>2
  <2> HIDE DEF at, m
  <2>4. Keeps(L, inode, data, DataWrite(r.ptrs[at(j)], FileBytes))
    BY <2>2, ZeroedKeeps
  <2>5. Keeps(L, inode, data, DataWrite(r.indirect, IndirectBlock(r, at(j))))
    BY <2>1, <2>2, PointersKeep
  <2> QED
    BY <2>3, <2>4, <2>5 DEF Keeps
<1>4. v = [j \in 1 .. m |-> v[j]] /\ m \in Int
  BY <1>1, <1>2
<1>5. IsWrites(v) /\ Len(v) = IF m <= 0 THEN 0 ELSE m
  <2> HIDE DEF m, at
  <2> QED
    BY <1>3, <1>4, SequenceOfWrites
<1>6. \A k \in 1 .. Len(v) : k \in 1 .. m
  <2> HIDE DEF m, at
  <2>1. CASE m <= 0
    <3>1. Len(v) = 0
      BY <1>5, <2>1
    <3>2. 1 .. 0 = {}
      OBVIOUS
    <3> QED
      BY <3>1, <3>2
  <2>2. CASE ~ (m <= 0)
    BY <1>4, <1>5, <2>2
  <2> QED
    BY <2>1, <2>2
<1>7. ASSUME lo < r.blocks
      PROVE  /\ Len(v) \in 1 .. Len(v)
             /\ v[Len(v)] = DataWrite(r.indirect, IndirectBlock(r, r.blocks - 1))
  <2>1. m > 0 /\ m \in 1 .. m /\ m % 2 = 0 /\ at(m) = r.blocks - 1
    BY <1>1, <1>7
  <2>2. Len(v) = m
    <3> HIDE DEF m, at
    <3> QED
      BY <1>4, <1>5, <2>1
  <2>3. v[m] = IF m % 2 = 1 THEN DataWrite(r.ptrs[at(m)], FileBytes)
               ELSE DataWrite(r.indirect, IndirectBlock(r, at(m)))
    BY <1>2, <2>1
  <2> HIDE DEF m, at
  <2> QED
    BY <2>1, <2>2, <2>3
<1> HIDE DEF m, at
<1> QED
  BY <1>3, <1>5, <1>6, <1>7

(* A disk with all the pointers of r in its indirect block. *)
LEMMA PointersWritten ==
  ASSUME NEW d, IsDisk(d), Formatted(d), NEW r \in InodeType, r.blocks > NumDirect,
         d[Layout!DataLba(r.indirect)] = IndirectBlock(r, r.blocks - 1),
         \A k \in PtrIndex : ~ (k < NumDirect) /\ ~ (k < r.blocks) => r.ptrs[k] = NoBlock
  PROVE  PointersOf(d, r) = r.ptrs
<1> DEFINE blk == IndirectBlock(r, r.blocks - 1)
<1>1. /\ r.blocks \in 0 .. MaxFileBlocks /\ r.ptrs \in [PtrIndex -> Block \cup {NoBlock}]
      /\ NumDirect \in Nat \ {0} /\ MaxFileBlocks \in Nat /\ PtrIndex = 0 .. MaxFileBlocks - 1
      /\ \A k \in PtrIndex : ~ (k < NumDirect) => k - NumDirect \in Ptr
  BY PtrRange DEF InodeType
<1>2. /\ blk.kind = "ptrs"
      /\ blk.ptrs = [l \in Ptr |-> IF l <= r.blocks - 1 - NumDirect THEN r.ptrs[NumDirect + l] ELSE NoBlock]
  BY DEF IndirectBlock
<1>3. d[Layout!DataLba(r.indirect)] = blk
  OBVIOUS
<1> HIDE DEF blk
<1>4. PtrsAt(d, r) = blk.ptrs
  BY <1>2, <1>3, DataAddress DEF PtrsAt
<1>5. PointersOf(d, r) =
        [k \in PtrIndex |-> IF k < NumDirect THEN r.ptrs[k]
                            ELSE IF k < r.blocks THEN PtrsAt(d, r)[k - NumDirect] ELSE NoBlock]
  BY PointersAre
<1>6. ASSUME NEW k \in PtrIndex PROVE PointersOf(d, r)[k] = r.ptrs[k]
  <2>1. CASE k < NumDirect
    BY <1>5, <2>1
  <2>2. CASE ~ (k < NumDirect) /\ k < r.blocks
    <3>1. k \in Nat /\ k - NumDirect \in Ptr /\ k - NumDirect <= r.blocks - 1 - NumDirect
      BY <1>1, <2>2
    <3> DEFINE l == k - NumDirect
    <3>2. NumDirect + l = k
      BY <1>1, <3>1
    <3>3. l \in Ptr /\ l <= r.blocks - 1 - NumDirect
      BY <3>1
    <3>4. PointersOf(d, r)[k] = PtrsAt(d, r)[l]
      BY <1>5, <2>2
    <3> HIDE DEF l
    <3> QED
      BY <1>2, <1>4, <3>2, <3>3, <3>4
  <2>3. CASE ~ (k < NumDirect) /\ ~ (k < r.blocks)
    BY <1>5, <2>3
  <2> QED
    BY <2>1, <2>2, <2>3
<1> QED
  BY <1>1, <1>5, <1>6

(* The writes of do_truncate when blocks are added. *)
LEMMA GrowthWritten ==
  ASSUME CrashInd, Serving, NEW i, NEW r, Resizing(i, r), Longer(inode[i], r),
         NEW L, L = Live(inode, data), NEW T, T = TreeOf(inode, data),
         Marked(L, dataBitmap', inode)
  PROVE  \E f : /\ Passes(disk, truncated(i), f, NoInum, T)
                /\ Stands(L, f, inode', data', NoInum, T)
<1>1. i \in L /\ inode'[i] = r /\ r \in InodeType /\ Growing(i, r)
  BY ResizingIs DEF Resizing, Growing
<1>2. /\ inode[i].blocks \in Nat /\ r.blocks \in Nat /\ inode[i].blocks < r.blocks /\ NumDirect \in Nat \ {0}
  BY <1>1, GrowingIs
<1> DEFINE ob == inode[i].blocks
           hi == Min({r.blocks, NumDirect})
           lo == Max({ob, NumDirect})
           u == direct_writes(r, ob, hi)
           v == indirect_writes(r, lo, r.blocks)
           x == sync_data_bitmap(dataBitmap')
           y == InodesWrite(inode', i)
           d1 == DiskAfter(disk, u, Len(u))
           d2 == DiskAfter(d1, v, Len(v))
<1>3. truncated(i) = (u \o v) \o <<x, y>>
  BY <1>1 DEF truncated, do_truncate_writes, write_inode, InodesWrite
<1>4. /\ hi \in Nat /\ hi <= r.blocks
      /\ lo \in Nat /\ ob <= lo /\ NumDirect <= lo
      /\ r.blocks > NumDirect => lo < r.blocks
  <2>1. hi = (IF r.blocks <= NumDirect THEN r.blocks ELSE NumDirect)
    BY <1>2, MinOfTwo
  <2>2. lo = (IF ob <= NumDirect THEN NumDirect ELSE ob)
    BY <1>2, MaxOfTwo
  <2>3. ob \in Nat /\ ob < r.blocks
    BY <1>2
  <2> HIDE DEF hi, lo, ob
  <2> QED
    BY <1>2, <2>1, <2>2, <2>3
<1> HIDE DEF hi, lo
<1>5. IsWrites(u) /\ \A k \in 1 .. Len(u) : Keeps(L, inode, data, u[k])
  <2>1. u = direct_writes(r, inode[i].blocks, hi)
    OBVIOUS
  <2> HIDE DEF u
  <2> QED
    BY <1>1, <1>4, <2>1, DirectWritten
<1>6. /\ IsWrites(v) /\ \A k \in 1 .. Len(v) : Keeps(L, inode, data, v[k])
      /\ lo < r.blocks => /\ Len(v) \in 1 .. Len(v)
                          /\ v[Len(v)] = DataWrite(r.indirect, IndirectBlock(r, r.blocks - 1))
  <2>1. v = indirect_writes(r, lo, r.blocks) /\ inode[i].blocks <= lo
    BY <1>4
  <2> HIDE DEF v
  <2> QED
    BY <1>1, <1>4, <2>1, IndirectWritten
<1>7. Stands(L, disk, inode, data, NoInum, T)
  BY AtRest
<1>8. d1 = DiskAfter(disk, u, Len(u)) /\ d2 = DiskAfter(d1, v, Len(v))
  OBVIOUS
<1>9. x = sync_data_bitmap(dataBitmap') /\ y = InodesWrite(inode', i)
  OBVIOUS
<1> HIDE DEF d1, d2, u, v, x, y, ob
<1>10. Passes(disk, u, d1, NoInum, T) /\ Stands(L, d1, inode, data, NoInum, T)
  BY ONLY <1>5, <1>7, <1>8, KeptPasses
<1>11. Passes(d1, v, d2, NoInum, T) /\ Stands(L, d2, inode, data, NoInum, T)
  BY ONLY <1>6, <1>8, <1>10, KeptPasses
<1>12. View(L, d2, inode, data, NoInum) /\ IsDisk(d2) /\ Formatted(d2)
  BY <1>11 DEF Stands, View, Shows
<1>13. \A k \in PtrIndex : ~ (k < NumDirect) /\ ~ (k < r.blocks) => r.ptrs[k] = NoBlock
  BY DEF Longer
<1>14. PointersOf(d2, r) = r.ptrs
  <2>1. CASE ~ (r.blocks > NumDirect)
    <3>1. \A k \in PtrIndex : ~ (k < NumDirect) => r.ptrs[k] = NoBlock
      <4> SUFFICES ASSUME NEW k \in PtrIndex, ~ (k < NumDirect) PROVE r.ptrs[k] = NoBlock
        OBVIOUS
      <4>1. k \in Int
        BY PtrRange
      <4> QED
        BY <1>2, <1>13, <2>1, <4>1
    <3> QED
      BY <1>1, <1>12, <2>1, <3>1, DirectPointers
  <2>2. CASE r.blocks > NumDirect
    <3> DEFINE n == Len(v)
               a == Layout!DataLba(r.indirect)
    <3>1. n \in 1 .. n /\ v[n] = DataWrite(r.indirect, IndirectBlock(r, r.blocks - 1)) /\ n \in Nat
      BY <1>4, <1>6, <2>2 DEF IsWrites
    <3>2. v[n].lba = a /\ v[n].block = IndirectBlock(r, r.blocks - 1)
      BY <3>1 DEF DataWrite, Write
    <3>3. r.indirect \in Block
      BY <2>2 DEF Longer
    <3>4. a \in Address
      BY <3>3, Addresses
    <3>5. LastFor(v, n, a, n)
      <4>1. \A l \in 1 .. n : ~ (n < l)
        BY <3>1
      <4> HIDE DEF n, a
      <4> QED
        BY <3>1, <3>2, <4>1 DEF LastFor
    <3>6. DiskAfter(d1, v, n)[a] = v[n].block
      <4> HIDE DEF n, a
      <4> QED
        BY <3>1, <3>4, <3>5, DiskAfterAt
    <3>7. d2[Layout!DataLba(r.indirect)] = IndirectBlock(r, r.blocks - 1)
      BY <1>8, <3>2, <3>6
    <3> QED
      BY <1>1, <1>12, <1>13, <2>2, <3>7, PointersWritten
  <2> QED
    BY <2>1, <2>2
<1>15. NoInum \in {NoInum, i} /\ Marked(L \ {NoInum}, dataBitmap', inode)
  BY DEF Marked
<1>16. PICK f : /\ Passes(d2, <<x, y>>, f, NoInum, T)
                /\ Stands(L, f, inode', data', NoInum, T)
  <2>1. Resizing(i, r) /\ L = Live(inode, data) /\ T = TreeOf(inode, data)
    OBVIOUS
  <2> QED
    BY ONLY CrashInd, Serving, <1>9, <1>12, <1>14, <1>15, <2>1, ResizeSaved
<1>17. Passes(disk, (u \o v) \o <<x, y>>, f, NoInum, T)
  <2>1. Passes(disk, u \o v, d2, NoInum, T)
    BY <1>10, <1>11, PassesJoined
  <2> QED
    BY <1>16, <2>1, PassesJoined
<1> QED
  BY <1>3, <1>16, <1>17

(* What do_truncate leaves, and that its writes keep the tree on the disk. *)
Truncated(i, c) ==
  \E r : /\ Resizing(i, r)
         /\ \E f : /\ Passes(disk, truncated(i), f, c, TreeOf(inode, data))
                   /\ Stands(Live(inode, data), f, inode', data', NoInum, TreeOf(inode, data))

NotShorter(i) == ~ (inode'[i].blocks < inode[i].blocks)

(* Its paths. *)
LEMMA TruncateEqual ==
  ASSUME CrashInd, Serving, NEW i \in Live(inode, data), IsFile(i), NEW sz \in Nat,
         BlocksFor(sz) = inode[i].blocks,
         inode' = [inode EXCEPT ![i].size = sz], UNCHANGED <<inodeBitmap, dataBitmap, data>>
  PROVE  Truncated(i, NoInum) /\ NotShorter(i)
<1> DEFINE r == [inode[i] EXCEPT !.size = sz]
           L == Live(inode, data)
           T == TreeOf(inode, data)
<1>1. Resizing(i, r) /\ CutTo(inode[i], r) /\ Marked(L, dataBitmap', inode)
  BY EqualIs
<1>2. L = Live(inode, data) /\ T = TreeOf(inode, data)
  OBVIOUS
<1>3. r.blocks = inode[i].blocks
  <2>1. inode[i] \in InodeType
    BY AtRest
  <2> QED
    BY <2>1, SizedIs
<1> HIDE DEF r, L, T
<1>4. inode'[i] = r /\ inode[i].blocks \in Nat
  <2>1. inode'[i] = r /\ inode[i] \in InodeType
    BY <1>1, <1>2, ResizingIs
  <2> QED
    BY <2>1, PtrRange DEF InodeType
<1>5. NoInum \in {NoInum, i} /\ Marked(L \ {NoInum}, dataBitmap', inode)
  BY <1>1 DEF Marked
<1>6. \E f : /\ Passes(disk, truncated(i), f, NoInum, T)
             /\ Stands(L, f, inode', data', NoInum, T)
  BY ONLY CrashInd, Serving, <1>1, <1>2, <1>5, CutWritten
<1> QED
  BY <1>1, <1>2, <1>3, <1>4, <1>6 DEF Truncated, NotShorter

(* Truncating to fewer blocks gives up the pointers of the blocks it       *)
(* releases.                                                               *)
LEMMA TruncateFewer ==
  ASSUME CrashInd, Serving, NEW i \in Live(inode, data), IsFile(i), NEW sz \in Nat,
         BlocksFor(sz) < inode[i].blocks,
         inode' = [inode EXCEPT ![i] = [Shrunk(inode[i], BlocksFor(sz)) EXCEPT !.size = sz]],
         dataBitmap' = dataBitmap \ Released(inode[i], BlocksFor(sz)),
         UNCHANGED <<inodeBitmap, data>>
  PROVE  Truncated(i, i) /\ truncated(i) # <<>> /\ inode'[i].blocks < inode[i].blocks
<1> DEFINE count == BlocksFor(sz)
           r == [Shrunk(inode[i], count) EXCEPT !.size = sz]
           L == Live(inode, data)
           T == TreeOf(inode, data)
<1>1. Resizing(i, r) /\ CutTo(inode[i], r) /\ Marked(L \ {i}, dataBitmap', inode)
  BY FewerIs
<1>2. L = Live(inode, data) /\ T = TreeOf(inode, data)
  OBVIOUS
<1>3. r.blocks = count
  <2>1. inode[i] \in InodeType /\ inode[i].blocks \in Nat /\ count \in Nat
    BY AtRest, BlocksForType, PtrRange DEF InodeType
  <2>2. Shrunk(inode[i], count) \in InodeType /\ Shrunk(inode[i], count).blocks = count
    BY <2>1, ShrunkType
  <2> DEFINE s == Shrunk(inode[i], count)
  <2> HIDE DEF s
  <2>3. [s EXCEPT !.size = sz].blocks = count
    BY <2>2, SizedIs DEF s
  <2> QED
    BY <2>3 DEF s
<1> HIDE DEF r, L, T
<1>4. inode'[i] = r
  BY <1>1, <1>2, ResizingIs
<1>5. i \in {NoInum, i}
  OBVIOUS
<1>6. /\ truncated(i) = <<sync_data_bitmap(dataBitmap'), InodesWrite(inode', i)>>
      /\ \E f : /\ Passes(disk, truncated(i), f, i, T)
                /\ Stands(L, f, inode', data', NoInum, T)
  BY ONLY CrashInd, Serving, <1>1, <1>2, <1>5, CutWritten
<1>7. truncated(i) # <<>>
  BY <1>6
<1> QED
  BY <1>1, <1>2, <1>3, <1>4, <1>6, <1>7 DEF Truncated

(* Truncating to more blocks reserves the missing ones. *)
LEMMA TruncateMore ==
  ASSUME CrashInd, Serving, NEW i \in Live(inode, data), IsFile(i), NEW sz \in Nat,
         NEW count, count = BlocksFor(sz), inode[i].blocks < count, count <= MaxFileBlocks,
         NEW got, got = reserve_data_blocks(Wanted(inode[i], count)), AfterReserving(got) = "up",
         inode' = [inode EXCEPT ![i] = [Grown(inode[i], count, got) EXCEPT !.size = sz]],
         dataBitmap' = dataBitmap \cup BlocksIn(got),
         UNCHANGED <<inodeBitmap, data>>
  PROVE  Truncated(i, NoInum) /\ NotShorter(i)
<1> DEFINE r == [Grown(inode[i], count, got) EXCEPT !.size = sz]
           L == Live(inode, data)
           T == TreeOf(inode, data)
<1>1. Resizing(i, r) /\ Longer(inode[i], r) /\ Marked(L, dataBitmap', inode)
  <2>1. r = [Grown(inode[i], count, got) EXCEPT !.size = sz] /\ inode' = [inode EXCEPT ![i] = r]
    OBVIOUS
  <2>2. /\ CrashInd /\ Serving /\ IsFile(i) /\ count = BlocksFor(sz) /\ inode[i].blocks < count
        /\ count <= MaxFileBlocks /\ got = reserve_data_blocks(Wanted(inode[i], count))
        /\ AfterReserving(got) = "up" /\ dataBitmap' = dataBitmap \cup BlocksIn(got)
        /\ UNCHANGED <<inodeBitmap, data>> /\ i \in Live(inode, data) /\ sz \in Nat
    OBVIOUS
  <2> HIDE DEF r
  <2> QED
    BY ONLY <2>1, <2>2, MoreIs
<1>2. L = Live(inode, data) /\ T = TreeOf(inode, data)
  OBVIOUS
<1> HIDE DEF r, L, T
<1>3. inode'[i] = r /\ inode[i].blocks \in Nat /\ r.blocks \in Nat
  <2>1. inode'[i] = r /\ inode[i] \in InodeType /\ r \in InodeType
    BY <1>1, <1>2, ResizingIs DEF Resizing
  <2> QED
    BY <2>1, PtrRange DEF InodeType
<1>4. NotShorter(i)
  <2>1. inode[i].blocks < r.blocks
    BY <1>1 DEF Longer
  <2>2. ~ (r.blocks < inode[i].blocks)
    BY <1>3, <2>1
  <2> QED
    BY <1>3, <2>2 DEF NotShorter
<1>5. \E f : /\ Passes(disk, truncated(i), f, NoInum, T)
             /\ Stands(L, f, inode', data', NoInum, T)
  BY ONLY CrashInd, Serving, <1>1, <1>2, GrowthWritten
<1> QED
  BY <1>1, <1>2, <1>4, <1>5 DEF Truncated

(* When a block was handed out that is in use already. *)
LEMMA TruncateOver ==
  ASSUME CrashInd, Serving, NEW i \in Live(inode, data), IsFile(i), NEW sz \in Nat,
         NEW count, count = BlocksFor(sz), inode[i].blocks < count, count <= MaxFileBlocks,
         NEW got, got = reserve_data_blocks(Wanted(inode[i], count)),
         inode' = [inode EXCEPT ![i] = [Grown(inode[i], count, got) EXCEPT !.size = sz]],
         dataBitmap' = dataBitmap \cup BlocksIn(got),
         UNCHANGED <<inodeBitmap, data>>
  PROVE  /\ AfterReserving(got) \in {"up", "overcommitted"}
         /\ MemoryTypes(inode', data', inodeBitmap', dataBitmap')
         /\ NotShorter(i)
<1> DEFINE old == inode[i]
           s == Grown(inode[i], count, got)
           m == Wanted(old, count)
<1>1. /\ inode \in [Inum -> InodeType] /\ i \in Inum /\ old \in InodeType /\ dataBitmap \subseteq Block
      /\ data \in [Block -> [Slot -> EntryType]] /\ inodeBitmap \subseteq 0 .. Scanned(NumInodes) - 1
  BY AtRest
<1>2. /\ count \in Nat /\ old.blocks \in Nat /\ MaxFileBlocks \in Nat
      /\ count \in old.blocks + 1 .. MaxFileBlocks
  BY <1>1, BlocksForType, PtrRange DEF InodeType
<1>3. got \in [1 .. m -> Block] /\ BlocksIn(got) \subseteq Block
  <2>1. m \in Nat
    BY <1>1, <1>2, TurnsAreUsedOnce
  <2>2. got = reserve_data_blocks(m)
    OBVIOUS
  <2> HIDE DEF m
  <2> QED
    BY <2>1, <2>2, Reserved
<1>4. s \in InodeType /\ s.blocks = count
  <2> HIDE DEF old
  <2>1. got \in [1 .. Wanted(old, count) -> Block]
    BY <1>3 DEF m
  <2>2. IsGrown(old, count, got, Grown(old, count, got))
    BY <1>1, <1>2, <2>1, GrownIs
  <2>3. IsGrown(old, count, got, s)
    BY <2>2 DEF old
  <2> HIDE DEF s
  <2> QED
    BY <2>3 DEF IsGrown
<1> HIDE DEF s
<1>5. [s EXCEPT !.size = sz] \in InodeType /\ [s EXCEPT !.size = sz].blocks = count
  BY <1>4, SizedIs
<1>6. inode' = [inode EXCEPT ![i] = [s EXCEPT !.size = sz]]
  BY DEF s
<1>7. inode' \in [Inum -> InodeType] /\ inode'[i].blocks = count
  BY <1>1, <1>5, <1>6
<1>8. NotShorter(i)
  BY <1>2, <1>7 DEF NotShorter
<1>9. AfterReserving(got) \in {"up", "overcommitted"}
  BY DEF AfterReserving
<1>10. MemoryTypes(inode', data', inodeBitmap', dataBitmap')
  BY <1>1, <1>3, <1>7 DEF MemoryTypes
<1> QED
  BY <1>8, <1>9, <1>10

(* All of them. *)
LEMMA TruncateCases ==
  ASSUME CrashInd, Serving, NEW i \in Live(inode, data), IsFile(i), NEW sz \in Nat, do_truncate(i, sz)
  PROVE  \/ status' = "up" /\ NotShorter(i) /\ Truncated(i, NoInum)
         \/ /\ status' = "up" /\ ~ NotShorter(i) /\ Truncated(i, i) /\ truncated(i) # <<>>
            /\ BlocksFor(sz) < inode[i].blocks
         \/ status' = "undefined" /\ UNCHANGED fsVars /\ NotShorter(i)
         \/ /\ status' = "overcommitted" /\ NotShorter(i)
            /\ MemoryTypes(inode', data', inodeBitmap', dataBitmap')
<1> DEFINE old   == inode[i]
           count == BlocksFor(sz)
           got   == reserve_data_blocks(Wanted(old, count))
<1>0. status = "up" /\ inode[i].blocks \in Nat
  <2>1. inode[i] \in InodeType
    BY AtRest
  <2> QED
    BY <2>1, PtrRange DEF Serving, Up, InodeType
<1>1. CASE /\ count = old.blocks
           /\ inode' = [inode EXCEPT ![i].size = sz]
           /\ UNCHANGED <<inodeBitmap, dataBitmap, data, unlinked, status>>
  BY <1>0, <1>1, TruncateEqual
<1>2. CASE /\ count < old.blocks
           /\ inode' = [inode EXCEPT ![i] = [Shrunk(old, count) EXCEPT !.size = sz]]
           /\ dataBitmap' = dataBitmap \ Released(old, count)
           /\ UNCHANGED <<inodeBitmap, data, unlinked, status>>
  BY <1>0, <1>2, TruncateFewer DEF NotShorter
<1>3. CASE count > MaxFileBlocks /\ Undefined
  BY <1>0, <1>3 DEF Undefined, NotShorter, fsVars
<1>4. CASE /\ old.blocks < count
           /\ count <= MaxFileBlocks
           /\ inode' = [inode EXCEPT ![i] = [Grown(old, count, got) EXCEPT !.size = sz]]
           /\ dataBitmap' = dataBitmap \cup BlocksIn(got)
           /\ status' = AfterReserving(got)
           /\ UNCHANGED <<inodeBitmap, data, unlinked>>
  <2>1. count = BlocksFor(sz) /\ got = reserve_data_blocks(Wanted(inode[i], count))
    OBVIOUS
  <2> HIDE DEF count, got
  <2>2. /\ AfterReserving(got) \in {"up", "overcommitted"}
        /\ MemoryTypes(inode', data', inodeBitmap', dataBitmap')
        /\ NotShorter(i)
    BY <1>4, <2>1, TruncateOver
  <2>3. AfterReserving(got) = "up" => Truncated(i, NoInum)
    BY <1>4, <2>1, TruncateMore
  <2> QED
    BY <1>4, <2>2, <2>3
<1> QED
  BY <1>1, <1>2, <1>3, <1>4 DEF do_truncate, Wanted

(* A truncate or write that did not shorten the file or did, *)
LEMMA TruncatedDiskInd ==
  ASSUME CrashInd, Serving, NEW i, NEW c, c \in {NoInum, i}, Truncated(i, c),
         cutting' = c, pending' = truncated(i), c # NoInum => pending' # <<>>,
         status' = "up", disk' = disk, inum' = inum
  PROVE  CrashInd'
<1> DEFINE L == Live(inode, data)
           T == TreeOf(inode, data)
<1>1. PICK r : /\ Resizing(i, r)
               /\ \E f : Passes(disk, truncated(i), f, c, T) /\ Stands(L, f, inode', data', NoInum, T)
  BY DEF Truncated
<1>2. PICK f : Passes(disk, truncated(i), f, c, T) /\ Stands(L, f, inode', data', NoInum, T)
  BY <1>1
<1>3. L = Live(inode, data) /\ T = TreeOf(inode, data)
  OBVIOUS
<1>4. Passes(disk, pending', f, c, T)
  BY <1>2
<1> HIDE DEF L, T
<1>5. Resizing(i, r)
  BY <1>1
<1>6. c \in {NoInum, i} /\ cutting' = c /\ (c # NoInum => pending' # <<>>)
      /\ status' = "up" /\ disk' = disk /\ inum' = inum
  OBVIOUS
<1> QED
  BY ONLY CrashInd, Serving, <1>2, <1>3, <1>4, <1>5, <1>6, ResizedInd

(* refs_truncate keeps the inductive invariant, whichever way it ends      *)
(* (src/refs.c:1218, 1298).                                                *)
LEMMA truncate_to_diskInd ==
  ASSUME CrashInd, NEW i \in Inum, NEW sz \in Sizes, truncate_to_disk(i, sz)
  PROVE  CrashInd'
<1>1. /\ Serving /\ i \in Live(inode, data) /\ disk' = disk /\ inum' = inum /\ IsFile(i)
      /\ truncate(i, sz)
      /\ pending' = (IF status' \in {"overcommitted", "undefined"} THEN <<>>
                     ELSE IF inode[i].writable THEN truncated(i) ELSE <<>>)
      /\ cutting' = IF inode'[i].blocks < inode[i].blocks THEN i ELSE cutting
  BY InMemory DEF truncate_to_disk, ServingAbout, ToDisk, truncate
<1>2. cutting = NoInum /\ inode[i].blocks \in Nat /\ sz \in Nat
  <2>1. inode[i] \in InodeType /\ cutting = NoInum
    BY <1>1, AtRest
  <2> QED
    BY <2>1, SizesAssumption, PtrRange DEF InodeType
<1>3. CASE ~ inode[i].writable /\ Refuse("EACCES")
  <2>1. pending' = <<>> /\ UNCHANGED <<fsVars, status>>
    BY <1>1, <1>3 DEF Refuse
  <2>2. cutting' = cutting
    BY <1>1, <1>2, <2>1 DEF fsVars
  <2> QED
    BY <1>1, <2>1, <2>2, NothingChanged
<1>4. CASE inode[i].writable /\ do_truncate(i, sz)
  <2>1. pending' = (IF status' \in {"overcommitted", "undefined"} THEN <<>> ELSE truncated(i))
    BY <1>1, <1>4
  <2>2. NotShorter(i) => cutting' = NoInum
    BY <1>1, <1>2 DEF NotShorter
  <2>3. ~ NotShorter(i) => cutting' = i
    BY <1>1 DEF NotShorter
  <2>4. \/ status' = "up" /\ NotShorter(i) /\ Truncated(i, NoInum)
        \/ /\ status' = "up" /\ ~ NotShorter(i) /\ Truncated(i, i) /\ truncated(i) # <<>>
           /\ BlocksFor(sz) < inode[i].blocks
        \/ status' = "undefined" /\ UNCHANGED fsVars /\ NotShorter(i)
        \/ /\ status' = "overcommitted" /\ NotShorter(i)
           /\ MemoryTypes(inode', data', inodeBitmap', dataBitmap')
    BY <1>1, <1>2, <1>4, TruncateCases
  <2>5. CASE status' = "up" /\ NotShorter(i) /\ Truncated(i, NoInum)
    <3>1. pending' = truncated(i) /\ cutting' = NoInum
      BY <2>1, <2>2, <2>5
    <3> QED
      BY <1>1, <2>5, <3>1, TruncatedDiskInd
  <2>6. CASE status' = "up" /\ ~ NotShorter(i) /\ Truncated(i, i) /\ truncated(i) # <<>>
    <3>1. pending' = truncated(i) /\ cutting' = i
      BY <2>1, <2>3, <2>6
    <3> QED
      BY <1>1, <2>6, <3>1, TruncatedDiskInd
  <2>7. CASE status' = "undefined" /\ UNCHANGED fsVars /\ NotShorter(i)
    <3>1. pending' = <<>> /\ cutting' = cutting
      BY <1>2, <2>1, <2>2, <2>7
    <3> QED
      BY <1>1, <2>7, <3>1, GivenUp
  <2>8. CASE status' = "overcommitted" /\ NotShorter(i) /\ MemoryTypes(inode', data', inodeBitmap', dataBitmap')
    <3>1. pending' = <<>> /\ cutting' = cutting
      BY <1>2, <2>1, <2>2, <2>8
    <3> QED
      BY <1>1, <2>8, <3>1, HandlerGivesUp
  <2> QED
    BY <2>4, <2>5, <2>6, <2>7, <2>8
<1> QED
  BY <1>1, <1>3, <1>4 DEF truncate

(* A longer file needs no fewer blocks. *)
LEMMA BlocksInOrder ==
  ASSUME NEW a \in Nat, NEW b \in Nat, a <= b
  PROVE  BlocksFor(a) <= BlocksFor(b)
<1>1. BlockSize \in Nat \ {0}
  BY BlockSizeAssumption
<1>2. a + BlockSize - 1 \in Nat /\ b + BlockSize - 1 \in Nat /\ a + BlockSize - 1 <= b + BlockSize - 1
  BY <1>1
<1> QED
  BY <1>1, <1>2, QuotientsInOrder DEF BlocksFor

(* The data bitmap is written once more. *)
LEMMA WrittenDiskInd ==
  ASSUME CrashInd, Serving, NEW i, NEW r, Resizing(i, r),
         NEW L, L = Live(inode, data), NEW T, T = TreeOf(inode, data),
         NEW w, NEW e, Passes(disk, w, e, NoInum, T), Stands(L, e, inode', data', NoInum, T),
         pending' = w \o <<sync_data_bitmap(dataBitmap')>>,
         cutting' = NoInum, status' = "up", disk' = disk, inum' = inum
  PROVE  CrashInd'
<1> DEFINE x == sync_data_bitmap(dataBitmap')
           f == Landed(e, x)
<1>1. Marked(L, dataBitmap', inode') /\ dataBitmap' \in SUBSET Block
  BY ResizingIs DEF Resizing
<1>2. Marked(L \ {NoInum}, dataBitmap', inode')
  BY <1>1 DEF Marked
<1>3. x = sync_data_bitmap(dataBitmap') /\ f = Landed(e, x)
  OBVIOUS
<1> HIDE DEF x, f
<1>4. Passes(e, <<x>>, f, NoInum, T) /\ Stands(L, f, inode', data', NoInum, T)
  BY ONLY Stands(L, e, inode', data', NoInum, T), <1>1, <1>2, <1>3, BitsWritten
<1>5. Passes(disk, w \o <<x>>, f, NoInum, T)
  BY <1>4, PassesJoined
<1>6. Passes(disk, pending', f, NoInum, T)
  BY <1>3, <1>5
<1>7. NoInum \in {NoInum, i} /\ (NoInum # NoInum => pending' # <<>>)
  OBVIOUS
<1>8. Resizing(i, r) /\ L = Live(inode, data) /\ T = TreeOf(inode, data) /\ cutting' = NoInum /\ status' = "up"
      /\ disk' = disk /\ inum' = inum
  OBVIOUS
<1> QED
  BY ONLY CrashInd, Serving, <1>4, <1>6, <1>7, <1>8, ResizedInd

(* No record changes. *)
LEMMA SameSize ==
  ASSUME CrashInd, Serving, NEW i \in Live(inode, data), IsFile(i),
         UNCHANGED <<inodeBitmap, dataBitmap, data, inode>>
  PROVE  Resizing(i, inode[i])
<1>1. /\ inode \in [Inum -> InodeType] /\ FineTable(Live(inode, data), inode) /\ Sound(inode, data)
      /\ dataBitmap \subseteq Block /\ Marked(Live(inode, data), dataBitmap, inode)
      /\ i \in Inum
  BY AtRest DEF Stands, View
<1>2. inode[i] \in InodeType /\ Fine(inode[i]) /\ ~ inode[i].isDir
  BY <1>1 DEF FineTable, IsFile
<1>3. inode' = [inode EXCEPT ![i] = inode[i]]
  BY <1>1
<1>4. Held(inode[i]) \subseteq dataBitmap' /\ dataBitmap' \subseteq Block
  BY <1>1 DEF Marked
<1>5. \A j \in Live(inode, data) \ {i} :
        Held(inode[j]) \subseteq dataBitmap' /\ Held(inode[i]) \cap Held(inode[j]) = {}
  BY <1>1 DEF Marked, Sound
<1> QED
  BY <1>2, <1>3, <1>4, <1>5 DEF Resizing

(* refs_write keeps the inductive invariant, whichever way it ends         *)
(* (src/refs.c:1389).                                                      *)
LEMMA write_to_diskInd ==
  ASSUME CrashInd, NEW i \in Inum, NEW end \in Sizes, write_to_disk(i, end)
  PROVE  CrashInd'
<1> DEFINE L == Live(inode, data)
           T == TreeOf(inode, data)
           x == sync_data_bitmap(dataBitmap')
<1>1. /\ Serving /\ i \in L /\ disk' = disk /\ inum' = inum /\ IsFile(i) /\ cutting' = cutting
      /\ write(i, end)
      /\ pending' = (IF status' \in {"overcommitted", "undefined"} THEN <<>>
                     ELSE IF ~ inode[i].writable THEN <<>>
                          ELSE (IF end > inode[i].size THEN truncated(i) ELSE <<>>) \o <<x>>)
  BY InMemory DEF write_to_disk, ServingAbout, ToDisk, write
<1>2. /\ cutting = NoInum /\ inode[i].size \in Nat /\ end \in Nat
      /\ inode[i].blocks = BlocksFor(inode[i].size) /\ inode[i].blocks \in Nat /\ status = "up"
  <2>1. inode[i] \in InodeType /\ cutting = NoInum /\ FineTable(L, inode)
    BY <1>1, AtRest DEF Stands, View
  <2>2. inode[i].blocks = BlocksFor(inode[i].size)
    BY <1>1, <2>1 DEF FineTable, Fine, FitsSize, IsFile
  <2> QED
    BY <1>1, <2>1, <2>2, SizesAssumption, PtrRange DEF InodeType, Serving, Up
<1>3. L = Live(inode, data) /\ T = TreeOf(inode, data)
  OBVIOUS
<1>4. CASE ~ inode[i].writable /\ Refuse("EACCES")
  <2>1. pending' = <<>> /\ UNCHANGED <<fsVars, status>>
    BY <1>1, <1>4 DEF Refuse
  <2> QED
    BY <1>1, <2>1, NothingChanged
<1>5. CASE inode[i].writable /\ end > inode[i].size /\ do_truncate(i, end)
  <2>1. pending' = (IF status' \in {"overcommitted", "undefined"} THEN <<>> ELSE truncated(i) \o <<x>>)
    BY <1>1, <1>5
  <2>2. \/ status' = "up" /\ NotShorter(i) /\ Truncated(i, NoInum)
        \/ /\ status' = "up" /\ ~ NotShorter(i) /\ Truncated(i, i) /\ truncated(i) # <<>>
           /\ BlocksFor(end) < inode[i].blocks
        \/ status' = "undefined" /\ UNCHANGED fsVars /\ NotShorter(i)
        \/ /\ status' = "overcommitted" /\ NotShorter(i)
           /\ MemoryTypes(inode', data', inodeBitmap', dataBitmap')
    BY <1>1, <1>2, <1>5, TruncateCases
  <2>3. ~ (BlocksFor(end) < inode[i].blocks)
    <3>1. BlocksFor(inode[i].size) <= BlocksFor(end) /\ BlocksFor(end) \in Nat
      <4>1. inode[i].size <= end
        BY <1>2, <1>5
      <4> QED
        BY <1>2, <4>1, BlocksInOrder, BlocksForType
    <3> QED
      BY <1>2, <3>1
  <2>4. CASE status' = "up" /\ NotShorter(i) /\ Truncated(i, NoInum)
    <3>1. pending' = truncated(i) \o <<x>> /\ cutting' = NoInum
      BY <1>1, <1>2, <2>1, <2>4
    <3>2. PICK r : /\ Resizing(i, r)
                   /\ \E f : /\ Passes(disk, truncated(i), f, NoInum, T)
                             /\ Stands(L, f, inode', data', NoInum, T)
      BY <2>4 DEF Truncated
    <3>3. PICK f : /\ Passes(disk, truncated(i), f, NoInum, T)
                   /\ Stands(L, f, inode', data', NoInum, T)
      BY <3>2
    <3>4. pending' = truncated(i) \o <<sync_data_bitmap(dataBitmap')>>
      BY <3>1
    <3>5. Serving /\ disk' = disk /\ inum' = inum /\ status' = "up" /\ Resizing(i, r)
      BY <1>1, <2>4, <3>2
    <3> HIDE DEF L, T, x
    <3> QED
      BY ONLY CrashInd, <1>3, <3>1, <3>3, <3>4, <3>5, WrittenDiskInd
  <2>5. CASE status' = "undefined" /\ UNCHANGED fsVars /\ NotShorter(i)
    <3>1. pending' = <<>>
      BY <2>1, <2>5
    <3> QED
      BY <1>1, <2>5, <3>1, GivenUp
  <2>6. CASE status' = "overcommitted" /\ NotShorter(i) /\ MemoryTypes(inode', data', inodeBitmap', dataBitmap')
    <3>1. pending' = <<>>
      BY <2>1, <2>6
    <3> QED
      BY <1>1, <2>6, <3>1, HandlerGivesUp
  <2> QED
    BY <2>2, <2>3, <2>4, <2>5, <2>6
<1>6. CASE inode[i].writable /\ end <= inode[i].size /\ Refuse("OK")
  <2>1. UNCHANGED <<inodeBitmap, dataBitmap, data, inode>> /\ status' = "up"
    BY <1>2, <1>6 DEF Refuse, fsVars
  <2>2. pending' = <<>> \o <<x>>
    <3>1. ~ (end > inode[i].size)
      BY <1>2, <1>6
    <3> QED
      BY <1>1, <1>6, <2>1, <3>1
  <2>3. Resizing(i, inode[i])
    BY <1>1, <2>1, SameSize
  <2>4. Stands(L, disk, inode', data', NoInum, T) /\ IsDisk(disk)
    <3>1. Stands(L, disk, inode, data, NoInum, T) /\ IsDisk(disk)
      BY <1>1, AtRest
    <3>2. inode' = inode /\ data' = data
      BY <2>1
    <3> HIDE DEF L, T
    <3> QED
      BY <3>1, <3>2
  <2>5. Passes(disk, <<>>, disk, NoInum, T)
    BY <2>4, PassesNone
  <2>6. Serving /\ disk' = disk /\ inum' = inum /\ status' = "up" /\ cutting' = NoInum
        /\ pending' = <<>> \o <<sync_data_bitmap(dataBitmap')>>
    BY <1>1, <1>2, <2>1, <2>2
  <2> HIDE DEF L, T, x
  <2> QED
    BY ONLY CrashInd, <1>3, <2>3, <2>4, <2>5, <2>6, WrittenDiskInd
<1> QED
  BY <1>1, <1>4, <1>5, <1>6 DEF write

-----------------------------------------------------------------------------
(* The invariant holds *)

(* Without a disk and a process the inductive invariant holds. *)
LEMMA CrashInitInd == CrashInit => CrashInd
<1> SUFFICES ASSUME CrashInit PROVE CrashInd
  OBVIOUS
<1>1. /\ inode \in [Inum -> InodeType]
      /\ data \in [Block -> [Slot -> EntryType]]
  <2>1. FreeInode \in InodeType /\ OtherBlock \in [Slot -> EntryType]
    BY FreeInodeType, DirBlockType
  <2> QED
    BY <2>1 DEF CrashInit
<1>2. inum \in [Inum -> Inum] /\ \A i \in Inum : inum[i] \in {0, i}
  <2>1. 0 \in Inum
    BY RootIsInum DEF ROOT_INUM
  <2> QED
    BY <2>1 DEF CrashInit
<1>3. /\ status = "down" /\ disk = NoDisk /\ pending = <<>> /\ cutting = NoInum
      /\ inodeBitmap = {} /\ dataBitmap = {}
  BY DEF CrashInit
<1>4. CrashTypes
  BY <1>1, <1>2, <1>3, NoWrites DEF CrashTypes, CrashStatus
<1>5. ~ Alive /\ ~ Formatted(disk)
  BY <1>3 DEF Alive, Formatted
<1> QED
  BY <1>3, <1>4, <1>5 DEF CrashInd

(* One action at a time. *)
LEMMA CrashNextInd == CrashInd /\ [CrashNext]_crashVars => CrashInd'
<1> SUFFICES ASSUME CrashInd, [CrashNext]_crashVars PROVE CrashInd'
  OBVIOUS
<1>1. CASE UNCHANGED crashVars
  BY <1>1, StutterCrashInd
<1>2. CASE Format
  BY <1>2, FormatInd
<1>3. CASE Mount
  BY <1>3, MountInd
<1>4. CASE WriteOut
  BY <1>4, WriteOutInd
<1>5. CASE Crash
  BY <1>5, CrashEndInd
<1>6. CASE refs_destroy
  BY <1>6, refs_destroyInd
<1>7. ASSUME NEW p \in Inum, NEW n \in Names, mkdir_to_disk(p, n) PROVE CrashInd'
  BY <1>7, mkdir_to_diskInd
<1>8. ASSUME NEW p \in Inum, NEW n \in Names, NEW w \in Perms, mknod_to_disk(p, n, w) PROVE CrashInd'
  BY <1>8, mknod_to_diskInd
<1>9. ASSUME NEW p \in Inum, NEW n \in Names, Reuse(p, n) PROVE CrashInd'
  BY <1>9, ReuseInd
<1>10. ASSUME NEW p \in Inum, NEW n \in Names, rmdir_to_disk(p, n) PROVE CrashInd'
  BY <1>10, rmdir_to_diskInd
<1>11. ASSUME NEW p \in Inum, NEW n \in Names, unlink_to_disk(p, n) PROVE CrashInd'
  BY <1>11, unlink_to_diskInd
<1>12. ASSUME NEW i \in Inum, NEW w \in Perms, chmod_to_disk(i, w) PROVE CrashInd'
  BY <1>12, chmod_to_diskInd
<1>13. ASSUME NEW i \in Inum, NEW sz \in Sizes, truncate_to_disk(i, sz) PROVE CrashInd'
  BY <1>13, truncate_to_diskInd
<1>14. ASSUME NEW i \in Inum, NEW end \in Sizes, write_to_disk(i, end) PROVE CrashInd'
  BY <1>14, write_to_diskInd
<1> QED
  BY <1>1, <1>2, <1>3, <1>4, <1>5, <1>6, <1>7, <1>8, <1>9, <1>10, <1>11, <1>12, <1>13, <1>14 DEF CrashNext

(* In every state of the file system on its disk, also after crashes and   *)
(* mounts, the invariant above holds.                                      *)
THEOREM CrashInvariantHolds == CrashSpec => []CrashInd
<1> QED
  BY CrashInitInd, CrashNextInd, PTL DEF CrashSpec

(* The memory, the disk and the pending writes are well-formed in every    *)
(* state, so every write goes to a block of the disk.                      *)
THEOREM CrashTypesHold == CrashSpec => []CrashTypeOK
<1>1. CrashInd => CrashTypeOK
  BY CrashIndImplies
<1> QED
  BY <1>1, CrashInvariantHolds, PTL

(* In every state of the file system on its disk, whatever requests were   *)
(* made, in whichever write of mkdir, mknod, rmdir, unlink, truncate or    *)
(* the formatting the process ended and how often it was mounted since:    *)
(* what an entry on the disk leads to is an inode in use, and the inode    *)
(* bitmap there says so.                                                   *)
THEOREM NothingEverDangles == CrashSpec => []NothingDangles
<1>1. CrashInd => NothingDangles
  BY CrashIndImplies
<1> QED
  BY <1>1, CrashInvariantHolds, PTL

(* In every such state no block is held by two files or directories of the *)
(* disk, and the data bitmap there marks all that are held, but for the    *)
(* file that a truncate is making shorter.                                 *)
THEOREM BlocksAreSafeOnDisk == CrashSpec => []BlocksSafeOnDisk
<1>1. CrashInd => BlocksSafeOnDisk
  BY CrashIndImplies
<1> QED
  BY <1>1, CrashInvariantHolds, PTL

(* Whenever no write is left to do, the disk has the name space of the     *)
(* memory, and each inode's type, size and blocks: do_truncate,            *)
(* update_parent and remove_child_abspath write all they changed before    *)
(* they return.                                                            *)
THEOREM ReturnedRequestsAreDurable == CrashSpec => []ReturnedIsDurable
<1>1. CrashInd => ReturnedIsDurable
  BY CrashIndImplies
<1> QED
  BY <1>1, CrashInvariantHolds, PTL

(* The link count on disk is that of the memory or one less, because       *)
(* update_parent writes the parent before it counts the new directory      *)
(* (src/refs.c:937, 953).                                                  *)
THEOREM LinksAreOneBehind == CrashSpec => []LinksOneBehind
<1>1. CrashInd => LinksOneBehind
  BY CrashIndImplies
<1> QED
  BY <1>1, CrashInvariantHolds, PTL

(* Who writes to the disk: one write of a handler, or refs_init when there *)
(* is no disk file.                                                        *)
LEMMA OnlyWriteOut ==
  ASSUME CrashNext, disk' # disk, disk # NoDisk
  PROVE  WriteOut
<1>1. Format => disk = NoDisk
  BY DEF Format
<1>2. Mount \/ Crash \/ refs_destroy => disk' = disk
  BY DEF Mount, Crash, refs_destroy
<1>3. ASSUME NEW p, NEW n, NEW w
      PROVE  mkdir_to_disk(p, n) \/ mknod_to_disk(p, n, w) \/ Reuse(p, n) \/ rmdir_to_disk(p, n)
               \/ unlink_to_disk(p, n) => disk' = disk
  BY DEF mkdir_to_disk, mknod_to_disk, Reuse, rmdir_to_disk, unlink_to_disk, ToDisk, diskVars
<1>4. ASSUME NEW i, NEW w
      PROVE  chmod_to_disk(i, w) \/ truncate_to_disk(i, w) \/ write_to_disk(i, w) => disk' = disk
  BY DEF chmod_to_disk, truncate_to_disk, write_to_disk, ToDisk, diskVars
<1> QED
  BY <1>1, <1>2, <1>3, <1>4 DEF CrashNext

(* The tree of the next disk. *)
LEMMA OnTheDiskThen == TreeOnDisk' = TreeOn(disk')
<1>1. TreeOnDisk = TreeOn(disk)
  BY OnTheDisk
<1>2. (TreeOnDisk = TreeOn(disk))'
  BY <1>1, PTL
<1> QED
  BY <1>2

(* A step leaves the disk's tree or makes it the tree of memory. *)
LEMMA StepIsAtomic ==
  ASSUME CrashInd, [CrashNext]_crashVars
  PROVE  [Formatted(disk) /\ disk' # disk => TreeOnDisk' \in {TreeOnDisk, MemoryTree}]_crashVars
<1> SUFFICES ASSUME CrashNext, Formatted(disk), disk' # disk
             PROVE  TreeOnDisk' \in {TreeOnDisk, MemoryTree}
  BY DEF crashVars, diskVars
<1>1. WriteOut
  BY OnlyWriteOut DEF Formatted
<1>2. TreeOn(disk') \in {TreeOn(disk), TreeOf(inode, data)}
  BY <1>1, WriteOutInd
<1>3. TreeOnDisk = TreeOn(disk) /\ MemoryTree = TreeOf(inode, data)
  BY OnTheDisk, InMemory
<1>4. TreeOnDisk' = TreeOn(disk')
  BY OnTheDiskThen
<1> QED
  BY <1>2, <1>3, <1>4

(* Each single write leaves the name space of the disk as it was, or makes *)
(* it that of the memory: a crash shows a request whole or not at all.     *)
THEOREM RequestsAreAtomicOnDisk == CrashSpec => AtomicOnDisk
<1>1. CrashInd /\ [CrashNext]_crashVars =>
        [Formatted(disk) /\ disk' # disk => TreeOnDisk' \in {TreeOnDisk, MemoryTree}]_crashVars
  BY StepIsAtomic
<1> QED
  BY <1>1, CrashInvariantHolds, PTL DEF CrashSpec, AtomicOnDisk

=============================================================================

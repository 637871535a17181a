---------------------------- MODULE LookupProofs ----------------------------
(***************************************************************************)
(* What a process finds in the name space of RefsFS: theorems of RefsPath  *)
(* and RefsReaddir.  Each inode in use is found by one path, for every     *)
(* number of inodes and whatever was created and removed before; and what  *)
(* a listing of a directory shows, for every size of directory and of      *)
(* buffer and whatever other requests come between its pieces.             *)
(***************************************************************************)
EXTENDS RefsPath, RefsReaddir, NameSpaceProofs

-----------------------------------------------------------------------------
(* What is not a directory has no entries *)

(* A data block is one of a directory, or has nothing that reads as an     *)
(* entry.                                                                  *)
Opaque(table, blks) ==
  \A b \in Block : blks[b] = OtherBlock \/ \E d \in DirsOf(table) : b \in Held(table[d])

(* The inductive invariant: the tree, and no entries outside of it.        *)
PathInd == TreeInd /\ (Up => Opaque(inode, data))

(* The directories in the next state. *)
LEMMA DirsNext ==
  /\ \A d : d \in DirsOf(inode) <=> d \in Inum /\ IsDir(d)
  /\ \A d : d \in DirsOf(inode') <=> d \in Inum /\ inode'[d].inUse /\ inode'[d].isDir
BY DEF DirsOf, IsDir

(* A change of a file keeps it. *)
LEMMA FileStepOpaque ==
  ASSUME Ind, Opaque(inode, data), NEW i \in Inum, IsFile(i), NEW r,
         inode' = [inode EXCEPT ![i] = r], data' = data
  PROVE  Opaque(inode', data')
<1>1. \A d \in Inum : d # i => inode'[d] = inode[d]
  BY DEF Ind, TypeOK
<1>2. \A d \in DirsOf(inode) : d \in DirsOf(inode') /\ inode'[d] = inode[d]
  BY <1>1, DirsNext DEF IsFile, IsDir
<1> QED
  BY <1>2 DEF Opaque

(* A handler that changes nothing keeps it. *)
LEMMA RefuseOpaque ==
  ASSUME Opaque(inode, data), NEW r, Refuse(r)
  PROVE  Opaque(inode', data')
<1>1. inode' = inode /\ data' = data
  BY DEF Refuse, fsVars
<1> QED
  BY <1>1

(* A removal keeps it: the blocks of a removed directory are given back. *)
LEMMA RemovalOpaque ==
  ASSUME Ind, Up, Opaque(inode, data), NEW p \in Inum, IsDir(p), NEW n,
         NEW c, c = inum_from_path(p, n), c # NoInum,
         \A d \in Inum : d # c => Alike(inode[d], inode'[d]),
         IsDir(c) => \A b \in DirBlocks(c) : data'[b] = OtherBlock,
         \A b \in Block : b \notin DirBlocks(c) \/ ~ IsDir(c) => data'[b] = WithoutEntry(p, n)[b]
  PROVE  Opaque(inode', data')
<1> DEFINE home == inode[p].ptrs[First(Hits(p, n))[1]]
<1>1. c \in Inum /\ TypeOK
  BY LookupType DEF Ind
<1>2. home \in Owned(p)
  <2>1. Hits(p, n) # {} /\ Hits(p, n) \subseteq Places(p)
    BY DEF Hits, inum_from_path
  <2>2. First(Hits(p, n))[1] \in 0 .. inode[p].blocks - 1
    BY <1>1, <2>1, PlacesType
  <2> QED
    BY <2>2, PtrsAreBlocks
<1>3. \A b \in Block : b # home => WithoutEntry(p, n)[b] = data[b]
  BY <1>1 DEF WithoutEntry, TypeOK
<1> HIDE DEF home
<1>4. ASSUME NEW d \in DirsOf(inode), d # c
      PROVE  d \in DirsOf(inode') /\ Held(inode'[d]) = Held(inode[d])
  <2>1. d \in Inum /\ Alike(inode[d], inode'[d])
    BY <1>4 DEF DirsOf
  <2> QED
    BY <2>1, SameHoldings DEF Alike, DirsOf
<1>5. p \in DirsOf(inode)
  BY DirsNext
<1>6. IsDir(c) => DirBlocks(c) = Held(inode[c])
  BY <1>1, DirBlocksAreAll DEF Owned
<1>7. ASSUME NEW b \in Block, NEW d \in DirsOf(inode), b \in Held(inode[d])
      PROVE  data'[b] = OtherBlock \/ \E e \in DirsOf(inode') : b \in Held(inode'[e])
  <2>1. CASE d # c
    BY <1>4, <1>7, <2>1
  <2>2. CASE d = c
    BY <1>6, <1>7, <2>2, DirsNext
  <2> QED
    BY <2>1, <2>2
<1>8. ASSUME NEW b \in Block
      PROVE  data'[b] = OtherBlock \/ \E e \in DirsOf(inode') : b \in Held(inode'[e])
  <2>1. CASE \E d \in DirsOf(inode) : b \in Held(inode[d])
    BY <1>7, <2>1
  <2>2. CASE ~ \E d \in DirsOf(inode) : b \in Held(inode[d])
    <3>1. data[b] = OtherBlock
      BY <2>2 DEF Opaque
    <3>2. b # home
      BY <1>2, <1>5, <2>2 DEF Owned
    <3>3. b \notin DirBlocks(c) \/ ~ IsDir(c)
      BY <1>1, <1>6, <2>2, DirsNext
    <3> QED
      BY <1>3, <3>1, <3>2, <3>3
  <2> QED
    BY <2>1, <2>2
<1> QED
  BY <1>8 DEF Opaque

(* A creation keeps it: it writes to blocks of the parent and the child. *)
LEMMA LinkOpaque ==
  ASSUME Ind, Up, Up', Opaque(inode, data),
         NEW p \in Inum, IsDir(p), ~ NoRoom(p), NEW n, NEW isDir \in BOOLEAN,
         NEW child, child.inUse, child.isDir = isDir,
         isDir => child.blocks = 1 /\ child.ptrs[0] = NewBlocks(p, isDir)[1],
         NEW contents,
         contents = (IF isDir THEN [data EXCEPT ![NewBlocks(p, isDir)[1]] = DirBlock(reserve_inode, p)]
                     ELSE data),
         reserve_inode < NumInodes,
         Link(p, n, reserve_inode, child, contents, NewBlocks(p, isDir))
  PROVE  Opaque(inode', data')
<1> DEFINE c      == reserve_inode
           got    == NewBlocks(p, isDir)
           last   == got[ForChild(isDir) + 1]
           parent == WithChild(p, isDir, got)
           x      == OpenPlace(p)
           home   == parent.ptrs[x[1]]
<1>1. /\ TypeOK /\ inode \in [Inum -> InodeType] /\ data \in [Block -> [Slot -> EntryType]]
      /\ Sane(inodeBitmap, dataBitmap, inode)
  BY DEF Ind, TypeOK
<1>2. c \in Inum /\ ~ inode[c].inUse /\ c # p
  BY <1>1, ReservedInode DEF Sane, IsDir
<1>3. NeedsBlock(p) => last \in Block \ dataBitmap
  <2>1. AfterReserving(got) = "up"
    BY DEF Link, Up
  <2> HIDE DEF got
  <2>2. BlocksIn(got) \cap dataBitmap = {}
    BY <2>1, NewBlocksSplit DEF got
  <2>3. NeedsBlock(p) => last \in BlocksIn(got) /\ last \in Block
    BY NewBlocksSplit DEF got
  <2> QED
    BY <2>2, <2>3
<1>4. /\ Held(inode[p]) \subseteq Held(parent)
      /\ parent.inUse /\ parent.isDir
      /\ parent.blocks = inode[p].blocks + (IF NeedsBlock(p) THEN 1 ELSE 0)
  <2> DEFINE r == IF NeedsBlock(p) THEN AddBlock(inode[p], last) ELSE inode[p]
  <2>1. parent.inUse /\ Alike(r, parent)
    BY <1>3, ParentShape
  <2>2. Held(inode[p]) \subseteq Held(parent)
    BY <1>3, ParentHolds DEF Owned
  <2>3. inode[p] \in InodeType /\ inode[p].isDir /\ inode[p].blocks \in Nat
    BY <1>1, PointersAssumption DEF IsDir, InodeType, MaxFileBlocks
  <2>4. r.isDir = inode[p].isDir /\ r.blocks = inode[p].blocks + (IF NeedsBlock(p) THEN 1 ELSE 0)
    <3>1. CASE NeedsBlock(p)
      <4>1. inode[p].blocks < NumDirect
        BY <2>3, <3>1, PointersAssumption DEF NoRoom
      <4> QED
        BY <1>3, <2>3, <3>1, <4>1, AddBlockShape
    <3>2. CASE ~ NeedsBlock(p)
      <4>1. r = inode[p]
        BY <3>2
      <4>2. inode[p].blocks + (IF NeedsBlock(p) THEN 1 ELSE 0) = inode[p].blocks
        BY <2>3, <3>2
      <4> HIDE DEF r
      <4> QED
        BY <4>1, <4>2
    <3> QED
      BY <3>1, <3>2
  <2> HIDE DEF r, parent
  <2> QED
    BY <2>1, <2>2, <2>3, <2>4 DEF Alike
<1>5. inode' = [inode EXCEPT ![c] = child, ![p] = parent]
  BY DEF Link
<1>6. \A b \in Block : b # home => data'[b] = contents[b]
  BY <1>1 DEF Link
<1>7. \A b \in Block : ~ (isDir /\ b = got[1]) => contents[b] = data[b]
  BY <1>1
<1>8. home \in Held(parent)
  <2>1. x[1] \in 0 .. parent.blocks - 1
    BY <1>4, OpenPlaceIs
  <2> HIDE DEF parent, x
  <2> QED
    BY <2>1 DEF Held, BlocksAt
<1>9. isDir => got[1] \in Held(child)
  <2>1. isDir => child.blocks - 1 = 0 /\ 0 \in 0 .. 0
    OBVIOUS
  <2> HIDE DEF got
  <2> QED
    BY <2>1 DEF Held, BlocksAt, got
<1> HIDE DEF parent, x, got, c, home
<1>10. \A d \in Inum : inode'[d] = IF d = p THEN parent ELSE IF d = c THEN child ELSE inode[d]
  BY <1>1, <1>2, <1>5
<1>11. \A d \in DirsOf(inode) : d \in DirsOf(inode') /\ Held(inode[d]) \subseteq Held(inode'[d])
  BY <1>2, <1>4, <1>10 DEF DirsOf
<1>12. p \in DirsOf(inode') /\ (isDir => c \in DirsOf(inode'))
  BY <1>2, <1>4, <1>10 DEF DirsOf
<1>13. ASSUME NEW b \in Block
       PROVE  data'[b] = OtherBlock \/ \E d \in DirsOf(inode') : b \in Held(inode'[d])
  <2>1. CASE b = home
    BY <1>8, <1>10, <1>12, <2>1
  <2>2. CASE isDir /\ b = got[1]
    BY <1>2, <1>9, <1>10, <1>12, <2>2
  <2>3. CASE b # home /\ ~ (isDir /\ b = got[1])
    BY <1>6, <1>7, <1>11, <2>3 DEF Opaque
  <2> QED
    BY <2>1, <2>2, <2>3
<1> QED
  BY <1>13 DEF Opaque

(* Creations, once the name was found to be free. *)
LEMMA CreateInOpaque ==
  ASSUME Ind, Up, Opaque(inode, data),
         NEW p \in Inum, IsDir(p), NEW n, NEW isDir \in BOOLEAN,
         NEW child, child.inUse, child.isDir = isDir,
         isDir => child.blocks = 1 /\ child.ptrs[0] = NewBlocks(p, isDir)[1],
         NEW contents,
         contents = (IF isDir THEN [data EXCEPT ![NewBlocks(p, isDir)[1]] = DirBlock(reserve_inode, p)]
                     ELSE data),
         CreateIn(p, n, child, contents, NewBlocks(p, isDir))
  PROVE  Up' => Opaque(inode', data')
<1>1. CASE Undefined \/ StopForRoom(reserve_inode, child, contents, NewBlocks(p, isDir))
  BY <1>1 DEF Undefined, StopForRoom, Up
<1>2. CASE /\ reserve_inode < NumInodes /\ ~ NoRoom(p)
           /\ Link(p, n, reserve_inode, child, contents, NewBlocks(p, isDir))
  BY <1>2, LinkOpaque
<1> QED
  BY <1>1, <1>2 DEF CreateIn

(* mkdir and mknod. *)
LEMMA CreationOpaque ==
  ASSUME Ind, Opaque(inode, data), NEW p \in Inum, NEW n,
         mkdir(p, n) \/ \E w \in Perms : mknod(p, n, w)
  PROVE  Up' => Opaque(inode', data')
<1>1. CASE Refuse("EEXIST")
  BY <1>1, RefuseOpaque
<1>2. CASE mkdir(p, n) /\ ~ Refuse("EEXIST")
  <2> DEFINE got      == NewBlocks(p, TRUE)
             contents == [data EXCEPT ![got[1]] = DirBlock(reserve_inode, p)]
             child    == NewDirInode(got[1])
  <2>1. Up /\ IsDir(p) /\ CreateIn(p, n, child, contents, got)
    BY <1>2 DEF mkdir
  <2>2. 0 \in PtrIndex
    BY PointersAssumption DEF PtrIndex, MaxFileBlocks
  <2>3. child.inUse = TRUE /\ child.isDir = TRUE /\ child.blocks = 1 /\ child.ptrs[0] = got[1]
    BY <2>2 DEF NewDirInode
  <2>4. /\ TRUE => child.blocks = 1 /\ child.ptrs[0] = NewBlocks(p, TRUE)[1]
        /\ contents = (IF TRUE THEN [data EXCEPT ![NewBlocks(p, TRUE)[1]] = DirBlock(reserve_inode, p)]
                       ELSE data)
    BY <2>3
  <2> HIDE DEF child, contents
  <2> QED
    BY <2>1, <2>3, <2>4, CreateInOpaque
<1>3. ASSUME NEW w \in Perms, mknod(p, n, w), ~ Refuse("EEXIST")
      PROVE  Up' => Opaque(inode', data')
  <2> DEFINE child == NewRegInode(w)
  <2>1. Up /\ IsDir(p) /\ CreateIn(p, n, child, data, NewBlocks(p, FALSE))
    BY <1>3 DEF mknod
  <2>2. child.inUse = TRUE /\ child.isDir = FALSE
    BY DEF NewRegInode
  <2>3. /\ FALSE => child.blocks = 1 /\ child.ptrs[0] = NewBlocks(p, FALSE)[1]
        /\ data = (IF FALSE THEN [data EXCEPT ![NewBlocks(p, FALSE)[1]] = DirBlock(reserve_inode, p)]
                   ELSE data)
    OBVIOUS
  <2> HIDE DEF child
  <2> QED
    BY <2>1, <2>2, <2>3, CreateInOpaque
<1> QED
  BY <1>1, <1>2, <1>3

(* rmdir and unlink. *)
LEMMA DeletionOpaque ==
  ASSUME Ind, Opaque(inode, data), NEW p \in Inum, NEW n,
         rmdir(p, n) \/ unlink(p, n)
  PROVE  Up' => Opaque(inode', data')
<1> DEFINE c    == inum_from_path(p, n)
           left == WithoutLinks(p, c)
<1>1. Up /\ IsDir(p) /\ TypeOK
  BY DEF rmdir, RemoveDir, unlink, RemoveFile, Ind
<1>2. CASE \E r \in Replies : Refuse(r)
  BY <1>2, RefuseOpaque
<1>3. CASE ~ \E r \in Replies : Refuse(r)
  <2>1. /\ c # NoInum
        /\ inode' = left \/ inode' = [left EXCEPT ![c] = FreeInode]
        /\ \/ /\ IsDir(c)
              /\ data' = [b \in Block |-> IF b \in DirBlocks(c) THEN OtherBlock ELSE WithoutEntry(p, n)[b]]
           \/ ~ IsDir(c) /\ data' = WithoutEntry(p, n)
    BY <1>3 DEF rmdir, RemoveDir, unlink, RemoveFile, Replies
  <2>2. c \in Inum
    BY <1>1, <2>1, LookupType
  <2> HIDE DEF c, left
  <2>3. /\ left \in [Inum -> InodeType]
        /\ \A d \in Inum : Alike(inode[d], left[d])
    BY <1>1, <2>2, RemovalKeeps DEF left
  <2>4. \A d \in Inum : d # c => inode'[d] = left[d]
    BY <2>1, <2>3
  <2>5. \A d \in Inum : d # c => Alike(inode[d], inode'[d])
    BY <2>3, <2>4
  <2>6. /\ IsDir(c) => \A b \in DirBlocks(c) : data'[b] = OtherBlock
        /\ \A b \in Block : b \notin DirBlocks(c) \/ ~ IsDir(c) => data'[b] = WithoutEntry(p, n)[b]
    <3>1. IsDir(c) => DirBlocks(c) \subseteq Block
      BY <1>1, <2>2, PtrsAreBlocks DEF DirBlocks, BlocksAt
    <3> QED
      BY <2>1, <3>1
  <2> QED
    BY <1>1, <2>1, <2>5, <2>6, RemovalOpaque DEF c
<1> QED
  BY <1>2, <1>3

(* chmod, truncate and write. *)
LEMMA FileOpaque ==
  ASSUME Ind, Opaque(inode, data), NEW i \in Inum,
         (\E w \in Perms : chmod(i, w)) \/ (\E sz \in Sizes : truncate(i, sz) \/ write(i, sz))
  PROVE  Up' => Opaque(inode', data')
<1>1. CASE \E r : Refuse(r)
  BY <1>1, RefuseOpaque
<1>2. CASE Undefined
  BY <1>2 DEF Undefined, Up
<1>3. CASE ~ (\E r : Refuse(r)) /\ ~ Undefined
  <2>1. IsFile(i)
    BY DEF chmod, truncate, write
  <2>2. ASSUME NEW w, chmod(i, w)
        PROVE  Opaque(inode', data')
    <3>1. inode' = [inode EXCEPT ![i] = [inode[i] EXCEPT !.writable = w]] /\ data' = data
      BY <2>2 DEF chmod
    <3> QED
      BY <2>1, <3>1, FileStepOpaque
  <2>3. ASSUME NEW sz, do_truncate(i, sz)
        PROVE  Opaque(inode', data')
    <3>1. (\E r : inode' = [inode EXCEPT ![i] = r]) /\ data' = data
      BY <1>3, <2>3 DEF do_truncate
    <3> QED
      BY <2>1, <3>1, FileStepOpaque
  <2>4. (\E w : chmod(i, w)) \/ (\E sz : do_truncate(i, sz))
    BY <1>3 DEF truncate, write
  <2> QED
    BY <2>2, <2>3, <2>4
<1> QED
  BY <1>1, <1>2, <1>3

(* The first state: one directory. *)
LEMMA InitPath == Init => PathInd
<1> SUFFICES ASSUME Init PROVE Opaque(inode, data)
  BY InitTree DEF PathInd
<1>1. ROOT_INUM \in Inum /\ inode[ROOT_INUM] = NewDirInode(0)
  BY InodesAssumption DEF Init, Inum, ROOT_INUM
<1>2. NewDirInode(0).inUse /\ NewDirInode(0).isDir /\ 0 \in Held(NewDirInode(0))
  <2>1. 0 \in PtrIndex
    BY PointersAssumption DEF PtrIndex, MaxFileBlocks
  <2>2. /\ NewDirInode(0).inUse /\ NewDirInode(0).isDir
        /\ NewDirInode(0).blocks = 1 /\ NewDirInode(0).ptrs[0] = 0
    BY <2>1 DEF NewDirInode
  <2>3. 0 \in 0 .. NewDirInode(0).blocks - 1
    BY <2>2
  <2> QED
    BY <2>2, <2>3 DEF Held, BlocksAt
<1>3. \A b \in Block : b # 0 => data[b] = OtherBlock
  BY DEF Init
<1>4. ROOT_INUM \in DirsOf(inode) /\ 0 \in Held(inode[ROOT_INUM])
  BY <1>1, <1>2 DEF DirsOf
<1> QED
  BY <1>3, <1>4 DEF Opaque

(* Every step keeps the invariant, *)
LEMMA NextPathInd ==
  ASSUME PathInd, [Next]_vars
  PROVE  PathInd'
<1>1. TreeInd'
  BY NextTreeInd DEF PathInd
<1>2. CASE Next
  <2>1. Ind /\ Opaque(inode, data)
    BY <1>2 DEF PathInd, TreeInd, Next, mkdir, mknod, rmdir, RemoveDir, unlink, RemoveFile,
                chmod, truncate, write
  <2>2. Up' => Opaque(inode', data')
    BY <1>2, <2>1, CreationOpaque, DeletionOpaque, FileOpaque DEF Next
  <2> QED
    BY <1>1, <2>2 DEF PathInd
<1>3. CASE UNCHANGED vars
  BY <1>1, <1>3 DEF PathInd, vars, Up
<1> QED
  BY <1>2, <1>3

(* and so it holds. *)
LEMMA PathInvariant == Spec => []PathInd
<1>1. Init => PathInd
  BY InitPath
<1>2. PathInd /\ [Next]_vars => PathInd'
  BY NextPathInd
<1> QED
  BY <1>1, <1>2, PTL DEF Spec

-----------------------------------------------------------------------------
(* One component *)

(* A lookup in what is not a directory finds nothing: its blocks are not   *)
(* those of a directory.                                                   *)
LEMMA FilesHaveNoEntries ==
  ASSUME Ind, Up, Opaque(inode, data), NEW i \in Inum, ~ IsDir(i), NEW n \in Names
  PROVE  inum_from_path(i, n) = NoInum
<1>1. n # "?"
  BY NamesAssumption
<1>2. ASSUME NEW x \in Places(i)
      PROVE  EntryAt(i, x).name # n
  <2> DEFINE b == inode[i].ptrs[x[1]]
  <2>1. x[1] \in 0 .. inode[i].blocks - 1 /\ x[2] \in Slot
    BY DEF Places
  <2>2. b \in Block /\ b \in Held(inode[i])
    BY <2>1, PtrsAreBlocks DEF Owned
  <2>3. \A d \in DirsOf(inode) : b \notin Held(inode[d])
    BY <2>2, DirsNext DEF Ind, Sane
  <2>4. data[b] = OtherBlock
    BY <2>2, <2>3 DEF Opaque
  <2>5. OtherBlock[x[2]].name = "?"
    BY <2>1 DEF OtherBlock
  <2> QED
    BY <1>1, <2>4, <2>5 DEF EntryAt
<1> QED
  BY <1>2 DEF inum_from_path, Hits

(* The entry of the directory d that leads to i under the name n. *)
LeadsTo(d, n, i) == \E e \in Named(Entries) : e.dir = d /\ e.name = n /\ e.inum = i

(* inum_from_path finds what the entries lead to. *)
LEMMA OneComponent ==
  ASSUME PathInd, Up, NEW d \in Inum, NEW n \in Names
  PROVE  /\ inum_from_path(d, n) \in Inum \cup {NoInum}
         /\ \A i \in Inum : inum_from_path(d, n) = i <=> LeadsTo(d, n, i)
<1>1. /\ Ind /\ Opaque(inode, data) /\ WellNamed(Entries, Directories)
      /\ NoInum \notin Inum
  BY InodesAssumption DEF PathInd, TreeInd, IsTree, NoInum, Inum
<1>2. inum_from_path(d, n) \in Inum \cup {NoInum}
  BY <1>1, LookupType
<1>3. n \notin Dots
  BY NamesAreNotDots
<1>4. CASE IsDir(d)
  <2>1. d \in Directories
    BY <1>4, DirectoryIs DEF Directories
  <2>2. CASE inum_from_path(d, n) = NoInum /\ \A e \in Entries : ~ (e.dir = d /\ e.name = n)
    BY <1>1, <1>2, <2>2 DEF LeadsTo, Named
  <2>3. ASSUME NEW e \in Entries, e.dir = d, e.name = n, inum_from_path(d, n) = e.inum
        PROVE  \A i \in Inum : inum_from_path(d, n) = i <=> LeadsTo(d, n, i)
    BY <1>1, <1>3, <2>3 DEF LeadsTo, Named, WellNamed
  <2> QED
    BY <1>1, <1>2, <2>1, <2>2, <2>3, LookupIs
<1>5. CASE ~ IsDir(d)
  <2>1. inum_from_path(d, n) = NoInum
    BY <1>1, <1>5, FilesHaveNoEntries
  <2>2. \A e \in Entries : e.dir # d
    BY <1>1, <1>5 DEF WellNamed, Directories
  <2> QED
    BY <1>1, <2>1, <2>2 DEF LeadsTo, Named
<1> QED
  BY <1>2, <1>4, <1>5

-----------------------------------------------------------------------------
(* All components *)

(* From an inode or from nowhere on to the next one. *)
Onward(i, n) == IF i = NoInum THEN NoInum ELSE inum_from_path(i, n)

(* The way along l components of a path. *)
Way(g, l, path) ==
  /\ g \in [0 .. l -> Inum \cup {NoInum}]
  /\ g[0] = ROOT_INUM
  /\ \A k \in 1 .. l : g[k] = Onward(g[k - 1], path[k])

(* There is one for any number of components. *)
LEMMA WayExists ==
  ASSUME Ind, Up, NEW path
  PROVE  \A l \in Nat : \E g : Way(g, l, path)
<1>1. ROOT_INUM \in Inum
  BY InodesAssumption DEF ROOT_INUM, Inum
<1> DEFINE S == {l \in Nat : ~ \E g : Way(g, l, path)}
<1>2. SUFFICES ASSUME S # {} PROVE FALSE
  OBVIOUS
<1>3. PICK m \in S : \A x \in S : m <= x
  BY <1>2, LeastExists
<1>4. CASE m = 0
  <2> DEFINE g == [k \in 0 .. 0 |-> ROOT_INUM]
  <2>1. g \in [0 .. 0 -> Inum \cup {NoInum}] /\ g[0] = ROOT_INUM
    BY <1>1
  <2> HIDE DEF g
  <2>2. Way(g, 0, path)
    BY <2>1 DEF Way
  <2> QED
    BY <1>3, <1>4, <2>2
<1>5. CASE m # 0
  <2> DEFINE l == m - 1
  <2>1. l \in Nat /\ l \notin S /\ m = l + 1
    BY <1>3, <1>5
  <2> HIDE DEF l
  <2>2. PICK f : Way(f, l, path)
    BY <2>1
  <2> DEFINE g == [k \in 0 .. l + 1 |-> IF k = l + 1 THEN Onward(f[l], path[k]) ELSE f[k]]
  <2>3. /\ f \in [0 .. l -> Inum \cup {NoInum}] /\ f[0] = ROOT_INUM
        /\ \A k \in 1 .. l : f[k] = Onward(f[k - 1], path[k])
    BY <2>2 DEF Way
  <2>4. Onward(f[l], path[l + 1]) \in Inum \cup {NoInum}
    <3>1. f[l] \in Inum \cup {NoInum}
      BY <2>1, <2>3
    <3> QED
      BY <3>1, LookupType DEF Onward
  <2>5. /\ \A k \in 0 .. l : k \in 0 .. l + 1 /\ k # l + 1
        /\ \A k \in 0 .. l + 1 : k \in 0 .. l \/ k = l + 1
        /\ \A k \in 1 .. l + 1 : k - 1 \in 0 .. l /\ k \in 0 .. l + 1 /\ (k = l + 1 => k - 1 = l)
                                 /\ (k # l + 1 => k \in 1 .. l)
        /\ l + 1 \in 0 .. l + 1 /\ 0 \in 0 .. l
    BY <2>1
  <2>6. g[l + 1] = Onward(f[l], path[l + 1]) /\ \A k \in 0 .. l : g[k] = f[k]
    BY <2>5
  <2>7. g \in [0 .. l + 1 -> Inum \cup {NoInum}]
    BY <2>3, <2>4, <2>5
  <2> HIDE DEF g
  <2>8. \A k \in 1 .. l + 1 : g[k] = Onward(g[k - 1], path[k])
    BY <2>3, <2>5, <2>6
  <2>9. Way(g, l + 1, path)
    BY <2>3, <2>5, <2>6, <2>7, <2>8 DEF Way
  <2> QED
    BY <1>3, <2>1, <2>9
<1> QED
  BY <1>4, <1>5

(* It is the only function with these values. *)
LEMMA WayIsOnly ==
  ASSUME NEW l \in Nat, NEW path, NEW g, Way(g, l, path),
         NEW h, h = [k \in 0 .. l |-> h[k]], h[0] = ROOT_INUM,
         \A k \in 1 .. l : h[k] = Onward(h[k - 1], path[k])
  PROVE  h = g
<1> DEFINE S == {k \in 0 .. l : h[k] # g[k]}
<1>1. ASSUME S # {} PROVE FALSE
  <2>1. S \in SUBSET Nat
    OBVIOUS
  <2> HIDE DEF S
  <2>2. PICK m \in S : \A x \in S : m <= x
    BY <1>1, <2>1, LeastExists
  <2>3. m \in 0 .. l /\ h[m] # g[m] /\ \A k \in 0 .. l : k < m => h[k] = g[k]
    BY <2>2 DEF S
  <2>4. m # 0
    BY <2>3 DEF Way
  <2>5. m \in 1 .. l /\ m - 1 \in 0 .. l /\ m - 1 < m
    BY <2>3, <2>4
  <2>6. h[m - 1] = g[m - 1]
    BY <2>3, <2>5
  <2> QED
    BY <2>3, <2>5, <2>6 DEF Way
<1> QED
  BY <1>1 DEF Way

(* resolve_path computes it. *)
LEMMA NumbersAlongIs ==
  ASSUME Ind, Up, NEW l \in Nat, NEW path \in [1 .. l -> Names]
  PROVE  Way(NumbersAlong(path), l, path)
<1> DEFINE Step(f) == [k \in 0 .. Len(path) |->
                         CASE k = 0                        -> ROOT_INUM
                           [] k > 0 /\ f[k - 1] = NoInum -> NoInum
                           [] OTHER                        -> inum_from_path(f[k - 1], path[k])]
<1>1. Len(path) = l
  OBVIOUS
<1>2. NumbersAlong(path) = CHOOSE f : f = Step(f)
  BY DEF NumbersAlong
<1>3. PICK g : Way(g, l, path)
  BY WayExists
<1>4. ASSUME NEW k \in 0 .. l
      PROVE  g[k] = Step(g)[k]
  <2>1. k = 0 \/ (k > 0 /\ k \in 1 .. l)
    OBVIOUS
  <2>2. k = 0 => g[k] = ROOT_INUM
    BY <1>3 DEF Way
  <2>3. k > 0 => g[k] = IF g[k - 1] = NoInum THEN NoInum ELSE inum_from_path(g[k - 1], path[k])
    BY <1>3, <2>1 DEF Way, Onward
  <2> QED
    BY <1>1, <2>1, <2>2, <2>3
<1>5. g = Step(g)
  <2>1. g = [k \in 0 .. l |-> g[k]]
    BY <1>3 DEF Way
  <2>2. Step(g) = [k \in 0 .. l |-> Step(g)[k]]
    BY <1>1
  <2> HIDE DEF Step
  <2> QED
    BY <1>4, <2>1, <2>2
<1> DEFINE nums == NumbersAlong(path)
<1>6. nums = Step(nums)
  <2> HIDE DEF Step
  <2> QED
    BY <1>2, <1>5
<1> HIDE DEF nums
<1>7. /\ nums = [k \in 0 .. l |-> nums[k]]
      /\ nums[0] = ROOT_INUM
  BY <1>1, <1>6
<1>8. \A k \in 1 .. l : nums[k] = Onward(nums[k - 1], path[k])
  <2> TAKE k \in 1 .. l
  <2>1. k \in 0 .. l /\ k # 0 /\ k > 0
    OBVIOUS
  <2> QED
    BY <1>1, <1>6, <2>1 DEF Onward
<1>9. nums = g
  BY <1>3, <1>7, <1>8, WayIsOnly
<1> QED
  BY <1>3, <1>9 DEF nums

-----------------------------------------------------------------------------
(* Walks from the root along entries *)

(* The nodes g on a way of l components, each of which is an entry.        *)
Walk(g, l, path) ==
  /\ g \in [0 .. l -> Inum]
  /\ g[0] = ROOT_INUM
  /\ \A k \in 1 .. l : LeadsTo(g[k - 1], path[k], g[k])

(* resolve_path follows them, *)
LEMMA WalkIsFollowed ==
  ASSUME PathInd, Up, NEW l \in Nat, NEW path \in [1 .. l -> Names], NEW g, Walk(g, l, path)
  PROVE  NumbersAlong(path) = g
<1>1. Ind /\ NoInum \notin Inum
  BY InodesAssumption DEF PathInd, TreeInd, NoInum, Inum
<1>2. ASSUME NEW k \in 1 .. l
      PROVE  g[k] = Onward(g[k - 1], path[k])
  <2>1. k - 1 \in 0 .. l /\ k \in 0 .. l
    OBVIOUS
  <2>2. g[k - 1] \in Inum /\ g[k] \in Inum /\ path[k] \in Names /\ LeadsTo(g[k - 1], path[k], g[k])
    BY <2>1 DEF Walk
  <2> QED
    BY <1>1, <2>2, OneComponent DEF Onward
<1>3. Way(NumbersAlong(path), l, path)
  BY <1>1, NumbersAlongIs
<1>4. g = [k \in 0 .. l |-> g[k]] /\ g[0] = ROOT_INUM
  BY DEF Walk
<1> QED
  BY <1>2, <1>3, <1>4, WayIsOnly

(* and goes nowhere else. *)
LEMMA ArrivalIsWalk ==
  ASSUME PathInd, Up, NEW l \in Nat, NEW path \in [1 .. l -> Names],
         NumbersAlong(path)[l] \in Inum
  PROVE  Walk(NumbersAlong(path), l, path)
<1> DEFINE g == NumbersAlong(path)
           S == {t \in 0 .. l : g[l - t] = NoInum}
<1>1. Ind /\ NoInum \notin Inum
  BY InodesAssumption DEF PathInd, TreeInd, NoInum, Inum
<1>2. Way(g, l, path)
  BY <1>1, NumbersAlongIs
<1> HIDE DEF g
<1>3. ASSUME S # {} PROVE FALSE
  <2>1. S \in SUBSET Nat
    OBVIOUS
  <2> HIDE DEF S
  <2>2. PICK t \in S : \A x \in S : t <= x
    BY <1>3, <2>1, LeastExists
  <2>3. t \in 0 .. l /\ g[l - t] = NoInum /\ \A x \in 0 .. l : x < t => g[l - x] # NoInum
    BY <2>2 DEF S
  <2>4. t # 0
    BY <1>1, <2>3 DEF g
  <2>5. t - 1 \in 0 .. l /\ t - 1 < t /\ l - (t - 1) \in 1 .. l /\ (l - (t - 1)) - 1 = l - t
    BY <2>3, <2>4
  <2>6. g[l - (t - 1)] = Onward(g[l - t], path[l - (t - 1)])
    BY <1>2, <2>5 DEF Way
  <2> QED
    BY <2>3, <2>5, <2>6 DEF Onward
<1>4. ASSUME NEW k \in 0 .. l
      PROVE  g[k] \in Inum
  <2>1. l - k \in 0 .. l /\ l - (l - k) = k
    OBVIOUS
  <2>2. g[k] # NoInum
    BY <1>3, <2>1
  <2> QED
    BY <1>2, <2>2 DEF Way
<1>5. ASSUME NEW k \in 1 .. l
      PROVE  LeadsTo(g[k - 1], path[k], g[k])
  <2>1. k - 1 \in 0 .. l /\ k \in 0 .. l
    OBVIOUS
  <2>2. g[k - 1] \in Inum /\ g[k] \in Inum /\ path[k] \in Names /\ g[k] = Onward(g[k - 1], path[k])
    BY <1>2, <1>4, <2>1 DEF Way
  <2> QED
    BY <1>1, <2>2, OneComponent DEF Onward
<1> QED
  BY <1>2, <1>4, <1>5 DEF Walk, Way, g

(* Where a walk ends is an inode in use, and but for the root there is an  *)
(* edge on the last step.                                                  *)
LEMMA WalkEnds ==
  ASSUME PathInd, Up, NEW l \in Nat, NEW path, NEW g, Walk(g, l, path), NEW k \in 0 .. l
  PROVE  /\ g[k] \in InUse
         /\ k > 0 => /\ g[k] # ROOT_INUM
                     /\ [parent |-> g[k - 1], name |-> path[k], node |-> g[k]] \in Edges
<1>1. Leading(Entries, InUse) /\ ROOT_INUM \in InUse
  BY DEF PathInd, TreeInd, IsTree
<1>2. CASE k = 0
  BY <1>1, <1>2 DEF Walk
<1>3. CASE k > 0
  <2>1. k \in 1 .. l
    BY <1>3
  <2>2. PICK e \in Named(Entries) : e.dir = g[k - 1] /\ e.name = path[k] /\ e.inum = g[k]
    BY <2>1 DEF Walk, LeadsTo
  <2>3. EdgeOf(e) \in Edges
    BY EdgesAre
  <2> QED
    BY <1>1, <2>2, <2>3 DEF Leading, EdgeOf
<1> QED
  BY <1>2, <1>3

(* Two walks to one inode are the same from their ends backwards, *)
LEMMA WalksBack ==
  ASSUME PathInd, Up, NEW l \in Nat, NEW m \in Nat, l <= m,
         NEW path, NEW path2, NEW g, NEW h, Walk(g, l, path), Walk(h, m, path2), g[l] = h[m]
  PROVE  /\ \A t \in 0 .. l : g[l - t] = h[m - t]
         /\ \A t \in 0 .. l - 1 : path[l - t] = path2[m - t]
<1>1. \A e, f \in Named(Entries) : e.inum = f.inum => e = f
  BY DEF PathInd, TreeInd, IsTree, Leading
<1>2. ASSUME NEW t \in 0 .. l - 1, g[l - t] = h[m - t]
      PROVE  g[l - (t + 1)] = h[m - (t + 1)] /\ path[l - t] = path2[m - t]
  <2>1. /\ l - t \in 1 .. l /\ m - t \in 1 .. m
        /\ (l - t) - 1 = l - (t + 1) /\ (m - t) - 1 = m - (t + 1)
    OBVIOUS
  <2>2. /\ LeadsTo(g[l - (t + 1)], path[l - t], g[l - t])
        /\ LeadsTo(h[m - (t + 1)], path2[m - t], h[m - t])
    BY <2>1 DEF Walk
  <2> QED
    BY <1>1, <1>2, <2>2 DEF LeadsTo
<1> DEFINE S == {t \in 0 .. l : g[l - t] # h[m - t]}
<1>3. ASSUME S # {} PROVE FALSE
  <2>1. S \in SUBSET Nat
    OBVIOUS
  <2> HIDE DEF S
  <2>2. PICK t \in S : \A x \in S : t <= x
    BY <1>3, <2>1, LeastExists
  <2>3. t \in 0 .. l /\ g[l - t] # h[m - t] /\ \A x \in 0 .. l : x < t => g[l - x] = h[m - x]
    BY <2>2 DEF S
  <2>4. l - 0 = l /\ m - 0 = m
    OBVIOUS
  <2>5. t # 0
    BY <2>3, <2>4
  <2>6. t - 1 \in 0 .. l - 1 /\ t - 1 \in 0 .. l /\ t - 1 < t /\ (t - 1) + 1 = t
    BY <2>3, <2>5
  <2>7. g[l - (t - 1)] = h[m - (t - 1)]
    BY <2>3, <2>6
  <2>8. g[l - ((t - 1) + 1)] = h[m - ((t - 1) + 1)]
    BY <1>2, <2>6, <2>7
  <2> QED
    BY <2>3, <2>6, <2>8
<1>4. \A t \in 0 .. l - 1 : t \in 0 .. l
  OBVIOUS
<1> QED
  BY <1>2, <1>3, <1>4

(* and so they are the same. *)
LEMMA WalksMeet ==
  ASSUME PathInd, Up, NEW l \in Nat, NEW m \in Nat, l <= m,
         NEW path, NEW path2, NEW g, NEW h, Walk(g, l, path), Walk(h, m, path2), g[l] = h[m]
  PROVE  l = m /\ \A k \in 1 .. l : path[k] = path2[k]
<1>1. l = m
  <2>1. l \in 0 .. l /\ l - l = 0 /\ m - l \in 0 .. m
    OBVIOUS
  <2>2. g[0] = h[m - l] /\ g[0] = ROOT_INUM
    <3>1. g[l - l] = h[m - l]
      BY <2>1, WalksBack
    <3> QED
      BY <2>1, <3>1 DEF Walk
  <2>3. ~ (m - l > 0)
    BY <2>1, <2>2, WalkEnds
  <2> QED
    BY <2>1, <2>3
<1>2. ASSUME NEW k \in 1 .. l
      PROVE  path[k] = path2[k]
  <2>1. l - k \in 0 .. l - 1 /\ l - (l - k) = k
    OBVIOUS
  <2> QED
    BY <1>1, <2>1, WalksBack
<1> QED
  BY <1>1, <1>2

(* A walk goes on along an entry. *)
LEMMA WalkGoesOn ==
  ASSUME NEW l \in Nat, NEW path \in [1 .. l -> Names], NEW g, Walk(g, l, path),
         NEW n \in Names, NEW i \in Inum, LeadsTo(g[l], n, i)
  PROVE  \E m \in Nat : \E path2 \in [1 .. m -> Names] : \E h : Walk(h, m, path2) /\ h[m] = i
<1> DEFINE m     == l + 1
           path2 == [k \in 1 .. m |-> IF k = m THEN n ELSE path[k]]
           h     == [k \in 0 .. m |-> IF k = m THEN i ELSE g[k]]
<1>1. /\ m \in Nat /\ m \in 1 .. m /\ m \in 0 .. m /\ 0 \in 0 .. m /\ 0 # m
      /\ \A k \in 1 .. m : k - 1 \in 0 .. m /\ k \in 0 .. m /\ k - 1 # m
      /\ \A k \in 1 .. m : k # m => k \in 1 .. l
      /\ \A k \in 1 .. m : k = m => k - 1 = l
      /\ \A k \in 0 .. m : k # m => k \in 0 .. l
  OBVIOUS
<1> HIDE DEF m
<1>2. path2 \in [1 .. m -> Names] /\ path2[m] = n /\ \A k \in 1 .. m : k # m => path2[k] = path[k]
  BY <1>1
<1>3. h \in [0 .. m -> Inum] /\ h[m] = i /\ \A k \in 0 .. m : k # m => h[k] = g[k]
  BY <1>1 DEF Walk
<1> HIDE DEF path2, h
<1>4. ASSUME NEW k \in 1 .. m
      PROVE  LeadsTo(h[k - 1], path2[k], h[k])
  <2>1. CASE k = m
    <3>1. h[k - 1] = g[l] /\ path2[k] = n /\ h[k] = i
      BY <1>1, <1>2, <1>3, <2>1
    <3> QED
      BY <3>1
  <2>2. CASE k # m
    <3>1. h[k - 1] = g[k - 1] /\ path2[k] = path[k] /\ h[k] = g[k] /\ k \in 1 .. l
      BY <1>1, <1>2, <1>3, <2>2
    <3> QED
      BY <3>1 DEF Walk
  <2> QED
    BY <2>1, <2>2
<1>5. h[0] = ROOT_INUM
  BY <1>1, <1>3 DEF Walk
<1> QED
  BY <1>1, <1>2, <1>3, <1>4, <1>5 DEF Walk

(* What a walk leads to. *)
Reached ==
  {i \in Inum : \E l \in Nat : \E path \in [1 .. l -> Names] : \E g : Walk(g, l, path) /\ g[l] = i}

(* An entry of a directory that is reached leads to what is reached. *)
LEMMA ReachedGoesOn ==
  ASSUME PathInd, Up, NEW e \in Named(Entries), e.dir \in Reached
  PROVE  e.inum \in Reached
<1>1. PICK l \in Nat : \E path \in [1 .. l -> Names] : \E g : Walk(g, l, path) /\ g[l] = e.dir
  BY DEF Reached
<1>2. PICK path \in [1 .. l -> Names] : \E g : Walk(g, l, path) /\ g[l] = e.dir
  BY <1>1
<1>6. PICK g : Walk(g, l, path) /\ g[l] = e.dir
  BY <1>2
<1>3. e.name \in Names /\ e.inum \in Inum
  BY DEF PathInd, TreeInd, IsTree, WellNamed, Named
<1>4. LeadsTo(g[l], e.name, e.inum)
  BY <1>6 DEF LeadsTo
<1>5. \E m \in Nat : \E path2 \in [1 .. m -> Names] : \E h : Walk(h, m, path2) /\ h[m] = e.inum
  BY <1>6, <1>3, <1>4, WalkGoesOn
<1> QED
  BY <1>3, <1>5 DEF Reached

(* Everything in use is reached: directories that are not would be left by *)
(* "..", to a directory that has an entry for one of them.                 *)
LEMMA AllReached ==
  ASSUME PathInd, Up
  PROVE  InUse \subseteq Reached
<1>1. /\ WellNamed(Entries, Directories) /\ Leading(Entries, InUse)
      /\ Dotted(Entries, Directories) /\ Rooted(Entries, Directories)
      /\ InUse \subseteq Inum /\ Directories \subseteq Inum
      /\ ROOT_INUM \in Inum
  BY DEF PathInd, TreeInd, IsTree, InUse, Directories
<1>2. ROOT_INUM \in Reached
  <2> DEFINE g    == [k \in 0 .. 0 |-> ROOT_INUM]
             path == [k \in 1 .. 0 |-> ""]
  <2>1. g \in [0 .. 0 -> Inum] /\ g[0] = ROOT_INUM
    BY <1>1
  <2>2. 0 \in Nat /\ path \in [1 .. 0 -> Names] /\ \A k \in 1 .. 0 : FALSE
    OBVIOUS
  <2> HIDE DEF g, path
  <2>3. Walk(g, 0, path)
    BY <2>1, <2>2 DEF Walk
  <2> QED
    BY <1>1, <2>1, <2>2, <2>3 DEF Reached
<1>3. Directories \subseteq Reached
  <2> DEFINE S == Directories \ Reached
  <2>1. SUFFICES ASSUME S # {} PROVE FALSE
    OBVIOUS
  <2>2. S \in SUBSET (Directories \ {ROOT_INUM})
    BY <1>2
  <2>3. PICK e \in Entries : e.dir \in S /\ e.name = ".." /\ e.inum \notin S
    BY <1>1, <2>1, <2>2 DEF Rooted
  <2>4. PICK d \in Entries : d.dir = e.dir /\ d.name = ".." /\ LeadsUp(Entries, d)
    BY <1>1, <2>3 DEF Dotted
  <2>5. d = e
    BY <1>1, <2>3, <2>4 DEF WellNamed
  <2>6. PICK f \in Named(Entries) : f.dir = e.inum /\ f.inum = e.dir
    BY <1>2, <2>3, <2>4, <2>5 DEF LeadsUp
  <2>7. f.dir \in Directories
    BY <1>1 DEF WellNamed, Named
  <2>8. f.dir \in Reached
    BY <2>3, <2>6, <2>7
  <2> QED
    BY <2>3, <2>6, <2>8, ReachedGoesOn
<1>4. ASSUME NEW i \in InUse, i # ROOT_INUM
      PROVE  i \in Reached
  <2>1. PICK f \in Named(Entries) : f.inum = i
    BY <1>1, <1>4 DEF Leading
  <2>2. f.dir \in Directories
    BY <1>1 DEF WellNamed, Named
  <2> QED
    BY <1>3, <2>1, <2>2, ReachedGoesOn
<1> QED
  BY <1>2, <1>4

(* The first steps of a walk are a walk. *)
LEMMA WalkBegins ==
  ASSUME NEW l \in Nat, NEW path, NEW g, Walk(g, l, path), NEW k \in 0 .. l
  PROVE  \E h : Walk(h, k, path) /\ h[k] = g[k]
<1> DEFINE h == [j \in 0 .. k |-> g[j]]
<1>1. /\ \A j \in 0 .. k : j \in 0 .. l
      /\ \A j \in 1 .. k : j \in 1 .. l /\ j - 1 \in 0 .. k /\ j \in 0 .. k
      /\ 0 \in 0 .. k /\ k \in 0 .. k
  OBVIOUS
<1>2. h \in [0 .. k -> Inum] /\ \A j \in 0 .. k : h[j] = g[j]
  BY <1>1 DEF Walk
<1> HIDE DEF h
<1>3. Walk(h, k, path)
  BY <1>1, <1>2 DEF Walk
<1> QED
  BY <1>1, <1>2, <1>3

(* A walk passes no inode twice, so it has fewer steps than there are      *)
(* inodes.                                                                 *)
LEMMA WalkIsShort ==
  ASSUME PathInd, Up, NEW l \in Nat, NEW path, NEW g, Walk(g, l, path)
  PROVE  l <= NumInodes - 1
<1>1. ASSUME NEW j \in 0 .. l, NEW k \in 0 .. l, j < k
      PROVE  g[j] # g[k]
  <2>1. PICK h : Walk(h, j, path) /\ h[j] = g[j]
    BY WalkBegins
  <2>2. PICK h2 : Walk(h2, k, path) /\ h2[k] = g[k]
    BY WalkBegins
  <2>3. j \in Nat /\ k \in Nat /\ j <= k /\ j # k
    BY <1>1
  <2> QED
    BY <2>1, <2>2, <2>3, WalksMeet
<1>2. /\ IsFiniteSet(0 .. l) /\ Cardinality(0 .. l) = l + 1
      /\ IsFiniteSet(Inum) /\ Cardinality(Inum) = NumInodes
  BY FS_Interval, InodesAssumption DEF Inum
<1>3. g \in [0 .. l -> Inum]
  BY DEF Walk
<1>4. ~ (NumInodes < l + 1)
  <2> SUFFICES ASSUME NumInodes < l + 1 PROVE FALSE
    OBVIOUS
  <2>1. PICK j \in 0 .. l, k \in 0 .. l : j # k /\ g[j] = g[k]
    BY <1>2, <1>3, FS_PigeonHole
  <2>2. j < k \/ k < j
    BY <2>1
  <2> QED
    BY <1>1, <2>1, <2>2
<1> QED
  BY <1>4, InodesAssumption

-----------------------------------------------------------------------------
(* What resolve_path answers *)

(* The child is where the way ends, the parent the inode before. *)
LEMMA ResolveIs ==
  ASSUME PathInd, Up, NEW l \in Nat, NEW path \in [1 .. l -> Names]
  PROVE  /\ resolve_path(path).child = NumbersAlong(path)[l]
         /\ l > 0 /\ NumbersAlong(path)[l] # NoInum =>
              resolve_path(path).parent = NumbersAlong(path)[l - 1]
<1> DEFINE nums == NumbersAlong(path)
<1>1. Ind /\ ROOT_INUM \in Directories /\ DotsLeadHome
  BY TreeIndImplies DEF PathInd, TreeInd, IsTree
<1>2. Len(path) = l /\ Way(nums, l, path)
  BY <1>1, NumbersAlongIs
<1> HIDE DEF nums
<1>3. CASE l = 0
  <2>1. path = <<>>
    BY <1>3
  <2>2. inum_from_path(ROOT_INUM, ".") = ROOT_INUM
    BY <1>1 DEF DotsLeadHome
  <2>3. nums[l] = ROOT_INUM
    BY <1>2, <1>3 DEF Way
  <2> QED
    BY <1>3, <2>1, <2>2, <2>3 DEF resolve_path, nums
<1>4. CASE l > 0
  <2>1. path # <<>>
    BY <1>2, <1>4
  <2>2. nums[l] = Onward(nums[l - 1], path[l])
    BY <1>2, <1>4 DEF Way
  <2>3. nums[l - 1] = NoInum => resolve_path(path).child = NoInum
    BY <1>2, <2>1 DEF resolve_path, NotFound, nums
  <2>4. nums[l - 1] # NoInum =>
          resolve_path(path).child = nums[l] /\ resolve_path(path).parent = nums[l - 1]
    BY <1>2, <2>1 DEF resolve_path, nums
  <2> QED
    BY <2>2, <2>3, <2>4 DEF Onward, nums
<1> QED
  BY <1>3, <1>4

(* Every inode in use has one path, of the lengths that OnePathEach looks  *)
(* at, and a path leads nowhere else.                                      *)
LEMMA PathIndImplies ==
  ASSUME PathInd
  PROVE  OnePathEach
<1> SUFFICES ASSUME Up
             PROVE  \A i \in Inum :
                      LET found == {way \in {[path |-> path, to |-> resolve_path(path)] : path \in Paths} :
                                      way.to.child = i}
                      IN  IF ~inode[i].inUse THEN found = {}
                          ELSE \E way \in found :
                                 /\ found = {way}
                                 /\ way.path # <<>> =>
                                      [parent |-> way.to.parent,
                                       name   |-> Last(way.path), node |-> i] \in Edges
  BY DEF OnePathEach
<1> TAKE i \in Inum
<1> DEFINE WayOf(path) == [path |-> path, to |-> resolve_path(path)]
           found == {way \in {WayOf(path) : path \in Paths} : way.to.child = i}
<1>1. NoInum \notin Inum /\ NumInodes \in Nat \ {0}
  BY InodesAssumption DEF NoInum, Inum
<1>2. \A path : WayOf(path).path = path /\ WayOf(path).to = resolve_path(path)
  OBVIOUS
<1> HIDE DEF WayOf
<1>3. ASSUME NEW way \in found
      PROVE  \E l \in Nat : \E path \in [1 .. l -> Names] :
               /\ way = WayOf(path) /\ resolve_path(path).child = i
               /\ Walk(NumbersAlong(path), l, path) /\ NumbersAlong(path)[l] = i
  <2>1. PICK path \in Paths : way = WayOf(path) /\ resolve_path(path).child = i
    BY <1>2
  <2>2. PICK l \in Nat : path \in [1 .. l -> Names]
    BY <1>1 DEF Paths
  <2>3. NumbersAlong(path)[l] = i
    BY <2>1, <2>2, ResolveIs
  <2>4. Walk(NumbersAlong(path), l, path)
    BY <2>2, <2>3, ArrivalIsWalk
  <2> QED
    BY <2>1, <2>2, <2>3, <2>4
<1>4. ASSUME NEW l \in Nat, NEW path \in [1 .. l -> Names], NEW g, Walk(g, l, path), g[l] = i
      PROVE  /\ WayOf(path) \in found
             /\ l > 0 => resolve_path(path).parent = g[l - 1]
  <2>1. NumbersAlong(path) = g
    BY <1>4, WalkIsFollowed
  <2>2. resolve_path(path).child = i /\ (l > 0 => resolve_path(path).parent = g[l - 1])
    BY <1>1, <1>4, <2>1, ResolveIs
  <2>3. l \in 0 .. NumInodes - 1
    BY <1>1, <1>4, WalkIsShort
  <2>4. path \in Paths
    BY <2>3 DEF Paths
  <2> QED
    BY <1>2, <2>2, <2>4
<1>5. CASE ~ inode[i].inUse
  <2>1. ASSUME NEW way \in found PROVE FALSE
    <3>1. PICK l \in Nat : \E path \in [1 .. l -> Names] :
                              Walk(NumbersAlong(path), l, path) /\ NumbersAlong(path)[l] = i
      BY <1>3
    <3>2. PICK path \in [1 .. l -> Names] :
                 Walk(NumbersAlong(path), l, path) /\ NumbersAlong(path)[l] = i
      BY <3>1
    <3>3. l \in 0 .. l
      OBVIOUS
    <3> QED
      BY <1>5, <3>2, <3>3, WalkEnds DEF InUse
  <2>2. found = {}
    BY <2>1
  <2> QED
    BY <1>5, <2>2 DEF WayOf
<1>6. CASE inode[i].inUse
  <2>1. PICK l \in Nat : \E path \in [1 .. l -> Names] : \E g : Walk(g, l, path) /\ g[l] = i
    BY <1>6, AllReached DEF Reached, InUse
  <2>2. PICK path \in [1 .. l -> Names] : \E g : Walk(g, l, path) /\ g[l] = i
    BY <2>1
  <2>8. PICK g : Walk(g, l, path) /\ g[l] = i
    BY <2>2
  <2>3. WayOf(path) \in found /\ (l > 0 => resolve_path(path).parent = g[l - 1])
    BY <1>4, <2>8
  <2>4. ASSUME NEW way \in found PROVE way = WayOf(path)
    <3>1. PICK m \in Nat : \E path2 \in [1 .. m -> Names] :
                              /\ way = WayOf(path2)
                              /\ Walk(NumbersAlong(path2), m, path2) /\ NumbersAlong(path2)[m] = i
      BY <1>3
    <3>2. PICK path2 \in [1 .. m -> Names] :
                 /\ way = WayOf(path2)
                 /\ Walk(NumbersAlong(path2), m, path2) /\ NumbersAlong(path2)[m] = i
      BY <3>1
    <3>3. l <= m \/ m <= l
      OBVIOUS
    <3>4. l = m /\ \A k \in 1 .. l : path[k] = path2[k]
      BY <2>8, <3>2, <3>3, WalksMeet
    <3>5. path = path2
      BY <3>4
    <3> QED
      BY <3>2, <3>5
  <2>5. found = {WayOf(path)}
    BY <2>3, <2>4
  <2>6. path # <<>> => [parent |-> resolve_path(path).parent, name |-> Last(path), node |-> i] \in Edges
    <3> SUFFICES ASSUME path # <<>>
                 PROVE  [parent |-> resolve_path(path).parent, name |-> Last(path), node |-> i] \in Edges
      OBVIOUS
    <3>1. Len(path) = l
      OBVIOUS
    <3>2. l > 0
      BY <3>1
    <3>3. l \in 0 .. l /\ Last(path) = path[l]
      BY <3>1 DEF Last
    <3>4. [parent |-> g[l - 1], name |-> path[l], node |-> g[l]] \in Edges
      BY <2>8, <3>2, <3>3, WalkEnds
    <3> QED
      BY <2>8, <2>3, <3>2, <3>3, <3>4
  <2> HIDE DEF found
  <2>7. \E way \in found :
           /\ found = {way}
           /\ way.path # <<>> =>
                [parent |-> way.to.parent, name |-> Last(way.path), node |-> i] \in Edges
    <3>1. WayOf(path).path = path /\ WayOf(path).to = resolve_path(path)
      BY <1>2
    <3> QED
      BY <2>3, <2>5, <2>6, <3>1
  <2> QED
    BY <1>6, <2>7 DEF found, WayOf
<1> QED
  BY <1>5, <1>6

-----------------------------------------------------------------------------
(* The theorem *)

(* Whichever inodes, slots and blocks mkdir, mknod, rmdir and unlink used  *)
(* again, resolve_path finds every file and directory by exactly one path, *)
(* finds with it the directory it is in, and finds nothing that is free.   *)
THEOREM OnePathLeadsToEach == Spec => []OnePathEach
BY PathInvariant, PathIndImplies, PTL

-----------------------------------------------------------------------------
(* The order of slots *)

(* Slots of a directory have numbers that grow with block and slot. *)
LEMMA IndexOrders ==
  ASSUME NEW a \in Nat, NEW s \in Slot, NEW off \in Nat
  PROVE  LET q == off \div DirentsPerBlock
             r == off % DirentsPerBlock
             i == a * DirentsPerBlock + s
         IN  /\ i \in Nat
             /\ i \div DirentsPerBlock = a /\ i % DirentsPerBlock = s
             /\ off <= i <=> a > q \/ (a = q /\ s >= r)
<1> DEFINE D == DirentsPerBlock
           q == off \div D
           r == off % D
           i == a * D + s
           P == D * a
           Q == D * q
<1>1. D \in Nat \ {0} /\ D \in Nat /\ s \in 0 .. D - 1
  BY DirentsAssumption DEF Slot
<1> HIDE DEF D
<1>2. q \in Nat /\ r \in 0 .. D - 1 /\ off = D * q + r
  BY <1>1
<1> HIDE DEF q, r
<1>3. P \in Nat /\ Q \in Nat /\ i = P + s /\ off = Q + r
  BY <1>1, <1>2
<1>4. i \in Nat
  BY <1>1, <1>3
<1> HIDE DEF i
<1>5. i \div D = a /\ i % D = s
  <2>1. i = D * a + s
    BY <1>1, <1>3
  <2> HIDE DEF P, Q
  <2> QED
    BY <1>1, <1>4, <2>1, DivisionIs
<1>6. \A b, c \in Nat : b < c => D * b + D <= D * c
  <2> TAKE b, c \in Nat
  <2> HAVE b < c
  <2>1. b + 1 <= c /\ D * (b + 1) = D * b + D
    BY <1>1
  <2>2. D * (b + 1) <= D * c
    BY <1>1, <2>1
  <2> QED
    BY <2>1, <2>2
<1>7. (q < a => Q + D <= P) /\ (a < q => P + D <= Q) /\ (a = q => P = Q)
  BY <1>2, <1>6
<1> HIDE DEF P, Q
<1>8. off <= i <=> a > q \/ (a = q /\ s >= r)
  BY <1>1, <1>2, <1>3, <1>7
<1> QED
  BY <1>4, <1>5, <1>8 DEF D, i, q, r

(* The used slots of a directory are finitely many and have numbers of     *)
(* their own, below that of its end.                                       *)
LEMMA ValidSlots ==
  ASSUME TypeOK, NEW d \in Inum
  PROVE  /\ IsFiniteSet(Valid(d))
         /\ inode[d].blocks * DirentsPerBlock \in Nat
         /\ \A x \in Valid(d) :
              Index(x) \in Nat /\ Index(x) < inode[d].blocks * DirentsPerBlock
         /\ \A x, y \in Valid(d) : Index(x) = Index(y) => x = y
         /\ \A off \in Nat, x \in Valid(d) : x \in Rest(d, off) <=> off <= Index(x)
<1> DEFINE D == DirentsPerBlock
           m == inode[d].blocks
<1>1. D \in Nat \ {0} /\ m \in Nat /\ m * D \in Nat
  BY DirentsAssumption, PointersAssumption DEF TypeOK, InodeType, MaxFileBlocks
<1>2. \A x \in Valid(d) : x[1] \in 0 .. m - 1 /\ x[2] \in Slot /\ x = <<x[1], x[2]>>
  BY DEF Valid, Places
<1>3. \A x \in Valid(d) : Index(x) \in Nat /\ Index(x) \div D = x[1] /\ Index(x) % D = x[2]
  <2> TAKE x \in Valid(d)
  <2>1. x[1] \in Nat /\ x[2] \in Slot /\ 0 \in Nat
    BY <1>1, <1>2
  <2> QED
    BY <2>1, IndexOrders DEF Index
<1>4. \A x \in Valid(d) : Index(x) < m * D
  <2> TAKE x \in Valid(d)
  <2> DEFINE a == x[1]
             s == x[2]
  <2>1. a \in Nat /\ a + 1 <= m /\ s \in 0 .. D - 1
    BY <1>1, <1>2 DEF Slot
  <2>2. Index(x) = a * D + s
    BY DEF Index
  <2> HIDE DEF D, m, a, s
  <2>3. (a + 1) * D <= m * D
    BY <1>1, <2>1
  <2>4. (a + 1) * D = a * D + D /\ a * D \in Nat
    BY <1>1, <2>1
  <2> QED
    BY <1>1, <2>1, <2>2, <2>3, <2>4
<1>5. \A x, y \in Valid(d) : Index(x) = Index(y) => x = y
  <2> TAKE x, y \in Valid(d)
  <2> HAVE Index(x) = Index(y)
  <2>1. x[1] = y[1] /\ x[2] = y[2]
    BY <1>3
  <2> QED
    BY <1>2, <2>1
<1>6. \A off \in Nat, x \in Valid(d) : x \in Rest(d, off) <=> off <= Index(x)
  <2> TAKE off \in Nat, x \in Valid(d)
  <2>1. x[1] \in Nat /\ x[2] \in Slot
    BY <1>1, <1>2
  <2>2. off <= Index(x) <=> x[1] > off \div DirentsPerBlock
                            \/ (x[1] = off \div DirentsPerBlock /\ x[2] >= off % DirentsPerBlock)
    BY <2>1, IndexOrders DEF Index
  <2> QED
    BY <2>2 DEF Rest
<1>7. IsFiniteSet(Valid(d))
  <2>1. IsFiniteSet(0 .. m - 1) /\ IsFiniteSet(0 .. D - 1)
    <3> HIDE DEF D, m
    <3> QED
      BY <1>1, FS_Interval
  <2>2. IsFiniteSet(Places(d))
    BY <2>1, FS_Product DEF Places, Slot
  <2>3. Valid(d) \subseteq Places(d)
    BY DEF Valid
  <2> QED
    BY <2>2, <2>3, FS_Subset
<1> QED
  BY <1>1, <1>3, <1>4, <1>5, <1>6, <1>7

(* A nonempty set of numbers up to m has a greatest element. *)
LEMMA MaxIs ==
  ASSUME NEW m \in Nat, NEW S, S \subseteq 0 .. m, S # {}
  PROVE  Max(S) \in S /\ \A x \in S : x <= Max(S)
<1> DEFINE T == {m - x : x \in S}
<1>1. T \in SUBSET Nat /\ T # {}
  <2>1. \A x \in S : m - x \in Nat
    OBVIOUS
  <2>2. T # {}
    OBVIOUS
  <2> QED
    BY <2>1, <2>2
<1>2. PICK t \in T : \A u \in T : t <= u
  BY <1>1, LeastExists
<1>3. PICK x \in S : t = m - x
  BY <1>2
<1>4. \A y \in S : m - x <= m - y
  BY <1>2, <1>3
<1>5. \A y \in S : x >= y
  BY <1>4
<1>6. Max(S) \in S /\ \A y \in S : Max(S) >= y
  BY <1>5 DEF Max
<1> QED
  BY <1>6

-----------------------------------------------------------------------------
(* One request *)

(* A request shows the entries from its offset up to the next, no others.  *)
LEMMA PieceIs ==
  ASSUME TypeOK, NEW d \in Inum, NEW off \in Nat, NEW k \in Nat \ {0}, Rest(d, off) # {}
  PROVE  LET new  == {Dirent(d, x) : x \in FirstPlaces(Rest(d, off), k)}
             next == Max({NextOffset(e) : e \in new})
         IN  /\ next \in Nat
             /\ off <= next
             /\ \A e \in Contents[d] : IsDir(d) => (e \in new <=> off <= e.at /\ e.at < next)
<1> DEFINE rest == Rest(d, off)
           F    == FirstPlaces(rest, k)
           new  == {Dirent(d, x) : x \in F}
           ends == {NextOffset(e) : e \in new}
           m    == inode[d].blocks * DirentsPerBlock
           Below(x) == {y \in rest : Index(y) < Index(x)}
<1>1. rest \subseteq Valid(d) /\ IsFiniteSet(rest)
  <2>1. rest \subseteq Valid(d)
    BY DEF Rest
  <2> QED
    BY <2>1, ValidSlots, FS_Subset
<1>2. \A x \in rest : Index(x) \in Nat /\ Index(x) < m /\ off <= Index(x)
  BY <1>1, ValidSlots
<1>3. m \in Nat
  BY ValidSlots
<1>4. F \subseteq rest /\ \A x \in rest : x \in F <=> Cardinality(Below(x)) < k
  BY DEF FirstPlaces
<1> HIDE DEF rest, F, m
<1>5. \A x \in rest : IsFiniteSet(Below(x)) /\ Cardinality(Below(x)) \in Nat
  BY <1>1, FS_Subset, FS_CardinalityType
<1>6. ASSUME NEW x \in F, NEW y \in rest, Index(y) <= Index(x) PROVE y \in F
  <2>1. x \in rest
    BY <1>4
  <2>2. Below(y) \subseteq Below(x)
    BY <1>2, <1>6, <2>1
  <2>3. Cardinality(Below(y)) <= Cardinality(Below(x))
    BY <1>5, <2>1, <2>2, FS_Subset
  <2> HIDE DEF Below
  <2> QED
    BY <1>4, <1>5, <2>1, <2>3
<1>7. F # {}
  <2> DEFINE S == {Index(x) : x \in rest}
  <2>1. S \in SUBSET Nat /\ S # {}
    BY <1>2 DEF rest
  <2>2. PICK least \in S : \A i \in S : least <= i
    BY <2>1, LeastExists
  <2>3. PICK x \in rest : least = Index(x)
    BY <2>2
  <2>4. \A y \in rest : ~ (Index(y) < Index(x))
    BY <1>2, <2>2, <2>3
  <2>5. Below(x) = {}
    BY <2>4
  <2>6. Cardinality(Below(x)) = 0
    BY <2>5, FS_EmptySet
  <2> QED
    BY <1>4, <2>6
<1>8. \A e : e \in new <=> \E x \in F : e = Dirent(d, x)
  OBVIOUS
<1> HIDE DEF new
<1>9. \A x : Dirent(d, x).at = Index(x)
  BY DEF Dirent
<1>10. \A j : j \in ends <=> \E x \in F : j = Index(x) + 1
  BY <1>8, <1>9 DEF NextOffset
<1> HIDE DEF ends
<1>11. ends \subseteq 0 .. m /\ ends # {}
  BY <1>2, <1>3, <1>4, <1>7, <1>10
<1>12. Max(ends) \in ends /\ \A j \in ends : j <= Max(ends)
  BY <1>3, <1>11, MaxIs
<1>13. PICK last \in F : Max(ends) = Index(last) + 1
  BY <1>10, <1>12
<1>14. Max(ends) \in Nat /\ off <= Max(ends)
  BY <1>2, <1>4, <1>13
<1>15. ASSUME NEW e \in Contents[d], IsDir(d)
       PROVE  e \in new <=> off <= e.at /\ e.at < Max(ends)
  <2>1. PICK x \in Valid(d) : e = Dirent(d, x)
    BY <1>15 DEF Contents
  <2>2. e.at = Index(x) /\ Index(x) \in Nat
    BY <1>9, <2>1, ValidSlots
  <2>3. ASSUME e \in new PROVE off <= e.at /\ e.at < Max(ends)
    <3>1. PICK y \in F : e = Dirent(d, y)
      BY <1>8, <2>3
    <3>2. e.at = Index(y) /\ y \in rest
      BY <1>4, <1>9, <3>1
    <3>3. Index(y) + 1 \in ends
      BY <1>10
    <3> QED
      BY <1>2, <1>12, <1>14, <3>2, <3>3
  <2>4. ASSUME off <= e.at, e.at < Max(ends) PROVE e \in new
    <3>1. x \in rest
      BY <2>2, <2>4, ValidSlots DEF rest
    <3>2. Index(x) <= Index(last)
      BY <1>2, <1>4, <1>13, <2>2, <2>4
    <3>3. x \in F
      BY <1>6, <3>1, <3>2
    <3> QED
      BY <1>8, <2>1, <3>3
  <2> QED
    BY <2>3, <2>4
<1> QED
  BY <1>14, <1>15 DEF ends, new, F, rest

(* When it has none to show, all entries are behind it. *)
LEMMA NoPieceIs ==
  ASSUME TypeOK, NEW d \in Inum, NEW off \in Nat, Rest(d, off) = {}
  PROVE  \A e \in Contents[d] : IsDir(d) => e.at < off
<1> SUFFICES ASSUME NEW e \in Contents[d], IsDir(d) PROVE e.at < off
  OBVIOUS
<1>1. PICK x \in Valid(d) : e = Dirent(d, x)
  BY DEF Contents
<1>2. e.at = Index(x)
  BY <1>1 DEF Dirent
<1>3. Index(x) \in Nat /\ ~ (off <= Index(x))
  BY ValidSlots
<1> QED
  BY <1>2, <1>3

-----------------------------------------------------------------------------
(* The inductive invariant *)

(* Of what stayed, exactly the entries before the offset have been listed, *)
(* and none of them twice.                                                 *)
ListedSoFar ==
  /\ dir \in Inum
  /\ offset \in Nat
  /\ Contents[dir] # {}
  /\ stayed \subseteq Contents[dir]
  /\ \A e \in stayed : e \in listed <=> e.at < offset
  /\ stayed \cap twice = {}

(* The inductive invariant: the tree of RefsFS and, during a listing, what *)
(* it has shown so far.                                                    *)
ListInd == TreeInd /\ (dir # NoInum => ListedSoFar)

(* Only directories have contents. *)
LEMMA ContentsAre ==
  \A d \in Inum : Contents[d] # {} => IsDir(d)
BY DEF Contents

(* A listing starts with nothing listed. *)
LEMMA StartsListing ==
  ASSUME TreeInd, NEW d \in Inum, StartListing(d), UNCHANGED vars
  PROVE  ListedSoFar'
<1>1. TypeOK /\ IsTree(Entries, Directories, InUse) /\ d \in Directories
  BY DEF TreeInd, StartListing, Ind, Directories
<1>2. Contents' = Contents
  BY DEF vars, Contents, Valid, Places, EntryAt, Dirent, IsDir
<1>3. Contents[d] # {}
  <2>1. PICK e \in Entries : e.dir = d
    BY <1>1 DEF IsTree, Dotted
  <2>2. e.at \in UsedOf(inode, data, d)
    BY <2>1, EntryIs DEF Entries
  <2>3. e.at \in Valid(d)
    BY <2>2, EntriesAre DEF UsedOf, Valid
  <2> QED
    BY <2>3 DEF Contents, StartListing
<1>4. \A e \in Contents[d] : e.at \in Nat
  <2> TAKE e \in Contents[d]
  <2>1. PICK x \in Valid(d) : e = Dirent(d, x)
    BY DEF Contents, StartListing
  <2> QED
    BY <1>1, <2>1, ValidSlots DEF Dirent
<1>5. /\ dir' = d /\ offset' = 0 /\ listed' = {} /\ twice' = {} /\ stayed' = Contents[d]
  BY DEF StartListing
<1> HIDE DEF Contents
<1> QED
  BY <1>2, <1>3, <1>4, <1>5 DEF ListedSoFar

(* A request goes on where the one before it ended. *)
LEMMA GoesOn ==
  ASSUME TreeInd, dir # NoInum, ListedSoFar, NEW k \in 1 .. MaxFill, refs_readdir(k), UNCHANGED vars,
         dir' # NoInum
  PROVE  ListedSoFar'
<1> DEFINE new == {Dirent(dir, x) : x \in FirstPlaces(Rest(dir, offset), k)}
<1>1. TypeOK /\ dir \in Inum /\ offset \in Nat /\ k \in Nat \ {0}
  BY FillAssumption DEF TreeInd, Ind, ListedSoFar
<1>2. /\ Rest(dir, offset) # {}
      /\ offset' = Max({NextOffset(e) : e \in new})
      /\ listed' = listed \cup new
      /\ twice' = twice \cup (listed \cap new)
      /\ dir' = dir /\ stayed' = stayed
  BY DEF refs_readdir, NotListing
<1>3. Contents' = Contents
  BY DEF vars, Contents, Valid, Places, EntryAt, Dirent, IsDir
<1>4. IsDir(dir)
  BY <1>1, ContentsAre DEF ListedSoFar
<1>5. /\ offset' \in Nat
      /\ offset <= offset'
      /\ \A e \in Contents[dir] : e \in new <=> offset <= e.at /\ e.at < offset'
  BY <1>1, <1>2, <1>4, PieceIs
<1> HIDE DEF new, Contents
<1>6. \A e \in stayed : e.at \in Nat
  <2> TAKE e \in stayed
  <2>1. PICK x \in Valid(dir) : e = Dirent(dir, x)
    BY <1>1, <1>4 DEF ListedSoFar, Contents
  <2> QED
    BY <1>1, <2>1, ValidSlots DEF Dirent
<1>7. \A e \in stayed : /\ e \in Contents[dir]
                        /\ e \in listed <=> e.at < offset
                        /\ e \notin twice
  BY DEF ListedSoFar
<1>8. \A e \in stayed : /\ e \in listed' <=> e.at < offset'
                        /\ e \notin twice'
  BY <1>1, <1>2, <1>5, <1>6, <1>7
<1> QED
  BY <1>1, <1>2, <1>3, <1>5, <1>7, <1>8 DEF ListedSoFar

(* Creations and removals are requests of RefsFS. *)
LEMMA ChangeIsNext == Change => Next
BY DEF Change, Next

(* What a change leaves behind was not listed without having been reached. *)
LEMMA ChangeFollowed ==
  ASSUME dir # NoInum, ListedSoFar, FollowChange, dir' # NoInum
  PROVE  ListedSoFar'
<1>1. /\ Contents'[dir] # {}
      /\ stayed' = stayed \cap Contents'[dir]
      /\ dir' = dir /\ offset' = offset /\ listed' = listed /\ twice' = twice
  BY DEF FollowChange, NotListing
<1>2. Contents'[dir'] = Contents'[dir]
  BY <1>1
<1> HIDE DEF Contents
<1> QED
  BY <1>1, <1>2 DEF ListedSoFar

(* Every step of the reader and of the others keeps the invariant.         *)
LEMMA ListingNextInd ==
  ASSUME ListInd, [ListingNext]_listingVars
  PROVE  ListInd'
<1>1. [Next]_vars
  BY ChangeIsNext DEF ListingNext, listingVars
<1>2. TreeInd'
  BY <1>1, NextTreeInd DEF ListInd
<1>3. ASSUME dir' # NoInum PROVE ListedSoFar'
  <2>1. CASE Change /\ FollowChange
    <3>1. dir # NoInum
      BY <1>3, <2>1 DEF FollowChange, NotListing
    <3> QED
      BY <1>3, <2>1, <3>1, ChangeFollowed DEF ListInd
  <2>2. ASSUME NEW d \in Inum, StartListing(d), UNCHANGED vars PROVE ListedSoFar'
    BY <2>2, StartsListing DEF ListInd
  <2>3. ASSUME NEW k \in 1 .. MaxFill, refs_readdir(k), UNCHANGED vars PROVE ListedSoFar'
    <3>1. dir # NoInum
      BY <2>3 DEF refs_readdir
    <3> QED
      BY <1>3, <2>3, <3>1, GoesOn DEF ListInd
  <2>4. CASE UNCHANGED listingVars
    <3>1. UNCHANGED <<vars, dir, offset, listed, twice, stayed>>
      BY <2>4 DEF listingVars, readerVars
    <3>2. Contents' = Contents
      BY <3>1 DEF vars, Contents, Valid, Places, EntryAt, Dirent, IsDir
    <3> HIDE DEF Contents
    <3> QED
      BY <1>3, <3>1, <3>2 DEF ListInd, ListedSoFar
  <2> QED
    BY <2>1, <2>2, <2>3, <2>4 DEF ListingNext
<1> QED
  BY <1>2, <1>3 DEF ListInd

(* The last request of a listing finds everything listed. *)
LEMMA EndsWithAll ==
  ASSUME ListInd, [ListingNext]_listingVars, dir # NoInum, dir' = NoInum, UNCHANGED vars
  PROVE  stayed \subseteq listed /\ stayed \cap twice = {}
<1>1. ListedSoFar /\ TypeOK
  BY DEF ListInd, TreeInd, Ind
<1>2. Contents' = Contents
  BY DEF vars, Contents, Valid, Places, EntryAt, Dirent, IsDir
<1>3. ~ (Change /\ FollowChange)
  <2> HIDE DEF Contents
  <2> QED
    BY <1>1, <1>2 DEF FollowChange, ListedSoFar
<1>4. PICK k \in 1 .. MaxFill : refs_readdir(k)
  BY <1>3 DEF ListingNext, StartListing, listingVars, readerVars
<1>5. Rest(dir, offset) = {}
  BY <1>4 DEF refs_readdir
<1>6. \A e \in Contents[dir] : e.at < offset
  BY <1>1, <1>5, NoPieceIs, ContentsAre DEF ListedSoFar
<1> QED
  BY <1>1, <1>6 DEF ListedSoFar

-----------------------------------------------------------------------------
(* The theorems *)

(* The invariant holds of every listing beside every other request.        *)
LEMMA ListingInvariant == ListingSpec => []ListInd
<1>1. ListingInit => ListInd
  BY InitTree DEF ListingInit, ListInd
<1>2. ListInd /\ [ListingNext]_listingVars => ListInd'
  BY ListingNextInd
<1> QED
  BY <1>1, <1>2, PTL DEF ListingSpec

(* However a listing is cut into pieces, and whatever mkdir, mknod, rmdir  *)
(* and unlink do between two of them, at its end it has shown what was in  *)
(* the directory all the time, each entry once: refs_readdir goes on by    *)
(* the slot, and an entry keeps its slot.                                  *)
THEOREM ListingShowsWhatStayed == ListingSpec => ListsWhatStayed
<1>1. ListInd /\ [ListingNext]_listingVars
        => [dir # NoInum /\ dir' = NoInum /\ UNCHANGED vars =>
              stayed \subseteq listed /\ stayed \cap twice = {}]_listingVars
  BY EndsWithAll
<1> QED
  BY <1>1, ListingInvariant, PTL DEF ListingSpec, ListsWhatStayed

=============================================================================

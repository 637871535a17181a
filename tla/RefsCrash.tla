------------------------------ MODULE RefsCrash ------------------------------
(***************************************************************************)
(* RefsFS on its disk file.  The handlers of RefsFS change the bitmaps and *)
(* the inode table in memory and write parts of them, and the directory    *)
(* blocks, to the disk file as they go.  Here each handler also says which *)
(* blocks it writes in which order; they reach the disk one by one, and    *)
(* between any two of them the process may be killed.  refs_init then      *)
(* loads what is on the disk.                                              *)
(*                                                                         *)
(* The disk file is opened with O_SYNC and no handler overlaps another, so *)
(* the disk always holds the result of a prefix of the writes.  Writing    *)
(* one block, or the one or few blocks of a bitmap, is taken as atomic.    *)
(* The bytes of files and the pointers beyond the blocks of a file, which  *)
(* nothing reads, are left out.                                            *)
(***************************************************************************)
EXTENDS RefsFS, Sequences, FiniteSetsExt

CONSTANTS
  InodesPerBlock,  \* INODES_PER_BLOCK
  MaxMounts        \* bound: how often an existing disk file is mounted

ASSUME TableAssumption == /\ InodesPerBlock \in Nat \ {0}
                          /\ NumInodes % InodesPerBlock = 0
ASSUME MountsAssumption == MaxMounts \in Nat

VARIABLES
  disk,     \* the disk file: the contents of its blocks
  pending,  \* writes of the running handler that have not reached the disk
  inum,     \* inode_table[i].inode.inum
  cutting,  \* history: the file whose truncate to a smaller size is not all on disk
  mounts    \* history: mounts of an existing disk file

diskVars  == <<disk, pending, inum, cutting, mounts>>
crashVars == <<vars, diskVars>>

Layout == INSTANCE DiskLayout

-----------------------------------------------------------------------------
(* Disk blocks *)

Zero            == [kind |-> "zero"]                 \* a block never written
Super           == [kind |-> "super", super |-> Layout!init_super]
BitsBlock(bits) == [kind |-> "bits", bits |-> bits]
Entries(e)      == [kind |-> "entries", entries |-> e]
FileBytes       == [kind |-> "bytes"]

(* An inode on disk has its direct pointers and that of the indirect block; *)
(* the pointers behind it are in the indirect block.                        *)
OnDiskInode(r) == [r EXCEPT !.ptrs = [k \in 0 .. NumDirect - 1 |-> r.ptrs[k]]]

(* Positions in a block of inodes or of pointers. *)
Shelf    == 0 .. InodesPerBlock - 1
Ptr      == 0 .. PtrsPerBlock - 1

InodeBlock(table, nums, g) ==
  [kind   |-> "inodes",
   inodes |-> [j \in Shelf |-> OnDiskInode(table[g * InodesPerBlock + j])],
   nums   |-> [j \in Shelf |-> nums[g * InodesPerBlock + j]]]

(* The indirect block of r when k + 1 blocks of the file are in place. *)
IndirectBlock(r, k) ==
  [kind |-> "ptrs", ptrs |-> [l \in Ptr |-> IF l <= k - NumDirect THEN r.ptrs[NumDirect + l] ELSE NoBlock]]

Write(lba, block)      == [lba |-> lba, block |-> block]
DataWrite(b, block)    == Write(Layout!DataLba(b), block)
sync_inode_bitmap(bits) == Write(Layout!i_bitmap_start, BitsBlock(bits))
sync_data_bitmap(bits)  == Write(Layout!d_bitmap_start, BitsBlock(bits))

(* write_inode writes the block that inode i is in, with its neighbours as *)
(* they are in memory at that time.                                        *)
write_inode(table, i) ==
  Write(Layout!InodeLba(i), InodeBlock(table, inum, i \div InodesPerBlock))

-----------------------------------------------------------------------------
(* What refs_init loads from a disk file d.  The regions are where its     *)
(* superblock says.                                                        *)

NoDisk       == <<>>
ZeroDisk     == [a \in 0 .. Layout!DataLba(Scanned(NumDataBlocks)) |-> Zero]
Formatted(d) == d # NoDisk /\ d[Layout!SUPER_LBA].kind = "super"

SuperOf(d)  == d[Layout!SUPER_LBA].super
BitsAt(d, lba) == IF d[lba].kind = "bits" THEN d[lba].bits ELSE {}

LoadedInodeBitmap(d) == BitsAt(d, SuperOf(d).i_bitmap_start)
LoadedDataBitmap(d)  == BitsAt(d, SuperOf(d).d_bitmap_start)

TableBlockOf(d, i) == d[SuperOf(d).i_table_start + i \div InodesPerBlock]

(* A block of the table that was never written holds free inodes, and in   *)
(* each of them the number 0.                                              *)
LoadedNum(d, i) ==
  LET blk == TableBlockOf(d, i)
  IN  IF blk.kind = "inodes" THEN blk.nums[i % InodesPerBlock] ELSE 0

PointersOf(d, r) ==
  LET at       == IF r.blocks > NumDirect THEN d[SuperOf(d).d_region_start + r.indirect] ELSE Zero
      indirect == IF at.kind = "ptrs" THEN at.ptrs ELSE [l \in Ptr |-> NoBlock]
  IN  [k \in PtrIndex |-> IF k < NumDirect THEN r.ptrs[k]
                          ELSE IF k < r.blocks THEN indirect[k - NumDirect] ELSE NoBlock]

LoadedInode(d, i) ==
  LET blk == TableBlockOf(d, i)
      r   == blk.inodes[i % InodesPerBlock]
  IN  IF blk.kind = "inodes" THEN [r EXCEPT !.ptrs = PointersOf(d, r)] ELSE FreeInode

LoadedTable(d) == [i \in Inum |-> LoadedInode(d, i)]

(* What a reader of directory entries finds in the data blocks. *)
LoadedData(d) ==
  [b \in Block |->
     LET blk == d[SuperOf(d).d_region_start + b]
     IN  CASE blk.kind = "entries" -> blk.entries
           [] blk.kind = "zero"    -> EmptyBlock
           [] OTHER                -> OtherBlock]

(* The file system that is on the disk. *)
OnDisk == INSTANCE RefsFS WITH
            inodeBitmap <- LoadedInodeBitmap(disk),
            dataBitmap  <- LoadedDataBitmap(disk),
            inode       <- LoadedTable(disk),
            data        <- LoadedData(disk)

(* The inodes that edges lead to from the root, in as many steps as it     *)
(* takes.                                                                  *)
ReachedBy(edges) ==
  LET reached[k \in 0 .. NumInodes] ==
        IF k = 0 THEN {ROOT_INUM}
        ELSE LET near == reached[k - 1]
             IN  near \cup {e.node : e \in {f \in edges : f.parent \in near}}
  IN  reached[NumInodes]

(* The name space as a user can walk it. *)
WalkedTree(edges, dirs) ==
  LET live == ReachedBy(edges)
  IN  [edges |-> {e \in edges : e.parent \in live}, dirs |-> dirs \cap live]

(* In memory and on disk.  After a crash there may be inodes in use that   *)
(* no path leads to; no request is about them.                             *)
Reachable       == ReachedBy(Edges)
ReachableOnDisk == ReachedBy(OnDisk!Edges)

MemoryTree == WalkedTree(Edges, Directories)
TreeOnDisk == WalkedTree(OnDisk!Edges, OnDisk!Directories)

-----------------------------------------------------------------------------
(* refs_init, the end of the process, and the writes *)

(* Status of RefsFS, and                                                   *)
(*   "down"    no process: not mounted, unmounted or killed                *)
(*   "reused"  a creation was given the inode of a file or directory that  *)
(*             is there already                                            *)
(*   "torn"    mounted with a file whose blocks are marked free            *)
(* After the last two nothing is claimed, as after "undefined".            *)
CrashStatus == Status \cup {"down", "reused", "torn"}

Alive   == status \in {"up", "links_assert", "slots_assert"}
Serving == Up /\ pending = <<>>

(* No process, no memory. *)
Forget ==
  /\ inodeBitmap' = {}
  /\ dataBitmap' = {}
  /\ inode' = [i \in Inum |-> FreeInode]
  /\ data' = [b \in Block |-> OtherBlock]
  /\ inum' = [i \in Inum |-> 0]
  /\ status' = "down"
  /\ reply' = "OK"
  /\ UNCHANGED <<unlinked, mounts>>

RootBlock  == DirBlock(ROOT_INUM, ROOT_INUM)
RootTable  == [i \in Inum |-> IF i = ROOT_INUM THEN NewDirInode(0) ELSE FreeInode]
OwnNumbers == [i \in Inum |-> i]

alloc_root_dir_writes ==
  <<DataWrite(0, Entries(RootBlock)), sync_data_bitmap({0}),
    Write(Layout!InodeLba(ROOT_INUM), InodeBlock(RootTable, OwnNumbers, 0)),
    sync_inode_bitmap({ROOT_INUM})>>

write_super == Write(Layout!SUPER_LBA, Super)

(* Mutant: the superblock is written first. *)
SuperFirst == <<write_super>> \o alloc_root_dir_writes

format_writes == Append(alloc_root_dir_writes, write_super)

(* refs_init when there is no disk file.  Of the inode table only the      *)
(* block of the root is written.                                           *)
Format ==
  /\ status = "down"
  /\ disk = NoDisk
  /\ disk' = ZeroDisk
  /\ inodeBitmap' = {ROOT_INUM}
  /\ dataBitmap' = {0}
  /\ inode' = RootTable
  /\ data' = [data EXCEPT ![0] = RootBlock]
  /\ inum' = OwnNumbers
  /\ pending' = format_writes
  /\ status' = "up"
  /\ UNCHANGED <<unlinked, reply, cutting, mounts>>

(* Files and directories on disk with blocks that the data bitmap on disk  *)
(* says are free.                                                          *)
UnmarkedOnDisk == {i \in ReachableOnDisk : ~(OnDisk!Owned(i) \subseteq LoadedDataBitmap(disk))}

(* refs_init with a disk file.  A superblock of zeros asks for an inode    *)
(* table of no bytes, which alloc_inode_table then writes to.              *)
Mount ==
  /\ status = "down"
  /\ disk # NoDisk
  /\ mounts < MaxMounts
  /\ mounts' = mounts + 1
  /\ \/ /\ ~Formatted(disk)
        /\ status' = "undefined"
        /\ UNCHANGED <<fsVars, inum, cutting>>
     \/ /\ Formatted(disk)
        /\ inodeBitmap' = LoadedInodeBitmap(disk)
        /\ dataBitmap' = LoadedDataBitmap(disk)
        /\ inode' = LoadedTable(disk)
        /\ data' = LoadedData(disk)
        /\ inum' = [i \in Inum |-> LoadedNum(disk, i)]
        /\ status' = IF UnmarkedOnDisk = {} THEN "up" ELSE "torn"
        /\ cutting' = IF UnmarkedOnDisk = {} THEN NoInum ELSE cutting
        /\ UNCHANGED unlinked
  /\ UNCHANGED <<disk, pending, reply>>

(* The next write reaches the disk. *)
WriteOut ==
  /\ Alive
  /\ pending # <<>>
  /\ disk' = [disk EXCEPT ![Head(pending).lba] = Head(pending).block]
  /\ pending' = Tail(pending)
  /\ cutting' = IF Tail(pending) = <<>> THEN NoInum ELSE cutting
  /\ UNCHANGED <<vars, inum, mounts>>

(* The process is killed, or an assertion ends it. *)
Crash ==
  /\ Alive
  /\ Forget
  /\ pending' = <<>>
  /\ UNCHANGED <<disk, cutting>>

(* Unmounting writes nothing: fsync of a file opened with O_SYNC. *)
refs_destroy ==
  /\ Serving
  /\ Forget
  /\ UNCHANGED <<disk, pending, cutting>>

-----------------------------------------------------------------------------
(* The handlers and what they write *)

(* Mutant: sync_inode_bitmap is forgotten. *)
InodeBitForgotten(c, child, parent) ==
  (IF child.isDir
   THEN <<DataWrite(child.ptrs[0], Entries(DirBlock(c, parent))),
          sync_data_bitmap(dataBitmap \cup {child.ptrs[0]})>>
   ELSE <<>>)
  \o <<write_inode([inode EXCEPT ![c] = child], c)>>

(* initialize_dir_inode and initialize_reg_inode. *)
initialize_inode_writes(c, child, parent) ==
  (IF child.isDir
   THEN <<DataWrite(child.ptrs[0], Entries(DirBlock(c, parent))),
          sync_data_bitmap(dataBitmap \cup {child.ptrs[0]})>>
   ELSE <<>>)
  \o <<write_inode([inode EXCEPT ![c] = child], c), sync_inode_bitmap(inodeBitmap \cup {c})>>

(* Mutant: sync_data_bitmap is forgotten. *)
WithoutDataBitmap(p, table, new) == <<DataWrite(new, Entries(EmptyBlock)), write_inode(table, p)>>

(* first_available_dirnum, without and with a new block. *)
same_blocks_writes(p, table) == <<write_inode(table, p)>>
new_block_writes(p, table, new) ==
  <<DataWrite(new, Entries(EmptyBlock)), sync_data_bitmap(dataBitmap'), write_inode(table, p)>>

(* update_parent.  The entry is the last thing written: not even the link  *)
(* that a new directory adds to its parent follows it.                     *)
update_parent_writes(p, table) ==
  LET at    == OpenPlace(p)[1]
      home  == inode'[p].ptrs[at]
      entry == <<DataWrite(home, Entries(data'[home]))>>
  IN  CASE NoRoom(p)                  -> same_blocks_writes(p, table)
        [] NeedsBlock(p) /\ ~NoRoom(p) ->
             new_block_writes(p, [table EXCEPT ![p] = AddBlock(@, home)], home) \o entry
        [] OTHER                      -> same_blocks_writes(p, table) \o entry

(* Mutant: the entry is written before what it leads to. *)
EntryFirst(p, c, child) ==
  update_parent_writes(p, [inode EXCEPT ![c] = child]) \o initialize_inode_writes(c, child, p)

creation_writes(p, c, child) ==
  initialize_inode_writes(c, child, p) \o update_parent_writes(p, [inode EXCEPT ![c] = child])

(* Mutant: the parent is not written when it has lost a link. *)
ParentNotWritten(p, n) ==
  LET c    == inum_from_path(p, n)
      home == inode[p].ptrs[First(Hits(p, n))[1]]
  IN  <<DataWrite(home, Entries(WithoutEntry(p, n)[home])),
        write_inode(LessLink(inode, c), inum[c])>>

(* remove_child_abspath.  It takes the numbers of the two inodes from the  *)
(* inodes.                                                                 *)
removal_writes(p, n) ==
  LET c    == inum_from_path(p, n)
      home == inode[p].ptrs[First(Hits(p, n))[1]]
  IN  <<DataWrite(home, Entries(WithoutEntry(p, n)[home])),
        write_inode(LessLink(inode, p), inum[p]),
        write_inode(WithoutLinks(p, c), inum[c])>>

(* The first blocks of a file from a on that do_truncate adds, each        *)
(* written as zeros, and those that the indirect block points to, which is *)
(* written after each of them.                                             *)
direct_writes(r, a, b) == [j \in 1 .. b - a |-> DataWrite(r.ptrs[a + j - 1], FileBytes)]

indirect_writes(r, a, b) ==
  [j \in 1 .. 2 * (b - a) |->
     LET k == a + (j - 1) \div 2
     IN  IF j % 2 = 1 THEN DataWrite(r.ptrs[k], FileBytes)
         ELSE DataWrite(r.indirect, IndirectBlock(r, k))]

(* Mutant: the inode is written only when it gets blocks. *)
InodeWhenLonger(i, old, new, table, bits) ==
  direct_writes(new, old.blocks, Min({new.blocks, NumDirect}))
    \o indirect_writes(new, Max({old.blocks, NumDirect}), new.blocks)
    \o <<sync_data_bitmap(bits)>>
    \o (IF new.blocks > old.blocks THEN <<write_inode(table, i)>> ELSE <<>>)

(* do_truncate of inode i from the record old to the record new. *)
do_truncate_writes(i, old, new, table, bits) ==
  direct_writes(new, old.blocks, Min({new.blocks, NumDirect}))
    \o indirect_writes(new, Max({old.blocks, NumDirect}), new.blocks)
    \o <<sync_data_bitmap(bits), write_inode(table, i)>>

unlink_writes(p, n) ==
  LET c    == inum_from_path(p, n)
      left == WithoutLinks(p, c)
      none == [Shrunk(left[c], 0) EXCEPT !.size = 0]
  IN  removal_writes(p, n)
        \o do_truncate_writes(c, left[c], none, [left EXCEPT ![c] = none], dataBitmap \ Owned(c))

-----------------------------------------------------------------------------
(* Requests are about what a path leads to. *)
ServingAbout(i) == Serving /\ i \in Reachable

Creates(p, n) == inum_from_path(p, n) = NoInum
FreshInode    == reserve_inode \notin Reachable

(* The writes of a handler that returned an error are none. *)
ToDisk(writes) ==
  /\ pending' = IF status' \in {"overcommitted", "undefined"} THEN <<>> ELSE writes
  /\ UNCHANGED <<disk, inum, mounts>>

mkdir_to_disk(p, n) ==
  /\ ServingAbout(p)
  /\ Creates(p, n) => FreshInode
  /\ mkdir(p, n)
  /\ ToDisk(IF Creates(p, n)
            THEN creation_writes(p, reserve_inode, NewDirInode(NewBlocks(p, TRUE)[1])) ELSE <<>>)
  /\ UNCHANGED cutting

mknod_to_disk(p, n, w) ==
  /\ ServingAbout(p)
  /\ Creates(p, n) => FreshInode
  /\ mknod(p, n, w)
  /\ ToDisk(IF Creates(p, n) THEN creation_writes(p, reserve_inode, NewRegInode(w)) ELSE <<>>)
  /\ UNCHANGED cutting

(* A creation that reserve_inode gives an inode that is not free. *)
Reuse(p, n) ==
  /\ ServingAbout(p)
  /\ IsDir(p)
  /\ Creates(p, n)
  /\ ~FreshInode
  /\ status' = "reused"
  /\ UNCHANGED <<fsVars, reply, diskVars>>

(* release_inode clears the bit that the inode's own number says. *)
BitsOf(c) == {c, inum[c]}

rmdir_to_disk(p, n) ==
  LET c == inum_from_path(p, n)
  IN  /\ ServingAbout(p)
      /\ RemoveDir(p, n, IF c = NoInum THEN {} ELSE BitsOf(c))
      /\ ToDisk(IF c # NoInum /\ IsDir(c) /\ dir_isempty(c) THEN removal_writes(p, n) ELSE <<>>)
      /\ UNCHANGED cutting

unlink_to_disk(p, n) ==
  LET c == inum_from_path(p, n)
  IN  /\ ServingAbout(p)
      /\ RemoveFile(p, n, IF c = NoInum THEN {} ELSE BitsOf(c))
      /\ ToDisk(IF c # NoInum /\ ~IsDir(c) THEN unlink_writes(p, n) ELSE <<>>)
      /\ UNCHANGED cutting

(* chmod writes nothing. *)
chmod_to_disk(i, w) ==
  /\ ServingAbout(i)
  /\ chmod(i, w)
  /\ UNCHANGED diskVars

(* What a truncate of i writes, when it was allowed. *)
truncated(i) == do_truncate_writes(i, inode[i], inode'[i], inode', dataBitmap')

truncate_to_disk(i, sz) ==
  /\ ServingAbout(i)
  /\ truncate(i, sz)
  /\ ToDisk(IF inode[i].writable THEN truncated(i) ELSE <<>>)
  /\ cutting' = IF inode'[i].blocks < inode[i].blocks THEN i ELSE cutting

(* After a truncate if the file gets longer, do_write writes its blocks    *)
(* and the data bitmap with each.  No write is of no bytes.                *)
write_to_disk(i, end) ==
  /\ ServingAbout(i)
  /\ end > 0
  /\ write(i, end)
  /\ ToDisk(IF ~inode[i].writable THEN <<>>
            ELSE (IF end > inode[i].size THEN truncated(i) ELSE <<>>)
                   \o <<sync_data_bitmap(dataBitmap')>>)
  /\ UNCHANGED cutting

CrashInit ==
  /\ inodeBitmap = {}
  /\ dataBitmap = {}
  /\ inode = [i \in Inum |-> FreeInode]
  /\ data = [b \in Block |-> OtherBlock]
  /\ unlinked = [i \in Inum |-> 0]
  /\ status = "down"
  /\ reply = "OK"
  /\ disk = NoDisk
  /\ pending = <<>>
  /\ inum = [i \in Inum |-> 0]
  /\ cutting = NoInum
  /\ mounts = 0

CrashNext ==
  \/ Format
  \/ Mount
  \/ WriteOut
  \/ Crash
  \/ refs_destroy
  \/ \E p \in Inum, n \in Names : mkdir_to_disk(p, n)
  \/ \E p \in Inum, n \in Names, w \in Perms : mknod_to_disk(p, n, w)
  \/ \E p \in Inum, n \in Names : Reuse(p, n)
  \/ \E p \in Inum, n \in Names : rmdir_to_disk(p, n)
  \/ \E p \in Inum, n \in Names : unlink_to_disk(p, n)
  \/ \E i \in Inum, w \in Perms : chmod_to_disk(i, w)
  \/ \E i \in Inum, sz \in Sizes : truncate_to_disk(i, sz)
  \/ \E i \in Inum, end \in Sizes : write_to_disk(i, end)

CrashSpec == CrashInit /\ [][CrashNext]_crashVars

-----------------------------------------------------------------------------
(* Properties *)

CrashTypeOK ==
  /\ inode \in [Inum -> InodeType]
  /\ inodeBitmap \subseteq 0 .. Scanned(NumInodes) - 1
  /\ dataBitmap \subseteq Block
  /\ status \in CrashStatus
  /\ inum \in [Inum -> Inum]
  /\ cutting \in Inum \cup {NoInum}
  /\ \A k \in DOMAIN pending : pending[k].lba \in DOMAIN disk

(* What an entry leads to is there.  At every moment, so after any crash,  *)
(* everything that can be reached on the disk, the root first, is an inode *)
(* in use, and the bitmap of the inodes there says so: also of the root,   *)
(* whose bit rmdir and unlink may clear in memory.  It takes a superblock  *)
(* that is written last, and an inode and its bit that are written before  *)
(* the entry and outlive it.                                               *)
NothingDangles ==
  Formatted(disk) =>
    \A i \in ReachableOnDisk : LoadedInode(disk, i).inUse /\ i \in LoadedInodeBitmap(disk)

(* At every moment the blocks of all that can be reached on the disk are   *)
(* marked there and are held once, so a remount after a crash hands none   *)
(* of them out again.  The exception is a file in the middle of a truncate *)
(* to a smaller size: its blocks are marked free before it has lost them,  *)
(* but nobody else has got them yet.                                       *)
BlocksSafeOnDisk ==
  Formatted(disk) =>
    /\ UnmarkedOnDisk \subseteq {cutting}
    /\ \A i, j \in ReachableOnDisk :
         i # j => OnDisk!Owned(i) \cap OnDisk!Owned(j) = {}

(* A crash shows a request entirely or not at all: each write leaves the   *)
(* name space on the disk as it was, or makes it that of the memory, which *)
(* has the whole request.                                                  *)
AtomicOnDisk ==
  [][Formatted(disk) /\ disk' # disk => TreeOnDisk' \in {TreeOnDisk, MemoryTree}]_crashVars

(* What is lost when a process ends between two requests. *)
Durable(r) == [r EXCEPT !.nLinks = 0, !.writable = FALSE]

(* Once a request has returned, the disk has its result: name space, sizes *)
(* and blocks.  What may be missing are link counts and permissions.       *)
ReturnedIsDurable ==
  Serving =>
    /\ TreeOnDisk = MemoryTree
    /\ \A i \in Reachable : Durable(LoadedInode(disk, i)) = Durable(inode[i])

(* The disk lacks at most the link of the last directory created in a      *)
(* directory, as long as the inodes have their numbers: the next update of *)
(* the parent writes the link before it adds another.                      *)
LinksOneBehind ==
  Serving /\ inum = OwnNumbers =>
    \A i \in Reachable :
      LET saved == LoadedInode(disk, i).nLinks
      IN  inode[i].nLinks \in {saved, IncLinks(saved)}

-----------------------------------------------------------------------------
(* What a comment says, and the code does not. *)

(* reserve_inode "allocates an unused inode". *)
ReservesUnusedInode == status # "reused"

=============================================================================

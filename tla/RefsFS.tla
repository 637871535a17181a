------------------------------- MODULE RefsFS -------------------------------
(***************************************************************************)
(* The core of ReFS (refs.c): inode table, the two allocation bitmaps,     *)
(* directory blocks, and the handlers of refs_operations that change them. *)
(*                                                                         *)
(* The file system is mounted with -s, so libfuse runs one handler at a    *)
(* time and a handler is one step.  The kernel has resolved the path of a  *)
(* request up to its last component before it calls a handler, so a        *)
(* handler gets the directory p and the name n in it (resolve_path finds   *)
(* the same p).  Where a handler needs an existing file the kernel has     *)
(* looked the file up.                                                     *)
(*                                                                         *)
(* The bytes of regular files are left out: `data' holds the entries of    *)
(* directory blocks.  What the disk holds in the middle of a handler is    *)
(* left to a module of its own.                                            *)
(***************************************************************************)
EXTENDS Bitmap

CONSTANTS
  Names,            \* names a request may use for a file or directory
  NumInodes,        \* super.num_inodes
  NumDataBlocks,    \* super.num_data_blocks
  DirentsPerBlock,  \* DIRENTS_PER_BLOCK
  NumDirect,        \* NUM_DIRECT
  PtrsPerBlock,     \* block pointers in the one indirect block
  BlockSize,        \* BLOCK_SIZE
  LinkModulus,      \* n_links is a uint16_t: 2^16 in the code
  Sizes,            \* bound: file sizes a truncate or a write asks for
  Perms             \* bound: values of the writable bit that mknod and chmod ask for

ASSUME NamesAssumption     == Names \cap {"", ".", "..", "?"} = {}
ASSUME InodesAssumption    == NumInodes \in Nat \ {0}
ASSUME BlocksAssumption    == NumDataBlocks \in Nat \ {0}
ASSUME DirentsAssumption   == DirentsPerBlock \in Nat /\ DirentsPerBlock >= 2
ASSUME PointersAssumption  == NumDirect \in Nat \ {0} /\ PtrsPerBlock \in Nat \ {0}
ASSUME BlockSizeAssumption == BlockSize \in Nat \ {0}
ASSUME LinksAssumption     == LinkModulus \in Nat /\ LinkModulus > 2
ASSUME SizesAssumption     == \A sz \in Sizes : sz \in Nat
ASSUME PermsAssumption     == Perms \subseteq BOOLEAN

VARIABLES
  inodeBitmap,  \* inode_bitmap: the set of its bits that are 1
  dataBitmap,   \* data_bitmap
  inode,        \* inode_table
  data,         \* the data blocks, as directories see them
  status,       \* of the process: see Status
  reply,        \* what the last handler returned to the kernel
  unlinked      \* history: regular files unlinked from a directory, mod LinkModulus

fsVars == <<inodeBitmap, dataBitmap, inode, data, unlinked>>
vars   == <<inodeBitmap, dataBitmap, inode, data, unlinked, status, reply>>

-----------------------------------------------------------------------------
ROOT_INUM == 0
Inum      == 0 .. NumInodes - 1
NoInum    == -1

(* Data blocks are numbered from d_region_start.  A search that fails or   *)
(* ends in the last byte hands out numbers past the valid ones.            *)
Block   == 0 .. Scanned(NumDataBlocks)
NoBlock == -1

Slot          == 0 .. DirentsPerBlock - 1
MaxFileBlocks == NumDirect + PtrsPerBlock
PtrIndex      == 0 .. MaxFileBlocks - 1

NoEntry == [name |-> "", inum |-> ROOT_INUM]      \* is_valid = 0

EmptyBlock == [s \in Slot |-> NoEntry]            \* calloc_blocks(1)

(* What a block that no directory holds looks like to a reader that takes  *)
(* it for a directory: file bytes, or whatever its last owner left there.  *)
OtherBlock == [s \in Slot |-> [name |-> "?", inum |-> NoInum]]

(* Mutant: every directory gets the ".." of a child of the root. *)
DirBlockOfRootChild(self, parent) ==
  [EmptyBlock EXCEPT ![0] = [name |-> ".",  inum |-> self],
                     ![1] = [name |-> "..", inum |-> ROOT_INUM]]

DirBlock(self, parent) ==
  [EmptyBlock EXCEPT ![0] = [name |-> ".",  inum |-> self],
                     ![1] = [name |-> "..", inum |-> parent]]

(* A free inode keeps its old mode and pointers, which nothing reads       *)
(* before reserve_inode hands the inode out again: they are reset here.    *)
(* ptrs[k] is the address of the k-th block of the file, from block_ptrs   *)
(* below NumDirect and from the indirect block above.                      *)
FreeInode ==
  [inUse |-> FALSE, isDir |-> FALSE, writable |-> FALSE, nLinks |-> 0,
   size |-> 0, blocks |-> 0, indirect |-> NoBlock,
   ptrs |-> [k \in PtrIndex |-> NoBlock]]

NewDirInode(b) ==
  [inUse |-> TRUE, isDir |-> TRUE, writable |-> FALSE, nLinks |-> 2,
   size |-> BlockSize, blocks |-> 1, indirect |-> NoBlock,
   ptrs |-> [k \in PtrIndex |-> IF k = 0 THEN b ELSE NoBlock]]

NewRegInode(w) ==
  [inUse |-> TRUE, isDir |-> FALSE, writable |-> w, nLinks |-> 1,
   size |-> 0, blocks |-> 0, indirect |-> NoBlock,
   ptrs |-> [k \in PtrIndex |-> NoBlock]]

(* Mutants: the count does not follow, or does not wrap around. *)
LinksUnchanged(l)  == l
DecLinksNoWrap(l)  == l - 1
IncLinksNoWrap(l)  == l + 1

(* n_links++ and n_links-- on a uint16_t. *)
IncLinks(l) == (l + 1) % LinkModulus
DecLinks(l) == (l + LinkModulus - 1) % LinkModulus

-----------------------------------------------------------------------------
(* Directories *)

IsDir(i)  == inode[i].inUse /\ inode[i].isDir
IsFile(i) == inode[i].inUse /\ ~inode[i].isDir

Directories == {i \in Inum : IsDir(i)}
Files       == {i \in Inum : IsFile(i)}

(* An entry is found at <<block of the directory, slot in that block>>. *)
Places(d) == (0 .. inode[d].blocks - 1) \X Slot
EntryAt(d, x) == data[inode[d].ptrs[x[1]]][x[2]]

(* The first place in the order the nested loops visit them. *)
First(places) ==
  CHOOSE x \in places :
    \A y \in places : x[1] < y[1] \/ (x[1] = y[1] /\ x[2] <= y[2])

Hits(d, n)    == {x \in Places(d) : EntryAt(d, x).name = n}
FreePlaces(d) == {x \in Places(d) : EntryAt(d, x) = NoEntry}

(* Mutant: only the first block of a directory is searched. *)
InumFromFirstBlock(d, n) ==
  LET hits == {x \in Hits(d, n) : x[1] = 0}
  IN  IF hits = {} THEN NoInum ELSE EntryAt(d, First(hits)).inum

inum_from_path(d, n) ==
  IF Hits(d, n) = {} THEN NoInum ELSE EntryAt(d, First(Hits(d, n))).inum

(* Mutant: a directory counts as empty when its link count is that of one. *)
EmptyByLinks(d) == inode[d].nLinks <= 2

dir_isempty(d) ==
  \A x \in Places(d) : EntryAt(d, x) = NoEntry \/ EntryAt(d, x).name \in {".", ".."}

(* The blocks of an inode at the positions ks, and all it holds, its       *)
(* indirect block included.                                                *)
BlocksAt(r, ks) == {r.ptrs[k] : k \in ks}

Held(r) ==
  BlocksAt(r, 0 .. r.blocks - 1) \cup (IF r.blocks > NumDirect THEN {r.indirect} ELSE {})

Owned(i) == Held(inode[i])

-----------------------------------------------------------------------------
(* Allocation *)

(* Mutant: set_bit is forgotten between two searches. *)
SameBlockEachTime(m) ==
  [k \in 1 .. m |-> FirstUnset(dataBitmap, NumDataBlocks)]

(* What m calls of reserve_data_block in one handler return. *)
reserve_data_blocks(m) ==
  [k \in 1 .. m |-> NthUnset(dataBitmap, NumDataBlocks, k)]

BlocksIn(got) == {got[k] : k \in DOMAIN got}

reserve_inode == FirstUnset(inodeBitmap, NumInodes)

(* Status of the process.                                                  *)
(*   "up"            serving requests                                      *)
(*   "links_assert"  stopped by assert(ino->n_links <= 1)                  *)
(*   "slots_assert"  stopped by assert(ret == 0) in update_parent          *)
(*   "overcommitted" a block was handed out that was in use already        *)
(*   "undefined"     memory outside inode_table or the pointer block was   *)
(*                   accessed                                              *)
(* A stopped process serves nothing.  After the last two the program goes  *)
(* on, but nothing is claimed about it: the model ends there.              *)
Status == {"up", "links_assert", "slots_assert", "overcommitted", "undefined"}

Replies == {"OK", "EEXIST", "ENOENT", "ENOTDIR", "EISDIR", "ENOTEMPTY", "EACCES"}

Up == status = "up"

Return(r) == reply' = r
Refuse(r) == Return(r) /\ UNCHANGED <<fsVars, status>>

(* The handler does not come back: the process has left defined behaviour. *)
Undefined == status' = "undefined" /\ UNCHANGED <<fsVars, reply>>

(* reserve_data_block does not look whether the search failed. *)
AfterReserving(got) ==
  IF \E k \in DOMAIN got : got[k] \in dataBitmap \/ \E j \in 1 .. k - 1 : got[j] = got[k]
  THEN "overcommitted" ELSE "up"

-----------------------------------------------------------------------------
(* Creation: mkdir, mknod and create *)

(* first_available_dirnum: a directory without a free entry is given one   *)
(* more block, unless it has NumDirect of them already.                    *)
NeedsBlock(p) == FreePlaces(p) = {}
NoRoom(p)     == NeedsBlock(p) /\ inode[p].blocks >= NumDirect
OpenPlace(p)  == IF NeedsBlock(p) THEN <<inode[p].blocks, 0>> ELSE First(FreePlaces(p))

AddBlock(r, b) == [r EXCEPT !.ptrs[r.blocks] = b, !.blocks = @ + 1]

(* The blocks a creation in p reserves: one for a new directory, then one  *)
(* for p if it needs and may have it.                                      *)
ForChild(isDir) == IF isDir THEN 1 ELSE 0
ForParent(p)    == IF NeedsBlock(p) /\ ~NoRoom(p) THEN 1 ELSE 0
NewBlocks(p, isDir) == reserve_data_blocks(ForChild(isDir) + ForParent(p))

(* The child was allocated and written to disk before assert(ret == 0)     *)
(* ends the process: over another owner's block, if that was handed out.   *)
StopForRoom(c, child, contents, got) ==
  /\ status' = IF AfterReserving(got) = "up" THEN "slots_assert" ELSE AfterReserving(got)
  /\ inodeBitmap' = inodeBitmap \cup {c}
  /\ dataBitmap' = dataBitmap \cup BlocksIn(got)
  /\ inode' = [inode EXCEPT ![c] = child]
  /\ data' = contents
  /\ UNCHANGED <<unlinked, reply>>

(* What becomes of the parent: only a directory adds a link to it. *)
WithChild(p, isDir, got) ==
  LET r == IF NeedsBlock(p) THEN AddBlock(inode[p], got[ForChild(isDir) + 1]) ELSE inode[p]
  IN  [r EXCEPT !.nLinks = IF isDir THEN IncLinks(@) ELSE @]

(* update_parent, after the new inode c got the record child and the data  *)
(* blocks the given contents.                                              *)
Link(p, n, c, child, contents, got) ==
  LET parent == WithChild(p, child.isDir, got)
      x      == OpenPlace(p)
      home   == parent.ptrs[x[1]]
      before == IF NeedsBlock(p) THEN EmptyBlock ELSE contents[home]
  IN  /\ status' = AfterReserving(got)
      /\ inodeBitmap' = inodeBitmap \cup {c}
      /\ dataBitmap' = dataBitmap \cup BlocksIn(got)
      /\ inode' = [inode EXCEPT ![c] = child, ![p] = parent]
      /\ data' = [contents EXCEPT ![home] = [before EXCEPT ![x[2]] = [name |-> n, inum |-> c]]]
      /\ Return("OK")
      /\ UNCHANGED unlinked

(* update_parent comes last, whether there is room or not. *)
CreateIn(p, n, child, contents, got) ==
  LET c == reserve_inode
  IN  \/ /\ c >= NumInodes
         /\ Undefined
      \/ /\ c < NumInodes
         /\ NoRoom(p)
         /\ StopForRoom(c, child, contents, got)
      \/ /\ c < NumInodes
         /\ ~NoRoom(p)
         /\ Link(p, n, c, child, contents, got)

mkdir(p, n) ==
  LET got      == NewBlocks(p, TRUE)
      contents == [data EXCEPT ![got[1]] = DirBlock(reserve_inode, p)]
  IN  /\ Up /\ IsDir(p)
      /\ \/ /\ inum_from_path(p, n) # NoInum
            /\ Refuse("EEXIST")
         \/ /\ inum_from_path(p, n) = NoInum
            /\ CreateIn(p, n, NewDirInode(got[1]), contents, got)

(* create calls mknod. *)
mknod(p, n, w) ==
  /\ Up /\ IsDir(p)
  /\ \/ /\ inum_from_path(p, n) # NoInum
        /\ Refuse("EEXIST")
     \/ /\ inum_from_path(p, n) = NoInum
        /\ CreateIn(p, n, NewRegInode(w), data, NewBlocks(p, FALSE))

-----------------------------------------------------------------------------
(* Removal: unlink and rmdir *)

(* Mutant: is_valid is not cleared. *)
EntryKept(p, n) == data

(* remove_child_abspath: clears is_valid of the entry for n in p, and      *)
(* takes a link from the parent and one from the child, whatever the child *)
(* is.                                                                     *)
WithoutEntry(p, n) ==
  LET x == First(Hits(p, n)) IN [data EXCEPT ![inode[p].ptrs[x[1]]][x[2]] = NoEntry]

LessLink(table, i) == [table EXCEPT ![i].nLinks = DecLinks(@)]

WithoutLinks(p, c) == LessLink(LessLink(inode, p), c)

(* Mutant: neither call clears a bit. *)
BitsKept(bits) == UNCHANGED inodeBitmap

(* The two calls of clear_bit for an inode: its handler clears the bit of  *)
(* its index in the table, release_inode the bit that its field inum says. *)
ReleaseBits(bits) == inodeBitmap' = inodeBitmap \ bits

(* Mutant: only the block that mkdir gave the directory is released. *)
FirstDirBlock(d) == BlocksAt(inode[d], {0})

(* What rmdir releases: the blocks at the first positions, no indirect one. *)
DirBlocks(d) == BlocksAt(inode[d], 0 .. inode[d].blocks - 1)

(* rmdir frees the bit and the blocks of the child before release_inode    *)
(* looks at its link count.                                                *)
RemoveDir(p, n, bits) ==
  LET c    == inum_from_path(p, n)
      left == WithoutLinks(p, c)
  IN  /\ Up /\ IsDir(p)
      /\ \/ /\ c = NoInum
            /\ Refuse("ENOENT")
         \/ /\ c # NoInum
            /\ ~IsDir(c)
            /\ Refuse("ENOTDIR")
         \/ /\ c # NoInum
            /\ IsDir(c)
            /\ ~dir_isempty(c)
            /\ Refuse("ENOTEMPTY")
         \/ /\ c # NoInum
            /\ IsDir(c)
            /\ dir_isempty(c)
            /\ data' = [b \in Block |-> IF b \in DirBlocks(c) THEN OtherBlock ELSE WithoutEntry(p, n)[b]]
            /\ ReleaseBits(bits)
            /\ dataBitmap' = dataBitmap \ DirBlocks(c)
            /\ unlinked' = [unlinked EXCEPT ![c] = 0]
            /\ IF left[c].nLinks <= 1
               THEN inode' = [left EXCEPT ![c] = FreeInode] /\ Return("OK") /\ UNCHANGED status
               ELSE inode' = left /\ status' = "links_assert" /\ UNCHANGED reply

(* alloc_inode_table gave every inode its index as inum. *)
rmdir(p, n) == RemoveDir(p, n, {inum_from_path(p, n)})

(* A file with links left would stay, but no handler gives a file a second *)
(* one; the others are truncated to nothing first, which frees their       *)
(* blocks.                                                                 *)
RemoveFile(p, n, bits) ==
  LET c    == inum_from_path(p, n)
      left == WithoutLinks(p, c)
  IN  /\ Up /\ IsDir(p)
      /\ \/ /\ c # NoInum
            /\ IsDir(c)
            /\ Refuse("EISDIR")
         \/ /\ c # NoInum
            /\ ~IsDir(c)
            /\ data' = WithoutEntry(p, n)
            /\ IF left[c].nLinks = 0
               THEN /\ inode' = [left EXCEPT ![c] = FreeInode]
                    /\ ReleaseBits(bits)
                    /\ dataBitmap' = dataBitmap \ Owned(c)
               ELSE inode' = left /\ UNCHANGED <<inodeBitmap, dataBitmap>>
            /\ unlinked' = [unlinked EXCEPT ![p] = (@ + 1) % LinkModulus]
            /\ Return("OK")
            /\ UNCHANGED status

unlink(p, n) == RemoveFile(p, n, {inum_from_path(p, n)})

-----------------------------------------------------------------------------
(* Files: chmod, truncate and write *)

(* What a directory's permission bits allow, nothing here asks. *)
chmod(i, w) ==
  /\ Up /\ IsFile(i)
  /\ inode' = [inode EXCEPT ![i].writable = w]
  /\ Return("OK")
  /\ UNCHANGED <<inodeBitmap, dataBitmap, data, unlinked, status>>

BlocksFor(sz) == (sz + BlockSize - 1) \div BlockSize

(* Mutant: a file of exactly NumDirect blocks gets no indirect block. *)
NeedsIndirectLate(r, count) == r.blocks < NumDirect /\ count > NumDirect

(* A file that gets its first block beyond NumDirect gets an indirect      *)
(* block just before it.                                                   *)
NeedsIndirect(r, count) == r.blocks <= NumDirect /\ count > NumDirect

(* Mutant: the indirect block is never given back. *)
ReleasedButIndirect(r, count) == BlocksAt(r, count .. r.blocks - 1)

(* What a shorter file gives back: its indirect block with the first block *)
(* beyond NumDirect.                                                       *)
Released(r, count) ==
  BlocksAt(r, count .. r.blocks - 1)
    \cup (IF r.blocks > NumDirect /\ count <= NumDirect THEN {r.indirect} ELSE {})

(* Mutant: every shorter file loses its indirect block. *)
ShrunkToDirect(r, count) ==
  [r EXCEPT !.blocks = count,
            !.indirect = NoBlock,
            !.ptrs = [k \in PtrIndex |-> IF k < count THEN @[k] ELSE NoBlock]]

Shrunk(r, count) ==
  [r EXCEPT !.blocks = count,
            !.indirect = IF count > NumDirect THEN @ ELSE NoBlock,
            !.ptrs = [k \in PtrIndex |-> IF k < count THEN @[k] ELSE NoBlock]]

(* Mutant: the first block beyond NumDirect is the indirect block itself. *)
TurnLate(r, count, k) ==
  k - r.blocks + 1 + (IF NeedsIndirect(r, count) /\ k > NumDirect THEN 1 ELSE 0)

(* Which of the blocks reserved becomes the block at position k. *)
Turn(r, count, k) ==
  k - r.blocks + 1 + (IF NeedsIndirect(r, count) /\ k >= NumDirect THEN 1 ELSE 0)

Grown(r, count, got) ==
  [r EXCEPT !.blocks = count,
            !.indirect = IF NeedsIndirect(r, count) THEN got[NumDirect - r.blocks + 1] ELSE @,
            !.ptrs = [k \in PtrIndex |-> IF k \in r.blocks .. count - 1
                                         THEN got[Turn(r, count, k)] ELSE @[k]]]

do_truncate(i, sz) ==
  LET old   == inode[i]
      count == BlocksFor(sz)
      fewer == Shrunk(old, count)
      got   == reserve_data_blocks(count - old.blocks
                                     + (IF NeedsIndirect(old, count) THEN 1 ELSE 0))
      more  == Grown(old, count, got)
  IN  \/ /\ count = old.blocks
         /\ inode' = [inode EXCEPT ![i].size = sz]
         /\ Return("OK")
         /\ UNCHANGED <<inodeBitmap, dataBitmap, data, unlinked, status>>
      \/ /\ count < old.blocks
         /\ inode' = [inode EXCEPT ![i] = [fewer EXCEPT !.size = sz]]
         /\ dataBitmap' = dataBitmap \ Released(old, count)
         /\ Return("OK")
         /\ UNCHANGED <<inodeBitmap, data, unlinked, status>>
      \/ /\ count > MaxFileBlocks
         /\ Undefined
      \/ /\ old.blocks < count
         /\ count <= MaxFileBlocks
         /\ inode' = [inode EXCEPT ![i] = [more EXCEPT !.size = sz]]
         /\ dataBitmap' = dataBitmap \cup BlocksIn(got)
         /\ status' = AfterReserving(got)
         /\ Return("OK")
         /\ UNCHANGED <<inodeBitmap, data, unlinked>>

truncate(i, sz) ==
  /\ Up /\ IsFile(i)
  /\ \/ ~inode[i].writable /\ Refuse("EACCES")
     \/ inode[i].writable /\ do_truncate(i, sz)

(* A write up to byte end of the file.  do_write changes file bytes only. *)
write(i, end) ==
  /\ Up /\ IsFile(i)
  /\ \/ ~inode[i].writable /\ Refuse("EACCES")
     \/ /\ inode[i].writable
        /\ end > inode[i].size
        /\ do_truncate(i, end)
     \/ /\ inode[i].writable
        /\ end <= inode[i].size
        /\ Refuse("OK")

-----------------------------------------------------------------------------
(* refs_init without a disk file: alloc_root_dir. *)
Init ==
  /\ inodeBitmap = {ROOT_INUM}
  /\ dataBitmap = {0}
  /\ inode = [i \in Inum |-> IF i = ROOT_INUM THEN NewDirInode(0) ELSE FreeInode]
  /\ data = [b \in Block |-> IF b = 0 THEN DirBlock(ROOT_INUM, ROOT_INUM) ELSE OtherBlock]
  /\ unlinked = [i \in Inum |-> 0]
  /\ status = "up"
  /\ reply = "OK"

Next ==
  \/ \E p \in Inum, n \in Names : mkdir(p, n)
  \/ \E p \in Inum, n \in Names, w \in Perms : mknod(p, n, w)
  \/ \E p \in Inum, n \in Names : rmdir(p, n)
  \/ \E p \in Inum, n \in Names : unlink(p, n)
  \/ \E i \in Inum, w \in Perms : chmod(i, w)
  \/ \E i \in Inum, sz \in Sizes : truncate(i, sz)
  \/ \E i \in Inum, end \in Sizes : write(i, end)

Spec == Init /\ [][Next]_vars

-----------------------------------------------------------------------------
(* Properties *)

InUse == {i \in Inum : inode[i].inUse}

EntryType == [name : Names \cup {"", ".", "..", "?"}, inum : Inum \cup {NoInum}]

InodeType ==
  [inUse : BOOLEAN, isDir : BOOLEAN, writable : BOOLEAN, nLinks : 0 .. LinkModulus - 1,
   size : Nat, blocks : 0 .. MaxFileBlocks, indirect : Block \cup {NoBlock},
   ptrs : [PtrIndex -> Block \cup {NoBlock}]]

TypeOK ==
  /\ inodeBitmap \subseteq 0 .. Scanned(NumInodes) - 1
  /\ dataBitmap \subseteq Block
  /\ inode \in [Inum -> InodeType]
  /\ data \in [Block -> [Slot -> EntryType]]
  /\ status \in Status
  /\ reply \in Replies
  /\ unlinked \in [Inum -> 0 .. LinkModulus - 1]

(* The allocation map of the inodes tells the truth: the bits that are 1   *)
(* are those of the inodes in use.  mkdir, mknod, rmdir and unlink each    *)
(* change both in separate statements, on several paths.                   *)
InodeBitmapMatches == Up => inodeBitmap = InUse

(* The allocation map of the blocks tells the truth: the bits that are 1   *)
(* are those of the blocks some inode in use holds, so no block leaks and  *)
(* none is handed out under its owner, through any order of creations,     *)
(* removals, truncates and writes with or without an indirect block.       *)
DataBitmapMatches == Up => dataBitmap = UNION {Owned(i) : i \in InUse}

(* The addresses an inode holds are pairwise different. *)
HoldsDistinct(r) ==
  /\ \A k, l \in 0 .. r.blocks - 1 : k # l => r.ptrs[k] # r.ptrs[l]
  /\ r.blocks > NumDirect => \A k \in 0 .. r.blocks - 1 : r.ptrs[k] # r.indirect

(* No data block is held twice: not by two inodes, not at two places of    *)
(* one file, and no file block is also an indirect block.                  *)
NoBlockShared ==
  Up =>
    /\ \A i, j \in InUse : i # j => Owned(i) \cap Owned(j) = {}
    /\ \A i \in InUse : HoldsDistinct(inode[i])

FitsSize(r) ==
  /\ ~r.isDir => r.blocks = BlocksFor(r.size)
  /\ r.isDir => r.blocks \in 1 .. NumDirect
  /\ (r.indirect # NoBlock) <=> (r.blocks > NumDirect)

(* The blocks do_truncate left to a file are those its size calls for, and *)
(* there is an indirect block exactly beyond NumDirect blocks; a directory *)
(* has its first block and no indirect one.                                *)
BlocksFitSize == Up => \A i \in InUse : FitsSize(inode[i])

-----------------------------------------------------------------------------

(* The named entries of all directories, as edges of the name space. *)
Edges ==
  UNION {{[parent |-> d, name |-> EntryAt(d, x).name, node |-> EntryAt(d, x).inum] :
            x \in {y \in Places(d) : EntryAt(d, y) # NoEntry
                                       /\ EntryAt(d, y).name \notin {".", ".."}}} :
         d \in Directories}

(* Every file and directory but the root is found under one name in one    *)
(* directory, a name is used once in a directory, and no entry is left     *)
(* that leads to a free inode: removal never leaves a dangling entry and   *)
(* creation never an orphan.                                               *)
OneEntryEach ==
  Up =>
    /\ \A d \in Directories, n \in Names : Cardinality(Hits(d, n)) <= 1
    /\ \A i \in InUse \ {ROOT_INUM} : Cardinality({e \in Edges : e.node = i}) = 1
    /\ \A e \in Edges : e.node \in InUse \ {ROOT_INUM}

ParentOf(d) == inum_from_path(d, "..")

(* "." leads to the directory itself and ".." to the directory that holds  *)
(* its entry (the root: to itself).                                        *)
DotsLeadHome ==
  Up => \A d \in Directories :
    /\ inum_from_path(d, ".") = d
    /\ IF d = ROOT_INUM THEN ParentOf(d) = ROOT_INUM
       ELSE \E n \in Names : [parent |-> ParentOf(d), name |-> n, node |-> d] \in Edges

(* No directories hold each other in a circle cut off from the root:       *)
(* following ".." leaves every set of directories without the root.        *)
NoCutOffCircle ==
  Up => \A S \in SUBSET (Directories \ {ROOT_INUM}) :
    S # {} => \E d \in S : ParentOf(d) \notin S

(* The link count of a directory is 2 for itself and 1 for each directory  *)
(* in it, less 1 for each regular file ever unlinked from it, as 16-bit    *)
(* arithmetic has it; a file has one link.                                 *)
LinkCounts ==
  Up => \A i \in InUse :
    inode[i].nLinks =
      IF IsFile(i) THEN 1
      ELSE LET subdirs == {e \in Edges : e.parent = i /\ IsDir(e.node)}
           IN  (2 + Cardinality(subdirs) + LinkModulus - unlinked[i]) % LinkModulus

(* A block in use is handed out again only when every valid block is taken *)
(* before or during the request.                                           *)
OvercommitOnlyWhenFull ==
  status = "overcommitted" => 0 .. NumDataBlocks - 1 \subseteq dataBitmap

(* s has the blocks of r at their places in r, up to the shorter length. *)
InPlace(r, s) ==
  /\ \A k \in PtrIndex : k < r.blocks /\ k < s.blocks => s.ptrs[k] = r.ptrs[k]
  /\ r.blocks > NumDirect /\ s.blocks > NumDirect => s.indirect = r.indirect

(* No block of a file or directory moves while it stays in use: after any  *)
(* request each inode holds its old blocks at their old places, up to the  *)
(* shorter of its lengths before and after.                                *)
BlocksStay ==
  [][\A i \in InUse :
       status' = "up" /\ inode'[i].inUse => InPlace(inode[i], inode'[i])]_vars

-----------------------------------------------------------------------------
(* The name space that inodes and directory blocks make up. *)

Tree == INSTANCE FileTree WITH
          Node  <- Inum,
          Root  <- ROOT_INUM,
          edges <- IF Up THEN Edges ELSE {},
          dirs  <- IF Up THEN Directories ELSE {},
          alive <- Up

(* Inodes, bitmaps and directory blocks behave as a tree: every request    *)
(* adds or removes the one edge it names, or returns an error that is true *)
(* of the tree and changes nothing.                                        *)
ImplementsFileTree == Tree!Spec

-----------------------------------------------------------------------------
(* What comments and tests of the repository say, and the code does not.   *)

(* reserve_inode returns "an index into the inode table", also when every  *)
(* inode is taken.                                                         *)
InodeNumberInTable == status # "undefined"

(* release_inode asserts that the link count it finds is at most 1. *)
ReleaseFindsNoLinks == status # "links_assert"

(* update_parent asserts that the parent has room for the entry. *)
ParentHasRoom == status # "slots_assert"

(* reserve_data_block "allocates an unused data block". *)
ReservesUnusedBlock == status # "overcommitted"

=============================================================================

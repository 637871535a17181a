# Verification of ReFS

TLA+ models of ReFS (`src/refs.c`, `src/refs.h`, `src/bitmap.c`), a small
FUSE file system with an inode table, two allocation bitmaps and data blocks in
one disk file. They cover the handlers in memory, what each of them writes to
the disk file and what a crash leaves there, the bytes of files, and a listing
that goes on between other requests. The models are checked by TLC on small
instances. Proved with TLAPS for every instance are: that the bytes of a bitmap
are a set of bits; that inode table and bitmaps agree and no block is shared;
that directory blocks and inodes make up a tree with the link counts one can
predict, and so implement the abstract name space; that files on their reused
blocks are rows of bytes of their own, for those whom the mode allows; that each
path leads where it should; that a listing shows what stayed; that the
regions of the disk file are apart; and what the disk file holds after every
single write, crash and mount.

Contents: [the system](#the-system), [the plan](#the-plan),
[the modules](#the-modules-and-the-code), [the runs](#the-runs),
[the proofs](#the-proofs), [findings](#what-the-code-does-and-its-text-does-not-say),
[not modelled](#what-is-not-modelled).

## The system

### Components

| Component | State | Operations | What makes it correct |
|---|---|---|---|
| Bitmaps (`bitmap.c`) | a byte array and a number of valid bits | `allocate_bitmap`, `get_bit`, `set_bit`, `clear_bit`, `first_unset_bit` | masks touch one bit; a search answers the lowest unset bit, an error only when there is none |
| Inode table and allocation (`reserve_*`, `release_*`, `initialize_*_inode`, `do_truncate`) | `inode_table`, `inode_bitmap`, `data_bitmap` | reserve and release of inodes and blocks, growing and shrinking through direct pointers and one indirect block | bits are 1 for exactly what is in use; no block has two owners; a file has the blocks its size needs; blocks do not move |
| Name space (`update_parent`, `first_available_dirnum`, `remove_child_abspath`, `dir_isempty` and their handlers) | entries in directory blocks, `n_links` | `mkdir`, `rmdir`, `mknod`, `create`, `unlink` | a tree: one entry per node, `.` and `..` lead home, nothing is cut off, errors are true |
| File contents (`do_read`, `do_write`) | bytes of data blocks | `read`, `write`, `truncate` | a read returns what was last written, zeros where nothing was |
| Disk image (`refs_init`, `refs_destroy`, `write_*`, `sync_*`) | superblock, bitmaps, inode table and blocks on disk | mount, unmount, the write-through of each handler, crash | what is mounted again is consistent, and contains what was acknowledged |
| Disk layout (`init_super`, address helpers) | superblock fields | computation of region starts and sizes | regions do not overlap and fit the image |
| Path resolution (`resolve_path`) | none | walk from the root | finds the parent of the last component, or an error |
| Listing (`readdir`) | the offset in the kernel | listing continued at an offset | an entry that stays is listed once |
| Permissions (`access`, `chmod`) | mode, uid, gid | check of three classes | what a class allows |
| Attributes (`getattr`) | none | copies inode fields | pure output |
| Kernel and libfuse | open files, dentries | one handler at a time (`-s`) | external |

### How they interact

libfuse calls one handler of `refs_operations` after another: the file system is
mounted with `-s` (`README.md`, `setup.sh`), so no two handlers overlap. The
kernel resolves a path component by component through `getattr`, so a handler
that creates or removes sees a path whose parent exists and is a directory. A
creation calls `reserve_inode`, for a directory `reserve_data_block`, and then
`update_parent`, which may reserve another block through
`first_available_dirnum`. A removal clears an entry and takes links in
`remove_child_abspath`, then gives back the inode's bit and blocks. `write`
beyond the end of a file and `unlink` go through `do_truncate`. Every handler
works on the table and the bitmaps in memory, reads and writes directory blocks
on disk directly, and writes parts of the table and the bitmaps back as it goes.

### What is hard

- **Long legal sequences.** Link counts, block counts, entries and bits are
  changed in separate statements of different functions; a slip in one shows
  only many requests later (the link count that `unlink` takes from the parent is
  one: findings).
- **Limits.** Full bitmaps, whose search goes to a byte boundary and past the
  valid bits; full directories; the step from the last direct block to the
  indirect one; a 16-bit link count.
- **Order of disk writes.** A crash, or a clean unmount, between the change in
  memory and its write to disk.
- **Reuse.** Inode numbers, directory slots and blocks pass from one owner to
  the next, a block also from a directory to a file; nothing of the old owner
  may show.
- Concurrency is absent: handlers do not interleave. A listing in several
  `readdir` calls is the one place where other requests come in between.

The full list with lines is under `hazards` in `PROJECT.json`.

## The plan

1. `Bitmap`, `ByteBitmap` with its abstract `BitSet`: the allocator's search.
   *Done.*
2. `RefsFS` with the abstract `FileTree`: inode table, bitmaps, directory
   blocks, and all handlers that change them. *Done: modelled, checked, the
   ownership of inodes and blocks proved.*
3. `RefsCrash` over `DiskLayout`: the disk file, the writes of each handler as a
   sequence that is worked off one by one, `refs_init`, `refs_destroy`, a crash
   between two writes, and a mount of what is there. *Done.*
4. `RefsFile` with the abstract `ByteFiles`, and `RefsAccess`: the bytes of files
   and who may read and write them. *Done.*
5. `RefsReaddir`: a listing by offset while entries come and go, with its end as
   a liveness property. *Done.*
6. `RefsPath`: `resolve_path` on the name space of `RefsFS`. *Done.*
7. `DiskProofs`, first part: regions are disjoint and fit the file. *Done.*
8. `NameSpaceProofs`: the name-space invariants, and `RefsFS` implements
   `FileTree`; `ByteBitmapProofs`: `ByteBitmap` implements `BitSet` and computes
   `Bitmap`; `LookupProofs`: one path to each inode, and what a listing
   shows; `RefsFileProofs`: `RefsFile` implements `ByteFiles`. *Done.*
9. `DiskProofs`, the rest, and `RefsCrashProofs`: the invariants of `RefsCrash`
   and `AtomicOnDisk`, through every write of every handler. *Done.*

## The modules and the code

| Module | Role |
|---|---|
| `Bitmap` | the answers of `first_unset_bit` as operators on sets of bits |
| `ByteBitmap` | `bitmap.c` byte by byte; implements `BitSet`, computes `Bitmap` |
| `BitSet` | what a bitmap promises: a set of bits and a search |
| `RefsFS` | the core: state of `refs.c` in memory and the handlers |
| `FileTree` | what the name space promises: a tree of named edges |
| `RefsPath` | `resolve_path`: from a path to parent and child |
| `DiskLayout` | `init_super`: the regions of the disk file |
| `RefsCrash` | `RefsFS` on its disk file: writes, crashes, mounts |
| `RefsAccess` | `refs_access`: what the classes of a mode allow |
| `RefsFile` | `RefsFS` with the bytes, owners and modes of files; implements `ByteFiles` |
| `ByteFiles` | what files promise: a row of bytes each, read and written by whom the mode allows |
| `RefsReaddir` | a listing in pieces beside the handlers of `RefsFS` |
| `MCRefsFS`, `MCRefsCrash`, `MCRefsFile` | bounds, symmetry and views for the runs |
| `BitmapProofs`, `ByteBitmapProofs` | theorems of the bitmaps |
| `RefsFSProofs`, `NameSpaceProofs` | theorems of `RefsFS`: inode records and blocks, name space |
| `RefsFileProofs`, `LookupProofs` | theorems of `RefsFile`; of `RefsPath` and `RefsReaddir` |
| `DiskProofs` | theorems of `DiskLayout`; what `RefsCrash` proofs rest on: name spaces, what a mount reads, sequences of writes, the inductive invariant |
| `RefsCrashProofs` | every handler with its writes keeps that invariant; theorems of `RefsCrash` |

`RefsPath`, `RefsCrash`, `RefsFile` and `RefsReaddir` extend `RefsFS` and use its
handlers as they are: each of their steps is a handler of `RefsFS` together with
what it does to the disk, to the bytes or to the reader.

**`ByteBitmap`.** A byte is the set of positions of its 1 bits. `BIT_IDX_TO_BYTE`
and `BIT_IDX_TO_MASK` are `ByteOf` and `MaskOf`; `set_bit` and `clear_bit` add
and remove a position. `first_unset_bit` picks the first byte that is not all
ones among the bytes that the rounded-up loop bound covers, then the lowest
position. Its scan includes the bits of the last byte beyond the valid ones, as
the code's does.

**`RefsFS`.** State: `inodeBitmap` and `dataBitmap` are the sets of bits that are
1; `inode` is `inode_table` with the fields the handlers decide by; `data` holds
the entries of directory blocks, and one value, `OtherBlock`, for any block no
directory holds. `ptrs[k]` is the address of block `k` of the file, from
`block_ptrs` for `k < NUM_DIRECT` and from the indirect block above;
`indirect` is `block_ptrs[NUM_DIRECT]`. One step is one handler, which is what
`-s` gives. Each of `mkdir`, `mknod` (and `create`, which calls it), `rmdir`,
`unlink`, `chmod`, `truncate` and `write` is one action with all calls it makes:

- `CreateIn` is `initialize_*_inode` followed by `update_parent`: it may find no
  inode (`Undefined`), no room in the parent (`StopForRoom`: the child is
  allocated, then `assert(ret == 0)` ends the process, which counts as a block
  handed out twice if the child's was), or link the child (`Link`). Blocks are reserved in the order of the code, the child's first.
- `WithoutEntry` and `WithoutLinks` are `remove_child_abspath`. `rmdir` then
  clears the bit and the blocks before `release_inode` asserts on the link
  count, so the failed assertion leaves a half-removed directory.
- `do_truncate` is split into what a shorter file gives back (`Released`,
  `Shrunk`) and what a longer one becomes (`Grown`); `Turn` says which of the
  blocks reserved in the loop ends up at which position, the indirect block
  being reserved between the last direct block and the first behind it.

`status` says whether the process still runs, was stopped by an assertion, or
has left defined behaviour (memory outside the inode table or the pointer block,
or a block handed out twice). From there nothing is claimed. `unlinked` is a
history variable that the link-count formula needs; no action reads it.

The set `Names` excludes `.` and `..`, which the kernel never sends as a last
component. A free inode is reset to one value: the code keeps stale fields that
nothing reads before `reserve_inode` sets them again.

**`FileTree`** knows nodes, edges and directories only. `RefsFS` maps to it by
reading its edges out of the directory blocks; a stopped process maps to no
promise at all (`Stop`). A request during which a block is handed out twice is
answered all the same, which `Stop` allows.

**`RefsPath`.** A path is the sequence of its components. `NumbersAlong` is the
loop of `resolve_path`; a missing component in the middle is `ENOENT`, a missing
last one is child -1, as in the code. The handlers of `RefsFS` get the parent
and the last name: `OnePathEach` says that this is what `resolve_path` finds.

**`RefsCrash`.** `disk` is a function from block addresses to typed contents
(superblock, bits, inodes with their numbers, entries, pointers, file bytes).
Each handler of `RefsFS` also puts the blocks it writes, with the contents they
have at that moment of the handler, into `pending`, in the order of the code;
`WriteOut` takes the first of them to the disk, `Crash` forgets the rest and
the memory. The disk file is opened with `O_SYNC`, so writes are not reordered,
and the next handler starts when `pending` is empty (`Serving`). What is written
is not always what is in memory at the end: `update_parent` writes the parent
before it adds the new link, `write_inode` takes along the neighbours in the same
block, `remove_child_abspath` writes the inodes by the number in the inode
(`inum`), which a remount may have set to 0. `chmod` writes nothing, and no
handler writes the inode bitmap when it frees an inode. `Mount` computes memory
from the disk through the superblock; `Format` makes the root and writes the
superblock last. Once a mount finds blocks in use that are marked free
(`torn`), or finds no superblock (`undefined`), nothing more is claimed; the
same holds when a creation gets an inode that is in use (`reused`).

**`RefsFile`.** `bytes` is what files see in the data blocks: blocks of entries
or pointers hold `Meta` bytes. `do_write` and `do_read` call themselves for what
is left after one block: `Calls` is the set of these calls, with what each is
asked for, and `Copies` is what each does. Reads are requests of the kernel, which begins before
the size that `getattr` told it and asks for whole pages, so they stay within
the blocks of the file. Every request is made by one of several users, and
`May` is `refs_access`. `owner` and `mode` are those of files; the `writable` bit
of `RefsFS` stands for the same mode with one user and is fixed here.

**`RefsReaddir`.** The kernel asks for a listing in pieces, each from the offset
that came with the last entry it got; the buffer holds one to `MaxFill` entries.
Between two pieces any successful `mkdir`, `mknod`, `rmdir` or `unlink` may run.
`stayed` is a history variable: the entries (name, inode and slot) there from
the beginning on. A listing ends when a piece is empty or the directory is
removed.

## The runs

| Run | Instance | Question |
|---|---|---|
| `byte_bitmap` | bytes of 3 bits, 7 valid bits | Does the byte array behave as a set of bits, also in the last, partly valid byte? |
| `name_space` | 2 names, 4 inodes, 4 entries per block, up to 2 unlinks | Do directory blocks and inodes make up a tree with true errors and predictable link counts? |
| `blocks` | 3 inodes, 7 blocks in bytes of 3 bits, 2 direct and 2 indirect pointers, 6 sizes | Are blocks owned once and exactly, across the direct/indirect boundary and until the bitmap is full? |
| `grown_directories` | 3 names, 2 entries per block, 2 blocks per directory, files of 0 or 1 block, both permissions | Are entries found, placed and given back in directories of two blocks? |
| `listing` | 2 names, 3 inodes, 2 entries per block, 2 blocks per directory, pieces of 1 or 2 entries | Does a listing show what stays once, and does it end? |
| `files` | blocks of 2 bytes, 1 direct and 2 indirect pointers, 6 blocks, 2 files or directories, 2 users, 2 modes | Are files rows of bytes of their own, for those who may read and write them? |
| `crash` | 1 name, 4 inodes in 2 table blocks, 5 data blocks, 2 entries per block, sizes 0 and 5, 1 remount | What is on the disk after every single write, and after a crash and a remount? |
| `stops_on_links`, `stops_on_room`, `stops_on_inodes`, `stops_on_blocks`, `root_reused` | as above | What the program's own assertions and comments rule out, and it does: see findings |

**Bounds and why they are enough.** Two names in two or three levels of four
inodes give every shape a removal or creation can meet: sibling, child,
grandchild, a name used in two directories, an inode number used again. The
sizes `{0, 3, 4, 5, 7, 9}` with blocks of 2 bytes give 0, 2, 2, 3, 4 and 5
blocks: a change within a block, exactly `NumDirect` blocks, one and two beyond
them, and one more than a file can have. Directories and, in
`grown_directories`, files of one byte have one block. Seven valid blocks in bytes of
three bits leave two bits past the valid ones, as 2492 bits in bytes of eight
leave four. `LinkModulus` stands for 2^16; 6 is larger than any count that the
instance reaches without wrapping around, and small enough to wrap.
`MaxUnlinks` bounds the history variable by a constraint, since otherwise every
unlink of a directory leads to a new state; wrap-around of the count, the one
thing unlinks do later, needs three for a directory in the root and is reached
in `stops_on_links` with two in an empty one.

In `crash`, one name gives chains of directories up to the last inode and a
file at any depth; with two entries in a block, `.` and `..` fill the first
block of a directory, so each first child makes its parent grow. A size of 5
needs one block behind the two direct ones and with it an indirect block.
Inodes 2 and 3 are in a block of the table that is not written at formatting,
which is where numbers get lost. One remount is enough to reach every state in
which memory comes from a disk rather than from formatting; a second one starts
from disks of the same kind. In `files`, writing 4 bytes from offset 1 touches three
blocks, the first and the last of them in part, the direct one and two behind it;
with 6 blocks a second file or directory gets what the first gave back. The
owner, a user of his group, and two modes of which one grants the group only
reading, make every class of `refs_access` count. `OnePathEach` looks at all
paths as long as there are inodes besides the root; a longer path would pass one
inode twice.

Names are interchangeable and form a symmetry set, but not in `listing`, which
has a liveness property. The views drop what no action reads: `reply` and
`answer`, which the abstract specifications judge at each step; in `files` the
contents of free blocks, which the step that reserves them sets; in `crash`,
after formatting, inodes that no path leads to and blocks that none of the others
holds, in memory and on disk: a creation overwrites an inode or a block before
an entry leads to it. `CHECK_DEADLOCK FALSE` is set where the process may really
stop. `ByteBitmap` never stops and is checked for deadlock.

**Crashes, what they show.** `AtomicOnDisk`: each single write leaves the name
space on the disk as it was or makes it that of the request. `NothingDangles`:
what a path on the disk leads to, the root first, is an inode in use with its
bit set, at every moment; the root's bit stays on disk even when a removal
clears it in memory. `BlocksSafeOnDisk`: no two of them share a block, and their
blocks are marked, with one exception, which the property names: the file in the
middle of a `truncate` to a smaller size, because the data bitmap is written
before the inode. The price of
that order is that a mount may find a file with free blocks; there is no check
of the disk that would repair it. `ReturnedIsDurable` and `LinksOneBehind` say what
a clean unmount may lose: a `chmod`, and one link of a directory whose last
update added one. They hold as long as inodes have their numbers (see
`root_reused`). Inodes removed before an unmount stay marked on disk: a leak,
which no property rules out.

**Fairness and liveness.** `ListingEnds` assumes weak fairness of `NextPiece`: a
program that lists a directory goes on to its end, and the one thread of libfuse
serves its request after finitely many others. It does not assume that others
stop creating and removing. Nothing else waits, retries or times out: a handler
runs to its end in one go and nothing obliges a client to send a request, so no
other liveness is claimed, and the other specifications state no fairness.

**Mutants.** Each module holds, just before a definition, the mutated form of it
(marked `Mutant`) that the property it is paired with in `PROJECT.json` must
catch: a forgotten `set_bit`, an indirect block not given back, a block search
that stops at the first block, and so on.

## The proofs

| Theorem | Says |
|---|---|
| `TypeCorrect` | `[]TypeOK` |
| `InodeBitmapTellsTheTruth` | `[]InodeBitmapMatches`: bits of the inode bitmap = inodes in use |
| `DataBitmapTellsTheTruth` | `[]DataBitmapMatches`: bits of the data bitmap = blocks held, indirect blocks included |
| `BlocksHaveOneOwner` | `[]NoBlockShared` |
| `SizesFit` | `[]BlocksFitSize` |
| `OvercommitsOnlyWhenFull` | `[]OvercommitOnlyWhenFull` |
| `BlocksStayInPlace` | `BlocksStay`, an action property |
| `EntriesMatchInodes` | `[]OneEntryEach` |
| `DotsAlwaysLeadHome` | `[]DotsLeadHome` |
| `NoCircleIsCutOff` | `[]NoCutOffCircle` |
| `LinksAreCounted` | `[]LinkCounts` |
| `RefsFSImplementsFileTree` | `ImplementsFileTree`: `RefsFS` refines `FileTree` |
| `OnePathLeadsToEach` | `[]OnePathEach` |
| `FileBytesAreTyped` | `[]FileTypeOK` of `RefsFile` |
| `NoMetaShowsInFiles` | `[]NoMetaInFiles`: no entries or pointers show in a file |
| `RefsFileImplementsByteFiles` | `ImplementsByteFiles`: `RefsFile` refines `ByteFiles` |
| `ListingShowsWhatStayed` | `ListsWhatStayed`, an action property of `RefsReaddir` |
| `BytesAreTyped` | `[]TypeOK` of `ByteBitmap` |
| `BytesImplementBitSet` | `ImplementsBitSet`: `ByteBitmap` refines `BitSet` |
| `ScanAnswersFirstUnset` | `ScanIsFirstUnset`: the scan computes `FirstUnset` |
| `NthUnsetRepeatsTheSearch` | `[]NthUnsetIsRepeatedSearch` |
| `SearchesAnswerFreshBits`, `SearchesExhaustBits`, `SearchesAreRepeated` | what several searches in one handler answer |
| `CrashInvariantHolds` | `[]CrashInd`: the inductive invariant of `RefsCrash`, below |
| `CrashTypesHold` | `[]CrashTypeOK` |
| `NothingEverDangles` | `[]NothingDangles` |
| `BlocksAreSafeOnDisk` | `[]BlocksSafeOnDisk` |
| `ReturnedRequestsAreDurable` | `[]ReturnedIsDurable` |
| `LinksAreOneBehind` | `[]LinksOneBehind` |
| `RequestsAreAtomicOnDisk` | `AtomicOnDisk`, an action property of `RefsCrash` |
| `RegionsApart` | no write of an inode, a bitmap or a data block lands in another region of the disk file |
| `DefaultsFitTheDisk` | with the defaults of `refs.h` the last valid data block is in the file |

The last two are about `init_super` and assume only that sizes are positive and
that inodes fill whole blocks (`init_super` rounds the table down). The others
hold for all values of the constants that satisfy the assumptions in
`Bitmap`, `ByteBitmap`, `RefsFS` and `RefsFile`: at least one inode, block, direct and indirect pointer, at
least two entries in a block (for `.` and `..`), a link modulus above 2, and names
that are not `.`, `..` or one of the two strings the model uses for entries
without a name. `RefsFile` adds that requests have at least one byte, and that
`Meta`, which only tells where a byte comes from, is neither zero nor written;
otherwise `NoMetaInFiles` could not tell an old byte from a new one. `RefsCrash`
adds that inodes fill whole blocks of the table, as the default does; the bound
`MaxMounts` on mounts is any number, so the theorems hold for any number of
crashes and mounts.

**Ownership.** The inductive invariant `Ind` of `RefsFSProofs` is `TypeOK` and,
while the process is up, `Sane`: the inode bitmap is the set of inodes in use,
the data bitmap is the union of what all inodes hold, these holdings are
disjoint and without repetition, and every inode has the blocks its size calls
for, a free one none. None of the parts is inductive alone: that a reserved
block is new follows from the data bitmap being the union of the holdings;
that `rmdir`, which frees direct pointers only, frees everything follows from
directories never having an indirect block; that an inode number from an entry
is in the table follows from the directory's pointers being valid blocks. `Ind`
says nothing about entries leading to live inodes: a handler that came to a
free inode through a dangling entry would keep it, which is why ownership can
be proved before the name space.

`RefsFSProofs` first computes what a record holds after `AddBlock`, `Shrunk` and
`Grown`; the lemma `TurnsAreUsedOnce` says that the blocks reserved in one
`do_truncate` and the positions they end up at match one to one, with the
indirect block in its turn. `SanePut` reduces every handler to
replacing one inode after another by a record that takes no block of another.
`BitmapProofs` shows, by the rank of an unset bit, that successive searches
answer different unset bits while there are any, and all of them before they
repeat; `OvercommitsOnlyWhenFull` follows.

**The name space.** `TreeInd` of `NameSpaceProofs` is `Ind` and, while the
process is up, `IsTree` and `Counted` of the entries. They are stated of sets of
entries and inodes, not of the state, so that each handler can be shown to make
one of three changes (an entry added for a file, for a directory, or taken away)
and each change to keep them. `IsTree` has four parts. `WellNamed`: a directory
has a name once, and every entry is of one of its kinds, so that
`inum_from_path`, which takes the first hit, has only one to take. `Leading`: each
inode in use but the root has exactly one entry, and no entry leads to a free
one, so that `reserve_inode` is not asked for an inode that an entry still knows.
`Dotted`: `.` and `..` are what they should be; an `rmdir` of a directory with
children would break it for them, which is what `dir_isempty` prevents.
`Rooted`: no set of directories without the root is closed under `..`; it cannot
be derived from the others, since a circle of directories satisfies them all.
`Counted` is the formula of `LinkCounts`: it needs `Leading`, since a new entry
must be of an inode not counted yet. That a file has one link is part of it, so
`unlink` always gives the inode back. `TreeInd` and `PathInd`
below were checked by TLC on the instances of `name_space` and
`grown_directories`. For the refinement each handler is mapped to the
action of `FileTree` of the same name, an error reply to `Refused`, a change of a
file to `FileRequest`, and everything that leaves `up` to `Stop`.

**Paths.** `resolve_path` looks names up also in what is not a directory, so that a
path through a file finds nothing only if no block of a file reads as entries.
`Opaque` says so, and makes `PathInd` inductive together with `TreeInd`: a block
that `rmdir` gives back is no one's entries any more. The numbers
along a path that ends somewhere are then a walk along entries. Two walks to the same inode
agree backwards from their ends, because each inode has one entry; every inode is
reached, because the directories that are not would be a set without the
root that `..` does not leave; and a walk passes no inode twice, so that the
paths shorter than the number of inodes, among which `OnePathEach` looks, are all
there are.

**File contents.** `FileInd` is `TreeInd`, `FileTypeOK` and `NoMetaInFiles`. The
calls of one request make a chain: each begins where the one before ends, and
stays in one block. Every position asked for is in exactly one of them: the first
call that reaches it is the least number of a set, so this needs no
induction over data. A position is a block and a byte by division with remainder,
and no file has a block twice (`Sane`); so a write to the blocks changes in
the row of the file just the positions asked for (`WrittenRow`), and a read gets
what is there (`ReadRow`). No two files share a block, again by `Sane`, so the
rows of all others stay. What a file gets when it grows was free before (`ResizeIs`)
and is zeros then, whatever it held (`ResizedRow`, `ResizedClean`); what another
handler reserves was free as well, so no file sees that it becomes entries or
pointers. Each handler is mapped to the action of `ByteFiles` it is (`Create`,
`Remove`, `Resize`, `Write`, `Read`, `Deny`, `SetMode`), one that changes no file
to a stutter, and everything that leaves `up` to `Stop`. That `refs_write` with
nothing to continue is `Write` without `Resized` needs that a file has room for
its size (`RoomForSize`), which `BlocksFitSize` gives.

**Listing.** `ListInd` adds to `TreeInd`: the entries that stayed and have a place
before the offset have been shown, the others not yet, and none of them twice. It
is kept because no handler moves an entry and a directory only gets longer.

**Bytes of bitmaps.** The bits of the bytes are a set of numbers by
`bit = BitsPerByte * byte + position`; division with remainder is unique, so that
`set_bit` and `clear_bit` change one number. That a byte is full or not decides whether
the scan stops in it, and the lowest bit of the first byte that is not full is the
lowest unset bit. The `k`-th search of a handler is `NthUnset`, defined by rank;
`SearchesAreRepeated` proves by the least counterexample that setting the
bits found one after the other finds the same.

**The disk.** The properties of `RefsCrash` look at one state of the disk, and
nothing in that state says what the writes still in `pending` will do, so none of
them is inductive. `CrashInd` of `DiskProofs` looks ahead: `DiskAfter(d, w, k)` is
the disk `d` after the first `k` of the writes `w`. While the process lives,

- memory is a name space (`MemoryOK`, with `Sound`: what can be reached is a tree of
  records in use that hold marked blocks, none shared);
- the disk after every prefix of the pending writes is one as well
  (`DiskSound`), and its tree is the one before that write or the one in memory
  (`Safe`);
- after all of them the disk shows what memory has (`Shows`: records but for
  link counts and permissions, entries, bits), and links at most one
  behind (`LinksFollow`).

When no process lives, `DiskSound` of the disk alone is left: that is what a mount
begins with, and why crashes and mounts need no bound. `Sound` is weaker than
`TreeInd`, since after a crash inodes and blocks that no path leads to may hold
anything, and `inum` may be 0; and it is stated of a table and directory blocks, so
that it can be said of memory, of a disk, and of what a handler has half done. The
states of `crash` were checked by TLC for `CrashInd` before it was proved.

`DiskProofs` gives what all handlers need: one write changes what `Mount` reads in its
own region and nothing else (from the layout); what is reached after an entry was
added, taken away or a block added (`ReachedByIs` and what follows it); and for
each kind of write what the disk shows afterwards. `Passes(d, w, e, c, T)` says
that the writes `w` lead from `d` to `e` through sound disks with the tree `T`;
`PassesJoined` puts two such stretches together. `RefsCrashProofs` takes each
handler in the order of its writes: `mkdir` and `mknod` are preparation of
an inode no path leads to, then a parent that may get a block, then the entry,
the one write that changes the tree; a removal begins with it. In `truncate` to
a smaller size the data bitmap comes first, and only in this stretch `cutting` is
exempt from being marked; in `unlink` the file is no longer reached by then. `unlink`
and `rmdir` write inodes by number, so that after a remount they may write the block of
inode 0 in place of another: that leaves a link count behind, which is why
`LinksOneBehind` asks for `inum = OwnNumbers`, and no more, because the
entry is gone before.

Of the layout, which comes first in `DiskProofs`, `BitmapFitsRoom` shows that the bytes of a bitmap are at
most its bits, for which `init_super` makes room, and `QuotientBelow` that the
block of an inode is below the number of table blocks.

**Only model-checked:** `ListingEnds`, a liveness property under fairness, which
is outside what the proof system handles. All other properties of the passing
runs are proved. The runs that expect a violation find behaviours, which is what
TLC is for.

## What the code does and its text does not say

The four `stops_on_*` runs and `root_reused` each show a counterexample to a statement of the
source; the quotes are in `PROJECT.json`.

1. `remove_child_abspath` takes a link from the parent for a removed file,
   although only directories add one. Two files made and unlinked in a directory
   bring its count to 0, and `rmdir` takes it to 65535: `release_inode`'s
   assertion ends the process. `LinkCounts` states the exact formula.
2. A directory of `NUM_DIRECT` full blocks stops the process at the next creation
   in it (`assert(ret == 0)` in `update_parent`), after the child was allocated.
3. With all inodes taken, `reserve_inode` returns a number outside the table.
4. With all blocks taken, `reserve_data_block` returns a block in use.
5. Formatting writes the table block of the root only, and a mount reads the
   table over the numbers that `alloc_inode_table` gave the inodes. An inode from
   a block never written has number 0 then. `rmdir` or `unlink` of it writes back
   inode 0 instead, and `release_inode` frees the bit of inode 0: the next
   creation is given the root's inode.

## What is not modelled

- `12.c` and `bigfile.c`, 5806 of the 7896 lines of C here: they are text for
  copying into the file system (`README.md`: "meaningless c file used to test
  writing big text files"), compiled by no rule and part of no program. The same
  holds for the shell scripts and `writetest.c`, which are clients. The modules
  stand for nearly all the lines of `refs.c`, `refs.h` and `bitmap.c` that do
  something; a larger share of all lines is not to be had.
- Times, the constant owner that `getattr` reports, debug output, `dump_*`, the
  self test of `bitmap.c`: data no property is about. `refs_open` is not in
  `refs_operations`; `refs_release` does nothing.
- Failing and short reads and writes of the disk, failing `malloc`: the code
  prints or asserts, and mostly ignores them. Writing one block, and the one or
  few blocks of a bitmap, is taken as atomic.
- The bytes of files across a crash, and crashes during a `write` as the data
  blocks go out: `RefsCrash` keeps blocks and sizes only.
- File systems mounted torn or without a superblock are not followed further.
- Names as strings: their length limit is listed as a hazard. Paths are split
  already.
- libfuse hides an open file that is unlinked by renaming it; ReFS has no
  `rename` handler, and what libfuse then does is outside this code.

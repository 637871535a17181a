------------------------------ MODULE RefsFile ------------------------------
(***************************************************************************)
(* RefsFS with the bytes of its files: refs_read, refs_write and           *)
(* refs_truncate with the permissions that refs_access grants, do_write    *)
(* and do_read block by block, and what creations, removals and growing    *)
(* directories leave in the blocks that files get later.                   *)
(*                                                                         *)
(* The kernel asks for pages of a file that begin before its size, as      *)
(* refs_getattr tells it; a page is a block.                               *)
(***************************************************************************)
EXTENDS RefsFS, RefsAccess, Sequences, FiniteSetsExt, Functions

CONSTANTS
  Users,      \* bound: who makes requests
  Owners,     \* bound: those of them who create files
  Modes,      \* bound: modes that mknod and chmod ask for
  Ranges,     \* bound: offsets and sizes that read and write ask for
  Values,     \* bound: bytes that write gets
  Zero,       \* the byte that calloc and bzero leave
  Meta,       \* a byte of a block of directory entries or block pointers
  MaxUnlinks  \* bound: unlinks remembered in all directories together

ASSUME RangesAssumption == \A x \in Ranges : x.offset \in Nat /\ x.size \in Nat \ {0}
ASSUME MetaAssumption   == Meta \notin Values \cup {Zero}

VARIABLES
  bytes,   \* the data blocks, as files see them
  owner,   \* uid and gid of the inodes
  mode,    \* mode of the inodes
  answer   \* what the last request about a file returned, and to whom

fileVars == <<bytes, owner, mode>>

Byte == 0 .. BlockSize - 1

-----------------------------------------------------------------------------
(* Blocks *)

(* Mutant: malloc_blocks instead of calloc_blocks. *)
UnsetBlock == [x \in Byte |-> "unset"]

ZeroBlock == [x \in Byte |-> Zero]
MetaBlock == [x \in Byte |-> Meta]

(* Mutant: new blocks of a file are not cleared. *)
WithoutClearing(r) ==
  LET own == BlocksAt(r, 0 .. r.blocks - 1)
  IN  [b \in Block |-> IF b \in (dataBitmap' \ dataBitmap) \ own THEN MetaBlock ELSE bytes[b]]

(* The blocks reserved in this step hold entries or pointers, but for      *)
(* those that became blocks of the file r.                                 *)
WithNewBlocks(r) ==
  LET new == dataBitmap' \ dataBitmap
      own == BlocksAt(r, 0 .. r.blocks - 1)
  IN  [b \in Block |-> CASE b \in new \cap own -> ZeroBlock
                        [] b \in new \ own    -> MetaBlock
                        [] OTHER              -> bytes[b]]

(* The block of file r that a position is in, and where it is there. *)
BlockAt(r, offset) == r.ptrs[offset \div BlockSize]
ByteAt(offset)     == offset % BlockSize

(* Mutant: all that is asked for goes to one block. *)
WholeSize(size, byte) == size

(* How many bytes of a request belong to its first block. *)
copy_size(size, byte) == IF size > BlockSize - byte THEN BlockSize - byte ELSE size

(* How many bytes a call of do_write or do_read copies. *)
Copies(call) == copy_size(call.size, ByteAt(call.offset))

(* What a call leaves to the next. *)
Rest(call) == [size |-> call.size - Copies(call), offset |-> call.offset + Copies(call)]

(* The calls of do_write or do_read, one inside the other, that a request  *)
(* takes: each does what it can in one block.                              *)
CallsInOrder(size, offset) ==
  LET call[k \in 0 .. size] ==
        IF k = 0 THEN [size |-> size, offset |-> offset] ELSE Rest(call[k - 1])
  IN  call

Calls(size, offset) ==
  LET call == CallsInOrder(size, offset)
  IN  {c \in {call[k] : k \in 0 .. size} : c.size > 0}

(* The blocks when size bytes of file r from offset on have become v. *)
do_write(blocks, r, size, offset, v) ==
  LET calls      == Calls(size, offset)
      Written(c) == ByteAt(c.offset) .. ByteAt(c.offset) + Copies(c) - 1
  IN  [b \in Block |-> [x \in Byte |->
         IF \E c \in calls : b = BlockAt(r, c.offset) /\ x \in Written(c) THEN v ELSE blocks[b][x]]]

(* Each call fills the part of the buffer behind that of the call before.  *)
do_read(r, size, offset) ==
  LET calls     == Calls(size, offset)
      Call(p)   == CHOOSE c \in calls : p \in c.offset .. c.offset + Copies(c) - 1
      Got(c, p) == bytes[BlockAt(r, c.offset)][ByteAt(c.offset) + (p - c.offset)]
  IN  [k \in 1 .. size |-> Got(Call(offset + k - 1), offset + k - 1)]

-----------------------------------------------------------------------------
(* Handlers *)

(* Mutant: a user who may read may write. *)
MayRead(u, i, right) == refs_access(u, owner[i], mode[i], {"r"})

May(u, i, right) == refs_access(u, owner[i], mode[i], {right})

Answer(u, right, ok, got) == answer' = [to |-> u, asked |-> right, ok |-> ok, bytes |-> got]

(* refs_getattr, as far as the kernel looks at it here. *)
refs_getattr(i) ==
  [st_ino |-> i, isDir |-> inode[i].isDir, st_nlink |-> inode[i].nLinks,
   st_size |-> inode[i].size, st_blocks |-> inode[i].blocks]

(* Owner and mode of an inode that is not a file stay as here: the only    *)
(* handler to look at those of a directory is refs_access itself.          *)
Nobody == [uid |-> 0, gid |-> 0]

OwnerAndMode(i, u, m) ==
  /\ owner' = [j \in Inum |-> IF j = i THEN u ELSE owner[j]]
  /\ mode' = [j \in Inum |-> IF j = i THEN m ELSE mode[j]]

mknod_by(u, p, n, m) ==
  /\ mknod(p, n, TRUE)
  /\ IF reply' = "OK" /\ status' = "up"
     THEN OwnerAndMode(reserve_inode, u, m) ELSE UNCHANGED <<owner, mode>>
  /\ bytes' = WithNewBlocks(FreeInode)
  /\ UNCHANGED answer

mkdir_over(p, n) ==
  /\ mkdir(p, n)
  /\ bytes' = WithNewBlocks(FreeInode)
  /\ UNCHANGED <<owner, mode, answer>>

rmdir_over(p, n) == rmdir(p, n) /\ UNCHANGED <<fileVars, answer>>

unlink_of(p, n) ==
  /\ unlink(p, n)
  /\ IF reply' = "OK" THEN OwnerAndMode(inum_from_path(p, n), Nobody, {})
                      ELSE UNCHANGED <<owner, mode>>
  /\ UNCHANGED <<bytes, answer>>

(* Nobody is asked whether he may. *)
refs_chmod(i, m) ==
  /\ Up /\ IsFile(i)
  /\ mode' = [mode EXCEPT ![i] = m]
  /\ Return("OK")
  /\ UNCHANGED <<fsVars, status, bytes, owner, answer>>

Denied(u, i, right) ==
  /\ ~May(u, i, right)
  /\ Refuse("EACCES")
  /\ Answer(u, right, FALSE, <<>>)
  /\ UNCHANGED fileVars

refs_truncate(u, i, sz) ==
  /\ Up /\ IsFile(i)
  /\ \/ Denied(u, i, "w")
     \/ /\ May(u, i, "w")
        /\ do_truncate(i, sz)
        /\ bytes' = WithNewBlocks(inode'[i])
        /\ Answer(u, "w", TRUE, <<>>)
        /\ UNCHANGED <<owner, mode>>

(* Mutant: the file is continued only when the request begins past it. *)
BeginsPast(i, offset, size) == offset > inode[i].size

ReachesPast(i, offset, size) == offset + size > inode[i].size

refs_write(u, i, offset, size, v) ==
  /\ Up /\ IsFile(i)
  /\ \/ Denied(u, i, "w")
     \/ /\ May(u, i, "w")
        /\ \/ /\ ReachesPast(i, offset, size)
              /\ do_truncate(i, offset + size)
           \/ /\ ~ReachesPast(i, offset, size)
              /\ Refuse("OK")
        /\ bytes' = IF status' = "up"
                    THEN do_write(WithNewBlocks(inode'[i]), inode'[i], size, offset, v) ELSE bytes
        /\ Answer(u, "w", TRUE, <<>>)
        /\ UNCHANGED <<owner, mode>>

refs_read(u, i, offset, size) ==
  /\ Up /\ IsFile(i)
  /\ offset < refs_getattr(i).st_size
  /\ offset + size <= refs_getattr(i).st_blocks * BlockSize
  /\ \/ Denied(u, i, "r")
     \/ /\ May(u, i, "r")
        /\ Refuse("OK")
        /\ Answer(u, "r", TRUE, do_read(inode[i], size, offset))
        /\ UNCHANGED fileVars

FileInit ==
  /\ Init
  /\ bytes = [b \in Block |-> IF b = 0 THEN MetaBlock ELSE ZeroBlock]
  /\ owner = [i \in Inum |-> Nobody]
  /\ mode = [i \in Inum |-> {}]
  /\ answer = [to |-> CHOOSE u \in Users : TRUE, asked |-> "w", ok |-> TRUE, bytes |-> <<>>]

FileNext ==
  \/ \E u \in Owners, p \in Inum, n \in Names, m \in Modes : mknod_by(u, p, n, m)
  \/ \E p \in Inum, n \in Names : mkdir_over(p, n)
  \/ \E p \in Inum, n \in Names : rmdir_over(p, n)
  \/ /\ SumFunction(unlinked) < MaxUnlinks
     /\ \E p \in Inum, n \in Names : unlink_of(p, n)
  \/ \E i \in Inum, m \in Modes : refs_chmod(i, m)
  \/ \E u \in Users, i \in Inum, sz \in Sizes : refs_truncate(u, i, sz)
  \/ \E u \in Users, i \in Inum, x \in Ranges, v \in Values : refs_write(u, i, x.offset, x.size, v)
  \/ \E u \in Users, i \in Inum, x \in Ranges : refs_read(u, i, x.offset, x.size)

FileSpec == FileInit /\ [][FileNext]_<<vars, fileVars, answer>>

-----------------------------------------------------------------------------
(* Properties *)

FileTypeOK ==
  /\ bytes \in [Block -> [Byte -> Values \cup {Zero, Meta}]]
  /\ owner \in [Inum -> Owners \cup {Nobody}]
  /\ mode \in [Inum -> Modes \cup {{}}]

(* No byte of directory entries or block pointers is in a file, not even   *)
(* behind its size: blocks that pass from a directory or an indirect block *)
(* to a file are cleared first.                                            *)
NoMetaInFiles ==
  Up => \A i \in Files : \A b \in BlocksAt(inode[i], 0 .. inode[i].blocks - 1) :
    \A x \in Byte : bytes[b][x] # Meta

(* Whoever is in a class that the mode grants the right to. *)
AllowedTo(i, right) ==
  {u \in Users : \/ <<"other", right>> \in mode[i]
                 \/ <<"group", right>> \in mode[i] /\ u.gid = owner[i].gid
                 \/ <<"user", right>> \in mode[i] /\ u.uid = owner[i].uid}

FileView(i) ==
  LET r == inode[i]
  IN  IF Up /\ IsFile(i)
      THEN [bytes   |-> [k \in 1 .. r.blocks * BlockSize |->
                           bytes[BlockAt(r, k - 1)][ByteAt(k - 1)]],
            size    |-> r.size,
            readers |-> AllowedTo(i, "r"),
            writers |-> AllowedTo(i, "w"),
            exists  |-> TRUE]
      ELSE [bytes |-> <<>>, size |-> 0, readers |-> {}, writers |-> {}, exists |-> FALSE]

Contents == INSTANCE ByteFiles WITH
              File  <- Inum,
              User  <- Users,
              file  <- [i \in Inum |-> FileView(i)],
              alive <- Up

(* Blocks, pointers and bitmaps behave as rows of bytes: what a read gets  *)
(* is what was last written there to this file and none else, zeros where  *)
(* nothing was, across direct and indirect blocks and through all the      *)
(* blocks a file ever had; and it gets it only if the caller may.          *)
ImplementsByteFiles == Contents!Spec

=============================================================================

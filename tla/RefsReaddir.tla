----------------------------- MODULE RefsReaddir -----------------------------
(***************************************************************************)
(* A program lists a directory of RefsFS while others create and remove.   *)
(* The kernel fetches a listing in pieces: each READDIR request goes on at *)
(* the offset that came with the last entry it has, and other handlers run *)
(* between two of them.  refs_readdir keeps nothing between its calls.     *)
(*                                                                         *)
(* Requests that are refused change nothing and are left out.              *)
(***************************************************************************)
EXTENDS RefsFS, FiniteSetsExt, Functions

CONSTANTS
  MaxFill,    \* bound: entries that fit in the buffer of one request
  MaxUnlinks  \* bound: unlinks remembered in all directories together

ASSUME FillAssumption    == MaxFill \in Nat \ {0}
ASSUME UnlinksAssumption == MaxUnlinks \in Nat

VARIABLES
  dir,     \* the directory that is being listed, or NoInum
  offset,  \* where the next request goes on
  listed,  \* what the requests so far returned
  twice,   \* what of it they returned more than once
  stayed   \* history: what has been in the directory since the listing began

readerVars == <<dir, offset, listed, twice, stayed>>

-----------------------------------------------------------------------------
(* Slots of a directory are numbered through all its blocks. *)
Index(x) == x[1] * DirentsPerBlock + x[2]

Valid(d) == {x \in Places(d) : EntryAt(d, x) # NoEntry}

(* What filler gets for an entry, and where it is. *)
Dirent(d, x) == [at |-> Index(x), name |-> EntryAt(d, x).name, ino |-> EntryAt(d, x).inum]

(* What is in each directory.  It has "." at least; others have nothing.   *)
Contents == [d \in Inum |-> IF IsDir(d) THEN {Dirent(d, x) : x \in Valid(d)} ELSE {}]

(* Mutant: every block is read from the slot at which the first one is. *)
SameSlotInEachBlock(d, off) ==
  {x \in Valid(d) : x[1] >= off \div DirentsPerBlock /\ x[2] >= off % DirentsPerBlock}

(* Only the first block is read from a slot in the middle on. *)
Rest(d, off) ==
  {x \in Valid(d) : \/ x[1] > off \div DirentsPerBlock
                    \/ x[1] = off \div DirentsPerBlock /\ x[2] >= off % DirentsPerBlock}

(* Mutant: the offset is that of the entry itself. *)
OffsetOf(e) == e.at

(* The offset that filler gets with an entry is that of the slot behind. *)
NextOffset(e) == e.at + 1

(* The first k of some places. *)
FirstPlaces(places, k) ==
  {x \in places : Cardinality({y \in places : Index(y) < Index(x)}) < k}

(* opendir and rewinddir: the kernel's and libfuse's part. *)
StartListing(d) ==
  /\ Up /\ IsDir(d)
  /\ dir = NoInum
  /\ dir' = d
  /\ offset' = 0
  /\ listed' = {}
  /\ twice' = {}
  /\ stayed' = Contents[d]

NotListing ==
  dir' = NoInum /\ offset' = 0 /\ listed' = {} /\ twice' = {} /\ stayed' = {}

(* A request with room for k entries.  One that returns none ends the      *)
(* listing.                                                                *)
refs_readdir(k) ==
  LET rest == Rest(dir, offset)
      new  == {Dirent(dir, x) : x \in FirstPlaces(rest, k)}
  IN  /\ Up
      /\ dir # NoInum
      /\ \/ /\ rest = {}
            /\ NotListing
         \/ /\ rest # {}
            /\ offset' = Max({NextOffset(e) : e \in new})
            /\ listed' = listed \cup new
            /\ twice' = twice \cup (listed \cap new)
            /\ UNCHANGED <<dir, stayed>>

(* Creations and removals, with success. *)
Change ==
  /\ \/ \E p \in Inum, n \in Names : mkdir(p, n)
     \/ \E p \in Inum, n \in Names, w \in Perms : mknod(p, n, w)
     \/ \E p \in Inum, n \in Names : rmdir(p, n)
     \/ /\ SumFunction(unlinked) < MaxUnlinks
        /\ \E p \in Inum, n \in Names : unlink(p, n)
  /\ reply' = reply

(* When the directory itself is removed the next request finds no path to  *)
(* it, and the listing is over.                                            *)
FollowChange ==
  IF dir # NoInum /\ Contents'[dir] # {}
  THEN stayed' = stayed \cap Contents'[dir] /\ UNCHANGED <<dir, offset, listed, twice>>
  ELSE NotListing

ListingInit ==
  /\ Init
  /\ dir = NoInum
  /\ offset = 0
  /\ listed = {}
  /\ twice = {}
  /\ stayed = {}

ListingNext ==
  \/ Change /\ FollowChange
  \/ \E d \in Inum : StartListing(d) /\ UNCHANGED vars
  \/ \E k \in 1 .. MaxFill : refs_readdir(k) /\ UNCHANGED vars

listingVars == <<vars, readerVars>>

NextPiece == \E k \in 1 .. MaxFill : refs_readdir(k) /\ UNCHANGED vars

(* A program that lists a directory goes on to the end, and the one thread *)
(* of the file system serves it between other requests.                    *)
ListingSpec == ListingInit /\ [][ListingNext]_listingVars /\ WF_listingVars(NextPiece)

-----------------------------------------------------------------------------
(* Properties *)

(* A listing that comes to its end has shown each entry that was there all *)
(* the time, and each exactly once, however it was cut into pieces and     *)
(* whatever came, went or took a new block between two pieces.             *)
ListsWhatStayed ==
  [][dir # NoInum /\ dir' = NoInum /\ UNCHANGED vars =>
       stayed \subseteq listed /\ stayed \cap twice = {}]_listingVars

(* Every listing ends, though entries come and go all the time: offsets    *)
(* only grow and a directory has NumDirect blocks at most.                 *)
ListingEnds == (dir # NoInum) ~> (dir = NoInum \/ ~Up)

=============================================================================

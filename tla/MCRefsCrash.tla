---------------------------- MODULE MCRefsCrash ----------------------------
(***************************************************************************)
(* RefsCrash on small instances: Crash.cfg and RootReused.cfg.             *)
(***************************************************************************)
EXTENDS RefsCrash, Functions, TLC

CONSTANT MaxUnlinks  \* bound: unlinks remembered in all directories together

(* An unlinked file matters later through the link count of its directory. *)
FewUnlinks == SumFunction(unlinked) <= MaxUnlinks

Symmetry == Permutations(Names)

Blocks(table, live) == UNION {Held(table[i]) : i \in live}

(* Left out of the view are reply, which no action reads and no property   *)
(* mentions, and once there is a superblock the leavings of earlier        *)
(* requests: inodes that no path leads to, in memory or on disk,           *)
(* and data blocks that none of the others holds.  A creation overwrites   *)
(* an inode or a block before anything leads to it, so no step and no      *)
(* property reads what is left there.                                      *)
View ==
  LET memory == <<inodeBitmap, dataBitmap, unlinked, status, pending, inum, cutting, mounts>>
      table  == LoadedTable(disk)
      live   == Reachable
      saved  == ReachableOnDisk
      held   == Blocks(inode, live) \cup Blocks(table, saved)
  IN  IF ~Formatted(disk) THEN <<memory, inode, data, disk>>
      ELSE <<memory, LoadedInodeBitmap(disk), LoadedDataBitmap(disk),
             [i \in Inum |-> LoadedNum(disk, i)],
             [i \in live |-> inode[i]],
             [i \in live \cup saved |-> table[i]],
             [b \in held |-> <<data[b], disk[Layout!DataLba(b)]>>]>>

=============================================================================

------------------------------ MODULE RefsPath ------------------------------
(***************************************************************************)
(* resolve_path of refs.c: from the path that libfuse hands to a handler   *)
(* to inode numbers.  The handlers of RefsFS are about a directory and a   *)
(* name in it; here are the paths that lead to them.  A path is the        *)
(* sequence of its components, as strtok splits it; "/" is <<>>.           *)
(***************************************************************************)
EXTENDS RefsFS, SequencesExt

(* As long as there are inodes besides the root; on the way of a longer    *)
(* path is one inode twice, and so a shorter path.                         *)
Paths == UNION {[1 .. l -> Names] : l \in 0 .. NumInodes - 1}

NotFound == [ret |-> "ENOENT", parent |-> NoInum, child |-> NoInum]

(* Mutant: each component is looked up in the root. *)
NumbersFromRoot(path) ==
  [k \in 0 .. Len(path) |-> IF k = 0 THEN ROOT_INUM ELSE inum_from_path(ROOT_INUM, path[k])]

(* The inode numbers on the way, that of the root first; no number is      *)
(* looked at behind the first component that does not exist.               *)
NumbersAlong(path) ==
  LET nums[k \in 0 .. Len(path)] ==
        CASE k = 0                             -> ROOT_INUM
          [] k > 0 /\ nums[k - 1] = NoInum    -> NoInum
          [] OTHER                             -> inum_from_path(nums[k - 1], path[k])
  IN  nums

(* A last component that does not exist is no error: child is then -1 and  *)
(* the callers look at it.                                                 *)
resolve_path(path) ==
  LET nums   == NumbersAlong(path)
      parent == nums[Len(path) - 1]
      child  == nums[Len(path)]
  IN  CASE path = <<>> -> [ret |-> "OK", parent |-> ROOT_INUM, child |-> inum_from_path(ROOT_INUM, ".")]
        [] path # <<>> /\ parent = NoInum -> NotFound
        [] OTHER -> [ret |-> "OK", parent |-> parent, child |-> child]

-----------------------------------------------------------------------------
(* Every file and directory is found by exactly one path, which also finds *)
(* the directory it is in, and nothing else is found: what mkdir, mknod,   *)
(* rmdir and unlink leave behind is a tree for resolve_path, whichever     *)
(* inodes, slots and blocks are used again.                                *)
OnePathEach ==
  Up => LET ways  == {[path |-> path, to |-> resolve_path(path)] : path \in Paths}
            edges == Edges
        IN  \A i \in Inum :
              LET found == {way \in ways : way.to.child = i}
              IN  IF ~inode[i].inUse THEN found = {}
                  ELSE \E way \in found :
                         /\ found = {way}
                         /\ way.path # <<>> =>
                              [parent |-> way.to.parent,
                               name   |-> Last(way.path), node |-> i] \in edges

=============================================================================

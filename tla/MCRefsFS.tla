------------------------------ MODULE MCRefsFS ------------------------------
(***************************************************************************)
(* RefsFS on small instances: NameSpace.cfg, Blocks.cfg, GrownDirs.cfg and *)
(* the instances on which the program stops (StopsOn*.cfg).                *)
(***************************************************************************)
EXTENDS RefsPath, Functions, TLC

CONSTANT MaxUnlinks  \* bound: unlinks remembered in all directories together

(* Nothing is explored beyond this many unlinks.  A file that was unlinked *)
(* matters later only through the link count of its directory; two are     *)
(* enough for a count that wraps around, LinkModulus for a full circle.    *)
FewUnlinks == SumFunction(unlinked) <= MaxUnlinks

Symmetry == Permutations(Names)

(* No action reads reply and no invariant mentions it; ImplementsFileTree  *)
(* judges the reply of each step, which does not depend on the one before. *)
View == <<fsVars, status>>

=============================================================================

----------------------------- MODULE MCRefsFile -----------------------------
(***************************************************************************)
(* RefsFile on a small instance: Files.cfg.                                *)
(***************************************************************************)
EXTENDS RefsFile, TLC

CONSTANTS Data  \* the byte that is written

(* The owner of a file, one of his group, and a stranger. *)
Alice == [uid |-> 1, gid |-> 1]
Bob   == [uid |-> 2, gid |-> 1]

MCUsers  == {Alice, Bob}
MCOwners == {Alice}
MCModes  == {{<<"user", "r">>, <<"user", "w">>, <<"group", "r">>}, {<<"other", "r">>, <<"other", "w">>}}
MCValues == {Data}
MCRanges == {[offset |-> 0, size |-> 1], [offset |-> 1, size |-> 4]}

(* No action reads reply or answer; ImplementsByteFiles judges the answer  *)
(* of each step, which does not depend on the one before.  What is in a    *)
(* free block is not read either: the step that reserves it sets it.       *)
View == <<fsVars, status, [b \in dataBitmap |-> bytes[b]], owner, mode>>

Symmetry == Permutations(Names)

=============================================================================

----------------------------- MODULE RefsAccess -----------------------------
(***************************************************************************)
(* Who may read, write and execute (refs_access in refs.c).  A mode is a   *)
(* set of permission bits, each a pair of a class and a right; a user and  *)
(* the owner of a file are records of a uid and a gid.                     *)
(***************************************************************************)

Rights == {"r", "w", "x"}

(* Granted by one class of the mode. *)
Granted(mode, class) == {r \in Rights : <<class, r>> \in mode}

(* Mutant: the group of the caller is not looked at. *)
allowed_without_group(u, owner, mode) ==
  (IF u.uid = owner.uid THEN Granted(mode, "user") ELSE {}) \cup Granted(mode, "other")

(* All that the caller's classes grant together.  Where POSIX takes the    *)
(* first class that fits, here none takes away what another one gives.     *)
allowed_mode(u, owner, mode) ==
  (IF u.uid = owner.uid THEN Granted(mode, "user") ELSE {})
    \cup (IF u.gid = owner.gid THEN Granted(mode, "group") ELSE {})
    \cup Granted(mode, "other")

(* mask is what the caller asks for; F_OK is {}. *)
refs_access(u, owner, mode, mask) == mask \subseteq allowed_mode(u, owner, mode)

=============================================================================

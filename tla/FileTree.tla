------------------------------ MODULE FileTree ------------------------------
(***************************************************************************)
(* What ReFS promises about its name space: a tree of directories and      *)
(* files.  Requests that change the tree add or remove one edge; a request *)
(* that cannot be served says why and changes nothing.  Inode numbers are  *)
(* the nodes; bitmaps, blocks and link counts are not visible here.        *)
(***************************************************************************)
EXTENDS Naturals

CONSTANTS
  Node,   \* inode numbers
  Root,   \* the inode number of /
  Names   \* names of files and directories

VARIABLES
  edges,  \* the name space: who holds whom under which name
  dirs,   \* the nodes that are directories
  alive,  \* whether the process still serves requests
  reply   \* what the last request returned

vars == <<edges, dirs, alive, reply>>

Held(p, n) == {e \in edges : e.parent = p /\ e.name = n}
Live       == {Root} \cup {e.node : e \in edges}
Empty(d)   == \A e \in edges : e.parent # d

Init ==
  /\ edges = {}
  /\ dirs = {Root}
  /\ alive = TRUE
  /\ reply = "OK"

Create(p, n, isDir) ==
  /\ Held(p, n) = {}
  /\ \E c \in Node \ Live :
       /\ edges' = edges \cup {[parent |-> p, name |-> n, node |-> c]}
       /\ dirs' = IF isDir THEN dirs \cup {c} ELSE dirs
  /\ reply' = "OK"
  /\ UNCHANGED alive

Remove(e) ==
  /\ edges' = edges \ {e}
  /\ dirs' = dirs \ {e.node}
  /\ reply' = "OK"
  /\ UNCHANGED alive

Rmdir(p, n)  == \E e \in Held(p, n) : e.node \in dirs /\ Empty(e.node) /\ Remove(e)
Unlink(p, n) == \E e \in Held(p, n) : e.node \notin dirs /\ Remove(e)

(* The errors a request for n in p may return, each with what it says of   *)
(* the tree.                                                               *)
Refused(p, n) ==
  /\ \/ reply' = "EEXIST"    /\ Held(p, n) # {}
     \/ reply' = "ENOENT"    /\ Held(p, n) = {}
     \/ reply' = "ENOTDIR"   /\ \E e \in Held(p, n) : e.node \notin dirs
     \/ reply' = "EISDIR"    /\ \E e \in Held(p, n) : e.node \in dirs
     \/ reply' = "ENOTEMPTY" /\ \E e \in Held(p, n) : e.node \in dirs /\ ~Empty(e.node)
  /\ UNCHANGED <<edges, dirs, alive>>

(* A change of contents or permissions of a file: the tree stays. *)
FileRequest ==
  /\ Live \ dirs # {}
  /\ reply' \in {"OK", "EACCES"}
  /\ UNCHANGED <<edges, dirs, alive>>

(* An assertion fails or behaviour is undefined: no promise is left.  The  *)
(* request is not answered, or still as if it had been served.             *)
Stop ==
  /\ alive' = FALSE
  /\ edges' = {}
  /\ dirs' = {}
  /\ reply' \in {reply, "OK"}

Next ==
  /\ alive
  /\ \/ \E p \in dirs, n \in Names, isDir \in BOOLEAN : Create(p, n, isDir)
     \/ \E p \in dirs, n \in Names : Rmdir(p, n)
     \/ \E p \in dirs, n \in Names : Unlink(p, n)
     \/ \E p \in dirs, n \in Names : Refused(p, n)
     \/ FileRequest
     \/ Stop

Spec == Init /\ [][Next]_vars

=============================================================================

------------------------------ MODULE ByteFiles ------------------------------
(***************************************************************************)
(* What ReFS promises about files: each is a row of bytes of its own, as   *)
(* long as whole blocks make it, of which the first `size' are its data.   *)
(* A user reads and writes it if its permissions allow it.  Blocks,        *)
(* pointers and bitmaps are not visible here.                              *)
(*                                                                         *)
(* The promise is weaker than that of POSIX in one point: bytes beyond the *)
(* size are not zero but what they were, and a file that grows again shows *)
(* them.                                                                   *)
(***************************************************************************)
EXTENDS Naturals, Sequences

CONSTANTS
  File,       \* inode numbers
  User,       \* who makes requests
  BlockSize,
  Zero,       \* the byte of new blocks
  Sizes,      \* bound: sizes a file is cut or continued to
  Ranges,     \* bound: offsets and sizes of reads and writes
  Values      \* bound: bytes that are written

VARIABLES
  file,    \* the files there are
  answer,  \* to the last request about the contents of a file
  alive    \* whether the process still serves requests

vars == <<file, answer, alive>>

NoFile == [bytes |-> <<>>, size |-> 0, readers |-> {}, writers |-> {}, exists |-> FALSE]

(* Empty files for any readers and writers. *)
NewFiles ==
  [bytes : {<<>>}, size : {0}, readers : SUBSET User, writers : SUBSET User, exists : {TRUE}]

Answer(u, right, ok, bytes) ==
  answer' = [to |-> u, asked |-> right, ok |-> ok, bytes |-> bytes]

Exists(f) == file[f].exists

WholeBlocks(sz) == ((sz + BlockSize - 1) \div BlockSize) * BlockSize

(* The row of bytes cut, or continued with zeros. *)
Fitted(bytes, sz) ==
  [k \in 1 .. WholeBlocks(sz) |-> IF k <= Len(bytes) THEN bytes[k] ELSE Zero]

Resized(f, sz) == [file[f] EXCEPT !.bytes = Fitted(@, sz), !.size = sz]

Resize(u, f, sz) ==
  /\ Answer(u, "w", TRUE, <<>>)
  /\ u \in file[f].writers
  /\ file' = [file EXCEPT ![f] = Resized(f, sz)]

(* The bytes from offset on, size of them, become v. *)
Write(u, f, offset, size, v) ==
  LET end   == offset + size
      ready == IF end > file[f].size THEN Resized(f, end) ELSE file[f]
  IN  /\ Answer(u, "w", TRUE, <<>>)
      /\ u \in file[f].writers
      /\ file' = [file EXCEPT ![f] =
                    [ready EXCEPT !.bytes = [k \in DOMAIN @ |->
                       IF k \in offset + 1 .. end THEN v ELSE @[k]]]]

Read(u, f, offset, size) ==
  /\ u \in file[f].readers
  /\ offset + size <= Len(file[f].bytes)
  /\ Answer(u, "r", TRUE, SubSeq(file[f].bytes, offset + 1, offset + size))
  /\ UNCHANGED file

Deny(u, f) ==
  /\ \/ Answer(u, "r", FALSE, <<>>) /\ u \notin file[f].readers
     \/ Answer(u, "w", FALSE, <<>>) /\ u \notin file[f].writers
  /\ UNCHANGED file

Create(f) ==
  /\ ~Exists(f)
  /\ UNCHANGED answer
  /\ file'[f] \in NewFiles
  /\ file' = [file EXCEPT ![f] = file'[f]]

Remove(f) ==
  /\ file' = [file EXCEPT ![f] = NoFile]
  /\ UNCHANGED answer

SetMode(f) ==
  /\ UNCHANGED answer
  /\ file'[f].readers \subseteq User /\ file'[f].writers \subseteq User
  /\ file' = [file EXCEPT ![f].readers = file'[f].readers, ![f].writers = file'[f].writers]

(* An assertion fails or behaviour is undefined: no promise is left. *)
Stop ==
  /\ alive' = FALSE
  /\ file' = [f \in File |-> NoFile]

Init ==
  /\ file = [f \in File |-> NoFile]
  /\ answer = [to |-> CHOOSE u \in User : TRUE, asked |-> "w", ok |-> TRUE, bytes |-> <<>>]
  /\ alive = TRUE

Request(f) ==
  \/ \E u \in User, sz \in Sizes : Resize(u, f, sz)
  \/ \E u \in User, x \in Ranges, v \in Values : Write(u, f, x.offset, x.size, v)
  \/ \E u \in User, x \in Ranges : Read(u, f, x.offset, x.size)
  \/ \E u \in User : Deny(u, f)
  \/ SetMode(f)
  \/ Remove(f)

Next ==
  /\ alive
  /\ \/ Stop
     \/ \E f \in File : Create(f) /\ UNCHANGED alive
     \/ \E f \in File : Exists(f) /\ Request(f) /\ UNCHANGED alive

Spec == Init /\ [][Next]_vars

=============================================================================

--------------------------- MODULE NameSpaceProofs ---------------------------
(***************************************************************************)
(* Theorems of RefsFS about its name space: the entries of all directories *)
(* make up a tree, link counts follow it, and RefsFS implements FileTree.  *)
(*                                                                         *)
(* The first part takes directory blocks apart: what each handler does to  *)
(* the bytes is one entry more or less.  The second part is about entries  *)
(* only.                                                                   *)
(***************************************************************************)
EXTENDS RefsFSProofs

-----------------------------------------------------------------------------
(* Entries, as a table of inodes and the data blocks have them *)

(* The directories of a table. *)
DirsOf(table) == {i \in Inum : table[i].inUse /\ table[i].isDir}

(* The places for entries in the blocks of a directory. *)
RoomOf(table, d) == (0 .. table[d].blocks - 1) \X Slot

(* What a directory has at a place. *)
Stored(table, blks, d, x) == blks[table[d].ptrs[x[1]]][x[2]]

(* An entry with the directory it is in and its place there. *)
Entry(d, x, v) == [dir |-> d, at |-> x, name |-> v.name, inum |-> v.inum]

(* The places that hold an entry. *)
UsedOf(table, blks, d) == {x \in RoomOf(table, d) : Stored(table, blks, d, x) # NoEntry}

(* All entries of all directories. *)
EntriesOf(table, blks) ==
  UNION {{Entry(d, x, Stored(table, blks, d, x)) : x \in UsedOf(table, blks, d)} :
           d \in DirsOf(table)}

Entries == EntriesOf(inode, data)

-----------------------------------------------------------------------------
(* The inductive invariant *)

(* The entries with a name of their own, neither "." nor "..". *)
Dots     == {".", ".."}
Named(E) == {e \in E : e.name \notin Dots}

(* Entries have names, and no name twice in a directory. *)
WellNamed(E, D) ==
  /\ \A e \in E : e.dir \in D /\ e.name \in Names \cup Dots /\ e.inum \in Inum
  /\ \A e, f \in E : e.dir = f.dir /\ e.name = f.name => e = f

(* Names lead to all of U but the root, one to each, and nowhere else. *)
Leading(E, U) ==
  /\ \A e \in Named(E) : e.inum \in U \ {ROOT_INUM}
  /\ \A e, f \in Named(E) : e.inum = f.inum => e = f
  /\ \A i \in U \ {ROOT_INUM} : \E e \in Named(E) : e.inum = i

(* Where the ".." entry of a directory must lead. *)
LeadsUp(E, e) ==
  IF e.dir = ROOT_INUM THEN e.inum = ROOT_INUM
  ELSE \E f \in Named(E) : f.dir = e.inum /\ f.inum = e.dir

(* Every directory has both its dots, and they lead where they must. *)
Dotted(E, D) ==
  /\ \A d \in D : \E e \in E : e.dir = d /\ e.name = "." /\ e.inum = d
  /\ \A d \in D : \E e \in E : e.dir = d /\ e.name = ".." /\ LeadsUp(E, e)

(* Every set of directories without the root is left by some "..". *)
Rooted(E, D) ==
  \A S \in SUBSET (D \ {ROOT_INUM}) :
    S # {} => \E e \in E : e.dir \in S /\ e.name = ".." /\ e.inum \notin S

(* The entries E of the directories D make a tree of the inodes U. *)
IsTree(E, D, U) ==
  /\ ROOT_INUM \in D
  /\ D \subseteq U
  /\ WellNamed(E, D)
  /\ Leading(E, U)
  /\ Dotted(E, D)
  /\ Rooted(E, D)

(* The edges from i to directories, and the link count they call for.      *)
SubEdges(G, D, i)  == {e \in G : e.parent = i /\ e.node \in D}
LinksFor(k, gone)  == (2 + k + LinkModulus - gone) % LinkModulus

(* Files have one link; gone counts what directories lost with files.      *)
Counted(table, G, gone) ==
  /\ \A i \in Inum : table[i].inUse /\ ~ table[i].isDir => table[i].nLinks = 1
  /\ \A i \in DirsOf(table) :
       table[i].nLinks = LinksFor(Cardinality(SubEdges(G, DirsOf(table), i)), gone[i])
  /\ \A i \in Inum : i \notin DirsOf(table) => gone[i] = 0

(* While the file system is up, its entries make a tree that link counts   *)
(* follow.                                                                 *)
TreeInd ==
  /\ Ind
  /\ Up => IsTree(Entries, Directories, InUse) /\ Counted(inode, Edges, unlinked)

-----------------------------------------------------------------------------
(* Directories in memory *)

(* The blocks of directories are data blocks; no two directories have one  *)
(* in common, and none has one twice.                                      *)
Apart(table) ==
  /\ \A d \in DirsOf(table) : \A k \in 0 .. table[d].blocks - 1 : table[d].ptrs[k] \in Block
  /\ \A d, e \in DirsOf(table) :
       \A k \in 0 .. table[d].blocks - 1, l \in 0 .. table[e].blocks - 1 :
         table[d].ptrs[k] = table[e].ptrs[l] => d = e /\ k = l

(* A directory has the same entries in two states of tables and blocks. *)
SameInside(table, blks, table2, blks2, d) ==
  /\ UsedOf(table2, blks2, d) = UsedOf(table, blks, d)
  /\ \A x \in UsedOf(table, blks, d) : Stored(table2, blks2, d, x) = Stored(table, blks, d, x)

(* What an entry is. *)
LEMMA EntryFields ==
  ASSUME NEW d, NEW x, NEW v
  PROVE  /\ Entry(d, x, v).dir = d
         /\ Entry(d, x, v).at = x
         /\ Entry(d, x, v).name = v.name
         /\ Entry(d, x, v).inum = v.inum
BY DEF Entry

(* What is among the entries. *)
LEMMA EntriesHas ==
  ASSUME NEW table, NEW blks, NEW e
  PROVE  e \in EntriesOf(table, blks) <=>
           \E d \in DirsOf(table) : \E x \in UsedOf(table, blks, d) :
             e = Entry(d, x, Stored(table, blks, d, x))
BY DEF EntriesOf

(* Directories with the same inside have the same entries. *)
LEMMA SameEntries ==
  ASSUME NEW table, NEW blks, NEW table2, NEW blks2, NEW D,
         D \subseteq DirsOf(table), D \subseteq DirsOf(table2),
         \A d \in D : SameInside(table, blks, table2, blks2, d)
  PROVE  \A e : e.dir \in D => (e \in EntriesOf(table2, blks2) <=> e \in EntriesOf(table, blks))
BY EntriesHas, EntryFields DEF SameInside

(* The inside of a directory stays when its blocks stay with what is in    *)
(* them,                                                                   *)
LEMMA BlocksKept ==
  ASSUME NEW table, NEW blks, NEW table2, NEW blks2, NEW d,
         table2[d].blocks = table[d].blocks,
         \A k \in 0 .. table[d].blocks - 1 :
           /\ table2[d].ptrs[k] = table[d].ptrs[k]
           /\ blks2[table[d].ptrs[k]] = blks[table[d].ptrs[k]]
  PROVE  SameInside(table, blks, table2, blks2, d)
BY DEF SameInside, UsedOf, RoomOf, Stored

(* and when it gets one more block, an empty one. *)
LEMMA BlockAdded ==
  ASSUME NEW table, NEW blks, NEW table2, NEW blks2, NEW d,
         table[d].blocks \in Nat,
         table2[d].blocks = table[d].blocks + 1,
         \A k \in 0 .. table[d].blocks - 1 :
           /\ table2[d].ptrs[k] = table[d].ptrs[k]
           /\ blks2[table[d].ptrs[k]] = blks[table[d].ptrs[k]],
         blks2[table2[d].ptrs[table[d].blocks]] = EmptyBlock
  PROVE  SameInside(table, blks, table2, blks2, d)
<1> DEFINE b == table[d].blocks
<1>1. \A k : k \in 0 .. b <=> k \in 0 .. b - 1 \/ k = b
  OBVIOUS
<1>2. b \notin 0 .. b - 1
  OBVIOUS
<1>3. \A s \in Slot : EmptyBlock[s] = NoEntry
  BY DEF EmptyBlock
<1>4. table2[d].blocks - 1 = b
  OBVIOUS
<1> HIDE DEF b
<1>5. \A x \in RoomOf(table, d) : Stored(table2, blks2, d, x) = Stored(table, blks, d, x)
  BY DEF RoomOf, Stored, b
<1>6. \A x : x \in RoomOf(table2, d) <=> x \in RoomOf(table, d) \/ x \in {b} \X Slot
  BY <1>1, <1>4 DEF RoomOf, b
<1>7. \A x \in {b} \X Slot : Stored(table2, blks2, d, x) = NoEntry
  BY <1>3 DEF Stored, b
<1> QED
  BY <1>5, <1>6, <1>7 DEF SameInside, UsedOf

(* Directory blocks as data holds them. *)
Blocks == [Block -> [Slot -> EntryType]]

(* One entry is written. *)
Written(table, blks, p, x, v) == [blks EXCEPT ![table[p].ptrs[x[1]]][x[2]] = v]

(* It is the only one that changes. *)
LEMMA OneWritten ==
  ASSUME NEW table, NEW blks \in Blocks, Apart(table),
         NEW p \in DirsOf(table), NEW x \in RoomOf(table, p), NEW v
  PROVE  \A e : e \in EntriesOf(table, Written(table, blks, p, x, v)) <=>
           \/ e \in EntriesOf(table, blks) /\ ~ (e.dir = p /\ e.at = x)
           \/ v # NoEntry /\ e = Entry(p, x, v)
<1> DEFINE blks2 == Written(table, blks, p, x, v)
<1>1. ASSUME NEW d \in DirsOf(table), NEW y \in RoomOf(table, d)
      PROVE  Stored(table, blks2, d, y) = IF d = p /\ y = x THEN v ELSE Stored(table, blks, d, y)
  <2>1. /\ x[1] \in 0 .. table[p].blocks - 1 /\ x[2] \in Slot /\ x = <<x[1], x[2]>>
        /\ y[1] \in 0 .. table[d].blocks - 1 /\ y[2] \in Slot /\ y = <<y[1], y[2]>>
    BY DEF RoomOf
  <2>2. table[p].ptrs[x[1]] \in Block /\ table[d].ptrs[y[1]] \in Block
    BY <2>1 DEF Apart
  <2>3. table[p].ptrs[x[1]] = table[d].ptrs[y[1]] => d = p /\ y[1] = x[1]
    BY <2>1 DEF Apart
  <2>4. \A b \in Block, s \in Slot :
          blks2[b][s] = IF b = table[p].ptrs[x[1]] /\ s = x[2] THEN v ELSE blks[b][s]
    BY <2>1, <2>2 DEF Written, Blocks
  <2> QED
    BY <2>1, <2>2, <2>3, <2>4 DEF Stored
<1> HIDE DEF blks2
<1>2. \A d \in DirsOf(table) : \A y \in RoomOf(table, d) :
        y \in UsedOf(table, blks2, d) <=>
          IF d = p /\ y = x THEN v # NoEntry ELSE y \in UsedOf(table, blks, d)
  BY <1>1 DEF UsedOf
<1>3. \A d \in DirsOf(table) :
        UsedOf(table, blks, d) \subseteq RoomOf(table, d) /\ UsedOf(table, blks2, d) \subseteq RoomOf(table, d)
  BY DEF UsedOf
<1>4. ASSUME NEW e \in EntriesOf(table, blks2)
      PROVE  \/ e \in EntriesOf(table, blks) /\ ~ (e.dir = p /\ e.at = x)
             \/ v # NoEntry /\ e = Entry(p, x, v)
  <2>1. PICK d, y : /\ d \in DirsOf(table) /\ y \in UsedOf(table, blks2, d)
                    /\ e = Entry(d, y, Stored(table, blks2, d, y))
    BY EntriesHas
  <2>2. y \in RoomOf(table, d)
    BY <2>1 DEF UsedOf
  <2>3. CASE d = p /\ y = x
    <3>1. v # NoEntry
      BY <1>2, <2>1, <2>2, <2>3
    <3>2. e = Entry(p, x, v)
      BY <1>1, <2>1, <2>2, <2>3
    <3> QED
      BY <3>1, <3>2
  <2>4. CASE ~ (d = p /\ y = x)
    <3>1. y \in UsedOf(table, blks, d) /\ Stored(table, blks2, d, y) = Stored(table, blks, d, y)
      BY <1>1, <1>2, <2>1, <2>2, <2>4
    <3>2. e \in EntriesOf(table, blks)
      BY <2>1, <3>1, EntriesHas
    <3>3. e.dir = d /\ e.at = y
      BY <2>1, EntryFields
    <3> QED
      BY <2>4, <3>2, <3>3
  <2> QED
    BY <2>3, <2>4
<1>5. ASSUME NEW e \in EntriesOf(table, blks), ~ (e.dir = p /\ e.at = x)
      PROVE  e \in EntriesOf(table, blks2)
  <2>1. PICK d, y : /\ d \in DirsOf(table) /\ y \in UsedOf(table, blks, d)
                      /\ e = Entry(d, y, Stored(table, blks, d, y))
    BY EntriesHas
  <2>2. ~ (d = p /\ y = x)
    BY <1>5, <2>1, EntryFields
  <2>3. y \in UsedOf(table, blks2, d) /\ Stored(table, blks2, d, y) = Stored(table, blks, d, y)
    BY <1>1, <1>2, <1>3, <2>1, <2>2
  <2> QED
    BY <2>1, <2>3, EntriesHas
<1>6. v # NoEntry => Entry(p, x, v) \in EntriesOf(table, blks2)
  BY <1>1, <1>2, EntriesHas
<1> QED
  BY <1>4, <1>5, <1>6 DEF blks2

(* The directory at c that mkdir makes holds two entries. *)
LEMMA DotsInside ==
  ASSUME NEW table, NEW blks, NEW c \in Inum, NEW p \in Inum, c \in DirsOf(table),
         table[c].blocks = 1, blks[table[c].ptrs[0]] = DirBlock(c, p)
  PROVE  \A e : e \in EntriesOf(table, blks) /\ e.dir = c <=>
           e \in {Entry(c, <<0, 0>>, [name |-> ".", inum |-> c]),
                  Entry(c, <<0, 1>>, [name |-> "..", inum |-> p])}
<1> DEFINE dot == [name |-> ".", inum |-> c]
           up  == [name |-> "..", inum |-> p]
<1>1. \A s : s \in Slot <=> s \in 0 .. DirentsPerBlock - 1
  BY DEF Slot
<1>2. 0 \in Slot /\ 1 \in Slot
  BY <1>1, DirentsAssumption
<1>3. \A s \in Slot : DirBlock(c, p)[s] = IF s = 0 THEN dot ELSE IF s = 1 THEN up ELSE NoEntry
  BY <1>2 DEF DirBlock, EmptyBlock
<1>4. dot # NoEntry /\ up # NoEntry
  <2>1. dot.name = "." /\ up.name = ".." /\ NoEntry.name = ""
    BY DEF NoEntry
  <2> QED
    BY <2>1
<1>5. \A k : k \in 0 .. table[c].blocks - 1 <=> k = 0
  OBVIOUS
<1> HIDE DEF dot, up
<1>6. \A x \in RoomOf(table, c) : x[1] = 0 /\ Stored(table, blks, c, x) = DirBlock(c, p)[x[2]]
  BY <1>5 DEF RoomOf, Stored
<1>7. \A x : x \in UsedOf(table, blks, c) <=> x = <<0, 0>> \/ x = <<0, 1>>
  <2>1. \A x : x \in RoomOf(table, c) <=> \E s \in Slot : x = <<0, s>>
    BY <1>5 DEF RoomOf
  <2> QED
    BY <1>2, <1>3, <1>4, <1>6, <2>1 DEF UsedOf
<1>8. /\ Stored(table, blks, c, <<0, 0>>) = dot
      /\ Stored(table, blks, c, <<0, 1>>) = up
  BY <1>2, <1>3, <1>6, <1>7 DEF UsedOf
<1> QED
  BY <1>7, <1>8, EntriesHas, EntryFields DEF dot, up

-----------------------------------------------------------------------------
(* Trees: one entry more or less *)

(* The entries dot and dotdot of a new directory. *)
DotOf(c)   == Entry(c, <<0, 0>>, [name |-> ".", inum |-> c])
UpOf(c, p) == Entry(c, <<0, 1>>, [name |-> "..", inum |-> p])

(* A new inode c under the entry e, with its own dots if it is a directory. *)
WithEntry(E, e, p, c, isDir) ==
  E \cup {e} \cup (IF isDir THEN {DotOf(c), UpOf(c, p)} ELSE {})

(* The directories there are with the new inode. *)
WithDir(D, c, isDir) == IF isDir THEN D \cup {c} ELSE D

(* The entry e is gone, and what was in the directory it led to. *)
WithoutInode(E, e) == {f \in E : f # e /\ f.dir # e.inum}

(* The dots are not names. *)
LEMMA NamesAreNotDots == \A n \in Names : n \notin Dots /\ n # ""
BY NamesAssumption DEF Dots

(* The dots of a new directory. *)
LEMMA DotFields ==
  ASSUME NEW c, NEW p
  PROVE  /\ DotOf(c).dir = c /\ DotOf(c).name = "." /\ DotOf(c).inum = c
         /\ UpOf(c, p).dir = c /\ UpOf(c, p).name = ".." /\ UpOf(c, p).inum = p
BY EntryFields DEF DotOf, UpOf

(* Creation makes a tree of a tree. *)
LEMMA TreeGains ==
  ASSUME NEW E, NEW D, NEW U, IsTree(E, D, U),
         NEW p \in D, NEW n \in Names, NEW c \in Inum \ U, NEW isDir \in BOOLEAN,
         D \subseteq Inum,
         \A e \in E : ~ (e.dir = p /\ e.name = n),
         NEW x
  PROVE  LET e  == Entry(p, x, [name |-> n, inum |-> c])
             E2 == WithEntry(E, e, p, c, isDir)
         IN  /\ IsTree(E2, WithDir(D, c, isDir), U \cup {c})
             /\ Named(E2) = Named(E) \cup {e}
<1> DEFINE e  == Entry(p, x, [name |-> n, inum |-> c])
           E2 == WithEntry(E, e, p, c, isDir)
           D2 == WithDir(D, c, isDir)
<1>1. e.dir = p /\ e.name = n /\ e.inum = c /\ n \notin Dots
  <2>1. e.dir = p /\ e.name = n /\ e.inum = c
    BY DEF Entry
  <2> QED
    BY <2>1, NamesAreNotDots
<1>2. \A f : f \in E2 <=> f \in E \/ f = e \/ (isDir /\ (f = DotOf(c) \/ f = UpOf(c, p)))
  BY DEF WithEntry
<1> HIDE DEF e, E2
<1>3. \A f \in E : f.dir \in D /\ f.dir # c
  BY DEF IsTree, WellNamed
<1>4. D2 = (IF isDir THEN D \cup {c} ELSE D) /\ p # c /\ p \in Inum /\ c # ROOT_INUM /\ c \notin D
  BY DEF WithDir, IsTree
<1> HIDE DEF D2
<1>5. "." \in Dots /\ ".." \in Dots /\ "." # ".."
  BY DEF Dots
<1>6. \A f : f \in Named(E2) <=> f \in Named(E) \/ f = e
  BY <1>1, <1>2, <1>5, DotFields DEF Named
<1>7. WellNamed(E2, D2)
  <2>1. \A f \in E2 : f.dir \in D2 /\ f.name \in Names \cup Dots /\ f.inum \in Inum
    BY <1>1, <1>2, <1>4, <1>5, DotFields DEF IsTree, WellNamed
  <2>2. ASSUME NEW f \in E2, NEW g \in E2, f.dir = g.dir, f.name = g.name
        PROVE  f = g
    <3>1. CASE f \in E /\ g \in E
      BY <2>2, <3>1 DEF IsTree, WellNamed
    <3>2. CASE f \notin E \/ g \notin E
      BY <1>1, <1>2, <1>3, <1>4, <1>5, <2>2, <3>2, DotFields
    <3> QED
      BY <3>1, <3>2
  <2> QED
    BY <2>1, <2>2 DEF WellNamed
<1>8. Leading(E2, U \cup {c})
  <2>1. \A f \in Named(E2) : f.inum \in (U \cup {c}) \ {ROOT_INUM}
    BY <1>1, <1>4, <1>6 DEF IsTree, Leading
  <2>2. \A f, g \in Named(E2) : f.inum = g.inum => f = g
    BY <1>1, <1>6 DEF IsTree, Leading
  <2>3. \A i \in (U \cup {c}) \ {ROOT_INUM} : \E f \in Named(E2) : f.inum = i
    BY <1>1, <1>6 DEF IsTree, Leading
  <2> QED
    BY <2>1, <2>2, <2>3 DEF Leading
<1>9. Dotted(E2, D2)
  <2>1. \A f \in E : LeadsUp(E, f) => LeadsUp(E2, f)
    BY <1>6 DEF LeadsUp
  <2>2. isDir => LeadsUp(E2, UpOf(c, p))
    BY <1>1, <1>4, <1>6, DotFields DEF LeadsUp
  <2>3. \A d \in D2 : \E f \in E2 : f.dir = d /\ f.name = "." /\ f.inum = d
    BY <1>2, <1>4, DotFields DEF IsTree, Dotted
  <2>4. \A d \in D2 : \E f \in E2 : f.dir = d /\ f.name = ".." /\ LeadsUp(E2, f)
    BY <1>2, <1>4, <2>1, <2>2, DotFields DEF IsTree, Dotted
  <2> QED
    BY <2>3, <2>4 DEF Dotted
<1>10. Rooted(E2, D2)
  <2> SUFFICES ASSUME NEW S \in SUBSET (D2 \ {ROOT_INUM}), S # {}
               PROVE  \E f \in E2 : f.dir \in S /\ f.name = ".." /\ f.inum \notin S
    BY DEF Rooted
  <2>1. CASE S \ {c} = {}
    BY <1>2, <1>4, <2>1, DotFields
  <2>2. CASE S \ {c} # {}
    <3>1. S \ {c} \in SUBSET (D \ {ROOT_INUM})
      BY <1>4
    <3>2. PICK f \in E : f.dir \in S \ {c} /\ f.name = ".." /\ f.inum \notin S \ {c}
      BY <2>2, <3>1 DEF IsTree, Rooted
    <3>3. f.inum \in D
      <4>1. PICK g \in E : g.dir = f.dir /\ g.name = ".." /\ LeadsUp(E, g)
        BY <1>3 DEF IsTree, Dotted
      <4>2. g = f
        BY <3>2, <4>1 DEF IsTree, WellNamed
      <4>3. \A h \in Named(E) : h.dir \in D
        BY <1>3 DEF Named
      <4> QED
        BY <4>1, <4>2, <4>3 DEF LeadsUp, IsTree
    <3> QED
      BY <1>2, <1>4, <3>2, <3>3
  <2> QED
    BY <2>1, <2>2
<1>11. ROOT_INUM \in D2 /\ D2 \subseteq U \cup {c}
  BY <1>4 DEF IsTree
<1>12. Named(E2) = Named(E) \cup {e}
  BY <1>6
<1> QED
  BY <1>7, <1>8, <1>9, <1>10, <1>11, <1>12 DEF IsTree, D2, E2, e

(* Removal of an inode that holds no name makes a tree of a tree. *)
LEMMA TreeLoses ==
  ASSUME NEW E, NEW D, NEW U, IsTree(E, D, U),
         NEW e \in Named(E), \A f \in Named(E) : f.dir # e.inum
  PROVE  /\ IsTree(WithoutInode(E, e), D \ {e.inum}, U \ {e.inum})
         /\ Named(WithoutInode(E, e)) = Named(E) \ {e}
<1> DEFINE c  == e.inum
           E2 == WithoutInode(E, e)
<1>1. \A f : f \in E2 <=> f \in E /\ f # e /\ f.dir # c
  BY DEF WithoutInode
<1>2. c \in U \ {ROOT_INUM} /\ e \in E /\ e.name \notin Dots
  BY DEF IsTree, Leading, Named
<1> HIDE DEF E2, c
<1>3. \A f : f \in Named(E2) <=> f \in Named(E) /\ f # e
  BY <1>1 DEF Named, c
<1>4. WellNamed(E2, D \ {c})
  BY <1>1 DEF IsTree, WellNamed
<1>5. Leading(E2, U \ {c})
  <2>1. \A f \in Named(E2) : f.inum \in (U \ {c}) \ {ROOT_INUM}
    BY <1>3 DEF IsTree, Leading, c
  <2>2. \A f, g \in Named(E2) : f.inum = g.inum => f = g
    BY <1>3 DEF IsTree, Leading
  <2>3. \A i \in (U \ {c}) \ {ROOT_INUM} : \E f \in Named(E2) : f.inum = i
    BY <1>3 DEF IsTree, Leading, c
  <2> QED
    BY <2>1, <2>2, <2>3 DEF Leading
<1>6. \A f \in E : f.dir # c /\ f.name \in Dots => f \in E2
  BY <1>1, <1>2
<1>7. \A f \in E : f.dir # c /\ LeadsUp(E, f) => LeadsUp(E2, f)
  BY <1>3 DEF LeadsUp, c
<1>8. Dotted(E2, D \ {c})
  BY <1>6, <1>7 DEF IsTree, Dotted, Dots
<1>9. Rooted(E2, D \ {c})
  <2> SUFFICES ASSUME NEW S \in SUBSET ((D \ {c}) \ {ROOT_INUM}), S # {}
               PROVE  \E f \in E2 : f.dir \in S /\ f.name = ".." /\ f.inum \notin S
    BY DEF Rooted
  <2>1. PICK f \in E : f.dir \in S /\ f.name = ".." /\ f.inum \notin S
    BY DEF IsTree, Rooted
  <2> QED
    BY <1>6, <2>1 DEF Dots
<1>10. ROOT_INUM \in D \ {c} /\ D \ {c} \subseteq U \ {c}
  BY <1>2 DEF IsTree
<1>11. Named(E2) = Named(E) \ {e}
  BY <1>3
<1> QED
  BY <1>4, <1>5, <1>8, <1>9, <1>10, <1>11 DEF IsTree, E2, c

(* Where an entry is, and what it says. *)
LEMMA EntryIs ==
  ASSUME NEW table, NEW blks, NEW e \in EntriesOf(table, blks)
  PROVE  /\ e.dir \in DirsOf(table)
         /\ e.at \in UsedOf(table, blks, e.dir)
         /\ e = Entry(e.dir, e.at, Stored(table, blks, e.dir, e.at))
         /\ e.name = Stored(table, blks, e.dir, e.at).name
         /\ e.inum = Stored(table, blks, e.dir, e.at).inum
<1>1. PICK d, x : /\ d \in DirsOf(table) /\ x \in UsedOf(table, blks, d)
                  /\ e = Entry(d, x, Stored(table, blks, d, x))
  BY EntriesHas
<1>2. e.dir = d /\ e.at = x
  BY <1>1, EntryFields
<1> QED
  BY <1>1, <1>2, EntryFields

(* A directory without names, made in p. *)
OnlyDots(table, blks, c, p) ==
  \A e : e \in EntriesOf(table, blks) /\ e.dir = c <=> e \in {DotOf(c), UpOf(c, p)}

(* A creation, once its new blocks are in place, adds one entry.           *)
LEMMA EntryAdded ==
  ASSUME NEW table, NEW blks, NEW table2, NEW blks1 \in Blocks,
         Apart(table2),
         NEW c, NEW isDir \in BOOLEAN, c \notin DirsOf(table),
         DirsOf(table2) = WithDir(DirsOf(table), c, isDir),
         \A d \in DirsOf(table) : SameInside(table, blks, table2, blks1, d),
         NEW p \in DirsOf(table),
         isDir => OnlyDots(table2, blks1, c, p),
         NEW x \in RoomOf(table2, p), x \notin UsedOf(table, blks, p),
         NEW v, v # NoEntry, NEW blks2, blks2 = Written(table2, blks1, p, x, v)
  PROVE  EntriesOf(table2, blks2) = WithEntry(EntriesOf(table, blks), Entry(p, x, v), p, c, isDir)
<1>1. \A d : d \in DirsOf(table2) <=> d \in DirsOf(table) \/ (isDir /\ d = c)
  BY DEF WithDir
<1>2. \A e : e.dir \in DirsOf(table) => (e \in EntriesOf(table2, blks1) <=> e \in EntriesOf(table, blks))
  <2>1. DirsOf(table) \subseteq DirsOf(table2)
    BY <1>1
  <2> QED
    BY <2>1, SameEntries
<1>3. \A e : e \in EntriesOf(table2, blks1) <=>
        e \in EntriesOf(table, blks) \/ (isDir /\ (e = DotOf(c) \/ e = UpOf(c, p)))
  BY <1>1, <1>2, EntryIs, DotFields DEF OnlyDots
<1>4. \A e : e \in EntriesOf(table2, blks2) <=>
        \/ e \in EntriesOf(table2, blks1) /\ ~ (e.dir = p /\ e.at = x)
        \/ e = Entry(p, x, v)
  <2>1. p \in DirsOf(table2)
    BY <1>1
  <2> SUFFICES ASSUME NEW e
               PROVE  e \in EntriesOf(table2, blks2) <=>
                        \/ e \in EntriesOf(table2, blks1) /\ ~ (e.dir = p /\ e.at = x)
                        \/ e = Entry(p, x, v)
    OBVIOUS
  <2> QED
    BY <2>1, OneWritten
<1>5. \A e \in EntriesOf(table2, blks1) : ~ (e.dir = p /\ e.at = x)
  BY EntryIs DEF SameInside
<1>6. \A e : e \in EntriesOf(table2, blks2) <=>
        \/ e \in EntriesOf(table, blks)
        \/ isDir /\ (e = DotOf(c) \/ e = UpOf(c, p))
        \/ e = Entry(p, x, v)
  BY <1>3, <1>4, <1>5
<1> QED
  BY <1>6 DEF WithEntry

(* A removal takes one entry out, and a directory it led to. *)
LEMMA EntryRemoved ==
  ASSUME NEW table, NEW blks \in Blocks, Apart(table),
         NEW e \in EntriesOf(table, blks),
         NEW blks1, blks1 = Written(table, blks, e.dir, e.at, NoEntry),
         NEW table2, NEW blks2, DirsOf(table2) = DirsOf(table) \ {e.inum},
         \A d \in DirsOf(table2) : SameInside(table, blks1, table2, blks2, d)
  PROVE  EntriesOf(table2, blks2) = WithoutInode(EntriesOf(table, blks), e)
<1> DEFINE E == EntriesOf(table, blks)
<1>1. e.dir \in DirsOf(table) /\ e.at \in RoomOf(table, e.dir)
  BY EntryIs DEF UsedOf
<1>2. \A f : f \in EntriesOf(table, blks1) <=> f \in E /\ ~ (f.dir = e.dir /\ f.at = e.at)
  BY <1>1, OneWritten
<1>3. \A f \in E : f.dir = e.dir /\ f.at = e.at <=> f = e
  <2>1. ASSUME NEW f \in E PROVE f = Entry(f.dir, f.at, Stored(table, blks, f.dir, f.at))
    BY EntryIs
  <2> QED
    BY <2>1
<1>4. \A f : f.dir \in DirsOf(table2) => (f \in EntriesOf(table2, blks2) <=> f \in EntriesOf(table, blks1))
  <2>1. DirsOf(table2) \subseteq DirsOf(table)
    OBVIOUS
  <2> SUFFICES ASSUME NEW f, f.dir \in DirsOf(table2)
               PROVE  f \in EntriesOf(table2, blks2) <=> f \in EntriesOf(table, blks1)
    OBVIOUS
  <2> HIDE DEF E
  <2> QED
    BY <2>1, SameEntries
<1>5. \A f \in EntriesOf(table2, blks2) : f.dir \in DirsOf(table2)
  BY EntryIs
<1>6. \A f \in E : f.dir \in DirsOf(table)
  BY EntryIs
<1>7. \A f : f \in EntriesOf(table2, blks2) <=> f \in E /\ f # e /\ f.dir # e.inum
  BY <1>2, <1>3, <1>4, <1>5, <1>6
<1> QED
  BY <1>7 DEF WithoutInode

-----------------------------------------------------------------------------
(* The entries of the file system *)

(* The blocks of directories lie apart. *)
LEMMA SaneApart ==
  ASSUME NEW bits, NEW blocks, NEW table, Sane(bits, blocks, table), blocks \subseteq Block
  PROVE  Apart(table)
<1>1. ASSUME NEW d \in DirsOf(table), NEW k \in 0 .. table[d].blocks - 1
      PROVE  table[d].ptrs[k] \in Held(table[d]) /\ table[d].ptrs[k] \in Block
  <2>1. table[d].ptrs[k] \in Held(table[d])
    BY DEF Held, BlocksAt
  <2> QED
    BY <2>1 DEF DirsOf, Sane
<1>2. ASSUME NEW d \in DirsOf(table), NEW e \in DirsOf(table),
             NEW k \in 0 .. table[d].blocks - 1, NEW l \in 0 .. table[e].blocks - 1,
             table[d].ptrs[k] = table[e].ptrs[l]
      PROVE  d = e /\ k = l
  <2>1. d = e
    <3>1. table[d].ptrs[k] \in Held(table[d]) /\ table[d].ptrs[k] \in Held(table[e])
      BY <1>1, <1>2
    <3>2. d \in Inum /\ e \in Inum
      BY DEF DirsOf
    <3> QED
      BY <3>1, <3>2 DEF Sane
  <2> QED
    BY <1>2, <2>1 DEF DirsOf, Sane, HoldsDistinct
<1> QED
  BY <1>1, <1>2 DEF Apart

(* The entries as the handlers see them. *)
LEMMA EntriesAre ==
  /\ Directories = DirsOf(inode)
  /\ \A d : Places(d) = RoomOf(inode, d)
  /\ \A d, x : EntryAt(d, x) = Stored(inode, data, d, x)
  /\ Entries = EntriesOf(inode, data)
BY DEF Directories, DirsOf, IsDir, Places, RoomOf, EntryAt, Stored, Entries

(* A free place has no name. *)
LEMMA NoEntryNamed == \A n \in Names \cup Dots : NoEntry.name # n
<1>1. NoEntry.name = ""
  BY DEF NoEntry
<1>2. "" \notin Names
  BY NamesAssumption
<1>3. "" \notin Dots
  BY DEF Dots
<1> QED
  BY <1>1, <1>2, <1>3

(* The hits of a search are entries, *)
LEMMA HitsAre ==
  ASSUME NEW d \in Directories, NEW n \in Names \cup Dots
  PROVE  /\ \A x \in Hits(d, n) :
              LET e == Entry(d, x, EntryAt(d, x))
              IN  /\ e \in Entries
                  /\ e.dir = d /\ e.name = n /\ e.at = x /\ e.inum = EntryAt(d, x).inum
         /\ \A e \in Entries : e.dir = d /\ e.name = n => e.at \in Hits(d, n)
<1>1. ASSUME NEW x \in Hits(d, n)
      PROVE  /\ Entry(d, x, EntryAt(d, x)) \in Entries
             /\ EntryAt(d, x).name = n
  <2>1. x \in Places(d) /\ EntryAt(d, x).name = n
    BY DEF Hits
  <2>2. EntryAt(d, x) # NoEntry
    BY <2>1, NoEntryNamed
  <2>3. x \in UsedOf(inode, data, d)
    BY <2>1, <2>2, EntriesAre DEF UsedOf
  <2>4. d \in DirsOf(inode) /\ EntryAt(d, x) = Stored(inode, data, d, x)
    BY EntriesAre
  <2>5. Entry(d, x, Stored(inode, data, d, x)) \in EntriesOf(inode, data)
    BY <2>3, <2>4, EntriesHas
  <2> QED
    BY <2>1, <2>4, <2>5 DEF Entries
<1>2. ASSUME NEW e \in Entries, e.dir = d, e.name = n
      PROVE  e.at \in Hits(d, n)
  <2>1. e.at \in UsedOf(inode, data, d) /\ e.name = Stored(inode, data, d, e.at).name
    BY <1>2, EntryIs DEF Entries
  <2> QED
    BY <1>2, <2>1, EntriesAre DEF UsedOf, Hits
<1> QED
  BY <1>1, <1>2, EntryFields

(* and there is at most one. *)
LEMMA LookupIs ==
  ASSUME Ind, Up, NEW d \in Directories, NEW n \in Names \cup Dots, WellNamed(Entries, Directories)
  PROVE  \/ /\ inum_from_path(d, n) = NoInum
            /\ Hits(d, n) = {}
            /\ \A e \in Entries : ~ (e.dir = d /\ e.name = n)
         \/ \E e \in Entries :
              /\ e.dir = d /\ e.name = n
              /\ inum_from_path(d, n) = e.inum
              /\ Hits(d, n) = {e.at}
              /\ First(Hits(d, n)) = e.at
<1>1. d \in Inum /\ TypeOK
  BY DEF Directories, Ind
<1>2. CASE Hits(d, n) = {}
  BY <1>2, HitsAre DEF inum_from_path
<1>3. CASE Hits(d, n) # {}
  <2> DEFINE x == First(Hits(d, n))
             e == Entry(d, x, EntryAt(d, x))
  <2>1. x \in Hits(d, n)
    BY <1>1, <1>3, PlacesType DEF Hits
  <2>2. e \in Entries /\ e.dir = d /\ e.name = n /\ e.at = x /\ e.inum = EntryAt(d, x).inum
    BY <2>1, HitsAre
  <2>3. ASSUME NEW y \in Hits(d, n)
        PROVE  y = x
    <3> DEFINE f == Entry(d, y, EntryAt(d, y))
    <3>1. f \in Entries /\ f.dir = d /\ f.name = n /\ f.at = y
      BY HitsAre
    <3> HIDE DEF e, f
    <3>2. e = f
      BY <2>2, <3>1 DEF WellNamed
    <3> QED
      BY <2>2, <3>1, <3>2
  <2>4. inum_from_path(d, n) = EntryAt(d, x).inum
    BY <1>3 DEF inum_from_path
  <2> HIDE DEF e, x
  <2>5. Hits(d, n) = {x}
    BY <2>1, <2>3
  <2> QED
    BY <2>2, <2>4, <2>5 DEF x
<1> QED
  BY <1>2, <1>3

(* The edge of the name space that an entry is. *)
EdgeOf(e) == [parent |-> e.dir, name |-> e.name, node |-> e.inum]

(* Its fields. *)
LEMMA EdgeFields ==
  ASSUME NEW e
  PROVE  EdgeOf(e).parent = e.dir /\ EdgeOf(e).name = e.name /\ EdgeOf(e).node = e.inum
BY DEF EdgeOf

(* The edges are the entries that have a name. *)
LEMMA EdgesAre == \A g : g \in Edges <=> \E e \in Named(Entries) : g = EdgeOf(e)
<1>1. ASSUME NEW g \in Edges
      PROVE  \E e \in Named(Entries) : g = EdgeOf(e)
  <2>1. PICK d, x : /\ d \in Directories /\ x \in Places(d) /\ EntryAt(d, x) # NoEntry
                    /\ EntryAt(d, x).name \notin {".", ".."}
                    /\ g = [parent |-> d, name |-> EntryAt(d, x).name, node |-> EntryAt(d, x).inum]
    BY DEF Edges
  <2> DEFINE e == Entry(d, x, EntryAt(d, x))
  <2>2. d \in DirsOf(inode) /\ EntryAt(d, x) = Stored(inode, data, d, x) /\ x \in UsedOf(inode, data, d)
    BY <2>1, EntriesAre DEF UsedOf
  <2>3. e \in Entries
    BY <2>2, EntriesHas DEF Entries
  <2>4. e.dir = d /\ e.name = EntryAt(d, x).name /\ e.inum = EntryAt(d, x).inum
    BY EntryFields
  <2> HIDE DEF e
  <2>5. g = EdgeOf(e)
    BY <2>1, <2>4 DEF EdgeOf
  <2> QED
    BY <2>1, <2>3, <2>4, <2>5 DEF Named, Dots
<1>2. ASSUME NEW e \in Named(Entries)
      PROVE  EdgeOf(e) \in Edges
  <2> DEFINE d == e.dir
             x == e.at
  <2>1. e \in Entries /\ e.name \notin {".", ".."}
    BY DEF Named, Dots
  <2>2. /\ d \in DirsOf(inode) /\ x \in UsedOf(inode, data, d)
        /\ e.name = Stored(inode, data, d, x).name /\ e.inum = Stored(inode, data, d, x).inum
    BY <2>1, EntryIs DEF Entries
  <2> HIDE DEF d, x
  <2>3. /\ d \in Directories /\ x \in Places(d) /\ EntryAt(d, x) # NoEntry
        /\ e.name = EntryAt(d, x).name /\ e.inum = EntryAt(d, x).inum
    BY <2>2, EntriesAre DEF UsedOf
  <2>4. EdgeOf(e) = [parent |-> d, name |-> EntryAt(d, x).name, node |-> EntryAt(d, x).inum]
    BY <2>3 DEF EdgeOf, d
  <2> QED
    BY <2>1, <2>3, <2>4 DEF Edges
<1> QED
  BY <1>1, <1>2

(* dir_isempty finds a directory empty when it holds no name. *)
LEMMA EmptyIs ==
  ASSUME NEW c \in Directories
  PROVE  dir_isempty(c) <=> \A f \in Named(Entries) : f.dir # c
<1>1. ASSUME NEW f \in Named(Entries), f.dir = c
      PROVE  ~ dir_isempty(c)
  <2>1. f \in Entries /\ f.name \notin {".", ".."}
    BY DEF Named, Dots
  <2>2. f.at \in UsedOf(inode, data, c) /\ f.name = Stored(inode, data, c, f.at).name
    BY <1>1, <2>1, EntryIs DEF Entries
  <2> QED
    BY <2>1, <2>2, EntriesAre DEF UsedOf, dir_isempty
<1>2. ASSUME NEW x \in Places(c), EntryAt(c, x) # NoEntry, EntryAt(c, x).name \notin {".", ".."}
      PROVE  \E f \in Named(Entries) : f.dir = c
  <2> DEFINE f == Entry(c, x, EntryAt(c, x))
  <2>1. c \in DirsOf(inode) /\ EntryAt(c, x) = Stored(inode, data, c, x) /\ x \in UsedOf(inode, data, c)
    BY <1>2, EntriesAre DEF UsedOf
  <2>2. f \in Entries
    BY <2>1, EntriesHas DEF Entries
  <2>3. f.dir = c /\ f.name = EntryAt(c, x).name
    BY EntryFields
  <2> HIDE DEF f
  <2> QED
    BY <1>2, <2>2, <2>3 DEF Named, Dots
<1> QED
  BY <1>1, <1>2 DEF dir_isempty

-----------------------------------------------------------------------------
(* What the invariant says of the name space *)

(* Cardinalities of the sets that have at most one element. *)
LEMMA FewElements ==
  /\ Cardinality({}) = 0
  /\ \A x : Cardinality({x}) = 1
BY FS_EmptySet, FS_Singleton

(* Directories by their two definitions. *)
LEMMA DirectoryIs == \A i : i \in Directories <=> i \in Inum /\ i \in InUse /\ IsDir(i)
BY DEF Directories, IsDir, InUse

(* Each name once, each inode under one name. *)
LEMMA TreeHasOneEntryEach ==
  ASSUME Ind, Up, IsTree(Entries, Directories, InUse)
  PROVE  OneEntryEach
<1>1. ASSUME NEW d \in Directories, NEW n \in Names
      PROVE  Cardinality(Hits(d, n)) <= 1
  <2>1. Hits(d, n) = {} \/ \E e \in Entries : Hits(d, n) = {e.at}
    BY LookupIs DEF IsTree
  <2>2. Cardinality(Hits(d, n)) \in {0, 1}
    BY <2>1, FewElements
  <2> QED
    BY <2>2
<1>2. ASSUME NEW i \in InUse \ {ROOT_INUM}
      PROVE  Cardinality({g \in Edges : g.node = i}) = 1
  <2>1. PICK e \in Named(Entries) : e.inum = i
    BY DEF IsTree, Leading
  <2>2. EdgeOf(e) \in Edges /\ EdgeOf(e).node = i
    BY <2>1, EdgesAre, EdgeFields
  <2>3. ASSUME NEW g \in Edges, g.node = i
        PROVE  g = EdgeOf(e)
    <3>1. PICK f \in Named(Entries) : g = EdgeOf(f)
      BY EdgesAre
    <3>2. f = e
      BY <2>1, <2>3, <3>1, EdgeFields DEF IsTree, Leading
    <3> QED
      BY <3>1, <3>2
  <2>4. {g \in Edges : g.node = i} = {EdgeOf(e)}
    BY <2>2, <2>3
  <2> QED
    BY <2>4, FewElements
<1>3. \A g \in Edges : g.node \in InUse \ {ROOT_INUM}
  BY EdgesAre, EdgeFields DEF IsTree, Leading
<1> QED
  BY <1>1, <1>2, <1>3 DEF OneEntryEach

(* What a search for a dot finds in a directory. *)
LEMMA DotFound ==
  ASSUME Ind, Up, IsTree(Entries, Directories, InUse),
         NEW e \in Entries, e.name \in Names \cup Dots
  PROVE  inum_from_path(e.dir, e.name) = e.inum
<1>1. e.dir \in Directories
  BY DEF IsTree, WellNamed
<1>2. PICK f \in Entries : f.dir = e.dir /\ f.name = e.name /\ inum_from_path(e.dir, e.name) = f.inum
  BY <1>1, LookupIs DEF IsTree
<1>3. f = e
  BY <1>2 DEF IsTree, WellNamed
<1> QED
  BY <1>2, <1>3

(* The dots of a directory lead to itself and up. *)
LEMMA TreeHasDots ==
  ASSUME Ind, Up, IsTree(Entries, Directories, InUse)
  PROVE  DotsLeadHome
<1> SUFFICES ASSUME NEW d \in Directories
             PROVE  /\ inum_from_path(d, ".") = d
                    /\ IF d = ROOT_INUM THEN ParentOf(d) = ROOT_INUM
                       ELSE \E n \in Names : [parent |-> ParentOf(d), name |-> n, node |-> d] \in Edges
  BY DEF DotsLeadHome
<1>1. inum_from_path(d, ".") = d
  <2>1. PICK e \in Entries : e.dir = d /\ e.name = "." /\ e.inum = d
    BY DEF IsTree, Dotted
  <2> QED
    BY <2>1, DotFound DEF Dots
<1>2. PICK e \in Entries : e.dir = d /\ e.name = ".." /\ LeadsUp(Entries, e)
  BY DEF IsTree, Dotted
<1>3. ParentOf(d) = e.inum
  BY <1>2, DotFound DEF Dots, ParentOf
<1>4. CASE d = ROOT_INUM
  BY <1>1, <1>2, <1>3, <1>4 DEF LeadsUp
<1>5. CASE d # ROOT_INUM
  <2>1. PICK f \in Named(Entries) : f.dir = e.inum /\ f.inum = d
    BY <1>2, <1>5 DEF LeadsUp
  <2>2. f.name \in Names
    BY DEF IsTree, WellNamed, Named
  <2>3. EdgeOf(f) \in Edges /\ EdgeOf(f) = [parent |-> e.inum, name |-> f.name, node |-> d]
    BY <2>1, EdgesAre DEF EdgeOf
  <2> QED
    BY <1>1, <1>3, <1>5, <2>2, <2>3
<1> QED
  BY <1>4, <1>5

(* No circle is cut off from the root. *)
LEMMA TreeHasNoCircle ==
  ASSUME Ind, Up, IsTree(Entries, Directories, InUse)
  PROVE  NoCutOffCircle
<1> SUFFICES ASSUME NEW S \in SUBSET (Directories \ {ROOT_INUM}), S # {}
             PROVE  \E d \in S : ParentOf(d) \notin S
  BY DEF NoCutOffCircle
<1>1. PICK e \in Entries : e.dir \in S /\ e.name = ".." /\ e.inum \notin S
  BY DEF IsTree, Rooted
<1>2. ParentOf(e.dir) = e.inum
  BY <1>1, DotFound DEF Dots, ParentOf
<1> QED
  BY <1>1, <1>2

(* Link counts follow the tree. *)
LEMMA TreeHasLinkCounts ==
  ASSUME Ind, Up, IsTree(Entries, Directories, InUse), Counted(inode, Edges, unlinked)
  PROVE  LinkCounts
<1> SUFFICES ASSUME NEW i \in InUse
             PROVE  inode[i].nLinks =
                      IF IsFile(i) THEN 1
                      ELSE LinksFor(Cardinality({g \in Edges : g.parent = i /\ IsDir(g.node)}), unlinked[i])
  BY DEF LinkCounts, LinksFor
<1>1. i \in Inum /\ inode[i].inUse
  BY DEF InUse
<1>2. CASE IsFile(i)
  BY <1>1, <1>2 DEF IsFile, Counted
<1>3. CASE ~ IsFile(i)
  <2>1. i \in DirsOf(inode)
    BY <1>1, <1>3 DEF IsFile, DirsOf
  <2>2. \A g \in Edges : g.node \in InUse
    BY EdgesAre, EdgeFields DEF IsTree, Leading
  <2>3. \A g \in Edges : IsDir(g.node) <=> g.node \in DirsOf(inode)
    BY <2>2 DEF IsDir, DirsOf, InUse
  <2>4. {g \in Edges : g.parent = i /\ IsDir(g.node)} = SubEdges(Edges, DirsOf(inode), i)
    BY <2>3 DEF SubEdges
  <2> QED
    BY <1>3, <2>1, <2>4 DEF Counted
<1> QED
  BY <1>2, <1>3

(* What the invariant says to a reader of the name space. *)
LEMMA TreeIndImplies ==
  ASSUME TreeInd
  PROVE  OneEntryEach /\ DotsLeadHome /\ NoCutOffCircle /\ LinkCounts
<1>1. CASE Up
  BY <1>1, TreeHasOneEntryEach, TreeHasDots, TreeHasNoCircle, TreeHasLinkCounts DEF TreeInd
<1>2. CASE ~ Up
  BY <1>2 DEF OneEntryEach, DotsLeadHome, NoCutOffCircle, LinkCounts
<1> QED
  BY <1>1, <1>2

-----------------------------------------------------------------------------
(* What each handler does to the entries *)

(* The blocks of directories are in the bitmap. *)
LEMMA DirBlocksTaken ==
  ASSUME Ind, Up, NEW d \in Directories, NEW k \in 0 .. inode[d].blocks - 1
  PROVE  inode[d].ptrs[k] \in Block /\ inode[d].ptrs[k] \in dataBitmap
<1>1. d \in Inum
  BY DEF Directories
<1>2. inode[d].ptrs[k] \in Block /\ inode[d].ptrs[k] \in Owned(d)
  BY <1>1, PtrsAreBlocks
<1> QED
  BY <1>1, <1>2 DEF Ind, Sane, Owned

(* The new entry gets a free place, in a block the parent has by then. *)
LEMMA OpenPlaceIs ==
  ASSUME Ind, Up, NEW p \in Inum, IsDir(p), ~ NoRoom(p),
         NEW m, m = inode[p].blocks + (IF NeedsBlock(p) THEN 1 ELSE 0)
  PROVE  /\ OpenPlace(p) \in (0 .. m - 1) \X Slot
         /\ OpenPlace(p) \notin UsedOf(inode, data, p)
         /\ NeedsBlock(p) => OpenPlace(p)[1] = inode[p].blocks
<1>1. inode[p].blocks \in Nat /\ 0 \in Slot /\ TypeOK
  BY PointersAssumption, DirentsAssumption DEF Ind, TypeOK, InodeType, MaxFileBlocks, Slot
<1>2. CASE NeedsBlock(p)
  <2> DEFINE b == inode[p].blocks
  <2>1. m = b + 1 /\ b \in 0 .. m - 1 /\ b \notin 0 .. b - 1
    BY <1>1, <1>2
  <2>2. OpenPlace(p) = <<b, 0>>
    BY <1>2 DEF OpenPlace
  <2> HIDE DEF b
  <2> QED
    BY <1>1, <2>1, <2>2 DEF UsedOf, RoomOf, b
<1>3. CASE ~ NeedsBlock(p)
  <2>1. OpenPlace(p) = First(FreePlaces(p)) /\ FreePlaces(p) # {} /\ FreePlaces(p) \subseteq Places(p)
    BY <1>3 DEF OpenPlace, NeedsBlock, FreePlaces
  <2>2. OpenPlace(p) \in FreePlaces(p)
    BY <1>1, <2>1, PlacesType
  <2>3. OpenPlace(p) \in Places(p) /\ EntryAt(p, OpenPlace(p)) = NoEntry
    BY <2>2 DEF FreePlaces
  <2>4. m = inode[p].blocks
    BY <1>1, <1>3
  <2> QED
    BY <1>3, <2>3, <2>4, EntriesAre DEF UsedOf, Places
<1> QED
  BY <1>2, <1>3

(* A creation that finds room adds its entry, and the dots of a directory. *)
LEMMA LinkAdds ==
  ASSUME Ind, Up, Ind', Up',
         NEW p \in Inum, IsDir(p), ~ NoRoom(p), NEW n \in Names, NEW isDir \in BOOLEAN,
         NEW child \in InodeType, child.inUse, child.isDir = isDir,
         isDir => child.blocks = 1 /\ child.ptrs[0] = NewBlocks(p, isDir)[1],
         NEW contents,
         contents = (IF isDir THEN [data EXCEPT ![NewBlocks(p, isDir)[1]] = DirBlock(reserve_inode, p)]
                     ELSE data),
         reserve_inode < NumInodes,
         Link(p, n, reserve_inode, child, contents, NewBlocks(p, isDir))
  PROVE  /\ reserve_inode \in Inum \ InUse
         /\ InUse' = InUse \cup {reserve_inode}
         /\ Directories' = WithDir(Directories, reserve_inode, isDir)
         /\ Entries' = WithEntry(Entries, Entry(p, OpenPlace(p), [name |-> n, inum |-> reserve_inode]),
                                 p, reserve_inode, isDir)
<1> DEFINE c      == reserve_inode
           got    == NewBlocks(p, isDir)
           last   == got[ForChild(isDir) + 1]
           parent == WithChild(p, isDir, got)
           x      == OpenPlace(p)
           v      == [name |-> n, inum |-> c]
           home   == parent.ptrs[x[1]]
           blks1  == IF NeedsBlock(p) THEN [contents EXCEPT ![home] = EmptyBlock] ELSE contents
<1>1. /\ TypeOK /\ inode \in [Inum -> InodeType] /\ data \in [Block -> [Slot -> EntryType]]
      /\ Sane(inodeBitmap, dataBitmap, inode)
      /\ Sane(inodeBitmap', dataBitmap', inode') /\ dataBitmap' \subseteq Block
  BY DEF Ind, TypeOK
<1>2. c \in Inum /\ c \notin InUse /\ c # p /\ p \in InUse /\ p \in Directories
  BY <1>1, ReservedInode DEF Sane, IsDir, InUse, Directories
<1>3. /\ isDir => got[1] \in Block /\ got[1] \notin dataBitmap
      /\ NeedsBlock(p) => last \in Block /\ last \notin dataBitmap
      /\ isDir /\ NeedsBlock(p) => got[1] # last
  <2>1. AfterReserving(got) = "up"
    BY DEF Link, Up
  <2>2. isDir => ForChild(isDir) = 1
    BY DEF ForChild
  <2> HIDE DEF got
  <2>3. BlocksIn(got) \cap dataBitmap = {}
    BY <2>1, NewBlocksSplit DEF got
  <2>4. isDir => got[1] \in BlocksIn(got) /\ got[1] \in Block
    BY NewBlocksSplit DEF got
  <2>5. NeedsBlock(p) => last \in BlocksIn(got) /\ last \in Block
    BY NewBlocksSplit DEF got
  <2>6. isDir /\ NeedsBlock(p) => got[1] # got[2]
    BY <2>1, NewBlocksSplit DEF got
  <2> QED
    BY <2>2, <2>3, <2>4, <2>5, <2>6
<1>4. /\ parent.inUse /\ parent.isDir
      /\ parent.blocks = inode[p].blocks + (IF NeedsBlock(p) THEN 1 ELSE 0)
      /\ \A k \in 0 .. inode[p].blocks - 1 : parent.ptrs[k] = inode[p].ptrs[k]
      /\ NeedsBlock(p) => parent.ptrs[inode[p].blocks] = last
  <2> DEFINE r == IF NeedsBlock(p) THEN AddBlock(inode[p], last) ELSE inode[p]
  <2>1. parent.inUse /\ Alike(r, parent)
    BY <1>3, ParentShape
  <2>2. inode[p] \in InodeType /\ inode[p].isDir /\ NumDirect \in Nat \ {0} /\ PtrsPerBlock \in Nat
        /\ inode[p].blocks \in Nat
    BY <1>1, PointersAssumption DEF IsDir, InodeType, MaxFileBlocks
  <2>3. /\ r.isDir = inode[p].isDir
        /\ r.blocks = inode[p].blocks + (IF NeedsBlock(p) THEN 1 ELSE 0)
        /\ \A k \in 0 .. inode[p].blocks - 1 : r.ptrs[k] = inode[p].ptrs[k]
        /\ NeedsBlock(p) => r.ptrs[inode[p].blocks] = last
    <3>1. CASE NeedsBlock(p)
      <4>1. inode[p].blocks < NumDirect
        BY <2>2, <3>1 DEF NoRoom
      <4>2. inode[p].blocks \in PtrIndex /\ \A k \in 0 .. inode[p].blocks - 1 : k # inode[p].blocks
        BY <2>2, <4>1 DEF PtrIndex, MaxFileBlocks
      <4>3. /\ AddBlock(inode[p], last).isDir = inode[p].isDir
            /\ AddBlock(inode[p], last).blocks = inode[p].blocks + 1
            /\ AddBlock(inode[p], last).ptrs = [inode[p].ptrs EXCEPT ![inode[p].blocks] = last]
        BY <1>3, <2>2, <3>1, <4>1, AddBlockShape
      <4>4. \A k \in 0 .. inode[p].blocks - 1 : k \in PtrIndex
        BY <2>2, <4>1 DEF PtrIndex, MaxFileBlocks
      <4>5. inode[p].ptrs \in [PtrIndex -> Block \cup {NoBlock}]
        BY <2>2 DEF InodeType
      <4> QED
        BY <3>1, <4>2, <4>3, <4>4, <4>5
    <3>2. CASE ~ NeedsBlock(p)
      <4>1. r = inode[p]
        BY <3>2
      <4>2. inode[p].blocks + (IF NeedsBlock(p) THEN 1 ELSE 0) = inode[p].blocks
        BY <2>2, <3>2
      <4> HIDE DEF r
      <4> QED
        BY <3>2, <4>1, <4>2
    <3> QED
      BY <3>1, <3>2
  <2> HIDE DEF r, parent
  <2> QED
    BY <2>1, <2>2, <2>3 DEF Alike
<1>5. inode' = [inode EXCEPT ![c] = child, ![p] = parent]
  BY DEF Link
<1>6. data' = [contents EXCEPT ![home] = [(IF NeedsBlock(p) THEN EmptyBlock ELSE contents[home])
                                            EXCEPT ![x[2]] = v]]
  BY DEF Link
<1>7. /\ x \in (0 .. parent.blocks - 1) \X Slot
      /\ x \notin UsedOf(inode, data, p)
      /\ NeedsBlock(p) => x[1] = inode[p].blocks
  BY <1>4, OpenPlaceIs
<1> HIDE DEF parent, x, v, got, c
<1>8. \A d \in Inum : inode'[d] = IF d = p THEN parent ELSE IF d = c THEN child ELSE inode[d]
  BY <1>1, <1>2, <1>5
<1>9. \A d : d \in DirsOf(inode') <=> d \in DirsOf(inode) \/ (isDir /\ d = c)
  BY <1>2, <1>4, <1>8 DEF DirsOf, Directories, IsDir, InUse
<1>10. /\ DirsOf(inode') = WithDir(DirsOf(inode), c, isDir)
       /\ c \notin DirsOf(inode)
       /\ p \in DirsOf(inode) /\ p \in DirsOf(inode')
       /\ InUse' = InUse \cup {c}
  <2>1. \A d : d \in InUse' <=> d \in InUse \/ d = c
    BY <1>2, <1>4, <1>8 DEF InUse
  <2>2. p \in DirsOf(inode) /\ c \notin DirsOf(inode)
    BY <1>2, EntriesAre DEF InUse, DirsOf
  <2> QED
    BY <1>9, <2>1, <2>2 DEF WithDir
<1>11. x \in RoomOf(inode', p) /\ x[1] \in 0 .. parent.blocks - 1 /\ x[2] \in Slot
  <2>1. inode'[p] = parent /\ p \in Inum
    BY <1>8
  <2> QED
    BY <1>7, <2>1 DEF RoomOf
<1>12. Apart(inode')
  BY <1>1, SaneApart
<1>13. home \in Block /\ home = inode'[p].ptrs[x[1]] /\ (NeedsBlock(p) => home = last)
  <2>1. inode'[p] = parent
    BY <1>8
  <2>2. parent.ptrs[x[1]] \in Block
    BY <1>10, <1>11, <1>12, <2>1 DEF Apart
  <2> QED
    BY <1>4, <1>7, <2>1, <2>2
<1> HIDE DEF home
<1>14. \A b \in Block : contents[b] = IF isDir /\ b = got[1] THEN DirBlock(c, p) ELSE data[b]
  BY <1>1, <1>3 DEF got, c
<1>15. contents \in [Block -> [Slot -> EntryType]]
  <2>1. DirBlock(c, p) \in [Slot -> EntryType]
    BY <1>2, DirBlockType
  <2> QED
    BY <1>1, <2>1 DEF c
<1>16. /\ blks1 \in [Block -> [Slot -> EntryType]]
       /\ \A b \in Block : blks1[b] = IF NeedsBlock(p) /\ b = home THEN EmptyBlock ELSE contents[b]
  BY <1>13, <1>15, DirBlockType
<1>17. data' = Written(inode', blks1, p, x, v)
  <2>1. data' = [contents EXCEPT ![home] = [blks1[home] EXCEPT ![x[2]] = v]]
    BY <1>6, <1>13, <1>16
  <2>2. data' = [blks1 EXCEPT ![home] = [blks1[home] EXCEPT ![x[2]] = v]]
    BY <1>13, <1>15, <1>16, <2>1
  <2> HIDE DEF blks1
  <2> QED
    BY <1>13, <2>2 DEF Written
<1> HIDE DEF blks1
<1>18. ASSUME NEW d \in DirsOf(inode)
       PROVE  SameInside(inode, data, inode', blks1, d)
  <2>1. d \in Inum /\ d \in Directories /\ d # c
    BY <1>10, EntriesAre DEF DirsOf
  <2>2. ASSUME NEW k \in 0 .. inode[d].blocks - 1
        PROVE  inode'[d].ptrs[k] = inode[d].ptrs[k] /\ blks1[inode[d].ptrs[k]] = data[inode[d].ptrs[k]]
    <3>1. inode[d].ptrs[k] \in Block /\ inode[d].ptrs[k] \in dataBitmap
      BY <2>1, DirBlocksTaken
    <3>2. blks1[inode[d].ptrs[k]] = data[inode[d].ptrs[k]]
      BY <1>3, <1>13, <1>14, <1>16, <3>1
    <3> QED
      BY <1>4, <1>8, <2>1, <3>2
  <2>3. CASE d = p /\ NeedsBlock(p)
    <3>1. inode[d].blocks \in Nat
      BY <1>1, <2>1, PointersAssumption DEF InodeType, MaxFileBlocks
    <3>2. inode'[d].blocks = inode[d].blocks + 1
      BY <1>4, <1>8, <2>3
    <3>3. blks1[inode'[d].ptrs[inode[d].blocks]] = EmptyBlock
      BY <1>4, <1>8, <1>13, <1>16, <2>3
    <3> QED
      BY <2>2, <3>1, <3>2, <3>3, BlockAdded
  <2>4. CASE ~ (d = p /\ NeedsBlock(p))
    <3>1. inode[d].blocks \in Nat
      BY <1>1, <2>1, PointersAssumption DEF InodeType, MaxFileBlocks
    <3>2. inode'[d].blocks = inode[d].blocks
      BY <1>4, <1>8, <2>1, <2>4, <3>1
    <3> QED
      BY <2>2, <3>2, BlocksKept
  <2> QED
    BY <2>3, <2>4
<1>19. isDir => OnlyDots(inode', blks1, c, p)
  <2> SUFFICES ASSUME isDir
               PROVE  OnlyDots(inode', blks1, c, p)
    OBVIOUS
  <2>1. inode'[c] = child /\ c \in DirsOf(inode')
    BY <1>2, <1>8, <1>9
  <2>2. inode'[c].blocks = 1 /\ inode'[c].ptrs[0] = got[1]
    BY <2>1 DEF got
  <2>3. blks1[got[1]] = DirBlock(c, p)
    BY <1>3, <1>13, <1>14, <1>16
  <2> QED
    BY <1>2, <2>1, <2>2, <2>3, DotsInside DEF OnlyDots, DotOf, UpOf
<1>20. v # NoEntry
  BY NoEntryNamed DEF v
<1>21. EntriesOf(inode', data') = WithEntry(EntriesOf(inode, data), Entry(p, x, v), p, c, isDir)
  <2>1. blks1 \in Blocks
    BY <1>16 DEF Blocks
  <2> QED
    BY <1>7, <1>10, <1>11, <1>12, <1>17, <1>18, <1>19, <1>20, <2>1, EntryAdded
<1>22. Directories' = DirsOf(inode') /\ Entries' = EntriesOf(inode', data')
  BY DEF Directories, DirsOf, IsDir, Entries
<1> QED
  BY <1>2, <1>10, <1>21, <1>22, EntriesAre DEF x, v, c

(* Directories with the same records and blocks have the same entries. *)
LEMMA DirsKept ==
  ASSUME NEW table, NEW blks, NEW table2, NEW blks2,
         DirsOf(table2) = DirsOf(table),
         \A d \in DirsOf(table) : SameInside(table, blks, table2, blks2, d)
  PROVE  EntriesOf(table2, blks2) = EntriesOf(table, blks)
<1>1. DirsOf(table) \subseteq DirsOf(table2) /\ DirsOf(table) \subseteq DirsOf(table)
  OBVIOUS
<1>2. \A e : e.dir \in DirsOf(table) => (e \in EntriesOf(table2, blks2) <=> e \in EntriesOf(table, blks))
  BY <1>1, SameEntries
<1>3. \A e \in EntriesOf(table2, blks2) : e.dir \in DirsOf(table)
  BY EntryIs
<1>4. \A e \in EntriesOf(table, blks) : e.dir \in DirsOf(table)
  BY EntryIs
<1> QED
  BY <1>2, <1>3, <1>4

(* A change of a file keeps the entries. *)
LEMMA FileStepKeeps ==
  ASSUME Ind, NEW i \in Inum, IsFile(i), NEW r, r.inUse, ~ r.isDir,
         inode' = [inode EXCEPT ![i] = r], data' = data
  PROVE  /\ Entries' = Entries
         /\ Directories' = Directories
         /\ InUse' = InUse
<1>1. \A d \in Inum : inode'[d] = IF d = i THEN r ELSE inode[d]
  BY DEF Ind, TypeOK
<1>2. \A d : d \in DirsOf(inode') <=> d \in DirsOf(inode)
  BY <1>1 DEF DirsOf, IsFile
<1>3. \A d : d \in InUse' <=> d \in InUse
  BY <1>1 DEF InUse, IsFile
<1>4. ASSUME NEW d \in DirsOf(inode)
      PROVE  SameInside(inode, data, inode', data', d)
  <2>1. inode'[d] = inode[d]
    BY <1>1 DEF DirsOf, IsFile
  <2> QED
    BY <2>1, BlocksKept
<1>5. DirsOf(inode') = DirsOf(inode)
  BY <1>2
<1>6. EntriesOf(inode', data') = EntriesOf(inode, data)
  <2> DEFINE table2 == inode'
             blks2  == data'
  <2>1. DirsOf(table2) = DirsOf(inode)
    BY <1>5
  <2>2. \A d \in DirsOf(inode) : SameInside(inode, data, table2, blks2, d)
    BY <1>4
  <2> HIDE DEF table2, blks2
  <2>3. EntriesOf(table2, blks2) = EntriesOf(inode, data)
    BY <2>1, <2>2, DirsKept
  <2> QED
    BY <2>3 DEF table2, blks2
<1>7. Directories' = DirsOf(inode') /\ Entries' = EntriesOf(inode', data')
  BY DEF Directories, DirsOf, IsDir, Entries
<1>8. InUse' = InUse
  BY <1>3
<1> QED
  BY <1>5, <1>6, <1>7, <1>8, EntriesAre

(* A removal takes its entry, and the directory it led to. *)
LEMMA RemovalTakes ==
  ASSUME Ind, Up, NEW p \in Inum, NEW n,
         NEW e \in Entries, e.dir = p, First(Hits(p, n)) = e.at, NEW c \in Inum, c = e.inum,
         \A i \in Inum : inode'[i] = IF i = c THEN FreeInode ELSE WithoutLinks(p, c)[i],
         \A b \in Block : b \notin DirBlocks(c) => data'[b] = WithoutEntry(p, n)[b]
  PROVE  /\ Entries' = WithoutInode(Entries, e)
         /\ Directories' = Directories \ {c}
         /\ InUse' = InUse \ {c}
<1> DEFINE blks1 == Written(inode, data, p, e.at, NoEntry)
<1>1. /\ TypeOK /\ data \in Blocks /\ inode \in [Inum -> InodeType]
      /\ Sane(inodeBitmap, dataBitmap, inode) /\ dataBitmap \subseteq Block
  BY DEF Ind, TypeOK, Blocks
<1>2. Apart(inode)
  BY <1>1, SaneApart
<1>3. WithoutEntry(p, n) = blks1
  BY DEF WithoutEntry, Written
<1>4. /\ \A j \in Inum : Alike(inode[j], WithoutLinks(p, c)[j])
      /\ WithoutLinks(p, c) \in [Inum -> InodeType]
  BY RemovalKeeps
<1> HIDE DEF blks1
<1>5. \A d \in Inum : inode'[d] = IF d = c THEN FreeInode ELSE WithoutLinks(p, c)[d]
  OBVIOUS
<1>6. \A d \in Inum : d # c => Alike(inode[d], inode'[d])
  BY <1>4, <1>5
<1>7. inode'[c] = FreeInode /\ c \in Inum
  BY <1>5
<1>8. DirsOf(inode') = DirsOf(inode) \ {c}
  <2>1. \A d : d \in DirsOf(inode') <=> d \in DirsOf(inode) /\ d # c
    BY <1>6, <1>7, FreeInodeFields DEF DirsOf, Alike
  <2> QED
    BY <2>1
<1>9. InUse' = InUse \ {c}
  <2>1. \A d : d \in InUse' <=> d \in InUse /\ d # c
    BY <1>6, <1>7, FreeInodeFields DEF InUse, Alike
  <2> QED
    BY <2>1
<1>10. ASSUME NEW d \in DirsOf(inode')
       PROVE  SameInside(inode, blks1, inode', data', d)
  <2>1. d \in Inum /\ d # c /\ d \in DirsOf(inode) /\ Alike(inode[d], inode'[d])
    BY <1>6, <1>8 DEF DirsOf
  <2>2. ASSUME NEW k \in 0 .. inode[d].blocks - 1
        PROVE  data'[inode[d].ptrs[k]] = blks1[inode[d].ptrs[k]]
    <3>1. inode[d].ptrs[k] \in Block
      BY <1>2, <2>1 DEF Apart
    <3>2. inode[d].ptrs[k] \in Held(inode[d])
      BY DEF Held, BlocksAt
    <3>3. inode[d].ptrs[k] \notin Held(inode[c])
      BY <1>1, <1>7, <2>1, <3>2 DEF Sane
    <3>4. DirBlocks(c) \subseteq Held(inode[c])
      BY DEF DirBlocks, Held
    <3> QED
      BY <1>3, <3>1, <3>3, <3>4
  <2>3. inode'[d].blocks = inode[d].blocks /\ inode'[d].ptrs = inode[d].ptrs
    BY <2>1 DEF Alike
  <2> QED
    BY <2>2, <2>3, BlocksKept
<1>11. EntriesOf(inode', data') = WithoutInode(EntriesOf(inode, data), e)
  <2>1. e \in EntriesOf(inode, data) /\ blks1 = Written(inode, data, e.dir, e.at, NoEntry)
    BY DEF Entries, blks1
  <2> QED
    BY <1>1, <1>2, <1>8, <1>10, <2>1, EntryRemoved
<1>12. Directories' = DirsOf(inode') /\ Entries' = EntriesOf(inode', data')
  BY DEF Directories, DirsOf, IsDir, Entries
<1> QED
  BY <1>8, <1>9, <1>11, <1>12, EntriesAre

-----------------------------------------------------------------------------
(* Link counts *)

(* The count that 16 bits hold follows a directory more, a directory less  *)
(* and a file that was unlinked, wherever it wraps around.                 *)
LEMMA LinksFollow ==
  ASSUME NEW k \in Nat, NEW u \in 0 .. LinkModulus - 1
  PROVE  /\ IncLinks(LinksFor(k, u)) = LinksFor(k + 1, u)
         /\ DecLinks(LinksFor(k + 1, u)) = LinksFor(k, u)
         /\ DecLinks(LinksFor(k, u)) = LinksFor(k, (u + 1) % LinkModulus)
         /\ LinksFor(0, 0) = 2
<1> DEFINE M == LinkModulus
           a == 2 + k + M - u
<1>1. M \in Nat \ {0} /\ M > 2
  BY LinksAssumption
<1> HIDE DEF M
<1>2. u \in 0 .. M - 1
  BY DEF M
<1>3. a \in Nat /\ a >= 3 /\ a - 1 \in Nat /\ a + 1 \in Nat /\ M - 1 \in Nat
  BY <1>1, <1>2
<1>4. a = 2 + k + M - u /\ a + 1 = 2 + (k + 1) + M - u
  BY <1>1, <1>2
<1> HIDE DEF a
<1>5. LinksFor(k, u) = a % M /\ LinksFor(k + 1, u) = (a + 1) % M
  BY <1>4 DEF LinksFor, M
<1>6. IncLinks(LinksFor(k, u)) = LinksFor(k + 1, u)
  <2>1. ((a % M) + 1) % M = (a + 1) % M
    BY <1>1, <1>3, RemainderOfSum
  <2> QED
    BY <1>5, <2>1 DEF IncLinks, M
<1>7. DecLinks(LinksFor(k + 1, u)) = LinksFor(k, u)
  <2> DEFINE b == (a + 1) % M
  <2>1. b \in Nat /\ b + M - 1 = b + (M - 1)
    BY <1>1, <1>3
  <2>2. (b + (M - 1)) % M = ((a + 1) + (M - 1)) % M
    BY <1>1, <1>3, RemainderOfSum
  <2>3. (a + 1) + (M - 1) = a + M
    BY <1>1, <1>3
  <2>4. (a + M) % M = a % M
    BY <1>1, <1>3, RemainderOfMore
  <2> HIDE DEF b
  <2>5. DecLinks(LinksFor(k + 1, u)) = (b + (M - 1)) % M
    BY <1>5, <2>1 DEF DecLinks, M, b
  <2> QED
    BY <1>5, <2>2, <2>3, <2>4, <2>5
<1>8. DecLinks(LinksFor(k, u)) = LinksFor(k, (u + 1) % LinkModulus)
  <2> DEFINE b == a % M
  <2>1. b \in Nat /\ b + M - 1 = b + (M - 1)
    BY <1>1, <1>3
  <2>2. (b + (M - 1)) % M = (a + (M - 1)) % M
    BY <1>1, <1>3, RemainderOfSum
  <2>3. a + (M - 1) = (a - 1) + M
    BY <1>1, <1>3
  <2>4. ((a - 1) + M) % M = (a - 1) % M
    BY <1>1, <1>3, RemainderOfMore
  <2> HIDE DEF b
  <2>5. DecLinks(LinksFor(k, u)) = (b + (M - 1)) % M
    BY <1>5, <2>1 DEF DecLinks, M, b
  <2>6. LinksFor(k, (u + 1) % M) = (a - 1) % M
    <3>1. CASE u + 1 < M
      <4>1. (u + 1) % M = u + 1
        BY <1>1, <1>2, <3>1, DivisionIs
      <4>2. 2 + k + M - (u + 1) = a - 1
        BY <1>1, <1>2, <1>4
      <4> QED
        BY <4>1, <4>2 DEF LinksFor, M
    <3>2. CASE u + 1 = M
      <4>1. (u + 1) % M = 0
        BY <1>1, <1>2, <3>2
      <4>2. 2 + k + M - 0 = (a - 1) + M
        BY <1>1, <1>2, <1>4, <3>2
      <4> QED
        BY <2>4, <4>1, <4>2 DEF LinksFor, M
    <3> QED
      BY <1>1, <1>2, <3>1, <3>2
  <2> QED
    BY <2>2, <2>3, <2>4, <2>5, <2>6 DEF M
<1>9. LinksFor(0, 0) = 2
  <2>1. 2 + 0 + M - 0 = 2 + M
    BY <1>1
  <2>2. (2 + M) % M = 2 % M
    BY <1>1, RemainderOfMore
  <2>3. 2 % M = 2
    BY <1>1, DivisionIs
  <2> QED
    BY <2>1, <2>2, <2>3 DEF LinksFor, M
<1> QED
  BY <1>6, <1>7, <1>8, <1>9

(* The edges of a set of entries. *)
EdgesOf(E) == {EdgeOf(e) : e \in Named(E)}

(* Those of all entries are the edges of the name space. *)
LEMMA EdgesAreOf == Edges = EdgesOf(Entries)
BY EdgesAre DEF EdgesOf

(* There are no more edges than inodes. *)
LEMMA EdgesFinite ==
  ASSUME NEW E, NEW D, NEW U, IsTree(E, D, U), U \subseteq Inum
  PROVE  IsFiniteSet(EdgesOf(E))
<1> DEFINE G == EdgesOf(E)
           f == [g \in G |-> g.node]
<1>1. \A g \in G : \E e \in Named(E) : g = EdgeOf(e)
  BY DEF EdgesOf
<1> HIDE DEF G
<1>2. f \in [G -> Inum]
  BY <1>1, EdgeFields DEF IsTree, Leading
<1>3. \A g, h \in G : f[g] = f[h] => g = h
  <2> SUFFICES ASSUME NEW g \in G, NEW h \in G, g.node = h.node
               PROVE  g = h
    OBVIOUS
  <2>1. PICK d \in Named(E) : g = EdgeOf(d)
    BY <1>1
  <2>2. PICK e \in Named(E) : h = EdgeOf(e)
    BY <1>1
  <2>3. d = e
    BY <2>1, <2>2, EdgeFields DEF IsTree, Leading
  <2> QED
    BY <2>1, <2>2, <2>3
<1> HIDE DEF f
<1>4. f \in Injection(G, Inum)
  BY <1>2, <1>3, Fun_IsInj
<1>5. IsFiniteSet(Inum)
  <2>1. 0 \in Int /\ NumInodes - 1 \in Int
    BY InodesAssumption
  <2> QED
    BY <2>1, FS_Interval DEF Inum
<1> QED
  BY <1>4, <1>5, FS_Injection DEF G

(* So directories in a directory can be counted. *)
LEMMA SubEdgesFinite ==
  ASSUME NEW E, NEW D, NEW U, IsTree(E, D, U), U \subseteq Inum, NEW D2, NEW i
  PROVE  IsFiniteSet(SubEdges(EdgesOf(E), D2, i)) /\ Cardinality(SubEdges(EdgesOf(E), D2, i)) \in Nat
<1>1. SubEdges(EdgesOf(E), D2, i) \in SUBSET EdgesOf(E)
  BY DEF SubEdges
<1>2. IsFiniteSet(SubEdges(EdgesOf(E), D2, i))
  BY <1>1, EdgesFinite, FS_Subset
<1> QED
  BY <1>2, FS_CardinalityType

(* From the edges of E and the directories D to those with the entry e.    *)
EdgeMore(E, D, U, e, G2, D2) ==
  /\ IsTree(E, D, U) /\ U \subseteq Inum
  /\ e.dir \in D /\ e.inum \notin U
  /\ \A j : j \in D2 => j \in D \/ j = e.inum
  /\ D \subseteq D2
  /\ \A g : g \in G2 <=> g \in EdgesOf(E) \/ g = EdgeOf(e)

(* And to those without it. *)
EdgeLess(E, D, U, e, G2, D2) ==
  /\ IsTree(E, D, U) /\ U \subseteq Inum
  /\ e \in Named(E)
  /\ \A j : j \in D2 <=> j \in D /\ j # e.inum
  /\ \A g : g \in G2 <=> g \in EdgesOf(E) /\ g # EdgeOf(e)

(* A new inode under the entry e: one more in its parent if a directory,   *)
(* none in the inode itself.                                               *)
LEMMA SubEdgesGain ==
  ASSUME NEW E, NEW D, NEW U, NEW e, NEW G2, NEW D2, EdgeMore(E, D, U, e, G2, D2), NEW i
  PROVE  /\ i = e.inum => Cardinality(SubEdges(G2, D2, i)) = 0
         /\ i # e.inum =>
              Cardinality(SubEdges(G2, D2, i)) =
                Cardinality(SubEdges(EdgesOf(E), D, i)) + (IF e.inum \in D2 /\ i = e.dir THEN 1 ELSE 0)
<1> DEFINE c      == e.inum
           G      == EdgesOf(E)
           before == SubEdges(G, D, i)
           after  == SubEdges(G2, D2, i)
<1> USE DEF EdgeMore
<1>1. \A g \in G : g.parent \in D /\ g.node \in U
  BY EdgeFields DEF EdgesOf, IsTree, WellNamed, Leading, Named
<1>2. EdgeOf(e).parent = e.dir /\ EdgeOf(e).node = c
  BY EdgeFields
<1>3. c \notin D /\ e.dir # c
  BY DEF IsTree
<1>4. \A j : j \in D2 <=> j \in D \/ (c \in D2 /\ j = c)
  OBVIOUS
<1>5. IsFiniteSet(before) /\ Cardinality(before) \in Nat
  BY SubEdgesFinite
<1>6. \A g : g \in before <=> g \in G /\ g.parent = i /\ g.node \in D
  BY DEF SubEdges
<1>7. \A g : g \in after <=> (g \in G \/ g = EdgeOf(e)) /\ g.parent = i /\ g.node \in D2
  BY DEF SubEdges
<1> HIDE DEF G, c, before, after
<1>8. \A g : g \in after <=> g \in before \/ (g = EdgeOf(e) /\ c \in D2 /\ i = e.dir)
  BY <1>1, <1>2, <1>3, <1>4, <1>6, <1>7 DEF c
<1>9. EdgeOf(e) \notin before
  BY <1>1, <1>2, <1>6 DEF c
<1>10. CASE i = c
  <2>1. after = {}
    BY <1>1, <1>3, <1>6, <1>8, <1>10
  <2> QED
    BY <1>10, <2>1, FewElements DEF after, G, c
<1>11. CASE i # c /\ c \in D2 /\ i = e.dir
  <2>1. after = before \cup {EdgeOf(e)}
    BY <1>8, <1>11
  <2>2. Cardinality(after) = Cardinality(before) + 1
    BY <1>5, <1>9, <2>1, FS_AddElement
  <2> QED
    BY <1>11, <2>2 DEF before, after, G, c
<1>12. CASE i # c /\ ~ (c \in D2 /\ i = e.dir)
  <2>1. after = before
    BY <1>8, <1>12
  <2>2. Cardinality(after) = Cardinality(before) + 0
    BY <1>5, <2>1
  <2> QED
    BY <1>12, <2>2 DEF before, after, G, c
<1> QED
  BY <1>10, <1>11, <1>12 DEF c

(* The entry e and what it led to are gone: one less in its parent if that *)
(* was a directory.                                                        *)
LEMMA SubEdgesLoss ==
  ASSUME NEW E, NEW D, NEW U, NEW e, NEW G2, NEW D2, EdgeLess(E, D, U, e, G2, D2), NEW i
  PROVE  /\ Cardinality(SubEdges(G2, D2, i)) \in Nat
         /\ Cardinality(SubEdges(EdgesOf(E), D, i)) =
              Cardinality(SubEdges(G2, D2, i))
                + (IF e.inum \in D /\ i = e.dir THEN 1 ELSE 0)
<1> DEFINE c      == e.inum
           G      == EdgesOf(E)
           before == SubEdges(G, D, i)
           after  == SubEdges(G2, D2, i)
<1> USE DEF EdgeLess
<1>1. \A g \in G : g.node = c => g = EdgeOf(e)
  BY EdgeFields DEF EdgesOf, IsTree, Leading
<1>2. EdgeOf(e).parent = e.dir /\ EdgeOf(e).node = c /\ EdgeOf(e) \in G
  BY EdgeFields DEF EdgesOf
<1>3. IsFiniteSet(before) /\ Cardinality(before) \in Nat
  BY SubEdgesFinite
<1>4. \A g : g \in before <=> g \in G /\ g.parent = i /\ g.node \in D
  BY DEF SubEdges
<1>5. \A g : g \in after <=> g \in G /\ g # EdgeOf(e) /\ g.parent = i /\ g.node \in D /\ g.node # c
  BY DEF SubEdges
<1> HIDE DEF G, c, before, after
<1>6. after = before \ {EdgeOf(e)}
  BY <1>1, <1>4, <1>5
<1>7. EdgeOf(e) \in before <=> c \in D /\ i = e.dir
  BY <1>2, <1>4
<1>8. /\ IsFiniteSet(after)
      /\ Cardinality(after) = IF EdgeOf(e) \in before THEN Cardinality(before) - 1 ELSE Cardinality(before)
  BY <1>3, <1>6, FS_RemoveElement
<1>9. Cardinality(after) \in Nat
  BY <1>8, FS_CardinalityType
<1>10. Cardinality(before) = Cardinality(after) + (IF c \in D /\ i = e.dir THEN 1 ELSE 0)
  BY <1>3, <1>7, <1>8
<1> QED
  BY <1>3, <1>9, <1>10 DEF before, after, G, c

(* A step that changes neither directories nor their link counts.          *)
LEMMA CountedKeeps ==
  ASSUME NEW table, NEW table2, NEW G, NEW gone, Counted(table, G, gone),
         DirsOf(table2) = DirsOf(table),
         \A i \in Inum : table2[i].nLinks = table[i].nLinks /\ table2[i].inUse = table[i].inUse
                           /\ table2[i].isDir = table[i].isDir
  PROVE  Counted(table2, G, gone)
<1>1. \A i \in DirsOf(table) : i \in Inum
  BY DEF DirsOf
<1> QED
  BY <1>1 DEF Counted

(* A creation. *)
LEMMA CountedGains ==
  ASSUME NEW E, NEW U, NEW table, NEW table2, NEW e, NEW G2,
         EdgeMore(E, DirsOf(table), U, e, G2, DirsOf(table2)),
         NEW gone \in [Inum -> 0 .. LinkModulus - 1], Counted(table, EdgesOf(E), gone),
         e.inum \in Inum,
         \A i \in Inum : i # e.inum => table2[i].inUse = table[i].inUse /\ table2[i].isDir = table[i].isDir,
         \A i \in Inum : i # e.inum /\ i # e.dir => table2[i].nLinks = table[i].nLinks,
         table2[e.inum].nLinks = (IF e.inum \in DirsOf(table2) THEN 2 ELSE 1),
         table2[e.dir].nLinks =
           (IF e.inum \in DirsOf(table2) THEN IncLinks(table[e.dir].nLinks) ELSE table[e.dir].nLinks)
  PROVE  Counted(table2, G2, gone)
<1> DEFINE c  == e.inum
           p  == e.dir
           D  == DirsOf(table)
           D2 == DirsOf(table2)
           G  == EdgesOf(E)
<1>1. /\ EdgeMore(E, D, U, e, G2, D2) /\ IsTree(E, D, U) /\ U \subseteq Inum
      /\ c \notin D /\ p \in D /\ p # c
  BY DEF EdgeMore, IsTree
<1>2. \A i : i \in D2 <=> i \in D \/ (c \in D2 /\ i = c)
  BY DEF EdgeMore
<1>3. /\ \A i \in Inum : table[i].inUse /\ ~ table[i].isDir => table[i].nLinks = 1
      /\ \A i \in D : table[i].nLinks = LinksFor(Cardinality(SubEdges(G, D, i)), gone[i])
      /\ \A i \in Inum : i \notin D => gone[i] = 0
  BY DEF Counted
<1>4. /\ \A i : i \in D <=> i \in Inum /\ table[i].inUse /\ table[i].isDir
      /\ \A i : i \in D2 <=> i \in Inum /\ table2[i].inUse /\ table2[i].isDir
  BY DEF DirsOf
<1> HIDE DEF D, D2
<1>5. ASSUME NEW i \in D
      PROVE  /\ Cardinality(SubEdges(G, D, i)) \in Nat
             /\ Cardinality(SubEdges(G2, D2, i)) =
                  Cardinality(SubEdges(G, D, i)) + (IF c \in D2 /\ i = p THEN 1 ELSE 0)
  <2>1. Cardinality(SubEdges(G, D, i)) \in Nat
    BY <1>1, SubEdgesFinite
  <2>2. i # c
    BY <1>1
  <2> QED
    BY <1>1, <2>1, <2>2, SubEdgesGain
<1>6. Cardinality(SubEdges(G2, D2, c)) = 0
  BY <1>1, SubEdgesGain
<1> HIDE DEF G, c, p
<1>7. ASSUME NEW i \in Inum, table2[i].inUse, ~ table2[i].isDir
      PROVE  table2[i].nLinks = 1
  <2>1. CASE i = c
    BY <1>4, <1>7, <2>1 DEF c, D2
  <2>2. CASE i # c
    <3>1. i # p
      BY <1>1, <1>4, <1>7, <2>2 DEF c
    <3> QED
      BY <1>3, <1>7, <2>2, <3>1 DEF c, p
  <2> QED
    BY <2>1, <2>2
<1>8. ASSUME NEW i \in D2
      PROVE  table2[i].nLinks = LinksFor(Cardinality(SubEdges(G2, D2, i)), gone[i])
  <2>0. i \in Inum
    BY <1>4
  <2>1. CASE i = c
    <3>1. table2[c].nLinks = 2 /\ gone[c] = 0
      BY <1>1, <1>3, <1>4, <1>8, <2>1 DEF c, D2
    <3>2. LinksFor(0, 0) = 2
      <4>1. 0 \in Nat /\ 0 \in 0 .. LinkModulus - 1
        BY LinksAssumption
      <4> QED
        BY <4>1, LinksFollow
    <3> QED
      BY <1>6, <2>1, <3>1, <3>2
  <2>2. CASE i # c /\ c \in D2 /\ i = p
    <3> DEFINE k == Cardinality(SubEdges(G, D, i))
    <3>1. i \in D
      BY <1>2, <2>2
    <3>2. k \in Nat /\ Cardinality(SubEdges(G2, D2, i)) = k + 1 /\ gone[i] \in 0 .. LinkModulus - 1
      BY <1>5, <2>0, <2>2, <3>1
    <3>3. table[i].nLinks = LinksFor(k, gone[i])
      BY <1>3, <3>1
    <3>4. table2[i].nLinks = IncLinks(table[i].nLinks)
      BY <2>2 DEF p, c, D2
    <3> HIDE DEF k
    <3> QED
      BY <3>2, <3>3, <3>4, LinksFollow
  <2>3. CASE i # c /\ ~ (c \in D2 /\ i = p)
    <3>1. i \in D
      BY <1>2, <2>3
    <3>2. Cardinality(SubEdges(G2, D2, i)) = Cardinality(SubEdges(G, D, i))
      BY <1>5, <2>3, <3>1
    <3>3. table2[i].nLinks = table[i].nLinks
      BY <2>0, <2>3 DEF p, c, D2
    <3> QED
      BY <1>3, <3>1, <3>2, <3>3
  <2> QED
    BY <2>1, <2>2, <2>3
<1>9. \A i \in Inum : i \notin D2 => gone[i] = 0
  BY <1>2, <1>3
<1> QED
  BY <1>7, <1>8, <1>9 DEF Counted, D2

(* A removal: the link of a directory goes with it, the link of a file is  *)
(* one that unlink takes too much.                                         *)
LEMMA CountedLoses ==
  ASSUME NEW E, NEW U, NEW table, NEW table2, NEW e, NEW G2,
         EdgeLess(E, DirsOf(table), U, e, G2, DirsOf(table2)),
         NEW gone \in [Inum -> 0 .. LinkModulus - 1], NEW gone2,
         Counted(table, EdgesOf(E), gone),
         e.inum \in Inum, e.inum # e.dir,
         \A i \in Inum : i # e.inum => table2[i].inUse = table[i].inUse /\ table2[i].isDir = table[i].isDir,
         ~ table2[e.inum].inUse,
         \A i \in Inum : i # e.inum /\ i # e.dir => table2[i].nLinks = table[i].nLinks,
         table2[e.dir].nLinks = DecLinks(table[e.dir].nLinks),
         gone2[e.inum] = 0,
         \A i \in Inum : i # e.inum =>
           gone2[i] = IF i = e.dir /\ e.inum \notin DirsOf(table)
                      THEN (gone[i] + 1) % LinkModulus ELSE gone[i]
  PROVE  Counted(table2, G2, gone2)
<1> DEFINE c  == e.inum
           p  == e.dir
           D  == DirsOf(table)
           D2 == DirsOf(table2)
           G  == EdgesOf(E)
<1>1. /\ EdgeLess(E, D, U, e, G2, D2) /\ IsTree(E, D, U) /\ U \subseteq Inum /\ p \in D
  BY DEF EdgeLess, IsTree, WellNamed, Named
<1>2. \A i : i \in D2 <=> i \in D /\ i # c
  BY DEF EdgeLess
<1>3. /\ \A i \in Inum : table[i].inUse /\ ~ table[i].isDir => table[i].nLinks = 1
      /\ \A i \in D : table[i].nLinks = LinksFor(Cardinality(SubEdges(G, D, i)), gone[i])
      /\ \A i \in Inum : i \notin D => gone[i] = 0
  BY DEF Counted
<1>4. \A i : i \in D <=> i \in Inum /\ table[i].inUse /\ table[i].isDir
  BY DEF DirsOf
<1> HIDE DEF D2
<1>5. ASSUME NEW i \in D
      PROVE  /\ Cardinality(SubEdges(G2, D2, i)) \in Nat
             /\ Cardinality(SubEdges(G, D, i)) =
                  Cardinality(SubEdges(G2, D2, i)) + (IF c \in D /\ i = p THEN 1 ELSE 0)
  <2> HIDE DEF D
  <2> QED
    BY <1>1, SubEdgesLoss
<1> HIDE DEF D, G, c, p
<1>6. ASSUME NEW i \in Inum, table2[i].inUse, ~ table2[i].isDir
      PROVE  table2[i].nLinks = 1
  <2>1. i # c
    BY <1>6 DEF c
  <2>2. i # p
    BY <1>1, <1>4, <1>6, <2>1 DEF c
  <2> QED
    BY <1>3, <1>6, <2>1, <2>2 DEF c, p
<1>7. ASSUME NEW i \in D2
      PROVE  table2[i].nLinks = LinksFor(Cardinality(SubEdges(G2, D2, i)), gone2[i])
  <2> DEFINE k == Cardinality(SubEdges(G2, D2, i))
  <2>1. i \in D /\ i # c /\ i \in Inum /\ gone[i] \in 0 .. LinkModulus - 1
    BY <1>2, <1>4
  <2>2. k \in Nat /\ Cardinality(SubEdges(G, D, i)) = k + (IF c \in D /\ i = p THEN 1 ELSE 0)
    BY <1>5, <2>1
  <2>3. table[i].nLinks = LinksFor(Cardinality(SubEdges(G, D, i)), gone[i])
    BY <1>3, <2>1
  <2>4. gone2[i] = IF i = p /\ c \notin D THEN (gone[i] + 1) % LinkModulus ELSE gone[i]
    BY <2>1 DEF c, p, D
  <2> HIDE DEF k
  <2>5. CASE i = p
    <3>1. table2[i].nLinks = DecLinks(table[i].nLinks)
      BY <2>5 DEF p
    <3>2. CASE c \in D
      <4>1. table[i].nLinks = LinksFor(k + 1, gone[i]) /\ gone2[i] = gone[i]
        BY <2>2, <2>3, <2>4, <2>5, <3>2
      <4> QED
        BY <2>1, <2>2, <3>1, <4>1, LinksFollow DEF k
    <3>3. CASE c \notin D
      <4>1. table[i].nLinks = LinksFor(k, gone[i]) /\ gone2[i] = (gone[i] + 1) % LinkModulus
        BY <2>2, <2>3, <2>4, <2>5, <3>3
      <4> QED
        BY <2>1, <2>2, <3>1, <4>1, LinksFollow DEF k
    <3> QED
      BY <3>2, <3>3
  <2>6. CASE i # p
    <3>1. table2[i].nLinks = table[i].nLinks
      BY <2>1, <2>6 DEF c, p
    <3>2. gone2[i] = gone[i] /\ Cardinality(SubEdges(G, D, i)) = k
      BY <2>2, <2>4, <2>6
    <3> QED
      BY <2>3, <3>1, <3>2 DEF k
  <2> QED
    BY <2>5, <2>6
<1>8. ASSUME NEW i \in Inum, i \notin D2
      PROVE  gone2[i] = 0
  <2>1. CASE i = c
    BY <2>1 DEF c
  <2>2. CASE i # c
    <3>1. i \notin D /\ i # p
      BY <1>1, <1>2, <1>8, <2>2
    <3> QED
      BY <1>3, <2>2, <3>1 DEF c, p
  <2> QED
    BY <2>1, <2>2
<1> QED
  BY <1>6, <1>7, <1>8 DEF Counted, D2

-----------------------------------------------------------------------------
(* What each handler does to the edges *)

(* One edge more for one named entry more, *)
LEMMA EdgesGain ==
  ASSUME NEW E, NEW E2, NEW e, \A f : f \in Named(E2) <=> f \in Named(E) \/ f = e
  PROVE  \A g : g \in EdgesOf(E2) <=> g \in EdgesOf(E) \/ g = EdgeOf(e)
BY DEF EdgesOf

(* and one less for one less: no two entries have the same edge. *)
LEMMA EdgesLoss ==
  ASSUME NEW E, NEW D, NEW U, IsTree(E, D, U), NEW e \in Named(E),
         NEW E2, \A f : f \in Named(E2) <=> f \in Named(E) /\ f # e
  PROVE  \A g : g \in EdgesOf(E2) <=> g \in EdgesOf(E) /\ g # EdgeOf(e)
<1>1. \A f \in Named(E) : EdgeOf(f) = EdgeOf(e) => f = e
  BY EdgeFields DEF IsTree, Leading
<1>2. \A E3 : \A g : g \in EdgesOf(E3) <=> \E f \in Named(E3) : g = EdgeOf(f)
  BY DEF EdgesOf
<1> QED
  BY <1>1, <1>2

(* The edges after a step. *)
LEMMA EdgesNext == Edges' = EdgesOf(Entries')
<1>1. (Edges = EdgesOf(Entries))'
  BY EdgesAreOf, PTL
<1> QED
  BY <1>1

(* The links of the parent of a new inode. *)
LEMMA ParentLinks ==
  ASSUME Ind, NEW p \in Inum, NEW isDir \in BOOLEAN, NEW got
  PROVE  /\ WithChild(p, isDir, got).inUse = inode[p].inUse
         /\ WithChild(p, isDir, got).isDir = inode[p].isDir
         /\ WithChild(p, isDir, got).nLinks =
              (IF isDir THEN IncLinks(inode[p].nLinks) ELSE inode[p].nLinks)
<1> DEFINE b == got[ForChild(isDir) + 1]
           r == IF NeedsBlock(p) THEN AddBlock(inode[p], b) ELSE inode[p]
<1>1. inode[p] \in InodeType
  BY DEF Ind, TypeOK
<1>2. r.inUse = inode[p].inUse /\ r.isDir = inode[p].isDir /\ r.nLinks = inode[p].nLinks
  BY <1>1 DEF AddBlock, InodeType
<1>3. DOMAIN r = DOMAIN inode[p]
  BY <1>1 DEF AddBlock, InodeType
<1>4. {"inUse", "isDir", "nLinks"} \subseteq DOMAIN r
  BY <1>1, <1>3 DEF InodeType
<1>5. WithChild(p, isDir, got) = [r EXCEPT !.nLinks = IF isDir THEN IncLinks(@) ELSE @]
  BY DEF WithChild
<1> HIDE DEF r
<1> QED
  BY <1>2, <1>4, <1>5

(* What the invariant says of one state. *)
TreeHere == IsTree(Entries, Directories, InUse) /\ Counted(inode, Edges, unlinked)

(* The edge under which p holds c as n. *)
EdgeTo(p, n, c) == [parent |-> p, name |-> n, node |-> c]

(* A lookup that fails: there is no such entry. *)
LEMMA NameIsFree ==
  ASSUME Ind, Up, TreeHere, NEW d \in Directories, NEW n \in Names \cup Dots
  PROVE  inum_from_path(d, n) = NoInum <=> \A e \in Entries : ~ (e.dir = d /\ e.name = n)
<1>1. WellNamed(Entries, Directories)
  BY DEF TreeHere, IsTree
<1>2. \A e \in Entries : e.inum \in Inum /\ e.inum # NoInum
  BY <1>1, InodesAssumption DEF WellNamed, Inum, NoInum
<1> QED
  BY <1>1, <1>2, LookupIs

(* One inode, entry and edge more. *)
LEMMA CreationKeeps ==
  ASSUME TreeHere, Ind, Up, Ind', Up',
         NEW p \in Inum, IsDir(p), ~ NoRoom(p), NEW n \in Names, NEW isDir \in BOOLEAN,
         inum_from_path(p, n) = NoInum,
         NEW child \in InodeType, child.inUse, child.isDir = isDir,
         child.nLinks = (IF isDir THEN 2 ELSE 1),
         isDir => child.blocks = 1 /\ child.ptrs[0] = NewBlocks(p, isDir)[1],
         NEW contents,
         contents = (IF isDir THEN [data EXCEPT ![NewBlocks(p, isDir)[1]] = DirBlock(reserve_inode, p)]
                     ELSE data),
         reserve_inode < NumInodes,
         Link(p, n, reserve_inode, child, contents, NewBlocks(p, isDir))
  PROVE  /\ TreeHere'
         /\ reserve_inode \in Inum \ InUse
         /\ Directories' = WithDir(Directories, reserve_inode, isDir)
         /\ \A g : g \in Edges' <=> g \in Edges \/ g = EdgeTo(p, n, reserve_inode)
<1> DEFINE c  == reserve_inode
           e  == Entry(p, OpenPlace(p), [name |-> n, inum |-> c])
           E2 == WithEntry(Entries, e, p, c, isDir)
           D2 == WithDir(Directories, c, isDir)
<1>1. /\ c \in Inum \ InUse
      /\ InUse' = InUse \cup {c}
      /\ Directories' = D2
      /\ Entries' = E2
  BY LinkAdds
<1>2. IsTree(Entries, Directories, InUse) /\ Counted(inode, Edges, unlinked)
  BY DEF TreeHere
<1>3. p \in Directories /\ Directories \subseteq Inum /\ InUse \subseteq Inum
  BY DEF Directories, InUse
<1>4. \A f \in Entries : ~ (f.dir = p /\ f.name = n)
  BY <1>3, NameIsFree
<1>5. IsTree(E2, D2, InUse \cup {c}) /\ Named(E2) = Named(Entries) \cup {e}
  BY <1>1, <1>2, <1>3, <1>4, TreeGains
<1>6. e.dir = p /\ e.name = n /\ e.inum = c
  BY EntryFields
<1> HIDE DEF e, E2, c
<1>7. IsTree(Entries', Directories', InUse')
  BY <1>1, <1>5
<1>8. \A g : g \in Edges' <=> g \in EdgesOf(Entries) \/ g = EdgeOf(e)
  <2>1. \A g : g \in EdgesOf(E2) <=> g \in EdgesOf(Entries) \/ g = EdgeOf(e)
    BY <1>5, EdgesGain
  <2> QED
    BY <1>1, <2>1, EdgesNext
<1>9. Edges = EdgesOf(Entries)
  BY EdgesAreOf
<1>10. EdgeOf(e) = EdgeTo(p, n, c)
  BY <1>6 DEF EdgeOf, EdgeTo
<1>11. Counted(inode', Edges', unlinked')
  <2> DEFINE table2 == inode'
             G2     == Edges'
             parent == WithChild(p, child.isDir, NewBlocks(p, isDir))
  <2>1. /\ inode \in [Inum -> InodeType] /\ unlinked \in [Inum -> 0 .. LinkModulus - 1]
        /\ unlinked' = unlinked
    BY DEF Ind, TypeOK, Link
  <2>2. table2 = [inode EXCEPT ![c] = child, ![p] = parent]
    BY DEF Link, c
  <2>3. c # p /\ c \in Inum
    BY <1>1, <1>3 DEF InUse, IsDir
  <2>4. /\ parent.inUse = inode[p].inUse /\ parent.isDir = inode[p].isDir
        /\ parent.nLinks = (IF isDir THEN IncLinks(inode[p].nLinks) ELSE inode[p].nLinks)
    BY ParentLinks
  <2> HIDE DEF parent
  <2>5. \A d \in Inum : table2[d] = IF d = p THEN parent ELSE IF d = c THEN child ELSE inode[d]
    BY <2>1, <2>2, <2>3
  <2>6. DirsOf(inode) = Directories /\ DirsOf(table2) = D2
    <3>1. Directories' = DirsOf(inode')
      BY DEF Directories, DirsOf, IsDir
    <3> QED
      BY <1>1, <3>1, EntriesAre
  <2>7. c \in D2 <=> isDir
    BY <1>1 DEF WithDir, Directories, InUse, IsDir
  <2> HIDE DEF table2, G2
  <2>8. EdgeMore(Entries, DirsOf(inode), InUse, e, G2, DirsOf(table2))
    <3>1. \A j : j \in D2 => j \in Directories \/ j = c
      BY DEF WithDir
    <3>2. Directories \subseteq D2
      BY DEF WithDir
    <3>3. \A g : g \in G2 <=> g \in EdgesOf(Entries) \/ g = EdgeOf(e)
      BY <1>8 DEF G2
    <3> HIDE DEF D2
    <3> QED
      BY <1>1, <1>2, <1>3, <1>6, <2>6, <3>1, <3>2, <3>3 DEF EdgeMore
  <2>9. \A i \in Inum : i # e.inum => table2[i].inUse = inode[i].inUse /\ table2[i].isDir = inode[i].isDir
    BY <1>6, <2>4, <2>5
  <2>10. \A i \in Inum : i # e.inum /\ i # e.dir => table2[i].nLinks = inode[i].nLinks
    BY <1>6, <2>5
  <2>11. table2[e.inum].nLinks = (IF e.inum \in DirsOf(table2) THEN 2 ELSE 1)
    BY <1>6, <2>3, <2>5, <2>6, <2>7
  <2>12. table2[e.dir].nLinks =
           (IF e.inum \in DirsOf(table2) THEN IncLinks(inode[e.dir].nLinks) ELSE inode[e.dir].nLinks)
    BY <1>6, <2>4, <2>5, <2>6, <2>7
  <2>13. Counted(inode, EdgesOf(Entries), unlinked) /\ e.inum \in Inum
    BY <1>2, <1>6, <1>9, <2>3
  <2>14. Counted(table2, G2, unlinked)
    BY <2>1, <2>8, <2>9, <2>10, <2>11, <2>12, <2>13, CountedGains
  <2> QED
    BY <2>1, <2>14 DEF table2, G2
<1>12. TreeHere'
  BY <1>7, <1>11 DEF TreeHere
<1> QED
  BY <1>1, <1>8, <1>9, <1>10, <1>12 DEF c

(* A lookup that finds something. *)
LEMMA FoundIs ==
  ASSUME Ind, Up, TreeHere, NEW p \in Inum, IsDir(p), NEW n \in Names, inum_from_path(p, n) # NoInum
  PROVE  \E e \in Named(Entries) :
           /\ e.dir = p /\ e.name = n /\ e.inum = inum_from_path(p, n)
           /\ First(Hits(p, n)) = e.at
           /\ e.inum \in InUse \ {ROOT_INUM} /\ e.inum \in Inum
           /\ EdgeOf(e) = EdgeTo(p, n, inum_from_path(p, n)) /\ EdgeOf(e) \in Edges
<1>1. p \in Directories /\ WellNamed(Entries, Directories) /\ Leading(Entries, InUse)
  BY DEF Directories, TreeHere, IsTree
<1>2. PICK e \in Entries : /\ e.dir = p /\ e.name = n /\ inum_from_path(p, n) = e.inum
                           /\ First(Hits(p, n)) = e.at
  BY <1>1, LookupIs
<1>3. e \in Named(Entries)
  BY <1>2, NamesAreNotDots DEF Named
<1>4. e.inum \in InUse \ {ROOT_INUM} /\ e.inum \in Inum
  BY <1>1, <1>3 DEF Leading, InUse
<1>5. EdgeOf(e) = EdgeTo(p, n, e.inum) /\ EdgeOf(e) \in Edges
  BY <1>2, <1>3, EdgesAre DEF EdgeOf, EdgeTo
<1> QED
  BY <1>2, <1>3, <1>4, <1>5

(* The table after a removal, but for what was removed. *)
LEMMA LinksLess ==
  ASSUME Ind, NEW p \in Inum, NEW c \in Inum, c # p
  PROVE  /\ WithoutLinks(p, c)[c].nLinks = DecLinks(inode[c].nLinks)
         /\ WithoutLinks(p, c)[p].nLinks = DecLinks(inode[p].nLinks)
         /\ \A i \in Inum : i # c /\ i # p => WithoutLinks(p, c)[i] = inode[i]
<1>1. inode \in [Inum -> InodeType]
  BY DEF Ind, TypeOK
<1>2. \A i \in Inum : "nLinks" \in DOMAIN inode[i]
  BY <1>1 DEF InodeType
<1> QED
  BY <1>1, <1>2 DEF WithoutLinks, LessLink

(* unlink frees every file it is asked to remove. *)
LEMMA LastLink ==
  ASSUME Ind, TreeHere, NEW p \in Inum, IsDir(p), NEW c \in InUse, ~ IsDir(c)
  PROVE  c # p /\ WithoutLinks(p, c)[c].nLinks = 0
<1>1. c # p /\ c \in Inum /\ inode[c].nLinks = 1
  BY DEF IsDir, InUse, TreeHere, Counted
<1>2. DecLinks(1) = 0
  <2>1. LinkModulus \in Nat \ {0} /\ LinkModulus > 2
    BY LinksAssumption
  <2>2. (0 + LinkModulus) % LinkModulus = 0 % LinkModulus /\ 0 % LinkModulus = 0
    BY <2>1, RemainderOfMore, DivisionIs
  <2>3. 1 + LinkModulus - 1 = 0 + LinkModulus
    BY <2>1
  <2> QED
    BY <2>2, <2>3 DEF DecLinks
<1> QED
  BY <1>1, <1>2, LinksLess

(* One inode, entry and edge less. *)
LEMMA RemovalKeepsTree ==
  ASSUME TreeHere, Ind, Up,
         NEW p \in Inum, IsDir(p), NEW n \in Names,
         NEW c, c = inum_from_path(p, n), c # NoInum, IsDir(c) => dir_isempty(c),
         \A i \in Inum : inode'[i] = IF i = c THEN FreeInode ELSE WithoutLinks(p, c)[i],
         \A b \in Block : b \notin DirBlocks(c) => data'[b] = WithoutEntry(p, n)[b],
         \A i \in Inum : unlinked'[i] = IF IsDir(c) THEN (IF i = c THEN 0 ELSE unlinked[i])
                                        ELSE IF i = p THEN (unlinked[i] + 1) % LinkModulus
                                        ELSE unlinked[i]
  PROVE  /\ TreeHere'
         /\ EdgeTo(p, n, c) \in Edges
         /\ Directories' = Directories \ {c}
         /\ \A g : g \in Edges' <=> g \in Edges /\ g # EdgeTo(p, n, c)
<1>1. PICK e \in Named(Entries) :
           /\ e.dir = p /\ e.name = n /\ e.inum = c
           /\ First(Hits(p, n)) = e.at
           /\ c \in InUse \ {ROOT_INUM} /\ c \in Inum
           /\ EdgeOf(e) = EdgeTo(p, n, c) /\ EdgeOf(e) \in Edges
  BY FoundIs
<1>2. IsTree(Entries, Directories, InUse) /\ Counted(inode, Edges, unlinked)
  BY DEF TreeHere
<1>3. \A f \in Named(Entries) : f.dir # c
  <2>1. CASE IsDir(c)
    <3>1. c \in Directories /\ dir_isempty(c)
      BY <1>1, <2>1 DEF Directories
    <3> QED
      BY <3>1, EmptyIs
  <2>2. CASE ~ IsDir(c)
    <3>1. c \notin Directories
      BY <2>2 DEF Directories
    <3> QED
      BY <1>2, <3>1 DEF IsTree, WellNamed, Named
  <2> QED
    BY <2>1, <2>2
<1>4. c # p
  BY <1>1, <1>3
<1>5. /\ Entries' = WithoutInode(Entries, e)
      /\ Directories' = Directories \ {c}
      /\ InUse' = InUse \ {c}
  <2>1. e \in Entries /\ c = e.inum /\ c \in Inum
    BY <1>1 DEF Named
  <2> QED
    BY <1>1, <2>1, RemovalTakes
<1>6. /\ IsTree(Entries', Directories', InUse')
      /\ Named(Entries') = Named(Entries) \ {e}
  <2>1. \A f \in Named(Entries) : f.dir # e.inum
    BY <1>1, <1>3
  <2>2. /\ IsTree(WithoutInode(Entries, e), Directories \ {e.inum}, InUse \ {e.inum})
        /\ Named(WithoutInode(Entries, e)) = Named(Entries) \ {e}
    BY <1>2, <2>1, TreeLoses
  <2> QED
    BY <1>1, <1>5, <2>2
<1>7. Edges = EdgesOf(Entries)
  BY EdgesAreOf
<1>8. \A g : g \in Edges' <=> g \in EdgesOf(Entries) /\ g # EdgeOf(e)
  <2> DEFINE E2 == Entries'
  <2>1. \A f : f \in Named(E2) <=> f \in Named(Entries) /\ f # e
    BY <1>6
  <2>2. Edges' = EdgesOf(E2)
    BY EdgesNext
  <2> HIDE DEF E2
  <2>3. \A g : g \in EdgesOf(E2) <=> g \in EdgesOf(Entries) /\ g # EdgeOf(e)
    BY <1>2, <2>1, EdgesLoss
  <2> QED
    BY <2>2, <2>3
<1>9. Counted(inode', Edges', unlinked')
  <2> DEFINE table2 == inode'
             G2     == Edges'
             gone2  == unlinked'
  <2>1. inode \in [Inum -> InodeType] /\ unlinked \in [Inum -> 0 .. LinkModulus - 1]
    BY DEF Ind, TypeOK
  <2>2. /\ WithoutLinks(p, c) \in [Inum -> InodeType]
        /\ \A j \in Inum : Alike(inode[j], WithoutLinks(p, c)[j])
    BY <1>1, RemovalKeeps
  <2>3. \A i \in Inum : table2[i] = IF i = c THEN FreeInode ELSE WithoutLinks(p, c)[i]
    BY <2>2
  <2>4. /\ \A i \in Inum : i # c =>
             table2[i].inUse = inode[i].inUse /\ table2[i].isDir = inode[i].isDir
        /\ ~ table2[c].inUse
        /\ \A i \in Inum : i # c /\ i # p => table2[i].nLinks = inode[i].nLinks
        /\ table2[p].nLinks = DecLinks(inode[p].nLinks)
    <3> HIDE DEF table2
    <3> QED
      BY <1>1, <1>4, <2>2, <2>3, LinksLess, FreeInodeFields DEF Alike
  <2>5. /\ DirsOf(inode) = Directories
        /\ DirsOf(table2) = Directories \ {c}
    <3>1. Directories' = DirsOf(inode')
      BY DEF Directories, DirsOf, IsDir
    <3> QED
      BY <1>5, <3>1, EntriesAre
  <2>6. c \in DirsOf(inode) <=> IsDir(c)
    BY <1>1 DEF DirsOf, IsDir
  <2>7. /\ gone2[c] = 0
        /\ \A i \in Inum : i # c =>
             gone2[i] = IF i = p /\ c \notin DirsOf(inode)
                        THEN (unlinked[i] + 1) % LinkModulus ELSE unlinked[i]
    <3>1. CASE IsDir(c)
      BY <1>1, <2>1, <2>6, <3>1
    <3>2. CASE ~ IsDir(c)
      <4>1. unlinked[c] = 0
        BY <1>1, <1>2, <2>6, <3>2 DEF Counted
      <4> QED
        BY <1>1, <1>4, <2>1, <2>6, <3>2, <4>1
    <3> QED
      BY <3>1, <3>2
  <2> HIDE DEF table2, G2, gone2
  <2>8. EdgeLess(Entries, DirsOf(inode), InUse, e, G2, DirsOf(table2))
    <3>1. \A g : g \in G2 <=> g \in EdgesOf(Entries) /\ g # EdgeOf(e)
      BY <1>8 DEF G2
    <3>2. InUse \subseteq Inum
      BY DEF InUse
    <3> QED
      BY <1>1, <1>2, <2>5, <3>1, <3>2 DEF EdgeLess
  <2>9. Counted(inode, EdgesOf(Entries), unlinked)
    BY <1>2, <1>7
  <2>10. Counted(table2, G2, gone2)
    BY <1>1, <1>4, <2>1, <2>4, <2>7, <2>8, <2>9, CountedLoses
  <2> QED
    BY <2>10 DEF table2, G2, gone2
<1>10. TreeHere'
  BY <1>6, <1>9 DEF TreeHere
<1> QED
  BY <1>1, <1>5, <1>7, <1>8, <1>10

-----------------------------------------------------------------------------
(* RefsFS as FileTree sees it *)

(* The edge a lookup finds. *)
LEMMA HeldIs ==
  ASSUME Ind, Up, TreeHere, NEW p \in Inum, IsDir(p), NEW n \in Names
  PROVE  /\ Tree!Held(p, n) = {} <=> inum_from_path(p, n) = NoInum
         /\ inum_from_path(p, n) # NoInum =>
              EdgeTo(p, n, inum_from_path(p, n)) \in Tree!Held(p, n)
<1>1. \A g : g \in Tree!Held(p, n) <=> g \in Edges /\ g.parent = p /\ g.name = n
  BY DEF Tree!Held
<1>2. CASE inum_from_path(p, n) = NoInum
  <2>1. \A e \in Entries : ~ (e.dir = p /\ e.name = n)
    BY <1>2, NameIsFree DEF Directories
  <2>2. \A g \in Edges : ~ (g.parent = p /\ g.name = n)
    BY <2>1, EdgesAre, EdgeFields DEF Named
  <2> QED
    BY <1>1, <1>2, <2>2
<1>3. CASE inum_from_path(p, n) # NoInum
  <2> DEFINE g == EdgeTo(p, n, inum_from_path(p, n))
  <2>1. g \in Edges
    BY <1>3, FoundIs
  <2>2. g.parent = p /\ g.name = n
    BY DEF EdgeTo
  <2> QED
    BY <1>1, <1>3, <2>1, <2>2
<1> QED
  BY <1>2, <1>3

(* The live nodes are the inodes in use. *)
LEMMA LiveIs ==
  ASSUME Up, TreeHere
  PROVE  Tree!Live = InUse
<1>1. /\ ROOT_INUM \in InUse
      /\ \A e \in Named(Entries) : e.inum \in InUse
      /\ \A i \in InUse \ {ROOT_INUM} : \E e \in Named(Entries) : e.inum = i
  BY DEF TreeHere, IsTree, Leading
<1>2. \A i : i \in Tree!Live <=> i = ROOT_INUM \/ \E g \in Edges : g.node = i
  BY DEF Tree!Live
<1>3. \A i : (\E g \in Edges : g.node = i) <=> \E e \in Named(Entries) : e.inum = i
  BY EdgesAre, EdgeFields
<1>4. \A i : i \in Tree!Live <=> i \in InUse
  BY <1>1, <1>2, <1>3
<1> QED
  BY <1>4

(* Directories that dir_isempty finds empty hold no edge. *)
LEMMA NoEdgeIs ==
  ASSUME Up, NEW c \in Directories
  PROVE  Tree!Empty(c) <=> dir_isempty(c)
<1>1. Tree!Empty(c) <=> \A g \in Edges : g.parent # c
  BY DEF Tree!Empty
<1>2. (\A g \in Edges : g.parent # c) <=> \A f \in Named(Entries) : f.dir # c
  BY EdgesAre, EdgeFields
<1> QED
  BY <1>1, <1>2, EmptyIs

(* A handler that stops the process. *)
LEMMA StepStops ==
  ASSUME Up, ~ Up', reply' \in {reply, "OK"}
  PROVE  Tree!Next
BY DEF Tree!Next, Tree!Stop

(* A handler that answers and leaves inodes and entries as they are. *)
LEMMA StepKeeps ==
  ASSUME TreeHere, Up, Up', inode' = inode, data' = data, unlinked' = unlinked
  PROVE  TreeHere' /\ Edges' = Edges /\ Directories' = Directories
<1>1. /\ Entries' = Entries /\ InUse' = InUse
      /\ Edges' = Edges /\ Directories' = Directories
  <2>1. Entries' = Entries /\ InUse' = InUse /\ Directories' = Directories
    BY DEF Entries, InUse, Directories, IsDir
  <2>2. Edges' = Edges
    BY <2>1, EdgesNext, EdgesAreOf
  <2> QED
    BY <2>1, <2>2
<1> QED
  BY <1>1 DEF TreeHere

(* An error that is true of the tree. *)
LEMMA StepRefused ==
  ASSUME TreeHere, Up, NEW p \in Inum, IsDir(p), NEW n \in Names, NEW r, Refuse(r),
         \/ r = "EEXIST"    /\ Tree!Held(p, n) # {}
         \/ r = "ENOENT"    /\ Tree!Held(p, n) = {}
         \/ r = "ENOTDIR"   /\ \E e \in Tree!Held(p, n) : e.node \notin Directories
         \/ r = "EISDIR"    /\ \E e \in Tree!Held(p, n) : e.node \in Directories
         \/ r = "ENOTEMPTY" /\ \E e \in Tree!Held(p, n) : e.node \in Directories /\ ~ Tree!Empty(e.node)
  PROVE  Up' /\ TreeHere' /\ Tree!Next
<1>1. /\ inode' = inode /\ data' = data /\ unlinked' = unlinked
      /\ Up' /\ reply' = r
  BY DEF Refuse, Return, fsVars, Up
<1>2. TreeHere' /\ Edges' = Edges /\ Directories' = Directories
  BY <1>1, StepKeeps
<1>3. p \in Directories
  BY DEF Directories
<1>4. Tree!Refused(p, n)
  BY <1>1, <1>2 DEF Tree!Refused
<1> QED
  BY <1>1, <1>2, <1>3, <1>4 DEF Tree!Next

(* A new inode. *)
LEMMA StepCreates ==
  ASSUME TreeHere, Ind, Up, Up', NEW p \in Inum, IsDir(p), NEW n \in Names, NEW isDir \in BOOLEAN,
         inum_from_path(p, n) = NoInum, reply' = "OK",
         NEW c \in Inum \ InUse,
         Directories' = WithDir(Directories, c, isDir),
         \A g : g \in Edges' <=> g \in Edges \/ g = EdgeTo(p, n, c)
  PROVE  Tree!Next
<1>1. p \in Directories
  BY DEF Directories
<1>2. Tree!Held(p, n) = {}
  BY HeldIs
<1>3. c \in Inum \ Tree!Live
  BY LiveIs
<1>4. Edges' = Edges \cup {[parent |-> p, name |-> n, node |-> c]}
  BY DEF EdgeTo
<1>5. Directories' = IF isDir THEN Directories \cup {c} ELSE Directories
  BY DEF WithDir
<1>6. Tree!Create(p, n, isDir)
  BY <1>2, <1>3, <1>4, <1>5 DEF Tree!Create
<1> QED
  BY <1>1, <1>6 DEF Tree!Next

(* An inode less. *)
LEMMA StepRemoves ==
  ASSUME TreeHere, Ind, Up, Up', NEW p \in Inum, IsDir(p), NEW n \in Names, reply' = "OK",
         NEW c, c = inum_from_path(p, n), c # NoInum, IsDir(c) => dir_isempty(c),
         EdgeTo(p, n, c) \in Edges,
         Directories' = Directories \ {c},
         \A g : g \in Edges' <=> g \in Edges /\ g # EdgeTo(p, n, c)
  PROVE  Tree!Next
<1> DEFINE e == EdgeTo(p, n, c)
<1>1. p \in Directories
  BY DEF Directories
<1>2. e \in Tree!Held(p, n) /\ e.node = c
  BY HeldIs DEF EdgeTo
<1>3. c \in Inum
  BY LookupType
<1>4. Edges' = Edges \ {e} /\ Directories' = Directories \ {e.node}
  BY <1>2
<1> HIDE DEF e
<1>5. Tree!Remove(e)
  BY <1>4 DEF Tree!Remove
<1>6. CASE IsDir(c)
  <2>1. c \in Directories
    BY <1>3, <1>6 DEF Directories
  <2>2. Tree!Empty(c)
    BY <1>6, <2>1, NoEdgeIs
  <2>3. Tree!Rmdir(p, n)
    BY <1>2, <1>5, <2>1, <2>2 DEF Tree!Rmdir
  <2> QED
    BY <1>1, <2>3 DEF Tree!Next
<1>7. CASE ~ IsDir(c)
  <2>1. c \notin Directories
    BY <1>7 DEF Directories
  <2>2. Tree!Unlink(p, n)
    BY <1>2, <1>5, <2>1 DEF Tree!Unlink
  <2> QED
    BY <1>1, <2>2 DEF Tree!Next
<1> QED
  BY <1>6, <1>7

(* A request for a file that leaves the name space as it is. *)
LEMMA StepOnFile ==
  ASSUME TreeHere, Up, Up', NEW i \in Inum, IsFile(i), reply' \in {"OK", "EACCES"},
         Edges' = Edges, Directories' = Directories
  PROVE  Tree!Next
<1>1. i \in Tree!Live \ Directories
  BY LiveIs DEF InUse, Directories, IsFile, IsDir
<1>2. Tree!FileRequest
  BY <1>1 DEF Tree!FileRequest
<1> QED
  BY <1>2 DEF Tree!Next

-----------------------------------------------------------------------------
(* Every request keeps the tree, and is a step of FileTree *)

(* mkdir and mknod, once the name was found to be free. *)
LEMMA CreateInTree ==
  ASSUME Ind, Up, TreeHere, Ind',
         NEW p \in Inum, IsDir(p), NEW n \in Names, NEW isDir \in BOOLEAN,
         inum_from_path(p, n) = NoInum,
         NEW child \in InodeType, child.inUse, child.isDir = isDir,
         child.nLinks = (IF isDir THEN 2 ELSE 1),
         isDir => child.blocks = 1 /\ child.ptrs[0] = NewBlocks(p, isDir)[1],
         NEW contents,
         contents = (IF isDir THEN [data EXCEPT ![NewBlocks(p, isDir)[1]] = DirBlock(reserve_inode, p)]
                     ELSE data),
         CreateIn(p, n, child, contents, NewBlocks(p, isDir))
  PROVE  (Up' => TreeHere') /\ Tree!Next
<1>1. CASE Undefined \/ StopForRoom(reserve_inode, child, contents, NewBlocks(p, isDir))
  <2>1. ~ Up' /\ reply' = reply
    BY <1>1 DEF Undefined, StopForRoom, Up
  <2> QED
    BY <2>1, StepStops
<1>2. CASE /\ reserve_inode < NumInodes /\ ~ NoRoom(p)
           /\ Link(p, n, reserve_inode, child, contents, NewBlocks(p, isDir))
  <2>1. reply' = "OK"
    BY <1>2 DEF Link, Return
  <2>2. CASE ~ Up'
    BY <2>1, <2>2, StepStops
  <2>3. CASE Up'
    <3>1. /\ TreeHere'
          /\ reserve_inode \in Inum \ InUse
          /\ Directories' = WithDir(Directories, reserve_inode, isDir)
          /\ \A g : g \in Edges' <=> g \in Edges \/ g = EdgeTo(p, n, reserve_inode)
      BY <1>2, <2>3, CreationKeeps
    <3>2. Tree!Next
      BY <2>1, <2>3, <3>1, StepCreates
    <3> QED
      BY <3>1, <3>2
  <2> QED
    BY <2>2, <2>3
<1> QED
  BY <1>1, <1>2 DEF CreateIn

(* mkdir and mknod, when the name is taken. *)
LEMMA ExistsTree ==
  ASSUME Ind, Up, TreeHere, NEW p \in Inum, IsDir(p), NEW n \in Names,
         inum_from_path(p, n) # NoInum, Refuse("EEXIST")
  PROVE  TreeHere' /\ Tree!Next
<1>1. Tree!Held(p, n) # {}
  BY HeldIs
<1> QED
  BY <1>1, StepRefused

(* mkdir. *)
LEMMA mkdirTree ==
  ASSUME Ind, TreeHere, NEW p \in Inum, NEW n \in Names, mkdir(p, n)
  PROVE  (Up' => TreeHere') /\ Tree!Next
<1> DEFINE got      == NewBlocks(p, TRUE)
           contents == [data EXCEPT ![got[1]] = DirBlock(reserve_inode, p)]
           child    == NewDirInode(got[1])
<1>1. Up /\ IsDir(p) /\ Ind'
  BY mkdirInd DEF mkdir
<1>2. CASE inum_from_path(p, n) # NoInum /\ Refuse("EEXIST")
  BY <1>1, <1>2, ExistsTree
<1>3. CASE inum_from_path(p, n) = NoInum /\ CreateIn(p, n, child, contents, got)
  <2>1. got[1] \in Block
    BY <1>1, NewBlocksSplit
  <2>2. child \in InodeType /\ child.inUse
    BY <2>1, NewDirInodeHolds
  <2>3. 0 \in PtrIndex
    BY PointersAssumption DEF PtrIndex, MaxFileBlocks
  <2>4. child.isDir = TRUE /\ child.nLinks = 2 /\ child.blocks = 1 /\ child.ptrs[0] = got[1]
    BY <2>3 DEF NewDirInode
  <2>5. /\ child.nLinks = (IF TRUE THEN 2 ELSE 1)
        /\ TRUE => child.blocks = 1 /\ child.ptrs[0] = NewBlocks(p, TRUE)[1]
        /\ contents = (IF TRUE THEN [data EXCEPT ![NewBlocks(p, TRUE)[1]] = DirBlock(reserve_inode, p)]
                       ELSE data)
    BY <2>4
  <2> HIDE DEF child, contents
  <2> QED
    BY <1>1, <1>3, <2>2, <2>4, <2>5, CreateInTree
<1> QED
  BY <1>2, <1>3 DEF mkdir

(* mknod. *)
LEMMA mknodTree ==
  ASSUME Ind, TreeHere, NEW p \in Inum, NEW n \in Names, NEW w \in BOOLEAN, mknod(p, n, w)
  PROVE  (Up' => TreeHere') /\ Tree!Next
<1> DEFINE child == NewRegInode(w)
<1>1. Up /\ IsDir(p) /\ Ind'
  BY mknodInd DEF mknod
<1>2. CASE inum_from_path(p, n) # NoInum /\ Refuse("EEXIST")
  BY <1>1, <1>2, ExistsTree
<1>3. CASE inum_from_path(p, n) = NoInum /\ CreateIn(p, n, child, data, NewBlocks(p, FALSE))
  <2>1. child \in InodeType /\ child.inUse
    BY <1>1, NewRegInodeHolds
  <2>2. child.isDir = FALSE /\ child.nLinks = 1
    BY DEF NewRegInode
  <2>3. /\ child.nLinks = (IF FALSE THEN 2 ELSE 1)
        /\ FALSE => child.blocks = 1 /\ child.ptrs[0] = NewBlocks(p, FALSE)[1]
        /\ data = (IF FALSE THEN [data EXCEPT ![NewBlocks(p, FALSE)[1]] = DirBlock(reserve_inode, p)]
                   ELSE data)
    BY <2>2
  <2> HIDE DEF child
  <2> QED
    BY <1>1, <1>3, <2>1, <2>2, <2>3, CreateInTree
<1> QED
  BY <1>2, <1>3 DEF mknod

(* The edge that rmdir and unlink are asked to remove. *)
LEMMA AskedFor ==
  ASSUME Ind, Up, TreeHere, NEW p \in Inum, IsDir(p), NEW n \in Names,
         NEW c, c = inum_from_path(p, n), c # NoInum
  PROVE  /\ c \in Inum /\ c \in InUse
         /\ IsDir(c) <=> c \in Directories
         /\ \E e \in Tree!Held(p, n) : e.node = c
<1>1. EdgeTo(p, n, c) \in Tree!Held(p, n) /\ EdgeTo(p, n, c).node = c
  BY HeldIs DEF EdgeTo
<1>2. c \in Inum /\ c \in InUse
  BY FoundIs
<1> QED
  BY <1>1, <1>2 DEF Directories

(* A request that removes c, answered with OK. *)
LEMMA RemovedTree ==
  ASSUME Ind, Up, Up', TreeHere, NEW p \in Inum, IsDir(p), NEW n \in Names,
         NEW c, c = inum_from_path(p, n), c # NoInum, IsDir(c) => dir_isempty(c),
         \A i \in Inum : inode'[i] = IF i = c THEN FreeInode ELSE WithoutLinks(p, c)[i],
         \A b \in Block : b \notin DirBlocks(c) => data'[b] = WithoutEntry(p, n)[b],
         \A i \in Inum : unlinked'[i] = IF IsDir(c) THEN (IF i = c THEN 0 ELSE unlinked[i])
                                        ELSE IF i = p THEN (unlinked[i] + 1) % LinkModulus
                                        ELSE unlinked[i],
         reply' = "OK"
  PROVE  TreeHere' /\ Tree!Next
<1>1. /\ TreeHere'
      /\ EdgeTo(p, n, c) \in Edges
      /\ Directories' = Directories \ {c}
      /\ \A g : g \in Edges' <=> g \in Edges /\ g # EdgeTo(p, n, c)
  BY RemovalKeepsTree
<1>2. Tree!Next
  BY <1>1, StepRemoves
<1> QED
  BY <1>1, <1>2

(* rmdir. *)
LEMMA rmdirTree ==
  ASSUME Ind, TreeHere, NEW p \in Inum, NEW n \in Names, rmdir(p, n)
  PROVE  (Up' => TreeHere') /\ Tree!Next
<1> DEFINE c    == inum_from_path(p, n)
           left == WithoutLinks(p, c)
<1>1. Up /\ IsDir(p)
  BY DEF rmdir, RemoveDir
<1>2. CASE c = NoInum /\ Refuse("ENOENT")
  <2>1. Tree!Held(p, n) = {}
    BY <1>1, <1>2, HeldIs
  <2> QED
    BY <1>1, <1>2, <2>1, StepRefused
<1>3. CASE c # NoInum /\ ~ IsDir(c) /\ Refuse("ENOTDIR")
  <2>1. \E e \in Tree!Held(p, n) : e.node \notin Directories
    BY <1>1, <1>3, AskedFor
  <2> QED
    BY <1>1, <1>3, <2>1, StepRefused
<1>4. CASE c # NoInum /\ IsDir(c) /\ ~ dir_isempty(c) /\ Refuse("ENOTEMPTY")
  <2>1. c \in Directories /\ ~ Tree!Empty(c)
    BY <1>1, <1>4, AskedFor, NoEdgeIs
  <2>2. \E e \in Tree!Held(p, n) : e.node \in Directories /\ ~ Tree!Empty(e.node)
    BY <1>1, <1>4, <2>1, AskedFor
  <2> QED
    BY <1>1, <1>4, <2>2, StepRefused
<1>5. CASE /\ c # NoInum /\ IsDir(c) /\ dir_isempty(c)
           /\ data' = [b \in Block |-> IF b \in DirBlocks(c) THEN OtherBlock ELSE WithoutEntry(p, n)[b]]
           /\ unlinked' = [unlinked EXCEPT ![c] = 0]
           /\ IF left[c].nLinks <= 1
              THEN inode' = [left EXCEPT ![c] = FreeInode] /\ Return("OK") /\ UNCHANGED status
              ELSE inode' = left /\ status' = "links_assert" /\ UNCHANGED reply
  <2>1. CASE left[c].nLinks <= 1
    <3>1. Up' /\ reply' = "OK" /\ inode' = [left EXCEPT ![c] = FreeInode]
      BY <1>1, <1>5, <2>1 DEF Return, Up
    <3>2. c \in Inum
      BY <1>1, <1>5, AskedFor
    <3>3. left \in [Inum -> InodeType] /\ unlinked \in [Inum -> 0 .. LinkModulus - 1]
      BY <1>1, <3>2, RemovalKeeps DEF Ind, TypeOK
    <3> HIDE DEF c
    <3>4. \A i \in Inum : inode'[i] = IF i = c THEN FreeInode ELSE WithoutLinks(p, c)[i]
      BY <3>1, <3>3
    <3>5. \A b \in Block : b \notin DirBlocks(c) => data'[b] = WithoutEntry(p, n)[b]
      BY <1>5
    <3>6. \A i \in Inum : unlinked'[i] = IF IsDir(c) THEN (IF i = c THEN 0 ELSE unlinked[i])
                                         ELSE IF i = p THEN (unlinked[i] + 1) % LinkModulus
                                         ELSE unlinked[i]
      BY <1>5, <3>3
    <3> QED
      BY <1>1, <1>5, <3>1, <3>4, <3>5, <3>6, RemovedTree DEF c
  <2>2. CASE ~ (left[c].nLinks <= 1)
    <3>1. ~ Up' /\ reply' = reply
      BY <1>5, <2>2 DEF Up
    <3> QED
      BY <1>1, <3>1, StepStops
  <2> QED
    BY <2>1, <2>2
<1> QED
  BY <1>2, <1>3, <1>4, <1>5 DEF rmdir, RemoveDir

(* unlink. *)
LEMMA unlinkTree ==
  ASSUME Ind, TreeHere, NEW p \in Inum, NEW n \in Names, unlink(p, n)
  PROVE  (Up' => TreeHere') /\ Tree!Next
<1> DEFINE c    == inum_from_path(p, n)
           left == WithoutLinks(p, c)
<1>1. Up /\ IsDir(p)
  BY DEF unlink, RemoveFile
<1>2. CASE c # NoInum /\ IsDir(c) /\ Refuse("EISDIR")
  <2>1. \E e \in Tree!Held(p, n) : e.node \in Directories
    BY <1>1, <1>2, AskedFor
  <2> QED
    BY <1>1, <1>2, <2>1, StepRefused
<1>3. CASE /\ c # NoInum /\ ~ IsDir(c)
           /\ data' = WithoutEntry(p, n)
           /\ left[c].nLinks = 0 => inode' = [left EXCEPT ![c] = FreeInode]
           /\ unlinked' = [unlinked EXCEPT ![p] = (@ + 1) % LinkModulus]
           /\ Return("OK") /\ UNCHANGED status
  <2>1. c \in Inum /\ c \in InUse
    BY <1>1, <1>3, AskedFor
  <2>2. left[c].nLinks = 0
    BY <1>1, <1>3, <2>1, LastLink
  <2>3. Up' /\ reply' = "OK" /\ inode' = [left EXCEPT ![c] = FreeInode]
    BY <1>1, <1>3, <2>2 DEF Return, Up
  <2>4. left \in [Inum -> InodeType] /\ unlinked \in [Inum -> 0 .. LinkModulus - 1]
    BY <1>1, <2>1, RemovalKeeps DEF Ind, TypeOK
  <2> HIDE DEF c
  <2>5. \A i \in Inum : inode'[i] = IF i = c THEN FreeInode ELSE WithoutLinks(p, c)[i]
    BY <2>3, <2>4
  <2>6. \A b \in Block : b \notin DirBlocks(c) => data'[b] = WithoutEntry(p, n)[b]
    BY <1>3
  <2>7. \A i \in Inum : unlinked'[i] = IF IsDir(c) THEN (IF i = c THEN 0 ELSE unlinked[i])
                                       ELSE IF i = p THEN (unlinked[i] + 1) % LinkModulus
                                       ELSE unlinked[i]
    BY <1>3, <2>4
  <2> QED
    BY <1>1, <1>3, <2>3, <2>5, <2>6, <2>7, RemovedTree DEF c
<1> QED
  BY <1>2, <1>3 DEF unlink, RemoveFile

(* A change of a file record that leaves its links alone. *)
LEMMA FileChangeTree ==
  ASSUME Ind, Up, Up', TreeHere, NEW i \in Inum, IsFile(i),
         NEW r, r.inUse, ~ r.isDir, r.nLinks = inode[i].nLinks,
         inode' = [inode EXCEPT ![i] = r], data' = data, unlinked' = unlinked, reply' = "OK"
  PROVE  TreeHere' /\ Tree!Next
<1>1. /\ Entries' = Entries
      /\ Directories' = Directories
      /\ InUse' = InUse
  BY FileStepKeeps
<1>2. Edges' = Edges
  BY <1>1, EdgesNext, EdgesAreOf
<1>3. Counted(inode', Edges, unlinked)
  <2> DEFINE table2 == inode'
  <2>1. inode[i].inUse /\ ~ inode[i].isDir /\ inode \in [Inum -> InodeType]
    BY DEF IsFile, Ind, TypeOK
  <2>2. \A j \in Inum : table2[j] = IF j = i THEN r ELSE inode[j]
    BY <2>1
  <2>3. DirsOf(table2) = DirsOf(inode)
    <3>1. Directories' = DirsOf(inode')
      BY DEF Directories, DirsOf, IsDir
    <3> QED
      BY <1>1, <3>1, EntriesAre
  <2>4. \A j \in DirsOf(inode) : j \in Inum /\ j # i
    BY <2>1 DEF DirsOf
  <2> HIDE DEF table2
  <2>5. \A j \in Inum : table2[j].inUse /\ ~ table2[j].isDir => table2[j].nLinks = 1
    BY <2>1, <2>2 DEF TreeHere, Counted
  <2>6. \A j \in DirsOf(inode) : table2[j].nLinks = inode[j].nLinks
    BY <2>2, <2>4
  <2>7. Counted(table2, Edges, unlinked)
    BY <2>3, <2>5, <2>6 DEF TreeHere, Counted
  <2> QED
    BY <2>7 DEF table2
<1>4. TreeHere'
  BY <1>1, <1>2, <1>3 DEF TreeHere
<1>5. Tree!Next
  BY <1>1, <1>2, StepOnFile
<1> QED
  BY <1>4, <1>5

(* A request for a file that is answered and changes nothing. *)
LEMMA FileSameTree ==
  ASSUME Up, TreeHere, NEW i \in Inum, IsFile(i), NEW r \in {"OK", "EACCES"}, Refuse(r)
  PROVE  TreeHere' /\ Tree!Next
<1>1. /\ inode' = inode /\ data' = data /\ unlinked' = unlinked
      /\ Up' /\ reply' = r
  BY DEF Refuse, Return, fsVars, Up
<1>2. TreeHere' /\ Edges' = Edges /\ Directories' = Directories
  BY <1>1, StepKeeps
<1> QED
  BY <1>1, <1>2, StepOnFile

(* chmod. *)
LEMMA chmodTree ==
  ASSUME Ind, TreeHere, NEW i \in Inum, NEW w \in Perms, chmod(i, w)
  PROVE  (Up' => TreeHere') /\ Tree!Next
<1> DEFINE r == [inode[i] EXCEPT !.writable = w]
<1>1. /\ Up /\ Up' /\ IsFile(i) /\ reply' = "OK"
      /\ inode' = [inode EXCEPT ![i] = r] /\ data' = data /\ unlinked' = unlinked
  BY DEF chmod, Return, Up
<1>2. inode[i] \in InodeType
  BY DEF Ind, TypeOK
<1>3. r.inUse /\ ~ r.isDir /\ r.nLinks = inode[i].nLinks
  BY <1>1, <1>2 DEF InodeType, IsFile
<1> HIDE DEF r
<1> QED
  BY <1>1, <1>3, FileChangeTree

(* Records with the same links. *)
SameLinks(r, s) ==
  /\ DOMAIN s = DOMAIN r
  /\ s.inUse = r.inUse /\ s.isDir = r.isDir /\ s.nLinks = r.nLinks

(* Fewer or more blocks, the same links. *)
LEMMA ResizedLinks ==
  ASSUME NEW r \in InodeType, NEW count, NEW got
  PROVE  SameLinks(r, Shrunk(r, count)) /\ SameLinks(r, Grown(r, count, got)) /\ SameLinks(r, r)
<1>1. DOMAIN r = {"inUse", "isDir", "writable", "nLinks", "size", "blocks", "indirect", "ptrs"}
  BY DEF InodeType
<1>2. SameLinks(r, Shrunk(r, count))
  BY <1>1 DEF Shrunk, SameLinks
<1>3. SameLinks(r, Grown(r, count, got))
  BY <1>1 DEF Grown, SameLinks
<1> QED
  BY <1>2, <1>3 DEF SameLinks

(* do_truncate. *)
LEMMA do_truncateTree ==
  ASSUME Ind, Up, TreeHere, NEW i \in Inum, IsFile(i), NEW sz, do_truncate(i, sz)
  PROVE  (Up' => TreeHere') /\ Tree!Next
<1> DEFINE old   == inode[i]
           count == BlocksFor(sz)
           fewer == Shrunk(old, count)
           got   == reserve_data_blocks(count - old.blocks
                                     + (IF NeedsIndirect(old, count) THEN 1 ELSE 0))
           more  == Grown(old, count, got)
<1>1. old \in InodeType /\ inode \in [Inum -> InodeType] /\ old.inUse /\ ~ old.isDir
  BY DEF Ind, TypeOK, IsFile
<1>2. CASE Undefined
  <2>1. ~ Up' /\ reply' = reply
    BY <1>2 DEF Undefined, Up
  <2> QED
    BY <2>1, StepStops
<1>3. ASSUME NEW s, SameLinks(old, s),
             inode' = [inode EXCEPT ![i] = [s EXCEPT !.size = sz]],
             data' = data, unlinked' = unlinked, Return("OK")
      PROVE  (Up' => TreeHere') /\ Tree!Next
  <2> DEFINE r == [s EXCEPT !.size = sz]
  <2>1. r.inUse = old.inUse /\ r.isDir = old.isDir /\ r.nLinks = old.nLinks
    <3>1. DOMAIN s = {"inUse", "isDir", "writable", "nLinks", "size", "blocks", "indirect", "ptrs"}
      BY <1>1, <1>3 DEF InodeType, SameLinks
    <3> QED
      BY <1>3, <3>1 DEF SameLinks
  <2>2. inode' = [inode EXCEPT ![i] = r] /\ reply' = "OK"
    BY <1>3 DEF Return
  <2> HIDE DEF r
  <2>3. CASE Up'
    BY <1>1, <1>3, <2>1, <2>2, <2>3, FileChangeTree
  <2>4. CASE ~ Up'
    BY <2>2, <2>4, StepStops
  <2> QED
    BY <2>3, <2>4
<1>4. SameLinks(old, fewer) /\ SameLinks(old, more) /\ SameLinks(old, old)
  BY <1>1, ResizedLinks
<1>5. CASE inode' = [inode EXCEPT ![i].size = sz] /\ UNCHANGED <<data, unlinked>> /\ Return("OK")
  BY <1>3, <1>4, <1>5
<1>6. CASE /\ inode' = [inode EXCEPT ![i] = [fewer EXCEPT !.size = sz]]
           /\ UNCHANGED <<data, unlinked>> /\ Return("OK")
  BY <1>3, <1>4, <1>6
<1>7. CASE /\ inode' = [inode EXCEPT ![i] = [more EXCEPT !.size = sz]]
           /\ UNCHANGED <<data, unlinked>> /\ Return("OK")
  BY <1>3, <1>4, <1>7
<1> QED
  BY <1>2, <1>5, <1>6, <1>7 DEF do_truncate

(* truncate and write. *)
LEMMA truncateTree ==
  ASSUME Ind, TreeHere, NEW i \in Inum, NEW sz \in Sizes, truncate(i, sz)
  PROVE  (Up' => TreeHere') /\ Tree!Next
BY do_truncateTree, FileSameTree DEF truncate

(* write changes the tree as little as truncate does. *)
LEMMA writeTree ==
  ASSUME Ind, TreeHere, NEW i \in Inum, NEW end \in Sizes, write(i, end)
  PROVE  (Up' => TreeHere') /\ Tree!Next
BY do_truncateTree, FileSameTree DEF write

(* The first state. *)
LEMMA InitTree == Init => TreeInd /\ Tree!Init
<1> SUFFICES ASSUME Init PROVE TreeInd /\ Tree!Init
  OBVIOUS
<1> DEFINE r == ROOT_INUM
<1>1. r \in Inum /\ 0 \in PtrIndex /\ 0 \in Block
  <2>1. NumDataBlocks \in Nat /\ Scanned(NumDataBlocks) \in Nat
    BY BlocksAssumption, ScannedCovers
  <2> QED
    BY <2>1, InodesAssumption, PointersAssumption DEF ROOT_INUM, Inum, PtrIndex, MaxFileBlocks, Block
<1>2. /\ inode[r] = NewDirInode(0)
      /\ \A i \in Inum : i # r => inode[i] = FreeInode
      /\ data[0] = DirBlock(r, r)
      /\ \A i \in Inum : unlinked[i] = 0
      /\ Up
  BY <1>1 DEF Init, Up
<1>3. /\ NewDirInode(0).inUse /\ NewDirInode(0).isDir /\ NewDirInode(0).blocks = 1
      /\ NewDirInode(0).ptrs[0] = 0 /\ NewDirInode(0).nLinks = 2
  BY <1>1 DEF NewDirInode
<1> HIDE DEF r
<1>4. /\ \A i : i \in DirsOf(inode) <=> i = r
      /\ \A i : i \in InUse <=> i = r
      /\ Directories = DirsOf(inode)
  BY <1>1, <1>2, <1>3, FreeInodeFields, EntriesAre DEF DirsOf, InUse
<1>5. \A e : e \in EntriesOf(inode, data) <=> e = DotOf(r) \/ e = UpOf(r, r)
  <2>1. r \in DirsOf(inode) /\ inode[r].blocks = 1 /\ data[inode[r].ptrs[0]] = DirBlock(r, r)
    BY <1>2, <1>3, <1>4
  <2>2. \A e : e \in EntriesOf(inode, data) /\ e.dir = r <=> e \in {DotOf(r), UpOf(r, r)}
    BY <1>1, <2>1, DotsInside DEF DotOf, UpOf
  <2>3. \A e \in EntriesOf(inode, data) : e.dir = r
    BY <1>4, EntryIs
  <2> QED
    BY <2>2, <2>3
<1>6. "." \in Dots /\ ".." \in Dots /\ "." # ".."
  BY DEF Dots
<1>7. \A e : e \in Entries <=> e = DotOf(r) \/ e = UpOf(r, r)
  BY <1>5 DEF Entries
<1>8. Named(Entries) = {}
  BY <1>6, <1>7, DotFields DEF Named
<1>9. IsTree(Entries, Directories, InUse)
  <2>1. WellNamed(Entries, Directories)
    BY <1>1, <1>4, <1>6, <1>7, DotFields DEF WellNamed
  <2>2. Leading(Entries, InUse)
    BY <1>4, <1>8 DEF Leading, r
  <2>3. Dotted(Entries, Directories)
    <3>1. LeadsUp(Entries, UpOf(r, r))
      BY DotFields DEF LeadsUp, r
    <3> QED
      BY <1>4, <1>7, <3>1, DotFields DEF Dotted
  <2>4. Rooted(Entries, Directories)
    BY <1>4 DEF Rooted, r
  <2> QED
    BY <1>4, <2>1, <2>2, <2>3, <2>4 DEF IsTree, r
<1>10. Edges = {}
  BY <1>8, EdgesAre
<1>11. Counted(inode, Edges, unlinked)
  <2>1. \A i : SubEdges(Edges, DirsOf(inode), i) = {}
    BY <1>10 DEF SubEdges
  <2>2. LinksFor(0, 0) = 2
    <3>1. 0 \in Nat /\ 0 \in 0 .. LinkModulus - 1
      BY LinksAssumption
    <3> QED
      BY <3>1, LinksFollow
  <2>3. \A i \in DirsOf(inode) : inode[i].nLinks = 2 /\ unlinked[i] = 0
    BY <1>1, <1>2, <1>3, <1>4
  <2>4. \A i \in DirsOf(inode) : Cardinality(SubEdges(Edges, DirsOf(inode), i)) = 0
    BY <2>1, FewElements
  <2> QED
    BY <1>1, <1>2, <1>3, <2>2, <2>3, <2>4, FreeInodeFields DEF Counted
<1>12. TreeInd
  BY <1>9, <1>11, InitInd DEF TreeInd
<1>13. Tree!Init
  <2>1. Directories = {ROOT_INUM}
    BY <1>4 DEF r
  <2>2. reply = "OK"
    BY DEF Init
  <2> QED
    BY <1>2, <1>10, <2>1, <2>2 DEF Tree!Init
<1> QED
  BY <1>12, <1>13

(* Every step. *)
LEMMA NextTree ==
  ASSUME TreeInd, Next
  PROVE  TreeInd' /\ Tree!Next
<1>1. Ind /\ Ind'
  BY NextInd DEF TreeInd
<1>2. Up
  BY DEF Next, mkdir, mknod, rmdir, RemoveDir, unlink, RemoveFile, chmod, truncate, write
<1>3. TreeHere
  BY <1>2 DEF TreeInd, TreeHere
<1>4. (Up' => TreeHere') /\ Tree!Next
  BY <1>1, <1>3, PermsAssumption, mkdirTree, mknodTree, rmdirTree, unlinkTree, chmodTree, truncateTree, writeTree DEF Next
<1> QED
  BY <1>1, <1>4 DEF TreeInd, TreeHere

(* Every step keeps the invariant, *)
LEMMA NextTreeInd ==
  ASSUME TreeInd, [Next]_vars
  PROVE  TreeInd'
<1>1. CASE Next
  BY <1>1, NextTree
<1>2. CASE UNCHANGED vars
  <2>1. Ind'
    BY <1>2, StutterInd DEF TreeInd
  <2>2. CASE Up
    <3>1. /\ inode' = inode /\ data' = data /\ unlinked' = unlinked /\ Up' /\ TreeHere
      BY <1>2, <2>2 DEF vars, Up, TreeInd, TreeHere
    <3>2. TreeHere'
      BY <2>2, <3>1, StepKeeps
    <3> QED
      BY <2>1, <3>2 DEF TreeInd, TreeHere
  <2>3. CASE ~ Up
    BY <1>2, <2>1, <2>3 DEF vars, Up, TreeInd
  <2> QED
    BY <2>2, <2>3
<1> QED
  BY <1>1, <1>2

(* and so it holds. *)
LEMMA TreeInvariant == Spec => []TreeInd
<1>1. Init => TreeInd
  BY InitTree
<1>2. TreeInd /\ [Next]_vars => TreeInd'
  BY NextTreeInd
<1> QED
  BY <1>1, <1>2, PTL DEF Spec

-----------------------------------------------------------------------------
(* The theorems *)

(* After any requests every inode in use but the root is found under one   *)
(* name in one directory, a directory holds a name once, and no entry      *)
(* leads to a free inode: mkdir and mknod leave no orphan, rmdir and       *)
(* unlink no dangling entry.                                               *)
THEOREM EntriesMatchInodes == Spec => []OneEntryEach
<1>1. TreeInd => OneEntryEach
  BY TreeIndImplies
<1> QED
  BY <1>1, TreeInvariant, PTL

(* In every directory "." leads to itself and ".." to its only parent.     *)
THEOREM DotsAlwaysLeadHome == Spec => []DotsLeadHome
<1>1. TreeInd => DotsLeadHome
  BY TreeIndImplies
<1> QED
  BY <1>1, TreeInvariant, PTL

(* Every directory is reached from the root: going up by ".." leaves every *)
(* set of directories that the root is not in.                             *)
THEOREM NoCircleIsCutOff == Spec => []NoCutOffCircle
<1>1. TreeInd => NoCutOffCircle
  BY TreeIndImplies
<1> QED
  BY <1>1, TreeInvariant, PTL

(* n_links of a directory is two and one for each directory in it, less    *)
(* one for each file ever unlinked from it, as uint16_t counts; n_links of *)
(* a file is one.                                                          *)
THEOREM LinksAreCounted == Spec => []LinkCounts
<1>1. TreeInd => LinkCounts
  BY TreeIndImplies
<1> QED
  BY <1>1, TreeInvariant, PTL

(* mkdir, mknod, rmdir, unlink and the requests for files are the requests *)
(* of a tree: each adds or removes the one edge it names, or returns an    *)
(* error that is true of the tree and changes nothing.                     *)
THEOREM RefsFSImplementsFileTree == Spec => ImplementsFileTree
<1>1. Init => Tree!Init
  BY InitTree
<1>2. TreeInd /\ [Next]_vars => [Tree!Next]_(Tree!vars)
  <2> SUFFICES ASSUME TreeInd, [Next]_vars PROVE [Tree!Next]_(Tree!vars)
    OBVIOUS
  <2>1. CASE Next
    BY <2>1, NextTree
  <2>2. CASE UNCHANGED vars
    <3>1. /\ Up' = Up /\ reply' = reply
      BY <2>2 DEF vars, Up
    <3>2. CASE Up
      <4>1. /\ inode' = inode /\ data' = data /\ unlinked' = unlinked /\ Up' /\ TreeHere
        BY <2>2, <3>2 DEF vars, Up, TreeInd, TreeHere
      <4>2. Edges' = Edges /\ Directories' = Directories
        BY <3>2, <4>1, StepKeeps
      <4> QED
        BY <3>1, <4>2 DEF Tree!vars
    <3>3. CASE ~ Up
      BY <3>1, <3>3 DEF Tree!vars
    <3> QED
      BY <3>2, <3>3
  <2> QED
    BY <2>1, <2>2
<1> QED
  BY <1>1, <1>2, TreeInvariant, PTL DEF Spec, ImplementsFileTree, Tree!Spec

=============================================================================

--------------------------- MODULE RefsFileProofs ---------------------------
(***************************************************************************)
(* Theorems of RefsFile: files are rows of bytes of their own, for every   *)
(* size of a block and number of pointers, and no byte of a directory or   *)
(* of block pointers shows in one.                                         *)
(***************************************************************************)
EXTENDS RefsFile, NameSpaceProofs

-----------------------------------------------------------------------------
(* Positions in a file and in its blocks *)

(* A position is at a byte of a block. *)
LEMMA PositionType ==
  ASSUME NEW p \in Nat
  PROVE  /\ p \div BlockSize \in Nat
         /\ ByteAt(p) \in Byte
         /\ p = BlockSize * (p \div BlockSize) + ByteAt(p)
BY BlockSizeAssumption DEF ByteAt, Byte

(* The positions of n blocks. *)
LEMMA PositionBound ==
  ASSUME NEW p \in Nat, NEW n \in Nat
  PROVE  p < n * BlockSize <=> p \div BlockSize < n
<1> DEFINE q == p \div BlockSize
           x == ByteAt(p)
           m == BlockSize
<1>1. m \in Nat \ {0} /\ q \in Nat /\ x \in 0 .. m - 1 /\ p = m * q + x
  BY PositionType, BlockSizeAssumption DEF Byte
<1> HIDE DEF q, x, m
<1>2. m * q \in Nat /\ m * n \in Nat /\ n * m = m * n
  BY <1>1
<1>3. CASE q < n
  <2>1. m * (q + 1) <= m * n
    <3>1. q + 1 <= n
      BY <1>1, <1>3
    <3> QED
      BY <1>1, <3>1
  <2>2. m * (q + 1) = m * q + m
    BY <1>1
  <2> QED
    BY <1>1, <1>2, <1>3, <2>1, <2>2 DEF q, m
<1>4. CASE n <= q
  <2>1. m * n <= m * q
    BY <1>1, <1>4
  <2> QED
    BY <1>1, <1>2, <1>4, <2>1 DEF q, m
<1> QED
  BY <1>1, <1>3, <1>4

(* Positions of one block. *)
LEMMA SameBlock ==
  ASSUME NEW p \in Nat, NEW t \in Nat, ByteAt(p) + t < BlockSize
  PROVE  (p + t) \div BlockSize = p \div BlockSize /\ ByteAt(p + t) = ByteAt(p) + t
<1> DEFINE q == p \div BlockSize
           x == ByteAt(p) + t
           a == p + t
           m == BlockSize
<1>1. m \in Nat \ {0} /\ q \in Nat /\ x \in 0 .. m - 1 /\ a \in Nat /\ a = m * q + x
  <2>1. p = m * q + ByteAt(p) /\ q \in Nat /\ ByteAt(p) \in 0 .. m - 1 /\ m \in Nat \ {0}
    BY PositionType, BlockSizeAssumption DEF Byte
  <2>2. m * q \in Nat
    BY <2>1
  <2> HIDE DEF q, m
  <2> QED
    BY <2>1, <2>2 DEF m
<1> HIDE DEF q, x, a, m
<1>2. a \div m = q /\ a % m = x
  BY <1>1, DivisionIs
<1> QED
  BY <1>2 DEF q, x, a, m, ByteAt

-----------------------------------------------------------------------------
(* The calls of do_write and do_read *)

CallType == [size : Nat, offset : Nat]

(* A call copies something, but not more than asked for or than there is   *)
(* room for in the block.                                                  *)
LEMMA CopiesIs ==
  ASSUME NEW c \in CallType
  PROVE  /\ Copies(c) \in 0 .. c.size
         /\ c.size > 0 => Copies(c) > 0
         /\ ByteAt(c.offset) + Copies(c) <= BlockSize
<1>1. c.size \in Nat /\ c.offset \in Nat
  BY DEF CallType
<1>2. ByteAt(c.offset) \in 0 .. BlockSize - 1 /\ BlockSize \in Nat
  BY <1>1, PositionType, BlockSizeAssumption DEF Byte
<1> QED
  BY <1>1, <1>2 DEF Copies, copy_size

(* What is left is a call, too. *)
LEMMA RestType ==
  ASSUME NEW c \in CallType
  PROVE  /\ Rest(c) \in CallType
         /\ Rest(c).size = c.size - Copies(c)
         /\ Rest(c).offset = c.offset + Copies(c)
<1>1. c.size \in Nat /\ c.offset \in Nat /\ Copies(c) \in 0 .. c.size
  BY CopiesIs DEF CallType
<1> QED
  BY <1>1 DEF Rest, CallType

(* The first l calls of a request. *)
Chain(g, l, size, offset) ==
  /\ g \in [0 .. l -> CallType]
  /\ g[0] = [size |-> size, offset |-> offset]
  /\ \A k \in 1 .. l : g[k] = Rest(g[k - 1])

(* There are any number of them. *)
LEMMA ChainExists ==
  ASSUME NEW size \in Nat, NEW offset \in Nat
  PROVE  \A l \in Nat : \E g : Chain(g, l, size, offset)
<1> DEFINE first == [size |-> size, offset |-> offset]
<1>1. first \in CallType
  BY DEF CallType
<1> HIDE DEF first
<1> DEFINE S == {l \in Nat : ~ \E g : Chain(g, l, size, offset)}
<1>2. SUFFICES ASSUME S # {} PROVE FALSE
  OBVIOUS
<1>3. PICK m \in S : \A x \in S : m <= x
  BY <1>2, LeastExists
<1>4. CASE m = 0
  <2> DEFINE g == [k \in 0 .. 0 |-> first]
  <2>1. g \in [0 .. 0 -> CallType] /\ g[0] = first
    BY <1>1
  <2> HIDE DEF g
  <2>2. Chain(g, 0, size, offset)
    BY <2>1 DEF Chain, first
  <2> QED
    BY <1>3, <1>4, <2>2
<1>5. CASE m # 0
  <2> DEFINE l == m - 1
  <2>1. l \in Nat /\ l \notin S /\ m = l + 1
    BY <1>3, <1>5
  <2> HIDE DEF l
  <2>2. PICK f : Chain(f, l, size, offset)
    BY <2>1
  <2> DEFINE g == [k \in 0 .. l + 1 |-> IF k = l + 1 THEN Rest(f[l]) ELSE f[k]]
  <2>3. /\ f \in [0 .. l -> CallType] /\ f[0] = first
        /\ \A k \in 1 .. l : f[k] = Rest(f[k - 1])
    BY <2>2 DEF Chain, first
  <2>4. Rest(f[l]) \in CallType
    <3>1. f[l] \in CallType
      BY <2>1, <2>3
    <3> QED
      BY <3>1, RestType
  <2>5. /\ \A k \in 0 .. l : k \in 0 .. l + 1 /\ k # l + 1
        /\ \A k \in 0 .. l + 1 : k \in 0 .. l \/ k = l + 1
        /\ \A k \in 1 .. l + 1 : k - 1 \in 0 .. l /\ k \in 0 .. l + 1 /\ (k = l + 1 => k - 1 = l)
                                 /\ (k # l + 1 => k \in 1 .. l)
        /\ l + 1 \in 0 .. l + 1 /\ 0 \in 0 .. l
    BY <2>1
  <2>6. g[l + 1] = Rest(f[l]) /\ \A k \in 0 .. l : g[k] = f[k]
    BY <2>5
  <2>7. g \in [0 .. l + 1 -> CallType]
    BY <2>3, <2>4, <2>5
  <2> HIDE DEF g
  <2>8. \A k \in 1 .. l + 1 : g[k] = Rest(g[k - 1])
    BY <2>3, <2>5, <2>6
  <2>9. Chain(g, l + 1, size, offset)
    BY <2>3, <2>5, <2>6, <2>7, <2>8 DEF Chain, first
  <2> QED
    BY <1>3, <2>1, <2>9
<1> QED
  BY <1>4, <1>5

(* They are those that do_write and do_read make. *)
LEMMA CallsAreChain ==
  ASSUME NEW size \in Nat, NEW offset \in Nat
  PROVE  Chain(CallsInOrder(size, offset), size, size, offset)
<1> DEFINE first   == [size |-> size, offset |-> offset]
           Step(f) == [k \in 0 .. size |-> IF k = 0 THEN first ELSE Rest(f[k - 1])]
<1>1. CallsInOrder(size, offset) = CHOOSE f : f = Step(f)
  BY DEF CallsInOrder
<1> HIDE DEF first
<1>2. PICK g : Chain(g, size, size, offset)
  BY ChainExists
<1>3. ASSUME NEW k \in 0 .. size
      PROVE  g[k] = Step(g)[k]
  <2>1. k = 0 \/ k \in 1 .. size
    OBVIOUS
  <2> QED
    BY <1>2, <2>1 DEF Chain, first
<1>4. g = Step(g)
  <2>1. g = [k \in 0 .. size |-> g[k]]
    BY <1>2 DEF Chain
  <2>2. Step(g) = [k \in 0 .. size |-> Step(g)[k]]
    OBVIOUS
  <2> HIDE DEF Step
  <2> QED
    BY <1>3, <2>1, <2>2
<1> DEFINE h == CallsInOrder(size, offset)
<1>5. h = Step(h)
  <2> HIDE DEF Step
  <2> QED
    BY <1>1, <1>4
<1> HIDE DEF h
<1>6. h = [k \in 0 .. size |-> h[k]] /\ h[0] = first
  BY <1>5
<1>7. ASSUME NEW k \in 1 .. size
      PROVE  h[k] = Rest(h[k - 1])
  BY <1>5
<1> DEFINE S == {k \in 0 .. size : h[k] # g[k]}
<1>8. ASSUME S # {} PROVE FALSE
  <2>1. S \in SUBSET Nat
    OBVIOUS
  <2> HIDE DEF S
  <2>2. PICK m \in S : \A x \in S : m <= x
    BY <1>8, <2>1, LeastExists
  <2>3. m \in 0 .. size /\ h[m] # g[m] /\ \A k \in 0 .. size : k < m => h[k] = g[k]
    BY <2>2 DEF S
  <2>4. m # 0
    BY <1>2, <1>6, <2>3 DEF Chain, first
  <2>5. m \in 1 .. size /\ m - 1 \in 0 .. size /\ m - 1 < m
    BY <2>3, <2>4
  <2> QED
    BY <1>2, <1>7, <2>3, <2>5 DEF Chain
<1>9. h = g
  <2>1. g = [k \in 0 .. size |-> g[k]]
    BY <1>2 DEF Chain
  <2> QED
    BY <1>6, <1>8, <2>1
<1> QED
  BY <1>2, <1>9 DEF h

(* Offset and size of a call end where the request ends, and every call    *)
(* makes the size smaller.                                                 *)
LEMMA ChainFacts ==
  ASSUME NEW size \in Nat, NEW offset \in Nat, NEW g, Chain(g, size, size, offset)
  PROVE  \A k \in 0 .. size :
           /\ g[k] \in CallType
           /\ g[k].offset + g[k].size = offset + size
           /\ g[k].size = 0 \/ g[k].size + k <= size
<1>1. \A k \in 0 .. size : g[k] \in CallType
  BY DEF Chain
<1> DEFINE Fact(k) == /\ g[k].offset + g[k].size = offset + size
                      /\ g[k].size = 0 \/ g[k].size + k <= size
           S == {k \in 0 .. size : ~ Fact(k)}
<1>2. ASSUME S # {} PROVE FALSE
  <2>1. S \in SUBSET Nat
    OBVIOUS
  <2> HIDE DEF S, Fact
  <2>2. PICK m \in S : \A x \in S : m <= x
    BY <1>2, <2>1, LeastExists
  <2>3. m \in 0 .. size /\ ~ Fact(m) /\ \A k \in 0 .. size : k < m => Fact(k)
    BY <2>2 DEF S
  <2>4. m # 0
    <3>1. g[0].size = size /\ g[0].offset = offset
      BY DEF Chain
    <3> QED
      BY <2>3, <3>1 DEF Fact
  <2>5. m \in 1 .. size /\ m - 1 \in 0 .. size /\ m - 1 < m
    BY <2>3, <2>4
  <2> DEFINE c == g[m - 1]
  <2>6. c \in CallType /\ Fact(m - 1) /\ g[m] = Rest(c)
    BY <1>1, <2>3, <2>5 DEF Chain
  <2>7. c.offset + c.size = offset + size /\ (c.size = 0 \/ c.size + (m - 1) <= size)
    BY <2>6 DEF Fact
  <2> HIDE DEF c
  <2>8. /\ g[m].size = c.size - Copies(c) /\ g[m].offset = c.offset + Copies(c)
        /\ Copies(c) \in 0 .. c.size /\ (c.size > 0 => Copies(c) > 0)
        /\ c.size \in Nat /\ c.offset \in Nat
    BY <2>6, RestType, CopiesIs DEF CallType
  <2>9. Fact(m)
    BY <2>5, <2>7, <2>8 DEF Fact
  <2> QED
    BY <2>3, <2>9
<1> QED
  BY <1>1, <1>2

(* The positions a call copies. *)
Span(c) == c.offset .. c.offset + Copies(c) - 1

(* The calls of a request are for its positions, those of a call for one   *)
(* block, *)
LEMMA CallsAreInside ==
  ASSUME NEW size \in Nat, NEW offset \in Nat, NEW c \in Calls(size, offset)
  PROVE  /\ c \in CallType
         /\ \A p \in Span(c) :
              /\ p \in Nat
              /\ p < offset + size
              /\ p \div BlockSize = c.offset \div BlockSize
              /\ ByteAt(p) = ByteAt(c.offset) + (p - c.offset)
<1> DEFINE g == CallsInOrder(size, offset)
<1>1. Chain(g, size, size, offset)
  BY CallsAreChain
<1>2. PICK k \in 0 .. size : c = g[k]
  BY DEF Calls
<1> HIDE DEF g
<1>3. c \in CallType /\ c.offset + c.size = offset + size
  BY <1>1, <1>2, ChainFacts
<1>4. /\ c.size \in Nat /\ c.offset \in Nat
      /\ Copies(c) \in 0 .. c.size
      /\ ByteAt(c.offset) + Copies(c) <= BlockSize
  BY <1>3, CopiesIs DEF CallType
<1>5. ASSUME NEW p \in Span(c)
      PROVE  /\ p \in Nat
             /\ p < offset + size
             /\ p \div BlockSize = c.offset \div BlockSize
             /\ ByteAt(p) = ByteAt(c.offset) + (p - c.offset)
  <2>1. p \in Nat /\ p - c.offset \in Nat /\ p = c.offset + (p - c.offset)
        /\ p < c.offset + Copies(c)
    BY <1>4 DEF Span
  <2>2. p < offset + size
    BY <1>3, <1>4, <2>1
  <2>3. ByteAt(c.offset) + (p - c.offset) < BlockSize
    <3>1. ByteAt(c.offset) \in Nat /\ BlockSize \in Nat
      <4>1. c.offset \in Nat
        BY <1>4
      <4>2. ByteAt(c.offset) \in Byte
        BY <4>1, PositionType
      <4> QED
        BY <4>2, BlockSizeAssumption DEF Byte
    <3>2. p - c.offset < Copies(c) /\ Copies(c) \in Nat
      BY <1>4, <2>1
    <3> QED
      BY <1>4, <2>1, <3>1, <3>2
  <2> DEFINE t == p - c.offset
  <2>4. t \in Nat /\ p = c.offset + t /\ ByteAt(c.offset) + t < BlockSize
    BY <2>1, <2>3
  <2> HIDE DEF t
  <2>5. p \div BlockSize = c.offset \div BlockSize /\ ByteAt(p) = ByteAt(c.offset) + t
    BY <1>4, <2>4, SameBlock
  <2> QED
    BY <2>1, <2>2, <2>5 DEF t
<1> QED
  BY <1>3, <1>5

(* none before its beginning, *)
LEMMA CallsBegin ==
  ASSUME NEW size \in Nat, NEW offset \in Nat, NEW c \in Calls(size, offset)
  PROVE  c.offset >= offset
<1> DEFINE g == CallsInOrder(size, offset)
<1>1. Chain(g, size, size, offset)
  BY CallsAreChain
<1>2. PICK k \in 0 .. size : c = g[k]
  BY DEF Calls
<1> HIDE DEF g
<1> DEFINE S == {j \in 0 .. size : g[j].offset < offset}
<1>3. ASSUME S # {} PROVE FALSE
  <2>1. S \in SUBSET Nat
    OBVIOUS
  <2> HIDE DEF S
  <2>2. PICK m \in S : \A x \in S : m <= x
    BY <1>3, <2>1, LeastExists
  <2>3. m \in 0 .. size /\ g[m].offset < offset /\ \A j \in 0 .. size : j < m => ~ (g[j].offset < offset)
    BY <2>2 DEF S
  <2>4. m # 0
    BY <1>1, <2>3 DEF Chain
  <2>5. m \in 1 .. size /\ m - 1 \in 0 .. size /\ m - 1 < m
    BY <2>3, <2>4
  <2> DEFINE d == g[m - 1]
  <2>6. d \in CallType /\ ~ (d.offset < offset) /\ g[m] = Rest(d)
    BY <1>1, <2>3, <2>5 DEF Chain
  <2> HIDE DEF d
  <2>7. g[m].offset = d.offset + Copies(d) /\ Copies(d) \in 0 .. d.size /\ d.offset \in Nat /\ d.size \in Nat
    BY <2>6, RestType, CopiesIs DEF CallType
  <2> QED
    BY <2>3, <2>6, <2>7
<1>4. c.offset \in Nat
  BY <1>1, <1>2 DEF Chain, CallType
<1> QED
  BY <1>2, <1>3, <1>4

(* and for all of them. *)
LEMMA CallsCover ==
  ASSUME NEW size \in Nat, NEW offset \in Nat, NEW p \in offset .. offset + size - 1
  PROVE  \E c \in Calls(size, offset) : p \in Span(c)
<1> DEFINE g == CallsInOrder(size, offset)
<1>1. Chain(g, size, size, offset) /\ \A k \in 0 .. size : g[k].size > 0 => g[k] \in Calls(size, offset)
  BY CallsAreChain DEF Calls
<1> HIDE DEF g
<1> DEFINE S == {k \in 0 .. size : p < g[k].offset}
<1>2. size \in S
  <2>1. size \in 0 .. size
    OBVIOUS
  <2>2. g[size] \in CallType /\ g[size].offset + g[size].size = offset + size
        /\ (g[size].size = 0 \/ g[size].size + size <= size)
    BY <1>1, <2>1, ChainFacts
  <2>3. g[size].size \in Nat /\ g[size].offset \in Nat
    BY <2>2 DEF CallType
  <2> QED
    BY <2>1, <2>2, <2>3
<1>3. S \in SUBSET Nat
  OBVIOUS
<1> HIDE DEF S
<1>4. PICK m \in S : \A x \in S : m <= x
  BY <1>2, <1>3, LeastExists
<1>5. m \in 0 .. size /\ p < g[m].offset /\ \A k \in 0 .. size : k < m => ~ (p < g[k].offset)
  BY <1>4 DEF S
<1>6. m # 0
  BY <1>1, <1>5 DEF Chain
<1>7. m \in 1 .. size /\ m - 1 \in 0 .. size /\ m - 1 < m
  BY <1>5, <1>6
<1> DEFINE c == g[m - 1]
<1>8. c \in CallType /\ g[m] = Rest(c) /\ ~ (p < c.offset) /\ (c.size > 0 => c \in Calls(size, offset))
  BY <1>1, <1>5, <1>7 DEF Chain
<1> HIDE DEF c
<1>9. /\ g[m].offset = c.offset + Copies(c)
      /\ Copies(c) \in 0 .. c.size /\ c.offset \in Nat /\ c.size \in Nat
  BY <1>8, RestType, CopiesIs DEF CallType
<1>10. p \in Span(c) /\ c.size > 0
  BY <1>5, <1>8, <1>9 DEF Span
<1> QED
  BY <1>8, <1>10

(* do_write writes the positions of the request and no other byte. *)
LEMMA do_writeIs ==
  ASSUME NEW size \in Nat, NEW offset \in Nat, NEW r, NEW v, NEW blks
  PROVE  /\ DOMAIN do_write(blks, r, size, offset, v) = Block
         /\ \A b \in Block : DOMAIN do_write(blks, r, size, offset, v)[b] = Byte
         /\ \A b \in Block, x \in Byte :
              do_write(blks, r, size, offset, v)[b][x] =
                IF \E p \in offset .. offset + size - 1 : b = BlockAt(r, p) /\ x = ByteAt(p)
                THEN v ELSE blks[b][x]
<1> DEFINE calls      == Calls(size, offset)
           Filled(c) == ByteAt(c.offset) .. ByteAt(c.offset) + Copies(c) - 1
           done       == do_write(blks, r, size, offset, v)
<1>1. done = [b \in Block |-> [x \in Byte |->
                IF \E c \in calls : b = BlockAt(r, c.offset) /\ x \in Filled(c) THEN v ELSE blks[b][x]]]
  BY DEF do_write
<1>2. \A c \in calls : c \in CallType
  BY CallsAreInside
<1>3. ASSUME NEW b \in Block, NEW x \in Byte, NEW c \in calls,
             b = BlockAt(r, c.offset), x \in Filled(c)
      PROVE  \E p \in offset .. offset + size - 1 : b = BlockAt(r, p) /\ x = ByteAt(p)
  <2> DEFINE p == c.offset + (x - ByteAt(c.offset))
  <2>1. c.offset \in Nat /\ c.size \in Nat /\ Copies(c) \in Nat /\ c.offset >= offset
    BY <1>2, CopiesIs, CallsBegin DEF CallType
  <2>2. ByteAt(c.offset) \in Nat
    BY <2>1, PositionType DEF Byte
  <2>3. p \in Span(c) /\ p - c.offset = x - ByteAt(c.offset) /\ p >= offset
    BY <1>3, <2>1, <2>2 DEF Span
  <2>4. x \in Nat
    BY <1>3, <2>1, <2>2
  <2> HIDE DEF p
  <2>5. /\ p \in Nat /\ p < offset + size
        /\ p \div BlockSize = c.offset \div BlockSize
        /\ ByteAt(p) = ByteAt(c.offset) + (p - c.offset)
    BY <2>3, CallsAreInside
  <2>6. p \in offset .. offset + size - 1
    BY <2>3, <2>5
  <2>7. b = BlockAt(r, p)
    BY <1>3, <2>5 DEF BlockAt
  <2>8. x = ByteAt(p)
    BY <2>2, <2>3, <2>4, <2>5
  <2> QED
    BY <2>6, <2>7, <2>8
<1>4. ASSUME NEW b \in Block, NEW x \in Byte, NEW p \in offset .. offset + size - 1,
             b = BlockAt(r, p), x = ByteAt(p)
      PROVE  \E c \in calls : b = BlockAt(r, c.offset) /\ x \in Filled(c)
  <2>1. PICK c \in calls : p \in Span(c)
    BY CallsCover
  <2>2. /\ p \in Nat
        /\ p \div BlockSize = c.offset \div BlockSize
        /\ ByteAt(p) = ByteAt(c.offset) + (p - c.offset)
    BY <2>1, CallsAreInside
  <2>3. c.offset \in Nat /\ Copies(c) \in Nat /\ c.size \in Nat
    BY <1>2, CopiesIs DEF CallType
  <2>4. ByteAt(c.offset) \in Nat
    BY <2>3, PositionType DEF Byte
  <2>5. p >= c.offset /\ p <= c.offset + Copies(c) - 1
    BY <2>1, <2>3 DEF Span
  <2>6. x \in Filled(c)
    BY <1>4, <2>2, <2>3, <2>4, <2>5
  <2> QED
    BY <1>4, <2>2, <2>6 DEF BlockAt
<1> HIDE DEF calls, Filled
<1>5. ASSUME NEW b \in Block, NEW x \in Byte
      PROVE  done[b][x] = IF \E p \in offset .. offset + size - 1 : b = BlockAt(r, p) /\ x = ByteAt(p)
                          THEN v ELSE blks[b][x]
  BY <1>1, <1>3, <1>4
<1>6. DOMAIN done = Block /\ \A b \in Block : DOMAIN done[b] = Byte
  BY <1>1
<1> QED
  BY <1>5, <1>6

(* do_read reads them. *)
LEMMA do_readIs ==
  ASSUME NEW size \in Nat, NEW offset \in Nat, NEW r
  PROVE  /\ do_read(r, size, offset) = [k \in 1 .. size |-> do_read(r, size, offset)[k]]
         /\ \A k \in 1 .. size :
              do_read(r, size, offset)[k] =
                bytes[BlockAt(r, offset + k - 1)][ByteAt(offset + k - 1)]
<1> DEFINE calls     == Calls(size, offset)
           Call(p)   == CHOOSE c \in calls : p \in c.offset .. c.offset + Copies(c) - 1
           Got(c, p) == bytes[BlockAt(r, c.offset)][ByteAt(c.offset) + (p - c.offset)]
<1>1. do_read(r, size, offset) = [k \in 1 .. size |-> Got(Call(offset + k - 1), offset + k - 1)]
  BY DEF do_read
<1>2. ASSUME NEW k \in 1 .. size
      PROVE  Got(Call(offset + k - 1), offset + k - 1)
               = bytes[BlockAt(r, offset + k - 1)][ByteAt(offset + k - 1)]
  <2> DEFINE p == offset + k - 1
  <2>1. p \in offset .. offset + size - 1
    OBVIOUS
  <2> HIDE DEF p
  <2>2. Call(p) \in calls /\ p \in Span(Call(p))
    BY <2>1, CallsCover DEF Span
  <2>3. /\ p \div BlockSize = Call(p).offset \div BlockSize
        /\ ByteAt(p) = ByteAt(Call(p).offset) + (p - Call(p).offset)
    BY <2>2, CallsAreInside
  <2> HIDE DEF Call
  <2>4. Got(Call(p), p) = bytes[BlockAt(r, p)][ByteAt(p)]
    BY <2>3 DEF BlockAt
  <2> QED
    BY <2>4 DEF p
<1> HIDE DEF Got, Call
<1> QED
  BY <1>1, <1>2

-----------------------------------------------------------------------------
(* Every request is one of RefsFS, as far as inodes and bitmaps go *)

(* The invariant of RefsFS, while the process is up. *)
LEMMA TreeUp ==
  ASSUME Up
  PROVE  TreeInd <=> Ind /\ TreeHere
BY DEF TreeInd, TreeHere

(* A request for a file that changes no inode. *)
LEMMA SameTreeInd ==
  ASSUME TreeInd, Up, NEW i \in Inum, IsFile(i), NEW r \in {"OK", "EACCES"}, Refuse(r)
  PROVE  TreeInd'
<1>1. r \in Replies
  BY DEF Replies
<1>2. Ind /\ TreeHere
  BY TreeUp
<1>3. Ind' /\ TreeHere'
  BY <1>1, <1>2, RefuseInd, FileSameTree
<1> QED
  BY <1>3 DEF TreeInd, TreeHere

(* A file gets another size. *)
LEMMA do_truncateTreeInd ==
  ASSUME TreeInd, Up, NEW i \in Inum, IsFile(i), NEW sz \in Nat, do_truncate(i, sz)
  PROVE  TreeInd'
<1>1. Ind /\ TreeHere
  BY TreeUp
<1>2. Ind' /\ (Up' => TreeHere')
  BY <1>1, do_truncateInd, do_truncateTree
<1> QED
  BY <1>2 DEF TreeInd, TreeHere

(* A request that changes the name space. *)
LEMMA EntryTreeInd ==
  ASSUME TreeInd, NEW p \in Inum, NEW n \in Names,
         mknod(p, n, TRUE) \/ mkdir(p, n) \/ rmdir(p, n) \/ unlink(p, n)
  PROVE  TreeInd'
<1>1. Up
  BY DEF mknod, mkdir, rmdir, RemoveDir, unlink, RemoveFile
<1>2. Ind /\ TreeHere
  BY <1>1, TreeUp
<1>3. Ind' /\ (Up' => TreeHere')
  BY <1>2, mknodInd, mknodTree, mkdirInd, mkdirTree, rmdirInd, rmdirTree, unlinkInd, unlinkTree
<1> QED
  BY <1>3 DEF TreeInd, TreeHere

(* The block pointers of an inode are addresses of taken data blocks. *)
LEMMA OwnedTaken ==
  ASSUME Ind, Up, NEW i \in Inum, NEW b \in BlocksAt(inode[i], 0 .. inode[i].blocks - 1)
  PROVE  b \in Block /\ b \in dataBitmap /\ b \in Owned(i)
<1>1. PICK k \in 0 .. inode[i].blocks - 1 : b = inode[i].ptrs[k]
  BY DEF BlocksAt
<1>2. b \in Block /\ b \in Owned(i)
  BY <1>1, PtrsAreBlocks
<1>3. dataBitmap = UNION {Held(inode[j]) : j \in Inum}
  BY DEF Ind, Sane
<1> QED
  BY <1>2, <1>3 DEF Owned

(* What the reserved blocks of a creation are for. *)
LEMMA CreationIs ==
  ASSUME Ind, Up, Up', NEW p \in Inum, IsDir(p), NEW n, NEW isDir \in BOOLEAN,
         NEW child, child.isDir = isDir, NEW contents,
         CreateIn(p, n, child, contents, NewBlocks(p, isDir))
  PROVE  /\ reply' = "OK"
         /\ reserve_inode \in Inum
         /\ ~ inode[reserve_inode].inUse
         /\ inode'[reserve_inode] = child
         /\ inode'[p].inUse /\ inode'[p].isDir
         /\ \A j \in Inum : j # p /\ j # reserve_inode => inode'[j] = inode[j]
<1> DEFINE got == NewBlocks(p, isDir)
           c   == reserve_inode
<1>1. c < NumInodes /\ ~ NoRoom(p) /\ Link(p, n, c, child, contents, got)
  BY DEF CreateIn, Undefined, StopForRoom, Up
<1>2. c \in Inum /\ c \notin inodeBitmap
  BY <1>1, ReservedInode DEF Ind
<1>3. ~ inode[c].inUse
  BY <1>2 DEF Ind, Sane
<1>4. c # p
  BY <1>3 DEF IsDir
<1>5. inode' = [inode EXCEPT ![c] = child, ![p] = WithChild(p, isDir, got)] /\ reply' = "OK"
  BY <1>1 DEF Link, Return
<1>6. WithChild(p, isDir, got).inUse /\ WithChild(p, isDir, got).isDir
  <2>1. NeedsBlock(p) => got[ForChild(isDir) + 1] \in Block
    BY <1>1, NewBlocksSplit
  <2> DEFINE base == IF NeedsBlock(p) THEN AddBlock(inode[p], got[ForChild(isDir) + 1]) ELSE inode[p]
  <2>2. WithChild(p, isDir, got).inUse /\ Alike(base, WithChild(p, isDir, got))
    BY <1>1, <2>1, ParentShape
  <2>3. inode[p] \in InodeType /\ inode[p].isDir
    BY DEF Ind, TypeOK, IsDir
  <2>4. base.isDir
    <3>1. CASE NeedsBlock(p)
      <4>1. inode[p].blocks < NumDirect
        BY <1>1, <2>3, <3>1, PointersAssumption DEF NoRoom, InodeType, MaxFileBlocks
      <4>2. AddBlock(inode[p], got[ForChild(isDir) + 1]).isDir = inode[p].isDir
        BY <2>1, <2>3, <3>1, <4>1, AddBlockShape
      <4> QED
        BY <2>3, <3>1, <4>2
    <3>2. CASE ~ NeedsBlock(p)
      BY <2>3, <3>2
    <3> QED
      BY <3>1, <3>2
  <2> QED
    BY <2>2, <2>4 DEF Alike
<1>7. inode \in [Inum -> InodeType]
  BY DEF Ind, TypeOK
<1> HIDE DEF got, c
<1>8. /\ inode'[c] = child
      /\ inode'[p] = WithChild(p, isDir, got)
      /\ \A j \in Inum : j # p /\ j # c => inode'[j] = inode[j]
  BY <1>2, <1>4, <1>5, <1>7
<1> QED
  BY <1>2, <1>3, <1>5, <1>6, <1>8 DEF c

(* What becomes of a file that gets another size: the blocks it keeps stay *)
(* in their places, the others were free.                                  *)
LEMMA ResizeIs ==
  ASSUME Ind, Up, Up', NEW i \in Inum, IsFile(i), NEW sz \in Nat, do_truncate(i, sz)
  PROVE  /\ Ind'
         /\ inode[i] \in InodeType /\ inode'[i] \in InodeType
         /\ inode'[i].inUse /\ ~ inode'[i].isDir
         /\ inode'[i].size = sz
         /\ inode'[i].blocks = BlocksFor(sz)
         /\ \A j \in Inum : j # i => inode'[j] = inode[j]
         /\ \A k \in Nat : k < inode[i].blocks /\ k < inode'[i].blocks =>
              inode'[i].ptrs[k] = inode[i].ptrs[k]
         /\ \A k \in inode[i].blocks .. inode'[i].blocks - 1 :
              inode'[i].ptrs[k] \notin dataBitmap
<1> DEFINE old   == inode[i]
           count == BlocksFor(sz)
           fewer == Shrunk(old, count)
           got   == reserve_data_blocks(Wanted(old, count))
           more  == Grown(old, count, got)
           Changed == /\ inode'[i].inUse /\ ~ inode'[i].isDir
                      /\ inode'[i].size = sz
                      /\ inode'[i].blocks = count
                      /\ \A j \in Inum : j # i => inode'[j] = inode[j]
                      /\ \A k \in old.blocks .. count - 1 : inode'[i].ptrs[k] \notin dataBitmap
<1>1. /\ inode \in [Inum -> InodeType] /\ old \in InodeType /\ count \in Nat
      /\ old.blocks \in 0 .. MaxFileBlocks /\ MaxFileBlocks \in Nat
      /\ old.inUse /\ ~ old.isDir
  BY BlocksForType, PointersAssumption DEF Ind, TypeOK, InodeType, IsFile, MaxFileBlocks
<1>2. Ind' /\ AllInPlace
  BY do_truncateInd, do_truncateInPlace
<1>3. inode'[i] \in InodeType
  BY <1>2 DEF Ind, TypeOK
<1>4. ASSUME NEW s \in InodeType, s.inUse, ~ s.isDir, s.blocks = count,
             inode' = [inode EXCEPT ![i] = [s EXCEPT !.size = sz]],
             \A k \in old.blocks .. count - 1 : s.ptrs[k] \notin dataBitmap
      PROVE  Changed
  <2>1. Alike(s, [s EXCEPT !.size = sz]) /\ [s EXCEPT !.size = sz].size = sz
    BY <1>4, Resized
  <2> DEFINE t == [s EXCEPT !.size = sz]
  <2>2. /\ t.inUse = s.inUse /\ t.isDir = s.isDir /\ t.blocks = s.blocks /\ t.ptrs = s.ptrs
        /\ t.size = sz /\ inode' = [inode EXCEPT ![i] = t]
    BY <1>4, <2>1 DEF Alike
  <2> HIDE DEF t, old, count
  <2>3. inode'[i] = t /\ \A j \in Inum : j # i => inode'[j] = inode[j]
    BY <1>1, <2>2
  <2> QED
    BY <1>4, <2>2, <2>3
<1> HIDE DEF Changed
<1>5. ASSUME count = old.blocks, inode' = [inode EXCEPT ![i].size = sz]
      PROVE  Changed
  <2>1. inode' = [inode EXCEPT ![i] = [old EXCEPT !.size = sz]]
    BY <1>5
  <2>2. \A k \in old.blocks .. count - 1 : FALSE
    BY <1>1, <1>5
  <2> HIDE DEF count
  <2> QED
    BY <1>1, <1>4, <1>5, <2>1, <2>2
<1>6. ASSUME count < old.blocks, inode' = [inode EXCEPT ![i] = [fewer EXCEPT !.size = sz]]
      PROVE  Changed
  <2>1. HoldsDistinct(old)
    BY <1>1 DEF Ind, Sane
  <2>2. fewer \in InodeType /\ fewer.inUse = old.inUse /\ fewer.isDir = old.isDir /\ fewer.blocks = count
    BY <1>1, <1>6, <2>1, ShrunkHolds
  <2>3. \A k \in old.blocks .. count - 1 : FALSE
    BY <1>1, <1>6
  <2> HIDE DEF fewer, count
  <2> QED
    BY <1>1, <1>4, <1>6, <2>2, <2>3
<1>7. ASSUME old.blocks < count, count <= MaxFileBlocks,
             inode' = [inode EXCEPT ![i] = [more EXCEPT !.size = sz]],
             status' = AfterReserving(got)
      PROVE  Changed
  <2>1. count \in old.blocks + 1 .. MaxFileBlocks
    BY <1>1, <1>7
  <2>2. Wanted(old, count) \in Nat
    BY <1>1, <2>1, TurnsAreUsedOnce
  <2>3. \A k \in old.blocks .. count - 1 : Turn(old, count, k) \in 1 .. Wanted(old, count)
    BY <1>1, <2>1, TurnsAreUsedOnce
  <2> HIDE DEF old, count
  <2>4. /\ got \in [1 .. Wanted(old, count) -> Block]
        /\ \A t \in 1 .. Wanted(old, count) : got[t] \notin dataBitmap
    BY <1>7, <2>2, Reserved DEF Up
  <2> HIDE DEF got
  <2>5. /\ more \in InodeType /\ more.inUse = old.inUse /\ more.isDir = old.isDir
        /\ more.blocks = count
        /\ \A k \in old.blocks .. count - 1 : more.ptrs[k] = got[Turn(old, count, k)]
    <3>1. old \in InodeType /\ got \in [1 .. Wanted(old, count) -> Block]
      BY <1>1, <2>4
    <3> QED
      BY <2>1, <3>1, GrownShape, Zenon
  <2> HIDE DEF more
  <2>6. \A k \in old.blocks .. count - 1 : more.ptrs[k] \notin dataBitmap
    <3> TAKE k \in old.blocks .. count - 1
    <3>1. Turn(old, count, k) \in 1 .. Wanted(old, count) /\ more.ptrs[k] = got[Turn(old, count, k)]
      BY <2>3, <2>5
    <3> QED
      BY <2>4, <3>1
  <2> QED
    BY <1>1, <1>4, <1>7, <2>5, <2>6
<1>8. /\ inode'[i].inUse /\ ~ inode'[i].isDir
      /\ inode'[i].size = sz
      /\ inode'[i].blocks = count
      /\ \A j \in Inum : j # i => inode'[j] = inode[j]
      /\ \A k \in old.blocks .. count - 1 : inode'[i].ptrs[k] \notin dataBitmap
  BY <1>5, <1>6, <1>7 DEF do_truncate, Wanted, Undefined, Up, Changed
<1>9. \A k \in Nat : k < inode[i].blocks /\ k < inode'[i].blocks =>
        inode'[i].ptrs[k] = inode[i].ptrs[k]
  <2>1. InPlace(inode[i], inode'[i])
    BY <1>1, <1>2, <1>8 DEF AllInPlace, InUse, Up
  <2>2. \A k \in Nat : k < inode[i].blocks => k \in PtrIndex
    BY <1>1 DEF PtrIndex
  <2> QED
    BY <2>1, <2>2 DEF InPlace
<1> QED
  BY <1>1, <1>2, <1>3, <1>8, <1>9

(* A removal changes two inodes, and the one of the directory keeps what   *)
(* it is.                                                                  *)
LEMMA RemovalIs ==
  ASSUME Ind, Up, NEW p \in Inum, NEW c \in Inum, p # c,
         inode' = [WithoutLinks(p, c) EXCEPT ![c] = FreeInode]
  PROVE  /\ inode'[c] = FreeInode
         /\ inode'[p].inUse = inode[p].inUse /\ inode'[p].isDir = inode[p].isDir
         /\ \A j \in Inum : j # p /\ j # c => inode'[j] = inode[j]
<1>1. inode \in [Inum -> InodeType] /\ WithoutLinks(p, c) \in [Inum -> InodeType]
      /\ \A j \in Inum : Alike(inode[j], WithoutLinks(p, c)[j])
  BY RemovalKeeps DEF Ind, TypeOK
<1>2. \A j \in Inum : j # p /\ j # c => WithoutLinks(p, c)[j] = inode[j]
  BY <1>1 DEF WithoutLinks, LessLink
<1> QED
  BY <1>1, <1>2 DEF Alike

-----------------------------------------------------------------------------
(* Bytes of blocks and of files *)

(* The data blocks that the inode table knows how to read. *)
BytesTyped(blks) == blks \in [Block -> [Byte -> Values \cup {Zero, Meta}]]

(* What a request does to the bytes by reserving blocks for the file r: a  *)
(* block that was taken or is not reserved keeps its bytes, a new block of *)
(* the file is cleared.                                                    *)
LEMMA NewBlocksAre ==
  ASSUME BytesTyped(bytes), NEW r
  PROVE  /\ BytesTyped(WithNewBlocks(r))
         /\ \A b \in Block : b \in dataBitmap => WithNewBlocks(r)[b] = bytes[b]
         /\ \A b \in Block : /\ b \in dataBitmap' /\ b \notin dataBitmap
                             /\ b \in BlocksAt(r, 0 .. r.blocks - 1)
                             => WithNewBlocks(r)[b] = ZeroBlock
         /\ dataBitmap' \subseteq dataBitmap => WithNewBlocks(r) = bytes
<1> DEFINE new == dataBitmap' \ dataBitmap
           own == BlocksAt(r, 0 .. r.blocks - 1)
           W   == WithNewBlocks(r)
<1>1. W = [b \in Block |-> IF b \in new \cap own THEN ZeroBlock
                           ELSE IF b \in new \ own THEN MetaBlock ELSE bytes[b]]
  BY DEF WithNewBlocks
<1> HIDE DEF W, own
<1>2. ZeroBlock \in [Byte -> Values \cup {Zero, Meta}] /\ MetaBlock \in [Byte -> Values \cup {Zero, Meta}]
  BY DEF ZeroBlock, MetaBlock
<1>3. BytesTyped(W)
  BY <1>1, <1>2 DEF BytesTyped
<1>4. \A b \in Block : b \notin new => W[b] = bytes[b]
  BY <1>1
<1>5. \A b \in Block : b \in new /\ b \in own => W[b] = ZeroBlock
  BY <1>1
<1>6. ASSUME dataBitmap' \subseteq dataBitmap
      PROVE  W = bytes
  <2>1. \A b \in Block : W[b] = bytes[b]
    BY <1>4, <1>6
  <2> QED
    BY <1>3, <2>1 DEF BytesTyped
<1> QED
  BY <1>3, <1>4, <1>5, <1>6 DEF W, own

(* The bytes in the blocks of r, one after the other. *)
Row(r, blks) == [k \in 1 .. r.blocks * BlockSize |-> blks[BlockAt(r, k - 1)][ByteAt(k - 1)]]

(* Each of them is at a byte of a block of r. *)
LEMMA InRow ==
  ASSUME NEW r, r.blocks \in Nat, NEW k \in 1 .. r.blocks * BlockSize
  PROVE  /\ k - 1 \in Nat
         /\ (k - 1) \div BlockSize \in 0 .. r.blocks - 1
         /\ BlockAt(r, k - 1) \in BlocksAt(r, 0 .. r.blocks - 1)
         /\ ByteAt(k - 1) \in Byte
<1> DEFINE p == k - 1
           q == p \div BlockSize
           n == r.blocks
<1>1. n * BlockSize \in Nat
  BY BlockSizeAssumption
<1>2. p \in Nat /\ p < n * BlockSize
  BY <1>1
<1> HIDE DEF p
<1>3. q \in Nat /\ ByteAt(p) \in Byte
  BY <1>2, PositionType
<1>4. q < n
  BY <1>2, PositionBound
<1>5. BlockAt(r, p) = r.ptrs[q]
  BY DEF BlockAt
<1> HIDE DEF q
<1>6. q \in 0 .. r.blocks - 1
  BY <1>3, <1>4
<1>7. BlockAt(r, p) \in BlocksAt(r, 0 .. r.blocks - 1)
  BY <1>5, <1>6 DEF BlocksAt
<1> QED
  BY <1>2, <1>3, <1>6, <1>7 DEF p, q

(* The row of a file depends on its blocks only. *)
LEMMA RowKept ==
  ASSUME NEW r, r.blocks \in Nat, NEW s, s.blocks = r.blocks, NEW blks, NEW blks2,
         \A k \in 0 .. r.blocks - 1 : s.ptrs[k] = r.ptrs[k] /\ blks2[r.ptrs[k]] = blks[r.ptrs[k]]
  PROVE  Row(s, blks2) = Row(r, blks)
<1>1. ASSUME NEW k \in 1 .. r.blocks * BlockSize
      PROVE  blks2[BlockAt(s, k - 1)] = blks[BlockAt(r, k - 1)]
  <2>1. (k - 1) \div BlockSize \in 0 .. r.blocks - 1
    BY InRow
  <2> QED
    BY <2>1 DEF BlockAt
<1> QED
  BY <1>1 DEF Row

(* No byte of entries or pointers. *)
Clean(r, blks) == \A k \in 0 .. r.blocks - 1 : \A x \in Byte : blks[r.ptrs[k]][x] # Meta

(* That is what NoMetaInFiles is about. *)
LEMMA NoMetaIs ==
  /\ NoMetaInFiles <=> (Up => \A i \in Files : Clean(inode[i], bytes))
  /\ NoMetaInFiles' <=> (Up' => \A i \in Inum : IsFile(i)' => Clean(inode'[i], bytes'))
BY DEF NoMetaInFiles, Clean, BlocksAt, Files

(* The request leaves j no file, or the file it was. *)
Same(j) ==
  IF IsFile(j)
  THEN /\ IsFile(j)'
       /\ inode'[j].size = inode[j].size
       /\ inode'[j].blocks = inode[j].blocks
       /\ \A k \in 0 .. inode[j].blocks - 1 :
            /\ inode'[j].ptrs[k] = inode[j].ptrs[k]
            /\ bytes'[inode[j].ptrs[k]] = bytes[inode[j].ptrs[k]]
       /\ owner'[j] = owner[j] /\ mode'[j] = mode[j]
  ELSE ~ IsFile(j)'

(* What the users see of a file. *)
LEMMA FileViewIs ==
  ASSUME NEW j
  PROVE  FileView(j) = IF Up /\ IsFile(j)
                       THEN [bytes |-> Row(inode[j], bytes), size |-> inode[j].size,
                             readers |-> AllowedTo(j, "r"), writers |-> AllowedTo(j, "w"),
                             exists |-> TRUE]
                       ELSE Contents!NoFile
BY DEF FileView, Row, Contents!NoFile

(* The same in the next state. *)
LEMMA FileViewNext ==
  ASSUME NEW j
  PROVE  FileView(j)' = IF Up' /\ IsFile(j)'
                        THEN [bytes |-> Row(inode'[j], bytes'), size |-> inode'[j].size,
                              readers |-> AllowedTo(j, "r")', writers |-> AllowedTo(j, "w")',
                              exists |-> TRUE]
                        ELSE Contents!NoFile
BY DEF FileView, Row, Contents!NoFile

(* It stays. *)
LEMMA SameView ==
  ASSUME Ind, Up, Up', NEW j \in Inum, Same(j)
  PROVE  FileView(j)' = FileView(j)
<1>1. CASE IsFile(j)
  <2>1. inode[j].blocks \in Nat
    BY PointersAssumption DEF Ind, TypeOK, InodeType, MaxFileBlocks
  <2>2. Row(inode'[j], bytes') = Row(inode[j], bytes)
    <3>1. /\ inode'[j].blocks = inode[j].blocks
          /\ \A k \in 0 .. inode[j].blocks - 1 :
               /\ inode'[j].ptrs[k] = inode[j].ptrs[k]
               /\ bytes'[inode[j].ptrs[k]] = bytes[inode[j].ptrs[k]]
      BY <1>1 DEF Same
    <3> QED
      BY <2>1, <3>1, RowKept
  <2>3. owner'[j] = owner[j] /\ mode'[j] = mode[j]
    BY <1>1 DEF Same
  <2>4. AllowedTo(j, "r")' = AllowedTo(j, "r") /\ AllowedTo(j, "w")' = AllowedTo(j, "w")
    BY <2>3 DEF AllowedTo
  <2>5. IsFile(j)' /\ inode'[j].size = inode[j].size
    BY <1>1 DEF Same
  <2> QED
    BY <1>1, <2>2, <2>4, <2>5, FileViewIs, FileViewNext
<1>2. CASE ~ IsFile(j)
  <2>1. ~ IsFile(j)'
    BY <1>2 DEF Same
  <2> QED
    BY <1>2, <2>1, FileViewIs, FileViewNext
<1> QED
  BY <1>1, <1>2

(* It stays clean. *)
LEMMA SameClean ==
  ASSUME NoMetaInFiles, Up, NEW j \in Inum, Same(j), IsFile(j)'
  PROVE  Clean(inode'[j], bytes')
<1>1. IsFile(j)
  BY DEF Same
<1>2. Clean(inode[j], bytes)
  BY <1>1, NoMetaIs DEF Files
<1> QED
  BY <1>1, <1>2 DEF Same, Clean

(* An inode that is not touched, when bytes of taken blocks stay. *)
LEMMA UntouchedIsSame ==
  ASSUME Ind, Up, NEW j \in Inum, inode'[j] = inode[j],
         \A b \in Block : b \in dataBitmap => bytes'[b] = bytes[b],
         owner'[j] = owner[j], mode'[j] = mode[j]
  PROVE  Same(j)
<1>1. \A k \in 0 .. inode[j].blocks - 1 : bytes'[inode[j].ptrs[k]] = bytes[inode[j].ptrs[k]]
  <2> TAKE k \in 0 .. inode[j].blocks - 1
  <2>1. inode[j].ptrs[k] \in BlocksAt(inode[j], 0 .. inode[j].blocks - 1)
    BY DEF BlocksAt
  <2> QED
    BY <2>1, OwnedTaken
<1> QED
  BY <1>1 DEF Same, IsFile

-----------------------------------------------------------------------------
(* Steps of ByteFiles *)

FilesSeen == [i \in Inum |-> FileView(i)]

(* A step of ByteFiles or none that it sees. *)
FileStep == Contents!Next \/ UNCHANGED Contents!vars

(* The invariant: the tree, and clean bytes in all files. *)
FileInd == TreeInd /\ FileTypeOK /\ NoMetaInFiles

(* The files are seen in the next state. *)
LEMMA FilesSeenAre ==
  /\ FilesSeen = [i \in Inum |-> FileView(i)]
  /\ FilesSeen' = [i \in Inum |-> FileView(i)']
  /\ \A i \in Inum : FilesSeen[i] = FileView(i) /\ FilesSeen'[i] = FileView(i)'
BY DEF FilesSeen

(* The process ends. *)
LEMMA StepEnds ==
  ASSUME Up, ~ Up'
  PROVE  FileStep
<1>1. \A j \in Inum : FileView(j)' = Contents!NoFile
  BY FileViewNext
<1>2. Up' = FALSE
  BY DEF Up
<1> QED
  BY <1>1, <1>2 DEF FileStep, Contents!Next, Contents!Stop

(* Nobody sees a difference. *)
LEMMA StepUnseen ==
  ASSUME Ind, Up, Up', \A j \in Inum : Same(j), answer' = answer
  PROVE  FileStep
<1>1. \A j \in Inum : FileView(j)' = FileView(j)
  BY SameView
<1>2. FilesSeen' = FilesSeen
  BY <1>1 DEF FilesSeen
<1>3. Up' = Up
  BY DEF Up
<1> QED
  BY <1>2, <1>3 DEF FileStep, Contents!vars, FilesSeen

(* One file is seen to change. *)
LEMMA OneSeen ==
  ASSUME Ind, Up, Up', NEW i \in Inum, \A j \in Inum : j # i => Same(j), NEW v, FileView(i)' = v
  PROVE  FilesSeen' = [FilesSeen EXCEPT ![i] = v]
<1>1. \A j \in Inum : j # i => FileView(j)' = FileView(j)
  BY SameView
<1> QED
  BY <1>1 DEF FilesSeen

(* A file of its own is seen that was not there. *)
LEMMA StepAppears ==
  ASSUME Ind, Up, Up', NEW c \in Inum, \A j \in Inum : j # c => Same(j),
         ~ IsFile(c), IsFile(c)', inode'[c].blocks = 0, inode'[c].size = 0, answer' = answer
  PROVE  FileStep
<1> DEFINE v == FileView(c)'
<1>1. v \in Contents!NewFiles
  <2>1. Row(inode'[c], bytes') = <<>>
    <3>1. 1 .. inode'[c].blocks * BlockSize = {}
      BY BlockSizeAssumption
    <3> QED
      BY <3>1 DEF Row
  <2>2. AllowedTo(c, "r")' \subseteq Users /\ AllowedTo(c, "w")' \subseteq Users
    BY DEF AllowedTo
  <2> QED
    BY <2>1, <2>2, FileViewNext DEF Contents!NewFiles
<1>2. ~ FileView(c).exists
  BY FileViewIs DEF Contents!NoFile
<1> HIDE DEF v
<1>3. FilesSeen' = [FilesSeen EXCEPT ![c] = v] /\ FilesSeen'[c] = v /\ FilesSeen[c] = FileView(c)
  BY OneSeen, FilesSeenAre DEF v
<1>4. FilesSeen' = [FilesSeen EXCEPT ![c] = FilesSeen'[c]] /\ FilesSeen'[c] \in Contents!NewFiles
      /\ ~ FilesSeen[c].exists
  BY <1>1, <1>2, <1>3
<1>5. Contents!Create(c)
  BY <1>4 DEF Contents!Create, Contents!Exists, FilesSeen
<1>6. Up' = Up
  BY DEF Up
<1> QED
  BY <1>5, <1>6 DEF FileStep, Contents!Next

(* A request for a file that is there. *)
LEMMA StepRequest ==
  ASSUME Up, Up', NEW i \in Inum, IsFile(i), Contents!Request(i)
  PROVE  FileStep
<1>1. Up' = Up
  BY DEF Up
<1>2. FileView(i).exists
  BY FileViewIs
<1>3. Contents!Exists(i)
  BY <1>2, FilesSeenAre DEF Contents!Exists, FilesSeen
<1> QED
  BY <1>1, <1>3 DEF FileStep, Contents!Next

(* A file disappears. *)
LEMMA StepDisappears ==
  ASSUME Ind, Up, Up', NEW c \in Inum, \A j \in Inum : j # c => Same(j),
         IsFile(c), ~ IsFile(c)', answer' = answer
  PROVE  FileStep
<1>1. FileView(c)' = Contents!NoFile
  BY FileViewNext
<1>2. FilesSeen' = [FilesSeen EXCEPT ![c] = Contents!NoFile]
  BY <1>1, OneSeen
<1>3. Contents!Request(c)
  BY <1>2 DEF Contents!Request, Contents!Remove, FilesSeen
<1> QED
  BY <1>3, StepRequest

-----------------------------------------------------------------------------
(* A file that is resized, written and read *)

(* The blocks an inode holds after a request are taken. *)
LEMMA OwnedTakenNext ==
  ASSUME Ind', Up', NEW j \in Inum, NEW b \in BlocksAt(inode'[j], 0 .. inode'[j].blocks - 1)
  PROVE  b \in Block /\ b \in dataBitmap' /\ b \in Held(inode'[j])
<1>1. b \in Held(inode'[j])
  BY DEF Held
<1>2. dataBitmap' = UNION {Held(inode'[l]) : l \in Inum} /\ dataBitmap' \subseteq Block
  BY DEF Ind, Sane, TypeOK
<1> QED
  BY <1>1, <1>2

(* There is room for the size in the blocks it calls for. *)
LEMMA RoomForSize ==
  ASSUME NEW sz \in Nat
  PROVE  /\ BlocksFor(sz) \in Nat
         /\ sz <= BlocksFor(sz) * BlockSize
<1> DEFINE a == sz + BlockSize - 1
           n == a \div BlockSize
           m == BlockSize
<1>1. m \in Nat \ {0} /\ a \in Nat /\ a = sz + m - 1
  BY BlockSizeAssumption
<1>2. BlocksFor(sz) = n
  BY DEF BlocksFor
<1>3. n \in Nat /\ a = m * n + ByteAt(a) /\ ByteAt(a) \in 0 .. m - 1
  <2> HIDE DEF a
  <2> QED
    BY <1>1, PositionType DEF Byte
<1> HIDE DEF n, m, a
<1>4. m * n \in Nat /\ n * m = m * n
  BY <1>1, <1>3
<1>5. sz <= n * m
  BY <1>1, <1>3, <1>4
<1> QED
  BY <1>2, <1>3, <1>5 DEF m

(* How long a row is. *)
LEMMA RowLength ==
  ASSUME NEW r, r.blocks \in Nat, NEW blks
  PROVE  /\ DOMAIN Row(r, blks) = 1 .. r.blocks * BlockSize
         /\ Len(Row(r, blks)) = r.blocks * BlockSize
         /\ r.blocks * BlockSize \in Nat
<1>1. r.blocks * BlockSize \in Nat
  BY BlockSizeAssumption
<1> DEFINE n == r.blocks * BlockSize
<1>2. Row(r, blks) = [k \in 1 .. n |-> blks[BlockAt(r, k - 1)][ByteAt(k - 1)]]
  BY DEF Row
<1> HIDE DEF n
<1>3. n \in Nat
  BY <1>1 DEF n
<1>4. DOMAIN Row(r, blks) = 1 .. n /\ Len(Row(r, blks)) = n
  BY <1>2, <1>3
<1> QED
  BY <1>1, <1>4 DEF n

(* A file that gets another size has its bytes, or those that are left,    *)
(* and zeros behind them.                                                  *)
LEMMA ResizedRow ==
  ASSUME Ind, Up, Up', BytesTyped(bytes), NEW i \in Inum, IsFile(i), NEW sz \in Nat,
         do_truncate(i, sz)
  PROVE  Row(inode'[i], WithNewBlocks(inode'[i])) = Contents!Fitted(Row(inode[i], bytes), sz)
<1> DEFINE old  == inode[i]
           new  == inode'[i]
           blks == WithNewBlocks(new)
           row  == Row(old, bytes)
<1>1. /\ Ind'
      /\ old.blocks \in Nat /\ new.blocks \in Nat /\ new.blocks = BlocksFor(sz)
      /\ \A k \in Nat : k < old.blocks /\ k < new.blocks => new.ptrs[k] = old.ptrs[k]
      /\ \A k \in old.blocks .. new.blocks - 1 : new.ptrs[k] \notin dataBitmap
  BY ResizeIs, PointersAssumption DEF InodeType, MaxFileBlocks
<1>2. Contents!Fitted(row, sz) =
        [k \in 1 .. new.blocks * BlockSize |-> IF k <= old.blocks * BlockSize THEN row[k] ELSE Zero]
  <2>1. Contents!WholeBlocks(sz) = new.blocks * BlockSize
    BY <1>1 DEF Contents!WholeBlocks, BlocksFor
  <2>2. Len(row) = old.blocks * BlockSize
    BY <1>1, RowLength
  <2> HIDE DEF row, old, new
  <2> QED
    BY <2>1, <2>2 DEF Contents!Fitted
<1>3. ASSUME NEW k \in 1 .. new.blocks * BlockSize
      PROVE  blks[BlockAt(new, k - 1)][ByteAt(k - 1)] =
               IF k <= old.blocks * BlockSize THEN row[k] ELSE Zero
  <2> DEFINE p == k - 1
             q == p \div BlockSize
  <2>1. /\ p \in Nat /\ q \in 0 .. new.blocks - 1 /\ ByteAt(p) \in Byte
        /\ BlockAt(new, p) \in BlocksAt(new, 0 .. new.blocks - 1)
    BY <1>1, InRow
  <2>2. BlockAt(new, p) = new.ptrs[q] /\ BlockAt(old, p) = old.ptrs[q]
    BY DEF BlockAt
  <2>3. k <= old.blocks * BlockSize <=> q < old.blocks
    <3>1. old.blocks * BlockSize \in Nat /\ new.blocks * BlockSize \in Nat
      BY <1>1, BlockSizeAssumption
    <3>2. p < old.blocks * BlockSize <=> q < old.blocks
      <4>1. p \in Nat
        BY <2>1
      <4> HIDE DEF p, old
      <4> QED
        BY <1>1, <4>1, PositionBound
    <3> HIDE DEF q
    <3> QED
      BY <3>1, <3>2
  <2>4. ASSUME q < old.blocks
        PROVE  blks[new.ptrs[q]][ByteAt(p)] = row[k]
    <3>1. q \in Nat /\ q < new.blocks /\ q \in 0 .. old.blocks - 1
      BY <1>1, <2>1, <2>4
    <3>2. new.ptrs[q] = old.ptrs[q] /\ old.ptrs[q] \in BlocksAt(old, 0 .. old.blocks - 1)
      BY <1>1, <2>4, <3>1 DEF BlocksAt
    <3>3. old.ptrs[q] \in Block /\ old.ptrs[q] \in dataBitmap
      BY <3>2, OwnedTaken
    <3>4. blks[old.ptrs[q]] = bytes[old.ptrs[q]]
      BY <3>3, NewBlocksAre
    <3>5. k \in 1 .. old.blocks * BlockSize
      <4>1. old.blocks * BlockSize \in Nat /\ new.blocks * BlockSize \in Nat
        BY <1>1, BlockSizeAssumption
      <4> QED
        BY <2>3, <2>4, <4>1
    <3>6. row[k] = bytes[BlockAt(old, k - 1)][ByteAt(k - 1)]
      BY <3>5 DEF Row
    <3> QED
      BY <2>2, <3>2, <3>4, <3>6
  <2>5. ASSUME ~ (q < old.blocks)
        PROVE  blks[new.ptrs[q]][ByteAt(p)] = Zero
    <3>1. q \in old.blocks .. new.blocks - 1
      BY <1>1, <2>1, <2>5
    <3>2. new.ptrs[q] \notin dataBitmap /\ new.ptrs[q] \in BlocksAt(new, 0 .. new.blocks - 1)
      BY <1>1, <2>1, <2>2, <3>1
    <3>3. new.ptrs[q] \in Block /\ new.ptrs[q] \in dataBitmap'
      BY <1>1, <3>2, OwnedTakenNext
    <3>4. blks[new.ptrs[q]] = ZeroBlock
      BY <3>2, <3>3, NewBlocksAre
    <3> QED
      BY <2>1, <3>4 DEF ZeroBlock
  <2> HIDE DEF q, row, blks, old, new
  <2> QED
    BY <2>2, <2>3, <2>4, <2>5 DEF p
<1>4. Row(new, blks) = [k \in 1 .. new.blocks * BlockSize |-> blks[BlockAt(new, k - 1)][ByteAt(k - 1)]]
  BY DEF Row
<1> HIDE DEF row, blks, old, new
<1>5. Row(new, blks) = Contents!Fitted(row, sz)
  BY <1>2, <1>3, <1>4
<1> QED
  BY <1>5 DEF row, blks, old, new

(* It stays clean. *)
LEMMA ResizedClean ==
  ASSUME Ind, Up, Up', BytesTyped(bytes), NEW i \in Inum, IsFile(i), NEW sz \in Nat,
         do_truncate(i, sz), Clean(inode[i], bytes)
  PROVE  Clean(inode'[i], WithNewBlocks(inode'[i]))
<1> DEFINE old  == inode[i]
           new  == inode'[i]
           blks == WithNewBlocks(new)
<1>1. /\ Ind'
      /\ old.blocks \in Nat /\ new.blocks \in Nat
      /\ \A k \in Nat : k < old.blocks /\ k < new.blocks => new.ptrs[k] = old.ptrs[k]
      /\ \A k \in old.blocks .. new.blocks - 1 : new.ptrs[k] \notin dataBitmap
  BY ResizeIs, PointersAssumption DEF InodeType, MaxFileBlocks
<1>2. ASSUME NEW k \in 0 .. new.blocks - 1, NEW x \in Byte
      PROVE  blks[new.ptrs[k]][x] # Meta
  <2>1. k \in Nat /\ k < new.blocks /\ new.ptrs[k] \in BlocksAt(new, 0 .. new.blocks - 1)
    BY <1>1 DEF BlocksAt
  <2>2. CASE k < old.blocks
    <3>1. k \in 0 .. old.blocks - 1 /\ new.ptrs[k] = old.ptrs[k]
      BY <1>1, <2>1, <2>2
    <3>2. old.ptrs[k] \in BlocksAt(old, 0 .. old.blocks - 1)
      BY <3>1 DEF BlocksAt
    <3>3. old.ptrs[k] \in Block /\ old.ptrs[k] \in dataBitmap
      BY <3>2, OwnedTaken
    <3>4. blks[old.ptrs[k]] = bytes[old.ptrs[k]]
      BY <3>3, NewBlocksAre
    <3> QED
      BY <3>1, <3>4 DEF Clean
  <2>3. CASE ~ (k < old.blocks)
    <3>1. k \in old.blocks .. new.blocks - 1
      BY <1>1, <2>1, <2>3
    <3>2. new.ptrs[k] \in Block /\ new.ptrs[k] \in dataBitmap' /\ new.ptrs[k] \notin dataBitmap
      BY <1>1, <2>1, <3>1, OwnedTakenNext
    <3>3. blks[new.ptrs[k]] = ZeroBlock
      BY <2>1, <3>2, NewBlocksAre
    <3> QED
      BY <3>3, MetaAssumption DEF ZeroBlock
  <2> QED
    BY <2>2, <2>3
<1> HIDE DEF blks, old, new
<1>3. Clean(new, blks)
  BY <1>2 DEF Clean
<1> QED
  BY <1>3 DEF blks, new

(* A request inside the blocks of r. *)
Fits(r, offset, size) ==
  /\ r.blocks \in Nat /\ offset \in Nat /\ size \in Nat
  /\ offset + size <= r.blocks * BlockSize

(* Its positions are in blocks of r. *)
LEMMA FittingPosition ==
  ASSUME NEW r, NEW offset, NEW size, Fits(r, offset, size), NEW p \in offset .. offset + size - 1
  PROVE  /\ p \in Nat /\ p \div BlockSize \in 0 .. r.blocks - 1
         /\ p + 1 \in 1 .. r.blocks * BlockSize
         /\ BlockAt(r, p) \in BlocksAt(r, 0 .. r.blocks - 1)
<1>1. r.blocks \in Nat /\ offset \in Nat /\ size \in Nat /\ r.blocks * BlockSize \in Nat
  BY BlockSizeAssumption DEF Fits
<1>2. p \in Nat /\ p < r.blocks * BlockSize
  BY <1>1 DEF Fits
<1> DEFINE k == p + 1
<1>3. k \in 1 .. r.blocks * BlockSize /\ k - 1 = p
  BY <1>1, <1>2
<1> HIDE DEF k
<1>4. /\ (k - 1) \div BlockSize \in 0 .. r.blocks - 1
      /\ BlockAt(r, k - 1) \in BlocksAt(r, 0 .. r.blocks - 1)
  BY <1>1, <1>3, InRow
<1> QED
  BY <1>2, <1>3, <1>4 DEF k

(* What a write makes of the row of its file. *)
LEMMA WrittenRow ==
  ASSUME NEW r, NEW offset, NEW size, Fits(r, offset, size), HoldsDistinct(r),
         \A b \in BlocksAt(r, 0 .. r.blocks - 1) : b \in Block,
         NEW blks, NEW v
  PROVE  Row(r, do_write(blks, r, size, offset, v)) =
           [k \in DOMAIN Row(r, blks) |-> IF k \in offset + 1 .. offset + size THEN v ELSE Row(r, blks)[k]]
<1> DEFINE done == do_write(blks, r, size, offset, v)
           m    == BlockSize
<1>1. r.blocks \in Nat /\ offset \in Nat /\ size \in Nat
  BY DEF Fits
<1>2. ASSUME NEW k \in 1 .. r.blocks * BlockSize
      PROVE  done[BlockAt(r, k - 1)][ByteAt(k - 1)] =
               IF k \in offset + 1 .. offset + size THEN v ELSE blks[BlockAt(r, k - 1)][ByteAt(k - 1)]
  <2> DEFINE a  == k - 1
             b  == BlockAt(r, a)
             x  == ByteAt(a)
             In == offset .. offset + size - 1
  <2>1. a \in Nat /\ a \div BlockSize \in 0 .. r.blocks - 1 /\ b \in Block /\ x \in Byte
    BY <1>1, InRow
  <2>2. done[b][x] = IF \E p \in In : b = BlockAt(r, p) /\ x = ByteAt(p) THEN v ELSE blks[b][x]
    BY <1>1, <2>1, do_writeIs
  <2>3. k \in offset + 1 .. offset + size <=> a \in In
    BY <1>1, <2>1
  <2>4. ASSUME NEW p \in In, b = BlockAt(r, p), x = ByteAt(p)
        PROVE  p = a
    <3>1. p \in Nat /\ p \div BlockSize \in 0 .. r.blocks - 1
      BY FittingPosition
    <3>2. p \div BlockSize = a \div BlockSize
      BY <2>1, <2>4, <3>1 DEF BlockAt, HoldsDistinct
    <3>3. p = BlockSize * (p \div BlockSize) + ByteAt(p)
      BY <3>1, PositionType
    <3>4. a = BlockSize * (a \div BlockSize) + ByteAt(a)
      <4> HIDE DEF a
      <4> QED
        BY <2>1, PositionType
    <3> HIDE DEF a
    <3> QED
      BY <2>4, <3>2, <3>3, <3>4
  <2> HIDE DEF In, done
  <2>5. (\E p \in In : b = BlockAt(r, p) /\ x = ByteAt(p)) <=> a \in In
    BY <2>4
  <2> QED
    BY <2>2, <2>3, <2>5
<1> HIDE DEF done
<1>3. /\ Row(r, done) = [k \in 1 .. r.blocks * BlockSize |-> done[BlockAt(r, k - 1)][ByteAt(k - 1)]]
      /\ Row(r, blks) = [k \in 1 .. r.blocks * BlockSize |-> blks[BlockAt(r, k - 1)][ByteAt(k - 1)]]
  BY DEF Row
<1>4. \A k \in 1 .. r.blocks * BlockSize :
        done[BlockAt(r, k - 1)][ByteAt(k - 1)] =
          IF k \in offset + 1 .. offset + size THEN v ELSE Row(r, blks)[k]
  BY <1>2, <1>3
<1>5. DOMAIN Row(r, blks) = 1 .. r.blocks * BlockSize
  BY <1>3
<1>6. Row(r, done) =
        [k \in DOMAIN Row(r, blks) |-> IF k \in offset + 1 .. offset + size THEN v ELSE Row(r, blks)[k]]
  BY <1>3, <1>4, <1>5
<1> QED
  BY <1>6 DEF done

(* It leaves the blocks of others alone, and writes no byte of entries.    *)
LEMMA WriteStays ==
  ASSUME NEW r, NEW offset, NEW size, Fits(r, offset, size),
         NEW blks, BytesTyped(blks), NEW v \in Values
  PROVE  /\ BytesTyped(do_write(blks, r, size, offset, v))
         /\ \A b \in Block : b \notin BlocksAt(r, 0 .. r.blocks - 1) =>
              do_write(blks, r, size, offset, v)[b] = blks[b]
         /\ \A b \in Block, x \in Byte : blks[b][x] # Meta =>
              do_write(blks, r, size, offset, v)[b][x] # Meta
<1> DEFINE done == do_write(blks, r, size, offset, v)
           In   == offset .. offset + size - 1
<1>1. offset \in Nat /\ size \in Nat
  BY DEF Fits
<1>2. done = [b \in Block |-> done[b]] /\ \A b \in Block : done[b] = [x \in Byte |-> done[b][x]]
  BY DEF do_write
<1>3. \A b \in Block, x \in Byte :
        done[b][x] = IF \E p \in In : b = BlockAt(r, p) /\ x = ByteAt(p) THEN v ELSE blks[b][x]
  BY <1>1, do_writeIs
<1>4. \A p \in In : BlockAt(r, p) \in BlocksAt(r, 0 .. r.blocks - 1)
  BY FittingPosition
<1> HIDE DEF done, In
<1>5. ASSUME NEW b \in Block
      PROVE  /\ done[b] \in [Byte -> Values \cup {Zero, Meta}]
             /\ blks[b] \in [Byte -> Values \cup {Zero, Meta}]
  <2>1. blks[b] \in [Byte -> Values \cup {Zero, Meta}]
    BY DEF BytesTyped
  <2>2. \A x \in Byte : done[b][x] \in Values \cup {Zero, Meta}
    BY <1>3, <2>1
  <2> QED
    BY <1>2, <2>1, <2>2
<1>6. BytesTyped(done)
  <2>1. done = [b \in Block |-> done[b]]
    BY <1>2
  <2> QED
    BY <1>5, <2>1 DEF BytesTyped
<1>7. ASSUME NEW b \in Block, b \notin BlocksAt(r, 0 .. r.blocks - 1)
      PROVE  done[b] = blks[b]
  <2>1. \A x \in Byte : done[b][x] = blks[b][x]
    BY <1>3, <1>4, <1>7
  <2> QED
    BY <1>5, <2>1
<1>8. \A b \in Block, x \in Byte : blks[b][x] # Meta => done[b][x] # Meta
  BY <1>3, MetaAssumption
<1> QED
  BY <1>6, <1>7, <1>8 DEF done

(* A read gets a part of the row. *)
LEMMA ReadRow ==
  ASSUME NEW r, NEW offset, NEW size, Fits(r, offset, size)
  PROVE  do_read(r, size, offset) = SubSeq(Row(r, bytes), offset + 1, offset + size)
<1> DEFINE n   == r.blocks * BlockSize
           row == Row(r, bytes)
           got == do_read(r, size, offset)
<1>1. r.blocks \in Nat /\ offset \in Nat /\ size \in Nat /\ n \in Nat /\ offset + size <= n
  BY BlockSizeAssumption DEF Fits
<1>2. got = [k \in 1 .. size |-> got[k]]
      /\ \A k \in 1 .. size : got[k] = bytes[BlockAt(r, offset + k - 1)][ByteAt(offset + k - 1)]
  BY <1>1, do_readIs
<1>3. row = [k \in 1 .. n |-> bytes[BlockAt(r, k - 1)][ByteAt(k - 1)]]
  BY DEF Row
<1> HIDE DEF n, row, got
<1>4. \A k \in 1 .. size : got[k] = row[offset + k]
  <2> TAKE k \in 1 .. size
  <2> DEFINE l == offset + k
  <2>1. l \in 1 .. n /\ l - 1 = offset + k - 1
    BY <1>1
  <2> HIDE DEF l
  <2>2. row[l] = bytes[BlockAt(r, l - 1)][ByteAt(l - 1)]
    BY <1>3, <2>1
  <2> QED
    BY <1>2, <2>1, <2>2 DEF l
<1>5. SubSeq(row, offset + 1, offset + size) = [k \in 1 .. size |-> row[offset + k]]
  <2>1. SubSeq(row, offset + 1, offset + size) =
          [k \in 1 .. (1 + (offset + size) - (offset + 1)) |-> row[k + (offset + 1) - 1]]
    BY <1>1, <1>3
  <2>2. 1 + (offset + size) - (offset + 1) = size
    BY <1>1
  <2>3. \A k \in 1 .. size : k + (offset + 1) - 1 = offset + k
    BY <1>1
  <2> QED
    BY <2>1, <2>2, <2>3
<1>6. got = SubSeq(row, offset + 1, offset + size)
  BY <1>2, <1>4, <1>5
<1> QED
  BY <1>6 DEF row, got

-----------------------------------------------------------------------------
(* Every handler keeps the invariant and is a step of ByteFiles *)

(* What the invariant says while the process is up. *)
LEMMA FileIndUp ==
  ASSUME FileInd, Up
  PROVE  Ind /\ TreeHere /\ BytesTyped(bytes) /\ NoMetaInFiles
BY TreeUp DEF FileInd, FileTypeOK, BytesTyped

(* Nothing is claimed of a process that ended. *)
LEMMA EndKeeps ==
  ASSUME Up, ~ Up'
  PROVE  NoMetaInFiles' /\ FileStep
BY StepEnds, NoMetaIs

(* No file changes. *)
LEMMA UnseenKeeps ==
  ASSUME FileInd, Up, Up', \A j \in Inum : Same(j), answer' = answer
  PROVE  NoMetaInFiles' /\ FileStep
<1>1. Ind /\ NoMetaInFiles
  BY FileIndUp
<1>2. NoMetaInFiles'
  BY <1>1, SameClean, NoMetaIs
<1> QED
  BY <1>1, <1>2, StepUnseen

(* One file changes, and is clean again. *)
LEMMA OneClean ==
  ASSUME FileInd, Up, NEW i \in Inum, \A j \in Inum : j # i => Same(j),
         IsFile(i)' => Clean(inode'[i], bytes')
  PROVE  NoMetaInFiles'
<1>1. NoMetaInFiles
  BY FileIndUp
<1>2. \A j \in Inum : j # i /\ IsFile(j)' => Clean(inode'[j], bytes')
  BY <1>1, SameClean
<1> QED
  BY <1>2, NoMetaIs

(* A refusal, whatever it does to the answer. *)
LEMMA RefusedIsSame ==
  ASSUME FileInd, Up, NEW r, Refuse(r), bytes' = bytes, UNCHANGED <<owner, mode>>
  PROVE  Up' /\ \A j \in Inum : Same(j)
<1>1. Up' /\ inode' = inode
  BY DEF Refuse, fsVars, Up
<1> QED
  BY <1>1, FileIndUp, UntouchedIsSame

(* Bytes of blocks that a request for a name reserves. *)
LEMMA ReservingBytes ==
  ASSUME FileInd, Up, NEW r, bytes' = WithNewBlocks(r)
  PROVE  /\ BytesTyped(bytes')
         /\ \A b \in Block : b \in dataBitmap => bytes'[b] = bytes[b]
         /\ dataBitmap' \subseteq dataBitmap => bytes' = bytes
BY FileIndUp, NewBlocksAre

(* Owners and modes after a request for a name. *)
LEMMA OwnersTyped ==
  ASSUME FileInd, NEW i, NEW u \in Owners \cup {Nobody}, NEW m \in Modes \cup {{}},
         OwnerAndMode(i, u, m) \/ UNCHANGED <<owner, mode>>
  PROVE  owner' \in [Inum -> Owners \cup {Nobody}] /\ mode' \in [Inum -> Modes \cup {{}}]
BY DEF FileInd, FileTypeOK, OwnerAndMode

(* No other inode gets another owner. *)
LEMMA OwnersStay ==
  ASSUME FileInd, NEW i, NEW u, NEW m, OwnerAndMode(i, u, m) \/ UNCHANGED <<owner, mode>>
  PROVE  \A j \in Inum : j # i => owner'[j] = owner[j] /\ mode'[j] = mode[j]
BY DEF FileInd, FileTypeOK, OwnerAndMode

(* mknod: a new file is empty, and it is nobody's but its own. *)
LEMMA mknod_byKeeps ==
  ASSUME FileInd, NEW u \in Owners, NEW p \in Inum, NEW n \in Names, NEW m \in Modes,
         mknod_by(u, p, n, m)
  PROVE  FileInd' /\ FileStep
<1> DEFINE c == reserve_inode
<1>1. /\ mknod(p, n, TRUE) /\ bytes' = WithNewBlocks(FreeInode) /\ answer' = answer
      /\ OwnerAndMode(c, u, m) \/ UNCHANGED <<owner, mode>>
      /\ reply' # "OK" => UNCHANGED <<owner, mode>>
  BY DEF mknod_by
<1>2. Up /\ IsDir(p)
  BY <1>1 DEF mknod
<1>3. TreeInd' /\ Ind /\ BytesTyped(bytes')
  BY <1>1, <1>2, FileIndUp, ReservingBytes, EntryTreeInd DEF FileInd
<1>4. FileTypeOK'
  BY <1>1, <1>3, OwnersTyped DEF FileTypeOK, BytesTyped
<1>5. CASE ~ Up'
  BY <1>2, <1>3, <1>4, <1>5, EndKeeps DEF FileInd
<1>6. CASE Up' /\ Refuse("EEXIST")
  <2>1. bytes' = bytes /\ UNCHANGED <<owner, mode>>
    BY <1>1, <1>2, <1>6, ReservingBytes DEF Refuse, Return, fsVars
  <2>2. \A j \in Inum : Same(j)
    BY <1>2, <1>6, <2>1, RefusedIsSame
  <2> QED
    BY <1>1, <1>2, <1>3, <1>4, <1>6, <2>2, UnseenKeeps DEF FileInd
<1>7. CASE Up' /\ CreateIn(p, n, NewRegInode(TRUE), data, NewBlocks(p, FALSE))
  <2>0. PICK d : d = c
    OBVIOUS
  <2>1. /\ NewRegInode(TRUE).isDir = FALSE /\ NewRegInode(TRUE).inUse
        /\ NewRegInode(TRUE).blocks = 0 /\ NewRegInode(TRUE).size = 0
    BY DEF NewRegInode
  <2>2. /\ c \in Inum /\ ~ inode[c].inUse
        /\ inode'[c] = NewRegInode(TRUE)
        /\ inode'[p].inUse /\ inode'[p].isDir
        /\ \A j \in Inum : j # p /\ j # c => inode'[j] = inode[j]
    BY <1>2, <1>3, <1>7, <2>1, CreationIs
  <2>3. \A b \in Block : b \in dataBitmap => bytes'[b] = bytes[b]
    BY <1>1, <1>2, ReservingBytes
  <2>4. ASSUME NEW j \in Inum, j # d
        PROVE  Same(j)
    <3>1. CASE j = p
      BY <1>2, <2>0, <2>2, <3>1 DEF Same, IsFile, IsDir
    <3>2. CASE j # p
      <4>1. owner'[j] = owner[j] /\ mode'[j] = mode[j]
        BY <1>1, <2>0, <2>4, OwnersStay
      <4> QED
        BY <1>2, <1>3, <2>0, <2>2, <2>3, <2>4, <3>2, <4>1, UntouchedIsSame
    <3> QED
      BY <3>1, <3>2
  <2>5. ~ IsFile(d) /\ IsFile(d)' /\ inode'[d].blocks = 0 /\ inode'[d].size = 0
    BY <2>0, <2>1, <2>2 DEF IsFile
  <2>6. Clean(inode'[d], bytes')
    BY <2>5 DEF Clean
  <2>7. NoMetaInFiles'
    BY <1>2, <2>0, <2>2, <2>4, <2>6, OneClean
  <2>8. FileStep
    BY <1>1, <1>2, <1>3, <1>7, <2>0, <2>2, <2>4, <2>5, StepAppears
  <2> QED
    BY <1>3, <1>4, <2>7, <2>8 DEF FileInd
<1> QED
  BY <1>1, <1>5, <1>6, <1>7 DEF mknod

(* mkdir: a new directory is no file, and takes no block of one. *)
LEMMA mkdir_overKeeps ==
  ASSUME FileInd, NEW p \in Inum, NEW n \in Names, mkdir_over(p, n)
  PROVE  FileInd' /\ FileStep
<1> DEFINE c        == reserve_inode
           got      == NewBlocks(p, TRUE)
           contents == [data EXCEPT ![got[1]] = DirBlock(reserve_inode, p)]
<1>1. /\ mkdir(p, n) /\ bytes' = WithNewBlocks(FreeInode) /\ answer' = answer
      /\ UNCHANGED <<owner, mode>>
  BY DEF mkdir_over
<1>2. Up /\ IsDir(p)
  BY <1>1 DEF mkdir
<1>3. TreeInd' /\ Ind /\ BytesTyped(bytes')
  BY <1>1, <1>2, FileIndUp, ReservingBytes, EntryTreeInd DEF FileInd
<1>4. FileTypeOK'
  BY <1>1, <1>3 DEF FileInd, FileTypeOK, BytesTyped
<1>5. CASE ~ Up'
  BY <1>2, <1>3, <1>4, <1>5, EndKeeps DEF FileInd
<1>6. CASE Up' /\ Refuse("EEXIST")
  <2>1. bytes' = bytes
    BY <1>1, <1>2, <1>6, ReservingBytes DEF Refuse, fsVars
  <2>2. \A j \in Inum : Same(j)
    BY <1>1, <1>2, <1>6, <2>1, RefusedIsSame
  <2> QED
    BY <1>1, <1>2, <1>3, <1>4, <1>6, <2>2, UnseenKeeps DEF FileInd
<1>7. CASE Up' /\ CreateIn(p, n, NewDirInode(got[1]), contents, got)
  <2>1. NewDirInode(got[1]).isDir = TRUE
    BY DEF NewDirInode
  <2>2. /\ c \in Inum /\ ~ inode[c].inUse
        /\ inode'[c] = NewDirInode(got[1])
        /\ inode'[p].inUse /\ inode'[p].isDir
        /\ \A j \in Inum : j # p /\ j # c => inode'[j] = inode[j]
    <3> HIDE DEF contents
    <3> QED
      BY <1>2, <1>3, <1>7, <2>1, CreationIs
  <2>3. \A b \in Block : b \in dataBitmap => bytes'[b] = bytes[b]
    BY <1>1, <1>2, ReservingBytes
  <2>4. ASSUME NEW j \in Inum
        PROVE  Same(j)
    <3>1. CASE j = p
      BY <1>2, <2>2, <3>1 DEF Same, IsFile, IsDir
    <3>2. CASE j = c
      <4>1. ~ IsFile(j) /\ ~ IsFile(j)'
        BY <2>1, <2>2, <3>2 DEF IsFile
      <4> QED
        BY <4>1 DEF Same
    <3>3. CASE j # p /\ j # c
      BY <1>1, <1>2, <1>3, <2>2, <2>3, <3>3, UntouchedIsSame
    <3> QED
      BY <3>1, <3>2, <3>3
  <2> QED
    BY <1>1, <1>2, <1>3, <1>4, <1>7, <2>4, UnseenKeeps DEF FileInd
<1> QED
  BY <1>1, <1>5, <1>6, <1>7 DEF mkdir

(* rmdir. *)
LEMMA rmdir_overKeeps ==
  ASSUME FileInd, NEW p \in Inum, NEW n \in Names, rmdir_over(p, n)
  PROVE  FileInd' /\ FileStep
<1> DEFINE c    == inum_from_path(p, n)
           left == WithoutLinks(p, c)
<1>1. rmdir(p, n) /\ answer' = answer /\ bytes' = bytes /\ UNCHANGED <<owner, mode>>
  BY DEF rmdir_over, fileVars
<1>2. Up /\ IsDir(p)
  BY <1>1 DEF rmdir, RemoveDir
<1>3. TreeInd' /\ Ind /\ TreeHere
  BY <1>1, <1>2, FileIndUp, EntryTreeInd DEF FileInd
<1>4. FileTypeOK'
  BY <1>1 DEF FileInd, FileTypeOK
<1>5. CASE ~ Up'
  BY <1>2, <1>3, <1>4, <1>5, EndKeeps DEF FileInd
<1>6. ASSUME NEW r, Up', Refuse(r)
      PROVE  FileInd' /\ FileStep
  <2>1. \A j \in Inum : Same(j)
    BY <1>1, <1>2, <1>6, RefusedIsSame
  <2> QED
    BY <1>1, <1>2, <1>3, <1>4, <1>6, <2>1, UnseenKeeps DEF FileInd
<1>7. CASE Up' /\ c # NoInum /\ IsDir(c) /\ dir_isempty(c)
           /\ inode' = [left EXCEPT ![c] = FreeInode]
  <2>1. c \in Inum
    BY <1>2, <1>3, <1>7, AskedFor
  <2>2. c # p
    <3>1. PICK e \in Named(Entries) : e.dir = p /\ e.inum = c
      BY <1>2, <1>3, <1>7, FoundIs
    <3>2. c \in Directories /\ \A f \in Named(Entries) : f.dir # c
      <4>1. c \in Directories
        BY <1>7, <2>1 DEF Directories
      <4> QED
        BY <1>7, <4>1, EmptyIs
    <3> QED
      BY <3>1, <3>2
  <2>3. /\ inode'[c] = FreeInode
        /\ inode'[p].inUse = inode[p].inUse /\ inode'[p].isDir = inode[p].isDir
        /\ \A j \in Inum : j # p /\ j # c => inode'[j] = inode[j]
    <3> HIDE DEF c
    <3> QED
      BY <1>2, <1>3, <1>7, <2>1, <2>2, RemovalIs
  <2>4. ASSUME NEW j \in Inum
        PROVE  Same(j)
    <3>1. CASE j = p
      BY <1>2, <2>3, <3>1 DEF Same, IsFile, IsDir
    <3>2. CASE j = c
      <4>1. ~ IsFile(j) /\ ~ IsFile(j)'
        BY <1>7, <2>3, <3>2, FreeInodeFields DEF IsFile, IsDir
      <4> QED
        BY <4>1 DEF Same
    <3>3. CASE j # p /\ j # c
      BY <1>1, <1>2, <1>3, <2>3, <3>3, UntouchedIsSame
    <3> QED
      BY <3>1, <3>2, <3>3
  <2> QED
    BY <1>1, <1>2, <1>3, <1>4, <1>7, <2>4, UnseenKeeps DEF FileInd
<1>8. \/ ~ Up'
      \/ \E r : Up' /\ Refuse(r)
      \/ Up' /\ c # NoInum /\ IsDir(c) /\ dir_isempty(c) /\ inode' = [left EXCEPT ![c] = FreeInode]
  BY <1>1 DEF rmdir, RemoveDir, Up
<1> QED
  BY <1>5, <1>6, <1>7, <1>8

(* unlink: the file is gone, and no other one with it. *)
LEMMA unlink_ofKeeps ==
  ASSUME FileInd, NEW p \in Inum, NEW n \in Names, unlink_of(p, n)
  PROVE  FileInd' /\ FileStep
<1> DEFINE c    == inum_from_path(p, n)
           left == WithoutLinks(p, c)
<1>1. /\ unlink(p, n) /\ answer' = answer /\ bytes' = bytes
      /\ OwnerAndMode(c, Nobody, {}) \/ UNCHANGED <<owner, mode>>
      /\ reply' # "OK" => UNCHANGED <<owner, mode>>
  BY DEF unlink_of
<1>2. Up /\ IsDir(p)
  BY <1>1 DEF unlink, RemoveFile
<1>3. TreeInd' /\ Ind /\ TreeHere
  BY <1>1, <1>2, FileIndUp, EntryTreeInd DEF FileInd
<1>4. FileTypeOK'
  <2>1. owner' \in [Inum -> Owners \cup {Nobody}] /\ mode' \in [Inum -> Modes \cup {{}}]
    <3> HIDE DEF c
    <3> QED
      BY <1>1, OwnersTyped
  <2> QED
    BY <1>1, <2>1 DEF FileInd, FileTypeOK
<1>5. CASE Refuse("EISDIR")
  <2>1. Up' /\ \A j \in Inum : Same(j)
    BY <1>1, <1>2, <1>5, RefusedIsSame DEF Refuse, Return
  <2> QED
    BY <1>1, <1>2, <1>3, <1>4, <2>1, UnseenKeeps DEF FileInd
<1>6. CASE /\ c # NoInum /\ ~ IsDir(c)
           /\ left[c].nLinks = 0 => inode' = [left EXCEPT ![c] = FreeInode]
           /\ UNCHANGED status
  <2>1. c \in Inum /\ c \in InUse
    BY <1>2, <1>3, <1>6, AskedFor
  <2>2. c # p /\ left[c].nLinks = 0 /\ Up'
    BY <1>2, <1>3, <1>6, <2>1, LastLink DEF Up
  <2>3. /\ inode'[c] = FreeInode
        /\ inode'[p].inUse = inode[p].inUse /\ inode'[p].isDir = inode[p].isDir
        /\ \A j \in Inum : j # p /\ j # c => inode'[j] = inode[j]
    <3>1. inode' = [WithoutLinks(p, c) EXCEPT ![c] = FreeInode]
      BY <1>6, <2>2
    <3> HIDE DEF c
    <3> QED
      BY <1>2, <1>3, <2>1, <2>2, <3>1, RemovalIs
  <2>0. PICK d : d = c
    OBVIOUS
  <2>4. ASSUME NEW j \in Inum, j # d
        PROVE  Same(j)
    <3>1. CASE j = p
      BY <1>2, <2>0, <2>3, <2>4, <3>1 DEF Same, IsFile, IsDir
    <3>2. CASE j # p
      <4>1. owner'[j] = owner[j] /\ mode'[j] = mode[j]
        <5> HIDE DEF c
        <5> QED
          BY <1>1, <2>0, <2>4, OwnersStay
      <4> QED
        BY <1>1, <1>2, <1>3, <2>0, <2>3, <2>4, <3>2, <4>1, UntouchedIsSame
    <3> QED
      BY <3>1, <3>2
  <2>5. IsFile(d) /\ ~ IsFile(d)'
    BY <1>6, <2>0, <2>1, <2>3, FreeInodeFields DEF IsFile, IsDir, InUse
  <2>6. NoMetaInFiles'
    BY <1>2, <2>0, <2>1, <2>4, <2>5, OneClean
  <2>7. FileStep
    BY <1>1, <1>2, <1>3, <2>0, <2>1, <2>2, <2>4, <2>5, StepDisappears
  <2> QED
    BY <1>3, <1>4, <2>6, <2>7 DEF FileInd
<1> QED
  BY <1>1, <1>5, <1>6 DEF unlink, RemoveFile

(* A file as the users see it, and how that can change. *)
View(b, s, readers, writers) ==
  [bytes |-> b, size |-> s, readers |-> readers, writers |-> writers, exists |-> TRUE]

WithSize(f, b, s)                 == [f EXCEPT !.bytes = b, !.size = s]
WithBytes(f, b)                   == [f EXCEPT !.bytes = b]
WithAllowed(f, readers, writers) == [f EXCEPT !.readers = readers, !.writers = writers]

Fields(f, b, s, readers, writers) ==
  f \in [bytes : {b}, size : {s}, readers : {readers}, writers : {writers}, exists : {TRUE}]

(* Records that agree in every field are one. *)
LEMMA ViewUnique ==
  ASSUME NEW f, NEW b, NEW s, NEW readers, NEW writers, Fields(f, b, s, readers, writers)
  PROVE  f = View(b, s, readers, writers)
BY DEF View, Fields

(* Its fields, *)
LEMMA ViewFields ==
  ASSUME NEW b, NEW s, NEW readers, NEW writers
  PROVE  LET f == View(b, s, readers, writers)
         IN  f.bytes = b /\ f.size = s /\ f.readers = readers /\ f.writers = writers
BY DEF View

(* and what it is with others. *)
LEMMA ViewChanges ==
  ASSUME NEW b, NEW s, NEW readers, NEW writers, NEW x, NEW y
  PROVE  LET f == View(b, s, readers, writers)
         IN  /\ WithSize(f, x, y) = View(x, y, readers, writers)
             /\ WithAllowed(f, x, y) = View(b, s, x, y)
<1> DEFINE f == View(b, s, readers, writers)
<1>1. WithSize(f, x, y) = View(x, y, readers, writers)
  <2>1. Fields(WithSize(f, x, y), x, y, readers, writers)
    BY DEF Fields, View, WithSize
  <2> QED
    BY <2>1, ViewUnique
<1>2. WithAllowed(f, x, y) = View(b, s, x, y)
  <2>1. Fields(WithAllowed(f, x, y), b, s, x, y)
    BY DEF Fields, View, WithAllowed
  <2> QED
    BY <2>1, ViewUnique
<1> QED
  BY <1>1, <1>2

(* The same, when only the bytes are others. *)
LEMMA ViewChangesBytes ==
  ASSUME NEW b, NEW s, NEW readers, NEW writers, NEW x
  PROVE  WithBytes(View(b, s, readers, writers), x) = View(x, s, readers, writers)
<1> DEFINE f == View(b, s, readers, writers)
<1>1. Fields(WithBytes(f, x), x, s, readers, writers)
  BY DEF Fields, View, WithBytes
<1> QED
  BY <1>1, ViewUnique

(* What a file looks like to the users, once more. *)
LEMMA SeenFile ==
  ASSUME Up, NEW i \in Inum, IsFile(i)
  PROVE  /\ FilesSeen[i] = View(Row(inode[i], bytes), inode[i].size, AllowedTo(i, "r"), AllowedTo(i, "w"))
         /\ FilesSeen[i].bytes = Row(inode[i], bytes) /\ FilesSeen[i].size = inode[i].size
         /\ FilesSeen[i].readers = AllowedTo(i, "r") /\ FilesSeen[i].writers = AllowedTo(i, "w")
<1>1. FilesSeen[i] = View(Row(inode[i], bytes), inode[i].size, AllowedTo(i, "r"), AllowedTo(i, "w"))
  BY FileViewIs, FilesSeenAre DEF View
<1> QED
  BY <1>1, ViewFields

(* The same after a request. *)
LEMMA SeenFileNext ==
  ASSUME Up', NEW i \in Inum, IsFile(i)'
  PROVE  FileView(i)' = View(Row(inode'[i], bytes'), inode'[i].size, AllowedTo(i, "r")', AllowedTo(i, "w")')
BY FileViewNext DEF View

(* refs_access lets those pass that a class of the mode allows it. *)
LEMMA MayIs ==
  ASSUME NEW u \in Users, NEW i, NEW right \in {"r", "w"}
  PROVE  May(u, i, right) <=> u \in AllowedTo(i, right)
BY DEF May, refs_access, allowed_mode, Granted, Rights, AllowedTo

(* chmod. *)
LEMMA refs_chmodKeeps ==
  ASSUME FileInd, NEW i \in Inum, NEW m \in Modes, refs_chmod(i, m)
  PROVE  FileInd' /\ FileStep
<1>1. /\ Up /\ IsFile(i) /\ Refuse("OK")
      /\ mode' = [mode EXCEPT ![i] = m] /\ owner' = owner /\ bytes' = bytes /\ answer' = answer
  BY DEF refs_chmod, Refuse
<1>2. TreeInd' /\ Ind /\ Up' /\ inode' = inode
  BY <1>1, FileIndUp, SameTreeInd DEF FileInd, Refuse, Up, fsVars
<1>3. /\ mode' \in [Inum -> Modes \cup {{}}] /\ \A j \in Inum : j # i => mode'[j] = mode[j]
      /\ FileTypeOK'
  BY <1>1 DEF FileInd, FileTypeOK
<1>4. ASSUME NEW j \in Inum, j # i
      PROVE  Same(j)
  BY <1>1, <1>2, <1>3, <1>4, UntouchedIsSame
<1>5. IsFile(i)' /\ (Clean(inode[i], bytes) => Clean(inode'[i], bytes'))
  BY <1>1, <1>2 DEF IsFile, Clean
<1>6. NoMetaInFiles'
  <2>1. Clean(inode[i], bytes)
    BY <1>1, FileIndUp, NoMetaIs DEF Files
  <2> QED
    BY <1>1, <1>4, <1>5, <2>1, OneClean
<1> DEFINE v == WithAllowed(FilesSeen[i], AllowedTo(i, "r")', AllowedTo(i, "w")')
<1>7. FileView(i)' = v
  <2>1. FileView(i)' = View(Row(inode'[i], bytes'), inode'[i].size, AllowedTo(i, "r")', AllowedTo(i, "w")')
    BY <1>2, <1>5, SeenFileNext
  <2>2. Row(inode'[i], bytes') = Row(inode[i], bytes) /\ inode'[i].size = inode[i].size
    BY <1>1, <1>2
  <2> QED
    BY <1>1, <2>1, <2>2, SeenFile, ViewChanges
<1>8. FilesSeen' = [FilesSeen EXCEPT ![i] = v]
  <2> HIDE DEF v
  <2> QED
    BY <1>1, <1>2, <1>4, <1>7, OneSeen
<1>9. Contents!SetMode(i)
  <2>1. FilesSeen'[i] = v
    BY <1>7, FilesSeenAre
  <2>2. v.readers = AllowedTo(i, "r")' /\ v.writers = AllowedTo(i, "w")'
    <3>1. v = View(Row(inode[i], bytes), inode[i].size, AllowedTo(i, "r")', AllowedTo(i, "w")')
      BY <1>1, SeenFile, ViewChanges
    <3> QED
      BY <3>1 DEF View
  <2>3. v.readers \subseteq Users /\ v.writers \subseteq Users
    BY <2>2 DEF AllowedTo
  <2>4. FilesSeen' = [FilesSeen EXCEPT ![i].readers = FilesSeen'[i].readers,
                                       ![i].writers = FilesSeen'[i].writers]
    <3>1. FilesSeen' = [FilesSeen EXCEPT ![i] = [FilesSeen[i] EXCEPT !.readers = v.readers,
                                                                     !.writers = v.writers]]
      BY <1>8, <2>2 DEF WithAllowed
    <3>2. i \in DOMAIN FilesSeen
      BY DEF FilesSeen
    <3> HIDE DEF v
    <3> QED
      BY <2>1, <3>1, <3>2
  <2> HIDE DEF v
  <2> QED
    BY <1>1, <2>1, <2>3, <2>4 DEF Contents!SetMode, FilesSeen
<1>10. FileStep
  BY <1>1, <1>2, <1>9, StepRequest DEF Contents!Request
<1> QED
  BY <1>2, <1>3, <1>6, <1>10 DEF FileInd

(* The answer EACCES. *)
LEMMA DeniedKeeps ==
  ASSUME FileInd, Up, NEW i \in Inum, IsFile(i), NEW u \in Users, NEW right \in {"r", "w"},
         Denied(u, i, right)
  PROVE  FileInd' /\ FileStep
<1>1. /\ ~ May(u, i, right) /\ Refuse("EACCES") /\ Answer(u, right, FALSE, <<>>)
      /\ bytes' = bytes /\ owner' = owner /\ mode' = mode
  BY DEF Denied, fileVars
<1>2. TreeInd' /\ Ind
  BY <1>1, FileIndUp, SameTreeInd DEF FileInd
<1>3. Up' /\ \A j \in Inum : Same(j)
  BY <1>1, RefusedIsSame
<1>4. FileTypeOK'
  BY <1>1 DEF FileInd, FileTypeOK
<1>5. NoMetaInFiles'
  BY <1>2, <1>3, SameClean, FileIndUp, NoMetaIs
<1>6. FilesSeen' = FilesSeen
  <2>1. \A j \in Inum : FileView(j)' = FileView(j)
    BY <1>2, <1>3, SameView
  <2> QED
    BY <2>1 DEF FilesSeen
<1>7. /\ right = "r" => u \notin FilesSeen[i].readers
      /\ right = "w" => u \notin FilesSeen[i].writers
  BY <1>1, MayIs, SeenFile
<1>8. Contents!Deny(u, i)
  BY <1>1, <1>6, <1>7 DEF Contents!Deny, Contents!Answer, Answer, FilesSeen
<1>9. FileStep
  BY <1>3, <1>8, StepRequest DEF Contents!Request
<1> QED
  BY <1>2, <1>4, <1>5, <1>9 DEF FileInd

(* The record and the blocks of the only file that changed. *)
Becomes(i, blks) ==
  /\ bytes' = blks
  /\ \A j \in Inum : j # i => Same(j)
  /\ IsFile(i)'
  /\ Clean(inode'[i], blks)
  /\ BytesTyped(blks)

(* It keeps the invariant. *)
LEMMA BecomesKeeps ==
  ASSUME FileInd, TreeInd', Up, NEW i \in Inum, NEW blks, Becomes(i, blks), UNCHANGED <<owner, mode>>
  PROVE  FileInd'
<1>1. FileTypeOK'
  BY DEF FileInd, FileTypeOK, Becomes, BytesTyped
<1>2. NoMetaInFiles'
  BY OneClean DEF Becomes
<1> QED
  BY <1>1, <1>2 DEF FileInd

(* It is seen with another row and size. *)
LEMMA BecomesSeen ==
  ASSUME Ind, Up, Up', NEW i \in Inum, IsFile(i), NEW blks, Becomes(i, blks),
         UNCHANGED <<owner, mode>>
  PROVE  FilesSeen' = [FilesSeen EXCEPT ![i] =
                         WithSize(FilesSeen[i], Row(inode'[i], blks), inode'[i].size)]
<1> DEFINE v == WithSize(FilesSeen[i], Row(inode'[i], blks), inode'[i].size)
<1>1. FileView(i)' = View(Row(inode'[i], bytes'), inode'[i].size, AllowedTo(i, "r")', AllowedTo(i, "w")')
  BY SeenFileNext DEF Becomes
<1>2. AllowedTo(i, "r")' = AllowedTo(i, "r") /\ AllowedTo(i, "w")' = AllowedTo(i, "w")
  BY DEF AllowedTo
<1>3. bytes' = blks
  BY DEF Becomes
<1>4. FileView(i)' = v
  BY <1>1, <1>2, <1>3, SeenFile, ViewChanges
<1> HIDE DEF v
<1>5. FilesSeen' = [FilesSeen EXCEPT ![i] = v]
  BY <1>4, OneSeen DEF Becomes
<1> QED
  BY <1>5 DEF v

(* Another inode, when one is resized or written. *)
LEMMA OtherIsSame ==
  ASSUME Ind, Ind', Up, Up', NEW i \in Inum, NEW j \in Inum, j # i, inode'[j] = inode[j],
         owner'[j] = owner[j], mode'[j] = mode[j],
         \A b \in Block : b \in dataBitmap /\ b \notin BlocksAt(inode'[i], 0 .. inode'[i].blocks - 1)
                            => bytes'[b] = bytes[b]
  PROVE  Same(j)
<1>1. ASSUME NEW k \in 0 .. inode[j].blocks - 1
      PROVE  bytes'[inode[j].ptrs[k]] = bytes[inode[j].ptrs[k]]
  <2> DEFINE b == inode[j].ptrs[k]
  <2>1. b \in BlocksAt(inode[j], 0 .. inode[j].blocks - 1)
    BY DEF BlocksAt
  <2> HIDE DEF b
  <2>2. b \in Block /\ b \in dataBitmap
    BY <2>1, OwnedTaken
  <2>3. b \in Held(inode'[j])
    BY <2>1, OwnedTakenNext
  <2>4. Held(inode'[i]) \cap Held(inode'[j]) = {}
    BY DEF Ind, Sane
  <2>5. b \notin BlocksAt(inode'[i], 0 .. inode'[i].blocks - 1)
    BY <2>3, <2>4 DEF Held
  <2> QED
    BY <2>2, <2>5 DEF b
<1> QED
  BY <1>1 DEF Same, IsFile

(* truncate: the file is cut, or continued with zeros. *)
LEMMA ResizedBecomes ==
  ASSUME FileInd, Up, Up', NEW i \in Inum, IsFile(i), NEW sz \in Nat, do_truncate(i, sz),
         bytes' = WithNewBlocks(inode'[i]), UNCHANGED <<owner, mode>>
  PROVE  Becomes(i, bytes')
<1>1. Ind /\ BytesTyped(bytes) /\ Clean(inode[i], bytes)
  BY FileIndUp, NoMetaIs DEF Files
<1>2. /\ Ind' /\ inode'[i].inUse /\ ~ inode'[i].isDir
      /\ \A j \in Inum : j # i => inode'[j] = inode[j]
  BY <1>1, ResizeIs
<1>3. BytesTyped(bytes') /\ \A b \in Block : b \in dataBitmap => bytes'[b] = bytes[b]
  BY ReservingBytes
<1>4. ASSUME NEW j \in Inum, j # i
      PROVE  Same(j)
  BY <1>1, <1>2, <1>3, <1>4, UntouchedIsSame
<1>5. Clean(inode'[i], bytes')
  BY <1>1, ResizedClean
<1> QED
  BY <1>2, <1>3, <1>4, <1>5 DEF Becomes, IsFile

(* refs_truncate. *)
LEMMA refs_truncateKeeps ==
  ASSUME FileInd, NEW u \in Users, NEW i \in Inum, NEW sz \in Sizes, refs_truncate(u, i, sz)
  PROVE  FileInd' /\ FileStep
<1>1. Up /\ IsFile(i) /\ Ind /\ BytesTyped(bytes) /\ sz \in Nat
  BY FileIndUp, SizesAssumption DEF refs_truncate
<1>2. CASE Denied(u, i, "w")
  BY <1>1, <1>2, DeniedKeeps
<1>3. CASE /\ May(u, i, "w") /\ do_truncate(i, sz)
           /\ bytes' = WithNewBlocks(inode'[i])
           /\ Answer(u, "w", TRUE, <<>>)
           /\ UNCHANGED <<owner, mode>>
  <2>1. TreeInd'
    BY <1>1, <1>3, do_truncateTreeInd DEF FileInd
  <2>2. CASE ~ Up'
    <3>1. FileTypeOK'
      BY <1>1, <1>3, ReservingBytes DEF FileInd, FileTypeOK, BytesTyped
    <3> QED
      BY <1>1, <2>1, <2>2, <3>1, EndKeeps DEF FileInd
  <2>3. CASE Up'
    <3>1. Becomes(i, bytes')
      BY <1>1, <1>3, <2>3, ResizedBecomes
    <3>2. FileInd'
      BY <1>1, <1>3, <2>1, <3>1, BecomesKeeps
    <3>3. Row(inode'[i], bytes') = Contents!Fitted(Row(inode[i], bytes), sz)
      BY <1>1, <1>3, <2>3, ResizedRow
    <3>4. inode'[i].size = sz
      BY <1>1, <1>3, <2>3, ResizeIs
    <3>5. FilesSeen' = [FilesSeen EXCEPT ![i] =
                          WithSize(FilesSeen[i], Contents!Fitted(Row(inode[i], bytes), sz), sz)]
      BY <1>1, <1>3, <2>3, <3>1, <3>3, <3>4, BecomesSeen
    <3>6. /\ FilesSeen[i].bytes = Row(inode[i], bytes)
          /\ u \in FilesSeen[i].writers
      BY <1>1, <1>3, MayIs, SeenFile
    <3>7. [FilesSeen[i] EXCEPT !.bytes = Contents!Fitted(@, sz), !.size = sz]
            = WithSize(FilesSeen[i], Contents!Fitted(Row(inode[i], bytes), sz), sz)
      BY <3>6 DEF WithSize
    <3>8. Contents!Resize(u, i, sz)
      BY <1>3, <3>5, <3>6, <3>7 DEF Contents!Resize, Contents!Resized, Contents!Answer, Answer, FilesSeen
    <3>9. FileStep
      BY <1>1, <2>3, <3>8, StepRequest DEF Contents!Request
    <3> QED
      BY <3>2, <3>9
  <2> QED
    BY <2>2, <2>3
<1> QED
  BY <1>2, <1>3 DEF refs_truncate

(* What a write does to the file as its size lets it, and then to its      *)
(* bytes.                                                                  *)
LEMMA WrittenStep ==
  ASSUME FileInd, TreeInd', Up, Up', NEW i \in Inum, IsFile(i), NEW u \in Users,
         NEW x \in Ranges, NEW v \in Values, May(u, i, "w"),
         NEW blks, Becomes(i, do_write(blks, inode'[i], x.size, x.offset, v)),
         Fits(inode'[i], x.offset, x.size),
         NEW ready, ready = (IF x.offset + x.size > inode[i].size
                             THEN Contents!Resized(i, x.offset + x.size) ELSE FilesSeen[i]),
         ready = WithSize(FilesSeen[i], Row(inode'[i], blks), inode'[i].size),
         Answer(u, "w", TRUE, <<>>), UNCHANGED <<owner, mode>>
  PROVE  FileInd' /\ FileStep
<1> DEFINE r    == inode'[i]
           end  == x.offset + x.size
           done == do_write(blks, r, x.size, x.offset, v)
           row  == Row(r, blks)
           Mark(s) == [k \in DOMAIN s |-> IF k \in x.offset + 1 .. end THEN v ELSE s[k]]
<1>1. Ind /\ Ind'
  BY FileIndUp DEF TreeInd
<1>2. FileInd'
  BY BecomesKeeps
<1>3. Row(r, done) = Mark(row)
  <2>1. HoldsDistinct(r)
    BY <1>1 DEF Ind, Sane
  <2>2. \A b \in BlocksAt(r, 0 .. r.blocks - 1) : b \in Block
    BY <1>1, OwnedTakenNext
  <2> HIDE DEF r
  <2> QED
    BY <2>1, <2>2, WrittenRow DEF r
<1>4. FilesSeen' = [FilesSeen EXCEPT ![i] = WithSize(FilesSeen[i], Row(r, done), r.size)]
  <2> HIDE DEF done
  <2> QED
    BY <1>1, BecomesSeen DEF done
<1> HIDE DEF Mark, row, done, r
<1>5. FilesSeen[i].size = inode[i].size /\ u \in FilesSeen[i].writers
  BY MayIs, SeenFile
<1>6. ready = View(row, r.size, AllowedTo(i, "r"), AllowedTo(i, "w"))
  <2>1. ready = WithSize(FilesSeen[i], row, r.size)
    BY DEF row, r
  <2> QED
    BY <2>1, SeenFile, ViewChanges
<1>7. ready.bytes = row
  BY <1>6, ViewFields
<1>8. WithSize(FilesSeen[i], Mark(row), r.size) = WithBytes(ready, Mark(ready.bytes))
  <2>1. WithSize(FilesSeen[i], Mark(row), r.size)
          = View(Mark(row), r.size, AllowedTo(i, "r"), AllowedTo(i, "w"))
    BY SeenFile, ViewChanges
  <2>2. WithBytes(ready, Mark(row)) = View(Mark(row), r.size, AllowedTo(i, "r"), AllowedTo(i, "w"))
    BY <1>6, ViewChangesBytes
  <2> QED
    BY <1>7, <2>1, <2>2
<1>9. FilesSeen' = [FilesSeen EXCEPT ![i] =
        [ready EXCEPT !.bytes = [k \in DOMAIN @ |-> IF k \in x.offset + 1 .. end THEN v ELSE @[k]]]]
  BY <1>3, <1>4, <1>8 DEF Mark, WithBytes
<1>10. Contents!Write(u, i, x.offset, x.size, v)
  BY <1>5, <1>9 DEF Contents!Write, Contents!Answer, Answer, FilesSeen
<1>11. FileStep
  BY <1>10, StepRequest DEF Contents!Request
<1> QED
  BY <1>2, <1>11

(* refs_write. *)
LEMMA refs_writeKeeps ==
  ASSUME FileInd, NEW u \in Users, NEW i \in Inum, NEW x \in Ranges, NEW v \in Values,
         refs_write(u, i, x.offset, x.size, v)
  PROVE  FileInd' /\ FileStep
<1> DEFINE end  == x.offset + x.size
           r    == inode'[i]
           blks == WithNewBlocks(r)
           done == do_write(blks, r, x.size, x.offset, v)
<1>1. /\ Up /\ IsFile(i) /\ Ind /\ BytesTyped(bytes) /\ Clean(inode[i], bytes)
      /\ x.offset \in Nat /\ x.size \in Nat \ {0} /\ end \in Nat
  <2>1. Up /\ IsFile(i) /\ x.offset \in Nat /\ x.size \in Nat \ {0}
    BY RangesAssumption DEF refs_write
  <2> QED
    BY <2>1, FileIndUp, NoMetaIs DEF Files
<1>2. CASE Denied(u, i, "w")
  BY <1>1, <1>2, DeniedKeeps
<1>3. CASE /\ May(u, i, "w")
           /\ \/ end > inode[i].size /\ do_truncate(i, end)
              \/ ~ (end > inode[i].size) /\ Refuse("OK")
           /\ bytes' = IF status' = "up" THEN done ELSE bytes
           /\ Answer(u, "w", TRUE, <<>>)
           /\ UNCHANGED <<owner, mode>>
  <2>1. TreeInd'
    BY <1>1, <1>3, do_truncateTreeInd, SameTreeInd DEF FileInd
  <2>2. CASE ~ Up'
    <3>1. FileTypeOK'
      BY <1>3, <2>2 DEF FileInd, FileTypeOK, Up
    <3> QED
      BY <1>1, <2>1, <2>2, <3>1, EndKeeps DEF FileInd
  <2>3. CASE Up'
    <3>1. bytes' = done /\ Ind'
      BY <1>3, <2>1, <2>3 DEF TreeInd, Up
    <3>2. /\ BytesTyped(blks)
          /\ \A b \in Block : b \in dataBitmap => blks[b] = bytes[b]
      BY <1>1, NewBlocksAre
    <3>3. /\ \A j \in Inum : j # i => inode'[j] = inode[j]
          /\ r.inUse /\ ~ r.isDir
          /\ Clean(r, blks)
          /\ r.blocks \in Nat /\ end <= r.blocks * BlockSize
          /\ (IF end > inode[i].size THEN Contents!Resized(i, end) ELSE FilesSeen[i])
               = WithSize(FilesSeen[i], Row(r, blks), r.size)
      <4>1. CASE end > inode[i].size /\ do_truncate(i, end)
        <5>1. /\ \A j \in Inum : j # i => inode'[j] = inode[j]
              /\ r.inUse /\ ~ r.isDir /\ r.size = end /\ r.blocks = BlocksFor(end)
          BY <1>1, <2>3, <4>1, ResizeIs
        <5>2. Clean(r, blks)
          BY <1>1, <2>3, <4>1, ResizedClean
        <5>3. r.blocks \in Nat /\ end <= r.blocks * BlockSize
          BY <1>1, <5>1, RoomForSize
        <5>4. Row(r, blks) = Contents!Fitted(Row(inode[i], bytes), end)
          BY <1>1, <2>3, <4>1, ResizedRow
        <5>5. FilesSeen[i].bytes = Row(inode[i], bytes)
          BY <1>1, SeenFile
        <5> HIDE DEF blks, r, end
        <5>6. Contents!Resized(i, end) = WithSize(FilesSeen[i], Row(r, blks), r.size)
          BY <5>1, <5>4, <5>5 DEF Contents!Resized, FilesSeen, WithSize
        <5> QED
          BY <4>1, <5>1, <5>2, <5>3, <5>6
      <4>2. CASE ~ (end > inode[i].size) /\ Refuse("OK")
        <5>1. inode' = inode /\ dataBitmap' = dataBitmap
          BY <4>2 DEF Refuse, fsVars
        <5>2. blks = bytes
          BY <1>1, <5>1, NewBlocksAre
        <5>3. r = inode[i]
          BY <5>1
        <5>4. inode[i] \in InodeType /\ inode[i].blocks = BlocksFor(inode[i].size)
          BY <1>1 DEF Ind, TypeOK, Sane, Shape, FitsSize, IsFile
        <5>5. inode[i].size \in Nat /\ inode[i].blocks \in Nat
          BY <5>4, RoomForSize DEF InodeType
        <5>6. inode[i].size <= inode[i].blocks * BlockSize /\ inode[i].blocks * BlockSize \in Nat
          BY <5>4, <5>5, RoomForSize, BlockSizeAssumption
        <5>7. end <= r.blocks * BlockSize
          BY <1>1, <4>2, <5>3, <5>5, <5>6
        <5>8. FilesSeen[i] = WithSize(FilesSeen[i], Row(r, blks), r.size)
          <6>1. Row(r, blks) = Row(inode[i], bytes) /\ r.size = inode[i].size
            BY <5>2, <5>3
          <6> HIDE DEF blks, r
          <6> QED
            BY <1>1, <6>1, SeenFile, ViewChanges
        <5>9. r.inUse /\ ~ r.isDir /\ Clean(r, blks)
          BY <1>1, <5>2, <5>3 DEF IsFile
        <5> HIDE DEF blks, r, end
        <5> QED
          BY <4>2, <5>1, <5>3, <5>5, <5>7, <5>8, <5>9
      <4> QED
        BY <1>3, <4>1, <4>2
    <3>4. Fits(r, x.offset, x.size)
      BY <1>1, <3>3 DEF Fits
    <3>5. /\ BytesTyped(done)
          /\ \A b \in Block : b \notin BlocksAt(r, 0 .. r.blocks - 1) => done[b] = blks[b]
          /\ \A b \in Block, y \in Byte : blks[b][y] # Meta => done[b][y] # Meta
      <4> HIDE DEF r, blks
      <4> QED
        BY <3>2, <3>4, WriteStays
    <3>6. ASSUME NEW j \in Inum, j # i
          PROVE  Same(j)
      <4>1. \A b \in Block : b \in dataBitmap /\ b \notin BlocksAt(inode'[i], 0 .. inode'[i].blocks - 1)
                               => bytes'[b] = bytes[b]
        <5> HIDE DEF done, blks
        <5> QED
          BY <3>1, <3>2, <3>5
      <4> QED
        BY <1>1, <1>3, <2>3, <3>1, <3>3, <3>6, <4>1, OtherIsSame
    <3>7. Clean(r, done)
      <4> SUFFICES ASSUME NEW k \in 0 .. r.blocks - 1, NEW y \in Byte
                   PROVE  done[r.ptrs[k]][y] # Meta
        BY DEF Clean
      <4>1. r.ptrs[k] \in BlocksAt(r, 0 .. r.blocks - 1)
        BY DEF BlocksAt
      <4>2. r.ptrs[k] \in Block
        BY <2>3, <3>1, <4>1, OwnedTakenNext
      <4>3. blks[r.ptrs[k]][y] # Meta
        BY <3>3 DEF Clean
      <4> HIDE DEF done, blks, r
      <4> QED
        BY <3>5, <4>2, <4>3
    <3>8. Becomes(i, done)
      <4> HIDE DEF done, blks
      <4> QED
        BY <3>1, <3>3, <3>5, <3>6, <3>7 DEF Becomes, IsFile
    <3> QED
      <4>1. \E ready : /\ ready = (IF end > inode[i].size THEN Contents!Resized(i, end) ELSE FilesSeen[i])
                       /\ ready = WithSize(FilesSeen[i], Row(r, blks), r.size)
        BY <3>3
      <4> HIDE DEF blks
      <4> QED
        BY <1>1, <1>3, <2>1, <2>3, <3>4, <3>8, <4>1, WrittenStep
  <2> QED
    BY <2>2, <2>3
<1> QED
  BY <1>2, <1>3 DEF refs_write, ReachesPast

(* refs_read. *)
LEMMA refs_readKeeps ==
  ASSUME FileInd, NEW u \in Users, NEW i \in Inum, NEW x \in Ranges,
         refs_read(u, i, x.offset, x.size)
  PROVE  FileInd' /\ FileStep
<1>1. /\ Up /\ IsFile(i) /\ x.offset \in Nat /\ x.size \in Nat
      /\ x.offset + x.size <= inode[i].blocks * BlockSize
  BY RangesAssumption DEF refs_read, refs_getattr
<1>2. Ind /\ inode[i].blocks \in Nat
  <2>1. Ind
    BY <1>1, FileIndUp
  <2> QED
    BY <2>1, PointersAssumption DEF Ind, TypeOK, InodeType, MaxFileBlocks
<1>3. CASE Denied(u, i, "r")
  BY <1>1, <1>3, DeniedKeeps
<1>4. CASE /\ May(u, i, "r") /\ Refuse("OK")
           /\ Answer(u, "r", TRUE, do_read(inode[i], x.size, x.offset))
           /\ UNCHANGED fileVars
  <2>1. bytes' = bytes /\ UNCHANGED <<owner, mode>>
    BY <1>4 DEF fileVars
  <2>2. TreeInd' /\ FileTypeOK'
    BY <1>1, <1>4, <2>1, SameTreeInd DEF FileInd, FileTypeOK
  <2>3. Up' /\ \A j \in Inum : Same(j)
    BY <1>1, <1>4, <2>1, RefusedIsSame
  <2>4. NoMetaInFiles'
    BY <1>1, <2>3, SameClean, FileIndUp, NoMetaIs
  <2>5. FilesSeen' = FilesSeen
    <3>1. \A j \in Inum : FileView(j)' = FileView(j)
      BY <1>1, <1>2, <2>3, SameView
    <3> QED
      BY <3>1 DEF FilesSeen
  <2>6. FilesSeen[i].bytes = Row(inode[i], bytes) /\ u \in FilesSeen[i].readers
    BY <1>1, <1>4, MayIs, SeenFile
  <2>7. do_read(inode[i], x.size, x.offset)
          = SubSeq(FilesSeen[i].bytes, x.offset + 1, x.offset + x.size)
    BY <1>1, <1>2, <2>6, ReadRow DEF Fits
  <2>8. x.offset + x.size <= Len(FilesSeen[i].bytes)
    BY <1>1, <1>2, <2>6, RowLength
  <2>9. Contents!Read(u, i, x.offset, x.size)
    BY <1>4, <2>5, <2>6, <2>7, <2>8 DEF Contents!Read, Contents!Answer, Answer, FilesSeen
  <2>10. FileStep
    BY <1>1, <2>3, <2>9, StepRequest DEF Contents!Request
  <2> QED
    BY <2>2, <2>4, <2>10 DEF FileInd
<1> QED
  BY <1>3, <1>4 DEF refs_read

-----------------------------------------------------------------------------
(* The theorems *)

(* An empty file system has no files. *)
LEMMA FileInitInd == FileInit => FileInd /\ Contents!Init
<1> SUFFICES ASSUME FileInit PROVE FileInd /\ Contents!Init
  OBVIOUS
<1>1. Init /\ bytes = [b \in Block |-> IF b = 0 THEN MetaBlock ELSE ZeroBlock]
      /\ owner = [i \in Inum |-> Nobody] /\ mode = [i \in Inum |-> {}]
  BY DEF FileInit
<1>2. TreeInd
  BY <1>1, InitTree
<1>3. FileTypeOK
  <2>1. ZeroBlock \in [Byte -> Values \cup {Zero, Meta}] /\ MetaBlock \in [Byte -> Values \cup {Zero, Meta}]
    BY DEF ZeroBlock, MetaBlock
  <2> QED
    BY <1>1, <2>1 DEF FileTypeOK
<1>4. \A i \in Inum : ~ IsFile(i)
  BY <1>1, FreeInodeFields DEF Init, NewDirInode, IsFile
<1>5. NoMetaInFiles
  BY <1>4 DEF NoMetaInFiles, Files
<1>6. \A i \in Inum : FileView(i) = Contents!NoFile
  BY <1>4, FileViewIs
<1>7. Contents!Init
  <2>1. Up = TRUE
    BY <1>1 DEF Init, Up
  <2> QED
    BY <1>6, <2>1 DEF FileInit, Contents!Init
<1> QED
  BY <1>2, <1>3, <1>5, <1>7 DEF FileInd

(* Every request keeps the invariant and is one of ByteFiles. *)
LEMMA FileNextKeeps ==
  ASSUME FileInd, FileNext
  PROVE  FileInd' /\ FileStep
BY mknod_byKeeps, mkdir_overKeeps, rmdir_overKeeps, unlink_ofKeeps, refs_chmodKeeps,
   refs_truncateKeeps, refs_writeKeeps, refs_readKeeps DEF FileNext

(* Nothing happens. *)
LEMMA FileStutters ==
  ASSUME FileInd, UNCHANGED <<vars, fileVars, answer>>
  PROVE  FileInd' /\ UNCHANGED Contents!vars
<1>1. /\ UNCHANGED vars
      /\ inode' = inode /\ status' = status
      /\ bytes' = bytes /\ owner' = owner /\ mode' = mode /\ answer' = answer
  BY DEF vars, fileVars
<1>2. TreeInd'
  BY <1>1, NextTreeInd DEF FileInd
<1>3. /\ Up' = Up
      /\ \A j \in Inum : IsFile(j)' = IsFile(j) /\ FileView(j)' = FileView(j)
  BY <1>1 DEF Up, IsFile, FileView, BlockAt, ByteAt, AllowedTo
<1>4. FileTypeOK'
  BY <1>1 DEF FileInd, FileTypeOK
<1>5. NoMetaInFiles'
  BY <1>1, <1>3, NoMetaIs DEF FileInd, Files
<1>6. UNCHANGED Contents!vars
  <2>1. [i \in Inum |-> FileView(i)]' = [i \in Inum |-> FileView(i)]
    BY <1>3
  <2> QED
    BY <1>1, <1>3, <2>1 DEF Contents!vars
<1> QED
  BY <1>2, <1>4, <1>5, <1>6 DEF FileInd

(* The invariant is one. *)
LEMMA FileInvariant == FileSpec => []FileInd
<1>1. FileInit => FileInd
  BY FileInitInd
<1>2. FileInd /\ [FileNext]_<<vars, fileVars, answer>> => FileInd'
  BY FileNextKeeps, FileStutters
<1> QED
  BY <1>1, <1>2, PTL DEF FileSpec

(* The blocks hold bytes, inodes have an owner who may create files, and   *)
(* modes are those asked for.                                              *)
THEOREM FileBytesAreTyped == FileSpec => []FileTypeOK
<1>1. FileInd => FileTypeOK
  BY DEF FileInd
<1> QED
  BY <1>1, FileInvariant, PTL

(* Blocks that mkdir, a growing directory or a growing pointer table had   *)
(* are cleared before do_truncate gives them to a file.                    *)
THEOREM NoMetaShowsInFiles == FileSpec => []NoMetaInFiles
<1>1. FileInd => NoMetaInFiles
  BY DEF FileInd
<1> QED
  BY <1>1, FileInvariant, PTL

(* Every request of refs_write, refs_truncate, refs_read and the handlers  *)
(* around them is one about rows of bytes: a write changes the bytes asked *)
(* for in this file and nothing else, a read gets what was last written    *)
(* there, new parts are zeros, and only those whom the mode allows it read *)
(* and write.                                                              *)
THEOREM RefsFileImplementsByteFiles == FileSpec => ImplementsByteFiles
<1>1. FileInit => Contents!Init
  BY FileInitInd
<1>2. FileInd /\ [FileNext]_<<vars, fileVars, answer>> => [Contents!Next]_(Contents!vars)
  <2> SUFFICES ASSUME FileInd, [FileNext]_<<vars, fileVars, answer>>
               PROVE  [Contents!Next]_(Contents!vars)
    OBVIOUS
  <2>1. CASE FileNext
    BY <2>1, FileNextKeeps DEF FileStep
  <2>2. CASE UNCHANGED <<vars, fileVars, answer>>
    BY <2>2, FileStutters
  <2> QED
    BY <2>1, <2>2
<1> QED
  BY <1>1, <1>2, FileInvariant, PTL DEF FileSpec, ImplementsByteFiles, Contents!Spec

=============================================================================

-------------------------- MODULE PlotStorageProofs --------------------------
(***************************************************************************)
(* TypeOK, OctreeSound, StoredUnlessFull and ImplementsMap of PlotStorage, *)
(* for any sides of plots, sizes of buffers and of the table, and widths   *)
(* of pointers and words.                                                  *)
(*                                                                         *)
(* The nodes of an octree are a set of triples: level, buffer and first    *)
(* entry. Well says that they form a tree that lies within what the        *)
(* buffers have given away, Hung that each chunk hangs on one pointer.     *)
(* AddNode is about a node that is allocated, SetPointer about a pointer   *)
(* that is set, Rounds about the traversal's loop, and WalkAgain about the *)
(* second traversal of set_block. The next two parts are about what is     *)
(* looked up in a tree: WellFormed finds those nodes (NodesFound), and     *)
(* what lies at a position is found where the traversal goes (LookedUp).   *)
(*                                                                         *)
(* The last four parts show that positions whose chunks have the same      *)
(* remainders share a leaf and others do not (NearMod, LeafFacts), that a  *)
(* traversal moves no leaf (LeavesStay) and a new chunk is found at the    *)
(* positions of its chunk alone (LeafPut), hence that every command is a   *)
(* step of BlockMap or leaves it as it is.                                 *)
(***************************************************************************)
EXTENDS PlotStorage, FiniteSetTheorems, WellFoundedInduction, TLAPS

\* What an octree consists of: the number of buffers, what of one is given away, and the
\* value of an entry.
Nb(t) == Cardinality(DOMAIN t.ovt)
Bufs(t) == 0 .. Nb(t) - 1
Used(t, b) == t.ovt[b].used
Ent(t, b, i) == Entry(t.ovt[b], i)

\* What a buffer is: entries that are not 0 have been given away.
Buffer(o) ==
  /\ o = [nodes |-> o.nodes, used |-> o.used]
  /\ o.used \in 0 .. OVB_SIZE /\ DOMAIN o.nodes \subseteq 0 .. o.used - 1

\* What an octree is: a height and a table of buffers, numbered from 0.
Shape(t) ==
  /\ t = [log2 |-> t.log2, ovt |-> t.ovt] /\ t.log2 \in Nat
  /\ Nb(t) \in 1 .. OVT_SIZE
  /\ t.ovt = [o \in Bufs(t) |-> t.ovt[o]]
  /\ \A o \in Bufs(t) : Buffer(t.ovt[o])

\* The entries of a node of a level.
Span(l) == IF l = 1 THEN 8 * PtrEntries ELSE 8

\* The link of a node to a child, and the child.
Link(t, x, c) == Ent(t, x[2], x[3] + c)
Kid(t, x, c) ==
  IF Link(t, x, c) >= Msb THEN <<x[1] - 1, Link(t, x, c) - Msb, 0>>
  ELSE <<x[1] - 1, x[2], Link(t, x, c)>>
Linked(t, x, c) == x[1] > 1 /\ Link(t, x, c) # 0

Root(t) == <<t.log2, 0, 0>>

\* Where the pointers lie.
Places(t, N) ==
  IF t.log2 = 0 THEN {<<0, 0>>}
  ELSE {<<x[2], x[3] + PtrEntries * c>> : x \in {y \in N : y[1] = 1}, c \in 0 .. 7}

\* Each node lies within what its buffer has given away.
Inside(t, N) ==
  \A x \in N : /\ x[1] \in 1 .. t.log2 /\ x[2] \in Bufs(t) /\ x[3] \in Nat
               /\ x = <<x[1], x[2], x[3]>>
               /\ x[3] + Span(x[1]) <= Used(t, x[2])

\* No two nodes share an entry.
Apart(N) ==
  \A x, y \in N : x # y /\ x[2] = y[2] =>
    x[3] + Span(x[1]) <= y[3] \/ y[3] + Span(y[1]) <= x[3]

\* The root is the only node of the highest level; a tree that is a leaf has a pointer instead.
Rooted(t, N) ==
  /\ t.log2 > 0 => Root(t) \in N
  /\ t.log2 = 0 => Used(t, 0) >= PtrEntries
  /\ \A x \in N : x[1] = t.log2 => x = Root(t)

\* A link leads to a node, and each node but the root is at the end of one link.
Closed(t, N) == \A x \in N, c \in 0 .. 7 : Linked(t, x, c) => Kid(t, x, c) \in N
OneParent(t, N) ==
  /\ \A x, y \in N, c, d \in 0 .. 7 :
       Linked(t, x, c) /\ Linked(t, y, d) /\ Kid(t, x, c) = Kid(t, y, d) => x = y /\ c = d
  /\ \A y \in N : y # Root(t) => \E x \in N, c \in 0 .. 7 : Linked(t, x, c) /\ Kid(t, x, c) = y

\* The nodes of an octree form a tree within its buffers.
Well(t, N) == Inside(t, N) /\ Apart(N) /\ Rooted(t, N) /\ Closed(t, N) /\ OneParent(t, N)

\* Each of n chunks hangs on one pointer.
Ptr(t, q) == Pointer(t.ovt[q[1]], q[2])
Hung(t, N, n) ==
  /\ \A q \in Places(t, N) : Ptr(t, q) \in 0 .. n
  /\ \A c \in 1 .. n : \E q \in Places(t, N) : Ptr(t, q) = c
  /\ \A q, r \in Places(t, N) : Ptr(t, q) = Ptr(t, r) /\ Ptr(t, q) # 0 => q = r

\* An octree with n chunks.
TreeOf(t, n) == Shape(t) /\ \E N : Well(t, N) /\ Hung(t, N, n)

\* A chunk: a block at each offset.
Chunk == [Offsets -> 0 .. 255]

\* The inductive invariant.
IInv ==
  /\ size \in Sizes /\ tree.log2 = CountBits(size) /\ TreeOf(tree, Len(chunks))
  /\ chunks \in Seq(Chunk) /\ ret \in 0 .. 255 \union {NULL}

-----------------------------------------------------------------------------
(* Constants and numbers.                                                  *)

\* The constants are numbers.
LEMMA ConstantFacts ==
  /\ OVB_SIZE \in Nat /\ OVT_SIZE \in Nat /\ OVT_SIZE >= 1 /\ Msb \in Nat
  /\ 8 * PtrEntries <= OVB_SIZE /\ OVB_SIZE <= Msb
  /\ OvbLayers \in Nat /\ OvbLayers >= 1
  /\ PtrEntries \in Nat /\ PtrEntries >= 1 /\ EntryBytes \in Nat /\ EntryBytes >= 1
  BY SSVOAssumption

\* The empty set has one subset.
LEMMA PowerOfZero == 2 ^ 0 = 1
  <1>1. IsFiniteSet({}) /\ Cardinality({}) = 0
    BY FS_EmptySet
  <1>2. Cardinality(SUBSET {}) = 2 ^ 0
    BY <1>1, FS_SUBSET
  <1>3. SUBSET {} = {{}}
    OBVIOUS
  <1>4. Cardinality({{}}) = 1
    BY FS_Singleton
  <1> QED
    BY <1>2, <1>3, <1>4

\* A power of two is the number of subsets of a set, hence not 0.
LEMMA PowerOfTwo ==
  ASSUME NEW n \in Nat
  PROVE  2 ^ n \in Nat /\ 2 ^ n >= 1
  <1> DEFINE S == 1 .. n
  <1>1. IsFiniteSet(S) /\ Cardinality(S) = n
    BY FS_Interval
  <1> HIDE DEF S
  <1>2. IsFiniteSet(SUBSET S) /\ Cardinality(SUBSET S) = 2 ^ n
    BY <1>1, FS_SUBSET
  <1>3. Cardinality(SUBSET S) \in Nat /\ Cardinality(SUBSET S) # 0
    <2>1. SUBSET S # {}
      OBVIOUS
    <2> QED
      BY <1>2, <2>1, FS_CardinalityType, FS_EmptySet
  <1> QED
    BY <1>2, <1>3

\* A node has eight children, and a position lies in one of them.
LEMMA ChildIndexRange ==
  ASSUME NEW p \in [1 .. 3 -> Nat], NEW level \in Nat, level >= 1
  PROVE  ChildIndex(p, level) \in 0 .. 7
  <1>1. level - 1 \in Nat
    OBVIOUS
  <1> DEFINE w == 2 ^ (level - 1)
  <1>2. w \in Nat /\ w >= 1
    BY <1>1, PowerOfTwo
  <1> HIDE DEF w
  <1>3. \A v \in Nat : Bit(v, level - 1) \in 0 .. 1
    <2>1. \A v \in Nat : (v \div w) % 2 \in 0 .. 1
      BY <1>2
    <2> QED
      BY <2>1 DEF Bit, w
  <1>4. p[1] \in Nat /\ p[2] \in Nat /\ p[3] \in Nat
    OBVIOUS
  <1> QED
    BY <1>3, <1>4 DEF ChildIndex

\* The number of a leaf can be read from its pointer.
LEMMA Multiple ==
  ASSUME NEW a \in Nat
  PROVE  (a * PtrEntries) \div PtrEntries = a
  BY ConstantFacts

\* Children of one node begin PtrEntries entries apart.
LEMMA PtrApart ==
  ASSUME NEW c \in 0 .. 7
  PROVE  /\ PtrEntries * c \in Nat /\ PtrEntries * c + PtrEntries <= 8 * PtrEntries
         /\ \A d \in 0 .. 7 : d # c => \/ PtrEntries * c + PtrEntries <= PtrEntries * d
                                       \/ PtrEntries * d + PtrEntries <= PtrEntries * c
  <1>1. ASSUME NEW a \in Nat, NEW b \in Nat, a < b
        PROVE  PtrEntries * a + PtrEntries <= PtrEntries * b
    <2>1. PICK k \in Nat : b = a + 1 + k
      <3>1. b - a - 1 \in Nat /\ b = a + 1 + (b - a - 1)
        BY <1>1
      <3> QED
        BY <3>1
    <2>2. PtrEntries * (a + 1 + k) = PtrEntries * a + PtrEntries + PtrEntries * k
      BY ConstantFacts
    <2>3. PtrEntries * a \in Nat /\ PtrEntries * k \in Nat
      BY ConstantFacts
    <2> QED
      BY <2>1, <2>2, <2>3, ConstantFacts
  <1>2. PtrEntries * c \in Nat /\ PtrEntries * 8 = 8 * PtrEntries
    BY ConstantFacts
  <1>3. PtrEntries * c + PtrEntries <= PtrEntries * 8
    BY <1>1
  <1>4. ASSUME NEW d \in 0 .. 7, d # c
        PROVE  \/ PtrEntries * c + PtrEntries <= PtrEntries * d
               \/ PtrEntries * d + PtrEntries <= PtrEntries * c
    <2>1. c < d \/ d < c
      BY <1>4
    <2> QED
      BY <1>1, <2>1
  <1> QED
    BY <1>2, <1>3, <1>4

-----------------------------------------------------------------------------
(* What becomes of the buffers.                                            *)

\* A buffer that is replaced.
Replaced(t, b, o) == [log2 |-> t.log2, ovt |-> [t.ovt EXCEPT ![b] = o]]

\* Replacing a buffer changes no other, nor what an octree consists of.
LEMMA SetOvb ==
  ASSUME NEW t, Shape(t), NEW b \in Bufs(t), NEW o, Buffer(o)
  PROVE  LET u == Replaced(t, b, o)
         IN  /\ Shape(u) /\ u.log2 = t.log2 /\ Nb(u) = Nb(t) /\ Bufs(u) = Bufs(t)
             /\ u.ovt[b] = o /\ \A a \in Bufs(t) : a # b => u.ovt[a] = t.ovt[a]
  <1> DEFINE u == Replaced(t, b, o)
  <1>1. t.log2 \in Nat /\ t.ovt = [a \in Bufs(t) |-> t.ovt[a]] /\ Nb(t) \in 1 .. OVT_SIZE
        /\ \A a \in Bufs(t) : Buffer(t.ovt[a])
    BY DEF Shape
  <1>2. u.log2 = t.log2 /\ u.ovt = [t.ovt EXCEPT ![b] = o] /\ u = [log2 |-> u.log2, ovt |-> u.ovt]
    BY DEF Replaced
  <1> HIDE DEF u
  <1>3. DOMAIN t.ovt = Bufs(t)
    BY <1>1
  <1>4. u.ovt = [a \in Bufs(t) |-> IF a = b THEN o ELSE t.ovt[a]]
    BY <1>2, <1>3
  <1>5. DOMAIN u.ovt = DOMAIN t.ovt
    BY <1>3, <1>4
  <1>6. Nb(u) = Nb(t) /\ Bufs(u) = Bufs(t)
    BY <1>5 DEF Nb, Bufs
  <1>7. u.ovt = [a \in Bufs(u) |-> u.ovt[a]]
    BY <1>4, <1>6
  <1>8. \A a \in Bufs(u) : Buffer(u.ovt[a])
    BY <1>1, <1>4, <1>6
  <1>9. Shape(u)
    BY <1>1, <1>2, <1>6, <1>7, <1>8 DEF Shape
  <1> QED
    BY <1>2, <1>4, <1>6, <1>9 DEF u

\* Entries that are given away, but hold 0 still.
Given(t, b, k) == [t EXCEPT !.ovt[b].used = @ + k]

\* Giving entries away changes the value of none.
LEMMA GiveEntries ==
  ASSUME NEW t, Shape(t), NEW b \in Bufs(t), NEW k \in Nat, Used(t, b) + k <= OVB_SIZE,
         NEW u, u = Given(t, b, k)
  PROVE  /\ Shape(u) /\ u.log2 = t.log2 /\ Nb(u) = Nb(t) /\ Bufs(u) = Bufs(t)
         /\ \A a \in Bufs(t) : Used(u, a) = IF a = b THEN Used(t, a) + k ELSE Used(t, a)
         /\ \A a \in Bufs(t), i \in Nat : Ent(u, a, i) = Ent(t, a, i)
  <1> DEFINE v == t.ovt[b]
             o == [nodes |-> v.nodes, used |-> v.used + k]
  <1>1. Buffer(v) /\ t = [log2 |-> t.log2, ovt |-> t.ovt] /\ t.ovt = [a \in Bufs(t) |-> t.ovt[a]]
    BY DEF Shape
  <1>2. v = [nodes |-> v.nodes, used |-> v.used] /\ v.used \in 0 .. OVB_SIZE
        /\ DOMAIN v.nodes \subseteq 0 .. v.used - 1
    BY <1>1 DEF Buffer
  <1>3. Buffer(o)
    <2>1. v.used + k \in 0 .. OVB_SIZE
      BY <1>2, ConstantFacts DEF Used
    <2>2. DOMAIN v.nodes \subseteq 0 .. (v.used + k) - 1
      BY <1>2
    <2> QED
      BY <2>1, <2>2 DEF Buffer
  <1>4. [v EXCEPT !.used = @ + k] = o
    <2> HIDE DEF v
    <2> QED
      BY <1>2
  <1>5. u = Replaced(t, b, o)
    <2>1. u = [t EXCEPT !.ovt = [t.ovt EXCEPT ![b] = [v EXCEPT !.used = @ + k]]]
      BY <1>1 DEF Given
    <2> HIDE DEF o, v
    <2> QED
      BY <1>1, <1>4, <2>1 DEF Replaced
  <1> HIDE DEF o
  <1>6. /\ Shape(u) /\ u.log2 = t.log2 /\ Nb(u) = Nb(t) /\ Bufs(u) = Bufs(t)
        /\ u.ovt[b] = o /\ \A a \in Bufs(t) : a # b => u.ovt[a] = t.ovt[a]
    BY <1>3, <1>5, SetOvb
  <1>7. o.used = v.used + k /\ o.nodes = v.nodes
    BY DEF o
  <1>8. \A i \in Nat : Entry(o, i) = Entry(v, i)
    BY <1>7 DEF Entry
  <1> QED
    BY <1>6, <1>7, <1>8 DEF Used, Ent

\* Entries that are written.
WrittenTo(t, b, f) == [t EXCEPT !.ovt[b].nodes = Written(f, @)]

\* Writing entries that were given away changes those alone.
LEMMA WriteEntries ==
  ASSUME NEW t, Shape(t), NEW b \in Bufs(t), NEW f, DOMAIN f \subseteq 0 .. Used(t, b) - 1,
         NEW u, u = WrittenTo(t, b, f)
  PROVE  /\ Shape(u) /\ u.log2 = t.log2 /\ Nb(u) = Nb(t) /\ Bufs(u) = Bufs(t)
         /\ \A a \in Bufs(t) : Used(u, a) = Used(t, a)
         /\ \A a \in Bufs(t), i \in Nat :
              Ent(u, a, i) = IF a = b /\ i \in DOMAIN f THEN f[i] ELSE Ent(t, a, i)
  <1> DEFINE v == t.ovt[b]
             g == Written(f, v.nodes)
             o == [nodes |-> g, used |-> v.used]
  <1>1. Buffer(v) /\ t = [log2 |-> t.log2, ovt |-> t.ovt] /\ t.ovt = [a \in Bufs(t) |-> t.ovt[a]]
    BY DEF Shape
  <1>2. v = [nodes |-> v.nodes, used |-> v.used] /\ v.used \in 0 .. OVB_SIZE
        /\ DOMAIN v.nodes \subseteq 0 .. v.used - 1
    BY <1>1 DEF Buffer
  <1>3. /\ DOMAIN g = DOMAIN f \union DOMAIN v.nodes
        /\ \A i \in DOMAIN f \union DOMAIN v.nodes :
             g[i] = IF i \in DOMAIN f THEN f[i] ELSE v.nodes[i]
    BY DEF Written
  <1> HIDE DEF g
  <1>4. Buffer(o)
    BY <1>2, <1>3 DEF Buffer, Used
  <1>5. [v EXCEPT !.nodes = Written(f, @)] = o
    <2> HIDE DEF v
    <2> QED
      BY <1>2 DEF g
  <1>6. u = Replaced(t, b, o)
    <2>1. u = [t EXCEPT !.ovt = [t.ovt EXCEPT ![b] = [v EXCEPT !.nodes = Written(f, @)]]]
      BY <1>1 DEF WrittenTo
    <2> HIDE DEF o, v
    <2> QED
      BY <1>1, <1>5, <2>1 DEF Replaced
  <1> HIDE DEF o
  <1>7. /\ Shape(u) /\ u.log2 = t.log2 /\ Nb(u) = Nb(t) /\ Bufs(u) = Bufs(t)
        /\ u.ovt[b] = o /\ \A a \in Bufs(t) : a # b => u.ovt[a] = t.ovt[a]
    BY <1>4, <1>6, SetOvb
  <1>8. o.used = v.used /\ o.nodes = g
    BY DEF o
  <1>9. \A i \in Nat : Entry(o, i) = IF i \in DOMAIN f THEN f[i] ELSE Entry(v, i)
    BY <1>3, <1>8 DEF Entry
  <1> QED
    BY <1>7, <1>8, <1>9 DEF Used, Ent

\* A new buffer.
Opened(t, k) ==
  [t EXCEPT !.ovt = [a \in 0 .. Nb(t) |-> IF a = Nb(t) THEN NewOvb(k) ELSE t.ovt[a]]]

\* A new buffer leaves the others as they are, and its entries are 0.
LEMMA NewBuffer ==
  ASSUME NEW t, Shape(t), Nb(t) # OVT_SIZE, NEW k \in 0 .. OVB_SIZE,
         NEW u, u = Opened(t, k)
  PROVE  /\ Shape(u) /\ u.log2 = t.log2 /\ Nb(u) = Nb(t) + 1
         /\ Bufs(u) = Bufs(t) \union {Nb(t)} /\ Nb(t) \notin Bufs(t)
         /\ Used(u, Nb(t)) = k /\ \A i : Ent(u, Nb(t), i) = 0
         /\ \A a \in Bufs(t) : Used(u, a) = Used(t, a) /\ \A i : Ent(u, a, i) = Ent(t, a, i)
  <1> DEFINE n == Nb(t)
             o == NewOvb(k)
             B == 0 .. n
  <1>1. /\ t = [log2 |-> t.log2, ovt |-> t.ovt] /\ t.log2 \in Nat
        /\ t.ovt = [a \in Bufs(t) |-> t.ovt[a]] /\ DOMAIN t.ovt = Bufs(t)
        /\ n \in 1 .. OVT_SIZE /\ n \in Nat /\ n + 1 \in 1 .. OVT_SIZE
        /\ \A a \in Bufs(t) : Buffer(t.ovt[a])
    BY ConstantFacts DEF Shape
  <1>2. o = [nodes |-> <<>>, used |-> k]
    BY DEF NewOvb
  <1>3. Buffer(o) /\ o.used = k /\ \A i : Entry(o, i) = 0
    <2>1. DOMAIN <<>> = {}
      OBVIOUS
    <2> QED
      BY <1>2, <2>1, ConstantFacts DEF Buffer, Entry
  <1> HIDE DEF o
  <1>4. u = [log2 |-> t.log2, ovt |-> [a \in B |-> IF a = n THEN o ELSE t.ovt[a]]]
    BY <1>1 DEF o, Opened
  <1>5. B = Bufs(t) \union {n} /\ n \notin Bufs(t)
    <2> HIDE DEF n
    <2>1. Bufs(t) = 0 .. n - 1
      BY DEF Bufs, n
    <2> QED
      BY <1>1, <2>1
  <1>6. u.ovt = [a \in B |-> IF a = n THEN o ELSE t.ovt[a]]
    BY <1>4
  <1>7. Nb(u) = n + 1
    <2>1. DOMAIN u.ovt = 0 .. n
      BY <1>6
    <2>2. Cardinality(0 .. n) = n + 1
      <3>1. PICK m \in Nat : m = n
        BY <1>1
      <3>2. Cardinality(0 .. m) = m + 1
        BY FS_Interval
      <3> QED
        BY <3>1, <3>2
    <2> QED
      BY <2>1, <2>2 DEF Nb
  <1>8. Bufs(u) = B
    <2> HIDE DEF n
    <2>1. (n + 1) - 1 = n
      BY <1>1
    <2> QED
      BY <1>7, <2>1 DEF Bufs
  <1> HIDE DEF n, B
  <1>9. u.ovt[n] = o /\ \A a \in Bufs(t) : u.ovt[a] = t.ovt[a]
    BY <1>5, <1>6
  <1>10. Shape(u)
    <2>1. u = [log2 |-> u.log2, ovt |-> u.ovt] /\ u.log2 = t.log2
      BY <1>4
    <2>2. u.ovt = [a \in Bufs(u) |-> u.ovt[a]]
      BY <1>6, <1>8
    <2>3. \A a \in Bufs(u) : Buffer(u.ovt[a])
      BY <1>1, <1>3, <1>5, <1>8, <1>9
    <2> QED
      BY <1>1, <1>7, <2>1, <2>2, <2>3 DEF Shape
  <1> QED
    BY <1>3, <1>4, <1>5, <1>7, <1>8, <1>9, <1>10 DEF Used, Ent, n

-----------------------------------------------------------------------------
(* The tree of nodes.                                                      *)

\* What a node takes of its buffer.
LEMMA SpanFacts ==
  ASSUME NEW l \in Nat
  PROVE  Span(l) \in Nat /\ Span(l) >= 8 /\ (l # 1 => Span(l) = 8) /\ Span(1) = 8 * PtrEntries
  BY ConstantFacts DEF Span

\* A node lies in one buffer, its links too.
LEMMA NodeFacts ==
  ASSUME NEW t, NEW N, Shape(t), Well(t, N), NEW x \in N
  PROVE  /\ x = <<x[1], x[2], x[3]>>
         /\ t.log2 \in Nat /\ x[1] \in 1 .. t.log2 /\ x[2] \in Bufs(t) /\ x[3] \in Nat
         /\ Span(x[1]) \in Nat /\ Span(x[1]) >= 8 /\ x[3] + Span(x[1]) <= Used(t, x[2])
         /\ Used(t, x[2]) \in Nat
  <1>1. /\ x = <<x[1], x[2], x[3]>>
        /\ x[1] \in 1 .. t.log2 /\ x[2] \in Bufs(t) /\ x[3] \in Nat
        /\ x[3] + Span(x[1]) <= Used(t, x[2])
    BY DEF Well, Inside
  <1>2. t.log2 \in Nat
    BY DEF Shape
  <1>3. x[1] \in Nat
    BY <1>1, <1>2
  <1>4. Used(t, x[2]) \in Nat
    <2>1. Buffer(t.ovt[x[2]])
      BY <1>1 DEF Shape
    <2> QED
      BY <2>1, ConstantFacts DEF Buffer, Used
  <1> QED
    BY <1>1, <1>2, <1>3, <1>4, SpanFacts

\* Two links are two entries.
LEMMA LinksApart ==
  ASSUME NEW t, NEW N, Shape(t), Well(t, N), NEW x \in N, NEW y \in N,
         NEW c \in 0 .. 7, NEW d \in 0 .. 7, x[2] = y[2], x[3] + c = y[3] + d
  PROVE  x = y /\ c = d
  <1>1. x[3] \in Nat /\ y[3] \in Nat /\ Span(x[1]) \in Nat /\ Span(y[1]) \in Nat
        /\ Span(x[1]) >= 8 /\ Span(y[1]) >= 8
    BY NodeFacts
  <1>2. x = y
    <2> SUFFICES ASSUME x # y
                 PROVE  FALSE
      OBVIOUS
    <2>1. x[3] + Span(x[1]) <= y[3] \/ y[3] + Span(y[1]) <= x[3]
      BY DEF Well, Apart
    <2> QED
      BY <1>1, <2>1
  <1> QED
    BY <1>1, <1>2

\* The pointers of the leaf nodes lie where no link does, and apart from one another.
LEMMA PlaceFacts ==
  ASSUME NEW t, NEW N, Shape(t), Well(t, N), NEW q \in Places(t, N)
  PROVE  /\ q = <<q[1], q[2]>> /\ q[1] \in Bufs(t) /\ q[2] \in Nat
         /\ q[2] + PtrEntries <= Used(t, q[1]) /\ Used(t, q[1]) \in Nat
         /\ \A x \in N, d \in 0 .. 7 :
              x[1] > 1 /\ x[2] = q[1] => x[3] + d < q[2] \/ q[2] + PtrEntries <= x[3] + d
         /\ \A r \in Places(t, N) :
              r # q /\ r[1] = q[1] => r[2] + PtrEntries <= q[2] \/ q[2] + PtrEntries <= r[2]
  <1>1. CASE t.log2 = 0
    <2>1. Places(t, N) = {<<0, 0>>}
      BY <1>1 DEF Places
    <2>2. \A x \in N : FALSE
      BY <1>1 DEF Well, Inside
    <2>3. 0 \in Bufs(t) /\ Used(t, 0) \in Nat
      <3>1. Nb(t) \in Nat /\ Nb(t) >= 1
        BY ConstantFacts DEF Shape
      <3>2. 0 \in Bufs(t)
        BY <3>1 DEF Bufs
      <3>3. Buffer(t.ovt[0])
        BY <3>2 DEF Shape
      <3> QED
        BY <3>2, <3>3, ConstantFacts DEF Buffer, Used
    <2>4. Used(t, 0) >= PtrEntries
      BY <1>1 DEF Well, Rooted
    <2> QED
      BY <2>1, <2>2, <2>3, <2>4, ConstantFacts
  <1>2. CASE t.log2 # 0
    <2>1. \A r \in Places(t, N) : \E x \in N, c \in 0 .. 7 :
            x[1] = 1 /\ r = <<x[2], x[3] + PtrEntries * c>>
      BY <1>2 DEF Places
    <2>2. PICK x \in N, c \in 0 .. 7 : x[1] = 1 /\ q = <<x[2], x[3] + PtrEntries * c>>
      BY <2>1
    <2>3. PtrEntries * c \in Nat /\ PtrEntries * c + PtrEntries <= 8 * PtrEntries
          /\ PtrEntries \in Nat /\ PtrEntries >= 1
      BY PtrApart, ConstantFacts
    <2>4. /\ q[1] = x[2] /\ q[2] = x[3] + PtrEntries * c
          /\ x[2] \in Bufs(t) /\ x[3] \in Nat /\ Used(t, x[2]) \in Nat
          /\ x[3] + 8 * PtrEntries <= Used(t, x[2])
      BY <2>2, NodeFacts, SpanFacts
    <2>5. ASSUME NEW y \in N, NEW d \in 0 .. 7, y[1] > 1, y[2] = q[1]
          PROVE  y[3] + d < q[2] \/ q[2] + PtrEntries <= y[3] + d
      <3>1. y # x /\ y[2] = x[2]
        BY <2>2, <2>4, <2>5
      <3>2. x[3] + Span(x[1]) <= y[3] \/ y[3] + Span(y[1]) <= x[3]
        BY <3>1 DEF Well, Apart
      <3>3. Span(x[1]) = 8 * PtrEntries /\ y[3] \in Nat /\ Span(y[1]) \in Nat /\ Span(y[1]) >= 8
        BY <2>2, NodeFacts, SpanFacts
      <3> QED
        BY <2>3, <2>4, <3>2, <3>3
    <2>6. ASSUME NEW r \in Places(t, N), r # q, r[1] = q[1]
          PROVE  r[2] + PtrEntries <= q[2] \/ q[2] + PtrEntries <= r[2]
      <3>1. PICK y \in N, d \in 0 .. 7 : y[1] = 1 /\ r = <<y[2], y[3] + PtrEntries * d>>
        BY <2>1
      <3>2. PtrEntries * d \in Nat /\ PtrEntries * d + PtrEntries <= 8 * PtrEntries
        BY PtrApart
      <3>3. r[1] = y[2] /\ r[2] = y[3] + PtrEntries * d /\ y[3] \in Nat
        BY <3>1, NodeFacts
      <3>4. CASE y = x
        <4>1. d # c
          BY <2>2, <2>6, <3>1, <3>4
        <4>2. \/ PtrEntries * c + PtrEntries <= PtrEntries * d
              \/ PtrEntries * d + PtrEntries <= PtrEntries * c
          BY <4>1, PtrApart
        <4> QED
          BY <2>3, <2>4, <3>2, <3>3, <3>4, <4>2
      <3>5. CASE y # x
        <4>1. x[3] + Span(x[1]) <= y[3] \/ y[3] + Span(y[1]) <= x[3]
          BY <2>4, <2>6, <3>3, <3>5 DEF Well, Apart
        <4>2. Span(x[1]) = 8 * PtrEntries /\ Span(y[1]) = 8 * PtrEntries
          BY <2>2, <3>1, SpanFacts
        <4> QED
          BY <2>3, <2>4, <3>2, <3>3, <4>1, <4>2
      <3> QED
        BY <3>4, <3>5
    <2>7. q = <<q[1], q[2]>> /\ q[2] \in Nat /\ q[2] + PtrEntries <= Used(t, q[1])
      BY <2>2, <2>3, <2>4
    <2> QED
      BY <2>4, <2>5, <2>6, <2>7
  <1> QED
    BY <1>1, <1>2

\* What a pointer is read from.
LEMMA PtrRead ==
  ASSUME NEW t, NEW q
  PROVE  Ptr(t, q) = IF Ent(t, q[1], q[2]) = 0 THEN 0
                     ELSE (Ent(t, q[1], q[2]) - 2 * Msb) \div PtrEntries
  BY DEF Ptr, Pointer, Ent

\* More pointers, all of them NULL.
LEMMA HungKept ==
  ASSUME NEW t, NEW u, NEW N, NEW M, NEW n \in Nat, Hung(t, N, n),
         Places(t, N) \subseteq Places(u, M),
         \A q \in Places(u, M) : IF q \in Places(t, N) THEN Ptr(u, q) = Ptr(t, q)
                                 ELSE Ptr(u, q) = 0
  PROVE  Hung(u, M, n)
  <1>1. \A q \in Places(u, M) : Ptr(u, q) \in 0 .. n
    BY DEF Hung
  <1>2. \A c \in 1 .. n : \E q \in Places(u, M) : Ptr(u, q) = c
    BY DEF Hung
  <1>3. \A q, r \in Places(u, M) : Ptr(u, q) = Ptr(u, r) /\ Ptr(u, q) # 0 => q = r
    BY DEF Hung
  <1> QED
    BY <1>1, <1>2, <1>3 DEF Hung

\* The nodes, and a child of x.
Plus(N, x, b, k) == N \union {<<x[1] - 1, b, k>>}

\* A node that begins at k in buffer b, where nothing was given away, and that is child c
\* of x now.
Attached(t, u, x, c, b, k) ==
  /\ u.log2 = t.log2 /\ Bufs(t) \subseteq Bufs(u)
  /\ \A a \in Bufs(t) : Used(u, a) >= Used(t, a)
  /\ b \in Bufs(u) /\ k \in Nat /\ k + Span(x[1] - 1) <= Used(u, b)
  /\ b \in Bufs(t) => Used(t, b) <= k
  /\ Link(u, x, c) # 0 /\ Kid(u, x, c) = <<x[1] - 1, b, k>>
  /\ \A a \in Bufs(t), i \in Nat :
       (a = x[2] => i # x[3] + c) => Ent(u, a, i) = Ent(t, a, i)
  /\ \A i \in Nat : i >= k => Ent(u, b, i) = 0

\* A node that is linked from an empty slot, and lies where nothing was given away.
LEMMA AddNode ==
  ASSUME NEW t, NEW u, NEW N, NEW n \in Nat, Shape(t), Shape(u), Well(t, N), Hung(t, N, n),
         NEW x \in N, x[1] > 1, NEW c \in 0 .. 7, Link(t, x, c) = 0,
         NEW b, NEW k, Attached(t, u, x, c, b, k)
  PROVE  Well(u, Plus(N, x, b, k)) /\ Hung(u, Plus(N, x, b, k), n)
  <1> DEFINE y == <<x[1] - 1, b, k>>
             M == N \union {y}
  <1>1. /\ u.log2 = t.log2 /\ Bufs(t) \subseteq Bufs(u)
        /\ \A a \in Bufs(t) : Used(u, a) >= Used(t, a)
        /\ b \in Bufs(u) /\ k \in Nat /\ k + Span(x[1] - 1) <= Used(u, b)
        /\ b \in Bufs(t) => Used(t, b) <= k
        /\ Link(u, x, c) # 0 /\ Kid(u, x, c) = <<x[1] - 1, b, k>>
        /\ \A a \in Bufs(t), i \in Nat :
             (a = x[2] => i # x[3] + c) => Ent(u, a, i) = Ent(t, a, i)
        /\ \A i \in Nat : i >= k => Ent(u, b, i) = 0
    BY DEF Attached
  <1>2. /\ y[1] = x[1] - 1 /\ y[2] = b /\ y[3] = k
        /\ t.log2 \in Nat /\ t.log2 # 0 /\ x[1] \in 1 .. t.log2 /\ x[1] \in Nat
        /\ y[1] \in 1 .. t.log2 /\ y[1] # t.log2
        /\ Span(y[1]) \in Nat /\ Span(y[1]) >= 8
    <2>1. t.log2 \in Nat /\ x[1] \in 1 .. t.log2
      BY NodeFacts
    <2>2. x[1] - 1 \in 1 .. t.log2 /\ x[1] - 1 \in Nat /\ x[1] - 1 # t.log2 /\ t.log2 # 0
      BY <2>1
    <2> QED
      BY <2>1, <2>2, SpanFacts
  <1> HIDE DEF y
  <1> USE <1>1
  <1>3. \A z \in N : z[2] = y[2] => z[3] + Span(z[1]) <= y[3]
    <2> SUFFICES ASSUME NEW z \in N, z[2] = y[2]
                 PROVE  z[3] + Span(z[1]) <= y[3]
      OBVIOUS
    <2>1. /\ z[2] \in Bufs(t) /\ z[3] \in Nat /\ Span(z[1]) \in Nat
          /\ z[3] + Span(z[1]) <= Used(t, z[2]) /\ Used(t, z[2]) \in Nat
      BY NodeFacts
    <2>2. Used(t, b) <= k
      BY <1>2, <2>1
    <2> QED
      BY <1>2, <2>1, <2>2
  <1>4. y \notin N
    <2>1. \A z \in N : z[3] \in Nat /\ Span(z[1]) \in Nat /\ Span(z[1]) >= 8
      BY NodeFacts
    <2> QED
      BY <1>2, <1>3, <2>1
  <1>5. ASSUME NEW z \in N, NEW d \in 0 .. 7, ~(z = x /\ d = c)
        PROVE  Link(u, z, d) = Link(t, z, d)
    <2>1. z[2] \in Bufs(t) /\ z[3] + d \in Nat
      BY NodeFacts
    <2>2. z[2] = x[2] => z[3] + d # x[3] + c
      BY <1>5, LinksApart
    <2> QED
      BY <2>1, <2>2 DEF Link
  <1>6. \A d \in 0 .. 7 : Link(u, y, d) = 0
    <2>1. \A d \in 0 .. 7 : k + d \in Nat /\ k + d >= k
      OBVIOUS
    <2> QED
      BY <1>2, <2>1 DEF Link
  <1>7. \A z \in N, d \in 0 .. 7 : Linked(t, z, d) =>
          ~(z = x /\ d = c) /\ Linked(u, z, d) /\ Kid(u, z, d) = Kid(t, z, d)
    BY <1>5 DEF Linked, Kid
  <1>8. \A z \in M, d \in 0 .. 7 : Linked(u, z, d) =>
          \/ z \in N /\ Linked(t, z, d) /\ Kid(u, z, d) = Kid(t, z, d)
          \/ z = x /\ d = c
    BY <1>5, <1>6 DEF Linked, Kid
  <1>9. Linked(u, x, c) /\ Kid(u, x, c) = y
    BY DEF Linked, y
  <1>10. Inside(u, M)
    <2>1. ASSUME NEW z \in N
          PROVE  /\ z[1] \in 1 .. u.log2 /\ z[2] \in Bufs(u) /\ z[3] \in Nat
                 /\ z = <<z[1], z[2], z[3]>>
                 /\ z[3] + Span(z[1]) <= Used(u, z[2])
      <3>1. /\ z = <<z[1], z[2], z[3]>> /\ z[1] \in 1 .. t.log2
            /\ z[2] \in Bufs(t) /\ z[3] \in Nat /\ Span(z[1]) \in Nat
            /\ z[3] + Span(z[1]) <= Used(t, z[2]) /\ Used(t, z[2]) \in Nat
        BY NodeFacts
      <3>2. Used(u, z[2]) >= Used(t, z[2]) /\ Used(u, z[2]) \in Nat
        <4>1. Buffer(u.ovt[z[2]])
          BY <3>1 DEF Shape
        <4> QED
          BY <3>1, <4>1, ConstantFacts DEF Buffer, Used
      <3> QED
        BY <3>1, <3>2
    <2>2. /\ y[1] \in 1 .. u.log2 /\ y[2] \in Bufs(u) /\ y[3] \in Nat
          /\ y = <<y[1], y[2], y[3]>>
          /\ y[3] + Span(y[1]) <= Used(u, y[2])
      BY <1>2 DEF y
    <2> QED
      BY <2>1, <2>2 DEF Inside
  <1>11. Apart(M)
    BY <1>3 DEF Well, Apart
  <1>12. Rooted(u, M)
    BY <1>2 DEF Well, Rooted, Root
  <1>13. Closed(u, M)
    BY <1>8, <1>9 DEF Well, Closed
  <1>14. OneParent(u, M)
    <2>1. \A z \in N, d \in 0 .. 7 : Linked(t, z, d) => Kid(t, z, d) \in N
      BY DEF Well, Closed
    <2>2. ASSUME NEW v \in M, NEW w \in M, NEW d \in 0 .. 7, NEW e \in 0 .. 7,
                 Linked(u, v, d), Linked(u, w, e), Kid(u, v, d) = Kid(u, w, e)
          PROVE  v = w /\ d = e
      <3>1. CASE v = x /\ d = c
        BY <1>4, <1>8, <1>9, <2>1, <2>2, <3>1
      <3>2. CASE w = x /\ e = c
        BY <1>4, <1>8, <1>9, <2>1, <2>2, <3>2
      <3>3. CASE ~(v = x /\ d = c) /\ ~(w = x /\ e = c)
        <4>1. v \in N /\ w \in N /\ Linked(t, v, d) /\ Linked(t, w, e)
              /\ Kid(t, v, d) = Kid(t, w, e)
          BY <1>8, <2>2, <3>3
        <4> QED
          BY <4>1 DEF Well, OneParent
      <3> QED
        BY <3>1, <3>2, <3>3
    <2>3. ASSUME NEW z \in M, z # Root(u)
          PROVE  \E v \in M, d \in 0 .. 7 : Linked(u, v, d) /\ Kid(u, v, d) = z
      <3>1. CASE z = y
        BY <1>9, <3>1
      <3>2. CASE z \in N
        <4>1. z # Root(t)
          BY <2>3 DEF Root
        <4>2. PICK v \in N, d \in 0 .. 7 : Linked(t, v, d) /\ Kid(t, v, d) = z
          BY <3>2, <4>1 DEF Well, OneParent
        <4> QED
          BY <1>7, <4>2
      <3> QED
        BY <3>1, <3>2
    <2> QED
      BY <2>2, <2>3 DEF OneParent
  <1>15. Hung(u, M, n)
    <2>1. Places(t, N) \subseteq Places(u, M)
      BY <1>2 DEF Places
    <2>2. \A q \in Places(t, N) : Ptr(u, q) = Ptr(t, q)
      <3> SUFFICES ASSUME NEW q \in Places(t, N)
                   PROVE  Ptr(u, q) = Ptr(t, q)
        OBVIOUS
      <3>1. /\ q[1] \in Bufs(t) /\ q[2] \in Nat
            /\ x[2] = q[1] => x[3] + c < q[2] \/ q[2] + PtrEntries <= x[3] + c
        BY PlaceFacts
      <3>2. q[1] = x[2] => q[2] # x[3] + c
        BY <3>1, NodeFacts, ConstantFacts
      <3>3. Ent(u, q[1], q[2]) = Ent(t, q[1], q[2])
        BY <3>1, <3>2
      <3> QED
        BY <3>3, PtrRead
    <2>3. ASSUME NEW q \in Places(u, M), q \notin Places(t, N)
          PROVE  Ptr(u, q) = 0
      <3>1. PICK z \in M, d \in 0 .. 7 : z[1] = 1 /\ q = <<z[2], z[3] + PtrEntries * d>>
        BY <1>2 DEF Places
      <3>2. z = y
        BY <1>2, <2>3, <3>1 DEF Places
      <3>3. q[1] = b /\ q[2] = k + PtrEntries * d /\ PtrEntries * d \in Nat
        BY <1>2, <3>1, <3>2, PtrApart
      <3>4. Ent(u, q[1], q[2]) = 0
        BY <3>3
      <3> QED
        BY <3>4, PtrRead
    <2> HIDE DEF M
    <2> QED
      BY <2>1, <2>2, <2>3, HungKept
  <1> QED
    BY <1>10, <1>11, <1>12, <1>13, <1>14, <1>15 DEF Well, Plus, y

\* The entries of a pointer to a chunk that begins at i.
Entries(f, i, chunk) ==
  DOMAIN f = i .. i + PtrEntries - 1 /\ f[i] = PtrPart(chunk, 0)

\* The nodes have the same links in both trees.
SameLinks(t, u, N) == \A x \in N, c \in 0 .. 7 : x[1] > 1 => Link(u, x, c) = Link(t, x, c)

\* A pointer that was NULL and is set to the next chunk.
LEMMA SetPointer ==
  ASSUME NEW t, NEW N, NEW n \in Nat, Shape(t), Well(t, N), Hung(t, N, n),
         NEW q \in Places(t, N), Ptr(t, q) = 0,
         NEW f, Entries(f, q[2], n + 1),
         NEW u, u = WrittenTo(t, q[1], f)
  PROVE  /\ Shape(u) /\ u.log2 = t.log2 /\ Nb(u) = Nb(t)
         /\ Well(u, N) /\ Hung(u, N, n + 1)
         /\ SameLinks(t, u, N) /\ Ptr(u, q) = n + 1
         /\ \A r \in Places(t, N) : r # q => Ptr(u, r) = Ptr(t, r)
  <1>1. /\ q[1] \in Bufs(t) /\ q[2] \in Nat /\ q[2] + PtrEntries <= Used(t, q[1])
        /\ Used(t, q[1]) \in Nat /\ PtrEntries \in Nat /\ PtrEntries >= 1 /\ Msb \in Nat
    BY PlaceFacts, ConstantFacts
  <1>2. q[2] \in DOMAIN f /\ f[q[2]] = PtrPart(n + 1, 0)
    BY <1>1 DEF Entries
  <1>3. DOMAIN f \subseteq 0 .. Used(t, q[1]) - 1
    BY <1>1 DEF Entries
  <1>4. \A i \in Nat : i < q[2] \/ q[2] + PtrEntries <= i => i \notin DOMAIN f
    BY <1>1 DEF Entries
  <1>5. /\ Shape(u) /\ u.log2 = t.log2 /\ Nb(u) = Nb(t) /\ Bufs(u) = Bufs(t)
        /\ \A a \in Bufs(t) : Used(u, a) = Used(t, a)
        /\ \A a \in Bufs(t), i \in Nat :
             Ent(u, a, i) = IF a = q[1] /\ i \in DOMAIN f THEN f[i] ELSE Ent(t, a, i)
    BY <1>1, <1>3, WriteEntries
  <1>6. \A x \in N, c \in 0 .. 7 : x[1] > 1 => Link(u, x, c) = Link(t, x, c)
    <2> SUFFICES ASSUME NEW x \in N, NEW c \in 0 .. 7, x[1] > 1
                 PROVE  Link(u, x, c) = Link(t, x, c)
      OBVIOUS
    <2>1. /\ x[2] \in Bufs(t) /\ x[3] \in Nat /\ x[3] + c \in Nat
          /\ x[2] = q[1] => x[3] + c < q[2] \/ q[2] + PtrEntries <= x[3] + c
      <3>1. x[2] \in Bufs(t) /\ x[3] \in Nat
        BY NodeFacts
      <3>2. x[2] = q[1] => x[3] + c < q[2] \/ q[2] + PtrEntries <= x[3] + c
        BY PlaceFacts
      <3> QED
        BY <3>1, <3>2
    <2>2. x[2] = q[1] => x[3] + c \notin DOMAIN f
      BY <1>4, <2>1
    <2> QED
      BY <1>5, <2>1, <2>2 DEF Link
  <1>7. \A x \in N, c \in 0 .. 7 :
          /\ Linked(u, x, c) <=> Linked(t, x, c)
          /\ Linked(t, x, c) => Kid(u, x, c) = Kid(t, x, c)
    BY <1>6 DEF Linked, Kid
  <1>8. Root(u) = Root(t)
    BY <1>5 DEF Root
  <1>9. Well(u, N)
    <2>1. Inside(u, N) /\ Apart(N)
      BY <1>5 DEF Well, Inside
    <2>2. Rooted(u, N)
      <3>1. 0 \in Bufs(t)
        <4>1. Nb(t) \in Nat /\ Nb(t) >= 1
          BY ConstantFacts DEF Shape
        <4> QED
          BY <4>1 DEF Bufs
      <3> QED
        BY <1>5, <1>8, <3>1 DEF Well, Rooted
    <2>3. Closed(u, N)
      BY <1>7 DEF Well, Closed
    <2>4. OneParent(u, N)
      BY <1>7, <1>8 DEF Well, OneParent
    <2> QED
      BY <2>1, <2>2, <2>3, <2>4 DEF Well
  <1>10. Places(u, N) = Places(t, N)
    BY <1>5 DEF Places
  <1>11. Ptr(u, q) = n + 1
    <2>1. Ent(u, q[1], q[2]) = PtrPart(n + 1, 0)
      BY <1>1, <1>2, <1>5
    <2>2. /\ (n + 1) * PtrEntries \in Nat /\ (n + 1) * PtrEntries >= 1
          /\ ((n + 1) * PtrEntries) \div PtrEntries = n + 1
      <3>1. ((n + 1) * PtrEntries) \div PtrEntries = n + 1
        BY Multiple
      <3>2. (n + 1) * PtrEntries = n * PtrEntries + PtrEntries /\ n * PtrEntries \in Nat
        BY <1>1
      <3> QED
        BY <1>1, <3>1, <3>2
    <2> DEFINE w == (n + 1) * PtrEntries
    <2>3. PtrPart(n + 1, 0) = 2 * Msb + w
      BY <1>1, <2>2 DEF PtrPart
    <2> HIDE DEF w
    <2>4. PtrPart(n + 1, 0) # 0 /\ PtrPart(n + 1, 0) - 2 * Msb = w
      BY <1>1, <2>2, <2>3 DEF w
    <2> QED
      BY <2>1, <2>2, <2>4, PtrRead DEF w
  <1>12. \A r \in Places(t, N) : r # q => Ptr(u, r) = Ptr(t, r)
    <2> SUFFICES ASSUME NEW r \in Places(t, N), r # q
                 PROVE  Ptr(u, r) = Ptr(t, r)
      OBVIOUS
    <2>1. /\ r[1] \in Bufs(t) /\ r[2] \in Nat
          /\ r[1] = q[1] => r[2] + PtrEntries <= q[2] \/ q[2] + PtrEntries <= r[2]
      BY PlaceFacts
    <2>2. r[1] = q[1] => r[2] < q[2] \/ q[2] + PtrEntries <= r[2]
      BY <1>1, <2>1
    <2>3. r[1] = q[1] => r[2] \notin DOMAIN f
      BY <1>4, <2>1, <2>2
    <2>4. Ent(u, r[1], r[2]) = Ent(t, r[1], r[2])
      BY <1>5, <2>1, <2>3
    <2> QED
      BY <2>4, PtrRead
  <1>13. Hung(u, N, n + 1)
    <2>1. \A r \in Places(t, N) : Ptr(t, r) \in 0 .. n
      BY DEF Hung
    <2>2. \A r \in Places(t, N) : Ptr(u, r) \in 0 .. n + 1
      BY <1>11, <1>12, <2>1
    <2>3. ASSUME NEW c \in 1 .. n + 1
          PROVE  \E r \in Places(t, N) : Ptr(u, r) = c
      <3>1. CASE c = n + 1
        BY <1>11, <3>1
      <3>2. CASE c # n + 1
        <4>1. c \in 1 .. n
          BY <3>2
        <4>2. PICK r \in Places(t, N) : Ptr(t, r) = c
          BY <4>1 DEF Hung
        <4> QED
          BY <1>12, <4>1, <4>2
      <3> QED
        BY <3>1, <3>2
    <2>4. ASSUME NEW r \in Places(t, N), NEW s \in Places(t, N),
                 Ptr(u, r) = Ptr(u, s), Ptr(u, r) # 0
          PROVE  r = s
      <3>1. CASE r # q /\ s # q
        BY <1>12, <2>4, <3>1 DEF Hung
      <3>2. CASE ~(r # q /\ s # q)
        BY <1>11, <1>12, <2>1, <2>4, <3>2
      <3> QED
        BY <3>1, <3>2
    <2> QED
      BY <1>10, <2>2, <2>3, <2>4 DEF Hung
  <1>14. SameLinks(t, u, N)
    BY <1>6 DEF SameLinks
  <1> QED
    BY <1>5, <1>9, <1>11, <1>12, <1>13, <1>14

-----------------------------------------------------------------------------
(* The way to a leaf.                                                      *)

\* The traversal has come to a node of level l of a tree of that depth with n chunks, or
\* it has found no room for one.
Came(at, l, depth, n) ==
  /\ at = Place(at.tree, at.ovb, at.node)
  /\ Shape(at.tree) /\ at.tree.log2 = depth
  /\ \E N : /\ Well(at.tree, N) /\ Hung(at.tree, N, n)
            /\ at.node # 0 => <<l, Follow(at).ovb, Follow(at).node>> \in N

\* Entries that were written keep their values.
Keeps(t, u) ==
  /\ Bufs(t) \subseteq Bufs(u)
  /\ \A b \in Bufs(t), i \in Nat : Ent(t, b, i) # 0 => Ent(u, b, i) = Ent(t, b, i)

\* A step of the traversal from a node, through the link at entry i: nothing else is
\* written, and nothing at all when the table is full.
Walked(at, d, i) ==
  /\ d.ovb = at.ovb /\ Keeps(at.tree, d.tree)
  /\ IF d.node = 0 THEN d.tree = at.tree /\ Nb(d.tree) = OVT_SIZE
     ELSE Ent(d.tree, at.ovb, i) = d.node

\* The first entry that is not given away lies behind every node of its buffer.
LEMMA FreeEntries ==
  ASSUME NEW t, Shape(t), NEW b \in Bufs(t)
  PROVE  Used(t, b) \in 0 .. OVB_SIZE /\ \A i \in Nat : i >= Used(t, b) => Ent(t, b, i) = 0
  <1>1. Buffer(t.ovt[b])
    BY DEF Shape
  <1>2. t.ovt[b].used \in 0 .. OVB_SIZE /\ DOMAIN t.ovt[b].nodes \subseteq 0 .. t.ovt[b].used - 1
    BY <1>1 DEF Buffer
  <1>3. \A i \in Nat : i >= t.ovt[b].used => i \notin DOMAIN t.ovt[b].nodes
    BY <1>2, ConstantFacts
  <1> QED
    BY <1>2, <1>3 DEF Used, Ent, Entry

\* There is room for a child in the buffer of its parent.
ChildFits(t, x) == Used(t, x[2]) + Span(x[1] - 1) < OVB_SIZE

\* A tree of which child c of node x is new, and the link that leads there.
Grown(t, u, N, n, x, c, link) ==
  /\ Shape(u) /\ u.log2 = t.log2 /\ Keeps(t, u) /\ Link(u, x, c) = link
  /\ Well(u, N \union {Kid(u, x, c)}) /\ Hung(u, N \union {Kid(u, x, c)}, n)

\* A link that is written at entry i.
LinkTo(f, i, link) == DOMAIN f = {i} /\ f[i] = link

\* A new child in the buffer of its parent.
LEMMA ChildInside ==
  ASSUME NEW t, NEW N, NEW n \in Nat, Shape(t), Well(t, N), Hung(t, N, n),
         NEW x \in N, x[1] > 1, NEW c \in 0 .. 7, Link(t, x, c) = 0,
         ChildFits(t, x),
         NEW s, s = Given(t, x[2], Span(x[1] - 1)),
         NEW f, LinkTo(f, x[3] + c, Used(t, x[2])),
         NEW u, u = WrittenTo(s, x[2], f)
  PROVE  /\ Used(t, x[2]) \in Nat /\ Used(t, x[2]) # 0 /\ Used(t, x[2]) < Msb
         /\ Grown(t, u, N, n, x, c, Used(t, x[2]))
  <1> DEFINE k == Used(t, x[2])
             m == Span(x[1] - 1)
  <1>1. /\ x[1] \in Nat /\ x[2] \in Bufs(t) /\ x[3] \in Nat /\ x[3] + c \in Nat
        /\ x[3] + c < k /\ k \in Nat /\ k # 0
    BY NodeFacts
  <1>2. m \in Nat /\ m >= 8
    <2>1. x[1] - 1 \in Nat
      BY <1>1
    <2> QED
      BY <2>1, SpanFacts
  <1> HIDE DEF k, m
  <1>3. k + m <= OVB_SIZE /\ k < Msb /\ OVB_SIZE \in Nat
    BY <1>1, <1>2, ConstantFacts DEF k, m, ChildFits
  <1>4. /\ Shape(s) /\ s.log2 = t.log2 /\ Bufs(s) = Bufs(t)
        /\ \A a \in Bufs(t) : Used(s, a) = IF a = x[2] THEN Used(t, a) + m ELSE Used(t, a)
        /\ \A a \in Bufs(t), i \in Nat : Ent(s, a, i) = Ent(t, a, i)
    BY <1>1, <1>2, <1>3, GiveEntries DEF k, m
  <1>5. Used(s, x[2]) = k + m
    BY <1>1, <1>4 DEF k
  <1>6. DOMAIN f = {x[3] + c} /\ f[x[3] + c] = k
    BY DEF k, LinkTo
  <1>7. x[2] \in Bufs(s) /\ DOMAIN f \subseteq 0 .. Used(s, x[2]) - 1
    BY <1>1, <1>2, <1>4, <1>5, <1>6
  <1>8. /\ Shape(u) /\ u.log2 = s.log2 /\ Bufs(u) = Bufs(s)
        /\ \A a \in Bufs(s) : Used(u, a) = Used(s, a)
        /\ \A a \in Bufs(s), i \in Nat :
             Ent(u, a, i) = IF a = x[2] /\ i \in DOMAIN f THEN f[i] ELSE Ent(s, a, i)
    BY <1>4, <1>7, WriteEntries
  <1>9. Link(u, x, c) = k
    BY <1>1, <1>4, <1>6, <1>8 DEF Link
  <1>10. Kid(u, x, c) = <<x[1] - 1, x[2], k>> /\ Link(u, x, c) # 0
    BY <1>1, <1>3, <1>9, ConstantFacts DEF Kid
  <1>11. \A a \in Bufs(t) : Used(u, a) >= Used(t, a)
    <2>1. \A a \in Bufs(t) : Used(t, a) \in Nat
      BY FreeEntries, ConstantFacts
    <2> QED
      BY <1>2, <1>4, <1>8, <2>1
  <1>12. k + Span(x[1] - 1) <= Used(u, x[2])
    BY <1>1, <1>2, <1>4, <1>5, <1>8 DEF m
  <1>13. \A a \in Bufs(t), i \in Nat :
           (a = x[2] => i # x[3] + c) => Ent(u, a, i) = Ent(t, a, i)
    BY <1>4, <1>6, <1>8
  <1>14. \A i \in Nat : i >= k => Ent(u, x[2], i) = 0
    <2>1. \A i \in Nat : i >= k => Ent(t, x[2], i) = 0
      BY <1>1, FreeEntries DEF k
    <2>2. \A i \in Nat : i >= k => i # x[3] + c
      BY <1>1
    <2> QED
      BY <1>1, <1>13, <2>1, <2>2
  <1>15. Shape(u) /\ u.log2 = t.log2 /\ Bufs(t) \subseteq Bufs(u) /\ x[2] \in Bufs(u)
         /\ (x[2] \in Bufs(t) => Used(t, x[2]) <= k)
    BY <1>1, <1>4, <1>8 DEF k
  <1> DEFINE M == Plus(N, x, x[2], k)
  <1>16. Attached(t, u, x, c, x[2], k)
    BY <1>1, <1>10, <1>11, <1>12, <1>13, <1>14, <1>15 DEF Attached
  <1>17. Well(u, M) /\ Hung(u, M, n)
    BY <1>15, <1>16, AddNode
  <1>18. Keeps(t, u)
    BY <1>13, <1>15 DEF Keeps, Link
  <1>19. M = N \union {Kid(u, x, c)}
    BY <1>10 DEF Plus
  <1> HIDE DEF M
  <1>20. Grown(t, u, N, n, x, c, k)
    BY <1>9, <1>15, <1>17, <1>18, <1>19 DEF Grown
  <1> QED
    BY <1>1, <1>3, <1>20 DEF k

\* A new child in a new buffer.
LEMMA ChildOutside ==
  ASSUME NEW t, NEW N, NEW n \in Nat, Shape(t), Well(t, N), Hung(t, N, n), Nb(t) # OVT_SIZE,
         NEW x \in N, x[1] > 1, NEW c \in 0 .. 7, Link(t, x, c) = 0,
         NEW s, s = Opened(t, Span(x[1] - 1)),
         NEW f, LinkTo(f, x[3] + c, Msb + Nb(t)),
         NEW u, u = WrittenTo(s, x[2], f)
  PROVE  Nb(t) \in Nat /\ Nb(t) # 0 /\ Grown(t, u, N, n, x, c, Msb + Nb(t))
  <1> DEFINE b == Nb(t)
             m == Span(x[1] - 1)
  <1>1. /\ x[1] \in Nat /\ x[2] \in Bufs(t) /\ x[3] \in Nat /\ x[3] + c \in Nat
        /\ x[3] + c < Used(t, x[2]) /\ Used(t, x[2]) \in Nat
    BY NodeFacts
  <1>2. m \in Nat /\ m \in 0 .. OVB_SIZE
    <2>1. x[1] - 1 \in Nat
      BY <1>1
    <2> QED
      BY <2>1, ConstantFacts DEF Span
  <1>3. b \in Nat /\ b # 0
    BY ConstantFacts DEF Shape
  <1> HIDE DEF b, m
  <1>4. /\ Shape(s) /\ s.log2 = t.log2 /\ Bufs(s) = Bufs(t) \union {b} /\ b \notin Bufs(t)
        /\ Used(s, b) = m /\ \A i : Ent(s, b, i) = 0
        /\ \A a \in Bufs(t) : Used(s, a) = Used(t, a) /\ \A i : Ent(s, a, i) = Ent(t, a, i)
    BY <1>2, NewBuffer DEF b, m
  <1>5. DOMAIN f = {x[3] + c} /\ f[x[3] + c] = Msb + b
    BY DEF b, LinkTo
  <1>6. x[2] \in Bufs(s) /\ DOMAIN f \subseteq 0 .. Used(s, x[2]) - 1
    BY <1>1, <1>4, <1>5
  <1>7. /\ Shape(u) /\ u.log2 = s.log2 /\ Bufs(u) = Bufs(s)
        /\ \A a \in Bufs(s) : Used(u, a) = Used(s, a)
        /\ \A a \in Bufs(s), i \in Nat :
             Ent(u, a, i) = IF a = x[2] /\ i \in DOMAIN f THEN f[i] ELSE Ent(s, a, i)
    BY <1>4, <1>6, WriteEntries
  <1>8. Link(u, x, c) = Msb + b
    BY <1>1, <1>4, <1>5, <1>7 DEF Link
  <1>9. Kid(u, x, c) = <<x[1] - 1, b, 0>> /\ Link(u, x, c) # 0
    <2>1. Msb + b >= Msb /\ (Msb + b) - Msb = b /\ Msb + b # 0
      BY <1>3, ConstantFacts
    <2> QED
      BY <1>8, <2>1 DEF Kid
  <1>10. \A a \in Bufs(t) : Used(u, a) >= Used(t, a)
    <2>1. \A a \in Bufs(t) : Used(t, a) \in Nat
      BY FreeEntries, ConstantFacts
    <2> QED
      BY <1>4, <1>7, <2>1
  <1>11. 0 + Span(x[1] - 1) <= Used(u, b)
    BY <1>2, <1>4, <1>7 DEF m
  <1>12. \A a \in Bufs(t), i \in Nat :
           (a = x[2] => i # x[3] + c) => Ent(u, a, i) = Ent(t, a, i)
    BY <1>4, <1>5, <1>7
  <1>13. \A i \in Nat : i >= 0 => Ent(u, b, i) = 0
    BY <1>1, <1>4, <1>7
  <1>14. Shape(u) /\ u.log2 = t.log2 /\ Bufs(t) \subseteq Bufs(u) /\ b \in Bufs(u)
         /\ (b \in Bufs(t) => Used(t, b) <= 0)
    BY <1>4, <1>7
  <1> DEFINE M == Plus(N, x, b, 0)
  <1>15. Attached(t, u, x, c, b, 0)
    BY <1>9, <1>10, <1>11, <1>12, <1>13, <1>14 DEF Attached
  <1>16. Well(u, M) /\ Hung(u, M, n)
    BY <1>14, <1>15, AddNode
  <1>17. Keeps(t, u)
    BY <1>12, <1>14 DEF Keeps, Link
  <1>18. M = N \union {Kid(u, x, c)}
    BY <1>9 DEF Plus
  <1> HIDE DEF M
  <1>19. Grown(t, u, N, n, x, c, Msb + b)
    BY <1>8, <1>14, <1>16, <1>17, <1>18 DEF Grown
  <1> QED
    BY <1>3, <1>19 DEF b

\* A link's Msb tells whether it is an index or a buffer's number.
LEMMA FollowFacts ==
  ASSUME NEW at, at = Place(at.tree, at.ovb, at.node)
  PROVE  LET f == Follow(at)
         IN  /\ f = Place(f.tree, f.ovb, f.node) /\ f.tree = at.tree
             /\ f.ovb = IF at.node >= Msb THEN at.node - Msb ELSE at.ovb
             /\ f.node = IF at.node >= Msb THEN 0 ELSE at.node
  BY DEF Follow, Place

\* Writing a link leaves the place where it is.
LEMMA WrittenPlace ==
  ASSUME NEW s, NEW b, NEW c, NEW k, NEW f
  PROVE  [Place(s, c, k) EXCEPT !.tree.ovt[b].nodes = Written(f, @)] = Place(WrittenTo(s, b, f), c, k)
  BY DEF Place, WrittenTo

\* A node's entries, and that a buffer with room for them has them left.
LEMMA RoomFacts ==
  ASSUME NEW l \in Nat, l > 1
  PROVE  /\ NodeEntries(l = 2) = Span(l - 1)
         /\ \A o : o.used \in Nat /\ HasRoom(o, l = 2) => o.used + Span(l - 1) < OVB_SIZE
  <1> DEFINE m == Span(l - 1)
  <1>1. NodeEntries(l = 2) = m
    <2>1. l = 2 <=> l - 1 = 1
      OBVIOUS
    <2> QED
      BY <2>1 DEF NodeEntries, Span
  <1>2. m \in Nat
    <2>1. l - 1 \in Nat
      OBVIOUS
    <2> QED
      BY <2>1, SpanFacts
  <1> HIDE DEF m
  <1>3. EntryBytes * m \in Nat /\ EntryBytes * m >= m
    <2>1. PICK e \in Nat : EntryBytes = e + 1
      <3>1. EntryBytes - 1 \in Nat /\ EntryBytes = (EntryBytes - 1) + 1
        BY ConstantFacts
      <3> QED
        BY <3>1
    <2>2. (e + 1) * m = e * m + m /\ e * m \in Nat
      BY <1>2
    <2> QED
      BY <1>2, <2>1, <2>2
  <1> DEFINE w == EntryBytes * m
  <1>4. \A o : HasRoom(o, l = 2) <=> o.used < OVB_SIZE - w
    BY <1>1 DEF HasRoom
  <1> HIDE DEF w
  <1>5. w \in Nat /\ w >= m
    BY <1>3 DEF w
  <1>6. \A o : o.used \in Nat /\ HasRoom(o, l = 2) => o.used + m < OVB_SIZE
    BY <1>2, <1>4, <1>5, ConstantFacts
  <1> QED
    BY <1>1, <1>6 DEF m

\* One round of the loop comes to a node of the level below.
LEMMA DescendStep ==
  ASSUME NEW at, at = Place(at.tree, at.ovb, at.node), NEW n \in Nat, NEW N,
         Shape(at.tree), Well(at.tree, N), Hung(at.tree, N, n),
         NEW l \in Nat, l > 1, <<l, at.ovb, at.node>> \in N, NEW p \in [1 .. 3 -> Nat]
  PROVE  /\ Came(Descend(at, l, p), l - 1, at.tree.log2, n)
         /\ Walked(at, Descend(at, l, p), at.node + ChildIndex(p, l))
  <1> DEFINE t == at.tree
             x == <<l, at.ovb, at.node>>
             c == ChildIndex(p, l)
             next == Link(t, x, c)
             new == NewChild(at, l)
             f == [i \in {at.node + c} |-> new.node]
             d == Descend(at, l, p)
  <1>1. x \in N /\ x[1] = l /\ x[2] = at.ovb /\ x[3] = at.node /\ c \in 0 .. 7
    BY ChildIndexRange
  <1>2. next = Entry(t.ovt[at.ovb], at.node + c)
    BY <1>1 DEF Link, Ent
  <1>3. d = IF next # 0 THEN Place(t, at.ovb, next)
            ELSE IF new.node = 0 THEN new
            ELSE [new EXCEPT !.tree.ovt[at.ovb].nodes = Written(f, @)]
    BY <1>2 DEF Descend
  <1>4. x[2] \in Bufs(t) /\ Used(t, x[2]) \in Nat
    BY <1>1, NodeFacts
  <1>5. DOMAIN f = {x[3] + c} /\ f[x[3] + c] = new.node
    BY <1>1
  <1> SUFFICES /\ Came(d, l - 1, at.tree.log2, n)
               /\ Walked(at, d, at.node + c)
    OBVIOUS
  <1> HIDE DEF t, x, c, next, new, f, d
  <1>6. Shape(t) /\ Well(t, N) /\ Hung(t, N, n)
    BY DEF t
  <1>7. ASSUME NEW u, NEW M, NEW k, Shape(u), u.log2 = t.log2, Well(u, M), Hung(u, M, n),
                Keeps(t, u), k # 0, Link(u, x, c) = k, Kid(u, x, c) \in M, d = Place(u, at.ovb, k)
         PROVE  /\ Came(d, l - 1, at.tree.log2, n)
                /\ Walked(at, d, at.node + c)
    <2>1. d = Place(d.tree, d.ovb, d.node) /\ d.tree = u /\ d.ovb = at.ovb /\ d.node = k
      BY <1>7 DEF Place
    <2>2. Kid(u, x, c) = IF k >= Msb THEN <<l - 1, k - Msb, 0>> ELSE <<l - 1, at.ovb, k>>
      BY <1>1, <1>7 DEF Kid
    <2>3. Kid(u, x, c) = <<l - 1, Follow(d).ovb, Follow(d).node>>
      BY <2>1, <2>2, FollowFacts
    <2>4. Came(d, l - 1, at.tree.log2, n)
      BY <1>7, <2>1, <2>3 DEF Came, t
    <2>5. Walked(at, d, at.node + c)
      BY <1>1, <1>7, <2>1 DEF Walked, Link, t
    <2> QED
      BY <2>4, <2>5
  <1>8. Keeps(t, t)
    BY DEF Keeps
  <1>9. ASSUME NEW u, NEW k, k # 0, Grown(t, u, N, n, x, c, k), d = Place(u, at.ovb, k)
         PROVE  /\ Came(d, l - 1, at.tree.log2, n)
                /\ Walked(at, d, at.node + c)
    BY <1>7, <1>9 DEF Grown
  <1>10. CASE next # 0
    <2>1. d = Place(t, at.ovb, next)
      BY <1>3, <1>10
    <2>2. Linked(t, x, c) /\ Link(t, x, c) = next
      BY <1>1, <1>10 DEF Linked, next
    <2>3. Kid(t, x, c) \in N
      BY <1>1, <1>6, <2>2 DEF Well, Closed
    <2> QED
      BY <1>6, <1>10, <1>7, <1>8, <2>1, <2>2, <2>3
  <1>11. CASE next = 0 /\ l % OvbLayers # 0 /\ HasRoom(t.ovt[at.ovb], l = 2)
    <2> DEFINE s == Given(t, x[2], Span(x[1] - 1))
               k == Used(t, x[2])
               u == WrittenTo(s, x[2], f)
    <2>1. new = Place(s, x[2], k)
      BY <1>1, <1>11, RoomFacts DEF new, NewChild, AllocNode, Given, Used, t
    <2>2. ChildFits(t, x) /\ x[1] > 1
      BY <1>1, <1>4, <1>11, RoomFacts DEF Used, ChildFits
    <2>3. Link(t, x, c) = 0 /\ LinkTo(f, x[3] + c, k)
      BY <1>5, <1>11, <2>1 DEF next, Place, LinkTo
    <2>4. k \in Nat /\ k # 0 /\ k < Msb /\ Grown(t, u, N, n, x, c, k)
      BY <1>1, <1>6, <2>2, <2>3, ChildInside
    <2> HIDE DEF k, s
    <2>5. d = Place(u, x[2], k)
      <3>1. new.node = k
        BY <2>1 DEF Place
      <3>2. d = [new EXCEPT !.tree.ovt[x[2]].nodes = Written(f, @)]
        BY <1>1, <1>3, <1>11, <2>4, <3>1
      <3> QED
        BY <2>1, <3>2, WrittenPlace, SMTT(30)
    <2> HIDE DEF u
    <2> QED
      BY <1>1, <1>9, <2>4, <2>5
  <1>12. CASE next = 0 /\ ~(l % OvbLayers # 0 /\ HasRoom(t.ovt[at.ovb], l = 2)) /\ Nb(t) = OVT_SIZE
    <2>1. new = Place(t, at.ovb, 0)
      BY <1>12 DEF new, NewChild, AllocOvb, Nb, t
    <2>2. d = Place(t, at.ovb, 0)
      BY <1>3, <1>12, <2>1 DEF Place
    <2>3. d = Place(d.tree, d.ovb, d.node) /\ d.tree = t /\ d.ovb = at.ovb /\ d.node = 0
      BY <2>2 DEF Place
    <2>4. Came(d, l - 1, at.tree.log2, n)
      BY <1>6, <2>3 DEF Came, t
    <2>5. Walked(at, d, at.node + c)
      BY <1>8, <1>12, <2>3 DEF Walked, t
    <2> QED
      BY <2>4, <2>5
  <1>13. CASE next = 0 /\ ~(l % OvbLayers # 0 /\ HasRoom(t.ovt[at.ovb], l = 2)) /\ Nb(t) # OVT_SIZE
    <2> DEFINE s == Opened(t, Span(x[1] - 1))
               b == Nb(t)
               u == WrittenTo(s, x[2], f)
    <2>1. new = Place(s, x[2], Msb + b)
      BY <1>1, <1>13, RoomFacts DEF new, NewChild, AllocOvb, Opened, Nb, t
    <2>2. Link(t, x, c) = 0 /\ LinkTo(f, x[3] + c, Msb + b)
      BY <1>5, <1>13, <2>1 DEF next, Place, LinkTo
    <2>3. b \in Nat /\ b # 0 /\ Grown(t, u, N, n, x, c, Msb + b)
      BY <1>1, <1>6, <1>13, <2>2, ChildOutside
    <2> HIDE DEF b, s
    <2>4. Msb + b # 0
      BY <2>3, ConstantFacts
    <2>5. d = Place(u, x[2], Msb + b)
      <3>1. new.node = Msb + b
        BY <2>1 DEF Place
      <3>2. d = [new EXCEPT !.tree.ovt[x[2]].nodes = Written(f, @)]
        BY <1>1, <1>3, <1>13, <2>4, <3>1
      <3> QED
        BY <2>1, <3>2, WrittenPlace, SMTT(30)
    <2> HIDE DEF u
    <2> QED
      BY <1>1, <1>9, <2>3, <2>4, <2>5
  <1> QED
    BY <1>10, <1>11, <1>12, <1>13

\* A set of numbers has a least member.
LEMMA Least ==
  ASSUME NEW S, S \subseteq Nat, S # {}
  PROVE  \E x \in S : \A y \in S : x <= y
  <1> DEFINE R == OpToRel(<, Nat)
  <1>1. IsWellFoundedOn(R, Nat)
    BY NatLessThanWellFounded
  <1>2. \A x, y \in Nat : <<y, x>> \in R <=> y < x
    BY DEF OpToRel
  <1> HIDE DEF R
  <1>3. PICK x \in S : \A y \in S : <<y, x>> \notin R
    BY <1>1, WFMin
  <1>4. ASSUME NEW y \in S
        PROVE  x <= y
    <2>1. x \in Nat /\ y \in Nat /\ ~(y < x)
      BY <1>2, <1>3
    <2> QED
      BY <2>1
  <1> QED
    BY <1>4

\* Induction over levels, upwards and downwards.
LEMMA Upward ==
  ASSUME NEW m \in Nat, NEW S, 1 \in S, \A l \in 1 .. m : l # m /\ l \in S => l + 1 \in S
  PROVE  1 .. m \subseteq S
  <1> DEFINE Bad == {k \in Nat : k + 1 <= m /\ k + 1 \notin S}
  <1> SUFFICES ASSUME Bad # {}
               PROVE  FALSE
    <2>1. ASSUME NEW l \in 1 .. m, l \notin S
          PROVE  Bad # {}
      <3>1. l - 1 \in Nat /\ (l - 1) + 1 = l /\ l <= m
        BY <2>1
      <3> QED
        BY <2>1, <3>1
    <2> QED
      BY <2>1
  <1>1. PICK b \in Bad : \A y \in Bad : b <= y
    <2>1. Bad \subseteq Nat
      OBVIOUS
    <2> HIDE DEF Bad
    <2> QED
      BY <2>1, Least
  <1>2. b \in Nat /\ b + 1 <= m /\ b + 1 \notin S /\ b # 0
    BY <1>1
  <1>3. PICK a \in Nat : b = a + 1
    <2>1. b - 1 \in Nat /\ b = (b - 1) + 1
      BY <1>2
    <2> QED
      BY <2>1
  <1>4. ~(b <= a) /\ a + 1 <= m /\ a + 1 \in 1 .. m /\ a + 1 # m
    BY <1>2, <1>3
  <1>5. a + 1 \in S
    BY <1>1, <1>4
  <1> QED
    BY <1>2, <1>3, <1>4, <1>5

\* The same, from the top level down: what a level has, the level below has too.
LEMMA Downward ==
  ASSUME NEW m \in Nat, NEW S, m \in S, \A l \in 1 .. m : l # m /\ l + 1 \in S => l \in S
  PROVE  1 .. m \subseteq S
  <1> DEFINE T == {k \in 1 .. m : m + 1 - k \in S}
  <1>1. CASE m = 0
    BY <1>1
  <1>2. CASE m # 0
    <2>1. 1 \in T
      BY <1>2
    <2>2. ASSUME NEW k \in 1 .. m, k # m, k \in T
          PROVE  k + 1 \in T
      <3> DEFINE l == m + 1 - (k + 1)
      <3>1. l \in 1 .. m /\ l # m /\ l + 1 = m + 1 - k /\ k + 1 \in 1 .. m
        BY <2>2
      <3>2. l + 1 \in S
        BY <2>2, <3>1
      <3> HIDE DEF l
      <3>3. l \in S
        BY <3>1, <3>2
      <3> QED
        BY <3>1, <3>3 DEF l
    <2> HIDE DEF T
    <2>3. 1 .. m \subseteq T
      BY <2>1, <2>2, Upward
    <2>4. ASSUME NEW l \in 1 .. m
          PROVE  l \in S
      <3>1. m + 1 - l \in 1 .. m /\ m + 1 - (m + 1 - l) = l
        OBVIOUS
      <3>2. m + 1 - l \in T
        BY <2>3, <3>1
      <3> QED
        BY <3>1, <3>2 DEF T
    <2> QED
      BY <2>4
  <1> QED
    BY <1>1, <1>2

\* The traversal's loop.
Round(r, t, p, level) ==
  IF level >= t.log2 THEN Place(t, 0, Msb)
  ELSE IF r[level + 1].node = 0 THEN r[level + 1]
       ELSE Descend(Follow(r[level + 1]), level + 1, p)

\* The loop has a round also for a tree that is a leaf.
LEMMA Layers ==
  ASSUME NEW d \in Nat
  PROVE  LET m == Max({1, d}) IN m \in Nat /\ m >= 1 /\ m >= d /\ (d # 0 => m = d) /\ (d = 0 => m = 1)
  <1> DEFINE top == IF d = 0 THEN 1 ELSE d
  <1>1. top \in {1, d} /\ \A y \in {1, d} : top >= y
    OBVIOUS
  <1>2. Max({1, d}) \in {1, d} /\ \A y \in {1, d} : Max({1, d}) >= y
    BY <1>1, Zenon DEF Max
  <1> QED
    BY <1>2

\* What the loop leaves at each level: Way says that r is what it leaves.
Way(r, t, p) == r = [level \in 1 .. Max({1, t.log2}) |-> Round(r, t, p, level)]

\* The loop has a value for every level.
LEMMA Loop ==
  ASSUME NEW t, t.log2 \in Nat, NEW p
  PROVE  \E r : /\ Way(r, t, p)
                /\ GetLeafPtr(t, p) =
                     [tree |-> Follow(r[1]).tree, ovb |-> Follow(r[1]).ovb,
                      ptr  |-> IF r[1].node = 0 THEN -1
                               ELSE Follow(r[1]).node
                                      + PtrEntries * (IF t.log2 = 0 THEN 0 ELSE ChildIndex(p, 1))]
  <1> DEFINE m == Max({1, t.log2})
  <1>1. m \in Nat /\ m >= 1 /\ m >= t.log2
    BY Layers
  <1> HIDE DEF m
  <1> DEFINE Is(g, k) == g = [level \in m - k .. m |-> Round(g, t, p, level)]
             Some(k) == \E g : Is(g, k)
             Bad == {k \in Nat : ~Some(k)}
  <1>2. Bad = {}
    <2> SUFFICES ASSUME Bad # {}
                 PROVE  FALSE
      OBVIOUS
    <2>1. PICK b \in Bad : \A y \in Bad : b <= y
      <3>1. Bad \subseteq Nat
        OBVIOUS
      <3> HIDE DEF Bad
      <3> QED
        BY <3>1, Least
    <2>2. b # 0
      <3> DEFINE g == [level \in m - 0 .. m |-> Place(t, 0, Msb)]
      <3>1. \A level \in m - 0 .. m : Round(g, t, p, level) = Place(t, 0, Msb)
        <4> HIDE DEF g
        <4> QED
          BY <1>1 DEF Round
      <3>2. Is(g, 0)
        BY <3>1
      <3> QED
        BY <2>1, <3>2
    <2>3. PICK a \in Nat : b = a + 1
      <3>1. b \in Nat /\ b - 1 \in Nat /\ b = (b - 1) + 1
        BY <2>1, <2>2
      <3> QED
        BY <3>1
    <2>4. PICK g : Is(g, a)
      <3>1. ~(b <= a)
        BY <2>3
      <3> HIDE DEF Some
      <3>2. Some(a)
        BY <2>1, <3>1
      <3> QED
        BY <3>2 DEF Some
    <2> DEFINE last == Round(g, t, p, m - b)
               h == [level \in m - b .. m |-> IF level = m - b THEN last ELSE g[level]]
    <2>5. ASSUME NEW level \in m - b .. m
          PROVE  h[level] = Round(h, t, p, level)
      <3>1. level \in Int /\ (level # m - b => level \in m - a .. m)
            /\ (level < t.log2 => level + 1 \in m - b .. m /\ level + 1 # m - b)
            /\ ~(level >= t.log2) = (level < t.log2)
        BY <1>1, <2>3
      <3> HIDE DEF last
      <3>2. level < t.log2 => h[level + 1] = g[level + 1]
        BY <3>1
      <3>3. Round(h, t, p, level) = Round(g, t, p, level)
        <4> HIDE DEF h
        <4> QED
          BY <3>1, <3>2 DEF Round
      <3>4. CASE level = m - b
        <4>1. h[level] = last
          BY <3>4
        <4> HIDE DEF h
        <4> QED
          BY <3>3, <3>4, <4>1 DEF last
      <3>5. CASE level # m - b
        <4>1. h[level] = g[level]
          BY <3>5
        <4>2. g[level] = Round(g, t, p, level)
          BY <2>4, <3>1, <3>5
        <4> HIDE DEF h
        <4> QED
          BY <3>3, <4>1, <4>2
      <3> QED
        BY <3>4, <3>5
    <2>6. h = [level \in m - b .. m |-> h[level]]
      OBVIOUS
    <2> HIDE DEF h
    <2>7. Is(h, b)
      BY <2>5, <2>6
    <2> QED
      BY <2>1, <2>7
  <1>3. \E r : r = [level \in 1 .. m |-> Round(r, t, p, level)]
    <2> HIDE DEF Some
    <2>1. m - 1 \in Nat /\ m - (m - 1) = 1
      BY <1>1
    <2>2. Some(m - 1)
      BY <1>2, <2>1
    <2> QED
      BY <2>1, <2>2 DEF Some
  <1> DEFINE reach[level \in 1 .. m] ==
               IF level >= t.log2 THEN Place(t, 0, Msb)
               ELSE LET above == reach[level + 1]
                    IN  IF above.node = 0 THEN above
                        ELSE Descend(Follow(above), level + 1, p)
  <1>4. reach = [level \in 1 .. m |-> Round(reach, t, p, level)]
    BY <1>3, Zenon DEF Round
  <1>5. GetLeafPtr(t, p) =
          [tree |-> Follow(reach[1]).tree, ovb |-> Follow(reach[1]).ovb,
           ptr  |-> IF reach[1].node = 0 THEN -1
                    ELSE Follow(reach[1]).node
                           + PtrEntries * (IF t.log2 = 0 THEN 0 ELSE ChildIndex(p, 1))]
    BY DEF GetLeafPtr, m
  <1> HIDE DEF reach
  <1>6. Way(reach, t, p)
    BY <1>4 DEF Way, m
  <1> QED
    BY <1>5, <1>6

\* A tree that is a leaf has one pointer, which is found at once.
LEMMA LeafTree ==
  ASSUME NEW t, t.log2 = 0, NEW p
  PROVE  GetLeafPtr(t, p) = [tree |-> t, ovb |-> 0, ptr |-> 0]
  <1> DEFINE top == Place(t, 0, Msb)
  <1>1. PICK r : /\ Way(r, t, p)
                 /\ GetLeafPtr(t, p) =
                      [tree |-> Follow(r[1]).tree, ovb |-> Follow(r[1]).ovb,
                       ptr  |-> IF r[1].node = 0 THEN -1
                                ELSE Follow(r[1]).node
                                       + PtrEntries * (IF t.log2 = 0 THEN 0 ELSE ChildIndex(p, 1))]
    <2>1. t.log2 \in Nat
      OBVIOUS
    <2> QED
      BY <2>1, Loop
  <1>2. Max({1, t.log2}) = 1
    BY Layers
  <1>3. r[1] = top
    <2>1. 1 \in 1 .. Max({1, t.log2}) /\ 1 >= t.log2
      BY <1>2
    <2> QED
      BY <1>1, <2>1 DEF Way, Round
  <1>4. top.tree = t /\ top.ovb = 0 /\ top.node = Msb /\ top = Place(top.tree, top.ovb, top.node)
    BY DEF Place
  <1> HIDE DEF top
  <1>5. top.node # 0 /\ Follow(top).tree = t /\ Follow(top).ovb = 0 /\ Follow(top).node = 0
    <2>1. Msb # 0 /\ Msb >= Msb /\ Msb - Msb = 0
      BY ConstantFacts
    <2> QED
      BY <1>4, <2>1, FollowFacts
  <1>6. 0 + PtrEntries * 0 = 0
    BY ConstantFacts
  <1> QED
    BY <1>1, <1>3, <1>5, <1>6

\* The loop comes to a node of each level until it finds no room, and each round is a
\* step from where the round before had come.
LEMMA Rounds ==
  ASSUME NEW t, NEW n \in Nat, NEW N, Shape(t), Well(t, N), Hung(t, N, n), t.log2 # 0,
         NEW p \in [1 .. 3 -> Nat], NEW r, Way(r, t, p)
  PROVE  /\ t.log2 \in Nat /\ r[t.log2] = Place(t, 0, Msb)
         /\ \A level \in 1 .. t.log2 : Came(r[level], level, t.log2, n)
         /\ \A level \in 1 .. t.log2 : level # t.log2 =>
              IF r[level + 1].node = 0 THEN r[level] = r[level + 1]
              ELSE /\ r[level] = Descend(Follow(r[level + 1]), level + 1, p)
                   /\ Walked(Follow(r[level + 1]), r[level],
                             Follow(r[level + 1]).node + ChildIndex(p, level + 1))
  <1> DEFINE d == t.log2
             top == Place(t, 0, Msb)
  <1>1. d \in Nat /\ d >= 1 /\ Max({1, d}) = d
    <2>1. d \in Nat
      BY DEF Shape
    <2> QED
      BY <2>1, Layers
  <1>2. \A level \in 1 .. d : r[level] = Round(r, t, p, level)
    BY <1>1 DEF Way
  <1> HIDE DEF d
  <1>3. r[d] = top
    BY <1>1, <1>2 DEF Round, d
  <1>4. Came(top, d, d, n)
    <2>1. top.tree = t /\ top.ovb = 0 /\ top.node = Msb /\ top = Place(top.tree, top.ovb, top.node)
      BY DEF Place
    <2> HIDE DEF top
    <2>2. Msb # 0 /\ Msb >= Msb /\ Msb - Msb = 0
      BY ConstantFacts
    <2>3. Follow(top).ovb = 0 /\ Follow(top).node = 0
      BY <2>1, <2>2, FollowFacts
    <2>4. <<d, 0, 0>> \in N
      BY <1>1 DEF Well, Rooted, Root, d
    <2> QED
      BY <2>1, <2>3, <2>4 DEF Came, d
  <1> HIDE DEF top
  <1>5. ASSUME NEW level \in 1 .. d, level # d, Came(r[level + 1], level + 1, d, n)
        PROVE  /\ Came(r[level], level, d, n)
               /\ IF r[level + 1].node = 0 THEN r[level] = r[level + 1]
                  ELSE /\ r[level] = Descend(Follow(r[level + 1]), level + 1, p)
                       /\ Walked(Follow(r[level + 1]), r[level],
                                 Follow(r[level + 1]).node + ChildIndex(p, level + 1))
    <2> DEFINE above == r[level + 1]
               at == Follow(above)
    <2>1. /\ level \in Nat /\ ~(level >= d) /\ level + 1 \in Nat /\ level + 1 > 1
          /\ (level + 1) - 1 = level
      BY <1>1, <1>5
    <2>2. r[level] = IF above.node = 0 THEN above ELSE Descend(at, level + 1, p)
      BY <1>2, <2>1 DEF Round, d
    <2> HIDE DEF above
    <2>3. PICK M : /\ Well(above.tree, M) /\ Hung(above.tree, M, n)
                   /\ above.node # 0 => <<level + 1, at.ovb, at.node>> \in M
      BY <1>5 DEF Came, above
    <2>4. above = Place(above.tree, above.ovb, above.node) /\ Shape(above.tree)
          /\ above.tree.log2 = d
      BY <1>5 DEF Came, above
    <2>5. at = Place(at.tree, at.ovb, at.node) /\ at.tree = above.tree
      BY <2>4, FollowFacts
    <2> HIDE DEF at
    <2>6. CASE above.node = 0
      <3>1. Came(above, level, d, n)
        BY <2>3, <2>4, <2>6 DEF Came
      <3> QED
        BY <2>2, <2>6, <3>1 DEF above
    <2>7. CASE above.node # 0
      <3>1. <<level + 1, at.ovb, at.node>> \in M
        BY <2>3, <2>7
      <3>2. /\ Came(Descend(at, level + 1, p), (level + 1) - 1, at.tree.log2, n)
            /\ Walked(at, Descend(at, level + 1, p), at.node + ChildIndex(p, level + 1))
        BY <2>1, <2>3, <2>4, <2>5, <3>1, DescendStep
      <3>3. r[level] = Descend(at, level + 1, p) /\ Came(r[level], level, d, n)
        BY <2>1, <2>2, <2>4, <2>5, <2>7, <3>2
      <3> QED
        BY <2>7, <3>2, <3>3 DEF above, at
    <2> QED
      BY <2>6, <2>7
  <1>6. \A level \in 1 .. d : Came(r[level], level, d, n)
    <2> DEFINE S == {level \in 1 .. d : Came(r[level], level, d, n)}
    <2>1. d \in S
      BY <1>1, <1>3, <1>4
    <2>2. \A level \in 1 .. d : level # d /\ level + 1 \in S => level \in S
      BY <1>5
    <2> HIDE DEF S
    <2>3. 1 .. d \subseteq S
      BY <1>1, <2>1, <2>2, Downward
    <2> QED
      BY <2>3 DEF S
  <1>7. \A level \in 1 .. d : level # d => level + 1 \in 1 .. d
    BY <1>1
  <1> QED
    BY <1>1, <1>3, <1>5, <1>6, <1>7 DEF d, top

\* On its way the loop only adds to the tree, and once the table is full it adds nothing.
LEMMA RoundsKeep ==
  ASSUME NEW t, NEW n \in Nat, NEW N, Shape(t), Well(t, N), Hung(t, N, n), t.log2 # 0,
         NEW p \in [1 .. 3 -> Nat], NEW r, Way(r, t, p)
  PROVE  \A level \in 1 .. t.log2 :
           /\ r[level] = Place(r[level].tree, r[level].ovb, r[level].node)
           /\ Follow(r[level]).tree = r[level].tree
           /\ Keeps(t, r[level].tree) /\ Keeps(r[level].tree, r[1].tree)
           /\ r[level].node = 0 => /\ r[1] = r[level]
                                   /\ Nb(r[level].tree) = OVT_SIZE
  <1> DEFINE d == t.log2
  <1>1. /\ d \in Nat /\ r[d] = Place(t, 0, Msb)
        /\ \A level \in 1 .. d : Came(r[level], level, d, n)
        /\ \A level \in 1 .. d : level # d =>
             IF r[level + 1].node = 0 THEN r[level] = r[level + 1]
             ELSE /\ r[level] = Descend(Follow(r[level + 1]), level + 1, p)
                  /\ Walked(Follow(r[level + 1]), r[level],
                            Follow(r[level + 1]).node + ChildIndex(p, level + 1))
    BY Rounds
  <1>2. d >= 1 /\ 1 \in 1 .. d /\ d \in 1 .. d /\ \A level \in 1 .. d : level # d => level + 1 \in 1 .. d
    BY <1>1
  <1>3. r[d].tree = t /\ r[d].node # 0
    BY <1>1, ConstantFacts DEF Place
  <1> HIDE DEF d
  <1>4. \A level \in 1 .. d : /\ r[level] = Place(r[level].tree, r[level].ovb, r[level].node)
                              /\ Follow(r[level]).tree = r[level].tree
    <2>1. \A level \in 1 .. d : r[level] = Place(r[level].tree, r[level].ovb, r[level].node)
      BY <1>1 DEF Came
    <2> QED
      BY <2>1, FollowFacts
  <1>5. ASSUME NEW level \in 1 .. d, level # d
        PROVE  /\ Keeps(r[level + 1].tree, r[level].tree)
               /\ r[level + 1].node = 0 => r[level] = r[level + 1]
               /\ r[level + 1].node # 0 /\ r[level].node = 0 => Nb(r[level].tree) = OVT_SIZE
    <2>1. CASE r[level + 1].node = 0
      <3>1. r[level] = r[level + 1]
        BY <1>1, <1>5, <2>1
      <3> QED
        BY <2>1, <3>1 DEF Keeps
    <2>2. CASE r[level + 1].node # 0
      <3>1. Walked(Follow(r[level + 1]), r[level],
                   Follow(r[level + 1]).node + ChildIndex(p, level + 1))
        BY <1>1, <1>5, <2>2
      <3>2. Follow(r[level + 1]).tree = r[level + 1].tree
        BY <1>2, <1>4, <1>5
      <3> QED
        BY <2>2, <3>1, <3>2 DEF Walked
    <2> QED
      BY <2>1, <2>2
  <1> DEFINE Down == {level \in 1 .. d :
                        /\ Keeps(t, r[level].tree)
                        /\ r[level].node = 0 => Nb(r[level].tree) = OVT_SIZE}
             Up == {level \in 1 .. d : /\ Keeps(r[level].tree, r[1].tree)
                                       /\ r[level].node = 0 => r[1] = r[level]}
  <1>6. d \in Down /\ 1 \in Up
    BY <1>2, <1>3 DEF Keeps
  <1>7. ASSUME NEW level \in 1 .. d, level # d
        PROVE  /\ level + 1 \in Down => level \in Down
               /\ level \in Up => level + 1 \in Up
    <2> DEFINE a == r[level + 1]
               b == r[level]
    <2>1. level + 1 \in 1 .. d
      BY <1>2, <1>7
    <2>2. /\ Keeps(a.tree, b.tree)
          /\ a.node = 0 => b = a
          /\ a.node # 0 /\ b.node = 0 => Nb(b.tree) = OVT_SIZE
      BY <1>5, <1>7
    <2> HIDE DEF a, b
    <2>3. /\ Keeps(t, a.tree) => Keeps(t, b.tree)
          /\ Keeps(b.tree, r[1].tree) => Keeps(a.tree, r[1].tree)
      BY <2>2 DEF Keeps
    <2> QED
      BY <2>1, <2>2, <2>3 DEF a, b
  <1> HIDE DEF Down, Up
  <1>8. 1 .. d \subseteq Down
    BY <1>1, <1>6, <1>7, Downward
  <1>9. 1 .. d \subseteq Up
    BY <1>1, <1>6, <1>7, Upward
  <1> QED
    BY <1>4, <1>8, <1>9 DEF Down, Up, d

\* What the traversal returns for a tree of that depth with n chunks.
Found(g, depth, n) ==
  /\ g = [tree |-> g.tree, ovb |-> g.ovb, ptr |-> g.ptr]
  /\ Shape(g.tree) /\ g.tree.log2 = depth
  /\ \E N : /\ Well(g.tree, N) /\ Hung(g.tree, N, n)
            /\ g.ptr = -1 \/ <<g.ovb, g.ptr>> \in Places(g.tree, N)

\* The traversal comes to a pointer, or finds no room, and the tree stays one.
LEMMA LeafFound ==
  ASSUME NEW t, NEW n \in Nat, NEW N, Shape(t), Well(t, N), Hung(t, N, n),
         NEW p \in [1 .. 3 -> Nat]
  PROVE  Found(GetLeafPtr(t, p), t.log2, n)
  <1> DEFINE g == GetLeafPtr(t, p)
  <1>1. CASE t.log2 = 0
    <2>1. g = [tree |-> t, ovb |-> 0, ptr |-> 0]
      BY <1>1, LeafTree
    <2> HIDE DEF g
    <2>2. /\ g = [tree |-> g.tree, ovb |-> g.ovb, ptr |-> g.ptr]
          /\ g.tree = t /\ g.ovb = 0 /\ g.ptr = 0
      BY <2>1
    <2>3. <<g.ovb, g.ptr>> \in Places(g.tree, N)
      BY <1>1, <2>2 DEF Places
    <2> QED
      BY <2>2, <2>3 DEF Found, g
  <1>2. CASE t.log2 # 0
    <2>1. PICK r : /\ Way(r, t, p)
                   /\ g = [tree |-> Follow(r[1]).tree, ovb |-> Follow(r[1]).ovb,
                           ptr  |-> IF r[1].node = 0 THEN -1
                                    ELSE Follow(r[1]).node
                                           + PtrEntries * (IF t.log2 = 0 THEN 0 ELSE ChildIndex(p, 1))]
      <3>1. t.log2 \in Nat
        BY DEF Shape
      <3> QED
        BY <3>1, Loop
    <2> DEFINE at == Follow(r[1])
               c == ChildIndex(p, 1)
    <2> HIDE DEF g
    <2>2. /\ g = [tree |-> g.tree, ovb |-> g.ovb, ptr |-> g.ptr]
          /\ g.tree = at.tree /\ g.ovb = at.ovb
          /\ g.ptr = IF r[1].node = 0 THEN -1 ELSE at.node + PtrEntries * c
      BY <1>2, <2>1
    <2>3. Came(r[1], 1, t.log2, n)
      <3>1. t.log2 \in Nat /\ \A level \in 1 .. t.log2 : Came(r[level], level, t.log2, n)
        BY <1>2, <2>1, Rounds
      <3>2. 1 \in 1 .. t.log2
        BY <1>2, <3>1
      <3> QED
        BY <3>1, <3>2
    <2>4. r[1] = Place(r[1].tree, r[1].ovb, r[1].node) /\ Shape(r[1].tree)
          /\ r[1].tree.log2 = t.log2
      BY <2>3 DEF Came
    <2>5. at.tree = r[1].tree
      BY <2>4, FollowFacts
    <2>6. c \in 0 .. 7
      BY ChildIndexRange
    <2> HIDE DEF c
    <2>7. PICK M : /\ Well(r[1].tree, M) /\ Hung(r[1].tree, M, n)
                   /\ r[1].node # 0 => <<1, at.ovb, at.node>> \in M
      BY <2>3 DEF Came
    <2> HIDE DEF at
    <2>8. CASE r[1].node = 0
      BY <2>2, <2>4, <2>5, <2>7, <2>8 DEF Found, g
    <2>9. CASE r[1].node # 0
      <3> DEFINE x == <<1, at.ovb, at.node>>
      <3>1. x \in M /\ x[1] = 1 /\ <<g.ovb, g.ptr>> = <<x[2], x[3] + PtrEntries * c>>
        BY <2>2, <2>7, <2>9
      <3> HIDE DEF x
      <3>2. <<g.ovb, g.ptr>> \in Places(g.tree, M)
        BY <1>2, <2>2, <2>4, <2>5, <2>6, <3>1 DEF Places
      <3> QED
        BY <2>2, <2>4, <2>5, <2>7, <3>2 DEF Found, g
    <2> QED
      BY <2>8, <2>9
  <1> QED
    BY <1>1, <1>2

\* The chunk that is found is one there is.
LEMMA LeafRange ==
  ASSUME NEW g, NEW depth, NEW n \in Nat, Found(g, depth, n)
  PROVE  GetLeaf(g) \in 0 .. n
  <1>1. PICK N : /\ Hung(g.tree, N, n)
                 /\ g.ptr = -1 \/ <<g.ovb, g.ptr>> \in Places(g.tree, N)
    BY DEF Found
  <1>2. CASE g.ptr = -1
    BY <1>2 DEF GetLeaf
  <1>3. CASE g.ptr # -1
    <2> DEFINE q == <<g.ovb, g.ptr>>
    <2>1. Ptr(g.tree, q) \in 0 .. n
      BY <1>1, <1>3 DEF Hung
    <2>2. GetLeaf(g) = Ptr(g.tree, q)
      BY <1>3 DEF GetLeaf, Ptr
    <2> QED
      BY <2>1, <2>2
  <1> QED
    BY <1>2, <1>3

\* A traversal that is repeated comes to the same pointer, or finds no room again, and
\* leaves the tree as it is.
LEMMA WalkAgain ==
  ASSUME NEW t, NEW n \in Nat, NEW N, Shape(t), Well(t, N), Hung(t, N, n),
         NEW p \in [1 .. 3 -> Nat]
  PROVE  GetLeafPtr(GetLeafPtr(t, p).tree, p) = GetLeafPtr(t, p)
  <1> DEFINE g == GetLeafPtr(t, p)
             u == g.tree
             d == t.log2
  <1>1. CASE t.log2 = 0
    <2>1. g = [tree |-> t, ovb |-> 0, ptr |-> 0]
      BY <1>1, LeafTree
    <2> HIDE DEF g
    <2>2. g.tree = t
      BY <2>1
    <2> QED
      BY <2>2 DEF g
  <1>2. CASE t.log2 # 0
    <2>1. Found(g, d, n)
      BY LeafFound
    <2> HIDE DEF g
    <2>2. Shape(u) /\ u.log2 = d /\ d \in Nat
      BY <2>1 DEF Found, Shape
    <2> DEFINE Back(r) == [tree |-> Follow(r[1]).tree, ovb |-> Follow(r[1]).ovb,
                           ptr  |-> IF r[1].node = 0 THEN -1
                                    ELSE Follow(r[1]).node
                                           + PtrEntries * (IF d = 0 THEN 0 ELSE ChildIndex(p, 1))]
    <2>3. PICK r : Way(r, t, p) /\ g = Back(r)
      BY <2>2, Loop DEF g
    <2>4. PICK r2 : Way(r2, u, p) /\ GetLeafPtr(u, p) = Back(r2)
      BY <2>2, Loop
    <2>5. /\ r[d] = Place(t, 0, Msb)
          /\ \A level \in 1 .. d : Came(r[level], level, d, n)
          /\ \A level \in 1 .. d : level # d =>
               IF r[level + 1].node = 0 THEN r[level] = r[level + 1]
               ELSE /\ r[level] = Descend(Follow(r[level + 1]), level + 1, p)
                    /\ Walked(Follow(r[level + 1]), r[level],
                              Follow(r[level + 1]).node + ChildIndex(p, level + 1))
      BY <1>2, <2>3, Rounds
    <2>6. g.tree = Follow(r[1]).tree
      BY <2>3
    <2> HIDE DEF d
    <2>7. d >= 1 /\ 1 \in 1 .. d /\ d \in 1 .. d /\ Max({1, d}) = d
      BY <1>2, <2>2, Layers DEF d
    <2>8. \A level \in 1 .. d :
            /\ r[level] = Place(r[level].tree, r[level].ovb, r[level].node)
            /\ Follow(r[level]).tree = r[level].tree /\ Keeps(r[level].tree, r[1].tree)
            /\ r[level].node = 0 => r[1] = r[level]
      BY <1>2, <2>3, RoundsKeep DEF d
    <2>9. u = r[1].tree
      BY <2>6, <2>7, <2>8
    <2> HIDE DEF u
    <2>10. \A level \in 1 .. d : /\ Keeps(r[level].tree, u)
                                 /\ r[level].node = 0 => r[level].tree = u
      BY <2>8, <2>9
    <2>11. \A level \in 1 .. d : r2[level] = Round(r2, u, p, level)
      BY <2>2, <2>4, <2>7 DEF Way
    <2> DEFINE Same(level) == r2[level] = Place(u, r[level].ovb, r[level].node)
    <2>12. Same(d)
      <3>1. r[d].ovb = 0 /\ r[d].node = Msb
        BY <2>5 DEF Place
      <3>2. r2[d] = Place(u, 0, Msb)
        BY <2>2, <2>7, <2>11 DEF Round
      <3> QED
        BY <3>1, <3>2
    <2>13. ASSUME NEW level \in 1 .. d, level # d, Same(level + 1)
           PROVE  Same(level)
      <3> DEFINE a == r[level + 1]
                 b == r[level]
                 a2 == r2[level + 1]
                 l == level + 1
                 c == ChildIndex(p, l)
      <3>1. l \in 1 .. d /\ l \in Nat /\ l >= 1 /\ ~(level >= d)
        BY <2>2, <2>13
      <3>2. a2 = Place(u, a.ovb, a.node)
        BY <2>13
      <3>3. r2[level] = IF a2.node = 0 THEN a2 ELSE Descend(Follow(a2), l, p)
        BY <2>2, <2>11, <3>1 DEF Round
      <3>4. IF a.node = 0 THEN b = a
            ELSE b = Descend(Follow(a), l, p) /\ Walked(Follow(a), b, Follow(a).node + c)
        BY <2>5, <2>13
      <3>5. /\ a = Place(a.tree, a.ovb, a.node) /\ Follow(a).tree = a.tree
            /\ b = Place(b.tree, b.ovb, b.node)
        BY <2>8, <3>1
      <3>6. Keeps(b.tree, u) /\ (b.node = 0 => b.tree = u)
        BY <2>10
      <3>7. Came(a, l, d, n)
        BY <2>5, <3>1
      <3>8. c \in 0 .. 7
        BY <3>1, ChildIndexRange
      <3> HIDE DEF a, b, a2, l, c
      <3>9. a2.tree = u /\ a2.ovb = a.ovb /\ a2.node = a.node /\ a2 = Place(a2.tree, a2.ovb, a2.node)
        BY <3>2 DEF Place
      <3>10. CASE a.node = 0
        <4>1. r2[level] = a2
          BY <3>3, <3>9, <3>10
        <4>2. r2[level] = Place(u, b.ovb, b.node)
          BY <3>2, <3>4, <3>10, <4>1
        <4> QED
          BY <4>2 DEF b
      <3>11. CASE a.node # 0
        <4> DEFINE f == Follow(a)
                   f2 == Follow(a2)
        <4>1. f = Place(f.tree, f.ovb, f.node) /\ f.tree = a.tree
          BY <3>5, FollowFacts
        <4>2. f2 = Place(u, f.ovb, f.node)
          BY <3>5, <3>9, FollowFacts
        <4>3. r2[level] = Descend(f2, l, p) /\ b = Descend(f, l, p) /\ Walked(f, b, f.node + c)
          BY <3>3, <3>4, <3>9, <3>11
        <4>4. f.ovb \in Bufs(f.tree) /\ f.node + c \in Nat
          <5>1. PICK M : Well(a.tree, M) /\ <<l, f.ovb, f.node>> \in M
            BY <3>7, <3>11 DEF Came
          <5>2. Shape(a.tree)
            BY <3>7 DEF Came
          <5>3. f.ovb \in Bufs(a.tree) /\ f.node \in Nat
            <6> DEFINE x == <<l, f.ovb, f.node>>
            <6>1. x \in M /\ x[2] = f.ovb /\ x[3] = f.node
              BY <5>1
            <6> HIDE DEF x, f
            <6>2. x[2] \in Bufs(a.tree) /\ x[3] \in Nat
              BY <5>1, <5>2, <6>1, NodeFacts
            <6> QED
              BY <6>1, <6>2
          <5> QED
            BY <3>8, <4>1, <5>3
        <4> HIDE DEF f, f2
        <4>5. CASE b.node = 0
          <5>1. f.tree = u
            BY <3>6, <4>3, <4>5 DEF Walked
          <5>2. f2 = f
            BY <4>1, <4>2, <5>1
          <5>3. r2[level] = b
            BY <4>3, <5>2
          <5>4. r2[level] = Place(u, b.ovb, b.node)
            BY <3>5, <3>6, <4>5, <5>3
          <5> QED
            BY <5>4 DEF b
        <4>6. CASE b.node # 0
          <5>1. b.ovb = f.ovb /\ Keeps(f.tree, b.tree) /\ Ent(b.tree, f.ovb, f.node + c) = b.node
            BY <4>3, <4>6 DEF Walked
          <5>2. f.ovb \in Bufs(b.tree)
            BY <4>4, <5>1 DEF Keeps
          <5>3. Ent(u, f.ovb, f.node + c) = b.node
            BY <3>6, <4>4, <4>6, <5>1, <5>2 DEF Keeps
          <5>4. f2.tree = u /\ f2.ovb = f.ovb /\ f2.node = f.node
            BY <4>2 DEF Place
          <5>5. Descend(f2, l, p) = Place(u, f.ovb, b.node)
            BY <4>6, <5>3, <5>4 DEF Descend, Ent, c
          <5> QED
            BY <4>3, <5>1, <5>5 DEF b
        <4> QED
          BY <4>5, <4>6
      <3> QED
        BY <3>10, <3>11
    <2>14. Same(1)
      <3> DEFINE S == {level \in 1 .. d : Same(level)}
      <3> HIDE DEF Same
      <3>1. d \in S
        BY <2>7, <2>12
      <3>2. \A level \in 1 .. d : level # d /\ level + 1 \in S => level \in S
        BY <2>13
      <3> HIDE DEF S
      <3>3. 1 .. d \subseteq S
        BY <2>2, <3>1, <3>2, Downward
      <3> QED
        BY <2>7, <3>3 DEF S
    <2>15. r2[1] = r[1]
      BY <2>7, <2>8, <2>9, <2>14
    <2>16. GetLeafPtr(u, p) = g
      BY <2>3, <2>4, <2>15
    <2> QED
      BY <2>16 DEF u, g
  <1> QED
    BY <1>1, <1>2

\* The pointer that is found is set to the next chunk.
LEMMA PutChunk ==
  ASSUME NEW t, NEW n \in Nat, NEW N, Shape(t), Well(t, N), Hung(t, N, n),
         NEW p \in [1 .. 3 -> Nat],
         GetLeafPtr(t, p).ptr # -1, GetLeaf(GetLeafPtr(t, p)) = 0
  PROVE  LET g == GetLeafPtr(t, p)
             u == SetLeaf(g, n + 1)
         IN  /\ Shape(u) /\ u.log2 = t.log2 /\ Ptr(u, <<g.ovb, g.ptr>>) = n + 1
             /\ \E M : /\ Well(g.tree, M) /\ Hung(g.tree, M, n) /\ SameLinks(g.tree, u, M)
                      /\ Well(u, M) /\ Hung(u, M, n + 1)
                      /\ \A r \in Places(g.tree, M) :
                           r # <<g.ovb, g.ptr>> => Ptr(u, r) = Ptr(g.tree, r)
  <1> DEFINE g == GetLeafPtr(t, p)
             q == <<g.ovb, g.ptr>>
             f == [i \in g.ptr .. g.ptr + PtrEntries - 1 |-> PtrPart(n + 1, i - g.ptr)]
             u == WrittenTo(g.tree, g.ovb, f)
  <1>1. Found(g, t.log2, n)
    BY LeafFound
  <1>2. SetLeaf(g, n + 1) = u
    BY DEF SetLeaf, WrittenTo
  <1>3. g.ptr # -1 /\ GetLeaf(g) = 0
    OBVIOUS
  <1> HIDE DEF g
  <1>4. Shape(g.tree) /\ g.tree.log2 = t.log2
    BY <1>1 DEF Found
  <1>5. PICK M : Well(g.tree, M) /\ Hung(g.tree, M, n) /\ q \in Places(g.tree, M)
    BY <1>1, <1>3 DEF Found
  <1>6. Ptr(g.tree, q) = 0
    BY <1>3 DEF GetLeaf, Ptr
  <1>7. q[1] = g.ovb /\ q[2] = g.ptr
    OBVIOUS
  <1>8. Entries(f, q[2], n + 1)
    <2>1. g.ptr \in Nat
      <3>1. q[2] \in Nat
        BY <1>4, <1>5, PlaceFacts
      <3> QED
        BY <3>1
    <2>2. g.ptr \in g.ptr .. g.ptr + PtrEntries - 1 /\ g.ptr - g.ptr = 0
      BY <2>1, ConstantFacts
    <2> QED
      BY <2>2 DEF Entries
  <1> HIDE DEF q, f
  <1>9. u = WrittenTo(g.tree, q[1], f)
    BY <1>7
  <1> HIDE DEF u
  <1>10. /\ Shape(u) /\ u.log2 = g.tree.log2 /\ Well(u, M) /\ Hung(u, M, n + 1)
         /\ SameLinks(g.tree, u, M) /\ Ptr(u, q) = n + 1
         /\ \A r \in Places(g.tree, M) : r # q => Ptr(u, r) = Ptr(g.tree, r)
    BY <1>4, <1>5, <1>6, <1>8, <1>9, SetPointer
  <1> QED
    BY <1>2, <1>4, <1>5, <1>10 DEF g, q

\* An octree that is new has a root, and its pointers are NULL.
LEMMA NewTree ==
  ASSUME NEW d \in Nat
  PROVE  LET t == NewSsvo(d)
         IN  Shape(t) /\ t.log2 = d /\ \E N : Well(t, N) /\ Hung(t, N, 0)
  <1> DEFINE t == NewSsvo(d)
             k == IF d = 0 THEN PtrEntries ELSE Span(d)
             o == NewOvb(k)
             N == IF d = 0 THEN {} ELSE {<<d, 0, 0>>}
  <1>1. t = [log2 |-> d, ovt |-> [a \in {0} |-> o]]
    <2>1. (IF d = 0 THEN PtrEntries ELSE NodeEntries(d = 1)) = k
      BY DEF NodeEntries, Span
    <2> QED
      BY <2>1 DEF NewSsvo
  <1>2. k \in 0 .. OVB_SIZE /\ (d = 0 => k = PtrEntries) /\ (d # 0 => k = Span(d))
    BY ConstantFacts DEF Span
  <1> HIDE DEF t, k
  <1>3. Buffer(o) /\ o.used = k /\ \A i : Entry(o, i) = 0
    <2>1. o = [nodes |-> <<>>, used |-> k]
      BY DEF NewOvb
    <2>2. DOMAIN <<>> = {}
      OBVIOUS
    <2> HIDE DEF o
    <2> QED
      BY <1>2, <2>1, <2>2, ConstantFacts DEF Buffer, Entry
  <1> HIDE DEF o
  <1>4. t.log2 = d /\ t.ovt = [a \in {0} |-> o] /\ t = [log2 |-> t.log2, ovt |-> t.ovt]
    BY <1>1
  <1>5. Nb(t) = 1 /\ Bufs(t) = {0}
    <2>1. DOMAIN t.ovt = {0}
      BY <1>4
    <2>2. Nb(t) = 1
      BY <2>1, FS_Singleton DEF Nb
    <2> QED
      BY <2>2 DEF Bufs
  <1>6. t.ovt[0] = o
    BY <1>4
  <1>7. Shape(t)
    <2>1. t.ovt = [a \in Bufs(t) |-> t.ovt[a]]
      BY <1>4, <1>5
    <2>2. \A a \in Bufs(t) : Buffer(t.ovt[a])
      BY <1>3, <1>5, <1>6
    <2>3. Nb(t) \in 1 .. OVT_SIZE
      BY <1>5, ConstantFacts
    <2> QED
      BY <1>4, <2>1, <2>2, <2>3 DEF Shape
  <1>8. Used(t, 0) = k /\ \A i : Ent(t, 0, i) = 0
    BY <1>3, <1>6 DEF Used, Ent
  <1>9. Well(t, N)
    <2>1. \A x \in N : x = <<d, 0, 0>> /\ x[1] = d /\ x[2] = 0 /\ x[3] = 0 /\ d # 0
      OBVIOUS
    <2>2. d # 0 => Root(t) \in N
      BY <1>4 DEF Root
    <2> HIDE DEF N
    <2>3. Inside(t, N)
      <3> SUFFICES ASSUME NEW x \in N
                   PROVE  /\ x[1] \in 1 .. t.log2 /\ x[2] \in Bufs(t) /\ x[3] \in Nat
                          /\ x = <<x[1], x[2], x[3]>>
                          /\ x[3] + Span(x[1]) <= Used(t, x[2])
        BY DEF Inside
      <3>1. x = <<d, 0, 0>> /\ x[1] = d /\ x[2] = 0 /\ x[3] = 0 /\ d # 0
        BY <2>1
      <3>2. Span(d) \in Nat /\ Used(t, 0) = Span(d)
        BY <1>2, <1>8, <3>1, SpanFacts
      <3> QED
        BY <1>4, <1>5, <3>1, <3>2
    <2>4. Apart(N)
      BY <2>1 DEF Apart
    <2>5. \A x \in N, c \in 0 .. 7 : ~Linked(t, x, c)
      BY <1>8, <2>1 DEF Linked, Link
    <2>6. \A x \in N : x = Root(t)
      BY <1>4, <2>1 DEF Root
    <2>7. Rooted(t, N)
      BY <1>2, <1>4, <1>8, <2>2, <2>6, ConstantFacts DEF Rooted
    <2>8. Closed(t, N) /\ OneParent(t, N)
      BY <2>5, <2>6 DEF Closed, OneParent
    <2> QED
      BY <2>3, <2>4, <2>7, <2>8 DEF Well
  <1>10. Hung(t, N, 0)
    <2>1. \A q \in Places(t, N) : Ptr(t, q) = 0
      <3> SUFFICES ASSUME NEW q \in Places(t, N)
                   PROVE  Ptr(t, q) = 0
        OBVIOUS
      <3> HIDE DEF N
      <3>1. q[1] \in Bufs(t)
        BY <1>7, <1>9, PlaceFacts
      <3>2. Ent(t, q[1], q[2]) = 0
        BY <1>5, <1>8, <3>1
      <3> QED
        BY <3>2, PtrRead
    <2> HIDE DEF N
    <2> QED
      BY <2>1 DEF Hung
  <1> HIDE DEF N
  <1> QED
    BY <1>4, <1>7, <1>9, <1>10 DEF t

-----------------------------------------------------------------------------
(* The plot.                                                               *)

\* A plot's depth, and where a position lies.
LEMMA BitsRange ==
  ASSUME NEW n \in 1 .. 255
  PROVE  CountBits(n) \in 0 .. 7 /\ 2 ^ CountBits(n) <= n
  <1> DEFINE S == {0} \union {b \in 0 .. 7 : 2 ^ b <= n}
             T == {k \in 0 .. 7 : 7 - k \in S}
  <1>1. S \subseteq 0 .. 7 /\ 0 \in S
    OBVIOUS
  <1> HIDE DEF S
  <1>2. T \subseteq Nat /\ T # {}
    <2>1. 7 \in T
      BY <1>1
    <2> QED
      BY <2>1
  <1>3. PICK k \in T : \A y \in T : k <= y
    <2> HIDE DEF T
    <2> QED
      BY <1>2, Least
  <1>4. 7 - k \in S /\ \A y \in S : 7 - k >= y
    <2>1. k \in 0 .. 7 /\ 7 - k \in S
      BY <1>3
    <2>2. ASSUME NEW y \in S
          PROVE  7 - k >= y
      <3>1. y \in 0 .. 7 /\ 7 - y \in 0 .. 7 /\ 7 - (7 - y) = y
        BY <1>1
      <3>2. 7 - y \in T
        BY <3>1
      <3>3. k <= 7 - y
        BY <1>3, <3>2
      <3> QED
        BY <2>1, <3>1, <3>3
    <2> QED
      BY <2>1, <2>2
  <1>5. Max(S) \in S
    BY <1>4, Zenon DEF Max
  <1>6. Max(S) = CountBits(n)
    BY DEF CountBits, S
  <1>7. CountBits(n) \in 0 .. 7
    BY ONLY <1>1, <1>5, <1>6
  <1>8. CASE CountBits(n) = 0
    <2>1. 2 ^ CountBits(n) = 1
      BY ONLY <1>8, PowerOfZero
    <2> QED
      BY ONLY <1>7, <2>1, n \in 1 .. 255
  <1>9. CASE CountBits(n) # 0
    <2>1. CountBits(n) \in {b \in 0 .. 7 : 2 ^ b <= n}
      BY ONLY <1>5, <1>6, <1>9 DEF S
    <2> QED
      BY ONLY <1>7, <2>1
  <1> QED
    BY ONLY <1>8, <1>9

\* Quotients and remainders of numbers.
LEMMA Remainder ==
  ASSUME NEW v \in Int, NEW w \in Nat, w >= 1
  PROVE  v % w \in 0 .. w - 1 /\ (v \in Nat => v \div w \in Nat)
  OBVIOUS

\* A position, as atoi returned it, lies in a chunk, at one of its offsets.
LEMMA PositionFacts ==
  ASSUME NEW p \in Position
  PROVE  ChunkPos(p) \in [1 .. 3 -> Nat] /\ Offset(p) \in Offsets
  <1> DEFINE w == 2 ^ WordBits
             s == 2 ^ ChunkBits
  <1>1. w \in Nat /\ w >= 1 /\ s \in Nat /\ s >= 1
    BY PowerOfTwo, PlotStorageAssumption
  <1>2. p[1] \in Int /\ p[2] \in Int /\ p[3] \in Int
    BY PlotStorageAssumption
  <1>3. \A c \in 1 .. 3 : p[c] \in Int
    BY <1>2
  <1> HIDE DEF w, s
  <1>4. \A v \in Int : v % w \in Nat
    <2> SUFFICES ASSUME NEW v \in Int
                 PROVE  v % w \in Nat
      OBVIOUS
    <2>1. v % w \in 0 .. w - 1
      BY <1>1, Remainder
    <2> QED
      BY <1>1, <2>1
  <1>5. ASSUME NEW c \in 1 .. 3
        PROVE  (p[c] % w) \div s \in Nat /\ (p[c] % w) % s \in 0 .. s - 1
    <2> DEFINE v == p[c] % w
    <2>1. v \in Nat
      BY <1>3, <1>4
    <2> HIDE DEF v
    <2>2. v \div s \in Nat /\ v % s \in 0 .. s - 1
      BY <1>1, <2>1
    <2> QED
      BY <2>2 DEF v
  <1> QED
    BY <1>5 DEF ChunkPos, Offset, Offsets, ToUint32, ChunkSide, w, s

\* The cast of a block keeps 8 bits.
LEMMA ByteFacts ==
  ASSUME NEW arg \in BlockArg
  PROVE  ToUint8(arg) \in 0 .. 255
  BY PlotStorageAssumption DEF ToUint8

-----------------------------------------------------------------------------
(* The invariant.                                                          *)

\* What the invariant says of the tree says all that TypeOK does of it.
LEMMA ShapeType ==
  ASSUME NEW t, Shape(t)
  PROVE  /\ t.log2 \in Nat
         /\ DOMAIN t.ovt = 0 .. Cardinality(DOMAIN t.ovt) - 1
         /\ Cardinality(DOMAIN t.ovt) \in 1 .. OVT_SIZE
         /\ \A o \in DOMAIN t.ovt :
              /\ t.ovt[o].used \in 0 .. OVB_SIZE
              /\ DOMAIN t.ovt[o].nodes \subseteq 0 .. t.ovt[o].used - 1
  <1>1. DOMAIN t.ovt = Bufs(t) /\ t.log2 \in Nat /\ Nb(t) \in 1 .. OVT_SIZE
        /\ \A o \in Bufs(t) : Buffer(t.ovt[o])
    <2>1. t.log2 \in Nat /\ Nb(t) \in 1 .. OVT_SIZE /\ t.ovt = [o \in Bufs(t) |-> t.ovt[o]]
          /\ \A o \in Bufs(t) : Buffer(t.ovt[o])
      BY DEF Shape
    <2> QED
      BY <2>1
  <1>2. \A o \in Bufs(t) : /\ t.ovt[o].used \in 0 .. OVB_SIZE
                           /\ DOMAIN t.ovt[o].nodes \subseteq 0 .. t.ovt[o].used - 1
    BY <1>1 DEF Buffer
  <1> QED
    BY <1>1, <1>2 DEF Bufs, Nb

\* What a traversal that a command begins with leaves.
LEMMA Traversal ==
  ASSUME NEW t, NEW n \in Nat, TreeOf(t, n), NEW p \in Position
  PROVE  LET g == GetLeafPtr(t, ChunkPos(p))
         IN  /\ TreeOf(g.tree, n) /\ g.tree.log2 = t.log2 /\ GetLeaf(g) \in 0 .. n
             /\ GetLeafPtr(g.tree, ChunkPos(p)) = g
             /\ g.ptr # -1 /\ GetLeaf(g) = 0 =>
                  TreeOf(SetLeaf(g, n + 1), n + 1) /\ SetLeaf(g, n + 1).log2 = t.log2
  <1> DEFINE P == ChunkPos(p)
             g == GetLeafPtr(t, P)
  <1>1. P \in [1 .. 3 -> Nat]
    BY PositionFacts
  <1> HIDE DEF P
  <1>2. PICK N : Shape(t) /\ Well(t, N) /\ Hung(t, N, n)
    BY DEF TreeOf
  <1>3. Found(g, t.log2, n)
    BY <1>1, <1>2, LeafFound
  <1>4. GetLeafPtr(g.tree, P) = g
    BY <1>1, <1>2, WalkAgain
  <1>5. g.ptr # -1 /\ GetLeaf(g) = 0 =>
          TreeOf(SetLeaf(g, n + 1), n + 1) /\ SetLeaf(g, n + 1).log2 = t.log2
    BY <1>1, <1>2, PutChunk DEF TreeOf
  <1> HIDE DEF g
  <1>6. GetLeaf(g) \in 0 .. n
    BY <1>3, LeafRange
  <1>7. TreeOf(g.tree, n) /\ g.tree.log2 = t.log2
    BY <1>3 DEF Found, TreeOf
  <1> QED
    BY <1>4, <1>5, <1>6, <1>7 DEF g, P

\* One block of a chunk is set, and blocks are numbers of 8 bits.
LEMMA ChunkFacts ==
  ASSUME NEW p \in Position, NEW b \in 0 .. 255, chunks \in Seq(Chunk)
  PROVE  /\ Len(chunks) \in Nat
         /\ [[o \in Offsets |-> 0] EXCEPT ![Offset(p)] = b] \in Chunk
         /\ \A c \in 1 .. Len(chunks) :
              /\ [chunks EXCEPT ![c][Offset(p)] = b] \in Seq(Chunk)
              /\ Len([chunks EXCEPT ![c][Offset(p)] = b]) = Len(chunks)
  <1>1. Offset(p) \in Offsets /\ 0 \in 0 .. 255
    BY PositionFacts
  <1>2. Len(chunks) \in Nat /\ \A c \in 1 .. Len(chunks) : chunks[c] \in Chunk
    OBVIOUS
  <1>3. [[o \in Offsets |-> 0] EXCEPT ![Offset(p)] = b] \in Chunk
    BY <1>1 DEF Chunk
  <1>4. ASSUME NEW c \in 1 .. Len(chunks)
        PROVE  /\ [chunks EXCEPT ![c][Offset(p)] = b] \in Seq(Chunk)
               /\ Len([chunks EXCEPT ![c][Offset(p)] = b]) = Len(chunks)
    <2> DEFINE k == [chunks[c] EXCEPT ![Offset(p)] = b]
    <2>1. k \in Chunk
      BY <1>1, <1>2 DEF Chunk
    <2>2. [chunks EXCEPT ![c][Offset(p)] = b] = [chunks EXCEPT ![c] = k]
      OBVIOUS
    <2> HIDE DEF k
    <2>3. [chunks EXCEPT ![c] = k] \in Seq(Chunk) /\ Len([chunks EXCEPT ![c] = k]) = Len(chunks)
      BY <2>1
    <2> QED
      BY <2>1, <2>2, <2>3
  <1> QED
    BY <1>2, <1>3, <1>4

\* plot place keeps the invariant.
LEMMA PlaceStep ==
  ASSUME IInv, NEW p \in Position, NEW arg \in BlockArg, PlotPlace(p, arg)
  PROVE  IInv'
  <1> DEFINE P == ChunkPos(p)
             b == ToUint8(arg)
             n == Len(chunks)
             found == GetLeafPtr(tree, P)
             again == GetLeafPtr(found.tree, P)
             chunk == GetLeaf(found)
  <1>1. /\ size \in Sizes /\ tree.log2 = CountBits(size) /\ TreeOf(tree, n)
        /\ chunks \in Seq(Chunk) /\ ret \in 0 .. 255 \union {NULL}
    BY DEF IInv
  <1>2. b \in 0 .. 255
    BY ByteFacts
  <1>3. /\ IF chunk # 0
           THEN /\ tree' = found.tree
                /\ chunks' = [chunks EXCEPT ![chunk][Offset(p)] = b]
           ELSE IF again.ptr = -1
           THEN /\ tree' = again.tree
                /\ UNCHANGED chunks
           ELSE /\ tree' = SetLeaf(again, n + 1)
                /\ chunks' = Append(chunks, [[o \in Offsets |-> 0] EXCEPT ![Offset(p)] = b])
        /\ size' = size /\ ret' = ret
    BY DEF PlotPlace, SetBlock
  <1> HIDE DEF b
  <1>4. /\ n \in Nat
        /\ [[o \in Offsets |-> 0] EXCEPT ![Offset(p)] = b] \in Chunk
        /\ \A c \in 1 .. n :
             /\ [chunks EXCEPT ![c][Offset(p)] = b] \in Seq(Chunk)
             /\ Len([chunks EXCEPT ![c][Offset(p)] = b]) = n
    BY <1>1, <1>2, ChunkFacts
  <1>5. /\ TreeOf(found.tree, n) /\ found.tree.log2 = tree.log2 /\ chunk \in 0 .. n
        /\ again = found
        /\ found.ptr # -1 /\ chunk = 0 =>
             TreeOf(SetLeaf(found, n + 1), n + 1) /\ SetLeaf(found, n + 1).log2 = tree.log2
    BY <1>1, <1>4, Traversal
  <1> HIDE DEF found, again, chunk
  <1>6. TreeOf(tree', Len(chunks')) /\ tree'.log2 = tree.log2 /\ chunks' \in Seq(Chunk)
    <2>1. CASE chunk # 0
      <3>1. chunk \in 1 .. n
        BY <1>4, <1>5, <2>1
      <3>2. tree' = found.tree /\ chunks' \in Seq(Chunk) /\ Len(chunks') = n
        BY <1>3, <1>4, <2>1, <3>1
      <3> QED
        BY <1>5, <3>2
    <2>2. CASE chunk = 0 /\ again.ptr = -1
      BY <1>1, <1>3, <1>5, <2>2
    <2>3. CASE chunk = 0 /\ again.ptr # -1
      <3> DEFINE new == [[o \in Offsets |-> 0] EXCEPT ![Offset(p)] = b]
      <3>1. tree' = SetLeaf(found, n + 1) /\ chunks' = Append(chunks, new) /\ new \in Chunk
        BY <1>3, <1>4, <1>5, <2>3
      <3> HIDE DEF new
      <3>2. chunks' \in Seq(Chunk) /\ Len(chunks') = n + 1
        BY <1>1, <3>1
      <3> QED
        BY <1>5, <2>3, <3>1, <3>2
    <2> QED
      BY <2>1, <2>2, <2>3
  <1> QED
    BY <1>1, <1>3, <1>6 DEF IInv

\* plot get keeps the invariant.
LEMMA GetStep ==
  ASSUME IInv, NEW p \in Position, PlotGet(p)
  PROVE  IInv'
  <1> DEFINE P == ChunkPos(p)
             n == Len(chunks)
             found == GetLeafPtr(tree, P)
             chunk == GetLeaf(found)
  <1>1. /\ size \in Sizes /\ tree.log2 = CountBits(size) /\ TreeOf(tree, n)
        /\ chunks \in Seq(Chunk) /\ ret \in 0 .. 255 \union {NULL}
    BY DEF IInv
  <1>2. /\ ret' = IF chunk = 0 THEN NULL ELSE chunks[chunk][Offset(p)]
        /\ tree' = found.tree /\ size' = size /\ chunks' = chunks
    BY DEF PlotGet
  <1>3. n \in Nat /\ \A c \in 1 .. n : chunks[c][Offset(p)] \in 0 .. 255
    <2>1. \A c \in 1 .. n : chunks[c] \in Chunk
      BY <1>1
    <2> QED
      BY <1>1, <2>1, PositionFacts DEF Chunk
  <1>4. TreeOf(found.tree, n) /\ found.tree.log2 = tree.log2 /\ chunk \in 0 .. n
    BY <1>1, <1>3, Traversal
  <1> HIDE DEF found, chunk
  <1>5. ret' \in 0 .. 255 \union {NULL}
    <2>1. chunk # 0 => chunk \in 1 .. n
      BY <1>3, <1>4
    <2> QED
      BY <1>2, <1>3, <2>1
  <1> QED
    BY <1>1, <1>2, <1>4, <1>5 DEF IInv

\* The invariant holds at the start.
LEMMA InitHolds ==
  ASSUME Init
  PROVE  IInv
  <1>1. size \in Sizes /\ tree = NewSsvo(CountBits(size)) /\ chunks = <<>> /\ ret = NULL
    BY DEF Init
  <1>2. CountBits(size) \in Nat
    <2>1. size \in 1 .. 255
      BY <1>1, PlotStorageAssumption
    <2> QED
      BY <2>1, BitsRange
  <1>3. TreeOf(tree, 0) /\ tree.log2 = CountBits(size)
    BY <1>1, <1>2, NewTree DEF TreeOf
  <1>4. Len(chunks) = 0 /\ chunks \in Seq(Chunk)
    BY <1>1
  <1> QED
    BY <1>1, <1>3, <1>4 DEF IInv

\* IInv holds in every state: the octree is a tree of nodes that share no entry, and each
\* chunk hangs on one of its pointers.
THEOREM Inductive == Spec => []IInv
  <1>1. Init => IInv
    BY InitHolds
  <1>2. IInv /\ [Next]_vars => IInv'
    <2> SUFFICES ASSUME IInv, [Next]_vars
                 PROVE  IInv'
      OBVIOUS
    <2>1. ASSUME NEW p \in Position, PlotGet(p)
          PROVE  IInv'
      BY <2>1, GetStep
    <2>2. ASSUME NEW p \in Position, NEW arg \in BlockArg, PlotPlace(p, arg)
          PROVE  IInv'
      BY <2>2, PlaceStep
    <2>3. CASE UNCHANGED vars
      <3>1. size' = size /\ tree' = tree /\ chunks' = chunks /\ ret' = ret
        BY <2>3 DEF vars
      <3> QED
        BY <3>1 DEF IInv
    <2> QED
      BY <2>1, <2>2, <2>3 DEF Next
  <1> QED
    BY <1>1, <1>2, PTL DEF Spec

\* TypeOK: buffers are numbered without a gap, and no entry that holds something was not
\* given away.
THEOREM TypeCorrect == Spec => []TypeOK
  <1>1. IInv => TypeOK
    <2> SUFFICES ASSUME IInv
                 PROVE  TypeOK
      OBVIOUS
    <2>1. Shape(tree)
      BY DEF IInv, TreeOf
    <2> QED
      BY <2>1, ShapeType DEF IInv, TypeOK, Chunk
  <1> QED
    BY <1>1, Inductive, PTL

-----------------------------------------------------------------------------
(* What the traversals that look an octree up find in it.                  *)

\* The nodes of a level, as NodesOn has them.
Level(N, l) == {<<x[2], x[3]>> : x \in {y \in N : y[1] = l}}

\* The children of some nodes, and the pointers of some leaf nodes.
Below(t, S) == {Child(t, n, c) : n \in S, c \in 0 .. 7} \ {<<>>}
PlacesOf(S, K) == {<<n[1], n[2] + PtrEntries * c>> : n \in S, c \in K}

\* Child is Kid.
LEMMA ChildIsKid ==
  ASSUME NEW t, NEW x, NEW c \in 0 .. 7
  PROVE  LET n == <<x[2], x[3]>>
         IN  IF Link(t, x, c) = 0 THEN Child(t, n, c) = <<>>
             ELSE /\ Child(t, n, c) = <<Kid(t, x, c)[2], Kid(t, x, c)[3]>>
                  /\ Child(t, n, c) # <<>>
  BY DEF Child, Kid, Link, Ent

\* The children of the nodes of a level are the nodes of the level below.
LEMMA LevelBelow ==
  ASSUME NEW t, NEW N, Shape(t), Well(t, N), NEW l \in 1 .. t.log2, l # t.log2
  PROVE  Below(t, Level(N, l + 1)) = Level(N, l)
  <1> DEFINE below == Below(t, Level(N, l + 1))
  <1>1. t.log2 \in Nat /\ l \in Nat /\ l + 1 > 1
    BY DEF Shape
  <1>2. ASSUME NEW k \in below
        PROVE  k \in Level(N, l)
    <2>1. PICK x \in N, c \in 0 .. 7 :
            x[1] = l + 1 /\ k = Child(t, <<x[2], x[3]>>, c) /\ k # <<>>
      BY DEF Level, Below
    <2>2. Link(t, x, c) # 0 /\ k = <<Kid(t, x, c)[2], Kid(t, x, c)[3]>>
      BY <2>1, ChildIsKid
    <2>3. Kid(t, x, c) \in N
      BY <1>1, <2>1, <2>2 DEF Well, Closed, Linked
    <2>4. Kid(t, x, c)[1] = l
      BY <1>1, <2>1 DEF Kid
    <2> QED
      BY <2>2, <2>3, <2>4 DEF Level
  <1>3. ASSUME NEW k \in Level(N, l)
        PROVE  k \in below
    <2>1. PICK y \in N : y[1] = l /\ k = <<y[2], y[3]>>
      BY DEF Level
    <2>2. y # Root(t)
      BY <2>1 DEF Root
    <2>3. PICK x \in N, c \in 0 .. 7 : Linked(t, x, c) /\ Kid(t, x, c) = y
      BY <2>2 DEF Well, OneParent
    <2>4. x[1] = l + 1
      <3>1. Kid(t, x, c)[1] = x[1] - 1
        BY DEF Kid
      <3>2. x[1] \in 1 .. t.log2
        BY NodeFacts
      <3> QED
        BY <1>1, <2>1, <2>3, <3>1, <3>2
    <2>5. Child(t, <<x[2], x[3]>>, c) = k /\ k # <<>>
      BY <2>1, <2>3, ChildIsKid DEF Linked
    <2>6. <<x[2], x[3]>> \in Level(N, l + 1)
      BY <2>4 DEF Level
    <2> QED
      BY <2>5, <2>6 DEF Below
  <1> QED
    BY <1>2, <1>3

\* The nodes that are found on all ways are the nodes there are.
LEMMA NodesFound ==
  ASSUME NEW t, NEW N, Shape(t), Well(t, N), NEW l \in 1 .. t.log2
  PROVE  NodesOn(t, AllKids, l) = Level(N, l)
  <1> DEFINE d == t.log2
             Is(g) == g = [k \in 1 .. d |->
                             IF k = d THEN {<<0, 0>>}
                             ELSE Below(t, g[k + 1])]
             at[k \in 1 .. d] ==
               IF k = d THEN {<<0, 0>>}
               ELSE Below(t, at[k + 1])
  <1>1. d \in Nat /\ d # 0 /\ d \in 1 .. d
    <2>1. d \in Nat
      BY DEF Shape
    <2> QED
      BY <2>1
  <1>2. NodesOn(t, AllKids, l) = at[l]
    BY DEF NodesOn, AllKids, Below
  <1>3. Level(N, d) = {<<0, 0>>}
    <2>1. Root(t) \in N /\ \A x \in N : x[1] = d => x = Root(t)
      BY <1>1 DEF Well, Rooted
    <2>2. Root(t)[1] = d /\ Root(t)[2] = 0 /\ Root(t)[3] = 0
      BY DEF Root
    <2> QED
      BY <2>1, <2>2 DEF Level
  <1>4. \A k \in 1 .. d : k # d =>
          /\ k + 1 \in 1 .. d
          /\ Below(t, Level(N, k + 1)) = Level(N, k)
    BY <1>1, LevelBelow
  <1> HIDE DEF d
  <1>5. Is([k \in 1 .. d |-> Level(N, k)])
    <2> DEFINE g == [k \in 1 .. d |-> Level(N, k)]
    <2>1. ASSUME NEW k \in 1 .. d
          PROVE  Level(N, k) = IF k = d THEN {<<0, 0>>}
                               ELSE Below(t, g[k + 1])
      <3>1. CASE k = d
        BY <1>3, <3>1
      <3>2. CASE k # d
        <4>1. g[k + 1] = Level(N, k + 1)
          BY <1>4, <3>2
        <4> HIDE DEF g
        <4> QED
          BY <1>4, <3>2, <4>1
      <3> QED
        BY <3>1, <3>2
    <2> QED
      BY <2>1
  <1>6. Is(at)
    <2>1. \E g : Is(g)
      BY <1>5
    <2> QED
      BY <2>1, Zenon
  <1> HIDE DEF at
  <1>7. \A k \in 1 .. d : at[k] = Level(N, k)
    <2> DEFINE S == {k \in 1 .. d : at[k] = Level(N, k)}
    <2>1. d \in S
      BY <1>1, <1>3, <1>6
    <2>2. ASSUME NEW k \in 1 .. d, k # d, k + 1 \in S
          PROVE  k \in S
      <3>1. at[k] = Below(t, at[k + 1])
        BY <1>6, <2>2
      <3>2. at[k + 1] = Level(N, k + 1)
        BY <2>2
      <3>3. at[k] = Level(N, k)
        BY <1>4, <2>2, <3>1, <3>2
      <3> QED
        BY <3>3
    <2> HIDE DEF S
    <2>3. 1 .. d \subseteq S
      BY <1>1, <2>1, <2>2, Downward
    <2> QED
      BY <2>3 DEF S
  <1> QED
    BY <1>2, <1>7 DEF d

\* So are the pointers.
LEMMA PointersFound ==
  ASSUME NEW t, NEW N, Shape(t), Well(t, N)
  PROVE  PointersOn(t, AllKids) = Places(t, N)
  <1>1. CASE t.log2 = 0
    BY <1>1 DEF PointersOn, Places
  <1>2. CASE t.log2 # 0
    <2>1. 1 \in 1 .. t.log2
      BY <1>2 DEF Shape
    <2>2. NodesOn(t, AllKids, 1) = Level(N, 1)
      BY <2>1, NodesFound
    <2>3. PointersOn(t, AllKids) = PlacesOf(NodesOn(t, AllKids, 1), AllKids(1))
      BY <1>2 DEF PointersOn, PlacesOf
    <2>4. AllKids(1) = 0 .. 7
      BY DEF AllKids
    <2>5. ASSUME NEW q \in PlacesOf(Level(N, 1), 0 .. 7)
          PROVE  q \in Places(t, N)
      <3>1. PICK k \in Level(N, 1), c \in 0 .. 7 : q = <<k[1], k[2] + PtrEntries * c>>
        BY DEF PlacesOf
      <3>2. PICK x \in N : x[1] = 1 /\ k = <<x[2], x[3]>>
        BY DEF Level
      <3>3. q = <<x[2], x[3] + PtrEntries * c>>
        BY <3>1, <3>2
      <3> QED
        BY <1>2, <3>2, <3>3 DEF Places
    <2>6. ASSUME NEW q \in Places(t, N)
          PROVE  q \in PlacesOf(Level(N, 1), 0 .. 7)
      <3>1. PICK x \in N, c \in 0 .. 7 : x[1] = 1 /\ q = <<x[2], x[3] + PtrEntries * c>>
        BY <1>2 DEF Places
      <3> DEFINE k == <<x[2], x[3]>>
      <3>2. k \in Level(N, 1) /\ k[1] = x[2] /\ k[2] = x[3]
        BY <3>1 DEF Level
      <3> HIDE DEF k
      <3> QED
        BY <3>1, <3>2 DEF PlacesOf
    <2> QED
      BY <2>2, <2>3, <2>5, <2>6, <2>4
  <1> QED
    BY <1>1, <1>2

\* There are finitely many nodes, and one link less than nodes.
LEMMA LinkCount ==
  ASSUME NEW t, NEW N, Shape(t), Well(t, N), N # {}
  PROVE  Cardinality({k \in N \X (0 .. 7) : Linked(t, k[1], k[2])}) = Cardinality(N) - 1
  <1> DEFINE d == t.log2
             A == 1 .. d
             B == Bufs(t)
             C == 0 .. OVB_SIZE
             L == {k \in N \X (0 .. 7) : Linked(t, k[1], k[2])}
             R == N \ {Root(t)}
  <1>1. \A x \in N : /\ x[1] \in A /\ x[2] \in B /\ x[3] \in C /\ x = <<x[1], x[2], x[3]>>
    <2> SUFFICES ASSUME NEW x \in N
                 PROVE  /\ x[1] \in A /\ x[2] \in B /\ x[3] \in C /\ x = <<x[1], x[2], x[3]>>
      OBVIOUS
    <2>1. /\ x[1] \in A /\ x[2] \in B /\ x[3] \in Nat /\ x = <<x[1], x[2], x[3]>>
          /\ Span(x[1]) \in Nat /\ x[3] + Span(x[1]) <= Used(t, x[2])
      BY NodeFacts
    <2>2. Used(t, x[2]) \in 0 .. OVB_SIZE
      BY <2>1, FreeEntries
    <2> QED
      BY <2>1, <2>2, ConstantFacts
  <1>2. IsFiniteSet(N)
    <2>1. d \in Nat /\ Nb(t) \in Nat
      BY ConstantFacts DEF Shape
    <2> HIDE DEF d
    <2>2. IsFiniteSet(A) /\ IsFiniteSet(B) /\ IsFiniteSet(C)
      BY <2>1, ConstantFacts, FS_Interval DEF Bufs
    <2> HIDE DEF A, B, C
    <2>3. IsFiniteSet(A \X (B \X C))
      <3>1. IsFiniteSet(B \X C)
        BY <2>2, FS_Product
      <3> QED
        BY <2>2, <3>1, FS_Product
    <2> DEFINE f == [x \in N |-> <<x[1], <<x[2], x[3]>>>>]
    <2>4. f \in Injection(N, A \X (B \X C))
      <3>1. f \in [N -> A \X (B \X C)]
        BY <1>1
      <3>2. \A x, y \in N : f[x] = f[y] => x = y
        <4> SUFFICES ASSUME NEW x \in N, NEW y \in N, f[x] = f[y]
                     PROVE  x = y
          OBVIOUS
        <4>1. <<x[1], <<x[2], x[3]>>>> = <<y[1], <<y[2], y[3]>>>>
          OBVIOUS
        <4>2. x[1] = y[1] /\ x[2] = y[2] /\ x[3] = y[3]
          BY <4>1
        <4> QED
          BY <1>1, <4>2
      <3> QED
        BY <3>1, <3>2 DEF Injection, IsInjective
    <2> HIDE DEF f
    <2> QED
      BY <2>3, <2>4, FS_Injection
  <1>3. Root(t) \in N
    <2>1. PICK x \in N : TRUE
      OBVIOUS
    <2>2. d \in Nat /\ d # 0
      BY <1>1, <2>1 DEF Shape
    <2> QED
      BY <2>2 DEF Well, Rooted
  <1>4. IsFiniteSet(L)
    <2>1. IsFiniteSet(N \X (0 .. 7))
      <3>1. IsFiniteSet(0 .. 7)
        <4>1. PICK m \in Nat : m = 7
          OBVIOUS
        <4>2. IsFiniteSet(0 .. m)
          BY FS_Interval
        <4> QED
          BY <4>1, <4>2
      <3> QED
        BY <1>2, <3>1, FS_Product
    <2>2. L \in SUBSET (N \X (0 .. 7))
      OBVIOUS
    <2> HIDE DEF L
    <2> QED
      BY <2>1, <2>2, FS_Subset
  <1>5. ExistsBijection(L, R)
    <2> DEFINE f == [k \in L |-> Kid(t, k[1], k[2])]
    <2>1. ASSUME NEW k \in L
          PROVE  Kid(t, k[1], k[2]) \in R
      <3>1. k[1] \in N /\ k[2] \in 0 .. 7 /\ Linked(t, k[1], k[2])
        OBVIOUS
      <3>2. Kid(t, k[1], k[2]) \in N
        BY <3>1 DEF Well, Closed
      <3>3. Kid(t, k[1], k[2])[1] = k[1][1] - 1
        BY DEF Kid
      <3>4. k[1][1] \in 1 .. d /\ d \in Nat
        BY <1>1, <3>1 DEF Shape
      <3>5. Kid(t, k[1], k[2]) # Root(t)
        BY <3>3, <3>4 DEF Root
      <3> QED
        BY <3>2, <3>5
    <2>2. f \in [L -> R]
      <3> HIDE DEF R, L
      <3> QED
        BY <2>1
    <2>3. \A k, m \in L : f[k] = f[m] => k = m
      <3> SUFFICES ASSUME NEW k \in L, NEW m \in L, f[k] = f[m]
                   PROVE  k = m
        OBVIOUS
      <3>1. /\ k = <<k[1], k[2]>> /\ k[1] \in N /\ k[2] \in 0 .. 7 /\ Linked(t, k[1], k[2])
            /\ m = <<m[1], m[2]>> /\ m[1] \in N /\ m[2] \in 0 .. 7 /\ Linked(t, m[1], m[2])
        OBVIOUS
      <3>2. Kid(t, k[1], k[2]) = Kid(t, m[1], m[2])
        <4> HIDE DEF L
        <4> QED
          OBVIOUS
      <3> HIDE DEF L, f
      <3>3. k[1] = m[1] /\ k[2] = m[2]
        BY <3>1, <3>2 DEF Well, OneParent
      <3> QED
        BY <3>1, <3>3
    <2>4. \A y \in R : \E k \in L : f[k] = y
      <3> SUFFICES ASSUME NEW y \in R
                   PROVE  \E k \in L : f[k] = y
        OBVIOUS
      <3>1. PICK x \in N, c \in 0 .. 7 : Linked(t, x, c) /\ Kid(t, x, c) = y
        BY DEF Well, OneParent
      <3>2. <<x, c>> \in L /\ <<x, c>>[1] = x /\ <<x, c>>[2] = c
        BY <3>1
      <3>3. f[<<x, c>>] = y
        <4> HIDE DEF L
        <4> QED
          BY <3>1, <3>2
      <3> QED
        BY <3>2, <3>3
    <2> HIDE DEF f, L, R
    <2>5. f \in Bijection(L, R)
      <3>1. DOMAIN f = L
        BY <2>2
      <3> QED
        BY <2>2, <2>3, <2>4, <3>1 DEF Bijection, Injection, Surjection, IsInjective
    <2> QED
      BY <2>5 DEF ExistsBijection
  <1>6. Cardinality(R) = Cardinality(N) - 1
    BY <1>2, <1>3, FS_RemoveElement
  <1> HIDE DEF L, R
  <1>7. Cardinality(R) = Cardinality(L)
    BY <1>4, <1>5, FS_Bijection
  <1> QED
    BY <1>6, <1>7 DEF L

\* A tree of nodes is well formed, and each chunk has one pointer.
LEMMA TreeSound ==
  ASSUME NEW t, NEW n \in Nat, TreeOf(t, n)
  PROVE  WellFormed(t) /\ \A c \in 1 .. n : Cardinality(PointersTo(t, c)) = 1
  <1>1. PICK N : Shape(t) /\ Well(t, N) /\ Hung(t, N, n)
    BY DEF TreeOf
  <1> DEFINE nodes == UNION {{<<l, m[1], m[2]>> : m \in NodesOn(t, AllKids, l)} : l \in 1 .. t.log2}
             after(m) == m[3] + (IF m[1] = 1 THEN 8 * PtrEntries ELSE 8)
             links == {k \in nodes \X (0 .. 7) :
                         k[1][1] > 1 /\ Child(t, <<k[1][2], k[1][3]>>, k[2]) # <<>>}
  <1>2. nodes = N
    <2>1. nodes = UNION {{<<l, m[1], m[2]>> : m \in Level(N, l)} : l \in 1 .. t.log2}
      <3>1. \A l \in 1 .. t.log2 : NodesOn(t, AllKids, l) = Level(N, l)
        BY <1>1, NodesFound
      <3> QED
        BY <3>1
    <2> HIDE DEF nodes
    <2>2. \A x \in N : x[1] \in 1 .. t.log2 /\ x = <<x[1], x[2], x[3]>>
      BY <1>1, NodeFacts
    <2>3. ASSUME NEW x \in N
          PROVE  x \in nodes
      <3>1. <<x[2], x[3]>> \in Level(N, x[1])
        BY DEF Level
      <3>2. x \in {<<x[1], m[1], m[2]>> : m \in Level(N, x[1])}
        BY <2>2, <3>1
      <3> QED
        BY <2>1, <2>2, <3>2
    <2>4. ASSUME NEW x \in nodes
          PROVE  x \in N
      <3>1. PICK l \in 1 .. t.log2 : \E m \in Level(N, l) : x = <<l, m[1], m[2]>>
        BY <2>1
      <3>2. PICK y \in N : y[1] = l /\ x = <<l, y[2], y[3]>>
        BY <3>1 DEF Level
      <3>3. x = y
        BY <2>2, <3>1, <3>2
      <3> QED
        BY <3>3
    <2> QED
      BY <2>3, <2>4
  <1> HIDE DEF nodes
  <1>3. \A x \in N : after(x) = x[3] + Span(x[1])
    BY DEF Span
  <1>4. links = {k \in N \X (0 .. 7) : Linked(t, k[1], k[2])}
    <2>1. \A k \in N \X (0 .. 7) :
            (Child(t, <<k[1][2], k[1][3]>>, k[2]) # <<>>) <=> (Link(t, k[1], k[2]) # 0)
      BY ChildIsKid
    <2> QED
      BY <1>2, <2>1 DEF Linked
  <1>5. WellFormed(t)
    <2>1. \A m \in nodes : after(m) <= t.ovt[m[2]].used
      BY <1>1, <1>2, <1>3 DEF Well, Inside, Used
    <2>2. \A l, m \in nodes : l # m /\ l[2] = m[2] => after(l) <= m[3] \/ after(m) <= l[3]
      BY <1>1, <1>2, <1>3 DEF Well, Apart
    <2>3. nodes # {} => Cardinality(links) = Cardinality(nodes) - 1
      BY <1>1, <1>2, <1>4, LinkCount
    <2> QED
      BY <2>1, <2>2, <2>3 DEF WellFormed, nodes
  <1>6. ASSUME NEW c \in 1 .. n
        PROVE  Cardinality(PointersTo(t, c)) = 1
    <2>1. PointersTo(t, c) = {q \in Places(t, N) : Ptr(t, q) = c}
      BY <1>1, PointersFound DEF PointersTo, Ptr
    <2>2. PICK q \in Places(t, N) : Ptr(t, q) = c
      BY <1>1 DEF Hung
    <2>3. \A r \in Places(t, N) : Ptr(t, r) = c => r = q
      BY <1>1, <2>2 DEF Hung
    <2>4. PointersTo(t, c) = {q}
      BY <2>1, <2>2, <2>3
    <2> QED
      BY <2>4, FS_Singleton
  <1> QED
    BY <1>5, <1>6

\* OctreeSound: no two nodes share an entry, each but the root has one parent, and each
\* chunk hangs on one pointer, however the table fills up.
THEOREM Sound == Spec => []OctreeSound
  <1>1. IInv => OctreeSound
    <2> SUFFICES ASSUME IInv
                 PROVE  OctreeSound
      OBVIOUS
    <2>1. TreeOf(tree, Len(chunks)) /\ chunks \in Seq(Chunk)
      BY DEF IInv
    <2>2. Len(chunks) \in Nat /\ DOMAIN chunks = 1 .. Len(chunks)
      BY <2>1
    <2> QED
      BY <2>1, <2>2, TreeSound DEF OctreeSound
  <1> QED
    BY <1>1, Inductive, PTL

-----------------------------------------------------------------------------
(* A block that is placed is there.                                        *)

\* The children on position p's way, and what is found on it at each level.
Toward(t, S, c) == {Child(t, n, k) : n \in S, k \in {c}} \ {<<>>}
Along(f, t, p) ==
  f = [level \in 1 .. t.log2 |->
         IF level = t.log2 THEN {<<0, 0>>}
         ELSE Toward(t, f[level + 1], ChildIndex(p, level + 1))]

\* The pointers a look-up finds.
PointersAt(t, p) == PointersOn(t, LAMBDA level : {ChildIndex(p, level)})

\* A look-up finds one of the pointers of the leaf node it comes to.
LEMMA LookUp ==
  ASSUME NEW t, t.log2 \in Nat, t.log2 # 0, NEW p, NEW f, Along(f, t, p)
  PROVE  PointersAt(t, p) = PlacesOf(f[1], {ChildIndex(p, 1)})
  <1> DEFINE d == t.log2
             at[level \in 1 .. d] ==
               IF level = d THEN {<<0, 0>>}
               ELSE Toward(t, at[level + 1], ChildIndex(p, level + 1))
  <1>1. PointersAt(t, p) = PlacesOf(at[1], {ChildIndex(p, 1)})
    BY DEF PointersAt, PointersOn, NodesOn, PlacesOf, Toward
  <1>2. Along(at, t, p)
    <2>1. \E h : h = [level \in 1 .. d |->
                        IF level = d THEN {<<0, 0>>}
                        ELSE Toward(t, h[level + 1], ChildIndex(p, level + 1))]
      BY DEF Along
    <2> QED
      BY <2>1, Zenon DEF Along
  <1>3. d \in Nat /\ 1 \in 1 .. d /\ d \in 1 .. d
    OBVIOUS
  <1> HIDE DEF at, d
  <1>4. ASSUME NEW h, Along(h, t, p)
        PROVE  \A level \in 1 .. d :
                 h[level] = IF level = d THEN {<<0, 0>>}
                            ELSE Toward(t, h[level + 1], ChildIndex(p, level + 1))
    BY <1>4 DEF Along, d
  <1>5. \A level \in 1 .. d : at[level] = f[level]
    <2> DEFINE S == {level \in 1 .. d : at[level] = f[level]}
    <2>1. d \in S
      BY <1>2, <1>3, <1>4
    <2>2. ASSUME NEW level \in 1 .. d, level # d, level + 1 \in S
          PROVE  level \in S
      <3>1. at[level + 1] = f[level + 1]
        BY <2>2
      <3>2. at[level] = Toward(t, at[level + 1], ChildIndex(p, level + 1))
        BY <1>2, <1>4, <2>2
      <3>3. f[level] = Toward(t, f[level + 1], ChildIndex(p, level + 1))
        BY <1>4, <2>2
      <3> QED
        BY <3>1, <3>2, <3>3
    <2> HIDE DEF S
    <2>3. 1 .. d \subseteq S
      BY <1>3, <2>1, <2>2, Downward
    <2> QED
      BY <2>3 DEF S
  <1> QED
    BY <1>1, <1>3, <1>5

\* A look-up beside the traversal that returns g: when the traversal finds no room it finds
\* no pointer, and it finds the same pointer as a traversal which adds nothing.
Beside(t, N, p, g) ==
  \E f : /\ Along(f, t, p) /\ \A level \in 1 .. t.log2 : f[level] \subseteq Level(N, level)
         /\ g.ptr = -1 => f[1] = {} /\ Nb(g.tree) = OVT_SIZE
         /\ g.ptr # -1 /\ g.tree = t =>
              PlacesOf(f[1], {ChildIndex(p, 1)}) = {<<g.ovb, g.ptr>>}

\* A look-up goes the way of a traversal as far as the octree has it.
LEMMA LookedUp ==
  ASSUME NEW t, NEW n \in Nat, NEW N, Shape(t), Well(t, N), Hung(t, N, n), t.log2 # 0,
         NEW p \in [1 .. 3 -> Nat]
  PROVE  Beside(t, N, p, GetLeafPtr(t, p))
  <1> DEFINE d == t.log2
             g == GetLeafPtr(t, p)
  <1>1. d \in Nat /\ d >= 1 /\ 1 \in 1 .. d /\ d \in 1 .. d
    BY DEF Shape
  <1>2. PICK r : /\ Way(r, t, p)
                 /\ g = [tree |-> Follow(r[1]).tree, ovb |-> Follow(r[1]).ovb,
                         ptr  |-> IF r[1].node = 0 THEN -1
                                  ELSE Follow(r[1]).node
                                         + PtrEntries * (IF d = 0 THEN 0 ELSE ChildIndex(p, 1))]
    BY <1>1, Loop
  <1>3. /\ r[d] = Place(t, 0, Msb)
        /\ \A level \in 1 .. d : Came(r[level], level, d, n)
        /\ \A level \in 1 .. d : level # d =>
             IF r[level + 1].node = 0 THEN r[level] = r[level + 1]
             ELSE /\ r[level] = Descend(Follow(r[level + 1]), level + 1, p)
                  /\ Walked(Follow(r[level + 1]), r[level],
                            Follow(r[level + 1]).node + ChildIndex(p, level + 1))
    BY <1>2, Rounds
  <1>4. \A level \in 1 .. d :
           /\ r[level] = Place(r[level].tree, r[level].ovb, r[level].node)
           /\ Follow(r[level]).tree = r[level].tree
           /\ Keeps(t, r[level].tree) /\ Keeps(r[level].tree, r[1].tree)
           /\ r[level].node = 0 => /\ r[1] = r[level]
                                   /\ Nb(r[level].tree) = OVT_SIZE
    BY <1>2, RoundsKeep
  <1> HIDE DEF g
  <1>5. /\ g.tree = r[1].tree /\ g.ovb = Follow(r[1]).ovb
        /\ g.ptr = IF r[1].node = 0 THEN -1 ELSE Follow(r[1]).node + PtrEntries * ChildIndex(p, 1)
    BY <1>1, <1>2, <1>4
  <1> DEFINE x(level) == <<level, Follow(r[level]).ovb, Follow(r[level]).node>>
             link(level) == Link(t, x(level), ChildIndex(p, level))
             There(level) == \A j \in 1 .. d : j > level => link(j) # 0
             f == [level \in 1 .. d |-> IF There(level) THEN {<<x(level)[2], x(level)[3]>>} ELSE {}]
  <1>6. r[d].tree = t /\ r[d].node # 0 /\ x(d) = <<d, 0, 0>> /\ x(d) \in N /\ There(d)
    <2>1. r[d].node = Msb /\ r[d].ovb = 0 /\ r[d].tree = t
      BY <1>3 DEF Place
    <2>2. Follow(r[d]).ovb = 0 /\ Follow(r[d]).node = 0 /\ Msb # 0
      <3>1. Msb \in Nat /\ Msb # 0 /\ Msb >= Msb /\ Msb - Msb = 0
        BY ConstantFacts
      <3> QED
        BY <1>1, <1>4, <2>1, <3>1, FollowFacts
    <2>3. Root(t) \in N
      BY <1>1 DEF Well, Rooted
    <2> QED
      BY <1>1, <2>1, <2>2, <2>3 DEF Root
  <1>7. ASSUME NEW level \in 1 .. d, level # d
        PROVE  /\ level + 1 \in 1 .. d /\ level + 1 > 1 /\ ChildIndex(p, level + 1) \in 0 .. 7
               /\ There(level) <=> There(level + 1) /\ link(level + 1) # 0
    <2>1. level + 1 \in 1 .. d /\ level + 1 > 1 /\ level + 1 \in Nat /\ level + 1 >= 1
      BY <1>1, <1>7
    <2>2. ChildIndex(p, level + 1) \in 0 .. 7
      BY <2>1, ChildIndexRange
    <2> HIDE DEF link
    <2>3. \A j \in 1 .. d : j > level <=> j = level + 1 \/ j > level + 1
      BY <1>1, <1>7
    <2> QED
      BY <2>1, <2>2, <2>3
  <1>8. ASSUME NEW level \in 1 .. d, level # d, x(level + 1) \in N, r[level + 1].node # 0,
               link(level + 1) # 0
        PROVE  /\ r[level].node # 0 /\ x(level) \in N
               /\ x(level) = Kid(t, x(level + 1), ChildIndex(p, level + 1))
    <2> DEFINE a == r[level + 1]
               b == r[level]
               at == Follow(a)
               y == x(level + 1)
               c == ChildIndex(p, level + 1)
               e == link(level + 1)
    <2>1. level + 1 \in 1 .. d /\ level + 1 > 1 /\ c \in 0 .. 7 /\ level \in Nat /\ level + 1 - 1 = level
      BY <1>1, <1>7, <1>8
    <2>2. y \in N /\ a.node # 0 /\ e # 0 /\ e = Ent(t, y[2], y[3] + c)
      BY <1>8 DEF Link
    <2>3. b = Descend(at, level + 1, p)
      BY <1>3, <1>8
    <2>4. at.tree = a.tree /\ Keeps(t, a.tree) /\ b = Place(b.tree, b.ovb, b.node)
      BY <1>4, <2>1
    <2>5. y[1] = level + 1 /\ y[2] = at.ovb /\ y[3] = at.node
      OBVIOUS
    <2>6. x(level) = <<level, Follow(b).ovb, Follow(b).node>>
      OBVIOUS
    <2>7. Kid(t, y, c) = IF e >= Msb THEN <<level, e - Msb, 0>> ELSE <<level, y[2], e>>
      BY <2>1, <2>5 DEF Kid
    <2>8. Linked(t, y, c)
      BY <2>1, <2>2, <2>5 DEF Linked
    <2> HIDE DEF a, b, at, y, c, e, x, link
    <2>9. y[2] \in Bufs(t) /\ y[3] + c \in Nat
      <3>1. y[2] \in Bufs(t) /\ y[3] \in Nat
        BY <2>2, NodeFacts
      <3> QED
        BY <2>1, <3>1
    <2>10. Ent(at.tree, at.ovb, at.node + c) = e
      BY <2>2, <2>4, <2>5, <2>9 DEF Keeps
    <2>11. b = Place(at.tree, at.ovb, e)
      BY <2>2, <2>3, <2>10 DEF Descend, Ent, c
    <2>12. b.node = e /\ b.ovb = at.ovb
      BY <2>11 DEF Place
    <2>13. x(level) = Kid(t, y, c)
      BY <2>4, <2>5, <2>6, <2>7, <2>12, FollowFacts
    <2>14. Kid(t, y, c) \in N
      BY <2>1, <2>2, <2>8 DEF Well, Closed
    <2> QED
      BY <2>2, <2>12, <2>13, <2>14 DEF b, y, c
  <1> HIDE DEF There, x, link
  <1>9. \A level \in 1 .. d : There(level) => r[level].node # 0 /\ x(level) \in N
    <2> DEFINE S == {level \in 1 .. d : There(level) => r[level].node # 0 /\ x(level) \in N}
    <2>1. d \in S
      BY <1>1, <1>6
    <2>2. \A level \in 1 .. d : level # d /\ level + 1 \in S => level \in S
      BY <1>7, <1>8
    <2> HIDE DEF S
    <2>3. 1 .. d \subseteq S
      BY <1>1, <2>1, <2>2, Downward
    <2> QED
      BY <2>3 DEF S
  <1>10. \A level \in 1 .. d :
           f[level] = IF There(level) THEN {<<x(level)[2], x(level)[3]>>} ELSE {}
    OBVIOUS
  <1>11. \A level \in 1 .. d : x(level)[1] = level /\ x(level)[2] = Follow(r[level]).ovb
                               /\ x(level)[3] = Follow(r[level]).node
    BY DEF x
  <1> HIDE DEF d
  <1>12. ASSUME NEW level \in 1 .. d
         PROVE  There(level) => r[level].node # 0
    BY <1>9
  <1>13. \A level \in 1 .. d :
           f[level] = IF level = d THEN {<<0, 0>>}
                      ELSE Toward(t, f[level + 1], ChildIndex(p, level + 1))
    <2> SUFFICES ASSUME NEW level \in 1 .. d
                 PROVE  f[level] = IF level = d THEN {<<0, 0>>}
                                   ELSE Toward(t, f[level + 1], ChildIndex(p, level + 1))
      OBVIOUS
    <2>1. CASE level = d
      <3>1. f[level] = {<<x(d)[2], x(d)[3]>>} /\ x(d)[2] = 0 /\ x(d)[3] = 0
        BY <1>6, <1>10, <2>1
      <3> QED
        BY <2>1, <3>1
    <2>2. CASE level # d
      <3> DEFINE c == ChildIndex(p, level + 1)
                 y == x(level + 1)
                 k == <<y[2], y[3]>>
      <3>1. /\ level + 1 \in 1 .. d /\ c \in 0 .. 7
            /\ There(level) <=> There(level + 1) /\ link(level + 1) # 0
        BY <1>7, <2>2
      <3>2. f[level + 1] = IF There(level + 1) THEN {k} ELSE {}
        BY <1>10, <3>1
      <3>3. f[level] = IF There(level) THEN {<<x(level)[2], x(level)[3]>>} ELSE {}
        BY <1>10
      <3>4. link(level + 1) = Link(t, y, c)
        BY DEF link
      <3>5. There(level + 1) /\ link(level + 1) # 0 => x(level) = Kid(t, y, c)
        BY <1>8, <1>9, <2>2, <3>1
      <3>6. IF Link(t, y, c) = 0 THEN Child(t, k, c) = <<>>
            ELSE Child(t, k, c) = <<Kid(t, y, c)[2], Kid(t, y, c)[3]>> /\ Child(t, k, c) # <<>>
        BY <3>1, ChildIsKid
      <3> HIDE DEF f, k, y, c
      <3>7. CASE ~There(level + 1)
        <4>1. f[level + 1] = {} /\ f[level] = {}
          BY <3>1, <3>2, <3>3, <3>7
        <4> QED
          BY <2>2, <4>1 DEF Toward, c
      <3>8. CASE There(level + 1) /\ link(level + 1) = 0
        <4>1. f[level + 1] = {k} /\ f[level] = {} /\ Child(t, k, c) = <<>>
          BY <3>1, <3>2, <3>3, <3>4, <3>6, <3>8
        <4> QED
          BY <2>2, <4>1 DEF Toward, c
      <3>9. CASE There(level + 1) /\ link(level + 1) # 0
        <4>1. /\ f[level + 1] = {k} /\ f[level] = {Child(t, k, c)} /\ Child(t, k, c) # <<>>
          BY <3>1, <3>2, <3>3, <3>4, <3>5, <3>6, <3>9
        <4> QED
          BY <2>2, <4>1 DEF Toward, c
      <3> QED
        BY <3>7, <3>8, <3>9
    <2> QED
      BY <2>1, <2>2
  <1>14. Along(f, t, p)
    <2>1. f = [level \in 1 .. d |-> f[level]]
      OBVIOUS
    <2> HIDE DEF f
    <2> QED
      BY <1>13, <2>1 DEF Along, d
  <1> HIDE DEF f
  <1>15. \A level \in 1 .. d : f[level] \subseteq Level(N, level)
    <2> SUFFICES ASSUME NEW level \in 1 .. d, There(level)
                 PROVE  <<x(level)[2], x(level)[3]>> \in Level(N, level)
      BY <1>10
    <2> QED
      BY <1>9, <1>11 DEF Level
  <1>16. g.ptr = -1 <=> r[1].node = 0
    <2>1. CASE r[1].node = 0
      BY <1>5, <2>1
    <2>2. CASE r[1].node # 0
      <3>1. PICK M : Well(r[1].tree, M) /\ <<1, Follow(r[1]).ovb, Follow(r[1]).node>> \in M
        BY <1>1, <1>3, <2>2 DEF Came
      <3> DEFINE z == <<1, Follow(r[1]).ovb, Follow(r[1]).node>>
      <3>2. z \in M /\ Shape(r[1].tree) /\ z[3] = Follow(r[1]).node
        BY <1>1, <1>3, <3>1 DEF Came
      <3> HIDE DEF z
      <3>3. Follow(r[1]).node \in Nat
        BY <3>1, <3>2, NodeFacts
      <3>4. PtrEntries * ChildIndex(p, 1) \in Nat
        BY ChildIndexRange, PtrApart
      <3> QED
        BY <1>5, <2>2, <3>3, <3>4
    <2> QED
      BY <2>1, <2>2
  <1>17. g.ptr = -1 => f[1] = {} /\ Nb(g.tree) = OVT_SIZE
    <2>1. r[1].node = 0 => ~There(1)
      BY <1>1, <1>9
    <2> QED
      BY <1>1, <1>4, <1>5, <1>10, <1>16, <2>1
  <1>18. ASSUME g.ptr # -1, g.tree = t
         PROVE  There(1)
    <2>1. \A level \in 1 .. d : r[level].node # 0
      BY <1>4, <1>16, <1>18
    <2>2. ASSUME NEW level \in 1 .. d, level # d
          PROVE  link(level + 1) # 0
      <3> DEFINE a == r[level + 1]
                 b == r[level]
                 at == Follow(a)
                 y == x(level + 1)
                 c == ChildIndex(p, level + 1)
      <3>1. level + 1 \in 1 .. d /\ c \in 0 .. 7
        BY <1>7, <2>2
      <3>2. Walked(at, b, at.node + c)
        BY <1>3, <2>1, <2>2, <3>1
      <3>3. /\ at.tree = a.tree /\ Keeps(b.tree, r[1].tree) /\ r[1].tree = t /\ b.node # 0
        BY <1>4, <1>5, <1>18, <2>1, <3>1
      <3>4. Came(a, level + 1, d, n) /\ a.node # 0
        BY <1>3, <2>1, <3>1
      <3>5. y = <<level + 1, at.ovb, at.node>> /\ y[2] = at.ovb /\ y[3] = at.node
        BY DEF x
      <3>6. link(level + 1) = Ent(t, y[2], y[3] + c)
        BY DEF link, Link
      <3> HIDE DEF a, b, at, y, c
      <3>7. at.ovb \in Bufs(a.tree) /\ at.node + c \in Nat
        <4>1. PICK M : Well(a.tree, M) /\ y \in M
          BY <3>4, <3>5 DEF Came, at
        <4>2. Shape(a.tree)
          BY <3>4 DEF Came
        <4>3. y[2] \in Bufs(a.tree) /\ y[3] \in Nat
          BY <4>1, <4>2, NodeFacts
        <4> QED
          BY <3>1, <3>5, <4>3
      <3>8. Ent(b.tree, at.ovb, at.node + c) = b.node /\ at.ovb \in Bufs(b.tree)
        BY <3>2, <3>3, <3>7 DEF Walked, Keeps
      <3> QED
        BY <3>3, <3>5, <3>6, <3>7, <3>8 DEF Keeps
    <2>3. ASSUME NEW j \in 1 .. d, j > 1
          PROVE  link(j) # 0
      <3> DEFINE k == j - 1
      <3>1. k \in 1 .. d /\ k # d /\ k + 1 = j
        BY <1>1, <2>3
      <3> HIDE DEF k
      <3>2. link(k + 1) # 0
        BY <2>2, <3>1
      <3> QED
        BY <3>1, <3>2
    <2> QED
      BY <2>3 DEF There
  <1>19. g.ptr # -1 /\ g.tree = t => PlacesOf(f[1], {ChildIndex(p, 1)}) = {<<g.ovb, g.ptr>>}
    <2> SUFFICES ASSUME g.ptr # -1, g.tree = t
                 PROVE  PlacesOf(f[1], {ChildIndex(p, 1)}) = {<<g.ovb, g.ptr>>}
      OBVIOUS
    <2>1. f[1] = {<<Follow(r[1]).ovb, Follow(r[1]).node>>}
      BY <1>1, <1>10, <1>11, <1>18
    <2> DEFINE k == <<Follow(r[1]).ovb, Follow(r[1]).node>>
    <2>2. k[1] = g.ovb /\ k[2] + PtrEntries * ChildIndex(p, 1) = g.ptr
      BY <1>5, <1>16
    <2>3. f[1] = {k}
      BY <2>1
    <2> HIDE DEF k
    <2> QED
      BY <2>2, <2>3 DEF PlacesOf
  <1> QED
    BY <1>14, <1>15, <1>17, <1>19 DEF Beside, g, d

\* A way is the same in a tree whose nodes have the same links.
LEMMA SameWay ==
  ASSUME NEW t, NEW u, NEW N, t.log2 \in Nat, u.log2 = t.log2, SameLinks(t, u, N),
         NEW p \in [1 .. 3 -> Nat], NEW f, Along(f, t, p),
         \A level \in 1 .. t.log2 : f[level] \subseteq Level(N, level)
  PROVE  Along(f, u, p)
  <1> DEFINE d == t.log2
  <1>1. ASSUME NEW level \in 1 .. d, level # d
        PROVE  Toward(u, f[level + 1], ChildIndex(p, level + 1))
                 = Toward(t, f[level + 1], ChildIndex(p, level + 1))
    <2> DEFINE c == ChildIndex(p, level + 1)
    <2>1. level + 1 \in 1 .. d /\ level + 1 > 1 /\ level + 1 \in Nat /\ level + 1 >= 1
      BY <1>1
    <2>2. c \in 0 .. 7
      BY <2>1, ChildIndexRange
    <2> HIDE DEF c
    <2>3. ASSUME NEW k \in f[level + 1]
          PROVE  Child(u, k, c) = Child(t, k, c)
      <3>1. PICK x \in N : x[1] = level + 1 /\ k = <<x[2], x[3]>>
        BY <2>1 DEF Level
      <3>2. Link(u, x, c) = Link(t, x, c)
        BY <2>1, <2>2, <3>1 DEF SameLinks
      <3>3. Kid(u, x, c) = Kid(t, x, c)
        BY <3>2 DEF Kid
      <3> DEFINE y == <<x[2], x[3]>>
      <3>4. /\ Link(t, x, c) = 0 => Child(t, y, c) = <<>>
            /\ Link(t, x, c) # 0 => Child(t, y, c) = <<Kid(t, x, c)[2], Kid(t, x, c)[3]>>
        BY <2>2, ChildIsKid
      <3>5. /\ Link(u, x, c) = 0 => Child(u, y, c) = <<>>
            /\ Link(u, x, c) # 0 => Child(u, y, c) = <<Kid(u, x, c)[2], Kid(u, x, c)[3]>>
        BY <2>2, ChildIsKid
      <3>6. k = y
        BY <3>1
      <3> HIDE DEF y
      <3> QED
        BY <3>2, <3>3, <3>4, <3>5, <3>6
    <2>4. Toward(u, f[level + 1], c) = Toward(t, f[level + 1], c)
      BY <2>3 DEF Toward
    <2> QED
      BY <2>4 DEF c
  <1>2. f = [level \in 1 .. d |->
               IF level = d THEN {<<0, 0>>}
               ELSE Toward(t, f[level + 1], ChildIndex(p, level + 1))]
    BY DEF Along
  <1>3. u.log2 = d
    OBVIOUS
  <1> HIDE DEF d
  <1>4. f = [level \in 1 .. d |->
               IF level = d THEN {<<0, 0>>}
               ELSE Toward(u, f[level + 1], ChildIndex(p, level + 1))]
    <2>1. [level \in 1 .. d |->
             IF level = d THEN {<<0, 0>>}
             ELSE Toward(t, f[level + 1], ChildIndex(p, level + 1))]
          = [level \in 1 .. d |->
               IF level = d THEN {<<0, 0>>}
               ELSE Toward(u, f[level + 1], ChildIndex(p, level + 1))]
      BY <1>1
    <2> QED
      BY <1>2, <2>1
  <1> QED
    BY <1>3, <1>4 DEF Along

\* The leaf that is looked up is what hangs on the pointers found.
LEMMA LeafOf ==
  ASSUME NEW t, NEW p, NEW q, PointersAt(t, p) = {q}
  PROVE  LeafAt(t, p) = {Ptr(t, q)} \ {0}
  BY DEF LeafAt, PointersAt, Ptr

\* After a traversal a look-up finds the pointer it found, and no other; when it found no
\* room a look-up finds nothing before, and the table is full.
LEMMA PointerAlong ==
  ASSUME NEW t, NEW n \in Nat, NEW N, Shape(t), Well(t, N), Hung(t, N, n),
         NEW p \in [1 .. 3 -> Nat]
  PROVE  LET g == GetLeafPtr(t, p)
         IN  /\ g.ptr = -1 => PointersAt(t, p) = {} /\ Nb(g.tree) = OVT_SIZE
             /\ g.ptr # -1 => PointersAt(g.tree, p) = {<<g.ovb, g.ptr>>}
  <1> DEFINE g == GetLeafPtr(t, p)
             q == <<g.ovb, g.ptr>>
  <1>1. Found(g, t.log2, n) /\ GetLeafPtr(g.tree, p) = g
    BY LeafFound, WalkAgain
  <1>2. t.log2 = 0 => g = [tree |-> t, ovb |-> 0, ptr |-> 0]
    BY LeafTree
  <1>3. t.log2 # 0 => Beside(t, N, p, g)
    BY LookedUp
  <1> HIDE DEF g
  <1>4. Shape(g.tree) /\ g.tree.log2 = t.log2 /\ t.log2 \in Nat
    BY <1>1 DEF Found, Shape
  <1>5. t.log2 = 0 => g.ptr # -1 /\ q = <<0, 0>>
    BY <1>2
  <1> HIDE DEF q
  <1>6. ASSUME g.ptr = -1
        PROVE  PointersAt(t, p) = {} /\ Nb(g.tree) = OVT_SIZE
    <2>1. t.log2 # 0
      BY <1>5, <1>6
    <2>2. PICK f : Along(f, t, p) /\ f[1] = {} /\ Nb(g.tree) = OVT_SIZE
      BY <1>3, <1>6, <2>1 DEF Beside
    <2>3. PointersAt(t, p) = PlacesOf({}, {ChildIndex(p, 1)})
      BY <1>4, <2>1, <2>2, LookUp
    <2> QED
      BY <2>2, <2>3 DEF PlacesOf
  <1>7. ASSUME g.ptr # -1
        PROVE  PointersAt(g.tree, p) = {q}
    <2>1. CASE t.log2 = 0
      <3>1. PointersAt(g.tree, p) = {<<0, 0>>}
        BY <1>4, <2>1 DEF PointersAt, PointersOn, NodesOn
      <3> QED
        BY <1>5, <2>1, <3>1
    <2>2. CASE t.log2 # 0
      <3>1. PICK M : Well(g.tree, M) /\ Hung(g.tree, M, n)
        BY <1>1 DEF Found
      <3>2. Beside(g.tree, M, p, g)
        BY <1>1, <1>4, <2>2, <3>1, LookedUp
      <3>3. PICK f : Along(f, g.tree, p) /\ PlacesOf(f[1], {ChildIndex(p, 1)}) = {q}
        BY <1>7, <3>2 DEF Beside, q
      <3> QED
        BY <1>4, <2>2, <3>3, LookUp
    <2> QED
      BY <2>1, <2>2
  <1> QED
    BY <1>6, <1>7 DEF g, q

\* A look-up finds the same pointers when links stay the same.
LEMMA SamePointers ==
  ASSUME NEW t, NEW u, NEW n \in Nat, NEW N, Shape(t), Well(t, N), Hung(t, N, n),
         u.log2 = t.log2, SameLinks(t, u, N), NEW p \in [1 .. 3 -> Nat]
  PROVE  PointersAt(u, p) = PointersAt(t, p)
  <1>1. CASE t.log2 = 0
    BY <1>1 DEF PointersAt, PointersOn, NodesOn
  <1>2. CASE t.log2 # 0
    <2>1. PICK f : Along(f, t, p) /\ \A level \in 1 .. t.log2 : f[level] \subseteq Level(N, level)
      BY <1>2, LookedUp DEF Beside
    <2>2. t.log2 \in Nat
      BY DEF Shape
    <2>3. Along(f, u, p)
      BY <2>1, <2>2, SameWay
    <2> QED
      BY <1>2, <2>1, <2>2, <2>3, LookUp
  <1> QED
    BY <1>1, <1>2

\* The leaf looked up at a position before and after a traversal, and after it has set the
\* pointer it found.
LEMMA LeafAlong ==
  ASSUME NEW t, NEW n \in Nat, TreeOf(t, n), NEW p \in [1 .. 3 -> Nat]
  PROVE  LET g == GetLeafPtr(t, p)
         IN  /\ g.ptr = -1 => LeafAt(t, p) = {} /\ Nb(g.tree) = OVT_SIZE
             /\ g.ptr # -1 => LeafAt(g.tree, p) = {GetLeaf(g)} \ {0}
             /\ g.ptr # -1 /\ GetLeaf(g) = 0 => LeafAt(SetLeaf(g, n + 1), p) = {n + 1}
  <1> DEFINE g == GetLeafPtr(t, p)
             q == <<g.ovb, g.ptr>>
             v == SetLeaf(g, n + 1)
  <1>1. PICK N : Shape(t) /\ Well(t, N) /\ Hung(t, N, n)
    BY DEF TreeOf
  <1>2. /\ g.ptr = -1 => PointersAt(t, p) = {} /\ Nb(g.tree) = OVT_SIZE
        /\ g.ptr # -1 => PointersAt(g.tree, p) = {q}
    BY <1>1, PointerAlong
  <1>3. g.ptr # -1 /\ GetLeaf(g) = 0 =>
          /\ v.log2 = t.log2 /\ Ptr(v, q) = n + 1
          /\ \E M : /\ Well(g.tree, M) /\ Hung(g.tree, M, n) /\ SameLinks(g.tree, v, M)
    BY <1>1, PutChunk
  <1>4. Shape(g.tree) /\ g.tree.log2 = t.log2
    BY <1>1, LeafFound DEF Found
  <1>5. g.ptr # -1 => GetLeaf(g) = Ptr(g.tree, q)
    BY DEF GetLeaf, Ptr
  <1> HIDE DEF g, v, q
  <1>6. g.ptr = -1 => LeafAt(t, p) = {} /\ Nb(g.tree) = OVT_SIZE
    BY <1>2 DEF LeafAt, PointersAt
  <1>7. g.ptr # -1 => LeafAt(g.tree, p) = {GetLeaf(g)} \ {0}
    BY <1>2, <1>5, LeafOf
  <1>8. ASSUME g.ptr # -1, GetLeaf(g) = 0
        PROVE  LeafAt(v, p) = {n + 1}
    <2>1. PICK M : Well(g.tree, M) /\ Hung(g.tree, M, n) /\ SameLinks(g.tree, v, M)
      BY <1>3, <1>8
    <2>2. v.log2 = g.tree.log2 /\ Ptr(v, q) = n + 1 /\ n + 1 # 0
      BY <1>3, <1>4, <1>8
    <2>3. PointersAt(v, p) = {q}
      BY <1>2, <1>4, <1>8, <2>1, <2>2, SamePointers
    <2>4. LeafAt(v, p) = {Ptr(v, q)} \ {0}
      BY <2>3, LeafOf
    <2> QED
      BY <2>2, <2>4
  <1> QED
    BY <1>6, <1>7, <1>8 DEF g, v

\* A block that is placed is found at its position afterwards; when no room is found for
\* its chunk there was none before, and the octree's table is full.
LEMMA Stored ==
  ASSUME IInv, NEW p \in Position, NEW arg \in BlockArg, PlotPlace(p, arg)
  PROVE  \/ BlockAt(p)' = {ToUint8(arg)}
         \/ BlockAt(p) = {} /\ TableFull'
  <1> DEFINE P == ChunkPos(p)
             b == ToUint8(arg)
             n == Len(chunks)
             found == GetLeafPtr(tree, P)
             again == GetLeafPtr(found.tree, P)
             chunk == GetLeaf(found)
  <1>1. TreeOf(tree, n) /\ chunks \in Seq(Chunk) /\ n \in Nat
    BY DEF IInv
  <1>2. P \in [1 .. 3 -> Nat] /\ Offset(p) \in Offsets
    BY PositionFacts
  <1>3. IF chunk # 0
        THEN /\ tree' = found.tree
             /\ chunks' = [chunks EXCEPT ![chunk][Offset(p)] = b]
        ELSE IF again.ptr = -1
        THEN /\ tree' = again.tree
             /\ UNCHANGED chunks
        ELSE /\ tree' = SetLeaf(again, n + 1)
             /\ chunks' = Append(chunks, [[o \in Offsets |-> 0] EXCEPT ![Offset(p)] = b])
    BY DEF PlotPlace, SetBlock
  <1>4. BlockAt(p)' = {chunks'[c][Offset(p)] : c \in LeafAt(tree', P)}
    BY DEF BlockAt
  <1>5. BlockAt(p) = {chunks[c][Offset(p)] : c \in LeafAt(tree, P)}
    BY DEF BlockAt
  <1> HIDE DEF b
  <1>6. chunk \in 0 .. n /\ again = found
    <2>1. GetLeaf(GetLeafPtr(tree, ChunkPos(p))) \in 0 .. n
      BY <1>1, Traversal
    <2>2. GetLeafPtr(GetLeafPtr(tree, ChunkPos(p)).tree, ChunkPos(p)) = GetLeafPtr(tree, ChunkPos(p))
      BY <1>1, Traversal
    <2> QED
      BY <2>1, <2>2
  <1> HIDE DEF P
  <1>7. /\ found.ptr = -1 => LeafAt(tree, P) = {} /\ Nb(found.tree) = OVT_SIZE
        /\ found.ptr # -1 => LeafAt(found.tree, P) = {chunk} \ {0}
        /\ found.ptr # -1 /\ chunk = 0 => LeafAt(SetLeaf(found, n + 1), P) = {n + 1}
    <2> HIDE DEF n
    <2> USE <1>1, <1>2
    <2>1. found.ptr = -1 => LeafAt(tree, P) = {} /\ Nb(found.tree) = OVT_SIZE
      BY LeafAlong
    <2>2. found.ptr # -1 => LeafAt(found.tree, P) = {chunk} \ {0}
      BY LeafAlong
    <2>3. found.ptr # -1 /\ chunk = 0 => LeafAt(SetLeaf(found, n + 1), P) = {n + 1}
      BY LeafAlong
    <2> QED
      BY <2>1, <2>2, <2>3
  <1>8. found.ptr = -1 => chunk = 0
    BY DEF GetLeaf
  <1> HIDE DEF found, again, chunk
  <1>9. CASE chunk # 0
    <2>1. tree' = found.tree /\ chunks' = [chunks EXCEPT ![chunk][Offset(p)] = b]
      BY <1>3, <1>9
    <2>2. LeafAt(tree', P) = {chunk}
      BY <1>7, <1>8, <1>9, <2>1
    <2>3. chunks'[chunk][Offset(p)] = b
      <3>1. chunk \in 1 .. n /\ chunks[chunk] \in Chunk /\ DOMAIN chunks = 1 .. n
        BY <1>1, <1>6, <1>9
      <3> QED
        BY <1>2, <2>1, <3>1 DEF Chunk
    <2>4. BlockAt(p)' = {b}
      BY <1>4, <2>2, <2>3
    <2> QED
      BY <2>4 DEF b
  <1>10. CASE chunk = 0 /\ found.ptr = -1
    <2>1. BlockAt(p) = {}
      BY <1>5, <1>7, <1>10
    <2>2. tree' = found.tree
      BY <1>3, <1>6, <1>10
    <2>3. TableFull'
      BY <1>7, <1>10, <2>2 DEF TableFull, Nb
    <2> QED
      BY <2>1, <2>3
  <1>11. CASE chunk = 0 /\ found.ptr # -1
    <2> DEFINE new == [[o \in Offsets |-> 0] EXCEPT ![Offset(p)] = b]
    <2>1. tree' = SetLeaf(found, n + 1) /\ chunks' = Append(chunks, new)
      BY <1>3, <1>6, <1>11
    <2>2. LeafAt(tree', P) = {n + 1}
      BY <1>7, <1>11, <2>1
    <2>3. new[Offset(p)] = b
      BY <1>2
    <2> HIDE DEF new
    <2>4. chunks'[n + 1] = new
      BY <1>1, <2>1
    <2>5. BlockAt(p)' = {b}
      BY <1>4, <2>2, <2>3, <2>4
    <2> QED
      BY <2>5 DEF b
  <1> QED
    BY <1>9, <1>10, <1>11

\* StoredUnlessFull: a block that is placed is there, unless the octree's table has run
\* out, and then only where no chunk was before.
THEOREM PlacedIsThere == Spec => StoredUnlessFull
  <1>1. IInv /\ [Next]_vars =>
          [\A p \in Position, arg \in BlockArg :
             PlotPlace(p, arg) =>
               \/ BlockAt(p)' = {ToUint8(arg)}
               \/ BlockAt(p) = {} /\ TableFull']_vars
    BY Stored
  <1> QED
    BY <1>1, Inductive, PTL DEF Spec, StoredUnlessFull

-----------------------------------------------------------------------------
(* Remainders and bits.                                                    *)

\* A number by its quotient and remainder.
LEMMA DivMod ==
  ASSUME NEW v \in Int, NEW m \in Nat, m >= 1
  PROVE  v = (v \div m) * m + (v % m) /\ v % m \in 0 .. m - 1 /\ v \div m \in Int
  OBVIOUS

\* A multiple is no less than the number, unless it is 0 or negative.
LEMMA MultipleBound ==
  ASSUME NEW a \in Int, NEW m \in Nat, m >= 1, a >= 1
  PROVE  a * m >= m
  OBVIOUS

\* A number has one quotient and one remainder.
LEMMA DivModUnique ==
  ASSUME NEW q \in Int, NEW m \in Nat, m >= 1, NEW r \in 0 .. m - 1
  PROVE  (q * m + r) \div m = q /\ (q * m + r) % m = r
  <1> DEFINE v == q * m + r
             k == v \div m
             s == v % m
  <1>1. v \in Int /\ q * m \in Int
    OBVIOUS
  <1>2. v = k * m + s /\ s \in 0 .. m - 1 /\ k \in Int
    BY <1>1, DivMod
  <1>3. v = q * m + r
    OBVIOUS
  <1> HIDE DEF v, k, s
  <1>4. (k - q) * m = r - s
    BY <1>1, <1>2, <1>3
  <1>5. ~(k - q >= 1)
    <2> SUFFICES ASSUME k - q >= 1
                 PROVE  FALSE
      OBVIOUS
    <2>1. (k - q) * m >= m
      BY <1>2, MultipleBound
    <2> QED
      BY <1>2, <1>4, <2>1
  <1>6. ~(q - k >= 1)
    <2> SUFFICES ASSUME q - k >= 1
                 PROVE  FALSE
      OBVIOUS
    <2>1. (q - k) * m >= m
      BY <1>2, MultipleBound
    <2>2. (q - k) * m = s - r
      BY <1>2, <1>4
    <2> QED
      BY <1>2, <2>1, <2>2
  <1>7. k = q
    BY <1>2, <1>5, <1>6
  <1>8. s = r
    BY <1>1, <1>2, <1>3, <1>7
  <1> QED
    BY <1>7, <1>8 DEF k, s, v

\* Products of numbers from 1.
LEMMA ProductAtLeastOne ==
  ASSUME NEW a \in Nat, NEW b \in Nat, a >= 1, b >= 1
  PROVE  a * b \in Nat /\ a * b >= 1 /\ a * b = b * a
  OBVIOUS

\* Multiples of a multiple.
LEMMA SumOfMultiples ==
  ASSUME NEW q \in Int, NEW k \in Nat, NEW a \in Nat, NEW u \in Int
  PROVE  q * (k * a) + u * a = (q * k + u) * a /\ q * k + u \in Int
  OBVIOUS

\* A remainder of a multiple.
LEMMA ModMod ==
  ASSUME NEW v \in Int, NEW k \in Nat, k >= 1, NEW a \in Nat, a >= 1
  PROVE  /\ (v % (k * a)) % a = v % a
         /\ (v % (k * a)) \div a = (v \div a) % k
         /\ v % (k * a) \in Nat
  <1> DEFINE n == k * a
             q == v \div n
             s == v % n
             u == s \div a
             t == s % a
  <1>1. n \in Nat /\ n >= 1
    BY ProductAtLeastOne
  <1> HIDE DEF n
  <1>2. v = q * n + s /\ s \in 0 .. n - 1 /\ q \in Int /\ s \in Int
    <2>1. v = (v \div n) * n + (v % n) /\ v % n \in 0 .. n - 1 /\ v \div n \in Int
      BY <1>1, DivMod
    <2> QED
      BY <1>1, <2>1
  <1> HIDE DEF q, s
  <1>3. s = u * a + t /\ t \in 0 .. a - 1 /\ u \in Int
    BY <1>2, DivMod
  <1> HIDE DEF u, t
  <1>4. ~(u >= k)
    <2> SUFFICES ASSUME u >= k
                 PROVE  FALSE
      OBVIOUS
    <2>1. u * a >= n
      <3>1. (u - k + 1) * a >= a
        BY <1>3, MultipleBound
      <3>2. (u - k + 1) * a = u * a - k * a + a /\ u * a \in Int /\ k * a \in Int
        BY <1>3
      <3> QED
        BY <3>1, <3>2 DEF n
    <2>2. u * a \in Int
      BY <1>3
    <2> QED
      BY <1>1, <1>2, <1>3, <2>1, <2>2
  <1>5. ~(u <= -1)
    <2> SUFFICES ASSUME u <= -1
                 PROVE  FALSE
      OBVIOUS
    <2>1. (-u) * a >= a
      BY <1>3, MultipleBound
    <2>2. (-u) * a = -(u * a) /\ u * a \in Int
      BY <1>3
    <2> QED
      BY <1>1, <1>2, <1>3, <2>1, <2>2
  <1>6. u \in 0 .. k - 1
    BY <1>3, <1>4, <1>5
  <1>7. v = (q * k + u) * a + t /\ q * k + u \in Int
    <2>1. q * n + u * a = (q * k + u) * a /\ q * k + u \in Int
      BY <1>2, <1>3, SumOfMultiples DEF n
    <2>2. q * n \in Int /\ u * a \in Int
      BY <1>1, <1>2, <1>3
    <2> QED
      BY <1>2, <1>3, <2>1, <2>2
  <1>8. v \div a = q * k + u /\ v % a = t
    BY <1>3, <1>7, DivModUnique
  <1>9. (q * k + u) % k = u
    BY <1>2, <1>6, DivModUnique
  <1> QED
    BY <1>2, <1>8, <1>9, <1>1 DEF u, t, s, n

\* The subsets of a set with one member more are twice as many.
LEMMA PowerStep ==
  ASSUME NEW n \in Nat
  PROVE  2 ^ (n + 1) = 2 * 2 ^ n
  <1> DEFINE S == 1 .. n
             A == SUBSET S
             B == {T \union {n + 1} : T \in A}
             f == [T \in A |-> T \union {n + 1}]
  <1>1. IsFiniteSet(S) /\ Cardinality(S) = n /\ n + 1 \notin S
    BY FS_Interval
  <1>2. IsFiniteSet(S \union {n + 1}) /\ Cardinality(S \union {n + 1}) = n + 1
    <2> HIDE DEF S
    <2> QED
      BY <1>1, FS_AddElement
  <1> HIDE DEF S
  <1>3. IsFiniteSet(A) /\ Cardinality(A) = 2 ^ n
    BY <1>1, FS_SUBSET
  <1>4. Cardinality(SUBSET (S \union {n + 1})) = 2 ^ (n + 1)
    BY <1>2, FS_SUBSET
  <1>5. SUBSET (S \union {n + 1}) = A \union B
    <2>1. ASSUME NEW T \in SUBSET (S \union {n + 1}), T \notin A
          PROVE  T \in B
      <3> DEFINE U == T \ {n + 1}
      <3>1. U \in A /\ T = U \union {n + 1}
        BY <2>1
      <3> QED
        BY <3>1
    <2> QED
      BY <2>1
  <1>6. A \intersect B = {}
    BY <1>1
  <1>7. ExistsBijection(A, B)
    <2>1. f \in [A -> B]
      OBVIOUS
    <2>2. \A T, U \in A : f[T] = f[U] => T = U
      <3> SUFFICES ASSUME NEW T \in A, NEW U \in A, T \union {n + 1} = U \union {n + 1}
                   PROVE  T = U
        OBVIOUS
      <3> QED
        BY <1>1
    <2>3. \A y \in B : \E T \in A : f[T] = y
      OBVIOUS
    <2> HIDE DEF f, A, B
    <2>4. f \in Bijection(A, B)
      BY <2>1, <2>2, <2>3 DEF Bijection, Injection, Surjection, IsInjective
    <2> QED
      BY <2>4 DEF ExistsBijection
  <1> HIDE DEF A, B
  <1>8. IsFiniteSet(B) /\ Cardinality(B) = 2 ^ n
    BY <1>3, <1>7, FS_Bijection
  <1>9. IsFiniteSet({}) /\ Cardinality({}) = 0
    BY FS_EmptySet
  <1>10. Cardinality(A \union B) = 2 ^ n + 2 ^ n
    <2>1. Cardinality(A \union B) = Cardinality(A) + Cardinality(B) - Cardinality(A \intersect B)
      BY <1>3, <1>8, FS_Union
    <2>2. 2 ^ n \in Nat
      BY PowerOfTwo
    <2>3. Cardinality(A \intersect B) = 0
      BY <1>6, <1>9
    <2> QED
      BY <1>3, <1>8, <2>1, <2>2, <2>3
  <1>11. 2 ^ n \in Nat
    BY PowerOfTwo
  <1>12. 2 ^ (n + 1) = 2 ^ n + 2 ^ n
    BY <1>4, <1>5, <1>10
  <1> DEFINE w == 2 ^ n
  <1>13. w \in Nat /\ 2 ^ (n + 1) = w + w
    BY <1>11, <1>12
  <1> HIDE DEF w
  <1>14. 2 ^ (n + 1) = 2 * w
    BY <1>13
  <1> QED
    BY <1>14 DEF w

\* 2 ^ 0 is 1.
LEMMA PowerZero ==
  2 ^ 0 = 1
  <1>1. IsFiniteSet({}) /\ Cardinality({}) = 0
    BY FS_EmptySet
  <1>2. Cardinality(SUBSET {}) = 2 ^ 0
    BY <1>1, FS_SUBSET
  <1>3. SUBSET {} = {{}}
    OBVIOUS
  <1>4. Cardinality({{}}) = 1
    BY FS_Singleton
  <1> QED
    BY <1>2, <1>3, <1>4

\* Powers of two multiply.
LEMMA PowerSum ==
  ASSUME NEW a \in Nat, NEW b \in Nat
  PROVE  2 ^ (a + b) = 2 ^ a * 2 ^ b
  <1> DEFINE x == 2 ^ a
             Bad == {n \in Nat : 2 ^ (a + n) # x * 2 ^ n}
  <1>1. x \in Nat /\ x >= 1
    BY PowerOfTwo
  <1>2. 0 \notin Bad
    <2>1. x * 2 ^ 0 = x
      <3>1. x * 1 = x
        BY <1>1
      <3> QED
        BY <3>1, PowerZero
    <2>2. a + 0 = a
      OBVIOUS
    <2> QED
      BY <2>1, <2>2
  <1>3. ASSUME NEW n \in Nat, n \notin Bad
        PROVE  n + 1 \notin Bad
    <2> DEFINE y == 2 ^ n
               z == 2 ^ (a + n)
    <2>1. y \in Nat /\ z \in Nat /\ z = x * y
      BY <1>3, PowerOfTwo
    <2>2. 2 ^ (n + 1) = 2 * y
      BY PowerStep
    <2>3. 2 ^ ((a + n) + 1) = 2 * z
      BY PowerStep
    <2>4. (a + n) + 1 = a + (n + 1)
      OBVIOUS
    <2> HIDE DEF x, y, z
    <2>5. 2 * z = x * (2 * y)
      BY <1>1, <2>1
    <2> QED
      BY <2>2, <2>3, <2>4, <2>5
  <1>4. Bad = {}
    <2> SUFFICES ASSUME Bad # {}
                 PROVE  FALSE
      OBVIOUS
    <2>1. Bad \subseteq Nat
      OBVIOUS
    <2> HIDE DEF Bad
    <2>2. PICK n \in Bad : \A y \in Bad : n <= y
      BY <2>1, Least
    <2>3. n \in Nat /\ n # 0 /\ n - 1 \in Nat /\ (n - 1) + 1 = n
      BY <1>2, <2>1, <2>2
    <2>4. n - 1 \notin Bad
      BY <2>2, <2>3
    <2>5. (n - 1) + 1 \notin Bad
      BY <1>3, <2>3, <2>4
    <2> QED
      BY <2>2, <2>3, <2>5
  <1> QED
    BY <1>4

\* The bit of a remainder of a higher power of two.
LEMMA BitIn ==
  ASSUME NEW v \in Int, NEW high \in Nat, NEW j \in Nat, j < high
  PROVE  Bit(v % 2 ^ high, j) = Bit(v, j)
  <1> DEFINE r == high - (j + 1)
             C == 2 ^ r
             B == 2 ^ j
  <1>1. r \in Nat /\ r + (j + 1) = high /\ j + 1 \in Nat
    OBVIOUS
  <1>2. C \in Nat /\ C >= 1 /\ B \in Nat /\ B >= 1
    BY <1>1, PowerOfTwo
  <1>3. 2 ^ high = C * (2 * B)
    <2>1. 2 ^ (r + (j + 1)) = C * 2 ^ (j + 1)
      <3> HIDE DEF r
      <3> QED
        BY <1>1, PowerSum
    <2>2. 2 ^ (j + 1) = 2 * B
      BY PowerStep
    <2> QED
      BY <1>1, <2>1, <2>2
  <1> HIDE DEF C, B
  <1>4. C * (2 * B) = (C * 2) * B /\ C * 2 \in Nat /\ C * 2 >= 1
    BY <1>2
  <1>5. (v % ((C * 2) * B)) \div B = (v \div B) % (C * 2)
    BY <1>2, <1>4, ModMod
  <1>6. v \div B \in Int
    BY <1>2, DivMod
  <1>7. ((v \div B) % (C * 2)) % 2 = (v \div B) % 2
    <2> DEFINE u == v \div B
    <2>1. u \in Int
      BY <1>6
    <2> HIDE DEF u
    <2>2. PICK two \in Nat : two = 2
      OBVIOUS
    <2>3. two >= 1
      BY <2>2
    <2>4. (u % (C * two)) % two = u % two
      BY <1>2, <2>1, <2>3, ModMod
    <2> QED
      BY <2>2, <2>4 DEF u
  <1>8. ((v % 2 ^ high) \div B) % 2 = (v \div B) % 2
    BY <1>3, <1>4, <1>5, <1>7
  <1> QED
    BY <1>8 DEF Bit, B

\* A bit more of a number.
LEMMA BitMore ==
  ASSUME NEW v \in Nat, NEW j \in Nat
  PROVE  v % 2 ^ (j + 1) = Bit(v, j) * 2 ^ j + (v % 2 ^ j)
  <1> DEFINE B == 2 ^ j
             q == v \div B
             t == v % B
             h == q \div 2
             b == q % 2
  <1>1. B \in Nat /\ B >= 1 /\ 2 ^ (j + 1) = 2 * B
    BY PowerOfTwo, PowerStep
  <1> HIDE DEF B
  <1>2. v = q * B + t /\ t \in 0 .. B - 1 /\ q \in Int
    BY <1>1, DivMod
  <1> HIDE DEF q, t
  <1>3. q = h * 2 + b /\ b \in 0 .. 1 /\ h \in Int
    BY <1>2, DivMod
  <1> HIDE DEF h, b
  <1>4. v = h * (2 * B) + (b * B + t) /\ b * B + t \in 0 .. 2 * B - 1
    <2>1. CASE b = 0
      <3>1. q * B = h * (2 * B) /\ b * B = 0 /\ h * (2 * B) \in Int
        BY <1>1, <1>3, <2>1
      <3> QED
        BY <1>1, <1>2, <3>1
    <2>2. CASE b = 1
      <3> DEFINE g == h * (2 * B)
      <3>1. q * B = g + B /\ b * B = B /\ g \in Int
        BY <1>1, <1>3, <2>2
      <3> HIDE DEF g
      <3>2. v = g + (B + t) /\ B + t \in 0 .. 2 * B - 1
        BY <1>1, <1>2, <3>1
      <3> QED
        BY <3>1, <3>2 DEF g
    <2> QED
      BY <1>3, <2>1, <2>2
  <1>5. v % (2 * B) = b * B + t
    <2>1. 2 * B \in Nat /\ 2 * B >= 1
      BY <1>1
    <2> DEFINE n == 2 * B
               s == b * B + t
    <2>2. n \in Nat /\ n >= 1 /\ v = h * n + s /\ s \in 0 .. n - 1
      BY <1>4, <2>1
    <2> HIDE DEF n, s
    <2>3. v % n = s
      BY <1>3, <2>2, DivModUnique
    <2> QED
      BY <2>3 DEF n, s
  <1> QED
    BY <1>1, <1>5 DEF Bit, b, q, t, B

\* Numbers with the same bits.
LEMMA BitsDetermine ==
  ASSUME NEW high \in Nat, NEW v \in Nat, NEW w \in Nat,
         \A j \in 0 .. high - 1 : Bit(v, j) = Bit(w, j)
  PROVE  v % 2 ^ high = w % 2 ^ high
  <1> DEFINE Bad == {j \in Nat : j <= high /\ v % 2 ^ j # w % 2 ^ j}
  <1>1. 0 \notin Bad
    <2>1. v % 1 = 0 /\ w % 1 = 0
      OBVIOUS
    <2> QED
      BY <2>1, PowerZero
  <1>2. ASSUME NEW j \in Nat, j + 1 <= high, j \notin Bad
        PROVE  j + 1 \notin Bad
    <2>1. v % 2 ^ j = w % 2 ^ j /\ Bit(v, j) = Bit(w, j)
      BY <1>2
    <2>2. v % 2 ^ (j + 1) = w % 2 ^ (j + 1)
      BY <2>1, BitMore
    <2> QED
      BY <2>2
  <1>3. Bad = {}
    <2> SUFFICES ASSUME Bad # {}
                 PROVE  FALSE
      OBVIOUS
    <2>1. Bad \subseteq Nat /\ \A j \in Bad : j <= high
      OBVIOUS
    <2> HIDE DEF Bad
    <2>2. PICK n \in Bad : \A y \in Bad : n <= y
      BY <2>1, Least
    <2>3. n \in Nat /\ n # 0 /\ n - 1 \in Nat /\ (n - 1) + 1 = n /\ n <= high
      BY <1>1, <2>1, <2>2
    <2>4. n - 1 \notin Bad
      BY <2>2, <2>3
    <2>5. (n - 1) + 1 \notin Bad
      BY <1>2, <2>3, <2>4
    <2> QED
      BY <2>2, <2>3, <2>5
  <1> QED
    BY <1>3

-----------------------------------------------------------------------------
(* Positions that wrap around.                                             *)

\* A coordinate that wraps around at a storage of 2 ^ l chunks, and its parts.
LEMMA Coordinate ==
  ASSUME NEW v \in Int, NEW l \in Nat, ChunkBits + l <= WordBits
  PROVE  LET r == v % (2 ^ l * ChunkSide)
             m == ToUint32(v)
         IN  /\ r \in Nat /\ ToUint32(r) = r /\ m \in Nat
             /\ r \div ChunkSide = (m \div ChunkSide) % 2 ^ l
             /\ r % ChunkSide = m % ChunkSide
  <1> DEFINE A == 2 ^ l
             S == ChunkSide
             D == 2 ^ (WordBits - (ChunkBits + l))
             n == A * S
             r == v % n
             m == v % 2 ^ WordBits
  <1>1. ChunkBits \in Nat /\ WordBits \in Nat /\ WordBits - (ChunkBits + l) \in Nat
        /\ ChunkBits + l \in Nat
    BY PlotStorageAssumption
  <1>2. A \in Nat /\ A >= 1 /\ S \in Nat /\ S >= 1 /\ D \in Nat /\ D >= 1
    BY <1>1, PowerOfTwo DEF ChunkSide
  <1>3. 2 ^ WordBits = D * n
    <2> DEFINE k == WordBits - (ChunkBits + l)
               j == ChunkBits + l
    <2>1. k \in Nat /\ j \in Nat /\ k + j = WordBits
      BY <1>1
    <2>2. 2 ^ j = S * A
      BY <1>1, PowerSum DEF ChunkSide
    <2>3. S * A = A * S
      BY <1>2
    <2> HIDE DEF k, j
    <2>4. 2 ^ (k + j) = 2 ^ k * 2 ^ j
      BY <2>1, PowerSum
    <2> QED
      BY <2>1, <2>2, <2>3, <2>4 DEF k
  <1> HIDE DEF A, S, D
  <1>4. n \in Nat /\ n >= 1
    BY <1>2, ProductAtLeastOne
  <1>5. r \in 0 .. n - 1
    BY <1>4, DivMod
  <1>6. D * n \in Nat /\ D * n >= n
    BY <1>2, <1>4, MultipleBound
  <1>7. m % n = r /\ m \in Nat
    <2> HIDE DEF n
    <2>1. (v % (D * n)) % n = v % n /\ v % (D * n) \in Nat
      BY <1>2, <1>4, ModMod
    <2> QED
      BY <1>3, <2>1
  <1>8. r % 2 ^ WordBits = r
    <2> DEFINE w == D * n
    <2>1. w \in Nat /\ w >= 1 /\ r \in 0 .. w - 1 /\ 2 ^ WordBits = w
      BY <1>3, <1>4, <1>5, <1>6
    <2> HIDE DEF w, r
    <2>2. (0 * w + r) % w = r
      BY <2>1, DivModUnique
    <2>3. 0 * w + r = r
      BY <2>1
    <2> QED
      BY <2>1, <2>2, <2>3
  <1> HIDE DEF m
  <1>9. (m % (A * S)) % S = m % S /\ (m % (A * S)) \div S = (m \div S) % A
    <2>1. m \in Int
      BY <1>7
    <2> QED
      BY <1>2, <2>1, ModMod
  <1>10. r % S = m % S /\ r \div S = (m \div S) % A
    BY <1>7, <1>9
  <1>11. r \in Nat
    BY <1>4, <1>5
  <1> QED
    BY <1>7, <1>8, <1>10, <1>11 DEF ToUint32, m, S, A

\* Two positions take the same children below level l.
Near(l, p, q) == \A level \in 1 .. l : ChildIndex(p, level) = ChildIndex(q, level)

\* They do when their coordinates have the same remainders.
LEMMA NearMod ==
  ASSUME NEW p \in [1 .. 3 -> Nat], NEW q \in [1 .. 3 -> Nat], NEW l \in Nat
  PROVE  Near(l, p, q) <=> \A c \in 1 .. 3 : p[c] % 2 ^ l = q[c] % 2 ^ l
  <1>1. \A v \in Nat, j \in Nat : Bit(v, j) \in 0 .. 1
    <2> SUFFICES ASSUME NEW v \in Nat, NEW j \in Nat
                 PROVE  Bit(v, j) \in 0 .. 1
      OBVIOUS
    <2> DEFINE w == 2 ^ j
    <2>1. w \in Nat /\ w >= 1
      BY PowerOfTwo
    <2> HIDE DEF w
    <2>2. v \div w \in Int
      BY <2>1
    <2>3. (v \div w) % 2 \in 0 .. 1
      BY <2>2
    <2> QED
      BY <2>3 DEF Bit, w
  <1>2. \A c \in 1 .. 3 : p[c] \in Nat /\ q[c] \in Nat
    OBVIOUS
  <1>3. ASSUME Near(l, p, q), NEW c \in 1 .. 3
        PROVE  p[c] % 2 ^ l = q[c] % 2 ^ l
    <2>1. ASSUME NEW j \in 0 .. l - 1
          PROVE  Bit(p[c], j) = Bit(q[c], j)
      <3> DEFINE level == j + 1
      <3>1. level \in 1 .. l /\ level - 1 = j /\ j \in Nat
        OBVIOUS
      <3> HIDE DEF level
      <3>2. ChildIndex(p, level) = ChildIndex(q, level)
        BY <1>3, <3>1 DEF Near
      <3>3. /\ Bit(p[1], j) \in 0 .. 1 /\ Bit(p[2], j) \in 0 .. 1 /\ Bit(p[3], j) \in 0 .. 1
            /\ Bit(q[1], j) \in 0 .. 1 /\ Bit(q[2], j) \in 0 .. 1 /\ Bit(q[3], j) \in 0 .. 1
        BY <1>1, <1>2, <3>1
      <3>4. 4 * Bit(p[3], j) + 2 * Bit(p[2], j) + Bit(p[1], j)
              = 4 * Bit(q[3], j) + 2 * Bit(q[2], j) + Bit(q[1], j)
        BY <3>1, <3>2 DEF ChildIndex
      <3>5. /\ Bit(p[1], j) = Bit(q[1], j) /\ Bit(p[2], j) = Bit(q[2], j)
            /\ Bit(p[3], j) = Bit(q[3], j)
        BY <3>3, <3>4
      <3> QED
        BY <3>5
    <2> QED
      BY <1>2, <2>1, BitsDetermine
  <1>4. ASSUME \A c \in 1 .. 3 : p[c] % 2 ^ l = q[c] % 2 ^ l, NEW level \in 1 .. l
        PROVE  ChildIndex(p, level) = ChildIndex(q, level)
    <2> DEFINE j == level - 1
    <2>1. j \in Nat /\ j < l
      OBVIOUS
    <2> HIDE DEF j
    <2>2. ASSUME NEW c \in 1 .. 3
          PROVE  Bit(p[c], j) = Bit(q[c], j)
      <3>1. p[c] \in Int /\ q[c] \in Int
        BY <1>2
      <3>2. Bit(p[c] % 2 ^ l, j) = Bit(p[c], j) /\ Bit(q[c] % 2 ^ l, j) = Bit(q[c], j)
        BY <2>1, <3>1, BitIn
      <3> QED
        BY <1>4, <3>2
    <2> QED
      BY <2>2 DEF ChildIndex, j
  <1> QED
    BY <1>3, <1>4 DEF Near

\* A position that wraps around at a storage of 2 ^ l chunks.
WrapAt(l, p) == [c \in 1 .. 3 |-> p[c] % (2 ^ l * ChunkSide)]

\* It lies in the chunk whose coordinates are remainders, at the same offset.
LEMMA WrapFacts ==
  ASSUME NEW p \in Position, NEW l \in Nat, ChunkBits + l <= WordBits
  PROVE  LET w == WrapAt(l, p)
         IN  /\ ChunkPos(w) \in [1 .. 3 -> Nat] /\ Near(l, ChunkPos(p), ChunkPos(w))
             /\ Offset(w) = Offset(p)
             /\ \A c \in 1 .. 3 : /\ w[c] \in Nat /\ ToUint32(w[c]) = w[c]
                                  /\ ChunkPos(w)[c] = w[c] \div ChunkSide
                                  /\ ChunkPos(w)[c] % 2 ^ l = ChunkPos(w)[c]
  <1> DEFINE w == WrapAt(l, p)
             P == ChunkPos(p)
             R == ChunkPos(w)
             A == 2 ^ l
  <1>1. A \in Nat /\ A >= 1 /\ ChunkSide \in Nat /\ ChunkSide >= 1
    BY PowerOfTwo, PlotStorageAssumption DEF ChunkSide
  <1>2. \A c \in 1 .. 3 : p[c] \in Int
    <2>1. p[1] \in Int /\ p[2] \in Int /\ p[3] \in Int
      BY PlotStorageAssumption
    <2> QED
      BY <2>1
  <1>3. P \in [1 .. 3 -> Nat]
    BY PositionFacts
  <1>4. ASSUME NEW c \in 1 .. 3
        PROVE  /\ w[c] \in Nat /\ ToUint32(w[c]) = w[c] /\ ToUint32(p[c]) \in Nat
               /\ w[c] \div ChunkSide = (ToUint32(p[c]) \div ChunkSide) % A
               /\ w[c] % ChunkSide = ToUint32(p[c]) % ChunkSide
    <2>1. w[c] = p[c] % (2 ^ l * ChunkSide)
      BY DEF WrapAt
    <2> QED
      BY <1>2, <2>1, Coordinate
  <1> HIDE DEF w
  <1>5. \A c \in 1 .. 3 : P[c] = ToUint32(p[c]) \div ChunkSide
    BY DEF ChunkPos
  <1>6. \A c \in 1 .. 3 : R[c] = w[c] \div ChunkSide
    BY <1>4 DEF ChunkPos
  <1>7. Offset(w) = Offset(p)
    BY <1>4 DEF Offset
  <1>8. R = [c \in 1 .. 3 |-> R[c]]
    BY DEF ChunkPos
  <1> HIDE DEF P, R, A
  <1>9. ASSUME NEW c \in 1 .. 3
        PROVE  R[c] \in Nat /\ R[c] % A = P[c] % A /\ R[c] % A = R[c]
    <2> DEFINE k == P[c]
    <2>1. k \in Nat /\ R[c] = k % A
      BY <1>3, <1>4, <1>5, <1>6
    <2> HIDE DEF k
    <2>2. k % A \in 0 .. A - 1
      BY <1>1, <2>1, DivMod
    <2> DEFINE r == k % A
    <2>3. r \in Nat /\ r \in 0 .. A - 1
      BY <1>1, <2>2
    <2> HIDE DEF r
    <2>4. (0 * A + r) % A = r /\ 0 * A + r = r
      BY <1>1, <2>3, DivModUnique
    <2>5. r % A = r
      BY <2>4
    <2> QED
      BY <2>1, <2>3, <2>5 DEF r, k
  <1>10. R \in [1 .. 3 -> Nat]
    BY <1>8, <1>9
  <1>11. Near(l, P, R)
    BY <1>3, <1>9, <1>10, NearMod DEF A
  <1> QED
    BY <1>4, <1>6, <1>7, <1>9, <1>10, <1>11 DEF w, P, R, A

\* Wrapped positions that take the same way lie in the same chunk, and those that also have
\* the same offset are the same.
LEMMA WrapUnique ==
  ASSUME NEW p \in Position, NEW q \in Position, NEW l \in Nat, ChunkBits + l <= WordBits,
         Near(l, ChunkPos(p), ChunkPos(q))
  PROVE  LET v == WrapAt(l, p)
             w == WrapAt(l, q)
         IN  /\ \A c \in 1 .. 3 : v[c] \div ChunkSide = w[c] \div ChunkSide
             /\ Offset(p) = Offset(q) => v = w
  <1> DEFINE v == WrapAt(l, p)
             w == WrapAt(l, q)
             R == ChunkPos(v)
             T == ChunkPos(w)
  <1>1. ChunkSide \in Nat /\ ChunkSide >= 1
    BY PowerOfTwo, PlotStorageAssumption DEF ChunkSide
  <1>2. /\ R \in [1 .. 3 -> Nat] /\ Near(l, ChunkPos(p), R) /\ Offset(v) = Offset(p)
        /\ \A c \in 1 .. 3 : /\ v[c] \in Nat /\ ToUint32(v[c]) = v[c]
                             /\ R[c] = v[c] \div ChunkSide /\ R[c] % 2 ^ l = R[c]
    BY WrapFacts
  <1>3. /\ T \in [1 .. 3 -> Nat] /\ Near(l, ChunkPos(q), T) /\ Offset(w) = Offset(q)
        /\ \A c \in 1 .. 3 : /\ w[c] \in Nat /\ ToUint32(w[c]) = w[c]
                             /\ T[c] = w[c] \div ChunkSide /\ T[c] % 2 ^ l = T[c]
    BY WrapFacts
  <1>4. /\ Offset(v) = [c \in 1 .. 3 |-> v[c] % ChunkSide]
        /\ Offset(w) = [c \in 1 .. 3 |-> w[c] % ChunkSide]
    BY <1>2, <1>3 DEF Offset
  <1>5. v = [c \in 1 .. 3 |-> v[c]] /\ w = [c \in 1 .. 3 |-> w[c]]
    BY DEF WrapAt
  <1> HIDE DEF v, w, R, T
  <1>6. Near(l, R, T)
    BY <1>2, <1>3 DEF Near
  <1>7. \A c \in 1 .. 3 : R[c] = T[c]
    <2>1. \A c \in 1 .. 3 : R[c] % 2 ^ l = T[c] % 2 ^ l
      BY <1>2, <1>3, <1>6, NearMod
    <2> QED
      BY <1>2, <1>3, <2>1
  <1>8. ASSUME Offset(p) = Offset(q), NEW c \in 1 .. 3
        PROVE  v[c] = w[c]
    <2>1. v[c] % ChunkSide = w[c] % ChunkSide
      <3>1. Offset(v)[c] = Offset(w)[c]
        BY <1>2, <1>3, <1>8
      <3> QED
        BY <1>4, <3>1
    <2>2. v[c] \div ChunkSide = w[c] \div ChunkSide
      BY <1>2, <1>3, <1>7
    <2> DEFINE a == v[c]
               b == w[c]
    <2>3. a \in Int /\ b \in Int
      BY <1>2, <1>3
    <2> HIDE DEF a, b
    <2>4. a = (a \div ChunkSide) * ChunkSide + (a % ChunkSide)
      BY <1>1, <2>3, DivMod
    <2>5. b = (b \div ChunkSide) * ChunkSide + (b % ChunkSide)
      BY <1>1, <2>3, DivMod
    <2> QED
      BY <2>1, <2>2, <2>4, <2>5 DEF a, b
  <1>9. Offset(p) = Offset(q) => v = w
    BY <1>5, <1>8
  <1> QED
    BY <1>2, <1>3, <1>7, <1>9 DEF v, w

-----------------------------------------------------------------------------
(* What hangs at each position.                                            *)

\* What a look-up's way is at each level, and that it leads through nodes of the tree.
LEMMA AlongAt ==
  ASSUME NEW t, NEW p, NEW f, Along(f, t, p)
  PROVE  \A level \in 1 .. t.log2 :
           f[level] = IF level = t.log2 THEN {<<0, 0>>}
                      ELSE Toward(t, f[level + 1], ChildIndex(p, level + 1))
  <1> DEFINE h == [level \in 1 .. t.log2 |->
                     IF level = t.log2 THEN {<<0, 0>>}
                     ELSE Toward(t, f[level + 1], ChildIndex(p, level + 1))]
  <1>1. f = h
    BY DEF Along
  <1>2. \A level \in 1 .. t.log2 :
          h[level] = IF level = t.log2 THEN {<<0, 0>>}
                     ELSE Toward(t, f[level + 1], ChildIndex(p, level + 1))
    OBVIOUS
  <1> HIDE DEF h
  <1> QED
    BY <1>1, <1>2

\* A way through the nodes, which ends in the pointers looked up.
WayIn(f, t, N, p) ==
  /\ Along(f, t, p) /\ \A level \in 1 .. t.log2 : f[level] \subseteq Level(N, level)
  /\ PointersAt(t, p) = PlacesOf(f[1], {ChildIndex(p, 1)})

\* There is one.
LEMMA WayExists ==
  ASSUME NEW t, NEW n \in Nat, NEW N, Shape(t), Well(t, N), Hung(t, N, n), t.log2 # 0,
         NEW p \in [1 .. 3 -> Nat]
  PROVE  \E f : WayIn(f, t, N, p)
  <1>1. PICK f : Along(f, t, p) /\ \A level \in 1 .. t.log2 : f[level] \subseteq Level(N, level)
    BY LookedUp DEF Beside
  <1>2. t.log2 \in Nat
    BY DEF Shape
  <1>3. PointersAt(t, p) = PlacesOf(f[1], {ChildIndex(p, 1)})
    BY <1>1, <1>2, LookUp
  <1> QED
    BY <1>1, <1>3 DEF WayIn

\* A node k is child c of a node of level l in S.
ChildOf(t, N, k, S, l, c) ==
  \E x \in N : /\ x[1] = l /\ <<x[2], x[3]>> \in S
              /\ Linked(t, x, c) /\ k = <<Kid(t, x, c)[2], Kid(t, x, c)[3]>>

\* A step down a way: from a node, by the child the position is in.
LEMMA WayStep ==
  ASSUME NEW t, NEW N, Shape(t), NEW p \in [1 .. 3 -> Nat], NEW f, WayIn(f, t, N, p),
         NEW level \in 1 .. t.log2, level # t.log2
  PROVE  LET c == ChildIndex(p, level + 1)
         IN  /\ level + 1 \in 1 .. t.log2 /\ c \in 0 .. 7
             /\ \A k : k \in f[level] <=> ChildOf(t, N, k, f[level + 1], level + 1, c)
  <1> DEFINE c == ChildIndex(p, level + 1)
  <1>1. /\ level + 1 \in 1 .. t.log2 /\ level + 1 > 1 /\ level + 1 \in Nat /\ level + 1 >= 1
    BY DEF Shape
  <1>2. c \in 0 .. 7
    BY <1>1, ChildIndexRange
  <1>3. f[level] = Toward(t, f[level + 1], c) /\ f[level + 1] \subseteq Level(N, level + 1)
    BY <1>1, AlongAt DEF WayIn
  <1> HIDE DEF c
  <1>4. ASSUME NEW x
        PROVE  /\ Link(t, x, c) = 0 => Child(t, <<x[2], x[3]>>, c) = <<>>
               /\ Link(t, x, c) # 0 => /\ Child(t, <<x[2], x[3]>>, c) = <<Kid(t, x, c)[2], Kid(t, x, c)[3]>>
                                       /\ Child(t, <<x[2], x[3]>>, c) # <<>>
    BY <1>2, ChildIsKid
  <1>5. ASSUME NEW k \in f[level]
        PROVE  ChildOf(t, N, k, f[level + 1], level + 1, c)
    <2>1. PICK m \in f[level + 1] : k = Child(t, m, c) /\ k # <<>>
      BY <1>3 DEF Toward
    <2>2. PICK x \in N : x[1] = level + 1 /\ m = <<x[2], x[3]>>
      BY <1>3 DEF Level
    <2>3. Linked(t, x, c) /\ k = <<Kid(t, x, c)[2], Kid(t, x, c)[3]>>
      BY <1>1, <1>4, <2>1, <2>2 DEF Linked
    <2> QED
      BY <2>1, <2>2, <2>3 DEF ChildOf
  <1>6. ASSUME NEW k, ChildOf(t, N, k, f[level + 1], level + 1, c)
        PROVE  k \in f[level]
    <2>1. PICK x \in N : /\ x[1] = level + 1 /\ <<x[2], x[3]>> \in f[level + 1]
                         /\ Linked(t, x, c) /\ k = <<Kid(t, x, c)[2], Kid(t, x, c)[3]>>
      BY <1>6 DEF ChildOf
    <2>2. /\ Child(t, <<x[2], x[3]>>, c) = <<Kid(t, x, c)[2], Kid(t, x, c)[3]>>
          /\ Child(t, <<x[2], x[3]>>, c) # <<>>
      BY <1>4, <2>1 DEF Linked
    <2> QED
      BY <1>3, <2>1, <2>2 DEF Toward
  <1> QED
    BY <1>1, <1>2, <1>5, <1>6 DEF c

\* A step down from a node keeps to levels and children.
LEMMA KidFacts ==
  ASSUME NEW t, NEW x, NEW c
  PROVE  Kid(t, x, c) = <<x[1] - 1, Kid(t, x, c)[2], Kid(t, x, c)[3]>>
  BY DEF Kid

\* When written entries keep their values, nodes and links stay.
LEMMA NodesStay ==
  ASSUME NEW t, NEW u, NEW N, NEW M, Shape(t), Shape(u), Well(t, N), Well(u, M),
         u.log2 = t.log2, Keeps(t, u)
  PROVE  /\ \A x \in N, c \in 0 .. 7 : Linked(t, x, c) =>
              Linked(u, x, c) /\ Kid(u, x, c) = Kid(t, x, c)
         /\ N \subseteq M
  <1>1. ASSUME NEW x \in N, NEW c \in 0 .. 7, Linked(t, x, c)
        PROVE  Linked(u, x, c) /\ Kid(u, x, c) = Kid(t, x, c)
    <2>1. x[2] \in Bufs(t) /\ x[3] \in Nat
      BY NodeFacts
    <2>2. x[3] + c \in Nat
      BY <2>1
    <2>3. x[1] > 1 /\ Link(t, x, c) # 0
      BY <1>1 DEF Linked
    <2>4. Link(u, x, c) = Link(t, x, c)
      BY <2>1, <2>2, <2>3 DEF Link, Keeps
    <2> QED
      BY <2>3, <2>4 DEF Linked, Kid
  <1> DEFINE S == {l \in Nat : \A x \in N : x[1] = l => x \in M}
  <1>2. t.log2 \in Nat
    BY DEF Shape
  <1>3. t.log2 \in S
    <2>1. ASSUME NEW x \in N, x[1] = t.log2
          PROVE  x \in M
      <3>1. x = Root(t) /\ x[1] \in 1 .. t.log2
        BY <2>1, NodeFacts DEF Well, Rooted
      <3>2. u.log2 > 0
        BY <1>2, <2>1, <3>1
      <3>3. Root(u) \in M
        BY <3>2 DEF Well, Rooted
      <3> QED
        BY <3>1, <3>3 DEF Root
    <2> QED
      BY <1>2, <2>1
  <1>4. ASSUME NEW l \in 1 .. t.log2, l # t.log2, l + 1 \in S
        PROVE  l \in S
    <2>1. ASSUME NEW y \in N, y[1] = l
          PROVE  y \in M
      <3>1. y # Root(t)
        BY <1>4, <2>1 DEF Root
      <3>2. PICK x \in N, c \in 0 .. 7 : Linked(t, x, c) /\ Kid(t, x, c) = y
        BY <3>1 DEF Well, OneParent
      <3>3. x[1] - 1 = l /\ x[1] \in Nat
        <4>1. Kid(t, x, c)[1] = x[1] - 1
          BY KidFacts
        <4> QED
          BY <1>2, <2>1, <3>2, <4>1, NodeFacts
      <3>4. x \in M
        BY <1>4, <3>3
      <3>5. Linked(u, x, c) /\ Kid(u, x, c) = y
        BY <1>1, <3>2
      <3> QED
        BY <3>4, <3>5 DEF Well, Closed
    <2> QED
      BY <1>2, <2>1
  <1> HIDE DEF S
  <1>5. 1 .. t.log2 \subseteq S
    BY <1>2, <1>3, <1>4, Downward
  <1>6. N \subseteq M
    BY <1>5, NodeFacts DEF S
  <1> QED
    BY <1>1, <1>6

\* A pointer belongs to one leaf node, as one child.
LEMMA PlaceUnique ==
  ASSUME NEW t, NEW N, Shape(t), Well(t, N), NEW x \in N, NEW y \in N, x[1] = 1, y[1] = 1,
         NEW c \in 0 .. 7, NEW d \in 0 .. 7, x[2] = y[2],
         x[3] + PtrEntries * c = y[3] + PtrEntries * d
  PROVE  x = y /\ c = d
  <1>1. /\ x[3] \in Nat /\ y[3] \in Nat /\ Span(x[1]) = 8 * PtrEntries
        /\ Span(y[1]) = 8 * PtrEntries /\ PtrEntries \in Nat /\ PtrEntries >= 1
    BY NodeFacts, SpanFacts, ConstantFacts
  <1>2. /\ PtrEntries * c \in Nat /\ PtrEntries * c + PtrEntries <= 8 * PtrEntries
        /\ PtrEntries * d \in Nat /\ PtrEntries * d + PtrEntries <= 8 * PtrEntries
        /\ c # d => \/ PtrEntries * c + PtrEntries <= PtrEntries * d
                    \/ PtrEntries * d + PtrEntries <= PtrEntries * c
    BY PtrApart
  <1>3. x = y
    <2> SUFFICES ASSUME x # y
                 PROVE  FALSE
      OBVIOUS
    <2>1. x[3] + Span(x[1]) <= y[3] \/ y[3] + Span(y[1]) <= x[3]
      BY DEF Well, Apart
    <2> QED
      BY <1>1, <1>2, <2>1
  <1> QED
    BY <1>1, <1>2, <1>3

\* What a look-up finds are pointers of the octree, and no more than one.
LEMMA PointersIn ==
  ASSUME NEW t, NEW N, Shape(t), Well(t, N), t.log2 # 0, NEW p \in [1 .. 3 -> Nat],
         NEW f, WayIn(f, t, N, p)
  PROVE  /\ \A r \in PointersAt(t, p) : \E x \in N :
              /\ x[1] = 1 /\ <<x[2], x[3]>> \in f[1]
              /\ r = <<x[2], x[3] + PtrEntries * ChildIndex(p, 1)>>
         /\ PointersAt(t, p) \subseteq Places(t, N)
         /\ \A r, s \in PointersAt(t, p) : r = s
  <1>1. t.log2 \in Nat /\ 1 \in 1 .. t.log2 /\ t.log2 \in 1 .. t.log2
    BY DEF Shape
  <1>2. PointersAt(t, p) = PlacesOf(f[1], {ChildIndex(p, 1)}) /\ f[1] \subseteq Level(N, 1)
        /\ ChildIndex(p, 1) \in 0 .. 7
    BY <1>1, ChildIndexRange DEF WayIn
  <1>3. ASSUME NEW r \in PointersAt(t, p)
        PROVE  \E x \in N : /\ x[1] = 1 /\ <<x[2], x[3]>> \in f[1]
                            /\ r = <<x[2], x[3] + PtrEntries * ChildIndex(p, 1)>>
    <2>1. PICK k \in f[1] : r = <<k[1], k[2] + PtrEntries * ChildIndex(p, 1)>>
      BY <1>2 DEF PlacesOf
    <2>2. PICK x \in N : x[1] = 1 /\ k = <<x[2], x[3]>>
      BY <1>2 DEF Level
    <2> QED
      BY <2>1, <2>2
  <1>4. PointersAt(t, p) \subseteq Places(t, N)
    <2> SUFFICES ASSUME NEW r \in PointersAt(t, p)
                 PROVE  r \in Places(t, N)
      OBVIOUS
    <2> DEFINE c == ChildIndex(p, 1)
    <2>1. PICK x \in N : x[1] = 1 /\ r = <<x[2], x[3] + PtrEntries * c>>
      BY <1>3
    <2>2. c \in 0 .. 7
      BY <1>2
    <2> HIDE DEF c
    <2>3. x \in {y \in N : y[1] = 1}
      BY <2>1
    <2> QED
      BY <2>1, <2>2, <2>3 DEF Places
  <1> DEFINE S == {l \in Nat : \A j, k \in f[l] : j = k}
  <1>5. t.log2 \in S
    <2>1. f[t.log2] = {<<0, 0>>}
      BY <1>1, AlongAt DEF WayIn
    <2> QED
      BY <1>1, <2>1
  <1>6. ASSUME NEW l \in 1 .. t.log2, l # t.log2, l + 1 \in S
        PROVE  l \in S
    <2> DEFINE c == ChildIndex(p, l + 1)
    <2>1. f[l] = Toward(t, f[l + 1], c)
      BY <1>6, AlongAt DEF WayIn
    <2>2. \A j, k \in f[l + 1] : j = k
      BY <1>6
    <2> HIDE DEF c
    <2>3. \A j, k \in Toward(t, f[l + 1], c) : j = k
      BY <2>2 DEF Toward
    <2> QED
      BY <1>1, <2>1, <2>3
  <1> HIDE DEF S
  <1>7. 1 .. t.log2 \subseteq S
    BY <1>1, <1>5, <1>6, Downward
  <1>8. \A j, k \in f[1] : j = k
    BY <1>1, <1>7 DEF S
  <1>9. \A r, s \in PointersAt(t, p) : r = s
    BY <1>2, <1>8 DEF PlacesOf
  <1> QED
    BY <1>3, <1>4, <1>9

\* Positions whose look-ups find the same pointer take the same children.
LEMMA CommonPointer ==
  ASSUME NEW t, NEW n \in Nat, NEW N, Shape(t), Well(t, N), Hung(t, N, n),
         NEW p \in [1 .. 3 -> Nat], NEW q \in [1 .. 3 -> Nat],
         NEW r \in PointersAt(t, p), r \in PointersAt(t, q)
  PROVE  Near(t.log2, p, q)
  <1>1. CASE t.log2 = 0
    BY <1>1 DEF Near
  <1>2. CASE t.log2 # 0
    <2>1. t.log2 \in Nat /\ 1 \in 1 .. t.log2
      BY <1>2 DEF Shape
    <2>2. PICK f : WayIn(f, t, N, p)
      BY <1>2, WayExists
    <2>3. PICK h : WayIn(h, t, N, q)
      BY <1>2, WayExists
    <2> DEFINE Same(l) == ChildIndex(p, l) = ChildIndex(q, l)
               Meet(l) == \E x \in N :
                 x[1] = l /\ <<x[2], x[3]>> \in f[l] /\ <<x[2], x[3]>> \in h[l]
               S == {l \in 1 .. t.log2 : Meet(l) /\ Same(l)}
    <2>4. 1 \in S
      <3>1. PICK x \in N : /\ x[1] = 1 /\ <<x[2], x[3]>> \in f[1]
                           /\ r = <<x[2], x[3] + PtrEntries * ChildIndex(p, 1)>>
        BY <1>2, <2>2, PointersIn
      <3>2. PICK y \in N : /\ y[1] = 1 /\ <<y[2], y[3]>> \in h[1]
                           /\ r = <<y[2], y[3] + PtrEntries * ChildIndex(q, 1)>>
        BY <1>2, <2>3, PointersIn
      <3>3. ChildIndex(p, 1) \in 0 .. 7 /\ ChildIndex(q, 1) \in 0 .. 7
        BY ChildIndexRange
      <3>4. x = y /\ ChildIndex(p, 1) = ChildIndex(q, 1)
        BY <3>1, <3>2, <3>3, PlaceUnique
      <3> QED
        BY <2>1, <3>1, <3>2, <3>4
    <2>5. ASSUME NEW l \in 1 .. t.log2, l # t.log2, l \in S
          PROVE  l + 1 \in S
      <3> DEFINE c == ChildIndex(p, l + 1)
                 d == ChildIndex(q, l + 1)
      <3>1. PICK x \in N : x[1] = l /\ <<x[2], x[3]>> \in f[l] /\ <<x[2], x[3]>> \in h[l]
        BY <2>5
      <3>2. l + 1 \in 1 .. t.log2 /\ c \in 0 .. 7 /\ d \in 0 .. 7
        BY <2>2, <2>3, <2>5, WayStep
      <3>3. c = ChildIndex(p, l + 1) /\ d = ChildIndex(q, l + 1)
        OBVIOUS
      <3> HIDE DEF c, d
      <3>4. PICK y \in N : /\ y[1] = l + 1 /\ <<y[2], y[3]>> \in f[l + 1] /\ Linked(t, y, c)
                           /\ <<x[2], x[3]>> = <<Kid(t, y, c)[2], Kid(t, y, c)[3]>>
        <4> DEFINE k == <<x[2], x[3]>>
        <4>1. k \in f[l] /\ l \in 1 .. t.log2 /\ l # t.log2
          BY <2>5, <3>1
        <4> HIDE DEF k, S
        <4>2. ChildOf(t, N, k, f[l + 1], l + 1, c)
          BY <2>2, <3>3, <4>1, WayStep
        <4> QED
          BY <4>2 DEF ChildOf, k
      <3>5. PICK z \in N : /\ z[1] = l + 1 /\ <<z[2], z[3]>> \in h[l + 1] /\ Linked(t, z, d)
                           /\ <<x[2], x[3]>> = <<Kid(t, z, d)[2], Kid(t, z, d)[3]>>
        <4> DEFINE k == <<x[2], x[3]>>
        <4>1. k \in h[l] /\ l \in 1 .. t.log2 /\ l # t.log2
          BY <2>5, <3>1
        <4> HIDE DEF k, S
        <4>2. ChildOf(t, N, k, h[l + 1], l + 1, d)
          BY <2>3, <3>3, <4>1, WayStep
        <4> QED
          BY <4>2 DEF ChildOf, k
      <3>6. Kid(t, y, c) = Kid(t, z, d)
        <4>1. Kid(t, y, c) = <<y[1] - 1, Kid(t, y, c)[2], Kid(t, y, c)[3]>>
          BY KidFacts
        <4>2. Kid(t, z, d) = <<z[1] - 1, Kid(t, z, d)[2], Kid(t, z, d)[3]>>
          BY KidFacts
        <4> QED
          BY <3>4, <3>5, <4>1, <4>2
      <3>7. y = z /\ c = d
        BY <3>2, <3>4, <3>5, <3>6 DEF Well, OneParent
      <3> QED
        BY <3>2, <3>4, <3>5, <3>7, <3>3
    <2> HIDE DEF S
    <2>6. 1 .. t.log2 \subseteq S
      BY <2>1, <2>4, <2>5, Upward
    <2> QED
      BY <2>6 DEF S, Near
  <1> QED
    BY <1>1, <1>2

\* Positions that take the same children find the same pointers.
LEMMA PointersSame ==
  ASSUME NEW t, NEW n \in Nat, NEW N, Shape(t), Well(t, N), Hung(t, N, n),
         NEW p \in [1 .. 3 -> Nat], NEW q \in [1 .. 3 -> Nat], Near(t.log2, p, q)
  PROVE  PointersAt(t, p) = PointersAt(t, q)
  <1>1. CASE t.log2 = 0
    BY <1>1 DEF PointersAt, PointersOn, NodesOn
  <1>2. CASE t.log2 # 0
    <2>1. t.log2 \in Nat /\ 1 \in 1 .. t.log2 /\ t.log2 \in 1 .. t.log2
      BY <1>2 DEF Shape
    <2>2. PICK f : WayIn(f, t, N, p)
      BY <1>2, WayExists
    <2>3. PICK h : WayIn(h, t, N, q)
      BY <1>2, WayExists
    <2>4. \A l \in 1 .. t.log2 : ChildIndex(p, l) = ChildIndex(q, l)
      BY DEF Near
    <2>5. \A l \in 1 .. t.log2 :
            f[l] = IF l = t.log2 THEN {<<0, 0>>} ELSE Toward(t, f[l + 1], ChildIndex(p, l + 1))
      BY <2>2, AlongAt DEF WayIn
    <2>6. \A l \in 1 .. t.log2 :
            h[l] = IF l = t.log2 THEN {<<0, 0>>} ELSE Toward(t, h[l + 1], ChildIndex(q, l + 1))
      BY <2>3, AlongAt DEF WayIn
    <2> DEFINE S == {l \in Nat : f[l] = h[l]}
    <2>7. t.log2 \in S
      BY <2>1, <2>5, <2>6
    <2>8. ASSUME NEW l \in 1 .. t.log2, l # t.log2, l + 1 \in S
          PROVE  l \in S
      <3>1. l + 1 \in 1 .. t.log2
        BY <2>1, <2>8
      <3>2. f[l + 1] = h[l + 1] /\ ChildIndex(p, l + 1) = ChildIndex(q, l + 1)
        BY <2>4, <2>8, <3>1
      <3> QED
        BY <2>1, <2>5, <2>6, <2>8, <3>2
    <2> HIDE DEF S
    <2>9. 1 .. t.log2 \subseteq S
      BY <2>1, <2>7, <2>8, Downward
    <2>10. f[1] = h[1] /\ ChildIndex(p, 1) = ChildIndex(q, 1)
      BY <2>1, <2>4, <2>9 DEF S
    <2> QED
      BY <2>2, <2>3, <2>10 DEF WayIn
  <1> QED
    BY <1>1, <1>2

\* A pointer that is set keeps its value when written entries do.
LEMMA PointerKept ==
  ASSUME NEW t, NEW u, NEW N, Shape(t), Well(t, N), Keeps(t, u),
         NEW r \in Places(t, N), Ptr(t, r) # 0
  PROVE  Ptr(u, r) = Ptr(t, r)
  <1>1. r[1] \in Bufs(t) /\ r[2] \in Nat
    BY PlaceFacts
  <1>2. Ent(t, r[1], r[2]) # 0
    BY PtrRead
  <1>3. Ent(u, r[1], r[2]) = Ent(t, r[1], r[2])
    BY <1>1, <1>2 DEF Keeps
  <1> QED
    BY <1>3, PtrRead

\* An octree that is another one, with more nodes perhaps, but the same chunks.
Extends(t, N, u, M, n) ==
  /\ Shape(t) /\ Well(t, N) /\ Hung(t, N, n)
  /\ Shape(u) /\ Well(u, M) /\ Hung(u, M, n)
  /\ u.log2 = t.log2 /\ Keeps(t, u)

\* The ways in the two octrees: the nodes found in the first are those found in the second
\* which the first one has.
LEMMA TwoWays ==
  ASSUME NEW t, NEW u, NEW N, NEW M, NEW n \in Nat, Extends(t, N, u, M, n), t.log2 # 0,
         NEW q \in [1 .. 3 -> Nat], NEW f, WayIn(f, t, N, q), NEW h, WayIn(h, u, M, q)
  PROVE  /\ f[1] \subseteq h[1]
         /\ \A x \in N : x[1] = 1 /\ <<x[2], x[3]>> \in h[1] => <<x[2], x[3]>> \in f[1]
  <1>1. /\ Shape(t) /\ Well(t, N) /\ Shape(u) /\ Well(u, M) /\ u.log2 = t.log2
        /\ t.log2 \in Nat /\ 1 \in 1 .. t.log2 /\ t.log2 \in 1 .. t.log2
    BY DEF Extends, Shape
  <1>2. /\ \A x \in N, c \in 0 .. 7 : Linked(t, x, c) =>
             Linked(u, x, c) /\ Kid(u, x, c) = Kid(t, x, c)
        /\ N \subseteq M
    <2>1. Keeps(t, u)
      BY DEF Extends
    <2> QED
      BY <1>1, <2>1, NodesStay
  <1>3. f[t.log2] = {<<0, 0>>} /\ h[t.log2] = {<<0, 0>>}
    BY <1>1, AlongAt DEF WayIn
  <1> DEFINE Down == {l \in Nat : f[l] \subseteq h[l]}
             Back == {l \in Nat : \A x \in N : x[1] = l /\ <<x[2], x[3]>> \in h[l] =>
                                               <<x[2], x[3]>> \in f[l]}
  <1>4. t.log2 \in Down /\ t.log2 \in Back
    BY <1>1, <1>3
  <1>5. ASSUME NEW l \in 1 .. t.log2, l # t.log2, l + 1 \in Down
        PROVE  l \in Down
    <2> DEFINE c == ChildIndex(q, l + 1)
    <2>1. f[l + 1] \subseteq h[l + 1]
      BY <1>5
    <2>2. /\ c \in 0 .. 7
          /\ \A k : k \in f[l] <=> ChildOf(t, N, k, f[l + 1], l + 1, c)
          /\ \A k : k \in h[l] <=> ChildOf(u, M, k, h[l + 1], l + 1, c)
      BY <1>1, <1>5, WayStep
    <2> HIDE DEF c, Down, Back
    <2>3. ASSUME NEW k \in f[l]
          PROVE  k \in h[l]
      <3>1. ChildOf(t, N, k, f[l + 1], l + 1, c)
        BY <2>2
      <3>2. PICK x \in N : /\ x[1] = l + 1 /\ <<x[2], x[3]>> \in f[l + 1]
                           /\ Linked(t, x, c) /\ k = <<Kid(t, x, c)[2], Kid(t, x, c)[3]>>
        BY <3>1 DEF ChildOf
      <3>3. Linked(u, x, c) /\ Kid(u, x, c) = Kid(t, x, c) /\ x \in M
        BY <1>2, <2>2, <3>2
      <3>4. ChildOf(u, M, k, h[l + 1], l + 1, c)
        BY <2>1, <3>2, <3>3 DEF ChildOf
      <3> QED
        BY <2>2, <3>4
    <2> QED
      BY <1>1, <2>3 DEF Down
  <1>6. ASSUME NEW l \in 1 .. t.log2, l # t.log2, l + 1 \in Back
        PROVE  l \in Back
    <2> DEFINE c == ChildIndex(q, l + 1)
    <2>1. \A x \in N : x[1] = l + 1 /\ <<x[2], x[3]>> \in h[l + 1] => <<x[2], x[3]>> \in f[l + 1]
      BY <1>6
    <2>2. /\ c \in 0 .. 7
          /\ \A k : k \in f[l] <=> ChildOf(t, N, k, f[l + 1], l + 1, c)
          /\ \A k : k \in h[l] <=> ChildOf(u, M, k, h[l + 1], l + 1, c)
      BY <1>1, <1>6, WayStep
    <2> HIDE DEF c, Down, Back
    <2>3. ASSUME NEW x \in N, x[1] = l, <<x[2], x[3]>> \in h[l]
          PROVE  <<x[2], x[3]>> \in f[l]
      <3> DEFINE k == <<x[2], x[3]>>
      <3>1. ChildOf(u, M, k, h[l + 1], l + 1, c)
        BY <2>2, <2>3
      <3>2. PICK y \in M : /\ y[1] = l + 1 /\ <<y[2], y[3]>> \in h[l + 1]
                           /\ Linked(u, y, c) /\ k = <<Kid(u, y, c)[2], Kid(u, y, c)[3]>>
        BY <3>1 DEF ChildOf
      <3>3. Kid(u, y, c) = x
        <4>1. Kid(u, y, c) = <<y[1] - 1, Kid(u, y, c)[2], Kid(u, y, c)[3]>>
          BY KidFacts
        <4>2. x = <<x[1], x[2], x[3]>>
          BY <1>1, NodeFacts
        <4> QED
          BY <2>3, <3>2, <4>1, <4>2
      <3>4. x # Root(t)
        BY <1>6, <2>3 DEF Root
      <3>5. PICK z \in N, d \in 0 .. 7 : Linked(t, z, d) /\ Kid(t, z, d) = x
        BY <1>1, <3>4 DEF Well, OneParent
      <3>6. z \in M /\ Linked(u, z, d) /\ Kid(u, z, d) = x
        BY <1>2, <3>5
      <3>7. z = y /\ d = c
        BY <1>1, <2>2, <3>2, <3>3, <3>6 DEF Well, OneParent
      <3>8. <<z[2], z[3]>> \in f[l + 1] /\ z[1] = l + 1
        BY <2>1, <3>2, <3>7
      <3>9. k = <<Kid(t, z, c)[2], Kid(t, z, c)[3]>>
        BY <3>5, <3>7
      <3>10. ChildOf(t, N, k, f[l + 1], l + 1, c)
        BY <3>5, <3>7, <3>8, <3>9 DEF ChildOf
      <3> QED
        BY <2>2, <3>10
    <2> QED
      BY <1>1, <2>3 DEF Back
  <1> HIDE DEF Down, Back
  <1>7. 1 .. t.log2 \subseteq Down
    BY <1>1, <1>4, <1>5, Downward
  <1>8. 1 .. t.log2 \subseteq Back
    BY <1>1, <1>4, <1>6, Downward
  <1> QED
    BY <1>1, <1>7, <1>8 DEF Down, Back

\* The leaf at a position, as pointers have it.
LEMMA LeafIs ==
  ASSUME NEW t, NEW q, NEW c
  PROVE  c \in LeafAt(t, q) <=> c # 0 /\ \E r \in PointersAt(t, q) : Ptr(t, r) = c
  BY DEF LeafAt, PointersAt, Ptr

\* The same leaves lie at each position.
LEMMA SameLeaves ==
  ASSUME NEW t, NEW u, NEW N, NEW M, NEW n \in Nat, Extends(t, N, u, M, n), t.log2 # 0,
         NEW q \in [1 .. 3 -> Nat]
  PROVE  LeafAt(u, q) = LeafAt(t, q)
  <1>1. /\ Shape(t) /\ Well(t, N) /\ Hung(t, N, n) /\ Shape(u) /\ Well(u, M) /\ Hung(u, M, n)
        /\ u.log2 = t.log2 /\ Keeps(t, u)
    BY DEF Extends
  <1>2. PICK f : WayIn(f, t, N, q)
    BY <1>1, WayExists
  <1>3. PICK h : WayIn(h, u, M, q)
    BY <1>1, WayExists
  <1>4. /\ f[1] \subseteq h[1]
        /\ \A x \in N : x[1] = 1 /\ <<x[2], x[3]>> \in h[1] => <<x[2], x[3]>> \in f[1]
    BY <1>2, <1>3, TwoWays
  <1>5. N \subseteq M
    BY <1>1, NodesStay
  <1> DEFINE c == ChildIndex(q, 1)
  <1>6. /\ PointersAt(t, q) = PlacesOf(f[1], {c}) /\ PointersAt(t, q) \subseteq Places(t, N)
        /\ PointersAt(u, q) = PlacesOf(h[1], {c}) /\ PointersAt(u, q) \subseteq Places(u, M)
    BY <1>1, <1>2, <1>3, PointersIn DEF WayIn
  <1>7. \A r \in PointersAt(u, q) : \E y \in M :
          /\ y[1] = 1 /\ <<y[2], y[3]>> \in h[1] /\ r = <<y[2], y[3] + PtrEntries * c>>
    BY <1>1, <1>3, PointersIn
  <1>8. c \in 0 .. 7
    BY ChildIndexRange
  <1> HIDE DEF c
  <1>9. ASSUME NEW leaf \in LeafAt(t, q)
        PROVE  leaf \in LeafAt(u, q)
    <2>1. PICK r \in PointersAt(t, q) : Ptr(t, r) = leaf /\ leaf # 0
      BY LeafIs
    <2>2. Ptr(u, r) = leaf
      BY <1>1, <1>6, <2>1, PointerKept
    <2>3. r \in PointersAt(u, q)
      BY <1>4, <1>6, <2>1 DEF PlacesOf
    <2> QED
      BY <2>1, <2>2, <2>3, LeafIs
  <1>10. ASSUME NEW leaf \in LeafAt(u, q)
         PROVE  leaf \in LeafAt(t, q)
    <2>1. PICK r \in PointersAt(u, q) : Ptr(u, r) = leaf /\ leaf # 0
      BY LeafIs
    <2>2. leaf \in 1 .. n
      <3>1. Ptr(u, r) \in 0 .. n
        BY <1>1, <1>6 DEF Hung
      <3> QED
        BY <2>1, <3>1
    <2>3. PICK s \in Places(t, N) : Ptr(t, s) = leaf
      BY <1>1, <2>2 DEF Hung
    <2>4. Ptr(u, s) = leaf
      BY <1>1, <2>1, <2>3, PointerKept
    <2>5. PICK x \in N, d \in 0 .. 7 : x[1] = 1 /\ s = <<x[2], x[3] + PtrEntries * d>>
      BY DEF Places
    <2>6. s \in Places(u, M)
      <3>1. x \in {y \in M : y[1] = 1}
        BY <1>5, <2>5
      <3> QED
        BY <1>1, <2>5, <3>1 DEF Places
    <2>7. r = s
      BY <1>1, <1>6, <2>1, <2>4, <2>6 DEF Hung
    <2>8. PICK y \in M : /\ y[1] = 1 /\ <<y[2], y[3]>> \in h[1]
                         /\ r = <<y[2], y[3] + PtrEntries * c>>
      BY <1>7
    <2>9. x[2] = y[2] /\ x[3] + PtrEntries * d = y[3] + PtrEntries * c
      BY <2>5, <2>7, <2>8
    <2>10. x = y /\ d = c
      BY <1>1, <1>5, <1>8, <2>5, <2>8, <2>9, PlaceUnique
    <2>11. <<x[2], x[3]>> \in f[1]
      BY <1>4, <2>5, <2>8, <2>10
    <2>12. s \in PointersAt(t, q)
      <3> DEFINE k == <<x[2], x[3]>>
      <3>1. k[1] = x[2] /\ k[2] = x[3] /\ k \in f[1]
        BY <2>11
      <3> HIDE DEF k
      <3>2. s = <<k[1], k[2] + PtrEntries * c>>
        BY <2>5, <2>10, <3>1
      <3> QED
        BY <1>6, <3>1, <3>2 DEF PlacesOf
    <2> QED
      BY <2>1, <2>3, <2>12, LeafIs
  <1> QED
    BY <1>9, <1>10

\* A traversal leaves what hangs in the octree where it is.
LEMMA LeavesStay ==
  ASSUME NEW t, NEW n \in Nat, NEW N, Shape(t), Well(t, N), Hung(t, N, n),
         NEW p \in [1 .. 3 -> Nat], NEW q \in [1 .. 3 -> Nat]
  PROVE  LeafAt(GetLeafPtr(t, p).tree, q) = LeafAt(t, q)
  <1> DEFINE g == GetLeafPtr(t, p)
  <1>1. CASE t.log2 = 0
    BY <1>1, LeafTree
  <1>2. CASE t.log2 # 0
    <2>1. t.log2 \in Nat /\ 1 \in 1 .. t.log2
      BY <1>2 DEF Shape
    <2>2. PICK r : Way(r, t, p) /\ g.tree = Follow(r[1]).tree
      BY <2>1, Loop
    <2>3. Keeps(t, r[1].tree) /\ Follow(r[1]).tree = r[1].tree
      BY <1>2, <2>1, <2>2, RoundsKeep
    <2>4. Found(g, t.log2, n)
      BY LeafFound
    <2> HIDE DEF g
    <2>5. Shape(g.tree) /\ g.tree.log2 = t.log2
      BY <2>4 DEF Found
    <2>6. PICK M : Well(g.tree, M) /\ Hung(g.tree, M, n)
      BY <2>4 DEF Found
    <2>7. Extends(t, N, g.tree, M, n)
      BY <2>2, <2>3, <2>5, <2>6 DEF Extends
    <2>8. LeafAt(g.tree, q) = LeafAt(t, q)
      BY <1>2, <2>7, SameLeaves
    <2> QED
      BY <2>8 DEF g
  <1> QED
    BY <1>1, <1>2

\* What hangs at one position and at another.
LEMMA LeafFacts ==
  ASSUME NEW t, NEW n \in Nat, TreeOf(t, n), NEW p \in [1 .. 3 -> Nat], NEW q \in [1 .. 3 -> Nat]
  PROVE  /\ LeafAt(t, p) \subseteq 1 .. n /\ \A c, d \in LeafAt(t, p) : c = d
         /\ Near(t.log2, p, q) => LeafAt(t, q) = LeafAt(t, p)
         /\ \A c \in LeafAt(t, p) : c \in LeafAt(t, q) => Near(t.log2, p, q)
  <1>1. PICK N : Shape(t) /\ Well(t, N) /\ Hung(t, N, n)
    BY DEF TreeOf
  <1>2. ASSUME NEW v \in [1 .. 3 -> Nat]
        PROVE  /\ PointersAt(t, v) \subseteq Places(t, N)
               /\ \A r, s \in PointersAt(t, v) : r = s
    <2>1. CASE t.log2 = 0
      BY <2>1 DEF PointersAt, PointersOn, NodesOn, Places
    <2>2. CASE t.log2 # 0
      <3>1. PICK f : WayIn(f, t, N, v)
        BY <1>1, <2>2, WayExists
      <3> QED
        BY <1>1, <2>2, <3>1, PointersIn
    <2> QED
      BY <2>1, <2>2
  <1>3. ASSUME NEW c \in LeafAt(t, p)
        PROVE  c \in 1 .. n
    <2>1. PICK r \in PointersAt(t, p) : Ptr(t, r) = c /\ c # 0
      BY LeafIs
    <2>2. Ptr(t, r) \in 0 .. n
      BY <1>1, <1>2 DEF Hung
    <2> QED
      BY <2>1, <2>2
  <1>4. ASSUME NEW c \in LeafAt(t, p), NEW d \in LeafAt(t, p)
        PROVE  c = d
    <2>1. PICK r \in PointersAt(t, p) : Ptr(t, r) = c
      BY LeafIs
    <2>2. PICK s \in PointersAt(t, p) : Ptr(t, s) = d
      BY LeafIs
    <2> QED
      BY <1>2, <2>1, <2>2
  <1>5. ASSUME Near(t.log2, p, q)
        PROVE  LeafAt(t, q) = LeafAt(t, p)
    <2>1. PointersAt(t, p) = PointersAt(t, q)
      BY <1>1, <1>5, PointersSame
    <2> QED
      BY <2>1 DEF LeafAt, PointersAt
  <1>6. ASSUME NEW c \in LeafAt(t, p), c \in LeafAt(t, q)
        PROVE  Near(t.log2, p, q)
    <2>1. PICK r \in PointersAt(t, p) : Ptr(t, r) = c /\ c # 0
      BY LeafIs
    <2>2. PICK s \in PointersAt(t, q) : Ptr(t, s) = c
      BY <1>6, LeafIs
    <2>3. r = s
      BY <1>1, <1>2, <2>1, <2>2 DEF Hung
    <2> QED
      BY <1>1, <2>2, <2>3, CommonPointer
  <1> QED
    BY <1>3, <1>4, <1>5, <1>6

\* Where a new chunk hangs once the pointer that was found is set.
LEMMA LeafPut ==
  ASSUME NEW t, NEW n \in Nat, TreeOf(t, n), NEW p \in [1 .. 3 -> Nat], NEW q \in [1 .. 3 -> Nat],
         GetLeafPtr(t, p).ptr # -1, GetLeaf(GetLeafPtr(t, p)) = 0
  PROVE  LeafAt(SetLeaf(GetLeafPtr(t, p), n + 1), q)
           = IF Near(t.log2, p, q) THEN {n + 1} ELSE LeafAt(t, q)
  <1> DEFINE g == GetLeafPtr(t, p)
             v == SetLeaf(g, n + 1)
             k == <<g.ovb, g.ptr>>
  <1>1. PICK N : Shape(t) /\ Well(t, N) /\ Hung(t, N, n)
    BY DEF TreeOf
  <1>2. /\ Shape(v) /\ v.log2 = t.log2 /\ Ptr(v, k) = n + 1
        /\ \E M : /\ Well(g.tree, M) /\ Hung(g.tree, M, n) /\ SameLinks(g.tree, v, M)
                  /\ Well(v, M) /\ Hung(v, M, n + 1)
                  /\ \A r \in Places(g.tree, M) : r # k => Ptr(v, r) = Ptr(g.tree, r)
    BY <1>1, PutChunk
  <1>3. PointersAt(g.tree, p) = {k}
    BY <1>1, PointerAlong
  <1>4. Shape(g.tree) /\ g.tree.log2 = t.log2
    BY <1>1, LeafFound DEF Found
  <1>5. LeafAt(g.tree, q) = LeafAt(t, q)
    BY <1>1, LeavesStay
  <1>6. LeafAt(v, p) = {n + 1}
    BY LeafAlong
  <1> HIDE DEF g, v, k
  <1>7. PICK M : /\ Well(g.tree, M) /\ Hung(g.tree, M, n) /\ SameLinks(g.tree, v, M)
                 /\ Well(v, M) /\ Hung(v, M, n + 1)
                 /\ \A r \in Places(g.tree, M) : r # k => Ptr(v, r) = Ptr(g.tree, r)
    BY <1>2
  <1>8. TreeOf(v, n + 1) /\ TreeOf(g.tree, n)
    BY <1>2, <1>4, <1>7 DEF TreeOf
  <1>9. CASE Near(t.log2, p, q)
    <2>1. LeafAt(v, q) = LeafAt(v, p)
      BY <1>2, <1>8, <1>9, LeafFacts
    <2> QED
      BY <1>6, <1>9, <2>1 DEF v, g
  <1>10. CASE ~Near(t.log2, p, q)
    <2>1. k \notin PointersAt(g.tree, q)
      <3>1. k \in PointersAt(g.tree, p)
        BY <1>3
      <3> QED
        BY <1>4, <1>7, <1>10, <3>1, CommonPointer
    <2>2. PointersAt(v, q) = PointersAt(g.tree, q)
      BY <1>2, <1>4, <1>7, SamePointers
    <2>3. PointersAt(g.tree, q) \subseteq Places(g.tree, M)
      <3>1. CASE t.log2 = 0
        BY <1>4, <3>1 DEF PointersAt, PointersOn, NodesOn, Places
      <3>2. CASE t.log2 # 0
        <4>1. PICK f : WayIn(f, g.tree, M, q)
          BY <1>4, <1>7, <3>2, WayExists
        <4> QED
          BY <1>4, <1>7, <3>2, <4>1, PointersIn
      <3> QED
        BY <3>1, <3>2
    <2>4. \A r \in PointersAt(g.tree, q) : Ptr(v, r) = Ptr(g.tree, r)
      BY <1>7, <2>1, <2>3
    <2>5. \A c : c \in LeafAt(v, q) <=> c \in LeafAt(g.tree, q)
      BY <2>2, <2>4, LeafIs
    <2>6. LeafAt(v, q) = LeafAt(g.tree, q)
      <3>1. \A r : r \in LeafAt(v, q) <=> r \in LeafAt(g.tree, q)
        BY <2>5
      <3> DEFINE A == LeafAt(v, q)
                 B == LeafAt(g.tree, q)
      <3> HIDE DEF A, B
      <3>2. A = B
        BY <3>1 DEF A, B
      <3> QED
        BY <3>2 DEF A, B
    <2> QED
      BY <1>5, <1>10, <2>6 DEF v, g
  <1> QED
    BY <1>9, <1>10

-----------------------------------------------------------------------------
(* The storage is a map of blocks.                                         *)

\* The chunk a wrapped position lies in.
ChunkAt(w) == [c \in 1 .. 3 |-> w[c] \div ChunkSide]
Wraps == {Wrapped(p) : p \in Position}

\* Wrapped positions that take the same way lie in the same chunk, at offsets of their own.
LEMMA SameChunk ==
  ASSUME NEW l \in Nat, ChunkBits + l <= WordBits, NEW p \in Position, NEW q \in Position
  PROVE  LET v == WrapAt(l, p)
             w == WrapAt(l, q)
         IN  /\ ChunkPos(w) \in [1 .. 3 -> Nat] /\ Offset(w) \in Offsets
             /\ Near(l, ChunkPos(p), ChunkPos(w)) <=> ChunkAt(v) = ChunkAt(w)
             /\ ChunkAt(v) = ChunkAt(w) /\ Offset(p) = Offset(w) => v = w
  <1> DEFINE v == WrapAt(l, p)
             w == WrapAt(l, q)
  <1>1. /\ ChunkPos(v) \in [1 .. 3 -> Nat] /\ Near(l, ChunkPos(p), ChunkPos(v))
        /\ \A c \in 1 .. 3 : ChunkPos(v)[c] = v[c] \div ChunkSide
    BY WrapFacts
  <1>2. /\ ChunkPos(w) \in [1 .. 3 -> Nat] /\ Near(l, ChunkPos(q), ChunkPos(w))
        /\ Offset(w) = Offset(q)
        /\ \A c \in 1 .. 3 : ChunkPos(w)[c] = w[c] \div ChunkSide
    BY WrapFacts
  <1>3. Offset(w) \in Offsets
    BY <1>2, PositionFacts
  <1>4. Near(l, ChunkPos(p), ChunkPos(q)) =>
          /\ \A c \in 1 .. 3 : v[c] \div ChunkSide = w[c] \div ChunkSide
          /\ Offset(p) = Offset(q) => v = w
    BY WrapUnique
  <1> HIDE DEF v, w
  <1>5. ASSUME Near(l, ChunkPos(p), ChunkPos(w))
        PROVE  ChunkAt(v) = ChunkAt(w) /\ (Offset(p) = Offset(w) => v = w)
    <2>1. Near(l, ChunkPos(p), ChunkPos(q))
      BY <1>2, <1>5 DEF Near
    <2> QED
      BY <1>2, <1>4, <2>1 DEF ChunkAt
  <1>6. ASSUME ChunkAt(v) = ChunkAt(w)
        PROVE  Near(l, ChunkPos(p), ChunkPos(w))
    <2>1. \A c \in 1 .. 3 : v[c] \div ChunkSide = w[c] \div ChunkSide
      <3>1. \A c \in 1 .. 3 : /\ ChunkAt(v)[c] = v[c] \div ChunkSide
                              /\ ChunkAt(w)[c] = w[c] \div ChunkSide
        BY DEF ChunkAt
      <3> QED
        BY <1>6, <3>1
    <2>2. ChunkPos(v) = ChunkPos(w)
      BY <1>1, <1>2, <2>1
    <2> QED
      BY <1>1, <2>2
  <1> QED
    BY <1>2, <1>3, <1>5, <1>6 DEF v, w

\* The invariant about a storage's width.
LEMMA WidthFacts ==
  ASSUME IInv
  PROVE  tree.log2 \in Nat /\ ChunkBits + tree.log2 <= WordBits
  <1>1. size \in Sizes /\ tree.log2 = CountBits(size) /\ TreeOf(tree, Len(chunks))
    BY DEF IInv
  <1>2. ChunkBits + CountBits(size) <= WordBits
    BY <1>1, PlotStorageAssumption
  <1>3. tree.log2 \in Nat
    BY <1>1 DEF TreeOf, Shape
  <1> QED
    BY <1>1, <1>2, <1>3

\* A traversal finds the leaf that hangs at a position, NULL when there is none.
LEMMA LeafRead ==
  ASSUME NEW t, NEW n \in Nat, TreeOf(t, n), NEW p \in [1 .. 3 -> Nat]
  PROVE  LeafAt(t, p) = {GetLeaf(GetLeafPtr(t, p))} \ {0}
  <1> DEFINE g == GetLeafPtr(t, p)
  <1>1. /\ g.ptr = -1 => LeafAt(t, p) = {}
        /\ g.ptr # -1 => LeafAt(g.tree, p) = {GetLeaf(g)} \ {0}
    BY LeafAlong
  <1>2. LeafAt(g.tree, p) = LeafAt(t, p)
    BY LeavesStay DEF TreeOf
  <1> HIDE DEF g
  <1>3. g.ptr = -1 => GetLeaf(g) = 0
    BY DEF GetLeaf
  <1>4. LeafAt(t, p) = {GetLeaf(g)} \ {0}
    BY <1>1, <1>2, <1>3
  <1> QED
    BY <1>4 DEF g

\* What is at the positions: one block or none, and there is one in the whole chunk or
\* nowhere in it; what plot get prints.
LEMMA BlockFacts ==
  ASSUME IInv, NEW p \in Position, NEW w \in Wraps
  PROVE  /\ BlockAt(w) # {} => \E b \in 0 .. 255 : BlockAt(w) = {b}
         /\ ChunkAt(w) = ChunkAt(Wrapped(p)) => (BlockAt(w) = {} <=> BlockAt(Wrapped(p)) = {})
         /\ LET chunk == GetLeaf(GetLeafPtr(tree, ChunkPos(p)))
            IN  BlockAt(Wrapped(p)) = IF chunk = 0 THEN {} ELSE {chunks[chunk][Offset(p)]}
  <1> DEFINE l == tree.log2
             n == Len(chunks)
             P == ChunkPos(p)
             chunk == GetLeaf(GetLeafPtr(tree, P))
  <1>1. TreeOf(tree, n) /\ chunks \in Seq(Chunk) /\ n \in Nat
    BY DEF IInv
  <1>2. PICK q \in Position : w = Wrapped(q)
    BY DEF Wraps
  <1>3. w = WrapAt(l, q) /\ Wrapped(p) = WrapAt(l, p)
    BY <1>2 DEF Wrapped, WrapAt
  <1>4. l \in Nat /\ ChunkBits + l <= WordBits
    BY WidthFacts
  <1>5. /\ ChunkPos(w) \in [1 .. 3 -> Nat] /\ Offset(w) \in Offsets
        /\ Near(l, P, ChunkPos(w)) <=> ChunkAt(Wrapped(p)) = ChunkAt(w)
    BY <1>3, <1>4, SameChunk
  <1>6. /\ ChunkPos(Wrapped(p)) \in [1 .. 3 -> Nat] /\ Near(l, P, ChunkPos(Wrapped(p)))
        /\ Offset(Wrapped(p)) = Offset(p)
    BY <1>3, <1>4, WrapFacts
  <1>7. P \in [1 .. 3 -> Nat]
    BY PositionFacts
  <1>8. LeafAt(tree, P) = {chunk} \ {0}
    BY <1>1, <1>7, LeafRead
  <1> HIDE DEF n, P, chunk
  <1>9. BlockAt(w) # {} => \E b \in 0 .. 255 : BlockAt(w) = {b}
    <2>1. LeafAt(tree, ChunkPos(w)) \subseteq 1 .. n /\ \A c, d \in LeafAt(tree, ChunkPos(w)) : c = d
      BY <1>1, <1>5, LeafFacts
    <2> SUFFICES ASSUME BlockAt(w) # {}
                 PROVE  \E b \in 0 .. 255 : BlockAt(w) = {b}
      OBVIOUS
    <2>2. PICK c \in LeafAt(tree, ChunkPos(w)) : TRUE
      BY DEF BlockAt
    <2>3. LeafAt(tree, ChunkPos(w)) = {c}
      BY <2>1
    <2>4. BlockAt(w) = {chunks[c][Offset(w)]}
      BY <2>3 DEF BlockAt
    <2>5. chunks[c][Offset(w)] \in 0 .. 255
      <3>1. c \in 1 .. n
        BY <2>1
      <3>2. chunks[c] \in Chunk
        BY <1>1, <3>1 DEF n
      <3> QED
        BY <1>5, <3>2 DEF Chunk
    <2> QED
      BY <2>4, <2>5
  <1>10. LeafAt(tree, ChunkPos(Wrapped(p))) = LeafAt(tree, P)
    BY <1>1, <1>6, <1>7, LeafFacts
  <1>11. ASSUME ChunkAt(w) = ChunkAt(Wrapped(p))
         PROVE  BlockAt(w) = {} <=> BlockAt(Wrapped(p)) = {}
    <2>1. LeafAt(tree, ChunkPos(w)) = LeafAt(tree, P)
      <3>1. Near(l, P, ChunkPos(w))
        BY <1>5, <1>11
      <3> QED
        BY <1>1, <1>5, <1>7, <3>1, LeafFacts
    <2> QED
      BY <1>10, <2>1 DEF BlockAt
  <1>12. BlockAt(Wrapped(p)) = IF chunk = 0 THEN {} ELSE {chunks[chunk][Offset(p)]}
    <2>1. BlockAt(Wrapped(p)) = {chunks[c][Offset(p)] : c \in {chunk} \ {0}}
      BY <1>6, <1>8, <1>10 DEF BlockAt
    <2> QED
      BY <2>1
  <1> QED
    BY <1>9, <1>11, <1>12 DEF P, chunk

\* What a command leaves at the positions.
Still == \A w \in Wraps : BlockAt(w)' = BlockAt(w)
Puts(p, b) ==
  \A w \in Wraps :
    BlockAt(w)' = IF ChunkAt(w) # ChunkAt(Wrapped(p)) THEN BlockAt(w)
                  ELSE IF w = Wrapped(p) THEN {b}
                  ELSE IF BlockAt(w) = {} THEN {0} ELSE BlockAt(w)

\* A read changes nothing at the positions.
LEMMA GetEffect ==
  ASSUME IInv, NEW p \in Position, PlotGet(p)
  PROVE  Still /\ tree'.log2 = tree.log2
  <1> DEFINE P == ChunkPos(p)
             g == GetLeafPtr(tree, P)
  <1>1. TreeOf(tree, Len(chunks)) /\ Len(chunks) \in Nat
    BY DEF IInv
  <1>2. tree' = g.tree /\ chunks' = chunks
    BY DEF PlotGet
  <1>3. P \in [1 .. 3 -> Nat]
    BY PositionFacts
  <1>4. g.tree.log2 = tree.log2
    BY <1>1, Traversal
  <1>5. ASSUME NEW w \in Wraps
        PROVE  BlockAt(w)' = BlockAt(w)
    <2>1. PICK q \in Position : w = WrapAt(tree.log2, q)
      BY DEF Wraps, Wrapped, WrapAt
    <2>2. ChunkPos(w) \in [1 .. 3 -> Nat]
      BY <2>1, WidthFacts, WrapFacts
    <2>3. LeafAt(g.tree, ChunkPos(w)) = LeafAt(tree, ChunkPos(w))
      BY <1>1, <1>3, <2>2, LeavesStay DEF TreeOf
    <2> HIDE DEF g
    <2> QED
      BY <1>2, <2>3 DEF BlockAt
  <1> QED
    BY <1>2, <1>4, <1>5 DEF Still

\* A write puts the block at the position and, when the chunk is new, 0 in the rest of the
\* chunk; or it finds no room and changes nothing at the positions.
LEMMA PlaceEffect ==
  ASSUME IInv, NEW p \in Position, NEW arg \in BlockArg, PlotPlace(p, arg)
  PROVE  (Still \/ Puts(p, ToUint8(arg))) /\ tree'.log2 = tree.log2
  <1> DEFINE P == ChunkPos(p)
             b == ToUint8(arg)
             l == tree.log2
             n == Len(chunks)
             found == GetLeafPtr(tree, P)
             again == GetLeafPtr(found.tree, P)
             chunk == GetLeaf(found)
             new == [[o \in Offsets |-> 0] EXCEPT ![Offset(p)] = b]
  <1>1. TreeOf(tree, n) /\ chunks \in Seq(Chunk) /\ n \in Nat
    BY DEF IInv
  <1>2. P \in [1 .. 3 -> Nat] /\ Offset(p) \in Offsets
    BY PositionFacts
  <1>3. IF chunk # 0
        THEN /\ tree' = found.tree
             /\ chunks' = [chunks EXCEPT ![chunk][Offset(p)] = b]
        ELSE IF again.ptr = -1
        THEN /\ tree' = again.tree
             /\ UNCHANGED chunks
        ELSE /\ tree' = SetLeaf(again, n + 1)
             /\ chunks' = Append(chunks, new)
    BY DEF PlotPlace, SetBlock
  <1>4. /\ chunk \in 0 .. n /\ again = found /\ found.tree.log2 = l
        /\ found.ptr # -1 /\ chunk = 0 => SetLeaf(found, n + 1).log2 = l
    <2>1. /\ GetLeaf(GetLeafPtr(tree, ChunkPos(p))) \in 0 .. n
          /\ GetLeafPtr(tree, ChunkPos(p)).tree.log2 = tree.log2
      BY <1>1, Traversal
    <2>2. GetLeafPtr(GetLeafPtr(tree, ChunkPos(p)).tree, ChunkPos(p)) = GetLeafPtr(tree, ChunkPos(p))
      BY <1>1, Traversal
    <2>3. GetLeafPtr(tree, ChunkPos(p)).ptr # -1 /\ GetLeaf(GetLeafPtr(tree, ChunkPos(p))) = 0
            => SetLeaf(GetLeafPtr(tree, ChunkPos(p)), n + 1).log2 = tree.log2
      <3> HIDE DEF n
      <3> QED
        BY <1>1, Traversal
    <2> QED
      BY <2>1, <2>2, <2>3
  <1>5. new \in Chunk /\ \A o \in Offsets : new[o] = IF o = Offset(p) THEN b ELSE 0
    BY <1>2, ByteFacts DEF Chunk
  <1> HIDE DEF new, b
  <1>6. LeafAt(tree, P) = {chunk} \ {0}
    BY <1>1, <1>2, LeafRead
  <1>7. \A Q \in [1 .. 3 -> Nat] :
          /\ LeafAt(found.tree, Q) = LeafAt(tree, Q)
          /\ found.ptr # -1 /\ chunk = 0 =>
               LeafAt(SetLeaf(found, n + 1), Q) = IF Near(l, P, Q) THEN {n + 1} ELSE LeafAt(tree, Q)
          /\ LeafAt(tree, Q) \subseteq 1 .. n
          /\ Near(l, P, Q) => LeafAt(tree, Q) = LeafAt(tree, P)
          /\ \A c \in LeafAt(tree, P) : c \in LeafAt(tree, Q) => Near(l, P, Q)
    <2> TAKE Q \in [1 .. 3 -> Nat]
    <2> HIDE DEF n, P
    <2>1. LeafAt(found.tree, Q) = LeafAt(tree, Q)
      BY <1>1, <1>2, LeavesStay DEF TreeOf
    <2>2. found.ptr # -1 /\ chunk = 0 =>
            LeafAt(SetLeaf(found, n + 1), Q) = IF Near(l, P, Q) THEN {n + 1} ELSE LeafAt(tree, Q)
      BY <1>1, <1>2, LeafPut
    <2>3. LeafAt(tree, Q) \subseteq 1 .. n
      BY <1>1, LeafFacts
    <2>4. Near(l, P, Q) => LeafAt(tree, Q) = LeafAt(tree, P)
      BY <1>1, <1>2, LeafFacts
    <2>5. \A c \in LeafAt(tree, P) : c \in LeafAt(tree, Q) => Near(l, P, Q)
      BY <1>1, <1>2, LeafFacts
    <2> QED
      BY <2>1, <2>2, <2>3, <2>4, <2>5
  <1>8. \A w \in Wraps :
          /\ ChunkPos(w) \in [1 .. 3 -> Nat] /\ Offset(w) \in Offsets
          /\ Near(l, P, ChunkPos(w)) <=> ChunkAt(Wrapped(p)) = ChunkAt(w)
          /\ ChunkAt(Wrapped(p)) = ChunkAt(w) /\ Offset(p) = Offset(w) => Wrapped(p) = w
    <2> TAKE w \in Wraps
    <2>1. PICK q \in Position : w = WrapAt(l, q)
      BY DEF Wraps, Wrapped, WrapAt
    <2>2. Wrapped(p) = WrapAt(l, p) /\ l \in Nat /\ ChunkBits + l <= WordBits
      BY WidthFacts DEF Wrapped, WrapAt
    <2> QED
      BY <2>1, <2>2, SameChunk
  <1>9. Offset(Wrapped(p)) = Offset(p)
    <2>1. Wrapped(p) = WrapAt(l, p) /\ l \in Nat /\ ChunkBits + l <= WordBits
      BY WidthFacts DEF Wrapped, WrapAt
    <2> QED
      BY <2>1, WrapFacts
  <1>10. \A w : /\ BlockAt(w) = {chunks[c][Offset(w)] : c \in LeafAt(tree, ChunkPos(w))}
                /\ BlockAt(w)' = {chunks'[c][Offset(w)] : c \in LeafAt(tree', ChunkPos(w))}
    BY DEF BlockAt
  <1> HIDE DEF P, l, found, again, chunk
  <1>11. CASE chunk # 0
    <2>1. tree' = found.tree /\ chunks' = [chunks EXCEPT ![chunk][Offset(p)] = b]
      BY <1>3, <1>11
    <2>2. chunk \in 1 .. n /\ DOMAIN chunks = 1 .. n /\ \A c \in 1 .. n : chunks[c] \in Chunk
      BY <1>1, <1>4, <1>11
    <2>3. /\ \A o \in Offsets :
               chunks'[chunk][o] = IF o = Offset(p) THEN b ELSE chunks[chunk][o]
          /\ \A c \in 1 .. n : c # chunk => chunks'[c] = chunks[c]
      BY <1>2, <2>1, <2>2 DEF Chunk
    <2>4. LeafAt(tree, P) = {chunk}
      BY <1>6, <1>11
    <2>5. ASSUME NEW w \in Wraps
          PROVE  BlockAt(w)' = IF ChunkAt(w) # ChunkAt(Wrapped(p)) THEN BlockAt(w)
                               ELSE IF w = Wrapped(p) THEN {b}
                               ELSE IF BlockAt(w) = {} THEN {0} ELSE BlockAt(w)
      <3> DEFINE Q == ChunkPos(w)
      <3>1. Q \in [1 .. 3 -> Nat] /\ Offset(w) \in Offsets
        BY <1>8
      <3>2. LeafAt(tree', Q) = LeafAt(tree, Q) /\ LeafAt(tree, Q) \subseteq 1 .. n
        BY <1>7, <2>1, <3>1
      <3>3. CASE Near(l, P, Q)
        <4>1. LeafAt(tree, Q) = {chunk}
          BY <1>7, <2>4, <3>1, <3>3
        <4>2. BlockAt(w) = {chunks[chunk][Offset(w)]} /\ BlockAt(w)' = {chunks'[chunk][Offset(w)]}
          BY <1>10, <3>2, <4>1
        <4>3. ChunkAt(w) = ChunkAt(Wrapped(p))
          BY <1>8, <3>3
        <4>4. w = Wrapped(p) <=> Offset(w) = Offset(p)
          BY <1>8, <1>9, <4>3
        <4> QED
          BY <2>3, <3>1, <4>2, <4>3, <4>4
      <3>4. CASE ~Near(l, P, Q)
        <4>1. chunk \notin LeafAt(tree, Q)
          BY <1>7, <2>4, <3>1, <3>4
        <4>2. \A c \in LeafAt(tree, Q) : chunks'[c] = chunks[c]
          BY <2>3, <3>2, <4>1
        <4>3. BlockAt(w)' = BlockAt(w)
          BY <1>10, <3>2, <4>2
        <4> QED
          BY <1>8, <3>4, <4>3
      <3> QED
        BY <3>3, <3>4
    <2> QED
      BY <1>4, <2>1, <2>5 DEF Puts, b, l
  <1>12. CASE chunk = 0 /\ found.ptr = -1
    <2>1. tree' = found.tree /\ chunks' = chunks
      BY <1>3, <1>4, <1>12
    <2>2. ASSUME NEW w \in Wraps
          PROVE  BlockAt(w)' = BlockAt(w)
      <3>1. LeafAt(tree', ChunkPos(w)) = LeafAt(tree, ChunkPos(w))
        BY <1>7, <1>8, <2>1
      <3> QED
        BY <1>10, <2>1, <3>1
    <2> QED
      BY <1>4, <2>1, <2>2 DEF Still, l
  <1>13. CASE chunk = 0 /\ found.ptr # -1
    <2>1. tree' = SetLeaf(found, n + 1) /\ chunks' = Append(chunks, new)
      BY <1>3, <1>4, <1>13
    <2>2. chunks'[n + 1] = new /\ \A c \in 1 .. n : chunks'[c] = chunks[c]
      BY <1>1, <2>1
    <2>3. LeafAt(tree, P) = {}
      BY <1>6, <1>13
    <2>4. ASSUME NEW w \in Wraps
          PROVE  BlockAt(w)' = IF ChunkAt(w) # ChunkAt(Wrapped(p)) THEN BlockAt(w)
                               ELSE IF w = Wrapped(p) THEN {b}
                               ELSE IF BlockAt(w) = {} THEN {0} ELSE BlockAt(w)
      <3> DEFINE Q == ChunkPos(w)
      <3>1. Q \in [1 .. 3 -> Nat] /\ Offset(w) \in Offsets
        BY <1>8
      <3>2. /\ LeafAt(tree', Q) = IF Near(l, P, Q) THEN {n + 1} ELSE LeafAt(tree, Q)
            /\ LeafAt(tree, Q) \subseteq 1 .. n
        BY <1>7, <1>13, <2>1, <3>1
      <3>3. CASE Near(l, P, Q)
        <4>1. LeafAt(tree, Q) = {}
          BY <1>7, <2>3, <3>1, <3>3
        <4>2. BlockAt(w) = {} /\ BlockAt(w)' = {new[Offset(w)]}
          BY <1>10, <2>2, <3>2, <3>3, <4>1
        <4>3. ChunkAt(w) = ChunkAt(Wrapped(p))
          BY <1>8, <3>3
        <4>4. w = Wrapped(p) <=> Offset(w) = Offset(p)
          BY <1>8, <1>9, <4>3
        <4> QED
          BY <1>5, <3>1, <4>2, <4>3, <4>4
      <3>4. CASE ~Near(l, P, Q)
        <4>1. \A c \in LeafAt(tree, Q) : chunks'[c] = chunks[c]
          BY <2>2, <3>2
        <4>2. BlockAt(w)' = BlockAt(w)
          BY <1>10, <3>2, <3>4, <4>1
        <4> QED
          BY <1>8, <3>4, <4>2
      <3> QED
        BY <3>3, <3>4
    <2> QED
      BY <1>4, <1>13, <2>1, <2>4 DEF Puts, b, l
  <1> QED
    BY <1>11, <1>12, <1>13

\* What the map's state is.
LEMMA MapState ==
  /\ Solid = [w \in {v \in Wraps : BlockAt(v) # {} /\ BlockAt(v) # {0}} |->
                CHOOSE b \in BlockAt(w) : TRUE]
  /\ Loaded = {ChunkAt(w) : w \in {v \in Wraps : BlockAt(v) # {}}}
  <1>1. Present = {w \in Wraps : BlockAt(w) # {}}
    BY DEF Present, Wraps
  <1>2. {v \in Present : BlockAt(v) # {0}} = {v \in Wraps : BlockAt(v) # {} /\ BlockAt(v) # {0}}
    BY <1>1
  <1>3. Solid = [w \in {v \in Wraps : BlockAt(v) # {} /\ BlockAt(v) # {0}} |->
                   CHOOSE b \in BlockAt(w) : TRUE]
    BY <1>2 DEF Solid
  <1>4. Loaded = {ChunkAt(w) : w \in {v \in Wraps : BlockAt(v) # {}}}
    BY <1>1 DEF Loaded, ChunkAt
  <1> QED
    BY <1>3, <1>4

\* The same after a step that keeps the storage's side.
LEMMA MapStateNext ==
  ASSUME tree'.log2 = tree.log2
  PROVE  /\ Solid' = [w \in {v \in Wraps : BlockAt(v)' # {} /\ BlockAt(v)' # {0}} |->
                        CHOOSE b \in BlockAt(w)' : TRUE]
         /\ Loaded' = {ChunkAt(w) : w \in {v \in Wraps : BlockAt(v)' # {}}}
  <1>1. \A p : Wrapped(p)' = Wrapped(p)
    BY DEF Wrapped
  <1>2. {Wrapped(p)' : p \in Position} = Wraps
    BY <1>1 DEF Wraps
  <1>3. Present' = {w \in Wraps : BlockAt(w)' # {}}
    BY <1>2 DEF Present
  <1>4. {v \in Present' : BlockAt(v)' # {0}} = {v \in Wraps : BlockAt(v)' # {} /\ BlockAt(v)' # {0}}
    BY <1>3
  <1>5. Solid' = [w \in {v \in Wraps : BlockAt(v)' # {} /\ BlockAt(v)' # {0}} |->
                    CHOOSE b \in BlockAt(w)' : TRUE]
    BY <1>4 DEF Solid
  <1>6. Loaded' = {ChunkAt(w) : w \in {v \in Wraps : BlockAt(v)' # {}}}
    BY <1>3 DEF Loaded, ChunkAt
  <1> QED
    BY <1>5, <1>6

\* The map's coordinates are the storage's.
LEMMA MapWrap ==
  ASSUME NEW p
  PROVE  Map!Wrap(p) = Wrapped(p) /\ Map!ChunkOf(p) = ChunkAt(Wrapped(p))
  BY DEF Map!Wrap, Map!ChunkOf, Wrapped, ChunkAt

\* A function of sets with one member.
LEMMA OneOf ==
  ASSUME NEW b
  PROVE  (CHOOSE a \in {b} : TRUE) = b
  OBVIOUS

\* When the blocks stay the same, the map does.
LEMMA StillIsStutter ==
  ASSUME Still, tree'.log2 = tree.log2
  PROVE  Solid' = Solid /\ Loaded' = Loaded
  <1>1. \A w \in Wraps : BlockAt(w)' = BlockAt(w)
    BY DEF Still
  <1> DEFINE S == {v \in Wraps : BlockAt(v) # {} /\ BlockAt(v) # {0}}
             T == {v \in Wraps : BlockAt(v)' # {} /\ BlockAt(v)' # {0}}
  <1>2. S = T
    BY <1>1
  <1>3. \A w \in T : (CHOOSE b \in BlockAt(w)' : TRUE) = (CHOOSE b \in BlockAt(w) : TRUE)
    BY <1>1
  <1>4. Solid = [w \in S |-> CHOOSE b \in BlockAt(w) : TRUE]
        /\ Solid' = [w \in T |-> CHOOSE b \in BlockAt(w)' : TRUE]
    BY MapState, MapStateNext
  <1> HIDE DEF S, T
  <1>5. Solid' = Solid
    BY <1>2, <1>3, <1>4
  <1>6. {v \in Wraps : BlockAt(v)' # {}} = {v \in Wraps : BlockAt(v) # {}}
    BY <1>1
  <1>7. Loaded' = Loaded
    BY <1>6, MapState, MapStateNext
  <1> QED
    BY <1>5, <1>7

\* A block that is put is put in the map.
LEMMA PutsIsPut ==
  ASSUME IInv, NEW p \in Position, NEW b \in 0 .. 255, Puts(p, b), tree'.log2 = tree.log2, ret' = ret
  PROVE  Map!Put(p, b)
  <1> DEFINE S == {v \in Wraps : BlockAt(v) # {} /\ BlockAt(v) # {0}}
             T == {v \in Wraps : BlockAt(v)' # {} /\ BlockAt(v)' # {0}}
  <1>1. PICK x \in Wraps : x = Wrapped(p)
    BY DEF Wraps
  <1>2. \A w \in Wraps :
          BlockAt(w)' = IF ChunkAt(w) # ChunkAt(x) THEN BlockAt(w)
                        ELSE IF w = x THEN {b}
                        ELSE IF BlockAt(w) = {} THEN {0} ELSE BlockAt(w)
    BY <1>1 DEF Puts
  <1>3. \A w \in Wraps : BlockAt(w) # {} => \E a \in 0 .. 255 : BlockAt(w) = {a}
    BY BlockFacts
  <1>4. Map!Wrap(p) = x /\ Map!ChunkOf(p) = ChunkAt(x)
    BY <1>1, MapWrap
  <1>5. /\ Solid = [w \in S |-> CHOOSE a \in BlockAt(w) : TRUE]
        /\ Loaded = {ChunkAt(w) : w \in {v \in Wraps : BlockAt(v) # {}}}
    BY MapState
  <1>6. /\ Solid' = [w \in T |-> CHOOSE a \in BlockAt(w)' : TRUE]
        /\ Loaded' = {ChunkAt(w) : w \in {v \in Wraps : BlockAt(v)' # {}}}
    BY MapStateNext
  <1> HIDE DEF S, T
  <1>7. Loaded' = Loaded \union {ChunkAt(x)}
    <2>1. ASSUME NEW k \in Loaded'
          PROVE  k \in Loaded \union {ChunkAt(x)}
      <3>1. PICK w \in Wraps : BlockAt(w)' # {} /\ k = ChunkAt(w)
        BY <1>6
      <3> QED
        BY <1>2, <1>5, <3>1
    <2>2. ASSUME NEW k \in Loaded
          PROVE  k \in Loaded'
      <3>1. PICK w \in Wraps : BlockAt(w) # {} /\ k = ChunkAt(w)
        BY <1>5
      <3>2. BlockAt(w)' # {}
        BY <1>2, <3>1
      <3> QED
        BY <1>6, <3>1, <3>2
    <2>3. ChunkAt(x) \in Loaded'
      <3>1. BlockAt(x)' # {}
        BY <1>2, <1>1
      <3> QED
        BY <1>1, <1>6, <3>1
    <2> QED
      BY <2>1, <2>2, <2>3
  <1>8. ASSUME NEW w \in Wraps, w # x
        PROVE  /\ w \in T <=> w \in S
               /\ w \in S => BlockAt(w)' = BlockAt(w)
    BY <1>2, <1>8 DEF S, T
  <1>9. S \subseteq Wraps /\ T \subseteq Wraps
    BY DEF S, T
  <1>10. x \in T <=> b # 0
    BY <1>2, <1>1 DEF T
  <1>11. BlockAt(x)' = {b}
    BY <1>2, <1>1
  <1>12. b = 0 => Solid' = [w \in DOMAIN Solid \ {x} |-> Solid[w]]
    <2> SUFFICES ASSUME b = 0
                 PROVE  Solid' = [w \in DOMAIN Solid \ {x} |-> Solid[w]]
      OBVIOUS
    <2>1. T = S \ {x}
      BY <1>8, <1>9, <1>10
    <2>2. \A w \in T : (CHOOSE a \in BlockAt(w)' : TRUE) = (CHOOSE a \in BlockAt(w) : TRUE)
      BY <1>8, <1>9, <2>1
    <2>3. DOMAIN Solid = S /\ \A w \in S : Solid[w] = CHOOSE a \in BlockAt(w) : TRUE
      BY <1>5
    <2>4. \A w \in T : (CHOOSE a \in BlockAt(w)' : TRUE) = Solid[w]
      BY <2>1, <2>2, <2>3
    <2> QED
      BY <1>6, <2>1, <2>3, <2>4
  <1>13. b # 0 => Solid' = [w \in DOMAIN Solid \union {x} |-> IF w = x THEN b ELSE Solid[w]]
    <2> SUFFICES ASSUME b # 0
                 PROVE  Solid' = [w \in DOMAIN Solid \union {x} |-> IF w = x THEN b ELSE Solid[w]]
      OBVIOUS
    <2>1. T = S \union {x}
      BY <1>1, <1>8, <1>9, <1>10
    <2>2. \A w \in T : w # x =>
            (CHOOSE a \in BlockAt(w)' : TRUE) = (CHOOSE a \in BlockAt(w) : TRUE)
      BY <1>8, <1>9, <2>1
    <2>3. DOMAIN Solid = S /\ \A w \in S : Solid[w] = CHOOSE a \in BlockAt(w) : TRUE
      BY <1>5
    <2>4. (CHOOSE a \in BlockAt(x)' : TRUE) = b
      BY <1>11, OneOf
    <2>5. \A w \in T : w # x => (CHOOSE a \in BlockAt(w)' : TRUE) = Solid[w]
      BY <2>1, <2>2, <2>3
    <2>6. \A w \in T : (CHOOSE a \in BlockAt(w)' : TRUE) = IF w = x THEN b ELSE Solid[w]
      BY <2>4, <2>5
    <2> QED
      BY <1>6, <2>1, <2>3, <2>6
  <1> QED
    BY <1>4, <1>7, <1>12, <1>13 DEF Map!Put

\* A read finds in the map what it returns.
LEMMA GetIsGet ==
  ASSUME IInv, NEW p \in Position, PlotGet(p)
  PROVE  Map!Get(p)
  <1> DEFINE x == Wrapped(p)
             chunk == GetLeaf(GetLeafPtr(tree, ChunkPos(p)))
             S == {v \in Wraps : BlockAt(v) # {} /\ BlockAt(v) # {0}}
  <1>1. Still /\ tree'.log2 = tree.log2
    BY GetEffect
  <1>2. Solid' = Solid /\ Loaded' = Loaded
    BY <1>1, StillIsStutter
  <1>3. ret' = IF chunk = 0 THEN NULL ELSE chunks[chunk][Offset(p)]
    BY DEF PlotGet
  <1>4. x \in Wraps
    BY DEF Wraps
  <1>5. BlockAt(x) = IF chunk = 0 THEN {} ELSE {chunks[chunk][Offset(p)]}
    BY <1>4, BlockFacts
  <1>6. Map!Wrap(p) = x /\ Map!ChunkOf(p) = ChunkAt(x)
    BY MapWrap
  <1>7. /\ Solid = [w \in S |-> CHOOSE a \in BlockAt(w) : TRUE]
        /\ Loaded = {ChunkAt(w) : w \in {v \in Wraps : BlockAt(v) # {}}}
    BY MapState
  <1>8. \A w \in Wraps : ChunkAt(w) = ChunkAt(x) => (BlockAt(w) = {} <=> BlockAt(x) = {})
    BY BlockFacts
  <1> HIDE DEF x, chunk, S
  <1>9. ChunkAt(x) \in Loaded <=> BlockAt(x) # {}
    BY <1>4, <1>7, <1>8
  <1>10. x \in DOMAIN Solid <=> BlockAt(x) # {} /\ BlockAt(x) # {0}
    <2>1. DOMAIN Solid = S
      BY <1>7
    <2> QED
      BY <1>4, <2>1 DEF S
  <1>11. ret' = IF ChunkAt(x) \notin Loaded THEN NULL
                ELSE IF x \in DOMAIN Solid THEN Solid[x] ELSE 0
    <2>1. CASE chunk = 0
      BY <1>3, <1>5, <1>9, <2>1
    <2>2. CASE chunk # 0
      <3> DEFINE a == chunks[chunk][Offset(p)]
      <3>1. ret' = a /\ BlockAt(x) = {a} /\ ChunkAt(x) \in Loaded
        BY <1>3, <1>5, <1>9, <2>2
      <3> HIDE DEF a
      <3>2. CASE a = 0
        BY <1>10, <3>1, <3>2
      <3>3. CASE a # 0
        <4>1. x \in DOMAIN Solid /\ x \in S
          <5>1. {a} # {0}
            BY <3>3
          <5> QED
            BY <1>4, <1>10, <3>1, <5>1 DEF S
        <4>2. Solid[x] = CHOOSE c \in BlockAt(x) : TRUE
          BY <1>7, <4>1
        <4>3. Solid[x] = a
          BY <3>1, <4>2, OneOf
        <4> QED
          BY <3>1, <4>1, <4>3
      <3> QED
        BY <3>2, <3>3
    <2> QED
      BY <2>1, <2>2
  <1> QED
    BY <1>1, <1>2, <1>6, <1>11 DEF Map!Get

\* The map is empty at the start.
LEMMA InitIsInit ==
  ASSUME Init
  PROVE  Map!Init
  <1>1. IInv
    BY InitHolds
  <1>2. \A w \in Wraps : BlockAt(w) = {}
    <2> SUFFICES ASSUME NEW w \in Wraps
                 PROVE  BlockAt(w) = {}
      OBVIOUS
    <2>1. PICK q \in Position : w = WrapAt(tree.log2, q)
      BY DEF Wraps, Wrapped, WrapAt
    <2>2. ChunkPos(w) \in [1 .. 3 -> Nat]
      BY <1>1, <2>1, WidthFacts, WrapFacts
    <2>3. TreeOf(tree, Len(chunks)) /\ Len(chunks) = 0
      BY <1>1 DEF IInv, Init
    <2>4. LeafAt(tree, ChunkPos(w)) \subseteq 1 .. 0
      BY <2>2, <2>3, LeafFacts
    <2> QED
      BY <2>4 DEF BlockAt
  <1>3. Loaded = {}
    BY <1>2, MapState
  <1>4. Solid = <<>>
    <2>1. {v \in Wraps : BlockAt(v) # {} /\ BlockAt(v) # {0}} = {}
      BY <1>2
    <2>2. Solid = [w \in {} |-> CHOOSE b \in BlockAt(w) : TRUE]
      BY <2>1, MapState
    <2> QED
      BY <2>2
  <1>5. 2 ^ tree.log2 \in {2 ^ CountBits(s) : s \in Sizes}
    BY <1>1 DEF IInv
  <1> QED
    BY <1>3, <1>4, <1>5 DEF Map!Init, Init

\* A product grows with its first factor.
LEMMA Monotone ==
  ASSUME NEW a \in Nat, NEW b \in Nat, NEW c \in Nat, a <= b
  PROVE  a * c <= b * c
  <1> DEFINE d == b - a
  <1>1. d \in Nat /\ b = a + d
    OBVIOUS
  <1> HIDE DEF d
  <1>2. (a + d) * c = a * c + d * c
    BY ONLY <1>1, a \in Nat, c \in Nat, SMT
  <1>3. d * c \in Nat /\ a * c \in Nat
    BY ONLY <1>1, a \in Nat, c \in Nat, SMT
  <1> QED
    BY <1>1, <1>2, <1>3

\* The storage is as wide as the plot where the plot's size is a power of two, and
\* narrower elsewhere.
LEMMA SidesHold == ASSUME IInv PROVE SidesAgree
  <1> DEFINE A == 2 ^ tree.log2
             side == A * ChunkSide
             beyond == <<side, 0, 0>>
  <1>1. size \in 1 .. 255 /\ A <= size
    <2>1. size \in Sizes /\ tree.log2 = CountBits(size)
      BY DEF IInv
    <2>2. size \in 1 .. 255
      BY <2>1, PlotStorageAssumption
    <2> QED
      BY <2>1, <2>2, BitsRange
  <1>2. A \in Nat /\ A >= 1 /\ ChunkSide \in Nat /\ ChunkSide >= 1
    BY WidthFacts, PowerOfTwo, PlotStorageAssumption DEF ChunkSide
  <1>3. side \in Nat /\ side >= 1
    <2> HIDE DEF A
    <2> QED
      BY ONLY <1>2, SMT
  <1>4. ASSUME size = A, NEW p \in Position, NEW q \in Position,
               InsidePlot(p), InsidePlot(q), Wrapped(p) = Wrapped(q)
        PROVE  p = q
    <2>1. p \in Int \X Int \X Int /\ q \in Int \X Int \X Int
      BY PlotStorageAssumption
    <2>2. \A c \in 1 .. 3 : p[c] \in 0 .. side - 1 /\ q[c] \in 0 .. side - 1
      BY <1>4 DEF InsidePlot
    <2>3. \A c \in 1 .. 3 : p[c] % side = q[c] % side
      BY <1>4 DEF Wrapped
    <2> HIDE DEF side
    <2>4. \A v \in 0 .. side - 1 : v % side = v
      BY ONLY <1>3, SMT
    <2>5. p[1] = q[1] /\ p[2] = q[2] /\ p[3] = q[3]
      BY ONLY <2>2, <2>3, <2>4
    <2> QED
      BY ONLY <2>1, <2>5
  <1>5. ASSUME size # A
        PROVE  InsidePlot(beyond) /\ Wrapped(beyond) = Wrapped(<<0, 0, 0>>)
    <2>1. side % side = 0 /\ 0 % side = 0
      <3> HIDE DEF side
      <3> QED
        BY ONLY <1>3, SMT
    <2>2. Wrapped(beyond) = Wrapped(<<0, 0, 0>>)
      <3>1. \A c \in 1 .. 3 : beyond[c] % side = <<0, 0, 0>>[c] % side
        <4> HIDE DEF side
        <4> QED
          BY ONLY <2>1 DEF beyond
      <3> QED
        BY ONLY <3>1 DEF Wrapped, side
    <2>3. side < size * ChunkSide
      <3> HIDE DEF A
      <3>1. A + 1 <= size
        BY ONLY <1>1, <1>2, <1>5
      <3>2. (A + 1) * ChunkSide <= size * ChunkSide
        BY ONLY <1>1, <1>2, <3>1, Monotone
      <3>3. (A + 1) * ChunkSide = A * ChunkSide + ChunkSide
        BY ONLY <1>2, SMT
      <3>4. size * ChunkSide \in Nat /\ A * ChunkSide \in Nat
        BY ONLY <1>1, <1>2, SMT
      <3> QED
        BY ONLY <1>2, <3>2, <3>3, <3>4 DEF side
    <2>4. size * ChunkSide \in Nat
      <3> HIDE DEF A
      <3> QED
        BY ONLY <1>1, <1>2, SMT
    <2>5. InsidePlot(beyond)
      <3>1. \A c \in 1 .. 3 : beyond[c] \in 0 .. size * ChunkSide - 1
        <4> HIDE DEF side
        <4> QED
          BY ONLY <1>3, <2>3, <2>4 DEF beyond
      <3> QED
        BY ONLY <3>1 DEF InsidePlot
    <2> QED
      BY ONLY <2>2, <2>5
  <1> QED
    BY <1>4, <1>5 DEF SidesAgree

\* ImplementsMap: the storage is a map of blocks, as wide as the plot where the plot's
\* size is a power of two and narrower elsewhere; a block that finds no room leaves the
\* map as it is.
THEOREM Implements == Spec => ImplementsMap
  <1>1. Init => Map!Init
    BY InitIsInit
  <1>2. IInv /\ [Next]_vars => [Map!Next]_<<2 ^ tree.log2, Solid, Loaded, ret>>
    <2> SUFFICES ASSUME IInv, [Next]_vars
                 PROVE  [Map!Next]_<<2 ^ tree.log2, Solid, Loaded, ret>>
      OBVIOUS
    <2>1. ASSUME NEW p \in Position, PlotGet(p)
          PROVE  Map!Next
      BY <2>1, GetIsGet DEF Map!Next
    <2>2. ASSUME NEW p \in Position, NEW arg \in BlockArg, PlotPlace(p, arg)
          PROVE  Map!Next \/ UNCHANGED <<2 ^ tree.log2, Solid, Loaded, ret>>
      <3> DEFINE b == ToUint8(arg)
      <3>1. (Still \/ Puts(p, b)) /\ tree'.log2 = tree.log2
        BY <2>2, PlaceEffect
      <3>2. ret' = ret
        BY <2>2 DEF PlotPlace
      <3>3. b \in 0 .. 255 /\ b \in {ToUint8(a) : a \in BlockArg}
        BY ByteFacts
      <3> HIDE DEF b
      <3>4. CASE Still
        BY <3>1, <3>2, <3>4, StillIsStutter
      <3>5. CASE Puts(p, b)
        <4>1. Map!Put(p, b)
          BY <3>1, <3>2, <3>3, <3>5, PutsIsPut
        <4> QED
          BY <3>3, <4>1 DEF Map!Next
      <3> QED
        BY <3>1, <3>4, <3>5
    <2>3. CASE UNCHANGED vars
      <3>1. tree' = tree /\ chunks' = chunks /\ ret' = ret
        BY <2>3 DEF vars
      <3>2. \A w \in Wraps : BlockAt(w)' = BlockAt(w)
        BY <3>1 DEF BlockAt
      <3>3. Still
        BY <3>2 DEF Still
      <3> QED
        BY <3>1, <3>3, StillIsStutter
    <2> QED
      BY <2>1, <2>2, <2>3 DEF Next
  <1>3. IInv => SidesAgree
    BY SidesHold
  <1> QED
    BY <1>1, <1>2, <1>3, Inductive, PTL DEF Spec, ImplementsMap, Map!Spec
=============================================================================

----------------------------- MODULE RsGraphProofs -----------------------------
(***************************************************************************)
(* The lists of the redstone graph hold exactly the edges its caller has   *)
(* added and not deleted, for any size of the pools, any number of direct  *)
(* slots and any first size of an array.                                   *)
(*                                                                         *)
(* Held is what a single list keeps, and there is a lemma for each way it  *)
(* grows and shrinks.  The two loops of the deletion of a node are         *)
(* recursive functions: that each is defined, and what it has made of the  *)
(* node table after each slot, are shown by the least counterexample.      *)
(***************************************************************************)
EXTENDS RsGraph, FiniteSetTheorems, SequenceTheorems, WellFoundedInduction, TLAPS

Slot == EdgeIdx \union {Dead, Junk}

\* A list that holds the edges es: beyond what Lists says of it, it has its direct slots
\* as long as they suffice, and as many of them in use as it has entries.
Held(list, degree, es) ==
  /\ list \in List /\ degree \in Nat /\ es \subseteq EdgeIdx
  /\ Lists(list, degree, es)
  /\ degree <= Direct =>
       Len(list.ptr) = Direct /\ Cardinality(InUse(list, degree)) = degree

\* The lists of a node table hold the edges of L.
OutHeld(ns, L) ==
  \A m \in NodeIdx : ns[m].valid =>
    Held(ns[m].out, ns[m].out_degree, {e \in L : edges[e].source = m})
InHeld(ns, L) ==
  \A m \in NodeIdx : ns[m].valid =>
    Held(ns[m].in, ns[m].in_degree, {e \in L : edges[e].target = m})

GraphInv ==
  fault = "none" =>
    /\ OutHeld(nodes, live) /\ InHeld(nodes, live)
    /\ NoDanglingEdge
    /\ \A n \in NodeIdx : n >= nodes_used => ~nodes[n].valid

\* More edges than the limits have room for at one node.
Crowded(n) ==
  /\ nodes[n].valid
  /\ \/ Cardinality(EdgesOutOf(n)) > Direct + 1
     \/ Cardinality(EdgesInto(n)) >= DegreeLimit

\* Each of the three faults leaves its mark: the pool used up, or a node of too many edges.
FaultMarks ==
  /\ fault = "stolen_edge" => edges_used = MaxEdges
  /\ fault \in {"wrapped_degree", "lost_slot"} => \E n \in NodeIdx : Crowded(n)

IInv == TypeOK /\ GraphInv /\ FaultMarks

-----------------------------------------------------------------------------
(* The constants and the least element of a set.                           *)

\* Edge indexes are finitely many numbers, which the two other values of a slot are not.
LEMMA GraphFacts ==
  /\ Direct \in Nat /\ Direct >= 1 /\ InitSize \in Nat /\ InitSize > Direct
  /\ MaxNodes \in Nat /\ MaxEdges \in Nat /\ MaxNodes >= 1 /\ MaxEdges >= 1
  /\ DegreeLimit \in Nat /\ DegreeLimit > Direct + 1
  /\ IsFiniteSet(EdgeIdx)
  /\ Dead \notin EdgeIdx /\ Junk \notin EdgeIdx /\ Dead # Junk
  <1>1. /\ Direct \in Nat /\ Direct >= 1 /\ InitSize \in Nat /\ InitSize > Direct
        /\ MaxNodes \in Nat /\ MaxEdges \in Nat /\ MaxNodes >= 1 /\ MaxEdges >= 1
        /\ DegreeLimit \in Nat /\ DegreeLimit > Direct + 1
    BY GraphAssumption
  <1>2. IsFiniteSet(EdgeIdx)
    BY <1>1, FS_Interval DEF EdgeIdx
  <1>3. Dead \notin EdgeIdx /\ Junk \notin EdgeIdx /\ Dead # Junk
    BY GraphAssumption DEF EdgeIdx
  <1> QED
    BY <1>1, <1>2, <1>3

\* A set of natural numbers that is not empty has a least one.
LEMMA MinLeast ==
  ASSUME NEW S, S \subseteq Nat, S # {}
  PROVE  Min(S) \in S /\ \A y \in S : Min(S) <= y
  <1> DEFINE R == OpToRel(<, Nat)
  <1>1. IsWellFoundedOn(R, Nat)
    BY NatLessThanWellFounded
  <1>2. \A x, y \in Nat : <<y, x>> \in R <=> y < x
    BY DEF OpToRel
  <1> HIDE DEF R
  <1>3. PICK x \in S : \A y \in S : <<y, x>> \notin R
    BY <1>1, WFMin
  <1>4. ASSUME NEW y \in S
        PROVE  x <= y
    <2>1. x \in Nat /\ y \in Nat /\ ~(y < x)
      BY <1>2, <1>3
    <2> QED
      BY <2>1
  <1> QED
    BY <1>4 DEF Min

\* What Held says, in one place.
LEMMA HeldFacts ==
  ASSUME NEW list, NEW d, NEW es, Held(list, d, es)
  PROVE  /\ list.ptr \in Seq(Slot) /\ list.used \in Nat /\ Len(list.ptr) \in Nat
         /\ DOMAIN list.ptr = 1 .. Len(list.ptr)
         /\ d \in Nat /\ es \subseteq EdgeIdx /\ IsFiniteSet(es) /\ d = Cardinality(es)
         /\ \A i, j \in InUse(list, d) : list.ptr[i] = list.ptr[j] => i = j
         /\ \A e : e \in es <=> \E i \in InUse(list, d) : list.ptr[i] = e
         /\ d <= Direct => Len(list.ptr) = Direct /\ Cardinality(InUse(list, d)) = d
         /\ d > Direct => list.used = d /\ d <= Len(list.ptr)
  <1>1. list.ptr \in Seq(Slot) /\ list.used \in Nat
    BY DEF Held, List, Slot
  <1>2. Len(list.ptr) \in Nat /\ DOMAIN list.ptr = 1 .. Len(list.ptr)
    BY <1>1
  <1>3. es \subseteq EdgeIdx /\ IsFiniteSet(es)
    BY GraphFacts, FS_Subset DEF Held
  <1>4. \A e : e \in es <=> \E i \in InUse(list, d) : list.ptr[i] = e
    BY DEF Held, Lists, Entries
  <1> QED
    BY <1>1, <1>2, <1>3, <1>4 DEF Held, Lists

\* The facts that make a list hold its edges.
LEMMA MakeHeld ==
  ASSUME NEW ptr \in Seq(Slot), NEW used \in Nat, NEW d \in Nat, NEW es \in SUBSET EdgeIdx,
         NEW U, U = InUse([ptr |-> ptr, used |-> used], d),
         \A i, j \in U : ptr[i] = ptr[j] => i = j,
         \A e : e \in es <=> \E i \in U : ptr[i] = e,
         d = Cardinality(es),
         d > Direct => used = d /\ d <= Len(ptr),
         d <= Direct => Len(ptr) = Direct /\ Cardinality(U) = d
  PROVE  Held([ptr |-> ptr, used |-> used], d, es)
  <1> DEFINE list == [ptr |-> ptr, used |-> used]
  <1>1. list \in List /\ list.ptr = ptr /\ list.used = used
    BY DEF List, Slot
  <1>2. Entries(list, d) = es
    BY <1>1 DEF Entries
  <1> HIDE DEF list
  <1>3. Lists(list, d, es)
    BY <1>1, <1>2 DEF Lists, list
  <1>4. Held(list, d, es)
    BY <1>1, <1>3 DEF Held, list
  <1> QED
    BY <1>4 DEF list

-----------------------------------------------------------------------------
(* The ways a list changes.                                                *)

\* One element more, or less.
LEMMA OneMore ==
  ASSUME NEW S, IsFiniteSet(S), NEW x, x \notin S
  PROVE  Cardinality(S \union {x}) = Cardinality(S) + 1
  BY FS_AddElement

LEMMA OneLess ==
  ASSUME NEW S, IsFiniteSet(S), NEW x \in S
  PROVE  /\ Cardinality(S \ {x}) = Cardinality(S) - 1
         /\ Cardinality(S \ {x}) \in Nat /\ Cardinality(S) \in Nat
  BY FS_RemoveElement, FS_CardinalityType

\* The direct slots that are in use are finitely many, and all of them when there are as
\* many entries.
LEMMA DirectSlots ==
  ASSUME NEW list, NEW d, d \in Nat, d <= Direct
  PROVE  /\ InUse(list, d) = {i \in 1 .. Direct : list.ptr[i] # Dead}
         /\ IsFiniteSet(InUse(list, d))
         /\ Cardinality(InUse(list, d)) = Direct => InUse(list, d) = 1 .. Direct
  <1>1. InUse(list, d) = {i \in 1 .. Direct : list.ptr[i] # Dead}
    BY GraphFacts DEF InUse
  <1>2. IsFiniteSet(1 .. Direct) /\ Cardinality(1 .. Direct) = Direct
    BY GraphFacts, FS_Interval
  <1>3. InUse(list, d) \subseteq 1 .. Direct
    BY <1>1
  <1> QED
    BY <1>1, <1>2, <1>3, FS_Subset

\* A free direct slot is found and takes the edge.
LEMMA AddDirectHeld ==
  ASSUME NEW list, NEW d, NEW es, Held(list, d, es), d < Direct, NEW e \in EdgeIdx \ es
  PROVE  Held(AddDirect(list, e), d + 1, es \union {e})
  <1> DEFINE U == InUse(list, d)
             free == FreeSlots(list.ptr, Direct, {})
             k == Min(free)
             ptr == [list.ptr EXCEPT ![k] = e]
  <1>1. /\ list.ptr \in Seq(Slot) /\ list.used \in Nat /\ Len(list.ptr) = Direct
        /\ d \in Nat /\ es \subseteq EdgeIdx /\ IsFiniteSet(es) /\ d = Cardinality(es)
        /\ \A i, j \in U : list.ptr[i] = list.ptr[j] => i = j
        /\ \A x : x \in es <=> \E i \in U : list.ptr[i] = x
        /\ Cardinality(U) = d
    BY HeldFacts, GraphFacts
  <1>2. /\ U = {i \in 1 .. Direct : list.ptr[i] # Dead} /\ IsFiniteSet(U)
        /\ U # 1 .. Direct
    <2>1. d <= Direct /\ d # Direct
      BY <1>1, GraphFacts
    <2>2. Cardinality(1 .. Direct) = Direct
      BY GraphFacts, FS_Interval
    <2> QED
      BY <1>1, <2>1, <2>2, DirectSlots
  <1>3. free = {i \in 1 .. Direct : list.ptr[i] = Dead}
    BY DEF FreeSlots
  <1>4. k \in free
    <2>1. free # {} /\ free \subseteq Nat
      BY <1>2, <1>3
    <2> QED
      BY <2>1, MinLeast
  <1>5. k \in 1 .. Direct /\ k \notin U /\ free # {}
    BY <1>2, <1>3, <1>4
  <1>6. AddDirect(list, e) = [ptr |-> ptr, used |-> list.used]
    <2>1. list = [ptr |-> list.ptr, used |-> list.used]
      BY DEF Held, List
    <2> QED
      BY <1>5, <2>1 DEF AddDirect
  <1> HIDE DEF U, free, k
  <1>7. /\ ptr \in Seq(Slot) /\ Len(ptr) = Direct
        /\ \A i \in 1 .. Direct : ptr[i] = IF i = k THEN e ELSE list.ptr[i]
    BY <1>1, <1>5 DEF Slot
  <1> HIDE DEF ptr
  <1>8. e # Dead /\ e \notin es
    BY GraphFacts
  <1> DEFINE U2 == U \union {k}
  <1>9. U2 = InUse([ptr |-> ptr, used |-> list.used], d + 1)
    <2>1. InUse([ptr |-> ptr, used |-> list.used], d + 1) = {i \in 1 .. Direct : ptr[i] # Dead}
      BY <1>1, GraphFacts DEF InUse
    <2> QED
      BY <1>2, <1>5, <1>7, <1>8, <2>1
  <1>10. \A i, j \in U2 : ptr[i] = ptr[j] => i = j
    BY <1>1, <1>2, <1>5, <1>7, <1>8
  <1>11. \A x : x \in es \union {e} <=> \E i \in U2 : ptr[i] = x
    BY <1>1, <1>2, <1>5, <1>7, <1>8
  <1>12. Cardinality(U2) = d + 1 /\ Cardinality(es \union {e}) = d + 1
    BY <1>1, <1>2, <1>5, <1>8, OneMore
  <1>13. d + 1 \in Nat /\ ~(d + 1 > Direct) /\ es \union {e} \in SUBSET EdgeIdx
    BY <1>1, GraphFacts
  <1> DEFINE es2 == es \union {e}
             d2 == d + 1
  <1>14. /\ ptr \in Seq(Slot) /\ list.used \in Nat /\ d2 \in Nat /\ es2 \in SUBSET EdgeIdx
         /\ d2 = Cardinality(es2)
         /\ d2 > Direct => list.used = d2 /\ d2 <= Len(ptr)
         /\ d2 <= Direct => Len(ptr) = Direct /\ Cardinality(U2) = d2
    BY <1>1, <1>7, <1>12, <1>13
  <1>15. Held([ptr |-> ptr, used |-> list.used], d2, es2)
    <2> HIDE DEF U2, es2, d2
    <2> QED
      BY <1>9, <1>10, <1>11, <1>14, MakeHeld DEF es2, d2
  <1> QED
    BY <1>6, <1>15

\* An array holds one edge more behind those that fill the first slots.
LEMMA ArrayHeld ==
  ASSUME NEW list, NEW d, NEW es, Held(list, d, es), d >= Direct,
         InUse(list, d) = 1 .. d, NEW e \in EdgeIdx \ es,
         NEW ptr \in Seq(Slot), Len(ptr) >= d + 1, ptr[d + 1] = e,
         \A i \in 1 .. d : ptr[i] = list.ptr[i]
  PROVE  Held([ptr |-> ptr, used |-> d + 1], d + 1, es \union {e})
  <1>1. /\ d \in Nat /\ es \subseteq EdgeIdx /\ IsFiniteSet(es) /\ d = Cardinality(es)
        /\ \A i, j \in 1 .. d : list.ptr[i] = list.ptr[j] => i = j
        /\ \A x : x \in es <=> \E i \in 1 .. d : list.ptr[i] = x
    <2>1. /\ d \in Nat /\ es \subseteq EdgeIdx /\ IsFiniteSet(es) /\ d = Cardinality(es)
          /\ \A i, j \in InUse(list, d) : list.ptr[i] = list.ptr[j] => i = j
          /\ \A x : x \in es <=> \E i \in InUse(list, d) : list.ptr[i] = x
      BY HeldFacts
    <2> QED
      BY <2>1
  <1> DEFINE U2 == 1 .. d + 1
  <1>2. U2 = InUse([ptr |-> ptr, used |-> d + 1], d + 1)
    BY <1>1, GraphFacts DEF InUse
  <1>3. \A i \in U2 : i \in 1 .. d \/ i = d + 1
    BY <1>1
  <1>4. 1 .. d \subseteq U2 /\ d + 1 \in U2
    BY <1>1
  <1>5. \A i, j \in U2 : ptr[i] = ptr[j] => i = j
    BY <1>1, <1>3
  <1>6. \A x : x \in es \union {e} <=> \E i \in U2 : ptr[i] = x
    BY <1>1, <1>3, <1>4
  <1>7. Cardinality(es \union {e}) = d + 1
    BY <1>1, OneMore
  <1>8. d + 1 \in Nat /\ ~(d + 1 <= Direct) /\ es \union {e} \in SUBSET EdgeIdx
    BY <1>1, GraphFacts
  <1> HIDE DEF U2
  <1> QED
    BY <1>2, <1>5, <1>6, <1>7, <1>8, MakeHeld

\* A slot that is set.
LEMMA SetSlot ==
  ASSUME NEW S, NEW q \in Seq(S), NEW k, NEW e \in S
  PROVE  [q EXCEPT ![k] = e] \in Seq(S)
  <1> DEFINE r == [q EXCEPT ![k] = e]
             n == Len(q)
  <1>1. n \in Nat /\ DOMAIN q = 1 .. n /\ \A i \in 1 .. n : q[i] \in S
    OBVIOUS
  <1>2. r = [i \in 1 .. n |-> IF i = k THEN e ELSE q[i]]
    BY <1>1
  <1> HIDE DEF r, n
  <1>3. \A i \in 1 .. n : (IF i = k THEN e ELSE q[i]) \in S
    BY <1>1
  <1>4. r \in Seq(S)
    BY <1>1, <1>2, <1>3
  <1> QED
    BY <1>4 DEF r

\* Two sequences, one behind the other.
LEMMA Behind ==
  ASSUME NEW S, NEW q \in Seq(S), NEW r \in Seq(S), NEW n \in Nat, NEW m \in Nat,
         Len(q) = n, Len(r) = m
  PROVE  /\ q \o r \in Seq(S) /\ Len(q \o r) = n + m
         /\ \A i \in 1 .. n : (q \o r)[i] = q[i]
         /\ m >= 1 => (q \o r)[n + 1] = r[1]
  <1>1. /\ q \o r \in Seq(S) /\ Len(q \o r) = n + m
        /\ \A i \in 1 .. n + m : (q \o r)[i] = IF i <= n THEN q[i] ELSE r[i - n]
    BY ConcatProperties
  <1>2. ASSUME NEW i \in 1 .. n
        PROVE  i \in 1 .. n + m /\ i <= n
    OBVIOUS
  <1>3. ASSUME m >= 1
        PROVE  (q \o r)[n + 1] = r[1]
    <2>1. n + 1 \in 1 .. n + m /\ ~(n + 1 <= n) /\ (n + 1) - n = 1
      BY <1>3
    <2> QED
      BY <1>1, <2>1
  <1> QED
    BY <1>1, <1>2, <1>3

\* The array that the direct slots move to.
LEMMA MigrateShape ==
  ASSUME NEW q \in Seq(Slot), Len(q) = Direct, NEW e \in Slot, Junk \in Slot
  PROVE  LET r == q \o <<e>> \o Slots(Junk, InitSize - Direct - 1)
         IN  /\ r \in Seq(Slot) /\ Len(r) >= Direct + 1 /\ r[Direct + 1] = e
             /\ \A i \in 1 .. Direct : r[i] = q[i]
  <1> DEFINE one == q \o <<e>>
             rest == Slots(Junk, InitSize - Direct - 1)
  <1>1. /\ <<e>> \in Seq(Slot) /\ Len(<<e>>) = 1 /\ <<e>>[1] = e
        /\ Direct \in Nat /\ InitSize - Direct - 1 \in Nat
    BY GraphFacts
  <1>2. /\ one \in Seq(Slot) /\ Len(one) = Direct + 1 /\ one[Direct + 1] = e
        /\ \A i \in 1 .. Direct : one[i] = q[i]
    <2> DEFINE last == <<e>>
    <2>1. PICK m \in Nat : m = 1
      OBVIOUS
    <2>2. last \in Seq(Slot) /\ Len(last) = m /\ last[1] = e /\ m >= 1
      BY <1>1, <2>1
    <2> HIDE DEF last
    <2>3. /\ q \o last \in Seq(Slot) /\ Len(q \o last) = Direct + m
          /\ \A i \in 1 .. Direct : (q \o last)[i] = q[i]
          /\ (q \o last)[Direct + 1] = last[1]
      BY <1>1, <2>2, Behind, SMTT(30)
    <2> QED
      BY <2>1, <2>2, <2>3 DEF last
  <1>4. PICK m \in Nat : rest \in Seq(Slot) /\ Len(rest) = m
    BY <1>1 DEF Slots
  <1> HIDE DEF one, rest
  <1>5. /\ one \o rest \in Seq(Slot) /\ Len(one \o rest) = (Direct + 1) + m
        /\ \A i \in 1 .. Direct + 1 : (one \o rest)[i] = one[i]
    <2>1. PICK k \in Nat : k = Direct + 1
      BY <1>1
    <2>2. Len(one) = k
      BY <1>2, <2>1
    <2>3. /\ one \o rest \in Seq(Slot) /\ Len(one \o rest) = k + m
          /\ \A i \in 1 .. k : (one \o rest)[i] = one[i]
      BY <1>2, <1>4, <2>2, Behind
    <2> QED
      BY <2>1, <2>3
  <1>6. Len(one \o rest) >= Direct + 1 /\ Direct + 1 \in 1 .. Direct + 1
    BY <1>1, <1>5
  <1>7. \A i \in 1 .. Direct : i \in 1 .. Direct + 1
    BY <1>1
  <1> QED
    BY <1>2, <1>5, <1>6, <1>7 DEF one, rest

\* The array has room for one more, and keeps what is in it; a slot is new only if the
\* array was full.
LEMMA GrownShape ==
  ASSUME NEW list \in List, NEW n \in Nat, n >= 1, list.used = n, n <= Len(list.ptr),
         NEW v \in Slot
  PROVE  LET l == Grown(list, v)
         IN  /\ l.ptr \in Seq(Slot) /\ Len(l.ptr) \in Nat /\ Len(l.ptr) >= n + 1 /\ l.used = n
             /\ \A i \in 1 .. n : l.ptr[i] = list.ptr[i]
             /\ n < Len(list.ptr) => l.ptr = list.ptr
             /\ n = Len(list.ptr) => l.ptr[n + 1] = v
  <1> DEFINE q == list.ptr
  <1>1. q \in Seq(Slot) /\ Len(q) \in Nat
    BY DEF List, Slot
  <1>2. CASE n < Len(q)
    <2>1. list.used # Len(list.ptr)
      BY <1>1, <1>2
    <2>2. Grown(list, v) = list
      BY <2>1 DEF Grown
    <2> QED
      BY <1>1, <1>2, <2>2
  <1>3. CASE n = Len(q)
    <2> DEFINE new == Slots(v, n)
               r == q \o new
    <2>1. Grown(list, v) = [ptr |-> r, used |-> n]
      BY <1>3 DEF Grown, List
    <2>2. new \in Seq(Slot) /\ Len(new) = n /\ new[1] = v
      BY DEF Slots
    <2> HIDE DEF new
    <2>3. /\ r \in Seq(Slot) /\ Len(r) = n + n
          /\ \A i \in 1 .. n : r[i] = q[i]
          /\ r[n + 1] = new[1]
      BY <1>1, <1>3, <2>2, Behind
    <2>4. r[n + 1] = v
      BY <2>2, <2>3
    <2> HIDE DEF r
    <2> QED
      BY <1>3, <2>1, <2>3, <2>4
  <1> QED
    BY <1>1, <1>2, <1>3

\* add_in_edge: the list holds the new edge too.
LEMMA AddInHeld ==
  ASSUME NEW list, NEW d, NEW es, Held(list, d, es), NEW e \in EdgeIdx \ es
  PROVE  Held(AddIn(list, d, e), d + 1, es \union {e})
  <1>1. /\ list.ptr \in Seq(Slot) /\ list.used \in Nat /\ Len(list.ptr) \in Nat
        /\ d \in Nat /\ e \in Slot /\ Junk \in Slot
        /\ d <= Direct => Len(list.ptr) = Direct /\ Cardinality(InUse(list, d)) = d
        /\ d > Direct => list.used = d /\ d <= Len(list.ptr)
    BY HeldFacts DEF Slot
  <1>2. CASE d < Direct
    BY <1>2, AddDirectHeld DEF AddIn
  <1>3. CASE d = Direct
    <2>1. InUse(list, d) = 1 .. d
      BY <1>1, <1>3, GraphFacts, DirectSlots
    <2> DEFINE ptr == list.ptr \o <<e>> \o Slots(Junk, InitSize - Direct - 1)
    <2>2. /\ ptr \in Seq(Slot) /\ Len(ptr) >= Direct + 1 /\ ptr[Direct + 1] = e
          /\ \A i \in 1 .. Direct : ptr[i] = list.ptr[i]
      <3>1. Len(list.ptr) = Direct
        BY <1>1, <1>3, GraphFacts
      <3> QED
        BY <1>1, <3>1, MigrateShape
    <2>3. AddIn(list, d, e) = [ptr |-> ptr, used |-> d + 1]
      BY <1>3, GraphFacts DEF AddIn, Migrate
    <2> HIDE DEF ptr
    <2>4. d >= Direct
      BY <1>3, GraphFacts
    <2> QED
      BY <1>3, <2>1, <2>2, <2>3, <2>4, ArrayHeld
  <1>4. CASE d > Direct
    <2>1. InUse(list, d) = 1 .. d /\ list.used = d /\ d <= Len(list.ptr) /\ d >= Direct
      BY <1>1, <1>4, GraphFacts DEF InUse
    <2> DEFINE grown == Grown(list, Junk).ptr
               ptr == [grown EXCEPT ![d + 1] = e]
    <2>2. /\ grown \in Seq(Slot) /\ Len(grown) >= d + 1 /\ Grown(list, Junk).used = d
          /\ \A i \in 1 .. d : grown[i] = list.ptr[i]
      <3>1. list \in List /\ d >= 1
        BY <2>1, <1>1, GraphFacts DEF Held
      <3> QED
        BY <1>1, <2>1, <3>1, GrownShape
    <2>3. AddIn(list, d, e) = [ptr |-> ptr, used |-> d + 1]
      BY <1>1, <1>4, <2>2, GraphFacts DEF AddIn
    <2> HIDE DEF grown
    <2>4. /\ ptr \in Seq(Slot) /\ Len(ptr) >= d + 1 /\ ptr[d + 1] = e
          /\ \A i \in 1 .. d : ptr[i] = list.ptr[i]
      BY <1>1, <2>2
    <2> HIDE DEF ptr
    <2> QED
      BY <2>1, <2>3, <2>4, ArrayHeld
  <1> QED
    BY <1>1, <1>2, <1>3, <1>4, GraphFacts

\* What an array of outgoing edges becomes: the slots in use stay as they are, because
\* none of them can be taken for a free one.
LEMMA OutArray ==
  ASSUME NEW list, NEW d, NEW es, Held(list, d, es), d > Direct, NEW e \in EdgeIdx,
         NEW junk \in SUBSET UnwrittenSlots(list, d)
  PROVE  \E ptr \in Seq(Slot) :
           /\ AddOut(list, d, e, junk) = [ptr |-> ptr, used |-> d + 1]
           /\ Len(ptr) \in Nat /\ Len(ptr) >= d + 1
           /\ \A i \in 1 .. d : ptr[i] = list.ptr[i]
  <1>1. /\ list \in List /\ d \in Nat /\ d >= 1 /\ list.used = d /\ d <= Len(list.ptr)
        /\ Dead \in Slot /\ e \in Slot
    BY HeldFacts, GraphFacts DEF Held, Slot
  <1>2. InUse(list, d) = 1 .. d
    BY <1>1, GraphFacts DEF InUse
  <1>3. \A i \in 1 .. d : list.ptr[i] \in EdgeIdx
    BY <1>2, HeldFacts
  <1> DEFINE l == Grown(list, Dead)
             free == FreeSlots(l.ptr, l.used + 1, junk)
             k == Min(free)
  <1>4. /\ l.ptr \in Seq(Slot) /\ Len(l.ptr) \in Nat /\ Len(l.ptr) >= d + 1 /\ l.used = d
        /\ \A i \in 1 .. d : l.ptr[i] = list.ptr[i]
    BY <1>1, GrownShape
  <1>5. AddOut(list, d, e, junk) =
          [ptr |-> IF free = {} THEN l.ptr ELSE [l.ptr EXCEPT ![k] = e], used |-> d + 1]
    <2>1. ~(d < Direct) /\ d # Direct
      BY <1>1, GraphFacts
    <2>2. l.used + 1 = d + 1
      BY <1>4
    <2> QED
      BY <2>1, <2>2 DEF AddOut
  <1>6. \A i \in junk : list.ptr[i] = Junk
    <2>1. ~(d <= Direct)
      BY <1>1, GraphFacts
    <2> QED
      BY <2>1 DEF UnwrittenSlots
  <1>7. free \subseteq {d + 1}
    <2>1. l.used + 1 = d + 1
      BY <1>4
    <2> HIDE DEF l
    <2>2. free \subseteq 1 .. d + 1
      BY <2>1 DEF FreeSlots
    <2>3. ASSUME NEW i \in free, i \in 1 .. d
          PROVE  FALSE
      <3>1. l.ptr[i] = Dead \/ i \in junk
        BY DEF FreeSlots
      <3>2. list.ptr[i] = Dead \/ list.ptr[i] = Junk
        BY <1>4, <1>6, <2>3, <3>1
      <3> QED
        BY <1>3, <2>3, <3>2, GraphFacts
    <2> HIDE DEF free
    <2> QED
      BY <1>1, <2>2, <2>3
  <1>8. free # {} => k = d + 1
    <2>1. free \subseteq Nat
      BY <1>1, <1>7
    <2> HIDE DEF free
    <2> QED
      BY <1>7, <2>1, MinLeast
  <1> HIDE DEF l, free, k
  <1>9. CASE free = {}
    BY <1>4, <1>5, <1>9
  <1>10. CASE free # {}
    <2> DEFINE ptr == [l.ptr EXCEPT ![d + 1] = e]
    <2>1. /\ ptr \in Seq(Slot) /\ Len(ptr) = Len(l.ptr)
          /\ \A i \in 1 .. d : ptr[i] = l.ptr[i]
      BY <1>1, <1>4
    <2>2. AddOut(list, d, e, junk) = [ptr |-> ptr, used |-> d + 1]
      BY <1>5, <1>8, <1>10
    <2> HIDE DEF ptr
    <2> QED
      BY <1>4, <2>1, <2>2
  <1> QED
    BY <1>9, <1>10

\* add_out_edge: the list holds the new edge too, if the edge has found a slot.
LEMMA AddOutHeld ==
  ASSUME NEW list, NEW d, NEW es, Held(list, d, es), NEW e \in EdgeIdx \ es,
         NEW junk \in SUBSET UnwrittenSlots(list, d),
         e \in Entries(AddOut(list, d, e, junk), d + 1)
  PROVE  Held(AddOut(list, d, e, junk), d + 1, es \union {e})
  <1>1. d \in Nat
    BY HeldFacts
  <1>2. CASE d <= Direct
    <2>1. AddOut(list, d, e, junk) = AddIn(list, d, e)
      BY <1>1, <1>2, GraphFacts DEF AddOut, AddIn
    <2> QED
      BY <2>1, AddInHeld
  <1>3. CASE d > Direct
    <2>1. PICK ptr \in Seq(Slot) :
            /\ AddOut(list, d, e, junk) = [ptr |-> ptr, used |-> d + 1]
            /\ Len(ptr) \in Nat /\ Len(ptr) >= d + 1
            /\ \A i \in 1 .. d : ptr[i] = list.ptr[i]
      BY <1>3, OutArray
    <2>2. InUse(list, d) = 1 .. d /\ d >= Direct
      <3>1. list.used = d
        BY <1>3, HeldFacts
      <3> QED
        BY <1>1, <1>3, <3>1, GraphFacts DEF InUse
    <2>3. ptr[d + 1] = e
      <3>1. d + 1 > Direct
        BY <1>1, <1>3, GraphFacts
      <3>2. PICK i \in 1 .. d + 1 : ptr[i] = e
        BY <2>1, <3>1 DEF Entries, InUse
      <3>3. \A j \in 1 .. d : list.ptr[j] \in es
        BY <2>2, HeldFacts
      <3>4. i \notin 1 .. d
        BY <2>1, <3>2, <3>3
      <3>5. i = d + 1
        BY <1>1, <3>4
      <3> QED
        BY <3>2, <3>5
    <2>4. Held([ptr |-> ptr, used |-> d + 1], d + 1, es \union {e})
      BY <2>1, <2>2, <2>3, ArrayHeld
    <2> QED
      BY <2>1, <2>4
  <1> QED
    BY <1>1, <1>2, <1>3, GraphFacts

\* Whatever edge is added, one that is in the list already included, a list stays one.
LEMMA AddTypes ==
  ASSUME NEW list, NEW d, NEW es, Held(list, d, es), NEW e \in EdgeIdx,
         NEW junk \in SUBSET UnwrittenSlots(list, d)
  PROVE  AddIn(list, d, e) \in List /\ AddOut(list, d, e, junk) \in List
  <1>1. /\ list \in List /\ d \in Nat /\ e \in Slot /\ Junk \in Slot /\ Dead \in Slot
        /\ list.ptr \in Seq(Slot) /\ list.used \in Nat
        /\ d <= Direct => Len(list.ptr) = Direct
        /\ d > Direct => list.used = d /\ d <= Len(list.ptr)
    BY HeldFacts DEF Slot, Held
  <1>2. List = [ptr : Seq(Slot), used : Nat]
    BY DEF List, Slot
  <1>3. CASE d < Direct
    <2>1. AddDirect(list, e) \in List
      <3> DEFINE k == Min(FreeSlots(list.ptr, Direct, {}))
      <3>1. [list.ptr EXCEPT ![k] = e] \in Seq(Slot)
        BY <1>1, SetSlot
      <3>2. AddDirect(list, e) = list \/ AddDirect(list, e) = [list EXCEPT !.ptr[k] = e]
        BY DEF AddDirect
      <3> HIDE DEF k
      <3> QED
        BY <1>1, <1>2, <3>1, <3>2
    <2> QED
      BY <1>3, <2>1 DEF AddIn, AddOut
  <1>4. CASE d = Direct
    <2>1. Migrate(list, e) \in List
      <3> DEFINE ptr == list.ptr \o <<e>> \o Slots(Junk, InitSize - Direct - 1)
      <3>1. ptr \in Seq(Slot)
        <4>1. Len(list.ptr) = Direct
          BY <1>1, <1>4, GraphFacts
        <4> QED
          BY <1>1, <4>1, MigrateShape
      <3>2. Migrate(list, e) = [ptr |-> ptr, used |-> Direct + 1] /\ Direct + 1 \in Nat
        BY GraphFacts DEF Migrate
      <3> HIDE DEF ptr
      <3> QED
        BY <1>2, <3>1, <3>2
    <2> QED
      BY <1>4, <2>1, GraphFacts DEF AddIn, AddOut
  <1>5. CASE d > Direct
    <2>1. d + 1 \in Nat /\ d >= 1 /\ ~(d < Direct) /\ d # Direct
      BY <1>1, <1>5, GraphFacts
    <2>2. AddOut(list, d, e, junk) \in List
      <3>1. PICK ptr \in Seq(Slot) : AddOut(list, d, e, junk) = [ptr |-> ptr, used |-> d + 1]
        BY <1>5, OutArray
      <3> QED
        BY <1>2, <2>1, <3>1
    <2>3. AddIn(list, d, e) \in List
      <3> DEFINE l == Grown(list, Junk)
      <3>1. l.ptr \in Seq(Slot) /\ l.used = d
        BY <1>1, <1>5, <2>1, GrownShape
      <3>2. AddIn(list, d, e) = [ptr |-> [l.ptr EXCEPT ![d + 1] = e], used |-> d + 1]
        BY <2>1, <3>1 DEF AddIn
      <3> HIDE DEF l
      <3>3. [l.ptr EXCEPT ![d + 1] = e] \in Seq(Slot)
        BY <1>1, <3>1, SetSlot
      <3> QED
        BY <1>2, <2>1, <3>2, <3>3
    <2> QED
      BY <2>2, <2>3
  <1> QED
    BY <1>1, <1>3, <1>4, <1>5, GraphFacts

\* remove_in_edge and remove_out_edge: an edge that is in a list is found and leaves it,
\* all others stay.
LEMMA DropHeld ==
  ASSUME NEW list, NEW d, NEW es, Held(list, d, es), NEW e \in es
  PROVE  Held(Drop(list, d - 1, e), d - 1, es \ {e}) /\ d - 1 \in Nat
  <1> DEFINE U == InUse(list, d)
             q == list.ptr
             es2 == es \ {e}
             n == d - 1
  <1>1. /\ q \in Seq(Slot) /\ list.used \in Nat /\ Len(q) \in Nat
        /\ d \in Nat /\ es \subseteq EdgeIdx /\ d = Cardinality(es)
        /\ \A i, j \in U : q[i] = q[j] => i = j
        /\ \A x : x \in es <=> \E i \in U : q[i] = x
        /\ d <= Direct => Len(q) = Direct /\ Cardinality(U) = d
        /\ d > Direct => list.used = d /\ d <= Len(q)
    BY HeldFacts
  <1>2. n \in Nat /\ d = n + 1 /\ Cardinality(es2) = n /\ es2 \in SUBSET EdgeIdx
    <2>1. IsFiniteSet(es)
      BY HeldFacts
    <2>2. Cardinality(es2) = d - 1 /\ Cardinality(es2) \in Nat
      BY <1>1, <2>1, OneLess
    <2> QED
      BY <1>1, <2>2
  <1>3. list = [ptr |-> q, used |-> list.used] /\ Dead \in Slot
    BY DEF Held, List, Slot
  <1> HIDE DEF n
  <1>4. CASE n < Direct
    <2>1. /\ d <= Direct /\ ~(n > Direct)
      BY <1>1, <1>2, <1>4, GraphFacts
    <2>2. U = {i \in 1 .. Direct : q[i] # Dead} /\ IsFiniteSet(U)
      BY <1>1, <2>1, DirectSlots
    <2> DEFINE at == {i \in 1 .. Direct : q[i] = e}
               k == Min(at)
               ptr == [q EXCEPT ![k] = Dead]
               U2 == U \ {k}
    <2>3. e # Dead
      BY <1>1, GraphFacts
    <2>4. k \in at
      <3>1. at # {} /\ at \subseteq Nat
        BY <1>1, <2>2
      <3> HIDE DEF at
      <3> QED
        BY <3>1, MinLeast
    <2>5. k \in 1 .. Direct /\ q[k] = e /\ k \in U /\ at # {}
      BY <2>2, <2>3, <2>4
    <2>6. Drop(list, n, e) = [ptr |-> ptr, used |-> list.used]
      BY <1>3, <1>4, <2>5 DEF Drop
    <2> HIDE DEF U, at, k, q
    <2>7. /\ ptr \in Seq(Slot) /\ Len(ptr) = Direct
          /\ \A i \in 1 .. Direct : ptr[i] = IF i = k THEN Dead ELSE q[i]
      BY <1>1, <1>3, <2>1, <2>5
    <2> HIDE DEF ptr
    <2>8. U2 = InUse([ptr |-> ptr, used |-> list.used], n)
      <3>1. InUse([ptr |-> ptr, used |-> list.used], n) = {i \in 1 .. Direct : ptr[i] # Dead}
        BY <2>1 DEF InUse
      <3> QED
        BY <2>2, <2>7, <3>1
    <2>9. \A i, j \in U2 : ptr[i] = ptr[j] => i = j
      BY <1>1, <2>2, <2>7
    <2>10. \A x : x \in es2 <=> \E i \in U2 : ptr[i] = x
      <3>1. \A i \in U2 : i \in U /\ i # k /\ ptr[i] = q[i]
        BY <2>2, <2>7
      <3>2. ASSUME NEW x, x \in es2
            PROVE  \E i \in U2 : ptr[i] = x
        <4>1. PICK i \in U : q[i] = x
          BY <1>1, <3>2
        <4>2. i \in U2
          BY <2>5, <3>2, <4>1
        <4> QED
          BY <3>1, <4>1, <4>2
      <3>3. ASSUME NEW i \in U2
            PROVE  ptr[i] \in es2
        <4>1. q[i] \in es /\ q[i] # e
          BY <1>1, <2>5, <3>1
        <4> QED
          BY <3>1, <4>1
      <3> HIDE DEF U2, es2
      <3> QED
        BY <3>2, <3>3
    <2>11. Cardinality(U2) = n
      BY <1>1, <1>2, <2>1, <2>2, <2>5, OneLess
    <2> HIDE DEF U2, es2
    <2>12. /\ ptr \in Seq(Slot) /\ list.used \in Nat /\ n \in Nat /\ es2 \in SUBSET EdgeIdx
           /\ n = Cardinality(es2)
           /\ n > Direct => list.used = n /\ n <= Len(ptr)
           /\ n <= Direct => Len(ptr) = Direct /\ Cardinality(U2) = n
      BY <1>1, <1>2, <2>1, <2>7, <2>11
    <2>13. Held([ptr |-> ptr, used |-> list.used], n, es2)
      BY <2>8, <2>9, <2>10, <2>12, MakeHeld
    <2> QED
      BY <1>2, <2>6, <2>13 DEF n, es2
  <1>5. CASE n >= Direct
    <2>1. d > Direct /\ list.used = d /\ d <= Len(q) /\ U = 1 .. d /\ ~(n < Direct)
      BY <1>1, <1>2, <1>5, GraphFacts DEF InUse
    <2> DEFINE at == {i \in 1 .. d : q[i] = e}
               k == Min(at)
               ptr == [q EXCEPT ![k] = q[d]]
    <2>2. k \in at
      <3>1. at # {} /\ at \subseteq Nat
        BY <1>1, <2>1
      <3> HIDE DEF at
      <3> QED
        BY <3>1, MinLeast
    <2>3. k \in 1 .. d /\ q[k] = e /\ at # {}
      BY <2>2
    <2>4. Drop(list, n, e) =
            IF n = Direct THEN [ptr |-> SubSeq(ptr, 1, Direct), used |-> Direct]
            ELSE [ptr |-> ptr, used |-> n]
      <3>1. list.used - 1 = n
        BY <1>2, <2>1
      <3> QED
        BY <2>1, <2>3, <3>1 DEF Drop
    <2> HIDE DEF U, at, k, q
    <2>5. /\ ptr \in Seq(Slot) /\ Len(ptr) = Len(q)
          /\ \A i \in 1 .. n : ptr[i] = IF i = k THEN q[d] ELSE q[i]
      <3>1. PICK m \in Nat : m = Len(q)
        BY <1>1
      <3>2. DOMAIN q = 1 .. m /\ d \in 1 .. m /\ \A i \in 1 .. n : i \in 1 .. m
        BY <1>1, <1>2, <2>1, <3>1
      <3>3. q[d] \in Slot
        BY <1>1, <3>1, <3>2
      <3>4. ptr \in Seq(Slot)
        BY <1>1, <3>3, SetSlot
      <3>5. DOMAIN ptr = 1 .. m
        BY <3>2
      <3>6. \A i \in 1 .. m : ptr[i] = IF i = k THEN q[d] ELSE q[i]
        BY <3>2
      <3> HIDE DEF ptr
      <3>7. Len(ptr) = m
        BY <3>4, <3>5
      <3> QED
        BY <3>1, <3>2, <3>4, <3>6, <3>7
    <2> HIDE DEF ptr
    <2>6. /\ d \in 1 .. d /\ \A i \in 1 .. n : i \in 1 .. d /\ i # d
          /\ \A i \in 1 .. d : i \in 1 .. n \/ i = d
      BY <1>1, <1>2
    <2>7. \A i, j \in 1 .. n : ptr[i] = ptr[j] => i = j
      BY <1>1, <2>1, <2>3, <2>5, <2>6
    <2>8. \A x : x \in es2 <=> \E i \in 1 .. n : ptr[i] = x
      <3>1. ASSUME NEW x, x \in es2
            PROVE  \E i \in 1 .. n : ptr[i] = x
        <4>1. PICK i \in 1 .. d : q[i] = x
          BY <1>1, <2>1, <3>1
        <4>2. i # k
          BY <2>3, <3>1, <4>1
        <4>3. CASE i = d
          <5>1. k \in 1 .. n
            BY <2>3, <2>6, <4>2, <4>3
          <5> QED
            BY <2>5, <4>1, <4>3, <5>1
        <4>4. CASE i # d
          BY <2>5, <2>6, <4>1, <4>2, <4>4
        <4> QED
          BY <4>3, <4>4
      <3>2. ASSUME NEW i \in 1 .. n
            PROVE  ptr[i] \in es2
        <4>1. CASE i = k
          <5>1. ptr[i] = q[d] /\ d # k
            BY <2>5, <2>6, <4>1
          <5> QED
            BY <1>1, <2>1, <2>3, <2>6, <5>1
        <4>2. CASE i # k
          BY <1>1, <2>1, <2>3, <2>5, <2>6, <4>2
        <4> QED
          BY <4>1, <4>2
      <3> QED
        BY <3>1, <3>2
    <2>9. CASE n = Direct
      <3> DEFINE r == SubSeq(ptr, 1, Direct)
      <3>1. /\ r \in Seq(Slot) /\ Len(r) = Direct
            /\ \A i \in 1 .. n : r[i] = ptr[i]
        BY <1>1, <1>2, <2>1, <2>5, <2>9, GraphFacts
      <3> HIDE DEF r
      <3>2. 1 .. n = InUse([ptr |-> r, used |-> Direct], n)
        <4>1. InUse([ptr |-> r, used |-> Direct], n) = {i \in 1 .. Direct : r[i] # Dead}
          BY <2>9, GraphFacts DEF InUse
        <4>2. \A i \in 1 .. n : r[i] \in EdgeIdx
          BY <1>2, <2>8, <3>1
        <4> QED
          BY <2>9, <4>1, <4>2, GraphFacts
      <3>3. \A i, j \in 1 .. n : r[i] = r[j] => i = j
        BY <2>7, <3>1
      <3>4. \A x : x \in es2 <=> \E i \in 1 .. n : r[i] = x
        BY <2>8, <3>1
      <3>5. Cardinality(1 .. n) = n
        BY <1>2, FS_Interval
      <3> HIDE DEF es2
      <3>6. Held([ptr |-> r, used |-> Direct], n, es2)
        <4>1. ~(n > Direct) /\ Direct \in Nat
          BY <1>2, <2>9, GraphFacts
        <4> QED
          BY <1>2, <2>9, <3>1, <3>2, <3>3, <3>4, <3>5, <4>1, MakeHeld
      <3> QED
        BY <1>2, <2>4, <2>9, <3>6 DEF n, es2, r
    <2>10. CASE n # Direct
      <3>1. n > Direct /\ ~(n <= Direct) /\ n <= Len(ptr)
        BY <1>1, <1>2, <1>5, <2>1, <2>5, <2>10, GraphFacts
      <3>2. 1 .. n = InUse([ptr |-> ptr, used |-> n], n)
        BY <3>1 DEF InUse
      <3> HIDE DEF es2
      <3>3. Held([ptr |-> ptr, used |-> n], n, es2)
        BY <1>2, <2>5, <2>7, <2>8, <3>1, <3>2, MakeHeld
      <3> QED
        BY <1>2, <2>4, <2>10, <3>3 DEF n, es2
    <2> QED
      BY <2>9, <2>10
  <1> QED
    BY <1>2, <1>4, <1>5, GraphFacts

\* The lists of a new node are empty.
LEMMA EmptyHeld == Held(EmptyList, 0, {})
  <1> DEFINE ptr == Slots(Dead, Direct)
  <1>1. ptr \in Seq(Slot) /\ Len(ptr) = Direct /\ \A i \in 1 .. Direct : ptr[i] = Dead
    BY GraphFacts DEF Slots, Slot
  <1> HIDE DEF ptr
  <1>2. {} = InUse([ptr |-> ptr, used |-> Direct], 0)
    BY <1>1, GraphFacts DEF InUse
  <1>3. Cardinality({}) = 0
    BY FS_EmptySet
  <1>4. Held([ptr |-> ptr, used |-> Direct], 0, {})
    <2>1. Direct \in Nat /\ 0 \in Nat /\ ~(0 > Direct) /\ {} \in SUBSET EdgeIdx
      BY GraphFacts
    <2> QED
      BY <1>1, <1>2, <1>3, <2>1, MakeHeld
  <1> QED
    BY <1>4 DEF EmptyList, ptr

-----------------------------------------------------------------------------
(* An edge that leaves its source's and its target's list.                 *)

\* Two node tables that differ in one kind of list alone.
SameIn(ns, ns2) ==
  \A m \in NodeIdx :
    ns2[m].valid = ns[m].valid /\ ns2[m].in = ns[m].in /\ ns2[m].in_degree = ns[m].in_degree
SameOut(ns, ns2) ==
  \A m \in NodeIdx :
    ns2[m].valid = ns[m].valid /\ ns2[m].out = ns[m].out /\ ns2[m].out_degree = ns[m].out_degree

Edges == [EdgeIdx -> [source : NodeIdx, target : NodeIdx]]
Tables == [NodeIdx -> Node]

\* remove_out_edge takes the edge from its source's list and changes no other list.
LEMMA RemoveOutHeld ==
  ASSUME edges \in Edges, NEW ns \in Tables, NEW L \in SUBSET EdgeIdx, OutHeld(ns, L),
         NEW e \in L, ns[edges[e].source].valid
  PROVE  /\ RemoveOutEdge(ns, e) \in Tables
         /\ OutHeld(RemoveOutEdge(ns, e), L \ {e})
         /\ SameIn(ns, RemoveOutEdge(ns, e))
  <1> DEFINE s == edges[e].source
             d == ns[s].out_degree - 1
             list == Drop(ns[s].out, d, e)
             es == {x \in L : edges[x].source = s}
             r == [ns EXCEPT ![s].out = list, ![s].out_degree = d]
  <1>1. s \in NodeIdx /\ e \in es
    BY DEF Edges
  <1>2. Held(ns[s].out, ns[s].out_degree, es)
    BY <1>1 DEF OutHeld
  <1>3. Held(list, d, es \ {e}) /\ d \in Nat
    <2> HIDE DEF s, es
    <2> QED
      BY <1>1, <1>2, DropHeld
  <1>4. list \in List
    BY <1>3 DEF Held
  <1>5. RemoveOutEdge(ns, e) = r
    BY DEF RemoveOutEdge
  <1>6. es \ {e} = {x \in L \ {e} : edges[x].source = s}
    OBVIOUS
  <1>7. \A m \in NodeIdx \ {s} :
          {x \in L : edges[x].source = m} = {x \in L \ {e} : edges[x].source = m}
    OBVIOUS
  <1> HIDE DEF s, d, list, es
  <1>8. /\ r \in Tables
        /\ \A m \in NodeIdx \ {s} : r[m] = ns[m]
        /\ r[s].out = list /\ r[s].out_degree = d
        /\ r[s].valid = ns[s].valid /\ r[s].in = ns[s].in /\ r[s].in_degree = ns[s].in_degree
    BY <1>1, <1>3, <1>4 DEF Tables, Node
  <1> HIDE DEF r
  <1>9. SameIn(ns, r)
    BY <1>1, <1>8 DEF SameIn
  <1>10. OutHeld(r, L \ {e})
    <2> SUFFICES ASSUME NEW m \in NodeIdx, r[m].valid
                 PROVE  Held(r[m].out, r[m].out_degree, {x \in L \ {e} : edges[x].source = m})
      BY DEF OutHeld
    <2>1. CASE m = s
      BY <1>3, <1>6, <1>8, <2>1
    <2>2. CASE m # s
      BY <1>7, <1>8, <2>2 DEF OutHeld
    <2> QED
      BY <2>1, <2>2
  <1> QED
    BY <1>5, <1>8, <1>9, <1>10

\* remove_in_edge takes the edge from its target's list and changes no other list.
LEMMA RemoveInHeld ==
  ASSUME edges \in Edges, NEW ns \in Tables, NEW L \in SUBSET EdgeIdx, InHeld(ns, L),
         NEW e \in L, ns[edges[e].target].valid
  PROVE  /\ RemoveInEdge(ns, e) \in Tables
         /\ InHeld(RemoveInEdge(ns, e), L \ {e})
         /\ SameOut(ns, RemoveInEdge(ns, e))
  <1> DEFINE s == edges[e].target
             d == ns[s].in_degree - 1
             list == Drop(ns[s].in, d, e)
             es == {x \in L : edges[x].target = s}
             r == [ns EXCEPT ![s].in = list, ![s].in_degree = d]
  <1>1. s \in NodeIdx /\ e \in es
    BY DEF Edges
  <1>2. Held(ns[s].in, ns[s].in_degree, es)
    BY <1>1 DEF InHeld
  <1>3. Held(list, d, es \ {e}) /\ d \in Nat
    <2> HIDE DEF s, es
    <2> QED
      BY <1>1, <1>2, DropHeld
  <1>4. list \in List
    BY <1>3 DEF Held
  <1>5. RemoveInEdge(ns, e) = r
    BY DEF RemoveInEdge
  <1>6. es \ {e} = {x \in L \ {e} : edges[x].target = s}
    OBVIOUS
  <1>7. \A m \in NodeIdx \ {s} :
          {x \in L : edges[x].target = m} = {x \in L \ {e} : edges[x].target = m}
    OBVIOUS
  <1> HIDE DEF s, d, list, es
  <1>8. /\ r \in Tables
        /\ \A m \in NodeIdx \ {s} : r[m] = ns[m]
        /\ r[s].in = list /\ r[s].in_degree = d
        /\ r[s].valid = ns[s].valid /\ r[s].out = ns[s].out /\ r[s].out_degree = ns[s].out_degree
    BY <1>1, <1>3, <1>4 DEF Tables, Node
  <1> HIDE DEF r
  <1>9. SameOut(ns, r)
    BY <1>1, <1>8 DEF SameOut
  <1>10. InHeld(r, L \ {e})
    <2> SUFFICES ASSUME NEW m \in NodeIdx, r[m].valid
                 PROVE  Held(r[m].in, r[m].in_degree, {x \in L \ {e} : edges[x].target = m})
      BY DEF InHeld
    <2>1. CASE m = s
      BY <1>3, <1>6, <1>8, <2>1
    <2>2. CASE m # s
      BY <1>7, <1>8, <2>2 DEF InHeld
    <2> QED
      BY <2>1, <2>2
  <1> QED
    BY <1>5, <1>8, <1>9, <1>10

\* The loop that removes the edges of a list from their sources' lists has a value for
\* every slot of the list.
LEMMA OutLoop ==
  ASSUME NEW ns, NEW list, NEW degree, Len(list.ptr) \in Nat
  PROVE  \E g : /\ RemoveOutEdges(ns, list, degree) = g[Len(list.ptr)]
                /\ g = [i \in 0 .. Len(list.ptr) |->
                          IF i = 0 THEN ns
                          ELSE IF i \in InUse(list, degree)
                               THEN RemoveOutEdge(g[i - 1], list.ptr[i])
                               ELSE g[i - 1]]
  <1> DEFINE U == InUse(list, degree)
             Is(g, m) == g = [i \in 0 .. m |->
                                IF i = 0 THEN ns
                                ELSE IF i \in U THEN RemoveOutEdge(g[i - 1], list.ptr[i])
                                ELSE g[i - 1]]
             Some(m) == \E g : Is(g, m)
             Bad == {m \in Nat : ~Some(m)}
  <1>1. Bad = {}
    <2> SUFFICES ASSUME Bad # {}
                 PROVE  FALSE
      OBVIOUS
    <2> DEFINE b == Min(Bad)
    <2>1. b \in Bad /\ \A y \in Bad : b <= y
      <3> Bad \subseteq Nat
        OBVIOUS
      <3> HIDE DEF Bad
      <3> QED
        BY MinLeast
    <2> HIDE DEF b
    <2>2. b # 0
      <3>1. Is([i \in 0 .. 0 |-> ns], 0)
        OBVIOUS
      <3> QED
        BY <2>1, <3>1
    <2>3. PICK a \in Nat : b = a + 1
      <3>1. b \in Nat
        BY <2>1
      <3> HIDE DEF Bad, Some, Is
      <3>2. b - 1 \in Nat /\ b = (b - 1) + 1
        BY <2>2, <3>1
      <3> QED
        BY <3>2
    <2>4. PICK g : Is(g, a)
      <3>1. ~(b <= a)
        BY <2>3
      <3> HIDE DEF Some
      <3>2. Some(a)
        BY <2>1, <3>1
      <3> QED
        BY <3>2 DEF Some
    <2> DEFINE last == IF b \in U THEN RemoveOutEdge(g[a], list.ptr[b]) ELSE g[a]
               h == [i \in 0 .. b |-> IF i = b THEN last ELSE g[i]]
    <2>5. ASSUME NEW i \in 0 .. b
          PROVE  h[i] = IF i = 0 THEN ns
                        ELSE IF i \in U THEN RemoveOutEdge(h[i - 1], list.ptr[i])
                        ELSE h[i - 1]
      <3>1. CASE i = b
        <4>1. i - 1 = a /\ i # 0 /\ a \in 0 .. b /\ a # b
          BY <2>3, <3>1
        <4> HIDE DEF last
        <4>2. h[i] = last /\ h[i - 1] = g[a]
          BY <3>1, <4>1
        <4> QED
          BY <3>1, <4>1, <4>2 DEF last
      <3>2. CASE i # b
        <4>1. i \in 0 .. a
          BY <2>3, <3>2
        <4>2. g[i] = IF i = 0 THEN ns
                     ELSE IF i \in U THEN RemoveOutEdge(g[i - 1], list.ptr[i])
                     ELSE g[i - 1]
          BY <2>4, <4>1
        <4>3. i # 0 => i - 1 \in 0 .. b /\ i - 1 # b
          BY <2>3, <4>1
        <4> HIDE DEF last
        <4>4. h[i] = g[i] /\ (i # 0 => h[i - 1] = g[i - 1])
          BY <3>2, <4>3
        <4> QED
          BY <4>2, <4>4
      <3> QED
        BY <3>1, <3>2
    <2>6. h = [i \in 0 .. b |-> h[i]]
      OBVIOUS
    <2> HIDE DEF h
    <2>7. Is(h, b)
      BY <2>5, <2>6
    <2> QED
      BY <2>1, <2>7
  <1> DEFINE n == Len(list.ptr)
             after[i \in 0 .. n] ==
               IF i = 0 THEN ns
               ELSE IF i \in U THEN RemoveOutEdge(after[i - 1], list.ptr[i])
               ELSE after[i - 1]
  <1>2. RemoveOutEdges(ns, list, degree) = after[n]
    BY DEF RemoveOutEdges
  <1>3. \E g : Is(g, n)
    <2> HIDE DEF Some
    <2>1. Some(n)
      BY <1>1
    <2> QED
      BY <2>1 DEF Some
  <1>4. Is(after, n)
    BY <1>3, Zenon
  <1> QED
    BY <1>2, <1>4

\* The loop that removes the edges of a list from their targets' lists has a value for
\* every slot of the list.
LEMMA InLoop ==
  ASSUME NEW ns, NEW list, NEW degree, Len(list.ptr) \in Nat
  PROVE  \E g : /\ RemoveInEdges(ns, list, degree) = g[Len(list.ptr)]
                /\ g = [i \in 0 .. Len(list.ptr) |->
                          IF i = 0 THEN ns
                          ELSE IF i \in InUse(list, degree)
                               THEN RemoveInEdge(g[i - 1], list.ptr[i])
                               ELSE g[i - 1]]
  <1> DEFINE U == InUse(list, degree)
             Is(g, m) == g = [i \in 0 .. m |->
                                IF i = 0 THEN ns
                                ELSE IF i \in U THEN RemoveInEdge(g[i - 1], list.ptr[i])
                                ELSE g[i - 1]]
             Some(m) == \E g : Is(g, m)
             Bad == {m \in Nat : ~Some(m)}
  <1>1. Bad = {}
    <2> SUFFICES ASSUME Bad # {}
                 PROVE  FALSE
      OBVIOUS
    <2> DEFINE b == Min(Bad)
    <2>1. b \in Bad /\ \A y \in Bad : b <= y
      <3> Bad \subseteq Nat
        OBVIOUS
      <3> HIDE DEF Bad
      <3> QED
        BY MinLeast
    <2> HIDE DEF b
    <2>2. b # 0
      <3>1. Is([i \in 0 .. 0 |-> ns], 0)
        OBVIOUS
      <3> QED
        BY <2>1, <3>1
    <2>3. PICK a \in Nat : b = a + 1
      <3>1. b \in Nat
        BY <2>1
      <3> HIDE DEF Bad, Some, Is
      <3>2. b - 1 \in Nat /\ b = (b - 1) + 1
        BY <2>2, <3>1
      <3> QED
        BY <3>2
    <2>4. PICK g : Is(g, a)
      <3>1. ~(b <= a)
        BY <2>3
      <3> HIDE DEF Some
      <3>2. Some(a)
        BY <2>1, <3>1
      <3> QED
        BY <3>2 DEF Some
    <2> DEFINE last == IF b \in U THEN RemoveInEdge(g[a], list.ptr[b]) ELSE g[a]
               h == [i \in 0 .. b |-> IF i = b THEN last ELSE g[i]]
    <2>5. ASSUME NEW i \in 0 .. b
          PROVE  h[i] = IF i = 0 THEN ns
                        ELSE IF i \in U THEN RemoveInEdge(h[i - 1], list.ptr[i])
                        ELSE h[i - 1]
      <3>1. CASE i = b
        <4>1. i - 1 = a /\ i # 0 /\ a \in 0 .. b /\ a # b
          BY <2>3, <3>1
        <4> HIDE DEF last
        <4>2. h[i] = last /\ h[i - 1] = g[a]
          BY <3>1, <4>1
        <4> QED
          BY <3>1, <4>1, <4>2 DEF last
      <3>2. CASE i # b
        <4>1. i \in 0 .. a
          BY <2>3, <3>2
        <4>2. g[i] = IF i = 0 THEN ns
                     ELSE IF i \in U THEN RemoveInEdge(g[i - 1], list.ptr[i])
                     ELSE g[i - 1]
          BY <2>4, <4>1
        <4>3. i # 0 => i - 1 \in 0 .. b /\ i - 1 # b
          BY <2>3, <4>1
        <4> HIDE DEF last
        <4>4. h[i] = g[i] /\ (i # 0 => h[i - 1] = g[i - 1])
          BY <3>2, <4>3
        <4> QED
          BY <4>2, <4>4
      <3> QED
        BY <3>1, <3>2
    <2>6. h = [i \in 0 .. b |-> h[i]]
      OBVIOUS
    <2> HIDE DEF h
    <2>7. Is(h, b)
      BY <2>5, <2>6
    <2> QED
      BY <2>1, <2>7
  <1> DEFINE n == Len(list.ptr)
             after[i \in 0 .. n] ==
               IF i = 0 THEN ns
               ELSE IF i \in U THEN RemoveInEdge(after[i - 1], list.ptr[i])
               ELSE after[i - 1]
  <1>2. RemoveInEdges(ns, list, degree) = after[n]
    BY DEF RemoveInEdges
  <1>3. \E g : Is(g, n)
    <2> HIDE DEF Some
    <2>1. Some(n)
      BY <1>1
    <2> QED
      BY <2>1 DEF Some
  <1>4. Is(after, n)
    BY <1>3, Zenon
  <1> QED
    BY <1>2, <1>4

\* The slots of a list that are in use are slots of it.
LEMMA InUseSlots ==
  ASSUME NEW list, NEW d, NEW es, Held(list, d, es)
  PROVE  InUse(list, d) \subseteq 1 .. Len(list.ptr)
  <1>1. PICK n \in Nat : n = Len(list.ptr)
    BY HeldFacts
  <1>2. /\ d \in Nat
        /\ d <= Direct => n = Direct
        /\ d > Direct => list.used = d /\ d <= n
    BY <1>1, HeldFacts
  <1>3. CASE d > Direct
    BY <1>1, <1>2, <1>3 DEF InUse
  <1>4. CASE ~(d > Direct)
    <2>1. n = Direct
      BY <1>2, <1>4, GraphFacts
    <2> QED
      BY <1>1, <1>4, <2>1 DEF InUse
  <1> QED
    BY <1>3, <1>4

\* The loop of rs_graph_delete_node over the edges into the node: each leaves its source's
\* list, and nothing else changes.
LEMMA RemoveOutEdgesHeld ==
  ASSUME edges \in Edges, NEW ns \in Tables, NEW L \in SUBSET EdgeIdx, OutHeld(ns, L),
         \A e \in L : ns[edges[e].source].valid,
         NEW list, NEW d, NEW es \in SUBSET L, Held(list, d, es)
  PROVE  /\ RemoveOutEdges(ns, list, d) \in Tables
         /\ OutHeld(RemoveOutEdges(ns, list, d), L \ es)
         /\ SameIn(ns, RemoveOutEdges(ns, list, d))
  <1>1. PICK n \in Nat : n = Len(list.ptr)
    BY HeldFacts
  <1> DEFINE U == InUse(list, d)
             q == list.ptr
             Gone(i) == {x \in es : \E j \in U : j <= i /\ q[j] = x}
  <1>2. /\ U \subseteq 1 .. n
        /\ \A i, j \in U : q[i] = q[j] => i = j
        /\ \A x : x \in es <=> \E i \in U : q[i] = x
    BY <1>1, HeldFacts, InUseSlots
  <1>3. PICK g : /\ RemoveOutEdges(ns, list, d) = g[Len(list.ptr)]
                 /\ g = [i \in 0 .. Len(list.ptr) |->
                           IF i = 0 THEN ns
                           ELSE IF i \in InUse(list, d)
                                THEN RemoveOutEdge(g[i - 1], list.ptr[i])
                                ELSE g[i - 1]]
    <2>1. Len(list.ptr) \in Nat
      BY <1>1
    <2> QED
      BY <2>1, OutLoop
  <1> DEFINE Ok(i) == /\ g[i] \in Tables
                      /\ OutHeld(g[i], L \ Gone(i))
                      /\ SameIn(ns, g[i])
             Bad == {i \in 0 .. n : ~Ok(i)}
  <1> HIDE DEF U, q
  <1>4. g[0] = ns
    BY <1>1, <1>3
  <1>5. \A i \in 1 .. n :
          g[i] = IF i \in U THEN RemoveOutEdge(g[i - 1], q[i]) ELSE g[i - 1]
    <2>1. \A i \in 1 .. n : i \in 0 .. n /\ i # 0
      OBVIOUS
    <2>2. g = [i \in 0 .. n |->
                 IF i = 0 THEN ns
                 ELSE IF i \in U THEN RemoveOutEdge(g[i - 1], q[i]) ELSE g[i - 1]]
      BY <1>1, <1>3 DEF U, q
    <2>3. \A i \in 0 .. n :
            g[i] = IF i = 0 THEN ns
                   ELSE IF i \in U THEN RemoveOutEdge(g[i - 1], q[i]) ELSE g[i - 1]
      BY <2>2, Zenon
    <2> QED
      BY <2>1, <2>3
  <1>6. Ok(0)
    <2>1. Gone(0) = {}
      BY <1>2
    <2>2. L \ Gone(0) = L
      BY <2>1
    <2>3. SameIn(ns, ns)
      BY DEF SameIn
    <2> QED
      BY <1>4, <2>2, <2>3
  <1>7. ASSUME NEW i \in 1 .. n, Ok(i - 1)
        PROVE  Ok(i)
    <2>1. /\ i \in Nat /\ i - 1 \in Nat
          /\ \A j \in U : j <= i <=> j <= i - 1 \/ j = i
      BY <1>2
    <2> DEFINE h == g[i - 1]
               L1 == L \ Gone(i - 1)
    <2>2. h \in Tables /\ OutHeld(h, L1) /\ SameIn(ns, h)
      BY <1>7
    <2>3. CASE i \in U
      <3>1. q[i] \in es
        BY <1>2, <2>3
      <3>2. q[i] \notin Gone(i - 1)
        <4>1. ~(i <= i - 1)
          BY <2>1
        <4> QED
          BY <1>2, <2>3, <4>1
      <3>3. q[i] \in L1 /\ L1 \in SUBSET EdgeIdx
        BY <3>1, <3>2
      <3>4. h[edges[q[i]].source].valid
        <4>1. edges[q[i]].source \in NodeIdx /\ ns[edges[q[i]].source].valid
          BY <3>1 DEF Edges
        <4> QED
          BY <2>2, <4>1 DEF SameIn
      <3>5. L1 \ {q[i]} = L \ Gone(i)
        BY <2>1, <2>3, <3>1
      <3>6. g[i] = RemoveOutEdge(h, q[i])
        BY <1>5, <2>3
      <3> HIDE DEF h, L1
      <3>7. /\ RemoveOutEdge(h, q[i]) \in Tables
            /\ OutHeld(RemoveOutEdge(h, q[i]), L1 \ {q[i]})
            /\ SameIn(h, RemoveOutEdge(h, q[i]))
        BY <2>2, <3>3, <3>4, RemoveOutHeld
      <3>8. SameIn(ns, RemoveOutEdge(h, q[i]))
        BY <2>2, <3>7 DEF SameIn
      <3> QED
        BY <3>5, <3>6, <3>7, <3>8
    <2>4. CASE i \notin U
      <3>1. Gone(i) = Gone(i - 1)
        BY <2>1, <2>4
      <3>2. g[i] = h
        BY <1>5, <2>4
      <3> QED
        BY <2>2, <3>1, <3>2
    <2> QED
      BY <2>3, <2>4
  <1>8. Bad = {}
    <2> SUFFICES ASSUME Bad # {}
                 PROVE  FALSE
      OBVIOUS
    <2> DEFINE b == Min(Bad)
    <2>1. b \in Bad /\ \A y \in Bad : b <= y
      <3> Bad \subseteq Nat
        OBVIOUS
      <3> HIDE DEF Bad
      <3> QED
        BY MinLeast
    <2> HIDE DEF b, Ok
    <2>2. b \in 1 .. n /\ b - 1 \in 0 .. n /\ ~(b <= b - 1)
      BY <1>6, <2>1
    <2>3. Ok(b - 1)
      BY <2>1, <2>2
    <2> QED
      BY <1>7, <2>1, <2>2, <2>3
  <1>9. Ok(n)
    <2> HIDE DEF Ok
    <2> QED
      BY <1>8
  <1>10. Gone(n) = es
    BY <1>2
  <1> QED
    BY <1>1, <1>3, <1>9, <1>10

\* The loop of rs_graph_delete_node over the edges out of the node: each leaves its target's
\* list, and nothing else changes.
LEMMA RemoveInEdgesHeld ==
  ASSUME edges \in Edges, NEW ns \in Tables, NEW L \in SUBSET EdgeIdx, InHeld(ns, L),
         \A e \in L : ns[edges[e].target].valid,
         NEW list, NEW d, NEW es \in SUBSET L, Held(list, d, es)
  PROVE  /\ RemoveInEdges(ns, list, d) \in Tables
         /\ InHeld(RemoveInEdges(ns, list, d), L \ es)
         /\ SameOut(ns, RemoveInEdges(ns, list, d))
  <1>1. PICK n \in Nat : n = Len(list.ptr)
    BY HeldFacts
  <1> DEFINE U == InUse(list, d)
             q == list.ptr
             Gone(i) == {x \in es : \E j \in U : j <= i /\ q[j] = x}
  <1>2. /\ U \subseteq 1 .. n
        /\ \A i, j \in U : q[i] = q[j] => i = j
        /\ \A x : x \in es <=> \E i \in U : q[i] = x
    BY <1>1, HeldFacts, InUseSlots
  <1>3. PICK g : /\ RemoveInEdges(ns, list, d) = g[Len(list.ptr)]
                 /\ g = [i \in 0 .. Len(list.ptr) |->
                           IF i = 0 THEN ns
                           ELSE IF i \in InUse(list, d)
                                THEN RemoveInEdge(g[i - 1], list.ptr[i])
                                ELSE g[i - 1]]
    <2>1. Len(list.ptr) \in Nat
      BY <1>1
    <2> QED
      BY <2>1, InLoop
  <1> DEFINE Ok(i) == /\ g[i] \in Tables
                      /\ InHeld(g[i], L \ Gone(i))
                      /\ SameOut(ns, g[i])
             Bad == {i \in 0 .. n : ~Ok(i)}
  <1> HIDE DEF U, q
  <1>4. g[0] = ns
    BY <1>1, <1>3
  <1>5. \A i \in 1 .. n :
          g[i] = IF i \in U THEN RemoveInEdge(g[i - 1], q[i]) ELSE g[i - 1]
    <2>1. \A i \in 1 .. n : i \in 0 .. n /\ i # 0
      OBVIOUS
    <2>2. g = [i \in 0 .. n |->
                 IF i = 0 THEN ns
                 ELSE IF i \in U THEN RemoveInEdge(g[i - 1], q[i]) ELSE g[i - 1]]
      BY <1>1, <1>3 DEF U, q
    <2>3. \A i \in 0 .. n :
            g[i] = IF i = 0 THEN ns
                   ELSE IF i \in U THEN RemoveInEdge(g[i - 1], q[i]) ELSE g[i - 1]
      BY <2>2, Zenon
    <2> QED
      BY <2>1, <2>3
  <1>6. Ok(0)
    <2>1. Gone(0) = {}
      BY <1>2
    <2>2. L \ Gone(0) = L
      BY <2>1
    <2>3. SameOut(ns, ns)
      BY DEF SameOut
    <2> QED
      BY <1>4, <2>2, <2>3
  <1>7. ASSUME NEW i \in 1 .. n, Ok(i - 1)
        PROVE  Ok(i)
    <2>1. /\ i \in Nat /\ i - 1 \in Nat
          /\ \A j \in U : j <= i <=> j <= i - 1 \/ j = i
      BY <1>2
    <2> DEFINE h == g[i - 1]
               L1 == L \ Gone(i - 1)
    <2>2. h \in Tables /\ InHeld(h, L1) /\ SameOut(ns, h)
      BY <1>7
    <2>3. CASE i \in U
      <3>1. q[i] \in es
        BY <1>2, <2>3
      <3>2. q[i] \notin Gone(i - 1)
        <4>1. ~(i <= i - 1)
          BY <2>1
        <4> QED
          BY <1>2, <2>3, <4>1
      <3>3. q[i] \in L1 /\ L1 \in SUBSET EdgeIdx
        BY <3>1, <3>2
      <3>4. h[edges[q[i]].target].valid
        <4>1. edges[q[i]].target \in NodeIdx /\ ns[edges[q[i]].target].valid
          BY <3>1 DEF Edges
        <4> QED
          BY <2>2, <4>1 DEF SameOut
      <3>5. L1 \ {q[i]} = L \ Gone(i)
        BY <2>1, <2>3, <3>1
      <3>6. g[i] = RemoveInEdge(h, q[i])
        BY <1>5, <2>3
      <3> HIDE DEF h, L1
      <3>7. /\ RemoveInEdge(h, q[i]) \in Tables
            /\ InHeld(RemoveInEdge(h, q[i]), L1 \ {q[i]})
            /\ SameOut(h, RemoveInEdge(h, q[i]))
        BY <2>2, <3>3, <3>4, RemoveInHeld
      <3>8. SameOut(ns, RemoveInEdge(h, q[i]))
        BY <2>2, <3>7 DEF SameOut
      <3> QED
        BY <3>5, <3>6, <3>7, <3>8
    <2>4. CASE i \notin U
      <3>1. Gone(i) = Gone(i - 1)
        BY <2>1, <2>4
      <3>2. g[i] = h
        BY <1>5, <2>4
      <3> QED
        BY <2>2, <3>1, <3>2
    <2> QED
      BY <2>3, <2>4
  <1>8. Bad = {}
    <2> SUFFICES ASSUME Bad # {}
                 PROVE  FALSE
      OBVIOUS
    <2> DEFINE b == Min(Bad)
    <2>1. b \in Bad /\ \A y \in Bad : b <= y
      <3> Bad \subseteq Nat
        OBVIOUS
      <3> HIDE DEF Bad
      <3> QED
        BY MinLeast
    <2> HIDE DEF b, Ok
    <2>2. b \in 1 .. n /\ b - 1 \in 0 .. n /\ ~(b <= b - 1)
      BY <1>6, <2>1
    <2>3. Ok(b - 1)
      BY <2>1, <2>2
    <2> QED
      BY <1>7, <2>1, <2>2, <2>3
  <1>9. Ok(n)
    <2> HIDE DEF Ok
    <2> QED
      BY <1>8
  <1>10. Gone(n) = es
    BY <1>2
  <1> QED
    BY <1>1, <1>3, <1>9, <1>10

-----------------------------------------------------------------------------
(* The steps of the graph.                                                 *)

\* A table in which one kind of list is the same holds the same edges there.
LEMMA KeepIn ==
  ASSUME NEW ns, NEW ns2, NEW L, InHeld(ns, L), SameIn(ns, ns2)
  PROVE  InHeld(ns2, L)
  BY DEF InHeld, SameIn

LEMMA KeepOut ==
  ASSUME NEW ns, NEW ns2, NEW L, OutHeld(ns, L), SameOut(ns, ns2)
  PROVE  OutHeld(ns2, L)
  BY DEF OutHeld, SameOut

\* A node table stays one when a node is replaced.
LEMMA SetNode ==
  ASSUME NEW ns \in Tables, NEW n \in NodeIdx, NEW node \in Node
  PROVE  /\ [ns EXCEPT ![n] = node] \in Tables
         /\ \A m \in NodeIdx : [ns EXCEPT ![n] = node][m] = IF m = n THEN node ELSE ns[m]
  BY DEF Tables

\* What the invariant says as long as nothing has gone wrong.
LEMMA InvFacts ==
  ASSUME IInv, fault = "none"
  PROVE  /\ nodes \in Tables /\ edges \in Edges /\ live \in SUBSET EdgeIdx
         /\ OutHeld(nodes, live) /\ InHeld(nodes, live)
         /\ \A e \in live : /\ e < edges_used
                            /\ nodes[edges[e].source].valid /\ nodes[edges[e].target].valid
         /\ \A n \in NodeIdx : n >= nodes_used => ~nodes[n].valid
  BY DEF IInv, TypeOK, GraphInv, NoDanglingEdge, Tables, Edges

\* A new node is one of the table.
LEMMA FreshFacts ==
  /\ EmptyList \in List /\ FreshNode \in Node
  /\ [FreshNode EXCEPT !.valid = FALSE] \in Node /\ ~[FreshNode EXCEPT !.valid = FALSE].valid
  <1>1. EmptyList \in List
    BY EmptyHeld DEF Held
  <1> QED
    BY <1>1 DEF FreshNode, Node

\* The graph starts without a node.
LEMMA InitInv == Init => IInv
  <1> SUFFICES ASSUME Init
               PROVE  IInv
    OBVIOUS
  <1> DEFINE none == [FreshNode EXCEPT !.valid = FALSE]
  <1>1. none \in Node /\ ~none.valid
    BY FreshFacts
  <1> HIDE DEF none
  <1>2. nodes = [n \in NodeIdx |-> none]
    BY DEF Init, none
  <1>3. 0 \in NodeIdx /\ 0 \in 0 .. MaxNodes /\ 0 \in 0 .. MaxEdges
    BY GraphFacts DEF NodeIdx
  <1>4. \A n \in NodeIdx : ~nodes[n].valid
    BY <1>1, <1>2
  <1>5. TypeOK
    BY <1>1, <1>2, <1>3 DEF Init, TypeOK
  <1>6. GraphInv
    BY <1>4 DEF Init, GraphInv, OutHeld, InHeld, NoDanglingEdge
  <1>7. FaultMarks
    BY DEF Init, FaultMarks
  <1> QED
    BY <1>5, <1>6, <1>7 DEF IInv

\* rs_graph_alloc_node makes a node of one that has no edges.
LEMMA AllocNodeStep ==
  ASSUME IInv, AllocNode
  PROVE  IInv'
  <1>1. fault = "none" /\ UNCHANGED <<edges, edges_used, live, fault>>
    BY DEF AllocNode
  <1>2. /\ nodes \in Tables /\ edges \in Edges /\ live \in SUBSET EdgeIdx
        /\ OutHeld(nodes, live) /\ InHeld(nodes, live)
        /\ \A e \in live : /\ e < edges_used
                           /\ nodes[edges[e].source].valid /\ nodes[edges[e].target].valid
        /\ \A n \in NodeIdx : n >= nodes_used => ~nodes[n].valid
    BY <1>1, InvFacts
  <1>3. nodes_used \in 0 .. MaxNodes /\ MaxNodes \in Nat
    BY GraphFacts DEF IInv, TypeOK
  <1>4. PICK n \in NodeIdx :
          /\ ~nodes[n].valid /\ nodes' = [nodes EXCEPT ![n] = FreshNode]
          /\ nodes_used' \in nodes_used .. MaxNodes /\ n < nodes_used'
    <2> DEFINE invalid == {n \in NodeIdx : ~nodes[n].valid}
    <2>1. CASE /\ nodes_used < MaxNodes
               /\ nodes' = [nodes EXCEPT ![nodes_used] = FreshNode]
               /\ nodes_used' = nodes_used + 1
      <3>1. nodes_used \in NodeIdx /\ ~nodes[nodes_used].valid
        BY <1>2, <1>3, <2>1 DEF NodeIdx
      <3>2. nodes_used' \in nodes_used .. MaxNodes /\ nodes_used < nodes_used'
        BY <1>3, <2>1
      <3>3. nodes' = [nodes EXCEPT ![nodes_used] = FreshNode]
        BY <2>1
      <3> QED
        BY <3>1, <3>2, <3>3, Zenon
    <2>2. CASE /\ nodes_used = MaxNodes /\ invalid # {}
               /\ nodes' = [nodes EXCEPT ![Min(invalid)] = FreshNode]
               /\ UNCHANGED nodes_used
      <3>1. invalid \subseteq Nat
        BY DEF NodeIdx
      <3>2. Min(invalid) \in invalid
        BY <2>2, <3>1, MinLeast
      <3>3. Min(invalid) \in NodeIdx /\ ~nodes[Min(invalid)].valid
        BY <3>2
      <3>4. Min(invalid) < nodes_used'
        BY <1>3, <2>2, <3>3 DEF NodeIdx
      <3>5. nodes' = [nodes EXCEPT ![Min(invalid)] = FreshNode]
        BY <2>2
      <3>6. nodes_used' \in nodes_used .. MaxNodes
        BY <1>3, <2>2
      <3> HIDE DEF invalid
      <3> QED
        BY <3>3, <3>4, <3>5, <3>6, Zenon
    <2> QED
      BY <2>1, <2>2 DEF AllocNode
  <1>5. /\ nodes' \in Tables
        /\ \A m \in NodeIdx : nodes'[m] = IF m = n THEN FreshNode ELSE nodes[m]
    <2>1. FreshNode \in Node
      BY FreshFacts
    <2> DEFINE r == [nodes EXCEPT ![n] = FreshNode]
    <2>2. /\ r \in Tables
          /\ \A m \in NodeIdx : r[m] = IF m = n THEN FreshNode ELSE nodes[m]
      BY <1>2, <2>1, SetNode
    <2>3. nodes' = r
      BY <1>4
    <2> HIDE DEF r
    <2> QED
      BY <2>2, <2>3
  <1>6. FreshNode.valid /\ Held(FreshNode.in, FreshNode.in_degree, {})
        /\ Held(FreshNode.out, FreshNode.out_degree, {})
    BY EmptyHeld DEF FreshNode
  <1>7. TypeOK'
    BY <1>1, <1>3, <1>4, <1>5 DEF IInv, TypeOK, Tables
  <1>8. \A e \in live : edges[e].source # n /\ edges[e].target # n
    BY <1>2, <1>4
  <1>9. OutHeld(nodes', live) /\ InHeld(nodes', live)
    <2>1. {e \in live : edges[e].source = n} = {} /\ {e \in live : edges[e].target = n} = {}
      BY <1>8
    <2>2. ASSUME NEW m \in NodeIdx, nodes'[m].valid
          PROVE  /\ Held(nodes'[m].out, nodes'[m].out_degree, {e \in live : edges[e].source = m})
                 /\ Held(nodes'[m].in, nodes'[m].in_degree, {e \in live : edges[e].target = m})
      <3>1. CASE m = n
        BY <1>5, <1>6, <2>1, <3>1
      <3>2. CASE m # n
        <4>1. nodes'[m] = nodes[m]
          BY <1>5, <3>2
        <4> QED
          BY <1>2, <2>2, <4>1 DEF OutHeld, InHeld
      <3> QED
        BY <3>1, <3>2
    <2> QED
      BY <2>2 DEF OutHeld, InHeld
  <1>10. \A e \in live : nodes'[edges[e].source].valid /\ nodes'[edges[e].target].valid
    BY <1>2, <1>5, <1>8 DEF Edges
  <1>11. \A m \in NodeIdx : m >= nodes_used' => ~nodes'[m].valid
    <2> SUFFICES ASSUME NEW m \in NodeIdx, m >= nodes_used'
                 PROVE  ~nodes'[m].valid
      OBVIOUS
    <2>1. m # n /\ m >= nodes_used
      BY <1>3, <1>4 DEF NodeIdx
    <2> QED
      BY <1>2, <1>5, <2>1
  <1>12. GraphInv'
    BY <1>1, <1>2, <1>9, <1>10, <1>11 DEF GraphInv, OutHeld, InHeld, NoDanglingEdge
  <1>13. FaultMarks'
    BY <1>1 DEF FaultMarks
  <1> QED
    BY <1>7, <1>12, <1>13 DEF IInv

\* The invariant after a step that deletes edges: the remaining ones are in their lists and
\* no node that one of them joins has gone.
LEMMA AfterDelete ==
  ASSUME IInv, fault = "none", UNCHANGED <<nodes_used, edges, edges_used, fault>>,
         nodes' \in Tables, live' \subseteq live, OutHeld(nodes', live'), InHeld(nodes', live'),
         \A m \in NodeIdx : nodes'[m].valid => nodes[m].valid,
         \A e \in live' : nodes'[edges[e].source].valid /\ nodes'[edges[e].target].valid
  PROVE  IInv'
  <1>1. /\ \A e \in live : e < edges_used
        /\ \A n \in NodeIdx : n >= nodes_used => ~nodes[n].valid
    BY InvFacts
  <1>2. TypeOK'
    BY DEF IInv, TypeOK, Tables
  <1>3. GraphInv'
    BY <1>1 DEF GraphInv, OutHeld, InHeld, NoDanglingEdge
  <1>4. FaultMarks'
    BY DEF FaultMarks
  <1> QED
    BY <1>2, <1>3, <1>4 DEF IInv

\* rs_graph_delete_edge
LEMMA DeleteEdgeStep ==
  ASSUME IInv, NEW e \in EdgeIdx, DeleteEdge(e)
  PROVE  IInv'
  <1> DEFINE ns1 == RemoveInEdge(nodes, e)
             ns2 == RemoveOutEdge(ns1, e)
  <1>1. /\ fault = "none" /\ e \in live /\ nodes' = ns2 /\ live' = live \ {e}
        /\ UNCHANGED <<nodes_used, edges, edges_used, fault>>
    BY DEF DeleteEdge
  <1>2. /\ nodes \in Tables /\ edges \in Edges /\ live \in SUBSET EdgeIdx
        /\ OutHeld(nodes, live) /\ InHeld(nodes, live)
        /\ \A x \in live : nodes[edges[x].source].valid /\ nodes[edges[x].target].valid
    BY <1>1, InvFacts
  <1>3. \A x \in live : edges[x].source \in NodeIdx /\ edges[x].target \in NodeIdx
    BY <1>2 DEF Edges
  <1>4. ns1 \in Tables /\ InHeld(ns1, live \ {e}) /\ SameOut(nodes, ns1)
    BY <1>1, <1>2, RemoveInHeld
  <1> HIDE DEF ns1
  <1>5. OutHeld(ns1, live)
    BY <1>2, <1>4, KeepOut
  <1>6. ns1[edges[e].source].valid
    BY <1>1, <1>2, <1>3, <1>4 DEF SameOut
  <1>7. ns2 \in Tables /\ OutHeld(ns2, live \ {e}) /\ SameIn(ns1, ns2)
    BY <1>1, <1>2, <1>4, <1>5, <1>6, RemoveOutHeld
  <1> HIDE DEF ns2
  <1>8. InHeld(ns2, live \ {e})
    BY <1>4, <1>7, KeepIn
  <1>9. \A m \in NodeIdx : ns2[m].valid = nodes[m].valid
    BY <1>4, <1>7 DEF SameIn, SameOut
  <1> QED
    BY <1>1, <1>2, <1>3, <1>7, <1>8, <1>9, AfterDelete

\* rs_graph_delete_node
LEMMA DeleteNodeStep ==
  ASSUME IInv, NEW n \in NodeIdx, DeleteNode(n)
  PROVE  IInv'
  <1> DEFINE ns1 == RemoveOutEdges(nodes, nodes[n].in, nodes[n].in_degree)
             ns2 == RemoveInEdges(ns1, ns1[n].out, ns1[n].out_degree)
             into == {x \in live : edges[x].target = n}
             rest == live \ into
             out == {x \in rest : edges[x].source = n}
  <1>1. /\ fault = "none" /\ nodes[n].valid /\ nodes' = [ns2 EXCEPT ![n].valid = FALSE]
        /\ live' = live \ {x \in live : n \in {edges[x].source, edges[x].target}}
        /\ UNCHANGED <<nodes_used, edges, edges_used, fault>>
    BY DEF DeleteNode
  <1>2. /\ nodes \in Tables /\ edges \in Edges /\ live \in SUBSET EdgeIdx
        /\ OutHeld(nodes, live) /\ InHeld(nodes, live)
        /\ \A x \in live : nodes[edges[x].source].valid /\ nodes[edges[x].target].valid
    BY <1>1, InvFacts
  <1>3. \A x \in live : edges[x].source \in NodeIdx /\ edges[x].target \in NodeIdx
    BY <1>2 DEF Edges
  <1>4. Held(nodes[n].in, nodes[n].in_degree, into) /\ into \in SUBSET live
    BY <1>1, <1>2 DEF InHeld
  <1>5. /\ \A x \in live' : /\ x \in live /\ edges[x].source # n /\ edges[x].target # n
        /\ \A m \in NodeIdx \ {n} :
             /\ {x \in live' : edges[x].target = m} = {x \in live \ out : edges[x].target = m}
             /\ {x \in live' : edges[x].source = m} = {x \in rest : edges[x].source = m}
    BY <1>1
  <1>6. rest \in SUBSET live /\ out \in SUBSET live
    OBVIOUS
  <1>7. ns1 \in Tables /\ OutHeld(ns1, rest) /\ SameIn(nodes, ns1)
    <2> HIDE DEF into
    <2> QED
      BY <1>2, <1>4, RemoveOutEdgesHeld
  <1> HIDE DEF ns1, into
  <1>8. InHeld(ns1, live)
    BY <1>2, <1>7, KeepIn
  <1>9. Held(ns1[n].out, ns1[n].out_degree, out)
    <2>1. ns1[n].valid
      BY <1>1, <1>7 DEF SameIn
    <2> QED
      BY <1>7, <2>1 DEF OutHeld
  <1>10. \A x \in live : ns1[edges[x].target].valid
    BY <1>2, <1>3, <1>7 DEF SameIn
  <1> HIDE DEF rest, out
  <1>11. ns2 \in Tables /\ InHeld(ns2, live \ out) /\ SameOut(ns1, ns2)
    BY <1>2, <1>6, <1>7, <1>8, <1>9, <1>10, RemoveInEdgesHeld
  <1> HIDE DEF ns2
  <1>12. OutHeld(ns2, rest)
    BY <1>7, <1>11, KeepOut
  <1>13. \A m \in NodeIdx : ns2[m].valid = nodes[m].valid
    BY <1>7, <1>11 DEF SameIn, SameOut
  <1>14. /\ nodes' \in Tables /\ ~nodes'[n].valid
         /\ \A m \in NodeIdx \ {n} : nodes'[m] = ns2[m]
    BY <1>1, <1>11 DEF Tables, Node
  <1>15. OutHeld(nodes', live') /\ InHeld(nodes', live')
    BY <1>5, <1>11, <1>12, <1>14 DEF OutHeld, InHeld
  <1>16. \A m \in NodeIdx : nodes'[m].valid => nodes[m].valid
    BY <1>13, <1>14
  <1>17. \A x \in live' : nodes'[edges[x].source].valid /\ nodes'[edges[x].target].valid
    BY <1>2, <1>3, <1>5, <1>13, <1>14
  <1> QED
    BY <1>1, <1>5, <1>14, <1>15, <1>16, <1>17, AfterDelete

\* The edge that rs_graph_alloc_edge hands out, and the count of those handed out.
LEMMA AllocatedFacts ==
  ASSUME TypeOK, edges_used' = IF edges_used = MaxEdges THEN edges_used ELSE edges_used + 1
  PROVE  /\ AllocatedEdge \in EdgeIdx /\ edges_used' \in 0 .. MaxEdges
         /\ AllocatedEdge < edges_used' /\ edges_used <= edges_used'
  <1>1. edges_used \in 0 .. MaxEdges /\ MaxEdges \in Nat /\ MaxEdges >= 1
    BY GraphFacts DEF TypeOK
  <1>2. CASE edges_used = MaxEdges
    BY <1>1, <1>2 DEF AllocatedEdge, EdgeIdx
  <1>3. CASE edges_used # MaxEdges
    BY <1>1, <1>3 DEF AllocatedEdge, EdgeIdx
  <1> QED
    BY <1>2, <1>3

\* rs_graph_add_edge: whatever the edge, the table stays one; an edge that no list holds
\* and that found a slot is in both lists.
LEMMA AddEdgeStep ==
  ASSUME IInv, NEW source \in NodeIdx, NEW target \in NodeIdx, AddEdge(source, target)
  PROVE  IInv'
  <1> DEFINE e == AllocatedEdge
             out == nodes[source].out
             d == nodes[source].out_degree
             in == nodes[target].in
             c == nodes[target].in_degree
             from == {x \in live : edges[x].source = source}
             into == {x \in live : edges[x].target = target}
             wraps == DegreeLimit - 1 \in {d, c}
  <1>1. /\ fault = "none" /\ nodes[source].valid /\ nodes[target].valid
        /\ edges_used' = IF edges_used = MaxEdges THEN edges_used ELSE edges_used + 1
        /\ edges' = [edges EXCEPT ![e] = [source |-> source, target |-> target]]
        /\ live' = live \union {e}
        /\ nodes_used' = nodes_used
    BY DEF AddEdge
  <1>2. /\ nodes \in Tables /\ edges \in Edges /\ live \in SUBSET EdgeIdx
        /\ OutHeld(nodes, live) /\ InHeld(nodes, live)
        /\ \A x \in live : /\ x < edges_used
                           /\ nodes[edges[x].source].valid /\ nodes[edges[x].target].valid
        /\ \A n \in NodeIdx : n >= nodes_used => ~nodes[n].valid
    BY <1>1, InvFacts
  <1>3. /\ e \in EdgeIdx /\ edges_used' \in 0 .. MaxEdges
        /\ e < edges_used' /\ edges_used <= edges_used'
    BY <1>1, AllocatedFacts DEF IInv
  <1>4. PICK junk \in SUBSET UnwrittenSlots(out, d) :
          LET ns == [nodes EXCEPT ![source].out = AddOut(out, d, e, junk),
                                  ![source].out_degree = PlusOne(d)]
          IN  /\ nodes' = [ns EXCEPT ![target].in = AddIn(@, ns[target].in_degree, e),
                                     ![target].in_degree = PlusOne(@)]
              /\ fault' = IF e \in live THEN "stolen_edge"
                          ELSE IF wraps THEN "wrapped_degree"
                          ELSE IF e \notin Entries(ns[source].out, d + 1)
                          THEN "lost_slot" ELSE "none"
    BY DEF AddEdge
  <1> DEFINE newOut == AddOut(out, d, e, junk)
             newIn == AddIn(in, c, e)
             ns == [nodes EXCEPT ![source].out = newOut, ![source].out_degree = PlusOne(d)]
  <1>5. Held(out, d, from) /\ Held(in, c, into)
    BY <1>1, <1>2 DEF OutHeld, InHeld
  <1>6. /\ newOut \in List /\ newIn \in List /\ d \in Nat /\ c \in Nat
        /\ PlusOne(d) \in Nat /\ PlusOne(c) \in Nat
        /\ ~wraps => PlusOne(d) = d + 1 /\ PlusOne(c) = c + 1
    <2>1. newOut \in List
      <3> HIDE DEF e, out, d, from
      <3> QED
        BY <1>3, <1>5, AddTypes
    <2>2. newIn \in List
      <3>1. {} \in SUBSET UnwrittenSlots(in, c)
        OBVIOUS
      <3> HIDE DEF e, in, c, into
      <3> QED
        BY <1>3, <1>5, <3>1, AddTypes
    <2>3. d \in Nat /\ c \in Nat
      BY <1>5 DEF Held
    <2>4. /\ PlusOne(d) \in Nat /\ PlusOne(c) \in Nat
          /\ ~wraps => PlusOne(d) = d + 1 /\ PlusOne(c) = c + 1
      <3> HIDE DEF d, c
      <3> QED
        BY <2>3 DEF PlusOne
    <2> QED
      BY <2>1, <2>2, <2>3, <2>4
  <1> HIDE DEF e, newOut, newIn
  <1>7. /\ ns \in Tables
        /\ \A m \in NodeIdx : /\ ns[m].valid = nodes[m].valid
                              /\ ns[m].in = nodes[m].in /\ ns[m].in_degree = nodes[m].in_degree
        /\ \A m \in NodeIdx \ {source} : ns[m] = nodes[m]
        /\ ns[source].out = newOut /\ ns[source].out_degree = PlusOne(d)
    <2> DEFINE old == nodes[source]
               new == [old EXCEPT !.out = newOut, !.out_degree = PlusOne(d)]
    <2>1. old \in Node /\ PlusOne(d) \in Nat
      BY <1>2, <1>6 DEF Tables
    <2>2. ns = [nodes EXCEPT ![source] = new]
      BY <1>2 DEF Tables
    <2> HIDE DEF d, old
    <2>3. /\ new \in Node /\ new.out = newOut /\ new.out_degree = PlusOne(d)
          /\ new.valid = old.valid /\ new.in = old.in /\ new.in_degree = old.in_degree
      BY <1>6, <2>1 DEF Node
    <2> HIDE DEF new
    <2>4. /\ [nodes EXCEPT ![source] = new] \in Tables
          /\ \A m \in NodeIdx :
               [nodes EXCEPT ![source] = new][m] = IF m = source THEN new ELSE nodes[m]
      BY <1>2, <2>3, SetNode
    <2> HIDE DEF ns
    <2>5. /\ ns \in Tables
          /\ \A m \in NodeIdx : ns[m] = IF m = source THEN new ELSE nodes[m]
      BY <2>2, <2>4
    <2> QED
      BY <2>3, <2>5 DEF old
  <1>8. /\ nodes' = [ns EXCEPT ![target].in = AddIn(ns[target].in, ns[target].in_degree, e),
                               ![target].in_degree = PlusOne(ns[target].in_degree)]
        /\ fault' = IF e \in live THEN "stolen_edge"
                    ELSE IF wraps THEN "wrapped_degree"
                    ELSE IF e \notin Entries(ns[source].out, d + 1)
                    THEN "lost_slot" ELSE "none"
    BY <1>4 DEF newOut
  <1> HIDE DEF ns
  <1>9. nodes' = [ns EXCEPT ![target].in = newIn, ![target].in_degree = PlusOne(c)]
    BY <1>7, <1>8 DEF newIn
  <1>10. /\ nodes' \in Tables
         /\ \A m \in NodeIdx : /\ nodes'[m].valid = ns[m].valid
                               /\ nodes'[m].out = ns[m].out
                               /\ nodes'[m].out_degree = ns[m].out_degree
         /\ \A m \in NodeIdx \ {target} : nodes'[m] = ns[m]
         /\ nodes'[target].in = newIn /\ nodes'[target].in_degree = PlusOne(c)
    BY <1>6, <1>7, <1>9 DEF Tables, Node
  <1>11. \A m \in NodeIdx : nodes'[m].valid = nodes[m].valid
    BY <1>7, <1>10
  <1>12. edges' \in Edges
    BY <1>1, <1>2, <1>3 DEF Edges
  <1>13. TypeOK'
    <2>1. nodes_used' \in 0 .. MaxNodes
      BY <1>1 DEF IInv, TypeOK
    <2>2. live' \subseteq EdgeIdx
      BY <1>1, <1>2, <1>3
    <2>3. fault' \in {"none", "stolen_edge", "wrapped_degree", "lost_slot"}
      BY <1>8
    <2> QED
      BY <1>3, <1>10, <1>12, <2>1, <2>2, <2>3 DEF TypeOK, Tables, Edges
  <1>14. ASSUME fault' = "none"
         PROVE  GraphInv'
    <2>1. e \notin live /\ ~wraps /\ e \in Entries(newOut, d + 1)
      BY <1>7, <1>8, <1>14
    <2>2. /\ edges'[e].source = source /\ edges'[e].target = target
          /\ \A x \in live : edges'[x] = edges[x]
      BY <1>1, <1>2, <1>3, <2>1 DEF Edges
    <2>3. Held(newOut, d + 1, from \union {e})
      <3>1. e \in EdgeIdx \ from /\ e \in Entries(AddOut(out, d, e, junk), d + 1)
        BY <1>3, <2>1 DEF newOut
      <3> HIDE DEF out, d, from
      <3> QED
        BY <1>5, <3>1, AddOutHeld DEF newOut
    <2>4. Held(newIn, c + 1, into \union {e})
      <3>1. e \in EdgeIdx \ into
        BY <1>3, <2>1
      <3> HIDE DEF in, c, into
      <3> QED
        BY <1>5, <3>1, AddInHeld DEF newIn
    <2>5. ASSUME NEW m \in NodeIdx, nodes'[m].valid
          PROVE  Held(nodes'[m].out, nodes'[m].out_degree, {x \in live' : edges'[x].source = m})
      <3>1. CASE m = source
        <4>1. {x \in live' : edges'[x].source = m} = from \union {e}
          BY <1>1, <2>2, <3>1
        <4>2. nodes'[m].out = newOut /\ nodes'[m].out_degree = d + 1
          BY <1>6, <1>7, <1>10, <2>1, <3>1
        <4> HIDE DEF from, d
        <4> QED
          BY <2>3, <4>1, <4>2
      <3>2. CASE m # source
        <4>1. {x \in live' : edges'[x].source = m} = {x \in live : edges[x].source = m}
          BY <1>1, <2>2, <3>2
        <4>2. nodes'[m].out = nodes[m].out /\ nodes'[m].out_degree = nodes[m].out_degree
          BY <1>7, <1>10, <3>2
        <4>3. Held(nodes[m].out, nodes[m].out_degree, {x \in live : edges[x].source = m})
          BY <1>2, <1>11, <2>5 DEF OutHeld
        <4> QED
          BY <4>1, <4>2, <4>3
      <3> QED
        BY <3>1, <3>2
    <2>6. ASSUME NEW m \in NodeIdx, nodes'[m].valid
          PROVE  Held(nodes'[m].in, nodes'[m].in_degree, {x \in live' : edges'[x].target = m})
      <3>1. CASE m = target
        <4>1. {x \in live' : edges'[x].target = m} = into \union {e}
          BY <1>1, <2>2, <3>1
        <4>2. nodes'[m].in = newIn /\ nodes'[m].in_degree = c + 1
          BY <1>6, <1>10, <2>1, <3>1
        <4> HIDE DEF into, c
        <4> QED
          BY <2>4, <4>1, <4>2
      <3>2. CASE m # target
        <4>1. {x \in live' : edges'[x].target = m} = {x \in live : edges[x].target = m}
          BY <1>1, <2>2, <3>2
        <4>2. nodes'[m].in = nodes[m].in /\ nodes'[m].in_degree = nodes[m].in_degree
          BY <1>7, <1>10, <3>2
        <4>3. Held(nodes[m].in, nodes[m].in_degree, {x \in live : edges[x].target = m})
          BY <1>2, <1>11, <2>6 DEF InHeld
        <4> QED
          BY <4>1, <4>2, <4>3
      <3> QED
        BY <3>1, <3>2
    <2>7. NoDanglingEdge'
      <3> SUFFICES ASSUME NEW x \in live'
                   PROVE  /\ x < edges_used'
                          /\ nodes'[edges'[x].source].valid /\ nodes'[edges'[x].target].valid
        BY DEF NoDanglingEdge
      <3>1. CASE x = e
        BY <1>1, <1>3, <1>11, <2>2, <3>1
      <3>2. CASE x # e
        <4>1. x \in live /\ edges'[x] = edges[x]
          BY <1>1, <2>2, <3>2
        <4>2. x \in Int /\ edges_used \in Int /\ edges_used' \in Int
          BY <1>2, <1>3, <4>1 DEF IInv, TypeOK, EdgeIdx
        <4>3. x < edges_used'
          BY <1>2, <1>3, <4>1, <4>2
        <4>4. edges[x].source \in NodeIdx /\ edges[x].target \in NodeIdx
          BY <1>2, <4>1 DEF Edges
        <4> QED
          BY <1>2, <1>11, <4>1, <4>3, <4>4
      <3> QED
        BY <3>1, <3>2
    <2>8. \A n \in NodeIdx : n >= nodes_used' => ~nodes'[n].valid
      BY <1>1, <1>2, <1>11
    <2>9. OutHeld(nodes, live)' /\ InHeld(nodes, live)'
      BY <2>5, <2>6 DEF OutHeld, InHeld
    <2> QED
      BY <2>7, <2>8, <2>9 DEF GraphInv
  <1>15. GraphInv'
    BY <1>14 DEF GraphInv
  <1>16. ASSUME fault' = "stolen_edge"
         PROVE  edges_used' = MaxEdges
    <2>1. e \in live
      BY <1>8, <1>16
    <2>2. e < edges_used
      BY <1>2, <2>1
    <2>3. edges_used = MaxEdges
      <3>1. edges_used \in Nat
        BY GraphFacts DEF IInv, TypeOK
      <3> QED
        BY <2>2, <3>1 DEF e, AllocatedEdge
    <2> QED
      BY <1>1, <2>3
  \* An edge that was not live before counts at both its ends.
  <1>17. ASSUME fault' \in {"wrapped_degree", "lost_slot"}
         PROVE  /\ e \notin live
                /\ Cardinality(EdgesOutOf(source)') = d + 1
                /\ Cardinality(EdgesInto(target)') = c + 1
    <2>1. e \notin live
      BY <1>8, <1>17
    <2>2. /\ edges'[e].source = source /\ edges'[e].target = target
          /\ \A x \in live : edges'[x] = edges[x]
      BY <1>1, <1>2, <1>3, <2>1 DEF Edges
    <2>3. EdgesOutOf(source)' = from \union {e} /\ EdgesInto(target)' = into \union {e}
      BY <1>1, <2>2 DEF EdgesOutOf, EdgesInto
    <2>4. /\ IsFiniteSet(from) /\ IsFiniteSet(into)
          /\ e \notin from /\ e \notin into
      BY <1>2, <2>1, GraphFacts, FS_Subset
    <2>5. Cardinality(from) = d /\ Cardinality(into) = c
      <3> HIDE DEF from, into, d, c
      <3> QED
        BY <1>5 DEF Held, Lists
    <2> HIDE DEF from, into, d, c
    <2> QED
      BY <2>1, <2>3, <2>4, <2>5, OneMore
  <1>18. ASSUME fault' = "wrapped_degree"
         PROVE  \E n \in NodeIdx : Crowded(n)'
    <2>1. wraps
      BY <1>8, <1>18
    <2>2. nodes'[source].valid /\ nodes'[target].valid
      BY <1>1, <1>11
    <2>3. /\ Cardinality(EdgesOutOf(source)') = d + 1
          /\ Cardinality(EdgesInto(target)') = c + 1
      BY <1>17, <1>18
    <2> HIDE DEF d, c
    <2>4. CASE d = DegreeLimit - 1
      <3>1. d + 1 > Direct + 1
        BY <1>6, <2>4, GraphFacts
      <3> QED
        BY <2>2, <2>3, <3>1 DEF Crowded
    <2>5. CASE c = DegreeLimit - 1
      <3>1. c + 1 >= DegreeLimit
        BY <1>6, <2>5, GraphFacts
      <3> QED
        BY <2>2, <2>3, <3>1 DEF Crowded
    <2> QED
      BY <2>1, <2>4, <2>5
  <1>19. ASSUME fault' = "lost_slot"
         PROVE  \E n \in NodeIdx : Crowded(n)'
    <2>1. e \in EdgeIdx \ from /\ e \notin Entries(newOut, d + 1)
      BY <1>3, <1>7, <1>8, <1>19
    <2>2. d > Direct
      <3> SUFFICES ASSUME ~(d > Direct)
                   PROVE  FALSE
        OBVIOUS
      <3>1. d <= Direct
        BY <1>6, GraphFacts
      <3> HIDE DEF out, d, from
      <3>2. AddOut(out, d, e, junk) = AddIn(out, d, e)
        BY <1>6, <3>1, GraphFacts DEF AddOut, AddIn
      <3>3. Held(newOut, d + 1, from \union {e})
        BY <1>5, <2>1, <3>2, AddInHeld DEF newOut
      <3>4. e \in Entries(newOut, d + 1)
        BY <3>3 DEF Held, Lists
      <3> QED
        BY <2>1, <3>4
    <2>3. nodes'[source].valid /\ Cardinality(EdgesOutOf(source)') = d + 1
      BY <1>1, <1>11, <1>17, <1>19
    <2> HIDE DEF d
    <2>4. d + 1 > Direct + 1
      BY <1>6, <2>2, GraphFacts
    <2> QED
      BY <2>3, <2>4 DEF Crowded
  <1>20. FaultMarks'
    BY <1>16, <1>18, <1>19 DEF FaultMarks
  <1> QED
    BY <1>13, <1>15, <1>20 DEF IInv

-----------------------------------------------------------------------------
(* The theorems.                                                           *)

\* Every operation of graph.c keeps the lists, and the tables they are in.
THEOREM Inductive == Spec => []IInv
  <1>1. Init => IInv
    BY InitInv
  <1>2. IInv /\ [Next]_vars => IInv'
    <2> SUFFICES ASSUME IInv, [Next]_vars
                 PROVE  IInv'
      OBVIOUS
    <2>1. CASE AllocNode
      BY <2>1, AllocNodeStep
    <2>2. CASE \E s, t \in NodeIdx : AddEdge(s, t)
      BY <2>2, AddEdgeStep
    <2>3. CASE \E e \in EdgeIdx : DeleteEdge(e)
      BY <2>3, DeleteEdgeStep
    <2>4. CASE \E n \in NodeIdx : DeleteNode(n)
      BY <2>4, DeleteNodeStep
    <2>5. CASE UNCHANGED vars
      BY <2>5 DEF IInv, TypeOK, GraphInv, FaultMarks, Crowded, EdgesInto, EdgesOutOf, OutHeld,
                  InHeld, NoDanglingEdge, vars
    <2>6. CASE Corrupted
      BY <2>5, <2>6 DEF Corrupted
    <2> QED
      BY <2>1, <2>2, <2>3, <2>4, <2>5, <2>6 DEF Next
  <1> QED
    BY <1>1, <1>2, PTL DEF Spec

\* The node table, its lists and the pools' counters keep their shape, whichever edge the
\* pool hands out.
THEOREM TypeCorrect == Spec => []TypeOK
  <1>1. IInv => TypeOK
    BY DEF IInv
  <1> QED
    BY <1>1, Inductive, PTL

\* Within the limits none of the three faults has happened.
LEMMA SmallIsSound == IInv /\ WithinLimits => fault = "none"
  <1> SUFFICES ASSUME IInv, WithinLimits
               PROVE  fault = "none"
    OBVIOUS
  <1>1. fault # "stolen_edge"
    BY GraphFacts DEF IInv, FaultMarks, TypeOK, WithinLimits
  <1>2. fault \notin {"wrapped_degree", "lost_slot"}
    <2> SUFFICES ASSUME NEW n \in NodeIdx, Crowded(n)
                 PROVE  FALSE
      BY DEF IInv, FaultMarks
    <2>1. /\ EdgesOutOf(n) \subseteq EdgeIdx /\ EdgesInto(n) \subseteq EdgeIdx
      BY DEF IInv, TypeOK, EdgesOutOf, EdgesInto
    <2>2. Cardinality(EdgesOutOf(n)) \in Nat /\ Cardinality(EdgesInto(n)) \in Nat
      BY <2>1, GraphFacts, FS_Subset, FS_CardinalityType
    <2> QED
      BY <2>2, GraphFacts DEF WithinLimits, Crowded
  <1> QED
    BY <1>1, <1>2 DEF IInv, TypeOK

\* As long as no edge has been handed out twice, no degree has wrapped and no edge has missed
\* its slot, the lists of the valid nodes hold exactly the edges that were added and not
\* deleted, each once, and no edge leads to a deleted node; and a caller that does not use up the pool of
\* edges, gives no node more edges out of it than one beyond its direct slots and has fewer
\* edges lead into each than the degree can count meets none of these.
THEOREM StaysExact == Spec => []GraphExact
  <1>1. IInv => GraphExact
    BY SmallIsSound
    DEF IInv, GraphInv, OutHeld, InHeld, Held, GraphExact, ListsExact, EdgesInto, EdgesOutOf
  <1> QED
    BY <1>1, Inductive, PTL
=============================================================================

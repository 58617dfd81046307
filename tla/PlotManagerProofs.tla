-------------------------- MODULE PlotManagerProofs --------------------------
(***************************************************************************)
(* The plot manager keeps its two maps in agreement, its trust lists free  *)
(* of duplicates and its plots non-empty, for any names, users and limits, *)
(* and the spiral search finds the nearest free position for any radius.   *)
(*                                                                         *)
(* The invariant IInv is the conjunction of the four state properties: the *)
(* maps agree after a plot is created because its name and its position    *)
(* were both free, and a removal revokes a trust because the list has each *)
(* user at most once.  Of the search nothing is assumed about what is      *)
(* taken: a ring is exactly the positions at its distance (RingCovers,     *)
(* RingDistance), so a ring without a free index is full.                  *)
(***************************************************************************)
EXTENDS PlotManager, WellFoundedInduction, TLAPS

-----------------------------------------------------------------------------
(* The least and the greatest element; numbers of fixed width.             *)

\* A set of natural numbers that is not empty has a least element.
LEMMA MinLeast ==
  ASSUME NEW S, S \subseteq Nat, S # {}
  PROVE  Min(S) \in S /\ \A y \in S : Min(S) <= y
  <1> DEFINE R == OpToRel(<, Nat)
  <1>1. IsWellFoundedOn(R, Nat)
    BY NatLessThanWellFounded
  <1>2. \A x, y \in Nat : <<y, x>> \in R <=> y < x
    BY DEF OpToRel
  <1> HIDE DEF R
  <1>3. PICK x \in S : \A y \in S : <<y, x>> \notin R
    BY <1>1, WFMin
  <1>4. ASSUME NEW y \in S
        PROVE  x <= y
    <2>1. x \in Nat /\ y \in Nat /\ ~(y < x)
      BY <1>2, <1>3
    <2> QED
      BY <2>1
  <1> QED
    BY <1>4 DEF Min

\* The position of the highest bit is one of eight.
LEMMA CountBitsRange == \A n \in Nat : CountBits(n) \in 0 .. 7
  <1> SUFFICES ASSUME NEW n \in Nat PROVE CountBits(n) \in 0 .. 7
    OBVIOUS
  <1> DEFINE S == {0} \union {b \in 0 .. 7 : 2 ^ b <= n}
  <1>1. S \subseteq 0 .. 7 /\ 0 \in S
    OBVIOUS
  <1>3. CountBits(n) = Max(S)
    BY DEF CountBits
  <1> HIDE DEF S
  <1>2. \E x \in S : \A y \in S : x >= y
    <2>1. CASE 7 \in S
      BY <1>1, <2>1
    <2>2. CASE 7 \notin S /\ 6 \in S
      BY <1>1, <2>2
    <2>3. CASE 7 \notin S /\ 6 \notin S /\ 5 \in S
      BY <1>1, <2>3
    <2>4. CASE 7 \notin S /\ 6 \notin S /\ 5 \notin S /\ 4 \in S
      BY <1>1, <2>4
    <2>5. CASE 7 \notin S /\ 6 \notin S /\ 5 \notin S /\ 4 \notin S /\ 3 \in S
      BY <1>1, <2>5
    <2>6. CASE 7 \notin S /\ 6 \notin S /\ 5 \notin S /\ 4 \notin S /\ 3 \notin S
      BY <1>1, <2>6
    <2> QED
      BY <2>1, <2>2, <2>3, <2>4, <2>5, <2>6
  <1> QED
    BY <1>1, <1>2, <1>3 DEF Max

\* What a cast leaves is in the range of the narrower type.
LEMMA Narrow == \A v \in Int : ToInt16(v) \in Int /\ ToUint8(v) \in 0 .. 255
  BY DEF ToInt16, ToUint8

-----------------------------------------------------------------------------
(* The spiral search.                                                      *)

\* A ring is made of positions.
LEMMA RingPoints ==
  ASSUME NEW r \in Nat, NEW i \in DOMAIN Ring(r)
  PROVE  Ring(r)[i] \in Int \X Int
  <1>1. DOMAIN Ring(r) = 1 .. 8 * r
    BY DEF Ring
  <1>2. (i - 1) \div 4 \in Int /\ ((i - 1) % 4) + 1 \in 1 .. 4
    BY <1>1
  <1> QED
    BY <1>1, <1>2 DEF Ring

\* The position the search returns is free.
LEMMA FreePositionFree ==
  ASSUME HasFreePosition
  PROVE  FreePosition \in Int \X Int /\ FreePosition \notin DOMAIN world_positions
  <1> DEFINE r == Min(FreeRings)
             i == Min(FreeIn(r))
  <1>1. FreeRings \subseteq Nat
    BY DEF FreeRings
  <1>2. r \in FreeRings
    BY <1>1, MinLeast DEF HasFreePosition
  <1>3. r \in Nat /\ FreeIn(r) # {}
    BY <1>1, <1>2 DEF FreeRings
  <1> HIDE DEF r
  <1>4. FreeIn(r) \subseteq Nat
    BY <1>3 DEF FreeIn, Ring
  <1>5. i \in FreeIn(r)
    BY <1>3, <1>4, MinLeast
  <1>6. FreePosition = Ring(r)[i]
    BY DEF FreePosition, r
  <1> HIDE DEF i
  <1> QED
    BY <1>3, <1>5, <1>6, RingPoints DEF FreeIn

\* The four borders of a ring, by the step and the border the index stands for.
LEMMA RingAt ==
  ASSUME NEW r \in Nat, NEW step \in 0 .. 2 * r - 1
  PROVE  /\ {4 * step + 1, 4 * step + 2, 4 * step + 3, 4 * step + 4} \subseteq DOMAIN Ring(r)
         /\ Ring(r)[4 * step + 1] = <<r - step, r>>
         /\ Ring(r)[4 * step + 2] = <<-r, r - step>>
         /\ Ring(r)[4 * step + 3] = <<-r + step, -r>>
         /\ Ring(r)[4 * step + 4] = <<r, -r + step>>
  <1>1. DOMAIN Ring(r) = 1 .. 8 * r
    BY DEF Ring
  <1>2. /\ 4 * step + 1 \in 1 .. 8 * r /\ 4 * step + 2 \in 1 .. 8 * r
        /\ 4 * step + 3 \in 1 .. 8 * r /\ 4 * step + 4 \in 1 .. 8 * r
    OBVIOUS
  <1>3. /\ (4 * step + 1 - 1) \div 4 = step /\ (4 * step + 2 - 1) \div 4 = step
        /\ (4 * step + 3 - 1) \div 4 = step /\ (4 * step + 4 - 1) \div 4 = step
    OBVIOUS
  <1>4. /\ ((4 * step + 1 - 1) % 4) + 1 = 1 /\ ((4 * step + 2 - 1) % 4) + 1 = 2
        /\ ((4 * step + 3 - 1) % 4) + 1 = 3 /\ ((4 * step + 4 - 1) % 4) + 1 = 4
    OBVIOUS
  <1>5. Ring(r)[4 * step + 1] = <<r - step, r>>
    BY <1>2, <1>3, <1>4 DEF Ring
  <1>6. Ring(r)[4 * step + 2] = <<-r, r - step>>
    BY <1>2, <1>3, <1>4 DEF Ring
  <1>7. Ring(r)[4 * step + 3] = <<-r + step, -r>>
    BY <1>2, <1>3, <1>4 DEF Ring
  <1>8. Ring(r)[4 * step + 4] = <<r, -r + step>>
    BY <1>2, <1>3, <1>4 DEF Ring
  <1> QED
    BY <1>1, <1>2, <1>5, <1>6, <1>7, <1>8

\* Distance is the larger absolute coordinate.
LEMMA DistanceIs ==
  ASSUME NEW x \in Int, NEW z \in Int
  PROVE  /\ Distance(<<x, z>>) \in Nat
         /\ x <= Distance(<<x, z>>) /\ -x <= Distance(<<x, z>>)
         /\ z <= Distance(<<x, z>>) /\ -z <= Distance(<<x, z>>)
         /\ Distance(<<x, z>>) \in {x, -x, z, -z}
  <1> DEFINE S == {x, -x, z, -z}
  <1>1. Distance(<<x, z>>) = Max(S)
    BY DEF Distance
  <1>2. \E m \in S : \A y \in S : m >= y
    <2>1. CASE x >= z /\ x >= -z /\ x >= -x
      BY <2>1
    <2>2. CASE -x >= z /\ -x >= -z /\ -x >= x
      BY <2>2
    <2>3. CASE z >= x /\ z >= -x /\ z >= -z
      BY <2>3
    <2>4. CASE -z >= x /\ -z >= -x /\ -z >= z
      BY <2>4
    <2> QED
      BY <2>1, <2>2, <2>3, <2>4
  <1>3. Max(S) \in S /\ \A y \in S : Max(S) >= y
    <2> HIDE DEF S
    <2> QED
      BY <1>2 DEF Max
  <1> QED
    BY <1>1, <1>3

\* A ring has every position at its distance.
LEMMA RingCovers ==
  ASSUME NEW r \in Nat \ {0}, NEW x \in Int, NEW z \in Int, Distance(<<x, z>>) = r
  PROVE  \E i \in DOMAIN Ring(r) : Ring(r)[i] = <<x, z>>
  <1>1. -r <= x /\ x <= r /\ -r <= z /\ z <= r /\ (x = r \/ x = -r \/ z = r \/ z = -r)
    BY DistanceIs
  <1>2. CASE z = r /\ x # -r
    <2> DEFINE step == r - x
    <2>1. step \in 0 .. 2 * r - 1 /\ r - step = x
      BY <1>1, <1>2
    <2> HIDE DEF step
    <2>2. 4 * step + 1 \in DOMAIN Ring(r) /\ Ring(r)[4 * step + 1] = <<r - step, r>>
      BY <2>1, RingAt
    <2> QED
      BY <1>2, <2>1, <2>2
  <1>3. CASE x = -r /\ z # -r
    <2> DEFINE step == r - z
    <2>1. step \in 0 .. 2 * r - 1 /\ r - step = z
      BY <1>1, <1>3
    <2> HIDE DEF step
    <2>2. 4 * step + 2 \in DOMAIN Ring(r) /\ Ring(r)[4 * step + 2] = <<-r, r - step>>
      BY <2>1, RingAt
    <2> QED
      BY <1>3, <2>1, <2>2
  <1>4. CASE z = -r /\ x # r
    <2> DEFINE step == x + r
    <2>1. step \in 0 .. 2 * r - 1 /\ -r + step = x
      BY <1>1, <1>4
    <2> HIDE DEF step
    <2>2. 4 * step + 3 \in DOMAIN Ring(r) /\ Ring(r)[4 * step + 3] = <<-r + step, -r>>
      BY <2>1, RingAt
    <2> QED
      BY <1>4, <2>1, <2>2
  <1>5. CASE x = r /\ z # r
    <2> DEFINE step == z + r
    <2>1. step \in 0 .. 2 * r - 1 /\ -r + step = z
      BY <1>1, <1>5
    <2> HIDE DEF step
    <2>2. 4 * step + 4 \in DOMAIN Ring(r) /\ Ring(r)[4 * step + 4] = <<r, -r + step>>
      BY <2>1, RingAt
    <2> QED
      BY <1>5, <2>1, <2>2
  <1> QED
    BY <1>1, <1>2, <1>3, <1>4, <1>5

\* Below the smallest ring with a free position everything is taken.
LEMMA FullBelow ==
  ASSUME NEW d \in Int, d <= MaxRadius, \A r \in FreeRings : d < r,
         NEW x \in -d .. d, NEW z \in -d .. d, <<x, z>> # <<0, 0>>
  PROVE  <<x, z>> \in DOMAIN world_positions
  <1> DEFINE r == Distance(<<x, z>>)
  <1>1. r \in Nat /\ r <= d /\ r # 0
    <2>1. /\ r \in Nat /\ x <= r /\ -x <= r /\ z <= r /\ -z <= r
          /\ r \in {x, -x, z, -z}
      BY DistanceIs
    <2> HIDE DEF r
    <2> QED
      BY <2>1
  <1>2. PICK i \in DOMAIN Ring(r) : Ring(r)[i] = <<x, z>>
    BY <1>1, RingCovers
  <1> HIDE DEF r
  <1>3. r \in 1 .. MaxRadius /\ r \notin FreeRings
    BY <1>1, PlotAssumption
  <1>4. i \notin FreeIn(r)
    BY <1>3 DEF FreeRings
  <1> QED
    BY <1>2, <1>4 DEF FreeIn

\* A ring holds positions at its own distance only.
LEMMA RingDistance ==
  ASSUME NEW r \in Nat \ {0}, NEW i \in DOMAIN Ring(r)
  PROVE  Distance(Ring(r)[i]) = r
  <1> DEFINE step == (i - 1) \div 4
  <1>1. i \in 1 .. 8 * r
    BY DEF Ring
  <1>2. step \in 0 .. 2 * r - 1 /\ ((i - 1) % 4) + 1 \in 1 .. 4
    BY <1>1
  <1>3. Ring(r)[i] = << <<r - step, r>>, <<-r, r - step>>, <<-r + step, -r>>, <<r, -r + step>> >>
                       [((i - 1) % 4) + 1]
    BY <1>1 DEF Ring
  <1> HIDE DEF step
  <1>4. Ring(r)[i] \in {<<r - step, r>>, <<-r, r - step>>, <<-r + step, -r>>, <<r, -r + step>>}
    BY <1>2, <1>3
  <1>5. ASSUME NEW x \in Int, NEW z \in Int,
               -r <= x, x <= r, -r <= z, z <= r, x = r \/ x = -r \/ z = r \/ z = -r
        PROVE  Distance(<<x, z>>) = r
    <2> DEFINE D == Distance(<<x, z>>)
    <2>1. D \in Nat /\ x <= D /\ -x <= D /\ z <= D /\ -z <= D /\ D \in {x, -x, z, -z}
      BY DistanceIs
    <2> HIDE DEF D
    <2>2. D = r
      BY <1>5, <2>1
    <2> QED
      BY <2>2 DEF D
  <1>6. CASE Ring(r)[i] = <<r - step, r>>
    BY <1>2, <1>5, <1>6
  <1>7. CASE Ring(r)[i] = <<-r, r - step>>
    BY <1>2, <1>5, <1>7
  <1>8. CASE Ring(r)[i] = <<-r + step, -r>>
    BY <1>2, <1>5, <1>8
  <1>9. CASE Ring(r)[i] = <<r, -r + step>>
    BY <1>2, <1>5, <1>9
  <1> QED
    BY <1>4, <1>6, <1>7, <1>8, <1>9

\* In every state the search finds the nearest free position.
LEMMA SearchNearest == NearestFirst
  <1> DEFINE Full(d) == \A p \in (-d .. d) \X (-d .. d) :
                          p # <<0, 0>> => p \in DOMAIN world_positions
             first == Min(FreeRings)
             i == Min(FreeIn(first))
  <1>1. FreeRings \subseteq 1 .. MaxRadius /\ 1 .. MaxRadius \subseteq Nat
    BY PlotAssumption DEF FreeRings
  <1>2. CASE HasFreePosition
    <2>1. first \in FreeRings /\ \A r \in FreeRings : first <= r
      BY <1>1, <1>2, MinLeast DEF HasFreePosition
    <2>2. first \in 1 .. MaxRadius /\ FreeIn(first) # {}
      BY <1>1, <2>1 DEF FreeRings
    <2> HIDE DEF first
    <2>3. FreeIn(first) \subseteq Nat
      BY <2>2, PlotAssumption DEF FreeIn, Ring
    <2>4. i \in FreeIn(first)
      BY <2>2, <2>3, MinLeast
    <2>5. FreePosition = Ring(first)[i]
      BY DEF FreePosition, first
    <2> HIDE DEF i
    <2>6. i \in DOMAIN Ring(first) /\ FreePosition \notin DOMAIN world_positions
      BY <2>4, <2>5 DEF FreeIn
    <2>7. Distance(FreePosition) = first
      BY <2>2, <2>5, <2>6, RingDistance, PlotAssumption
    <2>8. Full(first - 1)
      <3>1. first - 1 \in Int /\ first - 1 <= MaxRadius /\ \A r \in FreeRings : first - 1 < r
        BY <1>1, <2>1, <2>2, PlotAssumption
      <3> QED
        BY <3>1, FullBelow
    <2>9. first # MaxRadius
      BY ONLY <1>2 DEF HasFreePosition, first
    <2>10. Distance(FreePosition) \in 1 .. MaxRadius - 1
      BY ONLY <2>2, <2>7, <2>9, PlotAssumption DEF PlotAssumption
    <2> QED
      BY ONLY <1>2, <2>6, <2>7, <2>8, <2>10 DEF NearestFirst
  <1>3. CASE ~HasFreePosition
    <2>1. ASSUME NEW r \in FreeRings
          PROVE  MaxRadius - 1 < r
      <3>1. first = MaxRadius /\ first <= r
        BY <1>1, <1>3, MinLeast DEF HasFreePosition
      <3>2. r \in Int /\ MaxRadius \in Int
        BY <1>1, PlotAssumption
      <3> QED
        BY <3>1, <3>2
    <2>2. Full(MaxRadius - 1)
      BY <2>1, FullBelow, PlotAssumption
    <2> QED
      BY <1>3, <2>2 DEF NearestFirst
  <1> QED
    BY <1>2, <1>3

\* NearestFirst holds always: a plot created without a position gets the
\* nearest free one short of the outermost ring, and is refused only when all rings but
\* that one are full.
THEOREM NearestFound == Spec => []NearestFirst
  BY SearchNearest, PTL

-----------------------------------------------------------------------------
(* The invariant and what each command does to it.                         *)

\* The inductive invariant.
IInv == TypeOK /\ Registered /\ TrustLists

\* A new plot under a free name at a free position keeps the invariant.
LEMMA RegisterStep ==
  ASSUME IInv, NEW n \in Name, n \notin DOMAIN plots,
         NEW pos \in Int \X Int, pos \notin DOMAIN world_positions,
         NEW size \in 1 .. 255, Register(n, pos, size)
  PROVE  IInv'
  <1> DEFINE new == NewPlot(pos, size)
  <1>1. /\ new \in Plot
        /\ new.virt_x = ToInt16(pos[1]) /\ new.virt_z = ToInt16(pos[2])
        /\ new.size = size /\ new.editors = <<>>
    <2>1. ToInt16(pos[1]) \in Int /\ ToInt16(pos[2]) \in Int /\ CountBits(size) \in 0 .. 7
      BY Narrow, CountBitsRange
    <2> QED
      BY <2>1 DEF NewPlot, Plot
  <1>2. plots' = Put(plots, n, new) /\ world_positions' = Put(world_positions, pos, n)
    BY DEF Register
  <1> HIDE DEF new
  <1>3. /\ DOMAIN plots' = DOMAIN plots \union {n}
        /\ plots'[n] = new
        /\ \A m \in DOMAIN plots : plots'[m] = plots[m]
    BY <1>2 DEF Put
  <1>4. /\ DOMAIN world_positions' = DOMAIN world_positions \union {pos}
        /\ world_positions'[pos] = n
        /\ \A p \in DOMAIN world_positions : world_positions'[p] = world_positions[p]
    BY <1>2 DEF Put
  <1>5. TypeOK'
    BY <1>1, <1>3, <1>4 DEF IInv, TypeOK
  <1>6. Registered'
    <2>1. ASSUME NEW m \in DOMAIN plots'
          PROVE  \E p \in DOMAIN world_positions' : world_positions'[p] = m
      BY <1>3, <1>4 DEF IInv, Registered
    <2>2. ASSUME NEW p \in DOMAIN world_positions', NEW q \in DOMAIN world_positions',
                 world_positions'[p] = world_positions'[q]
          PROVE  p = q
      BY <1>4, <2>2 DEF IInv, Registered
    <2>3. ASSUME NEW p \in DOMAIN world_positions'
          PROVE  /\ world_positions'[p] \in DOMAIN plots'
                 /\ plots'[world_positions'[p]].virt_x = ToInt16(p[1])
                 /\ plots'[world_positions'[p]].virt_z = ToInt16(p[2])
      <3>1. CASE p = pos
        BY <1>1, <1>3, <1>4, <3>1
      <3>2. CASE p # pos
        BY <1>3, <1>4, <3>2 DEF IInv, Registered
      <3> QED
        BY <3>1, <3>2
    <2> QED
      BY <2>1, <2>2, <2>3 DEF Registered
  <1>7. TrustLists'
    <2>1. Len(new.editors) = 0 /\ IsInjective(new.editors)
      BY <1>1 DEF IsInjective
    <2> QED
      BY <1>3, <2>1, PlotAssumption DEF IInv, TrustLists
  <1> QED
    BY <1>5, <1>6, <1>7 DEF IInv

\* So does a change of one plot that leaves its place and size alone and its
\* trust list within bounds.
LEMMA ConfigureStep ==
  ASSUME IInv, NEW n \in DOMAIN plots, NEW p \in Plot,
         p.virt_x = plots[n].virt_x, p.virt_z = plots[n].virt_z,
         p.size = plots[n].size,
         Len(p.editors) <= MaxTrusted, IsInjective(p.editors),
         plots' = [plots EXCEPT ![n] = p], UNCHANGED world_positions
  PROVE  IInv'
  <1>1. /\ DOMAIN plots' = DOMAIN plots
        /\ plots'[n] = p
        /\ \A m \in DOMAIN plots : m # n => plots'[m] = plots[m]
    OBVIOUS
  <1>2. TypeOK'
    BY <1>1 DEF IInv, TypeOK
  <1>3. Registered'
    <2>1. \A m \in DOMAIN plots :
            plots'[m].virt_x = plots[m].virt_x /\ plots'[m].virt_z = plots[m].virt_z
      BY <1>1
    <2> QED
      BY <1>1, <2>1 DEF IInv, Registered
  <1>4. TrustLists'
    BY <1>1 DEF IInv, TrustLists
  <1> QED
    BY <1>2, <1>3, <1>4 DEF IInv

\* The manager starts in the invariant: it has no plot.
THEOREM InitIInv == Init => IInv
  <1> SUFFICES ASSUME Init PROVE IInv
    OBVIOUS
  <1>1. DOMAIN plots = {} /\ DOMAIN world_positions = {}
    BY DEF Init
  <1> QED
    BY <1>1 DEF IInv, TypeOK, Registered, TrustLists

\* A size that is accepted is one to 255 blocks.
LEMMA SizeInRange ==
  ASSUME NEW arg \in SizeArg \union {NULL}, SizeAccepted(arg)
  PROVE  SizeOf(arg) \in 1 .. 255
  <1>1. CASE arg = NULL
    BY <1>1, PlotAssumption DEF SizeOf
  <1>2. CASE arg # NULL
    <2>1. arg \in Int /\ ToUint8(arg) # 0
      BY <1>2, PlotAssumption DEF SizeAccepted
    <2>2. ToUint8(arg) \in 0 .. 255
      BY <2>1, Narrow
    <2> QED
      BY <1>2, <2>1, <2>2 DEF SizeOf
  <1> QED
    BY <1>1, <1>2

\* Nothing that changes no variable breaks the invariant.
LEMMA Unchanged == ASSUME IInv, UNCHANGED vars PROVE IInv'
  BY DEF vars, IInv, TypeOK, Registered, TrustLists

\* plot new, in both forms, keeps the invariant.
LEMMA CreateStep ==
  ASSUME IInv, NEW n \in Name, Create(n, SizeArg \union {NULL})
  PROVE  IInv'
  <1>1. PICK size \in SizeArg \union {NULL} :
          PlotNew(n, size) \/ \E pos \in PosArg : PlotNewAt(n, size, pos)
    BY DEF Create
  <1>2. CASE PlotNew(n, size)
    <2>1. SizeOf(size) \in 1 .. 255 /\ NewFromName(n, SizeOf(size))
      BY <1>2, SizeInRange DEF PlotNew
    <2>2. CASE n \notin DOMAIN plots /\ HasFreePosition
      <3>1. Register(n, FreePosition, SizeOf(size))
        BY <2>1, <2>2 DEF NewFromName
      <3> QED
        BY <2>1, <2>2, <3>1, FreePositionFree, RegisterStep
    <2>3. CASE ~(n \notin DOMAIN plots /\ HasFreePosition)
      BY <2>1, <2>3, Unchanged DEF NewFromName
    <2> QED
      BY <2>2, <2>3
  <1>3. ASSUME NEW pos \in PosArg, PlotNewAt(n, size, pos)
        PROVE  IInv'
    <2>1. SizeOf(size) \in 1 .. 255 /\ NewFromPos(n, SizeOf(size), pos)
      BY <1>3, SizeInRange DEF PlotNewAt
    <2>2. CASE n \notin DOMAIN plots /\ pos \notin DOMAIN world_positions
      <3>1. Register(n, pos, SizeOf(size)) /\ pos \in Int \X Int
        BY <2>1, <2>2, PlotAssumption DEF NewFromPos
      <3> QED
        BY <2>1, <2>2, <3>1, RegisterStep
    <2>3. CASE ~(n \notin DOMAIN plots /\ pos \notin DOMAIN world_positions)
      BY <2>1, <2>3, Unchanged DEF NewFromPos
    <2> QED
      BY <2>2, <2>3
  <1> QED
    BY <1>1, <1>2, <1>3

\* Appending a user who is not in a list keeps it free of duplicates.
LEMMA AppendUser ==
  ASSUME NEW e \in Seq(Uuid), NEW u \in Uuid,
         IsInjective(e), Positions(e, u) = {}
  PROVE  /\ Append(e, u) \in Seq(Uuid)
         /\ Len(Append(e, u)) = Len(e) + 1
         /\ IsInjective(Append(e, u))
  <1> DEFINE a == Append(e, u)
  <1>1. /\ a \in Seq(Uuid) /\ Len(a) = Len(e) + 1 /\ Len(e) \in Nat
        /\ DOMAIN a = 1 .. Len(e) + 1 /\ DOMAIN e = 1 .. Len(e)
        /\ \A i \in 1 .. Len(e) : a[i] = e[i]
        /\ a[Len(e) + 1] = u
    OBVIOUS
  <1>2. \A i \in DOMAIN e : e[i] # u
    BY DEF Positions
  <1> HIDE DEF a
  <1>3. ASSUME NEW i \in DOMAIN a, NEW j \in DOMAIN a, a[i] = a[j]
        PROVE  i = j
    BY <1>1, <1>2, <1>3 DEF IsInjective
  <1>4. IsInjective(a)
    BY <1>3 DEF IsInjective
  <1> QED
    BY <1>1, <1>4 DEF a

\* An index other than the last is below it.
LEMMA BelowLast == ASSUME NEW l \in Nat, NEW k \in 1 .. l, k # l PROVE k \in 1 .. l - 1
  OBVIOUS

\* The removal of a user from a list without duplicates: the last entry takes
\* the user's place, and the list loses that user and no other.
LEMMA RemoveUser ==
  ASSUME NEW e \in Seq(Uuid), NEW u \in Uuid, NEW f,
         IsInjective(e), Positions(e, u) # {},
         f = [i \in 1 .. Len(e) - 1 |->
                IF i = Max(Positions(e, u)) THEN e[Len(e)] ELSE e[i]]
  PROVE  /\ f \in Seq(Uuid)
         /\ Len(f) = Len(e) - 1
         /\ IsInjective(f)
         /\ ToSet(f) = ToSet(e) \ {u}
  <1> DEFINE match == Max(Positions(e, u))
  <1>1. PICK m \in 1 .. Len(e) : e[m] = u
    BY DEF Positions
  <1>2. Positions(e, u) = {m}
    BY <1>1 DEF Positions, IsInjective
  <1>3. match = m
    BY <1>1, <1>2 DEF Max
  <1> HIDE DEF match
  <1>4. Len(e) \in Nat /\ Len(e) >= 1 /\ DOMAIN e = 1 .. Len(e)
    BY <1>1
  <1>5. /\ DOMAIN f = 1 .. Len(e) - 1
        /\ \A i \in 1 .. Len(e) - 1 : f[i] = IF i = m THEN e[Len(e)] ELSE e[i]
    BY <1>3 DEF match
  <1>6. f \in Seq(Uuid) /\ Len(f) = Len(e) - 1
    <2>1. \A i \in 1 .. Len(e) - 1 : f[i] \in Uuid
      BY <1>4, <1>5
    <2>2. f \in [1 .. Len(e) - 1 -> Uuid]
      BY <1>5, <2>1
    <2> QED
      BY <1>4, <2>2
  <1>7. IsInjective(f)
    BY <1>1, <1>4, <1>5 DEF IsInjective
  <1>8. ASSUME NEW v \in ToSet(f)
        PROVE  v \in ToSet(e) \ {u}
    <2>1. PICK i \in 1 .. Len(e) - 1 : v = f[i]
      BY <1>5 DEF ToSet
    <2>2. PICK j \in 1 .. Len(e) : v = e[j] /\ j # m
      BY <1>4, <1>5, <2>1
    <2> QED
      BY <1>1, <1>4, <2>2 DEF ToSet, IsInjective
  <1>9. ASSUME NEW v \in ToSet(e) \ {u}
        PROVE  v \in ToSet(f)
    <2>1. PICK j \in 1 .. Len(e) : v = e[j]
      BY <1>4 DEF ToSet
    <2>2. j # m
      BY <1>1, <2>1
    <2>3. \E i \in 1 .. Len(e) - 1 : f[i] = v
      <3>1. CASE j = Len(e)
        <4>1. m \in 1 .. Len(e) - 1
          BY <1>4, <2>2, <3>1, BelowLast, Zenon
        <4>2. f[m] = v
          BY <1>5, <2>1, <3>1, <4>1
        <4> QED
          BY <4>1, <4>2
      <3>2. CASE j # Len(e)
        <4>1. j \in 1 .. Len(e) - 1
          BY <1>4, <3>2, BelowLast, Zenon
        <4>2. f[j] = v
          BY <1>5, <2>1, <2>2, <4>1
        <4> QED
          BY <4>1, <4>2
      <3> QED
        BY <3>1, <3>2
    <2> QED
      BY <1>5, <2>3 DEF ToSet
  <1> QED
    BY <1>6, <1>7, <1>8, <1>9

\* The commands that change a plot keep the invariant.
LEMMA ConfigureInv ==
  ASSUME IInv, NEW n \in Name, Configure(n)
  PROVE  IInv'
  <1>1. n \in DOMAIN plots /\ UNCHANGED world_positions
    BY DEF Configure, PlotSetOwner, PlotTrust, PlotRemove, PlotConfigBool
  <1>2. plots[n] \in Plot /\ Len(plots[n].editors) <= MaxTrusted /\ IsInjective(plots[n].editors)
    BY <1>1 DEF IInv, TypeOK, TrustLists
  <1>3. ASSUME NEW u \in Uuid, PlotSetOwner(n, u)
        PROVE  IInv'
    <2> DEFINE p == [plots[n] EXCEPT !.owner = u]
    <2>1. plots' = [plots EXCEPT ![n] = p]
      BY <1>3 DEF PlotSetOwner
    <2>2. /\ p \in Plot /\ p.virt_x = plots[n].virt_x /\ p.virt_z = plots[n].virt_z
          /\ p.size = plots[n].size /\ p.editors = plots[n].editors
      BY <1>2 DEF Plot
    <2> HIDE DEF p
    <2> QED
      BY <1>1, <1>2, <2>1, <2>2, ConfigureStep
  <1>4. ASSUME NEW u \in Uuid, PlotTrust(n, u)
        PROVE  IInv'
    <2> DEFINE e == plots[n].editors
               p == [plots[n] EXCEPT !.editors = Append(e, u)]
    <2>1. plots' = [plots EXCEPT ![n] = p]
      BY <1>4 DEF PlotTrust
    <2>2. e \in Seq(Uuid) /\ Len(e) \in Nat /\ Len(e) < MaxTrusted /\ Positions(e, u) = {}
      BY <1>2, <1>4 DEF PlotTrust, Plot
    <2>3. /\ Append(e, u) \in Seq(Uuid) /\ Len(Append(e, u)) = Len(e) + 1
          /\ IsInjective(Append(e, u))
      BY <1>2, <2>2, AppendUser
    <2>4. /\ p \in Plot /\ p.virt_x = plots[n].virt_x /\ p.virt_z = plots[n].virt_z
          /\ p.size = plots[n].size /\ p.editors = Append(e, u)
      BY <1>2, <2>3 DEF Plot
    <2>5. Len(p.editors) <= MaxTrusted
      BY <2>2, <2>3, <2>4, PlotAssumption
    <2> HIDE DEF p, e
    <2> QED
      BY <1>1, <2>1, <2>3, <2>4, <2>5, ConfigureStep
  <1>5. ASSUME NEW u \in Uuid, PlotRemove(n, u)
        PROVE  IInv'
    <2> DEFINE e == plots[n].editors
               f == [i \in 1 .. Len(e) - 1 |->
                       IF i = Max(Positions(e, u)) THEN e[Len(e)] ELSE e[i]]
               p == [plots[n] EXCEPT !.editors = f]
    <2>1. plots' = [plots EXCEPT ![n] = p]
      BY <1>5 DEF PlotRemove
    <2>2. e \in Seq(Uuid) /\ Len(e) \in Nat /\ Positions(e, u) # {}
      BY <1>2, <1>5 DEF PlotRemove, Plot
    <2>3. f \in Seq(Uuid) /\ Len(f) = Len(e) - 1 /\ IsInjective(f)
      BY <1>2, <2>2, RemoveUser, SMTT(30)
    <2> HIDE DEF f
    <2>4. /\ p \in Plot /\ p.virt_x = plots[n].virt_x /\ p.virt_z = plots[n].virt_z
          /\ p.size = plots[n].size /\ p.editors = f
      BY <1>2, <2>3 DEF Plot
    <2>5. Len(p.editors) <= MaxTrusted
      BY <1>2, <2>2, <2>3, <2>4, PlotAssumption
    <2> HIDE DEF p, e
    <2> QED
      BY <1>1, <2>1, <2>3, <2>4, <2>5, ConfigureStep
  <1>6. ASSUME NEW state \in BOOLEAN, PlotConfigBool(n, state)
        PROVE  IInv'
    <2> DEFINE p == [plots[n] EXCEPT !.any_can_edit = state]
    <2>1. plots' = [plots EXCEPT ![n] = p]
      BY <1>6 DEF PlotConfigBool
    <2>2. /\ p \in Plot /\ p.virt_x = plots[n].virt_x /\ p.virt_z = plots[n].virt_z
          /\ p.size = plots[n].size /\ p.editors = plots[n].editors
      <3> DEFINE old == plots[n]
      <3>1. old \in Plot
        BY <1>2
      <3> HIDE DEF old
      <3>2. [old EXCEPT !.any_can_edit = state] \in Plot
        BY <3>1 DEF Plot
      <3> QED
        BY <3>1, <3>2 DEF Plot, old
    <2> HIDE DEF p
    <2> QED
      BY <1>1, <1>2, <2>1, <2>2, ConfigureStep
  <1> QED
    BY <1>3, <1>4, <1>5, <1>6 DEF Configure

\* Every command keeps the invariant.
THEOREM NextIInv == IInv /\ [Next]_vars => IInv'
  <1>1. ASSUME IInv, Next PROVE IInv'
    BY <1>1, CreateStep, ConfigureInv DEF Next
  <1> QED
    BY <1>1, Unchanged

\* TypeOK holds always: every command leaves well-formed plots and positions.
THEOREM TypeCorrect == Spec => []TypeOK
  BY InitIInv, NextIInv, PTL DEF Spec, IInv

\* ApartWithin16Bits: two plots share the place they believe they lie at only if one of
\* them was created at a position that its 16 bits cut off.
LEMMA PlacesApart == IInv => ApartWithin16Bits
  <1> SUFFICES ASSUME IInv, NEW n \in DOMAIN plots, NEW m \in DOMAIN plots, n # m,
                      plots[n].virt_x = plots[m].virt_x, plots[n].virt_z = plots[m].virt_z,
                      \A p \in DOMAIN world_positions :
                        world_positions[p] \in {n, m} => Fits16Bits(p)
               PROVE  FALSE
    BY DEF ApartWithin16Bits
  <1>1. PICK p \in DOMAIN world_positions, q \in DOMAIN world_positions :
          world_positions[p] = n /\ world_positions[q] = m
    BY DEF IInv, Registered
  <1>2. p \in Int \X Int /\ q \in Int \X Int
    BY DEF IInv, TypeOK
  <1>3. /\ plots[n].virt_x = ToInt16(p[1]) /\ plots[n].virt_z = ToInt16(p[2])
        /\ plots[m].virt_x = ToInt16(q[1]) /\ plots[m].virt_z = ToInt16(q[2])
    BY <1>1 DEF IInv, Registered
  <1>4. p[1] = q[1] /\ p[2] = q[2]
    BY <1>1, <1>3 DEF Fits16Bits
  <1>5. p = q
    BY <1>2, <1>4
  <1> QED
    BY <1>1, <1>5

\* MapsAgree holds always: every plot is registered at one position, its own, and two
\* plots lie on one another only if 16 bits cut off a position.
THEOREM MapsStayInStep == Spec => []MapsAgree
  BY InitIInv, NextIInv, PlacesApart, PTL DEF Spec, IInv, MapsAgree

\* TrustLists holds always: no user is trusted twice, and no plot trusts more
\* than MaxTrusted.
THEOREM TrustBounded == Spec => []TrustLists
  BY InitIInv, NextIInv, PTL DEF Spec, IInv

\* RevokesOne: plot remove revokes the trust of the user it names, entirely,
\* and of nobody else, although it moves the last entry of the list.
THEOREM RemovalRevokes == Spec => RevokesOne
  <1>1. ASSUME IInv, NEW n \in DOMAIN plots, NEW u \in Uuid, PlotRemove(n, u)
        PROVE  ToSet(plots'[n].editors) = ToSet(plots[n].editors) \ {u}
    <2> DEFINE e == plots[n].editors
               f == [i \in 1 .. Len(e) - 1 |->
                       IF i = Max(Positions(e, u)) THEN e[Len(e)] ELSE e[i]]
    <2>1. plots[n] \in Plot /\ IsInjective(e)
      BY <1>1 DEF IInv, TypeOK, TrustLists
    <2>2. e \in Seq(Uuid) /\ Positions(e, u) # {}
      BY <1>1, <2>1 DEF PlotRemove, Plot
    <2>3. plots'[n].editors = f
      <3>1. plots'[n] = [plots[n] EXCEPT !.editors = f]
        BY <1>1 DEF PlotRemove
      <3> HIDE DEF f
      <3> QED
        BY <2>1, <3>1 DEF Plot
    <2>4. ToSet(f) = ToSet(e) \ {u}
      BY <2>1, <2>2, RemoveUser
    <2> QED
      BY <2>3, <2>4
  <1>2. IInv /\ [Next]_vars =>
          [\A n \in DOMAIN plots : \A u \in Uuid :
             PlotRemove(n, u) => ToSet(plots'[n].editors) = ToSet(plots[n].editors) \ {u}]_vars
    BY <1>1
  <1> QED
    BY <1>2, InitIInv, NextIInv, PTL DEF Spec, RevokesOne
=============================================================================

----------------------------- MODULE PacketProofs -----------------------------
(***************************************************************************)
(* What is read from a packet is what was written into it, for all fields  *)
(* and any sizes of the buffer.                                            *)
(***************************************************************************)
EXTENDS Packet, FiniteSetTheorems, SequenceTheorems, WellFoundedInduction, TLAPS

-----------------------------------------------------------------------------
(* The least element of a set, and loops.                                  *)

\* A set of natural numbers that is not empty has a least one.
LEMMA MinLeast ==
  ASSUME NEW S, S \subseteq Nat, S # {}
  PROVE  Min(S) \in S /\ \A y \in S : Min(S) <= y
  <1> DEFINE R == OpToRel(<, Nat)
  <1>1. IsWellFoundedOn(R, Nat)
    BY NatLessThanWellFounded
  <1>2. \A x, y \in Nat : <<y, x>> \in R <=> y < x
    BY DEF OpToRel
  <1> HIDE DEF R
  <1>3. PICK x \in S : \A y \in S : <<y, x>> \notin R
    BY <1>1, WFMin
  <1>4. ASSUME NEW y \in S
        PROVE  x <= y
    <2>1. x \in Nat /\ y \in Nat /\ ~(y < x)
      BY <1>2, <1>3
    <2> QED
      BY <2>1
  <1> QED
    BY <1>4 DEF Min

\* A set of natural numbers that holds 0 and each number after one it holds is all.
LEMMA AllNat ==
  ASSUME NEW S, S \subseteq Nat, 0 \in S, \A k \in Nat : k \in S => k + 1 \in S
  PROVE  S = Nat
  <1> SUFFICES ASSUME Nat \ S # {}
               PROVE  FALSE
    OBVIOUS
  <1> DEFINE Bad == Nat \ S
             b == Min(Bad)
  <1>1. b \in Bad /\ \A y \in Bad : b <= y
    <2> Bad \subseteq Nat /\ Bad # {}
      OBVIOUS
    <2> HIDE DEF Bad
    <2> QED
      BY MinLeast
  <1> HIDE DEF b
  <1>2. b \in Nat /\ b \notin S /\ b # 0
    BY <1>1
  <1>3. b - 1 \in Nat /\ b = (b - 1) + 1 /\ ~(b <= b - 1)
    BY <1>2
  <1>4. b - 1 \in S
    BY <1>1, <1>3
  <1> QED
    BY <1>2, <1>3, <1>4

\* A loop starts with x, and each round makes of the last value what its step says.
LEMMA IteratedIs ==
  ASSUME NEW step, NEW x
  PROVE  /\ Iterated(step, x)[0] = x
         /\ \A k \in Nat : Iterated(step, x)[k + 1] = step[k + 1][Iterated(step, x)[k]]
  <1> DEFINE Is(g, m) == g = [k \in 0 .. m |-> IF k = 0 THEN x ELSE step[k][g[k - 1]]]
             Some == {m \in Nat : \E g : Is(g, m)}
  <1>1. Some = Nat
    <2>1. 0 \in Some
      <3>1. Is([k \in 0 .. 0 |-> x], 0)
        OBVIOUS
      <3> QED
        BY <3>1
    <2>2. ASSUME NEW a \in Nat, a \in Some
          PROVE  a + 1 \in Some
      <3>1. PICK g : Is(g, a)
        BY <2>2
      <3> DEFINE last == step[a + 1][g[a]]
                 h == [k \in 0 .. a + 1 |-> IF k = a + 1 THEN last ELSE g[k]]
      <3>2. ASSUME NEW k \in 0 .. a + 1
            PROVE  h[k] = IF k = 0 THEN x ELSE step[k][h[k - 1]]
        <4>1. CASE k = a + 1
          <5>1. k # 0 /\ k - 1 = a /\ a \in 0 .. a + 1 /\ a # a + 1
            BY <4>1
          <5> HIDE DEF last
          <5>2. h[k] = last /\ h[k - 1] = g[a]
            BY <4>1, <5>1
          <5> QED
            BY <4>1, <5>1, <5>2 DEF last
        <4>2. CASE k # a + 1
          <5>1. k \in 0 .. a /\ (k # 0 => k - 1 \in 0 .. a + 1 /\ k - 1 # a + 1)
            BY <4>2
          <5>2. g[k] = IF k = 0 THEN x ELSE step[k][g[k - 1]]
            BY <3>1, <5>1
          <5> HIDE DEF last
          <5>3. h[k] = g[k] /\ (k # 0 => h[k - 1] = g[k - 1])
            BY <4>2, <5>1
          <5> QED
            BY <5>2, <5>3
        <4> QED
          BY <4>1, <4>2
      <3>3. Is(h, a + 1)
        <4> HIDE DEF last
        <4>1. h = [k \in 0 .. a + 1 |-> h[k]]
          OBVIOUS
        <4> HIDE DEF h
        <4> QED
          BY <3>2, <4>1
      <3> HIDE DEF h
      <3> QED
        BY <3>3
    <2> HIDE DEF Some
    <2> QED
      BY <2>1, <2>2, AllNat DEF Some
  <1> DEFINE p(m) == CHOOSE g : Is(g, m)
             f == [k \in Nat |-> p(k)[k]]
  <1>2. \A m \in Nat : Is(p(m), m)
    BY <1>1
  <1> HIDE DEF Some, p
  <1>3. ASSUME NEW m \in Nat
        PROVE  p(m)[m] = p(m + 1)[m]
    <2> DEFINE Same == {k \in Nat : k <= m => p(m)[k] = p(m + 1)[k]}
    <2>1. \A n \in {m, m + 1} : \A k \in 0 .. n :
            p(n)[k] = IF k = 0 THEN x ELSE step[k][p(n)[k - 1]]
      <3> SUFFICES ASSUME NEW n \in {m, m + 1}, NEW k \in 0 .. n
                   PROVE  p(n)[k] = IF k = 0 THEN x ELSE step[k][p(n)[k - 1]]
        OBVIOUS
      <3>1. Is(p(n), n)
        BY <1>2
      <3> QED
        BY <3>1
    <2>2. 0 \in Same
      BY <2>1
    <2>3. ASSUME NEW k \in Nat, k \in Same
          PROVE  k + 1 \in Same
      <3> SUFFICES ASSUME k + 1 <= m
                   PROVE  p(m)[k + 1] = p(m + 1)[k + 1]
        OBVIOUS
      <3>1. p(m)[k] = p(m + 1)[k]
        BY <2>3
      <3>2. k + 1 \in 0 .. m /\ k + 1 \in 0 .. m + 1 /\ k + 1 # 0 /\ (k + 1) - 1 = k
        OBVIOUS
      <3>3. p(m)[k + 1] = step[k + 1][p(m)[k]] /\ p(m + 1)[k + 1] = step[k + 1][p(m + 1)[k]]
        <4>1. p(m)[k + 1] = IF k + 1 = 0 THEN x ELSE step[k + 1][p(m)[(k + 1) - 1]]
          BY <2>1, <3>2
        <4>2. p(m + 1)[k + 1] = IF k + 1 = 0 THEN x ELSE step[k + 1][p(m + 1)[(k + 1) - 1]]
          BY <2>1, <3>2
        <4> QED
          BY <3>2, <4>1, <4>2
      <3> QED
        BY <3>1, <3>3
    <2>4. Same = Nat
      <3> HIDE DEF Same
      <3> QED
        BY <2>2, <2>3, AllNat DEF Same
    <2> QED
      BY <2>4
  <1>4. ASSUME NEW k \in Nat
        PROVE  f[k] = IF k = 0 THEN x ELSE step[k][f[k - 1]]
    <2>1. p(k)[k] = IF k = 0 THEN x ELSE step[k][p(k)[k - 1]]
      <3>1. Is(p(k), k)
        BY <1>2
      <3>2. k \in 0 .. k
        OBVIOUS
      <3> QED
        BY <3>1, <3>2
    <2>2. k # 0 => p(k - 1)[k - 1] = p(k)[k - 1]
      <3> SUFFICES ASSUME k # 0
                   PROVE  p(k - 1)[k - 1] = p(k)[k - 1]
        OBVIOUS
      <3>1. k - 1 \in Nat /\ (k - 1) + 1 = k
        OBVIOUS
      <3>2. p(k - 1)[k - 1] = p((k - 1) + 1)[k - 1]
        BY <1>3, <3>1
      <3> QED
        BY <3>1, <3>2
    <2>3. f[k] = p(k)[k] /\ (k # 0 => f[k - 1] = p(k - 1)[k - 1])
      OBVIOUS
    <2> QED
      BY <2>1, <2>2, <2>3
  <1>5. f = [k \in Nat |-> IF k = 0 THEN x ELSE step[k][f[k - 1]]]
    <2>1. f = [k \in Nat |-> f[k]]
      OBVIOUS
    <2> HIDE DEF f
    <2> QED
      BY <1>4, <2>1
  <1> HIDE DEF f
  <1>6. PICK g : /\ Iterated(step, x) = g
                 /\ g = [k \in Nat |-> IF k = 0 THEN x ELSE step[k][g[k - 1]]]
    <2> DEFINE g == CHOOSE g : g = [k \in Nat |-> IF k = 0 THEN x ELSE step[k][g[k - 1]]]
    <2>1. Iterated(step, x) = g
      BY DEF Iterated
    <2>2. g = [k \in Nat |-> IF k = 0 THEN x ELSE step[k][g[k - 1]]]
      BY <1>5
    <2> HIDE DEF g
    <2> QED
      BY <2>1, <2>2
  <1>7. g[0] = x
    BY <1>6
  <1>8. ASSUME NEW k \in Nat
        PROVE  g[k + 1] = step[k + 1][g[k]]
    <2>1. k + 1 \in Nat /\ k + 1 # 0 /\ (k + 1) - 1 = k
      OBVIOUS
    <2>2. g[k + 1] = IF k + 1 = 0 THEN x ELSE step[k + 1][g[(k + 1) - 1]]
      BY <1>6, <2>1
    <2> QED
      BY <2>1, <2>2
  <1> QED
    BY <1>6, <1>7, <1>8

-----------------------------------------------------------------------------
(* Bytes in a buffer.                                                      *)

Bytes == Seq(Byte)

\* The buffer holds these bytes behind a position.
Holds(data, at, bytes) ==
  /\ at + Len(bytes) <= Len(data)
  /\ \A k \in 1 .. Len(bytes) : data[at + k] = bytes[k]

\* Two sequences, one behind the other.
LEMMA Behind ==
  ASSUME NEW x \in Bytes, NEW y \in Bytes
  PROVE  /\ x \o y \in Bytes /\ Len(x \o y) = Len(x) + Len(y)
         /\ \A k \in 1 .. Len(x) : (x \o y)[k] = x[k]
         /\ \A k \in 1 .. Len(y) : (x \o y)[Len(x) + k] = y[k]
  <1>1. /\ x \o y \in Bytes /\ Len(x \o y) = Len(x) + Len(y)
        /\ \A k \in 1 .. Len(x) + Len(y) :
             (x \o y)[k] = IF k <= Len(x) THEN x[k] ELSE y[k - Len(x)]
    BY ConcatProperties DEF Bytes
  <1>2. Len(x) \in Nat /\ Len(y) \in Nat
    BY DEF Bytes
  <1>3. ASSUME NEW k \in 1 .. Len(x)
        PROVE  (x \o y)[k] = x[k]
    <2>1. k \in 1 .. Len(x) + Len(y) /\ k <= Len(x)
      BY <1>2
    <2> QED
      BY <1>1, <2>1
  <1>4. ASSUME NEW k \in 1 .. Len(y)
        PROVE  (x \o y)[Len(x) + k] = y[k]
    <2>1. /\ Len(x) + k \in 1 .. Len(x) + Len(y) /\ ~(Len(x) + k <= Len(x))
          /\ (Len(x) + k) - Len(x) = k
      BY <1>2
    <2> QED
      BY <1>1, <2>1
  <1> QED
    BY <1>1, <1>3, <1>4

\* A sequence of bytes has a length, and bytes at its indices.
LEMMA BytesFacts ==
  ASSUME NEW x \in Bytes
  PROVE  /\ Len(x) \in Nat /\ DOMAIN x = 1 .. Len(x)
         /\ \A k \in 1 .. Len(x) : x[k] \in Byte
         /\ \A k \in 1 .. Len(x) : x[k] \in Nat /\ x[k] < 256
  <1>1. Len(x) \in Nat /\ DOMAIN x = 1 .. Len(x) /\ \A k \in 1 .. Len(x) : x[k] \in Byte
    BY DEF Bytes
  <1>2. \A b \in Byte : b \in Nat /\ b < 256
    BY DEF Byte
  <1> QED
    BY <1>1, <1>2

\* The bytes at some indices.
LEMMA MakeBytes ==
  ASSUME NEW n \in Nat, NEW f, \A k \in 1 .. n : f[k] \in Byte
  PROVE  [k \in 1 .. n |-> f[k]] \in Bytes /\ Len([k \in 1 .. n |-> f[k]]) = n
  BY DEF Bytes

\* Two sequences of the same bytes.
LEMMA SameBytes ==
  ASSUME NEW x \in Bytes, NEW y \in Bytes, Len(x) = Len(y), \A k \in 1 .. Len(x) : x[k] = y[k]
  PROVE  x = y
  <1>1. x = [k \in 1 .. Len(x) |-> x[k]] /\ y = [k \in 1 .. Len(y) |-> y[k]]
    BY DEF Bytes
  <1> QED
    BY <1>1

\* Nothing is put behind, and nothing before.
LEMMA NoBytes ==
  ASSUME NEW x \in Bytes
  PROVE  <<>> \o x = x /\ x \o <<>> = x
  BY DEF Bytes

\* No bytes at all.
LEMMA Empty == <<>> \in Bytes /\ Len(<<>>) = 0
  BY DEF Bytes

\* Three sequences.
LEMMA Associative ==
  ASSUME NEW x \in Bytes, NEW y \in Bytes, NEW z \in Bytes
  PROVE  (x \o y) \o z = x \o (y \o z)
  BY ConcatAssociative DEF Bytes

\* A buffer holds the parts of what it holds.
LEMMA HoldsParts ==
  ASSUME NEW data \in Bytes, NEW at \in Nat, NEW x \in Bytes, NEW y \in Bytes,
         Holds(data, at, x \o y)
  PROVE  Holds(data, at, x) /\ Holds(data, at + Len(x), y)
  <1>1. Len(x) \in Nat /\ Len(y) \in Nat /\ Len(data) \in Nat
    BY BytesFacts
  <1>2. /\ Len(x \o y) = Len(x) + Len(y)
        /\ \A k \in 1 .. Len(x) : (x \o y)[k] = x[k]
        /\ \A k \in 1 .. Len(y) : (x \o y)[Len(x) + k] = y[k]
    BY Behind
  <1>3. /\ at + (Len(x) + Len(y)) <= Len(data)
        /\ \A k \in 1 .. Len(x) + Len(y) : data[at + k] = (x \o y)[k]
    BY <1>2 DEF Holds
  <1>4. ASSUME NEW k \in 1 .. Len(x)
        PROVE  data[at + k] = x[k]
    <2>1. k \in 1 .. Len(x) + Len(y)
      BY <1>1
    <2> QED
      BY <1>2, <1>3, <2>1
  <1>5. ASSUME NEW k \in 1 .. Len(y)
        PROVE  data[(at + Len(x)) + k] = y[k]
    <2>1. Len(x) + k \in 1 .. Len(x) + Len(y) /\ (at + Len(x)) + k = at + (Len(x) + k)
      BY <1>1
    <2> QED
      BY <1>2, <1>3, <2>1
  <1>6. at + Len(x) <= Len(data) /\ (at + Len(x)) + Len(y) <= Len(data)
    BY <1>1, <1>3
  <1> QED
    BY <1>4, <1>5, <1>6 DEF Holds

\* A buffer holds the first of its parts, and behind it the second.
LEMMA HoldsBoth ==
  ASSUME NEW x \in Bytes, NEW y \in Bytes
  PROVE  Holds(x \o y, 0, x) /\ Holds(x \o y, Len(x), y)
  <1>1. Len(x) \in Nat /\ Len(y) \in Nat
    BY BytesFacts
  <1>2. /\ Len(x \o y) = Len(x) + Len(y)
        /\ \A k \in 1 .. Len(x) : (x \o y)[k] = x[k]
        /\ \A k \in 1 .. Len(y) : (x \o y)[Len(x) + k] = y[k]
    BY Behind
  <1>3. \A k \in 1 .. Len(x) : (x \o y)[0 + k] = x[k]
    BY <1>2
  <1> QED
    BY <1>1, <1>2, <1>3 DEF Holds

\* What is held in something that is held.
LEMMA HoldsThrough ==
  ASSUME NEW data \in Bytes, NEW at \in Nat, NEW x \in Bytes, NEW y \in Bytes, NEW from \in Nat,
         Holds(data, at, x), Holds(x, from, y)
  PROVE  Holds(data, at + from, y)
  <1>1. Len(x) \in Nat /\ Len(y) \in Nat /\ Len(data) \in Nat
    BY BytesFacts
  <1>2. from + Len(y) <= Len(x) /\ at + Len(x) <= Len(data)
    BY DEF Holds
  <1>3. ASSUME NEW k \in 1 .. Len(y)
        PROVE  data[(at + from) + k] = y[k]
    <2>1. from + k \in 1 .. Len(x) /\ (at + from) + k = at + (from + k)
      BY <1>1, <1>2
    <2>2. x[from + k] = y[k] /\ data[at + (from + k)] = x[from + k]
      BY <2>1 DEF Holds
    <2> QED
      BY <2>1, <2>2
  <1>4. (at + from) + Len(y) <= Len(data)
    BY <1>1, <1>2
  <1> QED
    BY <1>3, <1>4 DEF Holds

\* The bytes at a position where the buffer holds some.
LEMMA ReadBytes ==
  ASSUME NEW data \in Bytes, NEW at \in Nat, NEW x \in Bytes, Holds(data, at, x)
  PROVE  BytesAt(data, at, Len(x)) = x
  <1>1. Len(x) \in Nat /\ Len(data) \in Nat /\ at + Len(x) <= Len(data)
    BY BytesFacts DEF Holds
  <1>2. \A k \in 1 .. Len(x) : (IF at + k <= Len(data) THEN data[at + k] ELSE 0) = x[k]
    BY <1>1 DEF Holds
  <1>3. BytesAt(data, at, Len(x)) = [k \in 1 .. Len(x) |-> x[k]]
    BY <1>2 DEF BytesAt
  <1>4. x = [k \in 1 .. Len(x) |-> x[k]]
    BY DEF Bytes
  <1> QED
    BY <1>3, <1>4

\* Bytes read anywhere.
LEMMA AnyBytes ==
  ASSUME NEW data \in Bytes, NEW at \in Nat, NEW n \in Nat
  PROVE  BytesAt(data, at, n) \in Bytes /\ Len(BytesAt(data, at, n)) = n
  <1> DEFINE f == [k \in 1 .. n |-> IF at + k <= Len(data) THEN data[at + k] ELSE 0]
  <1>1. \A k \in 1 .. n : f[k] \in Byte
    BY BytesFacts DEF Byte
  <1>2. f = [k \in 1 .. n |-> f[k]]
    OBVIOUS
  <1> HIDE DEF f
  <1>3. [k \in 1 .. n |-> f[k]] \in Bytes /\ Len([k \in 1 .. n |-> f[k]]) = n
    BY <1>1, MakeBytes
  <1>4. f \in Bytes /\ Len(f) = n
    BY <1>2, <1>3
  <1> QED
    BY <1>4 DEF f, BytesAt

-----------------------------------------------------------------------------
(* Parts that are joined.                                                  *)

Parts == Seq(Bytes)

\* Parts are joined one after the other.
LEMMA JoinedStep ==
  ASSUME NEW parts \in Parts
  PROVE  /\ JoinedUpTo(parts)[0] = <<>>
         /\ \A n \in 0 .. Len(parts) : JoinedUpTo(parts)[n] \in Bytes
         /\ \A n \in 1 .. Len(parts) :
              /\ parts[n] \in Bytes
              /\ JoinedUpTo(parts)[n] = JoinedUpTo(parts)[n - 1] \o parts[n]
  <1> DEFINE step == [k \in Nat |-> [bytes \in Seq(Byte) |-> bytes \o parts[k]]]
             J == Iterated(step, <<>>)
             Good == {n \in Nat : n <= Len(parts) => J[n] \in Bytes}
  <1>1. J[0] = <<>> /\ \A k \in Nat : J[k + 1] = step[k + 1][J[k]]
    <2> HIDE DEF step
    <2> QED
      BY IteratedIs
  <1>2. Len(parts) \in Nat /\ \A k \in 1 .. Len(parts) : parts[k] \in Bytes
    BY DEF Parts
  <1> HIDE DEF J
  <1>3. ASSUME NEW k \in Nat, J[k] \in Bytes
        PROVE  J[k + 1] = J[k] \o parts[k + 1]
    <2>1. k + 1 \in Nat
      OBVIOUS
    <2>2. step[k + 1] = [bytes \in Seq(Byte) |-> bytes \o parts[k + 1]]
      BY <2>1
    <2>3. step[k + 1][J[k]] = J[k] \o parts[k + 1]
      BY <1>3, <2>2 DEF Bytes
    <2> QED
      BY <1>1, <2>3
  <1> HIDE DEF step
  <1>4. Good = Nat
    <2>1. 0 \in Good
      BY <1>1, Empty
    <2>2. ASSUME NEW k \in Nat, k \in Good
          PROVE  k + 1 \in Good
      <3> SUFFICES ASSUME k + 1 <= Len(parts)
                   PROVE  J[k + 1] \in Bytes
        OBVIOUS
      <3>1. J[k] \in Bytes /\ k + 1 \in 1 .. Len(parts)
        BY <1>2, <2>2
      <3>2. J[k + 1] = J[k] \o parts[k + 1] /\ parts[k + 1] \in Bytes
        BY <1>2, <1>3, <3>1
      <3> QED
        BY <3>1, <3>2, Behind
    <2> HIDE DEF Good
    <2> QED
      BY <2>1, <2>2, AllNat DEF Good
  <1>5. \A n \in 0 .. Len(parts) : J[n] \in Bytes
    BY <1>2, <1>4
  <1>6. ASSUME NEW n \in 1 .. Len(parts)
        PROVE  J[n] = J[n - 1] \o parts[n]
    <2>1. n - 1 \in Nat /\ n - 1 \in 0 .. Len(parts) /\ (n - 1) + 1 = n
      BY <1>2
    <2>2. J[(n - 1) + 1] = J[n - 1] \o parts[(n - 1) + 1]
      BY <1>3, <1>5, <2>1
    <2> QED
      BY <2>1, <2>2
  <1>7. JoinedUpTo(parts) = J
    BY DEF JoinedUpTo, J, step
  <1> QED
    BY <1>1, <1>2, <1>5, <1>6, <1>7

\* What is joined first stays in front.
LEMMA JoinedFront ==
  ASSUME NEW parts \in Parts, NEW n \in 0 .. Len(parts)
  PROVE  /\ Joined(parts) \in Bytes /\ JoinedUpTo(parts)[n] \in Bytes
         /\ Holds(Joined(parts), 0, JoinedUpTo(parts)[n])
  <1> DEFINE J == JoinedUpTo(parts)
             Good == {m \in Nat : m <= Len(parts) /\ n <= m => Holds(J[m], 0, J[n])}
  <1>1. Len(parts) \in Nat
    BY DEF Parts
  <1>2. /\ \A m \in 0 .. Len(parts) : J[m] \in Bytes
        /\ \A m \in 1 .. Len(parts) : parts[m] \in Bytes /\ J[m] = J[m - 1] \o parts[m]
    BY JoinedStep
  <1> HIDE DEF J
  <1>3. Good = Nat
    <2>1. Holds(J[n], 0, J[n])
      BY <1>2, BytesFacts DEF Holds
    <2>2. 0 \in Good
      <3> SUFFICES ASSUME n <= 0
                   PROVE  Holds(J[0], 0, J[n])
        OBVIOUS
      <3>1. n = 0
        BY <1>1
      <3> QED
        BY <2>1, <3>1
    <2>3. ASSUME NEW k \in Nat, k \in Good
          PROVE  k + 1 \in Good
      <3> SUFFICES ASSUME k + 1 <= Len(parts), n <= k + 1
                   PROVE  Holds(J[k + 1], 0, J[n])
        OBVIOUS
      <3>1. CASE n = k + 1
        BY <2>1, <3>1
      <3>2. CASE n # k + 1
        <4>1. n <= k /\ k <= Len(parts) /\ k \in 0 .. Len(parts) /\ k + 1 \in 1 .. Len(parts)
              /\ (k + 1) - 1 = k
          BY <1>1, <3>2
        <4>2. Holds(J[k], 0, J[n])
          BY <2>3, <4>1
        <4>3. J[k + 1] = J[k] \o parts[k + 1] /\ parts[k + 1] \in Bytes /\ J[k] \in Bytes
              /\ J[n] \in Bytes /\ J[k + 1] \in Bytes
          <5>1. J[k + 1] = J[(k + 1) - 1] \o parts[k + 1] /\ parts[k + 1] \in Bytes
            BY <1>2, <4>1
          <5>2. k + 1 \in 0 .. Len(parts)
            BY <4>1
          <5>3. J[k] \in Bytes /\ J[n] \in Bytes /\ J[k + 1] \in Bytes
            BY <1>2, <4>1, <5>2
          <5>4. J[(k + 1) - 1] = J[k]
            BY <4>1
          <5> QED
            BY <5>1, <5>3, <5>4
        <4>4. Holds(J[k + 1], 0, J[k])
          BY <4>3, HoldsBoth
        <4>5. Holds(J[k + 1], 0 + 0, J[n])
          BY <4>2, <4>3, <4>4, HoldsThrough
        <4> QED
          BY <4>5
      <3> QED
        BY <3>1, <3>2
    <2> HIDE DEF Good
    <2> QED
      BY <2>2, <2>3, AllNat DEF Good
  <1>4. Holds(J[Len(parts)], 0, J[n])
    <2>1. n <= Len(parts)
      OBVIOUS
    <2> QED
      BY <1>1, <1>3, <2>1
  <1>5. Joined(parts) = J[Len(parts)]
    BY DEF Joined, J
  <1> QED
    BY <1>1, <1>2, <1>4, <1>5 DEF J

\* A buffer that holds joined parts holds each behind those before it.
LEMMA JoinedHolds ==
  ASSUME NEW parts \in Parts, NEW data \in Bytes, NEW at \in Nat, Holds(data, at, Joined(parts)),
         NEW n \in 1 .. Len(parts)
  PROVE  /\ Holds(data, at + Len(JoinedUpTo(parts)[n - 1]), parts[n])
         /\ Len(JoinedUpTo(parts)[n]) = Len(JoinedUpTo(parts)[n - 1]) + Len(parts[n])
         /\ Len(JoinedUpTo(parts)[n - 1]) \in Nat /\ parts[n] \in Bytes
  <1> DEFINE J == JoinedUpTo(parts)
  <1>1. Len(parts) \in Nat
    BY DEF Parts
  <1>2. n - 1 \in 0 .. Len(parts) /\ n \in 0 .. Len(parts)
    BY <1>1
  <1>3. /\ J[n - 1] \in Bytes /\ J[n] \in Bytes /\ parts[n] \in Bytes
        /\ J[n] = J[n - 1] \o parts[n]
    BY <1>2, JoinedStep
  <1>4. Joined(parts) \in Bytes /\ Holds(Joined(parts), 0, J[n])
    BY <1>2, JoinedFront
  <1> HIDE DEF J
  <1>5. Holds(data, at + 0, J[n])
    BY <1>3, <1>4, HoldsThrough
  <1>6. Holds(data, at, J[n - 1] \o parts[n])
    BY <1>3, <1>5
  <1>7. Holds(data, at + Len(J[n - 1]), parts[n])
    BY <1>3, <1>6, HoldsParts
  <1>8. Len(J[n]) = Len(J[n - 1]) + Len(parts[n]) /\ Len(J[n - 1]) \in Nat
    <2>1. Len(J[n - 1]) \in Nat
      BY <1>3, BytesFacts
    <2>2. Len(J[n - 1] \o parts[n]) = Len(J[n - 1]) + Len(parts[n])
      BY <1>3, Behind
    <2> QED
      BY <1>3, <2>1, <2>2
  <1> QED
    BY <1>3, <1>7, <1>8 DEF J

\* The same parts up to some place are joined to the same.
LEMMA SameJoined ==
  ASSUME NEW parts \in Parts, NEW other \in Parts, NEW n \in Nat,
         n <= Len(parts), n <= Len(other), \A k \in 1 .. n : parts[k] = other[k]
  PROVE  \A k \in 0 .. n : JoinedUpTo(parts)[k] = JoinedUpTo(other)[k]
  <1> DEFINE J == JoinedUpTo(parts)
             K == JoinedUpTo(other)
             Good == {k \in Nat : k <= n => J[k] = K[k]}
  <1>1. /\ J[0] = <<>> /\ K[0] = <<>>
        /\ \A k \in 1 .. Len(parts) : J[k] = J[k - 1] \o parts[k]
        /\ \A k \in 1 .. Len(other) : K[k] = K[k - 1] \o other[k]
    BY JoinedStep
  <1>2. Len(parts) \in Nat /\ Len(other) \in Nat
    BY DEF Parts
  <1> HIDE DEF J, K
  <1>3. Good = Nat
    <2>1. 0 \in Good
      BY <1>1
    <2>2. ASSUME NEW k \in Nat, k \in Good
          PROVE  k + 1 \in Good
      <3> SUFFICES ASSUME k + 1 <= n
                   PROVE  J[k + 1] = K[k + 1]
        OBVIOUS
      <3>1. J[k] = K[k] /\ (k + 1) - 1 = k
        BY <2>2
      <3>2. k + 1 \in 1 .. n /\ k + 1 \in 1 .. Len(parts) /\ k + 1 \in 1 .. Len(other)
        BY <1>2
      <3>3. J[k + 1] = J[(k + 1) - 1] \o parts[k + 1] /\ K[k + 1] = K[(k + 1) - 1] \o other[k + 1]
        BY <1>1, <3>2
      <3>4. parts[k + 1] = other[k + 1]
        BY <3>2
      <3> QED
        BY <3>1, <3>3, <3>4
    <2> HIDE DEF Good
    <2> QED
      BY <2>1, <2>2, AllNat DEF Good
  <1>4. \A k \in 0 .. n : J[k] = K[k]
    BY <1>3
  <1> QED
    BY <1>4 DEF J, K

\* One part more.
LEMMA JoinedAppend ==
  ASSUME NEW parts \in Parts, NEW x \in Bytes
  PROVE  /\ Append(parts, x) \in Parts
         /\ Joined(Append(parts, x)) = Joined(parts) \o x
  <1> DEFINE other == Append(parts, x)
             n == Len(parts)
  <1>1. /\ other \in Parts /\ Len(other) = n + 1 /\ n \in Nat /\ other[n + 1] = x
        /\ \A k \in 1 .. n : parts[k] = other[k]
    BY DEF Parts
  <1> HIDE DEF other
  <1>2. n <= Len(parts) /\ n <= Len(other) /\ n \in 0 .. n /\ n + 1 \in 1 .. Len(other)
        /\ (n + 1) - 1 = n
    BY <1>1
  <1>3. \A k \in 0 .. n : JoinedUpTo(parts)[k] = JoinedUpTo(other)[k]
    <2> HIDE DEF n
    <2> QED
      BY <1>1, <1>2, SameJoined
  <1>4. JoinedUpTo(parts)[n] = JoinedUpTo(other)[n]
    BY <1>2, <1>3
  <1>5. JoinedUpTo(other)[n + 1] = JoinedUpTo(other)[(n + 1) - 1] \o other[n + 1]
    BY <1>1, <1>2, JoinedStep
  <1>6. Joined(other) = Joined(parts) \o x
    BY <1>1, <1>2, <1>4, <1>5 DEF Joined
  <1> QED
    BY <1>1, <1>6 DEF other

\* The first part and the others.
LEMMA JoinedFirst ==
  ASSUME NEW parts \in Parts, Len(parts) >= 1
  PROVE  /\ Tail(parts) \in Parts /\ parts[1] \in Bytes
         /\ Joined(parts) = parts[1] \o Joined(Tail(parts))
  <1> DEFINE other == Tail(parts)
             J == JoinedUpTo(parts)
             K == JoinedUpTo(other)
             n == Len(other)
             Good == {k \in Nat : k <= n => J[k + 1] = parts[1] \o K[k]}
  <1>1. /\ other \in Parts /\ n \in Nat /\ Len(parts) = n + 1
        /\ \A k \in 1 .. n : other[k] = parts[k + 1]
    BY DEF Parts
  <1> HIDE DEF other
  <1>2. /\ J[0] = <<>> /\ K[0] = <<>>
        /\ \A k \in 1 .. Len(parts) : parts[k] \in Bytes /\ J[k] = J[k - 1] \o parts[k]
        /\ \A k \in 1 .. Len(other) : other[k] \in Bytes /\ K[k] = K[k - 1] \o other[k]
        /\ \A k \in 0 .. Len(other) : K[k] \in Bytes
    BY <1>1, JoinedStep
  <1> HIDE DEF J, K
  <1>3. 1 \in 1 .. Len(parts) /\ parts[1] \in Bytes
    BY <1>1, <1>2
  <1>4. Good = Nat
    <2>1. 0 \in Good
      <3>1. J[1] = J[0] \o parts[1]
        <4>1. J[1] = J[1 - 1] \o parts[1]
          BY <1>2, <1>3
        <4> QED
          BY <4>1
      <3>2. parts[1] \o K[0] = parts[1] /\ J[0] \o parts[1] = parts[1]
        BY <1>2, <1>3, NoBytes
      <3>3. J[0 + 1] = parts[1] \o K[0]
        BY <3>1, <3>2
      <3> QED
        BY <3>3
    <2>2. ASSUME NEW k \in Nat, k \in Good
          PROVE  k + 1 \in Good
      <3> SUFFICES ASSUME k + 1 <= n
                   PROVE  J[(k + 1) + 1] = parts[1] \o K[k + 1]
        <4> k + 1 \in Nat
          OBVIOUS
        <4> QED
          BY Zenon
      <3>1. /\ k + 1 \in 1 .. n /\ (k + 1) + 1 \in 1 .. Len(parts) /\ k \in 0 .. n
            /\ ((k + 1) + 1) - 1 = k + 1 /\ (k + 1) - 1 = k
        BY <1>1
      <3>2. J[k + 1] = parts[1] \o K[k]
        BY <1>1, <2>2, <3>1
      <3>3. J[(k + 1) + 1] = J[k + 1] \o parts[(k + 1) + 1]
        <4>1. J[(k + 1) + 1] = J[((k + 1) + 1) - 1] \o parts[(k + 1) + 1]
          BY <1>2, <3>1
        <4> QED
          BY <3>1, <4>1
      <3>4. K[k + 1] = K[k] \o other[k + 1] /\ other[k + 1] \in Bytes /\ K[k] \in Bytes
        <4>1. K[k + 1] = K[(k + 1) - 1] \o other[k + 1]
          BY <1>2, <3>1
        <4> QED
          BY <1>2, <3>1, <4>1
      <3>5. parts[(k + 1) + 1] = other[k + 1]
        BY <1>1, <3>1
      <3>6. (parts[1] \o K[k]) \o other[k + 1] = parts[1] \o (K[k] \o other[k + 1])
        BY <1>3, <3>4, Associative
      <3> QED
        BY <3>2, <3>3, <3>4, <3>5, <3>6
    <2> HIDE DEF Good
    <2> QED
      BY <2>1, <2>2, AllNat DEF Good
  <1>5. J[n + 1] = parts[1] \o K[n]
    BY <1>1, <1>4
  <1>6. Joined(parts) = parts[1] \o Joined(other)
    BY <1>1, <1>5 DEF Joined, J, K
  <1> QED
    BY <1>1, <1>3, <1>6 DEF other

\* Every part is in what is joined of them, which is as long as there are parts if none is
\* empty.
LEMMA JoinedLong ==
  ASSUME NEW parts \in Parts, \A k \in 1 .. Len(parts) : Len(parts[k]) >= 1
  PROVE  \A k \in 0 .. Len(parts) : Len(JoinedUpTo(parts)[k]) \in Nat /\ Len(JoinedUpTo(parts)[k]) >= k
  <1> DEFINE J == JoinedUpTo(parts)
             Good == {k \in Nat : k <= Len(parts) => Len(J[k]) >= k}
  <1>1. Len(parts) \in Nat
    BY DEF Parts
  <1>2. /\ J[0] = <<>>
        /\ \A k \in 1 .. Len(parts) : parts[k] \in Bytes /\ J[k] = J[k - 1] \o parts[k]
        /\ \A k \in 0 .. Len(parts) : J[k] \in Bytes
    BY JoinedStep
  <1> HIDE DEF J
  <1>3. Good = Nat
    <2>1. 0 \in Good
      BY <1>2, Empty
    <2>2. ASSUME NEW k \in Nat, k \in Good
          PROVE  k + 1 \in Good
      <3> SUFFICES ASSUME k + 1 <= Len(parts)
                   PROVE  Len(J[k + 1]) >= k + 1
        OBVIOUS
      <3>1. k + 1 \in 1 .. Len(parts) /\ k \in 0 .. Len(parts) /\ (k + 1) - 1 = k
        BY <1>1
      <3>2. parts[k + 1] \in Bytes /\ J[k] \in Bytes /\ J[k + 1] = J[k] \o parts[k + 1]
        <4>1. J[k + 1] = J[(k + 1) - 1] \o parts[k + 1]
          BY <1>2, <3>1
        <4> QED
          BY <1>2, <3>1, <4>1
      <3>3. /\ Len(J[k + 1]) = Len(J[k]) + Len(parts[k + 1]) /\ Len(J[k]) \in Nat
            /\ Len(parts[k + 1]) \in Nat /\ Len(parts[k + 1]) >= 1
        <4>1. Len(J[k] \o parts[k + 1]) = Len(J[k]) + Len(parts[k + 1])
          BY <3>2, Behind
        <4>2. Len(J[k]) \in Nat /\ Len(parts[k + 1]) \in Nat
          BY <3>2, BytesFacts
        <4> QED
          BY <3>1, <3>2, <4>1, <4>2
      <3>4. Len(J[k]) >= k
        BY <1>1, <2>2, <3>1
      <3>5. \A a, b, c \in Nat : a >= c /\ b >= 1 => a + b >= c + 1
        OBVIOUS
      <3> QED
        BY <3>3, <3>4, <3>5
    <2> HIDE DEF Good
    <2> QED
      BY <2>1, <2>2, AllNat DEF Good
  <1>4. ASSUME NEW k \in 0 .. Len(parts)
        PROVE  Len(J[k]) \in Nat /\ Len(J[k]) >= k
    <2>1. k \in Good /\ k <= Len(parts)
      BY <1>1, <1>3
    <2>2. J[k] \in Bytes
      BY <1>2
    <2> QED
      BY <2>1, <2>2, BytesFacts
  <1> QED
    BY <1>4 DEF J


-----------------------------------------------------------------------------
(* Digits of a number.                                                     *)

Base == {128, 256}

\* Each round of shifting drops one digit.
LEMMA ShiftedStep ==
  ASSUME NEW v \in Int, NEW base \in Base
  PROVE  /\ Shifted(v, base, 0) = v
         /\ \A k \in Nat : Shifted(v, base, k) \in Int
         /\ \A k \in Nat : Shifted(v, base, k + 1) = Shifted(v, base, k) \div base
  <1> DEFINE step == [k \in Nat |-> [x \in Int |-> x \div base]]
             J == Iterated(step, v)
             Good == {k \in Nat : J[k] \in Int}
  <1>1. J[0] = v /\ \A k \in Nat : J[k + 1] = step[k + 1][J[k]]
    <2> HIDE DEF step
    <2> QED
      BY IteratedIs
  <1>2. \A x \in Int : x \div base \in Int
    BY DEF Base
  <1> HIDE DEF J
  <1>3. ASSUME NEW k \in Nat, J[k] \in Int
        PROVE  J[k + 1] = J[k] \div base
    <2>1. k + 1 \in Nat
      OBVIOUS
    <2>2. step[k + 1] = [x \in Int |-> x \div base]
      BY <2>1
    <2>3. step[k + 1][J[k]] = J[k] \div base
      BY <1>3, <2>2
    <2> QED
      BY <1>1, <2>3
  <1> HIDE DEF step
  <1>4. Good = Nat
    <2>1. 0 \in Good
      BY <1>1
    <2>2. ASSUME NEW k \in Nat, k \in Good
          PROVE  k + 1 \in Good
      <3>1. J[k + 1] = J[k] \div base
        BY <1>3, <2>2
      <3> QED
        BY <1>2, <2>2, <3>1
    <2> HIDE DEF Good
    <2> QED
      BY <2>1, <2>2, AllNat DEF Good
  <1>5. \A k \in Nat : J[k] \in Int
    BY <1>4
  <1>6. \A k \in Nat : Shifted(v, base, k) = J[k]
    BY DEF Shifted, J, step
  <1> QED
    BY <1>1, <1>3, <1>5, <1>6

\* What the loop over n digits has made of top after each of its rounds.
Rounds(base, top, digits, n, f) ==
  /\ n \in Nat /\ Len(digits) = n
  /\ \A k \in 0 .. n : f[k] \in Int
  /\ f[0] = top
  /\ \A k \in 1 .. n : digits[k] \in Int /\ f[k] = (base * f[k - 1]) + digits[k]

\* A number is what is left after the last round.
LEMMA NumberIs ==
  ASSUME NEW base, base \in Nat, NEW top, NEW digits, NEW n, NEW f, Rounds(base, top, digits, n, f)
  PROVE  Number(base, top, digits) = f[n]
  <1> DEFINE step == [k \in Nat |-> [x \in Int |-> (base * x) + digits[k]]]
             J == Iterated(step, top)
             Good == {k \in Nat : k <= n => J[k] = f[k]}
  <1> n \in Nat /\ Len(digits) = n
    BY DEF Rounds
  <1>1. f[0] = top /\ \A k \in 0 .. n : f[k] \in Int
    BY DEF Rounds
  <1>2. \A k \in 1 .. n : digits[k] \in Int /\ f[k] = (base * f[k - 1]) + digits[k]
    BY DEF Rounds
  <1>3. J[0] = top /\ \A k \in Nat : J[k + 1] = step[k + 1][J[k]]
    <2> HIDE DEF step
    <2> QED
      BY ONLY IteratedIs
  <1> HIDE DEF J
  <1>4. Good = Nat
    <2>1. 0 \in Good
      BY <1>3, <1>1
    <2>2. ASSUME NEW k \in Nat, k \in Good
          PROVE  k + 1 \in Good
      <3> SUFFICES ASSUME k + 1 <= n
                   PROVE  J[k + 1] = f[k + 1]
        OBVIOUS
      <3>1. k \in 0 .. n /\ k + 1 \in 1 .. n /\ (k + 1) - 1 = k /\ J[k] = f[k]
        BY <2>2
      <3>2. f[k + 1] = (base * f[(k + 1) - 1]) + digits[k + 1]
        BY <1>2, <3>1
      <3>3. k + 1 \in Nat /\ f[k] \in Int
        BY <1>1, <3>1
      <3>4. step[k + 1] = [x \in Int |-> (base * x) + digits[k + 1]]
        BY <3>3
      <3>5. step[k + 1][J[k]] = (base * f[k]) + digits[k + 1]
        BY <3>1, <3>3, <3>4
      <3>6. f[(k + 1) - 1] = f[k]
        BY <3>1
      <3> HIDE DEF step
      <3> QED
        BY <1>3, <3>2, <3>5, <3>6
    <2> HIDE DEF Good
    <2> QED
      BY <2>1, <2>2, AllNat DEF Good
  <1>5. J[n] = f[n]
    BY ONLY n \in Nat, <1>4
  <1> QED
    BY <1>5 DEF Number, J, step

\* Division by a base, and what is left.
LEMMA DivMod ==
  ASSUME NEW x \in Int, NEW base \in Base
  PROVE  /\ x \div base \in Int /\ x % base \in 0 .. base - 1
         /\ (base * (x \div base)) + (x % base) = x
         /\ x \in Nat => x \div base \in Nat
  <1>1. x \div 128 \in Int /\ (x \in Nat => x \div 128 \in Nat)
    OBVIOUS
  <1>2. x % 128 \in 0 .. 127
    OBVIOUS
  <1>3. (128 * (x \div 128)) + (x % 128) = x
    OBVIOUS
  <1>4. x \div 256 \in Int /\ (x \in Nat => x \div 256 \in Nat)
    OBVIOUS
  <1>5. x % 256 \in 0 .. 255
    OBVIOUS
  <1>6. (256 * (x \div 256)) + (x % 256) = x
    OBVIOUS
  <1> QED
    BY <1>1, <1>2, <1>3, <1>4, <1>5, <1>6 DEF Base

\* A digit and what is above it.
LEMMA DigitOf ==
  ASSUME NEW v \in Int, NEW base \in Base, NEW k \in Nat \ {0}
  PROVE  /\ Shifted(v, base, k) \in Int /\ Shifted(v, base, k - 1) \in Int
         /\ Shifted(v, base, k - 1) % base \in 0 .. base - 1
         /\ (base * Shifted(v, base, k)) + (Shifted(v, base, k - 1) % base) = Shifted(v, base, k - 1)
         /\ Shifted(v, base, k) = Shifted(v, base, k - 1) \div base
  <1>1. k - 1 \in Nat /\ (k - 1) + 1 = k /\ k \in Nat
    OBVIOUS
  <1>2. Shifted(v, base, (k - 1) + 1) = Shifted(v, base, k - 1) \div base
    BY <1>1, ShiftedStep
  <1>3. Shifted(v, base, k) \in Int /\ Shifted(v, base, k - 1) \in Int
    BY <1>1, ShiftedStep
  <1> DEFINE x == Shifted(v, base, k - 1)
  <1>4. Shifted(v, base, k) = x \div base
    BY <1>1, <1>2
  <1>5. x \in Int
    BY <1>3
  <1> HIDE DEF x
  <1>6. x % base \in 0 .. base - 1 /\ (base * (x \div base)) + (x % base) = x
    BY <1>5, DivMod
  <1> QED
    BY <1>3, <1>4, <1>6 DEF x

\* Integers are written as bytes.
LEMMA BigEndianBytes ==
  ASSUME NEW v \in Int, NEW n \in Nat
  PROVE  /\ BigEndian(v, n) \in Bytes /\ Len(BigEndian(v, n)) = n
         /\ \A k \in 1 .. n : BigEndian(v, n)[k] = Shifted(v, 256, n - k) % 256
  <1> DEFINE f == [k \in 1 .. n |-> Shifted(v, 256, n - k) % 256]
  <1>1. ASSUME NEW k \in 1 .. n
        PROVE  f[k] \in Byte
    <2>4. 256 \in Base
      BY DEF Base
    <2>5. n - k \in Nat
      <3>1. \A a \in Nat : \A b \in 1 .. a : a - b \in Nat
        BY ONLY TRUE
      <3> QED
        BY ONLY <3>1, n \in Nat, k \in 1 .. n
    <2>1. 256 \in Base /\ n - k \in Nat
      BY <2>4, <2>5
    <2>6. \A m \in Nat : Shifted(v, 256, m) \in Int
      BY <2>4, ShiftedStep
    <2>2. Shifted(v, 256, n - k) \in Int
      BY ONLY <2>1, <2>6
    <2>3. Shifted(v, 256, n - k) % 256 \in 0 .. 256 - 1
      BY <2>1, <2>2, DivMod
    <2> QED
      BY <2>3 DEF Byte
  <1>2. f = [k \in 1 .. n |-> f[k]] /\ \A k \in 1 .. n : f[k] = Shifted(v, 256, n - k) % 256
    OBVIOUS
  <1> HIDE DEF f
  <1>3. [k \in 1 .. n |-> f[k]] \in Bytes /\ Len([k \in 1 .. n |-> f[k]]) = n
    BY <1>1, MakeBytes
  <1>4. f \in Bytes /\ Len(f) = n
    BY <1>2, <1>3
  <1> QED
    BY <1>2, <1>4 DEF f, BigEndian

\* Unsigned integers are read as they are written.
LEMMA UnsignedBack ==
  ASSUME NEW n \in Nat, NEW v, IsUnsigned(v, n)
  PROVE  Unsigned(BigEndian(v, n)) = v
  <1> DEFINE digits == BigEndian(v, n)
             f == [k \in 0 .. n |-> Shifted(v, 256, n - k)]
  <1>1. v \in Int /\ Shifted(v, 256, n) = 0
    BY DEF IsUnsigned
  <1>2. 256 \in Base /\ 256 \in Nat /\ 0 \in Int
    BY DEF Base
  <1>3. /\ Len(digits) = n /\ digits \in Bytes
        /\ \A k \in 1 .. n : digits[k] = Shifted(v, 256, n - k) % 256
    BY <1>1, BigEndianBytes
  <1>4. \A k \in 1 .. n : digits[k] \in Int
    BY <1>3, BytesFacts
  <1>5. ASSUME NEW k \in 0 .. n
        PROVE  f[k] \in Int
    <2>1. n - k \in Nat
      OBVIOUS
    <2>2. Shifted(v, 256, n - k) \in Int
      BY <1>1, <1>2, <2>1, ShiftedStep
    <2> QED
      BY <2>2
  <1> HIDE DEF digits
  <1>6. f[0] = 0
    BY <1>1
  <1>7. ASSUME NEW k \in 1 .. n
        PROVE  f[k] = (256 * f[k - 1]) + digits[k]
    <2>1. k - 1 \in 0 .. n /\ (n - k) + 1 \in Nat \ {0} /\ ((n - k) + 1) - 1 = n - k
          /\ n - (k - 1) = (n - k) + 1
      OBVIOUS
    <2>2. f[k] = Shifted(v, 256, n - k) /\ f[k - 1] = Shifted(v, 256, (n - k) + 1)
      BY <2>1
    <2>3. (256 * Shifted(v, 256, (n - k) + 1)) + (Shifted(v, 256, ((n - k) + 1) - 1) % 256)
          = Shifted(v, 256, ((n - k) + 1) - 1)
      BY <1>1, <1>2, <2>1, DigitOf
    <2>4. (256 * Shifted(v, 256, (n - k) + 1)) + (Shifted(v, 256, n - k) % 256)
          = Shifted(v, 256, n - k)
      BY <2>1, <2>3
    <2>5. digits[k] = Shifted(v, 256, n - k) % 256
      BY <1>3
    <2> HIDE DEF f
    <2> QED
      BY <2>2, <2>4, <2>5
  <1>8. f[n] = v
    <2>1. n - n = 0 /\ n \in 0 .. n
      OBVIOUS
    <2>2. Shifted(v, 256, 0) = v
      BY <1>1, <1>2, ShiftedStep
    <2> QED
      BY <2>1, <2>2
  <1> HIDE DEF f
  <1>9. Rounds(256, 0, digits, n, f)
    BY <1>3, <1>4, <1>5, <1>6, <1>7 DEF Rounds
  <1>10. Number(256, 0, digits) = f[n]
    BY <1>2, <1>9, NumberIs
  <1> QED
    BY <1>8, <1>10 DEF Unsigned, digits

\* Signed integers are.
LEMMA SignedBack ==
  ASSUME NEW n \in Nat \ {0}, NEW v, IsSigned(v, n)
  PROVE  Signed(BigEndian(v, n)) = v
  <1> DEFINE bytes == BigEndian(v, n)
             digits == Tail(bytes)
             top == IF bytes[1] < 128 THEN bytes[1] ELSE bytes[1] - 256
             m == n - 1
             f == [k \in 0 .. m |-> Shifted(v, 256, m - k)]
  <1>1. v \in Int /\ Shifted(v, 256, n - 1) \in -128 .. 127
    BY DEF IsSigned
  <1>2. 256 \in Base /\ 256 \in Nat /\ m \in Nat
    BY DEF Base
  <1>3. /\ Len(bytes) = n /\ bytes \in Bytes
        /\ \A k \in 1 .. n : bytes[k] = Shifted(v, 256, n - k) % 256
    BY <1>1, BigEndianBytes
  <1>4. top = Shifted(v, 256, m)
    <2>1. bytes[1] = Shifted(v, 256, n - 1) % 256
      BY <1>3
    <2> DEFINE x == Shifted(v, 256, n - 1)
    <2>2. x \in -128 .. 127 /\ bytes[1] = x % 256
      BY <1>1, <2>1
    <2> HIDE DEF x, bytes
    <2>3. CASE x >= 0
      <3>1. x % 256 = x
        BY <2>2, <2>3
      <3> QED
        BY <2>2, <2>3, <3>1 DEF x
    <2>4. CASE x < 0
      <3>1. x % 256 = x + 256
        BY <2>2, <2>4
      <3> QED
        BY <2>2, <2>4, <3>1 DEF x
    <2> QED
      BY <2>2, <2>3, <2>4
  <1> HIDE DEF bytes
  <1>5. Len(digits) = m /\ \A k \in 1 .. m : digits[k] = bytes[k + 1]
    BY <1>3 DEF Bytes
  <1> HIDE DEF digits
  <1>6. ASSUME NEW k \in 1 .. m
        PROVE  digits[k] = Shifted(v, 256, m - k) % 256 /\ digits[k] \in Int
    <2>1. k + 1 \in 1 .. n /\ n - (k + 1) = m - k
      OBVIOUS
    <2>2. bytes[k + 1] = Shifted(v, 256, n - (k + 1)) % 256
      BY <1>3, <2>1
    <2>3. bytes[k + 1] \in Int
      BY <1>3, <2>1, BytesFacts
    <2> HIDE DEF m
    <2> QED
      BY <1>5, <2>1, <2>2, <2>3
  <1> HIDE DEF m, top
  <1>7. ASSUME NEW k \in 0 .. m
        PROVE  f[k] \in Int
    <2>1. m - k \in Nat
      BY <1>2
    <2>2. Shifted(v, 256, m - k) \in Int
      BY <1>1, <1>2, <2>1, ShiftedStep
    <2> QED
      BY <2>2
  <1>8. f[0] = top
    BY <1>2, <1>4
  <1>9. ASSUME NEW k \in 1 .. m
        PROVE  f[k] = (256 * f[k - 1]) + digits[k]
    <2>1. k - 1 \in 0 .. m /\ (m - k) + 1 \in Nat \ {0} /\ ((m - k) + 1) - 1 = m - k
          /\ m - (k - 1) = (m - k) + 1 /\ k \in 0 .. m
      BY <1>2
    <2>2. f[k] = Shifted(v, 256, m - k) /\ f[k - 1] = Shifted(v, 256, (m - k) + 1)
      BY <2>1
    <2>3. (256 * Shifted(v, 256, (m - k) + 1)) + (Shifted(v, 256, ((m - k) + 1) - 1) % 256)
          = Shifted(v, 256, ((m - k) + 1) - 1)
      BY <1>1, <1>2, <2>1, DigitOf
    <2>4. (256 * Shifted(v, 256, (m - k) + 1)) + (Shifted(v, 256, m - k) % 256)
          = Shifted(v, 256, m - k)
      BY <2>1, <2>3
    <2> HIDE DEF f
    <2> QED
      BY <1>6, <2>2, <2>4
  <1>10. f[m] = v
    <2>1. m - m = 0 /\ m \in 0 .. m
      BY <1>2
    <2>2. Shifted(v, 256, 0) = v
      BY <1>1, <1>2, ShiftedStep
    <2> QED
      BY <2>1, <2>2
  <1> HIDE DEF f
  <1>11. Rounds(256, top, digits, m, f)
    BY <1>2, <1>5, <1>6, <1>7, <1>8, <1>9 DEF Rounds
  <1>12. Number(256, top, digits) = f[m]
    BY <1>2, <1>11, NumberIs
  <1> QED
    BY <1>10, <1>12 DEF Signed, bytes, digits, top

\* What is written as a VarInt.
Small == 0 .. MaxInt

\* What an int holds, as the provers are told of it.
LEMMA SmallInt == \A v \in Small : v \in Nat /\ v \in Int /\ v <= 2147483647
  <1>1. MaxInt \in Int /\ MaxInt = 2147483647
    BY SMT DEF MaxInt
  <1>2. \A v \in Small : v \in Nat /\ v <= MaxInt
    <2>1. \A n \in Int : \A v \in 0 .. n : v \in Nat /\ v <= n
      OBVIOUS
    <2>2. MaxInt \in Int
      BY <1>1
    <2> QED
      BY <2>1, <2>2, Zenon DEF Small
  <1> QED
    BY <1>1, <1>2, SMT

\* A VarInt of at most 31 bits has no more than five bytes.
LEMMA FiveGroups ==
  ASSUME NEW v \in Small
  PROVE  /\ Shifted(v, 128, 5) = 0
         /\ \A k \in 0 .. 5 : Shifted(v, 128, k) \in Nat
  <1> DEFINE S(k) == Shifted(v, 128, k)
  <1>1. 128 \in Base /\ v \in Int
    BY SmallInt DEF Base
  <1>2. S(0) = v
    BY <1>1, ShiftedStep
  <1>3. ASSUME NEW k \in Nat
        PROVE  S(k + 1) = S(k) \div 128
    <2>1. Shifted(v, 128, k + 1) = Shifted(v, 128, k) \div 128
      <3>1. PICK base \in Base : base = 128
        BY <1>1
      <3>2. Shifted(v, base, k + 1) = Shifted(v, base, k) \div base
        BY <1>1, ShiftedStep
      <3> QED
        BY <3>1, <3>2
    <2> QED
      BY <2>1
  <1> HIDE DEF S
  <1>4. /\ S(0 + 1) = S(0) \div 128 /\ S(1 + 1) = S(1) \div 128 /\ S(2 + 1) = S(2) \div 128
        /\ S(3 + 1) = S(3) \div 128 /\ S(4 + 1) = S(4) \div 128
    BY <1>3
  <1>5. S(1) = S(0) \div 128 /\ S(2) = S(1) \div 128 /\ S(3) = S(2) \div 128
        /\ S(4) = S(3) \div 128 /\ S(5) = S(4) \div 128
    BY <1>4
  <1>6. S(0) \in Nat /\ S(0) <= 2147483647
    BY <1>2, SmallInt
  <1>7. S(1) \in Nat /\ S(1) <= 16777215
    BY <1>5, <1>6, SMT
  <1>8. S(2) \in Nat /\ S(2) <= 131071
    BY <1>5, <1>7, SMT
  <1>9. S(3) \in Nat /\ S(3) <= 1023
    BY <1>5, <1>8, SMT
  <1>10. S(4) \in Nat /\ S(4) <= 7
    BY <1>5, <1>9
  <1>11. S(5) = 0
    BY <1>5, <1>10
  <1>12. ASSUME NEW k \in 0 .. 5
         PROVE  S(k) \in Nat
    <2>1. k = 0 \/ k = 1 \/ k = 2 \/ k = 3 \/ k = 4 \/ k = 5
      OBVIOUS
    <2> QED
      BY <1>6, <1>7, <1>8, <1>9, <1>10, <1>11, <2>1, SMT
  <1> QED
    BY <1>11, <1>12 DEF S

\* The groups of a VarInt: the last is the first behind which nothing is left.
Groups(v, n) ==
  /\ n \in 1 .. 5 /\ Shifted(v, 128, n) = 0
  /\ \A k \in 1 .. n - 1 : Shifted(v, 128, k) # 0

\* The bytes of a VarInt.
LEMMA VarintBytes ==
  ASSUME NEW v \in Small
  PROVE  /\ Varint(v) \in Bytes /\ Groups(v, Len(Varint(v)))
         /\ \A k \in 1 .. Len(Varint(v)) :
              /\ Varint(v)[k] >= 128 <=> k < Len(Varint(v))
              /\ Varint(v)[k] % 128 = Shifted(v, 128, k - 1) % 128
  <1> DEFINE n == CHOOSE m \in 1 .. 5 :
                    /\ Shifted(v, 128, m) = 0
                    /\ \A k \in 1 .. m - 1 : Shifted(v, 128, k) # 0
             f == [k \in 1 .. n |-> (Shifted(v, 128, k - 1) % 128) + (IF k < n THEN 128 ELSE 0)]
  <1>1. Groups(v, n)
    <2> DEFINE Ends == {m \in 1 .. 5 : Shifted(v, 128, m) = 0}
    <2>1. 5 \in Ends /\ Ends \subseteq Nat
      BY FiveGroups
    <2>2. Min(Ends) \in Ends /\ \A y \in Ends : Min(Ends) <= y
      <3> HIDE DEF Ends
      <3> QED
        BY <2>1, MinLeast
    <2> DEFINE m == Min(Ends)
    <2>3. m \in 1 .. 5 /\ Shifted(v, 128, m) = 0
      BY <2>2
    <2>4. \A k \in 1 .. m - 1 : Shifted(v, 128, k) # 0
      <3> SUFFICES ASSUME NEW k \in 1 .. m - 1, Shifted(v, 128, k) = 0
                   PROVE  FALSE
        OBVIOUS
      <3> HIDE DEF m
      <3>1. k \in 1 .. 5 /\ ~(m <= k)
        BY <2>3
      <3>2. k \in Ends
        BY <3>1
      <3> QED
        BY <2>2, <3>1, <3>2 DEF m
    <2> HIDE DEF m
    <2>5. \E j \in 1 .. 5 : /\ Shifted(v, 128, j) = 0
                            /\ \A k \in 1 .. j - 1 : Shifted(v, 128, k) # 0
      BY <2>3, <2>4
    <2> QED
      BY <2>5 DEF Groups
  <1>2. Varint(v) = f
    BY DEF Varint
  <1> HIDE DEF n
  <1>3. n \in 1 .. 5 /\ n \in Nat
    BY <1>1 DEF Groups
  <1>4. ASSUME NEW k \in 1 .. n
        PROVE  /\ f[k] \in Byte /\ (f[k] >= 128 <=> k < n)
               /\ f[k] % 128 = Shifted(v, 128, k - 1) % 128
    <2> DEFINE x == Shifted(v, 128, k - 1)
    <2>1. k - 1 \in Nat /\ 128 \in Base /\ v \in Int
      BY <1>3, SmallInt DEF Base
    <2>2. x \in Int
      BY <2>1, ShiftedStep
    <2>3. f[k] = (x % 128) + (IF k < n THEN 128 ELSE 0)
      OBVIOUS
    <2> HIDE DEF x, f
    <2> DEFINE y == x % 128
    <2>4. y \in 0 .. 128 - 1
      BY <2>1, <2>2, DivMod
    <2>5. f[k] = y + (IF k < n THEN 128 ELSE 0)
      BY <2>3
    <2> HIDE DEF y
    <2>6. y % 128 = y /\ (y + 128) % 128 = y
      BY <2>4
    <2>7. f[k] \in 0 .. 255 /\ (f[k] >= 128 <=> k < n) /\ f[k] % 128 = y
      BY <1>3, <2>4, <2>5, <2>6
    <2> QED
      BY <2>7 DEF Byte, x, y
  <1>5. f = [k \in 1 .. n |-> f[k]]
    OBVIOUS
  <1> HIDE DEF f
  <1>6. [k \in 1 .. n |-> f[k]] \in Bytes /\ Len([k \in 1 .. n |-> f[k]]) = n
    BY <1>3, <1>4, MakeBytes
  <1>7. f \in Bytes /\ Len(f) = n
    BY <1>5, <1>6
  <1> QED
    BY <1>1, <1>2, <1>4, <1>7

\* A VarInt is read as it is written.
LEMMA VarintBack ==
  ASSUME NEW v \in Small, NEW data \in Bytes, NEW at \in Nat, Holds(data, at, Varint(v))
  PROVE  ReadVarint(data, at) = <<v, at + Len(Varint(v))>>
  <1> DEFINE x == Varint(v)
             n == Len(x)
             bytes == BytesAt(data, at, 5)
  <1>1. /\ x \in Bytes /\ Groups(v, n)
        /\ \A k \in 1 .. n : /\ x[k] >= 128 <=> k < n
                             /\ x[k] % 128 = Shifted(v, 128, k - 1) % 128
    BY VarintBytes
  <1>2. n \in 1 .. 5 /\ Shifted(v, 128, n) = 0
    BY <1>1 DEF Groups
  <1>3. Holds(data, at, x)
    OBVIOUS
  <1>4. \A k \in 1 .. n : x[k] \in Nat
    <2> HIDE DEF x
    <2> QED
      BY <1>1, BytesFacts
  <1> HIDE DEF x
  <1>5. \A k \in 1 .. n : bytes[k] = x[k]
    <2> SUFFICES ASSUME NEW k \in 1 .. n
                 PROVE  bytes[k] = x[k]
      OBVIOUS
    <2>1. Len(data) \in Nat /\ at + n <= Len(data) /\ data[at + k] = x[k]
      BY <1>3, BytesFacts DEF Holds
    <2> HIDE DEF n
    <2>2. k \in 1 .. 5 /\ at + k <= Len(data)
      BY <1>2, <2>1
    <2> QED
      BY <2>1, <2>2 DEF BytesAt
  <1> HIDE DEF bytes, n
  <1> DEFINE Ends(m) == /\ m \in 1 .. 5 /\ (m = 5 \/ bytes[m] < 128)
                        /\ \A k \in 1 .. m - 1 : bytes[k] >= 128
             last == CHOOSE m \in 1 .. 5 : /\ m = 5 \/ bytes[m] < 128
                                           /\ \A k \in 1 .. m - 1 : bytes[k] >= 128
  <1>6. \A k \in 1 .. n : bytes[k] \in Nat /\ (bytes[k] >= 128 <=> k < n)
    BY <1>1, <1>4, <1>5
  <1>7. Ends(n)
    BY <1>2, <1>6
  <1>8. ASSUME NEW m, Ends(m)
        PROVE  m = n
    <2>1. CASE m < n
      BY <1>2, <1>6, <1>8, <2>1
    <2>2. CASE n < m
      <3>1. bytes[n] >= 128 /\ bytes[n] \in Nat /\ ~(bytes[n] >= 128)
        BY <1>2, <1>6, <1>8, <2>2
      <3> QED
        BY <3>1
    <2> QED
      BY <1>2, <1>8, <2>1, <2>2
  <1>9. last = n
    <2>1. \E m \in 1 .. 5 : /\ m = 5 \/ bytes[m] < 128
                            /\ \A k \in 1 .. m - 1 : bytes[k] >= 128
      BY <1>7
    <2>2. Ends(last)
      BY <2>1
    <2> HIDE DEF Ends, last
    <2> QED
      BY <1>8, <2>2
  <1> DEFINE groups == [k \in 1 .. n |-> bytes[k] % 128]
             digits == Reversed(groups)
             f == [k \in 0 .. n |-> Shifted(v, 128, n - k)]
  <1>10. Len(digits) = n /\ \A k \in 1 .. n : digits[k] = bytes[n + 1 - k] % 128
    <2>1. Len(groups) = n
      BY <1>2
    <2>2. digits = [k \in 1 .. n |-> groups[n + 1 - k]]
      <3> HIDE DEF groups
      <3> QED
        BY <2>1 DEF Reversed
    <2>3. \A k \in 1 .. n : groups[k] = bytes[k] % 128
      OBVIOUS
    <2> HIDE DEF digits, groups
    <2>4. Len(digits) = n /\ \A k \in 1 .. n : digits[k] = groups[n + 1 - k]
      BY <1>2, <2>2
    <2>5. \A k \in 1 .. n : n + 1 - k \in 1 .. n
      BY <1>2
    <2> QED
      BY <2>3, <2>4, <2>5
  <1>11. Number(128, 0, digits) = v
    <2>1. 128 \in Base /\ 128 \in Nat /\ v \in Int /\ n \in Nat
      BY <1>2, SmallInt DEF Base
    <2> HIDE DEF digits
    <2>2. ASSUME NEW k \in 0 .. n
          PROVE  f[k] \in Int
      <3>1. n - k \in Nat
        BY <1>2
      <3>2. Shifted(v, 128, n - k) \in Int
        BY <2>1, <3>1, ShiftedStep
      <3> QED
        BY <3>2
    <2>3. f[0] = 0
      BY <1>2
    <2>4. ASSUME NEW k \in 1 .. n
          PROVE  digits[k] \in Int /\ f[k] = (128 * f[k - 1]) + digits[k]
      <3>1. /\ k - 1 \in 0 .. n /\ k \in 0 .. n /\ (n - k) + 1 \in Nat \ {0} /\ n - k \in Nat
            /\ ((n - k) + 1) - 1 = n - k /\ n - (k - 1) = (n - k) + 1
            /\ n + 1 - k \in 1 .. n /\ (n + 1 - k) - 1 = n - k
        BY <1>2
      <3>2. f[k] = Shifted(v, 128, n - k) /\ f[k - 1] = Shifted(v, 128, (n - k) + 1)
        BY <3>1
      <3>3. digits[k] = Shifted(v, 128, n - k) % 128
        <4>1. digits[k] = bytes[n + 1 - k] % 128 /\ bytes[n + 1 - k] = x[n + 1 - k]
          BY <1>5, <1>10, <3>1
        <4>2. x[n + 1 - k] % 128 = Shifted(v, 128, (n + 1 - k) - 1) % 128
          BY <1>1, <3>1
        <4> QED
          BY <3>1, <4>1, <4>2
      <3>4. (128 * Shifted(v, 128, (n - k) + 1)) + (Shifted(v, 128, ((n - k) + 1) - 1) % 128)
            = Shifted(v, 128, ((n - k) + 1) - 1)
        BY <2>1, <3>1, DigitOf
      <3>5. (128 * Shifted(v, 128, (n - k) + 1)) + (Shifted(v, 128, n - k) % 128)
            = Shifted(v, 128, n - k)
        BY <3>1, <3>4
      <3>6. digits[k] \in Int
        <4>1. Shifted(v, 128, n - k) \in Int
          BY <2>1, <3>1, ShiftedStep
        <4>2. Shifted(v, 128, n - k) % 128 \in 0 .. 128 - 1
          BY <2>1, <4>1, DivMod
        <4> QED
          BY <3>3, <4>2
      <3> HIDE DEF f
      <3> QED
        BY <3>2, <3>3, <3>5, <3>6
    <2>5. Rounds(128, 0, digits, n, f)
      <3> HIDE DEF f
      <3> QED
        BY <1>10, <2>1, <2>2, <2>3, <2>4 DEF Rounds
    <2>6. f[n] = v
      <3>1. n - n = 0 /\ n \in 0 .. n
        BY <1>2
      <3>2. Shifted(v, 128, 0) = v
        BY <2>1, ShiftedStep
      <3> QED
        BY <3>1, <3>2
    <2> HIDE DEF f
    <2> QED
      BY <2>1, <2>5, <2>6, NumberIs
  <1>12. ReadVarint(data, at) = <<Number(128, 0, Reversed([k \in 1 .. last |-> bytes[k] % 128])), at + last>>
    BY DEF ReadVarint, bytes
  <1> QED
    <2> HIDE DEF last
    <2>1. ReadVarint(data, at) = <<Number(128, 0, Reversed([k \in 1 .. n |-> bytes[k] % 128])), at + n>>
      BY <1>9, <1>12
    <2> QED
      BY <1>11, <2>1 DEF n, x

-----------------------------------------------------------------------------
(* UUIDs: whatever their text is taken for, they are sixteen bytes.        *)

Characters == 0 .. 16

\* Digits make a number.
LEMMA NumberInt ==
  ASSUME NEW digits, digits \in Seq(Characters), NEW top, top \in Int
  PROVE  Number(16, top, digits) \in Int
  <1> DEFINE step == [k \in Nat |-> [x \in Int |-> (16 * x) + digits[k]]]
             J == Iterated(step, top)
             Good == {k \in Nat : k <= Len(digits) => J[k] \in Int}
  <1>1. J[0] = top /\ \A k \in Nat : J[k + 1] = step[k + 1][J[k]]
    <2> HIDE DEF step
    <2> QED
      BY ONLY IteratedIs
  <1>2. Len(digits) \in Nat /\ \A k \in 1 .. Len(digits) : digits[k] \in Int
    <2>1. Len(digits) \in Nat /\ \A k \in 1 .. Len(digits) : digits[k] \in Characters
      OBVIOUS
    <2>2. \A c \in Characters : c \in Int
      BY DEF Characters
    <2> QED
      BY <2>1, <2>2
  <1> HIDE DEF J
  <1>3. Good = Nat
    <2>1. 0 \in Good
      BY <1>1
    <2>2. ASSUME NEW k \in Nat, k \in Good
          PROVE  k + 1 \in Good
      <3> SUFFICES ASSUME k + 1 <= Len(digits)
                   PROVE  J[k + 1] \in Int
        OBVIOUS
      <3>1. k + 1 \in 1 .. Len(digits) /\ k + 1 \in Nat /\ J[k] \in Int
        BY <1>2, <2>2
      <3>2. step[k + 1] = [x \in Int |-> (16 * x) + digits[k + 1]]
        BY <3>1
      <3>3. step[k + 1][J[k]] = (16 * J[k]) + digits[k + 1]
        BY <3>1, <3>2
      <3> HIDE DEF step
      <3>4. digits[k + 1] \in Int
        BY <1>2, <3>1
      <3>5. (16 * J[k]) + digits[k + 1] \in Int
        BY <3>1, <3>4
      <3>6. J[k + 1] = step[k + 1][J[k]]
        BY <1>1
      <3> QED
        BY <3>3, <3>5, <3>6
    <2> HIDE DEF Good
    <2> QED
      BY <2>1, <2>2, AllNat DEF Good
  <1>4. J[Len(digits)] \in Int
    BY <1>2, <1>3
  <1> QED
    BY <1>4 DEF Number, J, step

\* Digits are read up to the next hyphen.
LEMMA DigitsTyped ==
  ASSUME NEW str \in Seq(Characters), NEW at \in Nat, at <= Len(str)
  PROVE  \E n \in 0 .. Len(str) - at :
           /\ DigitsAt(str, at) \in Seq(Characters) /\ Len(DigitsAt(str, at)) = n
           /\ at + n = Len(str) \/ str[at + n + 1] = Hyphen
  <1> DEFINE n == CHOOSE k \in 0 .. Len(str) - at :
                    /\ at + k = Len(str) \/ str[at + k + 1] = Hyphen
                    /\ \A j \in 1 .. k : str[at + j] # Hyphen
             Ends == {k \in 0 .. Len(str) - at : at + k = Len(str) \/ str[at + k + 1] = Hyphen}
             e == Min(Ends)
  <1>1. Len(str) \in Nat
    OBVIOUS
  <1>2. Len(str) - at \in Ends /\ Ends \subseteq Nat
    BY <1>1
  <1>3. e \in Ends /\ \A y \in Ends : e <= y
    <2> HIDE DEF Ends
    <2> QED
      BY <1>2, MinLeast
  <1> HIDE DEF e
  <1>4. e \in 0 .. Len(str) - at /\ (at + e = Len(str) \/ str[at + e + 1] = Hyphen)
    BY <1>3
  <1>5. \A j \in 1 .. e : str[at + j] # Hyphen
    <2> SUFFICES ASSUME NEW j \in 1 .. e, str[at + j] = Hyphen
                 PROVE  FALSE
      OBVIOUS
    <2>1. j - 1 \in 0 .. Len(str) - at /\ at + (j - 1) + 1 = at + j /\ ~(e <= j - 1)
      BY <1>1, <1>4
    <2>2. j - 1 \in Ends
      BY <2>1
    <2> QED
      BY <1>3, <2>1, <2>2
  <1> HIDE DEF Ends
  <1>6. /\ n \in 0 .. Len(str) - at
        /\ at + n = Len(str) \/ str[at + n + 1] = Hyphen
    BY <1>4, <1>5
  <1>7. DigitsAt(str, at) = SubSeq(str, at + 1, at + n)
    BY DEF DigitsAt
  <1> HIDE DEF n
  <1>8. SubSeq(str, at + 1, at + n) \in Seq(Characters) /\ Len(SubSeq(str, at + 1, at + n)) = n
    <2>1. /\ at + 1 \in 1 .. Len(str) + 1 /\ at + n \in (at + 1) - 1 .. Len(str)
          /\ (at + n) - (at + 1) + 1 = n
      BY <1>1, <1>6
    <2> QED
      BY <1>1, <1>6, <2>1
  <1> QED
    BY <1>6, <1>7, <1>8

\* strtol returns an integer.
LEMMA StrtolInt ==
  ASSUME NEW str \in Seq(Characters), NEW at \in Nat, at < Len(str)
  PROVE  Strtol(str, at) \in Int
  <1>1. at + 1 \in Nat /\ at + 1 <= Len(str) /\ at <= Len(str)
    OBVIOUS
  <1>2. DigitsAt(str, at + 1) \in Seq(Characters) /\ DigitsAt(str, at) \in Seq(Characters)
    BY <1>1, DigitsTyped
  <1>3. Number(16, 0, DigitsAt(str, at + 1)) \in Int /\ Number(16, 0, DigitsAt(str, at)) \in Int
    BY <1>2, 0 \in Int, NumberInt
  <1> QED
    BY <1>3 DEF Strtol

\* Eight digits make a word.
Words == Int \X Int

\* The halves of a word that strtol has read are integers.
LEMMA StrtolWordInts ==
  ASSUME NEW str \in Seq(Characters), NEW at \in Nat, at + 8 <= Len(str),
         \A j \in 1 .. 8 : str[at + j] # Hyphen
  PROVE  StrtolWord(str, at) \in Words
  <1> DEFINE digits == DigitsAt(str, at)
  <1>1. PICK n \in 0 .. Len(str) - at :
          /\ digits \in Seq(Characters) /\ Len(digits) = n
          /\ at + n = Len(str) \/ str[at + n + 1] = Hyphen
    <2>1. at <= Len(str)
      OBVIOUS
    <2> QED
      BY <2>1, DigitsTyped
  <1> HIDE DEF digits
  <1>2. n >= 8
    <2> SUFFICES ASSUME n < 8
                 PROVE  FALSE
      BY <1>1
    <2>1. n + 1 \in 1 .. 8 /\ at + (n + 1) = at + n + 1 /\ at + n # Len(str)
      OBVIOUS
    <2> QED
      BY <1>1, <2>1
  <1> DEFINE hi == SubSeq(digits, n - 7, n - 4)
             lo == SubSeq(digits, n - 3, n)
  <1>3. hi \in Seq(Characters) /\ lo \in Seq(Characters)
    BY <1>1, <1>2
  <1>4. StrtolWord(str, at) = <<Number(16, 0, hi), Number(16, 0, lo)>>
    BY <1>1 DEF StrtolWord, digits
  <1> HIDE DEF hi, lo
  <1>5. Number(16, 0, hi) \in Int /\ Number(16, 0, lo) \in Int
    BY <1>3, 0 \in Int, NumberInt
  <1> QED
    BY <1>4, <1>5 DEF Words

\* So do two groups.
LEMMA CombineInts ==
  ASSUME NEW hi \in Int, NEW lo \in Int
  PROVE  Combine(hi, lo) \in Words
  <1>1. hi % 65536 \in Int
    OBVIOUS
  <1> QED
    BY <1>1 DEF Combine, Words

\* A word has four bytes.
LEMMA WordIsBytes ==
  ASSUME NEW w \in Words
  PROVE  WordBytes(w) \in Bytes /\ Len(WordBytes(w)) = 4
  <1>1. w[1] \in Int /\ w[2] \in Int /\ 2 \in Nat
    BY DEF Words
  <1> DEFINE x == BigEndian(w[1], 2)
             y == BigEndian(w[2], 2)
  <1>2. PICK n \in Nat : n = 2
    BY <1>1
  <1>3. /\ BigEndian(w[1], n) \in Bytes /\ Len(BigEndian(w[1], n)) = n
        /\ BigEndian(w[2], n) \in Bytes /\ Len(BigEndian(w[2], n)) = n
    <2>1. ASSUME NEW v \in Int
          PROVE  BigEndian(v, n) \in Bytes /\ Len(BigEndian(v, n)) = n
      BY BigEndianBytes
    <2> QED
      BY ONLY <1>1, <2>1
  <1>4. x \in Bytes /\ Len(x) = 2
    BY <1>2, <1>3
  <1>5. y \in Bytes /\ Len(y) = 2
    BY <1>2, <1>3
  <1>6. WordBytes(w) = x \o y
    BY DEF WordBytes
  <1> HIDE DEF x, y
  <1>7. x \o y \in Bytes /\ Len(x \o y) = Len(x) + Len(y)
    BY <1>4, <1>5, Behind
  <1> QED
    BY <1>4, <1>5, <1>6, <1>7

\* A UUID has sixteen.
LEMMA UuidIsBytes ==
  ASSUME NEW id \in Seq(Digit), Len(id) = 32
  PROVE  /\ UuidBytes(string_to_uuid(FormatResponse(id))) \in Bytes
         /\ Len(UuidBytes(string_to_uuid(FormatResponse(id)))) = 16
  <1> DEFINE str == FormatResponse(id)
  <1>1. \A k \in 1 .. 32 : id[k] \in Characters /\ id[k] # Hyphen
    <2>1. \A k \in 1 .. 32 : id[k] \in Digit
      <3>1. \A k \in 1 .. Len(id) : id[k] \in Digit
        BY ElementOfSeq, Zenon
      <3> QED
        BY <3>1
    <2>2. \A d \in Digit : d \in Characters /\ d # Hyphen
      BY DEF Digit, Characters, Hyphen
    <2> QED
      BY <2>1, <2>2
  <1>2. Hyphen \in Characters
    BY DEF Hyphen, Characters
  <1>3. ASSUME NEW k \in 1 .. 36
        PROVE  /\ str[k] \in Characters
               /\ k \in 1 .. 8 \/ k \in 28 .. 36 => str[k] # Hyphen
    <2>1. str[k] = CASE k \in {9, 14, 19, 24} -> Hyphen
                     [] k < 9 -> id[k]
                     [] k \in 10 .. 13 -> id[k - 1]
                     [] k \in 15 .. 18 -> id[k - 2]
                     [] k \in 20 .. 23 -> id[k - 3]
                     [] k > 24 -> id[k - 4]
      BY DEF FormatResponse
    <2> HIDE DEF str
    <2>2. CASE k \in {9, 14, 19, 24}
      <3>1. str[k] = Hyphen
        <4>1. /\ ~(k < 9) /\ ~(k > 24)
              /\ k \notin 10 .. 13 /\ k \notin 15 .. 18 /\ k \notin 20 .. 23
          BY <2>2
        <4> QED
          BY <2>1, <2>2, <4>1
      <3>2. k \notin 1 .. 8 /\ k \notin 28 .. 36
        BY <2>2
      <3> QED
        BY <1>2, <3>1, <3>2
    <2>3. CASE k < 9
      <3>1. k \notin {9, 14, 19, 24} /\ k \in 1 .. 32
        BY <2>3
      <3>2. k \notin 10 .. 13 /\ k \notin 15 .. 18 /\ k \notin 20 .. 23 /\ ~(k > 24) /\ k < 9
        BY <2>3
      <3>3. str[k] = id[k]
        BY <2>1, <3>1, <3>2
      <3> QED
        BY <1>1, <3>1, <3>3
    <2>4. CASE k \in 10 .. 13
      <3>1. str[k] = id[k - 1] /\ k - 1 \in 1 .. 32
        <4>1. /\ k - 1 \in 1 .. 32 /\ k \notin {9, 14, 19, 24} /\ ~(k < 9)
              /\ k \notin 15 .. 18 /\ k \notin 20 .. 23 /\ ~(k > 24)
          BY <2>4
        <4> QED
          BY <2>1, <2>4, <4>1
      <3> QED
        BY <1>1, <3>1
    <2>5. CASE k \in 15 .. 18
      <3>1. str[k] = id[k - 2] /\ k - 2 \in 1 .. 32
        BY <2>1, <2>5
      <3> QED
        BY <1>1, <3>1
    <2>6. CASE k \in 20 .. 23
      <3>1. str[k] = id[k - 3] /\ k - 3 \in 1 .. 32
        BY <2>1, <2>6
      <3> QED
        BY <1>1, <3>1
    <2>7. CASE k > 24
      <3>1. k \notin {9, 14, 19, 24} /\ k - 4 \in 1 .. 32
        BY <2>7
      <3>2. str[k] = id[k - 4]
        BY <2>1, <2>7, <3>1
      <3> QED
        BY <1>1, <3>1, <3>2
    <2> QED
      BY <2>2, <2>3, <2>4, <2>5, <2>6, <2>7
  <1>4. str = [k \in 1 .. 36 |-> str[k]]
    BY DEF FormatResponse
  <1> HIDE DEF str
  <1>5. str \in Seq(Characters) /\ Len(str) = 36
    <2>1. [k \in 1 .. 36 |-> str[k]] \in Seq(Characters) /\ Len([k \in 1 .. 36 |-> str[k]]) = 36
      BY <1>3
    <2> QED
      BY <1>4, <2>1
  <1> DEFINE group == SubSeq(str, 25, 28)
             a == StrtolWord(str, 0)
             b == Combine(Strtol(str, 9), Strtol(str, 14))
             c == Combine(Strtol(str, 18), Strtol(group, 0))
             d == StrtolWord(str, 27)
             bytes == WordBytes(a) \o WordBytes(b) \o WordBytes(c) \o WordBytes(d)
             uuid == Reversed(bytes)
             wire_bytes == [k \in 1 .. 16 |-> uuid[17 - k]]
  <1>6. group \in Seq(Characters) /\ Len(group) = 4
    <2>1. 25 \in 1 .. Len(str) + 1 /\ 28 \in 25 - 1 .. Len(str) /\ 28 - 25 + 1 = 4
      BY <1>5
    <2>2. \A i \in 25 .. 28 : str[i] \in Characters
      <3> SUFFICES ASSUME NEW i \in 25 .. 28
                   PROVE  str[i] \in Characters
        OBVIOUS
      <3>1. i \in 1 .. 36
        OBVIOUS
      <3> QED
        BY <1>3, <3>1
    <2> QED
      BY <2>2, SubSeqProperties
  <1>7. a \in Words /\ d \in Words
    <2>1. \A j \in 1 .. 8 : str[0 + j] # Hyphen /\ str[27 + j] # Hyphen
      <3> SUFFICES ASSUME NEW j \in 1 .. 8
                   PROVE  str[0 + j] # Hyphen /\ str[27 + j] # Hyphen
        OBVIOUS
      <3>1. /\ 0 + j = j /\ j \in 1 .. 36 /\ j \in 1 .. 8
            /\ 27 + j \in 1 .. 36 /\ 27 + j \in 28 .. 36
        OBVIOUS
      <3>2. str[j] # Hyphen
        BY <1>3, <3>1
      <3>3. str[27 + j] # Hyphen
        BY <1>3, <3>1
      <3> QED
        BY <3>1, <3>2, <3>3
    <2> HIDE DEF a, d
    <2>2. 0 + 8 <= Len(str) /\ 27 + 8 <= Len(str) /\ 0 \in Nat /\ 27 \in Nat
      BY <1>5
    <2>3. StrtolWord(str, 0) \in Words
      BY <1>5, <2>1, <2>2, StrtolWordInts
    <2>4. StrtolWord(str, 27) \in Words
      BY <1>5, <2>1, <2>2, StrtolWordInts
    <2> QED
      BY <2>3, <2>4 DEF a, d
  <1>8. b \in Words /\ c \in Words
    <2>1. 9 < Len(str) /\ 14 < Len(str) /\ 18 < Len(str) /\ 0 < Len(group)
      BY <1>5, <1>6
    <2> HIDE DEF group
    <2>2. /\ Strtol(str, 9) \in Int /\ Strtol(str, 14) \in Int /\ Strtol(str, 18) \in Int
          /\ Strtol(group, 0) \in Int
      <3>1. 0 \in Nat /\ 9 \in Nat /\ 14 \in Nat /\ 18 \in Nat
        OBVIOUS
      <3>2. Strtol(str, 9) \in Int
        BY <1>5, <2>1, <3>1, StrtolInt
      <3>3. Strtol(str, 14) \in Int
        BY <1>5, <2>1, <3>1, StrtolInt
      <3>4. Strtol(str, 18) \in Int
        BY <1>5, <2>1, <3>1, StrtolInt
      <3>5. Strtol(group, 0) \in Int
        BY <1>6, <2>1, <3>1, StrtolInt
      <3> QED
        BY <3>2, <3>3, <3>4, <3>5
    <2> QED
      BY <2>2, CombineInts
  <1> HIDE DEF a, b, c, d
  <1>9. bytes \in Bytes /\ Len(bytes) = 16
    <2>1. /\ WordBytes(a) \in Bytes /\ Len(WordBytes(a)) = 4
          /\ WordBytes(b) \in Bytes /\ Len(WordBytes(b)) = 4
          /\ WordBytes(c) \in Bytes /\ Len(WordBytes(c)) = 4
          /\ WordBytes(d) \in Bytes /\ Len(WordBytes(d)) = 4
      BY <1>7, <1>8, WordIsBytes
    <2> DEFINE x == WordBytes(a)
               y == WordBytes(b)
               z == WordBytes(c)
               w == WordBytes(d)
    <2> HIDE DEF x, y, z, w
    <2>2. /\ x \in Bytes /\ Len(x) = 4 /\ y \in Bytes /\ Len(y) = 4
          /\ z \in Bytes /\ Len(z) = 4 /\ w \in Bytes /\ Len(w) = 4
      BY <2>1 DEF x, y, z, w
    <2>3. x \o y \in Bytes /\ Len(x \o y) = Len(x) + Len(y)
      BY <2>2, Behind
    <2>4. (x \o y) \o z \in Bytes /\ Len((x \o y) \o z) = Len(x \o y) + Len(z)
      BY <2>2, <2>3, Behind
    <2>5. ((x \o y) \o z) \o w \in Bytes /\ Len(((x \o y) \o z) \o w) = Len((x \o y) \o z) + Len(w)
      BY <2>2, <2>4, Behind
    <2>6. bytes = ((x \o y) \o z) \o w
      BY DEF x, y, z, w
    <2>7. Len(bytes) = 4 + 4 + 4 + 4
      BY <2>2, <2>3, <2>4, <2>5, <2>6
    <2> QED
      BY <2>5, <2>6, <2>7
  <1> HIDE DEF bytes
  <1>10. \A k \in 1 .. 16 : uuid[17 - k] = bytes[k]
    <2> SUFFICES ASSUME NEW k \in 1 .. 16
                 PROVE  uuid[17 - k] = bytes[k]
      OBVIOUS
    <2>1. 17 - k \in 1 .. Len(bytes) /\ Len(bytes) + 1 - (17 - k) = k
      BY <1>9
    <2> QED
      BY <2>1 DEF Reversed
  <1> HIDE DEF uuid
  <1>11. wire_bytes \in Bytes /\ Len(wire_bytes) = 16
    <2>1. \A k \in 1 .. 16 : uuid[17 - k] \in Byte
      BY <1>9, <1>10, BytesFacts
    <2> QED
      BY <2>1 DEF Bytes
  <1>12. UuidBytes(string_to_uuid(FormatResponse(id))) = wire_bytes
    BY DEF UuidBytes, string_to_uuid, set_uuid_from_uint32, uuid, bytes, a, b, c, d, group, str
  <1> QED
    BY <1>11, <1>12

-----------------------------------------------------------------------------
(* Levels of NBT trees.                                                    *)

NoValues == [type \in Types |-> {}]

\* The values of each level are over those of the level below.
LEMMA ValuesAre ==
  /\ Values[0] = NoValues
  /\ \A k \in Nat : Values[k + 1] = ValuesOver(Values[k])
  <1> DEFINE Is(g, m) == g = [k \in 0 .. m |-> IF k = 0 THEN NoValues ELSE ValuesOver(g[k - 1])]
             Some == {m \in Nat : \E g : Is(g, m)}
  <1>1. Some = Nat
    <2>1. 0 \in Some
      <3>1. Is([k \in 0 .. 0 |-> NoValues], 0)
        OBVIOUS
      <3> QED
        BY <3>1
    <2>2. ASSUME NEW a \in Nat, a \in Some
          PROVE  a + 1 \in Some
      <3>1. PICK g : Is(g, a)
        BY <2>2
      <3> DEFINE last == ValuesOver(g[a])
                 h == [k \in 0 .. a + 1 |-> IF k = a + 1 THEN last ELSE g[k]]
      <3>2. ASSUME NEW k \in 0 .. a + 1
            PROVE  h[k] = IF k = 0 THEN NoValues ELSE ValuesOver(h[k - 1])
        <4>1. CASE k = a + 1
          <5>1. k # 0 /\ k - 1 = a /\ a \in 0 .. a + 1 /\ a # a + 1
            BY <4>1
          <5> HIDE DEF last
          <5>2. h[k] = last /\ h[k - 1] = g[a]
            BY <4>1, <5>1
          <5> QED
            BY <4>1, <5>1, <5>2 DEF last
        <4>2. CASE k # a + 1
          <5>1. k \in 0 .. a /\ (k # 0 => k - 1 \in 0 .. a + 1 /\ k - 1 # a + 1)
            BY <4>2
          <5>2. g[k] = IF k = 0 THEN NoValues ELSE ValuesOver(g[k - 1])
            BY <3>1, <5>1
          <5> HIDE DEF last
          <5>3. h[k] = g[k] /\ (k # 0 => h[k - 1] = g[k - 1])
            BY <4>2, <5>1
          <5> QED
            BY <5>2, <5>3
        <4> QED
          BY <4>1, <4>2
      <3>3. Is(h, a + 1)
        <4> HIDE DEF last
        <4>1. h = [k \in 0 .. a + 1 |-> h[k]]
          OBVIOUS
        <4> HIDE DEF h
        <4> QED
          BY <3>2, <4>1
      <3> HIDE DEF h
      <3> QED
        BY <3>3
    <2> HIDE DEF Some
    <2> QED
      BY <2>1, <2>2, AllNat DEF Some
  <1> DEFINE p(m) == CHOOSE g : Is(g, m)
             f == [k \in Nat |-> p(k)[k]]
  <1>2. \A m \in Nat : Is(p(m), m)
    BY <1>1
  <1> HIDE DEF Some, p
  <1>3. ASSUME NEW m \in Nat
        PROVE  p(m)[m] = p(m + 1)[m]
    <2> DEFINE Same == {k \in Nat : k <= m => p(m)[k] = p(m + 1)[k]}
    <2>1. \A n \in {m, m + 1} : \A k \in 0 .. n :
            p(n)[k] = IF k = 0 THEN NoValues ELSE ValuesOver(p(n)[k - 1])
      <3> SUFFICES ASSUME NEW n \in {m, m + 1}, NEW k \in 0 .. n
                   PROVE  p(n)[k] = IF k = 0 THEN NoValues ELSE ValuesOver(p(n)[k - 1])
        OBVIOUS
      <3>1. Is(p(n), n)
        BY <1>2
      <3> QED
        BY <3>1
    <2>2. 0 \in Same
      BY <2>1
    <2>3. ASSUME NEW k \in Nat, k \in Same
          PROVE  k + 1 \in Same
      <3> SUFFICES ASSUME k + 1 <= m
                   PROVE  p(m)[k + 1] = p(m + 1)[k + 1]
        OBVIOUS
      <3>1. p(m)[k] = p(m + 1)[k]
        BY <2>3
      <3>2. k + 1 \in 0 .. m /\ k + 1 \in 0 .. m + 1 /\ k + 1 # 0 /\ (k + 1) - 1 = k
        OBVIOUS
      <3>3. p(m)[k + 1] = ValuesOver(p(m)[k]) /\ p(m + 1)[k + 1] = ValuesOver(p(m + 1)[k])
        <4>1. p(m)[k + 1] = IF k + 1 = 0 THEN NoValues ELSE ValuesOver(p(m)[(k + 1) - 1])
          BY <2>1, <3>2
        <4>2. p(m + 1)[k + 1] = IF k + 1 = 0 THEN NoValues ELSE ValuesOver(p(m + 1)[(k + 1) - 1])
          BY <2>1, <3>2
        <4> QED
          BY <3>2, <4>1, <4>2
      <3> QED
        BY <3>1, <3>3
    <2>4. Same = Nat
      <3> HIDE DEF Same
      <3> QED
        BY <2>2, <2>3, AllNat DEF Same
    <2> QED
      BY <2>4
  <1>4. ASSUME NEW k \in Nat
        PROVE  f[k] = IF k = 0 THEN NoValues ELSE ValuesOver(f[k - 1])
    <2>1. p(k)[k] = IF k = 0 THEN NoValues ELSE ValuesOver(p(k)[k - 1])
      <3>1. Is(p(k), k)
        BY <1>2
      <3>2. k \in 0 .. k
        OBVIOUS
      <3> QED
        BY <3>1, <3>2
    <2>2. k # 0 => p(k - 1)[k - 1] = p(k)[k - 1]
      <3> SUFFICES ASSUME k # 0
                   PROVE  p(k - 1)[k - 1] = p(k)[k - 1]
        OBVIOUS
      <3>1. k - 1 \in Nat /\ (k - 1) + 1 = k
        OBVIOUS
      <3>2. p(k - 1)[k - 1] = p((k - 1) + 1)[k - 1]
        BY <1>3, <3>1
      <3> QED
        BY <3>1, <3>2
    <2>3. f[k] = p(k)[k] /\ (k # 0 => f[k - 1] = p(k - 1)[k - 1])
      OBVIOUS
    <2> QED
      BY <2>1, <2>2, <2>3
  <1>5. f = [k \in Nat |-> IF k = 0 THEN NoValues ELSE ValuesOver(f[k - 1])]
    <2>1. f = [k \in Nat |-> f[k]]
      OBVIOUS
    <2> HIDE DEF f
    <2> QED
      BY <1>4, <2>1
  <1> HIDE DEF f
  <1>6. PICK g : Values = g /\ g = [k \in Nat |-> IF k = 0 THEN NoValues ELSE ValuesOver(g[k - 1])]
    <2> DEFINE g == CHOOSE g : g = [k \in Nat |-> IF k = 0 THEN NoValues ELSE ValuesOver(g[k - 1])]
    <2>1. Values = g
      BY DEF Values, NoValues
    <2>2. g = [k \in Nat |-> IF k = 0 THEN NoValues ELSE ValuesOver(g[k - 1])]
      BY <1>5
    <2> HIDE DEF g
    <2> QED
      BY <2>1, <2>2
  <1>7. g[0] = NoValues
    BY <1>6
  <1>8. ASSUME NEW k \in Nat
        PROVE  g[k + 1] = ValuesOver(g[k])
    <2>1. k + 1 \in Nat /\ k + 1 # 0 /\ (k + 1) - 1 = k
      OBVIOUS
    <2>2. g[k + 1] = IF k + 1 = 0 THEN NoValues ELSE ValuesOver(g[(k + 1) - 1])
      BY <1>6, <2>1
    <2> QED
      BY <2>1, <2>2
  <1> QED
    BY <1>6, <1>7, <1>8

\* So are their bytes.
LEMMA PayloadsAre ==
  /\ Payloads[0] = <<>>
  /\ \A k \in Nat : Payloads[k + 1] = PayloadsOver(Values[k + 1], Payloads[k])
  <1> DEFINE Is(g, m) == g = [k \in 0 .. m |-> IF k = 0 THEN <<>> ELSE PayloadsOver(Values[k], g[k - 1])]
             Some == {m \in Nat : \E g : Is(g, m)}
  <1>1. Some = Nat
    <2>1. 0 \in Some
      <3>1. Is([k \in 0 .. 0 |-> <<>>], 0)
        OBVIOUS
      <3> QED
        BY <3>1
    <2>2. ASSUME NEW a \in Nat, a \in Some
          PROVE  a + 1 \in Some
      <3>1. PICK g : Is(g, a)
        BY <2>2
      <3> DEFINE last == PayloadsOver(Values[a + 1], g[a])
                 h == [k \in 0 .. a + 1 |-> IF k = a + 1 THEN last ELSE g[k]]
      <3>2. ASSUME NEW k \in 0 .. a + 1
            PROVE  h[k] = IF k = 0 THEN <<>> ELSE PayloadsOver(Values[k], h[k - 1])
        <4>1. CASE k = a + 1
          <5>1. k # 0 /\ k - 1 = a /\ a \in 0 .. a + 1 /\ a # a + 1
            BY <4>1
          <5> HIDE DEF last
          <5>2. h[k] = last /\ h[k - 1] = g[a]
            BY <4>1, <5>1
          <5> QED
            BY <4>1, <5>1, <5>2 DEF last
        <4>2. CASE k # a + 1
          <5>1. k \in 0 .. a /\ (k # 0 => k - 1 \in 0 .. a + 1 /\ k - 1 # a + 1)
            BY <4>2
          <5>2. g[k] = IF k = 0 THEN <<>> ELSE PayloadsOver(Values[k], g[k - 1])
            BY <3>1, <5>1
          <5> HIDE DEF last
          <5>3. h[k] = g[k] /\ (k # 0 => h[k - 1] = g[k - 1])
            BY <4>2, <5>1
          <5> QED
            BY <5>2, <5>3
        <4> QED
          BY <4>1, <4>2
      <3>3. Is(h, a + 1)
        <4> HIDE DEF last
        <4>1. h = [k \in 0 .. a + 1 |-> h[k]]
          OBVIOUS
        <4> HIDE DEF h
        <4> QED
          BY <3>2, <4>1
      <3> HIDE DEF h
      <3> QED
        BY <3>3
    <2> HIDE DEF Some
    <2> QED
      BY <2>1, <2>2, AllNat DEF Some
  <1> DEFINE p(m) == CHOOSE g : Is(g, m)
             f == [k \in Nat |-> p(k)[k]]
  <1>2. \A m \in Nat : Is(p(m), m)
    BY <1>1
  <1> HIDE DEF Some, p
  <1>3. ASSUME NEW m \in Nat
        PROVE  p(m)[m] = p(m + 1)[m]
    <2> DEFINE Same == {k \in Nat : k <= m => p(m)[k] = p(m + 1)[k]}
    <2>1. \A n \in {m, m + 1} : \A k \in 0 .. n :
            p(n)[k] = IF k = 0 THEN <<>> ELSE PayloadsOver(Values[k], p(n)[k - 1])
      <3> SUFFICES ASSUME NEW n \in {m, m + 1}, NEW k \in 0 .. n
                   PROVE  p(n)[k] = IF k = 0 THEN <<>> ELSE PayloadsOver(Values[k], p(n)[k - 1])
        OBVIOUS
      <3>1. Is(p(n), n)
        BY <1>2
      <3> QED
        BY <3>1
    <2>2. 0 \in Same
      BY <2>1
    <2>3. ASSUME NEW k \in Nat, k \in Same
          PROVE  k + 1 \in Same
      <3> SUFFICES ASSUME k + 1 <= m
                   PROVE  p(m)[k + 1] = p(m + 1)[k + 1]
        OBVIOUS
      <3>1. p(m)[k] = p(m + 1)[k]
        BY <2>3
      <3>2. k + 1 \in 0 .. m /\ k + 1 \in 0 .. m + 1 /\ k + 1 # 0 /\ (k + 1) - 1 = k
        OBVIOUS
      <3>3. p(m)[k + 1] = PayloadsOver(Values[k + 1], p(m)[k]) /\ p(m + 1)[k + 1] = PayloadsOver(Values[k + 1], p(m + 1)[k])
        <4>1. p(m)[k + 1] = IF k + 1 = 0 THEN <<>> ELSE PayloadsOver(Values[k + 1], p(m)[(k + 1) - 1])
          BY <2>1, <3>2
        <4>2. p(m + 1)[k + 1] = IF k + 1 = 0 THEN <<>> ELSE PayloadsOver(Values[k + 1], p(m + 1)[(k + 1) - 1])
          BY <2>1, <3>2
        <4> QED
          BY <3>2, <4>1, <4>2
      <3> QED
        BY <3>1, <3>3
    <2>4. Same = Nat
      <3> HIDE DEF Same
      <3> QED
        BY <2>2, <2>3, AllNat DEF Same
    <2> QED
      BY <2>4
  <1>4. ASSUME NEW k \in Nat
        PROVE  f[k] = IF k = 0 THEN <<>> ELSE PayloadsOver(Values[k], f[k - 1])
    <2>1. p(k)[k] = IF k = 0 THEN <<>> ELSE PayloadsOver(Values[k], p(k)[k - 1])
      <3>1. Is(p(k), k)
        BY <1>2
      <3>2. k \in 0 .. k
        OBVIOUS
      <3> QED
        BY <3>1, <3>2
    <2>2. k # 0 => p(k - 1)[k - 1] = p(k)[k - 1]
      <3> SUFFICES ASSUME k # 0
                   PROVE  p(k - 1)[k - 1] = p(k)[k - 1]
        OBVIOUS
      <3>1. k - 1 \in Nat /\ (k - 1) + 1 = k
        OBVIOUS
      <3>2. p(k - 1)[k - 1] = p((k - 1) + 1)[k - 1]
        BY <1>3, <3>1
      <3> QED
        BY <3>1, <3>2
    <2>3. f[k] = p(k)[k] /\ (k # 0 => f[k - 1] = p(k - 1)[k - 1])
      OBVIOUS
    <2> QED
      BY <2>1, <2>2, <2>3
  <1>5. f = [k \in Nat |-> IF k = 0 THEN <<>> ELSE PayloadsOver(Values[k], f[k - 1])]
    <2>1. f = [k \in Nat |-> f[k]]
      OBVIOUS
    <2> HIDE DEF f
    <2> QED
      BY <1>4, <2>1
  <1> HIDE DEF f
  <1>6. PICK g : Payloads = g /\ g = [k \in Nat |-> IF k = 0 THEN <<>> ELSE PayloadsOver(Values[k], g[k - 1])]
    <2> DEFINE g == CHOOSE g : g = [k \in Nat |-> IF k = 0 THEN <<>> ELSE PayloadsOver(Values[k], g[k - 1])]
    <2>1. Payloads = g
      BY DEF Payloads
    <2>2. g = [k \in Nat |-> IF k = 0 THEN <<>> ELSE PayloadsOver(Values[k], g[k - 1])]
      BY <1>5
    <2> HIDE DEF g
    <2> QED
      BY <2>1, <2>2
  <1>7. g[0] = <<>>
    BY <1>6
  <1>8. ASSUME NEW k \in Nat
        PROVE  g[k + 1] = PayloadsOver(Values[k + 1], g[k])
    <2>1. k + 1 \in Nat /\ k + 1 # 0 /\ (k + 1) - 1 = k
      OBVIOUS
    <2>2. g[k + 1] = IF k + 1 = 0 THEN <<>> ELSE PayloadsOver(Values[k + 1], g[(k + 1) - 1])
      BY <1>6, <2>1
    <2> QED
      BY <2>1, <2>2
  <1> QED
    BY <1>6, <1>7, <1>8

\* And what is read.
LEMMA NbtValuesAre ==
  ASSUME NEW data
  PROVE  /\ NbtValues(data)[0] = <<>>
         /\ \A k \in Nat : NbtValues(data)[k + 1] = NbtOver(data, NbtValues(data)[k])
  <1> DEFINE Is(g, m) == g = [k \in 0 .. m |-> IF k = 0 THEN <<>> ELSE NbtOver(data, g[k - 1])]
             Some == {m \in Nat : \E g : Is(g, m)}
  <1>1. Some = Nat
    <2>1. 0 \in Some
      <3>1. Is([k \in 0 .. 0 |-> <<>>], 0)
        OBVIOUS
      <3> QED
        BY <3>1
    <2>2. ASSUME NEW a \in Nat, a \in Some
          PROVE  a + 1 \in Some
      <3>1. PICK g : Is(g, a)
        BY <2>2
      <3> DEFINE last == NbtOver(data, g[a])
                 h == [k \in 0 .. a + 1 |-> IF k = a + 1 THEN last ELSE g[k]]
      <3>2. ASSUME NEW k \in 0 .. a + 1
            PROVE  h[k] = IF k = 0 THEN <<>> ELSE NbtOver(data, h[k - 1])
        <4>1. CASE k = a + 1
          <5>1. k # 0 /\ k - 1 = a /\ a \in 0 .. a + 1 /\ a # a + 1
            BY <4>1
          <5> HIDE DEF last
          <5>2. h[k] = last /\ h[k - 1] = g[a]
            BY <4>1, <5>1
          <5> QED
            BY <4>1, <5>1, <5>2 DEF last
        <4>2. CASE k # a + 1
          <5>1. k \in 0 .. a /\ (k # 0 => k - 1 \in 0 .. a + 1 /\ k - 1 # a + 1)
            BY <4>2
          <5>2. g[k] = IF k = 0 THEN <<>> ELSE NbtOver(data, g[k - 1])
            BY <3>1, <5>1
          <5> HIDE DEF last
          <5>3. h[k] = g[k] /\ (k # 0 => h[k - 1] = g[k - 1])
            BY <4>2, <5>1
          <5> QED
            BY <5>2, <5>3
        <4> QED
          BY <4>1, <4>2
      <3>3. Is(h, a + 1)
        <4> HIDE DEF last
        <4>1. h = [k \in 0 .. a + 1 |-> h[k]]
          OBVIOUS
        <4> HIDE DEF h
        <4> QED
          BY <3>2, <4>1
      <3> HIDE DEF h
      <3> QED
        BY <3>3
    <2> HIDE DEF Some
    <2> QED
      BY <2>1, <2>2, AllNat DEF Some
  <1> DEFINE p(m) == CHOOSE g : Is(g, m)
             f == [k \in Nat |-> p(k)[k]]
  <1>2. \A m \in Nat : Is(p(m), m)
    BY <1>1
  <1> HIDE DEF Some, p
  <1>3. ASSUME NEW m \in Nat
        PROVE  p(m)[m] = p(m + 1)[m]
    <2> DEFINE Same == {k \in Nat : k <= m => p(m)[k] = p(m + 1)[k]}
    <2>1. \A n \in {m, m + 1} : \A k \in 0 .. n :
            p(n)[k] = IF k = 0 THEN <<>> ELSE NbtOver(data, p(n)[k - 1])
      <3> SUFFICES ASSUME NEW n \in {m, m + 1}, NEW k \in 0 .. n
                   PROVE  p(n)[k] = IF k = 0 THEN <<>> ELSE NbtOver(data, p(n)[k - 1])
        OBVIOUS
      <3>1. Is(p(n), n)
        BY <1>2
      <3> QED
        BY <3>1
    <2>2. 0 \in Same
      BY <2>1
    <2>3. ASSUME NEW k \in Nat, k \in Same
          PROVE  k + 1 \in Same
      <3> SUFFICES ASSUME k + 1 <= m
                   PROVE  p(m)[k + 1] = p(m + 1)[k + 1]
        OBVIOUS
      <3>1. p(m)[k] = p(m + 1)[k]
        BY <2>3
      <3>2. k + 1 \in 0 .. m /\ k + 1 \in 0 .. m + 1 /\ k + 1 # 0 /\ (k + 1) - 1 = k
        OBVIOUS
      <3>3. p(m)[k + 1] = NbtOver(data, p(m)[k]) /\ p(m + 1)[k + 1] = NbtOver(data, p(m + 1)[k])
        <4>1. p(m)[k + 1] = IF k + 1 = 0 THEN <<>> ELSE NbtOver(data, p(m)[(k + 1) - 1])
          BY <2>1, <3>2
        <4>2. p(m + 1)[k + 1] = IF k + 1 = 0 THEN <<>> ELSE NbtOver(data, p(m + 1)[(k + 1) - 1])
          BY <2>1, <3>2
        <4> QED
          BY <3>2, <4>1, <4>2
      <3> QED
        BY <3>1, <3>3
    <2>4. Same = Nat
      <3> HIDE DEF Same
      <3> QED
        BY <2>2, <2>3, AllNat DEF Same
    <2> QED
      BY <2>4
  <1>4. ASSUME NEW k \in Nat
        PROVE  f[k] = IF k = 0 THEN <<>> ELSE NbtOver(data, f[k - 1])
    <2>1. p(k)[k] = IF k = 0 THEN <<>> ELSE NbtOver(data, p(k)[k - 1])
      <3>1. Is(p(k), k)
        BY <1>2
      <3>2. k \in 0 .. k
        OBVIOUS
      <3> QED
        BY <3>1, <3>2
    <2>2. k # 0 => p(k - 1)[k - 1] = p(k)[k - 1]
      <3> SUFFICES ASSUME k # 0
                   PROVE  p(k - 1)[k - 1] = p(k)[k - 1]
        OBVIOUS
      <3>1. k - 1 \in Nat /\ (k - 1) + 1 = k
        OBVIOUS
      <3>2. p(k - 1)[k - 1] = p((k - 1) + 1)[k - 1]
        BY <1>3, <3>1
      <3> QED
        BY <3>1, <3>2
    <2>3. f[k] = p(k)[k] /\ (k # 0 => f[k - 1] = p(k - 1)[k - 1])
      OBVIOUS
    <2> QED
      BY <2>1, <2>2, <2>3
  <1>5. f = [k \in Nat |-> IF k = 0 THEN <<>> ELSE NbtOver(data, f[k - 1])]
    <2>1. f = [k \in Nat |-> f[k]]
      OBVIOUS
    <2> HIDE DEF f
    <2> QED
      BY <1>4, <2>1
  <1> HIDE DEF f
  <1>6. PICK g : NbtValues(data) = g /\ g = [k \in Nat |-> IF k = 0 THEN <<>> ELSE NbtOver(data, g[k - 1])]
    <2> DEFINE g == CHOOSE g : g = [k \in Nat |-> IF k = 0 THEN <<>> ELSE NbtOver(data, g[k - 1])]
    <2>1. NbtValues(data) = g
      BY DEF NbtValues
    <2>2. g = [k \in Nat |-> IF k = 0 THEN <<>> ELSE NbtOver(data, g[k - 1])]
      BY <1>5
    <2> HIDE DEF g
    <2> QED
      BY <2>1, <2>2
  <1>7. g[0] = <<>>
    BY <1>6
  <1>8. ASSUME NEW k \in Nat
        PROVE  g[k + 1] = NbtOver(data, g[k])
    <2>1. k + 1 \in Nat /\ k + 1 # 0 /\ (k + 1) - 1 = k
      OBVIOUS
    <2>2. g[k + 1] = IF k + 1 = 0 THEN <<>> ELSE NbtOver(data, g[(k + 1) - 1])
      BY <1>6, <2>1
    <2> QED
      BY <2>1, <2>2
  <1> QED
    BY <1>6, <1>7, <1>8

-----------------------------------------------------------------------------
(* NBT trees are read as they are written.                                 *)

\* A byte of its own.
LEMMA OneByte ==
  ASSUME NEW b, b \in Byte
  PROVE  /\ <<b>> \in Bytes /\ Len(<<b>>) = 1 /\ <<b>>[1] = b
         /\ \A data \in Bytes : \A at \in Nat : Holds(data, at, <<b>>) => BytesAt(data, at, 1)[1] = b
  <1> DEFINE x == <<b>>
  <1>1. x \in Bytes /\ Len(x) = 1 /\ x[1] = b
    BY DEF Bytes
  <1> HIDE DEF x
  <1>2. ASSUME NEW data \in Bytes, NEW at \in Nat, Holds(data, at, x)
        PROVE  BytesAt(data, at, 1)[1] = b
    <2>1. BytesAt(data, at, Len(x)) = x
      BY <1>1, <1>2, ReadBytes
    <2> QED
      BY <1>1, <2>1
  <1> QED
    BY <1>1, <1>2 DEF x

\* A C string is bytes, and so is an array of them; the length fits what is written of it.
LEMMA TextBytes ==
  /\ \A n : \A s \in Text(n) : s \in Bytes /\ IsUnsigned(Len(s), n)
  /\ \A s \in Items(Byte) : s \in Bytes /\ IsUnsigned(Len(s), 4)
  <1>1. ASSUME NEW n, NEW s \in Text(n)
        PROVE  s \in Bytes /\ IsUnsigned(Len(s), n)
    <2> DEFINE NotZero == Byte \ {0}
    <2>1. s \in Seq(NotZero) /\ IsUnsigned(Len(s), n)
      BY DEF Text
    <2>2. NotZero \subseteq Byte
      OBVIOUS
    <2> HIDE DEF NotZero
    <2>3. s \in Seq(Byte)
      BY ONLY <2>1, <2>2, SeqMonotonic
    <2> QED
      BY <2>1, <2>3 DEF Bytes
  <1>2. \A s \in Items(Byte) : s \in Bytes /\ IsUnsigned(Len(s), 4)
    BY DEF Items, Bytes
  <1> QED
    BY <1>1, <1>2

\* A sequence of bytes with its length before it, in n bytes.
LEMMA TextBack ==
  ASSUME NEW n \in Nat, NEW s \in Bytes, IsUnsigned(Len(s), n)
  PROVE  /\ BigEndian(Len(s), n) \o s \in Bytes
         /\ Len(BigEndian(Len(s), n) \o s) = n + Len(s) /\ Len(s) \in Nat
         /\ \A data \in Bytes : \A at \in Nat : Holds(data, at, BigEndian(Len(s), n) \o s) =>
              /\ Unsigned(BytesAt(data, at, n)) = Len(s)
              /\ BytesAt(data, at + n, Len(s)) = s
  <1> DEFINE head == BigEndian(Len(s), n)
  <1>1. s \in Bytes /\ IsUnsigned(Len(s), n)
    OBVIOUS
  <1>2. Len(s) \in Nat /\ Len(s) \in Int
    BY <1>1, BytesFacts
  <1>3. head \in Bytes /\ Len(head) = n
    BY <1>2, BigEndianBytes
  <1>4. Unsigned(head) = Len(s)
    BY <1>1, UnsignedBack
  <1> HIDE DEF head
  <1>5. head \o s \in Bytes /\ Len(head \o s) = n + Len(s)
    BY <1>1, <1>3, Behind
  <1>6. ASSUME NEW data \in Bytes, NEW at \in Nat, Holds(data, at, head \o s)
        PROVE  Unsigned(BytesAt(data, at, n)) = Len(s) /\ BytesAt(data, at + n, Len(s)) = s
    <2>1. Holds(data, at, head) /\ Holds(data, at + Len(head), s)
      BY <1>1, <1>3, <1>6, HoldsParts
    <2>2. BytesAt(data, at, Len(head)) = head
      BY <1>3, <2>1, ReadBytes
    <2>3. at + Len(head) \in Nat
      BY <1>3
    <2>4. BytesAt(data, at + Len(head), Len(s)) = s
      BY <1>1, <2>1, <2>3, ReadBytes
    <2> QED
      BY <1>3, <1>4, <2>2, <2>4
  <1> QED
    BY <1>1, <1>2, <1>5, <1>6 DEF head

\* The values of a level are bytes, and are read from a buffer that holds them.
Sound(values, bytes, data, readings) ==
  \A type \in Types : \A v \in values[type] :
    /\ bytes[type][v] \in Bytes
    /\ \A at \in Nat : Holds(data, at, bytes[type][v]) =>
         readings[type][at] = <<v, at + Len(bytes[type][v])>>

\* Items one after the other.
ItemsRead(type, items, below, data, readings) ==
  /\ ItemBytes(type, items, below) \in Bytes
  /\ \A at \in Nat : Holds(data, at, ItemBytes(type, items, below)) =>
       /\ Unsigned(BytesAt(data, at, 4)) = Len(items)
       /\ NbtItems(type, Len(items), at + 4, readings)
          = <<items, at + Len(ItemBytes(type, items, below))>>

\* Items are read if values of their type are.
LEMMA ItemsBack ==
  ASSUME NEW values, NEW below, NEW data \in Bytes, NEW readings,
         Sound(values, below, data, readings),
         NEW type, type \in Types, NEW items, items \in Items(values[type])
  PROVE  ItemsRead(type, items, below, data, readings)
  <1> PICK four \in Nat : four = 4
    OBVIOUS
  <1> DEFINE n == Len(items)
             part(k) == below[type][items[k]]
             parts == [k \in DOMAIN items |-> part(k)]
             head == BigEndian(n, four)
             J == JoinedUpTo(parts)
  <1>1. items \in Seq(values[type]) /\ IsUnsigned(n, four)
    BY DEF Items
  <1>2. n \in Nat /\ n \in Int /\ DOMAIN items = 1 .. n /\ \A k \in 1 .. n : items[k] \in values[type]
    BY <1>1
  <1>3. ASSUME NEW k \in 1 .. n
        PROVE  /\ part(k) \in Bytes
               /\ \A p \in Nat : Holds(data, p, part(k)) =>
                    readings[type][p] = <<items[k], p + Len(part(k))>>
    <2>1. items[k] \in values[type]
      BY <1>2
    <2> QED
      BY <2>1 DEF Sound
  <1> HIDE DEF part
  <1>4. parts \in Parts /\ Len(parts) = n /\ \A k \in 1 .. n : parts[k] = part(k)
    <2>1. parts = [k \in 1 .. n |-> part(k)]
      BY <1>2
    <2> HIDE DEF parts
    <2> QED
      BY <1>2, <1>3, <2>1 DEF Parts
  <1>5. head \in Bytes /\ Len(head) = four /\ Unsigned(head) = n
    <2>1. BigEndian(n, four) \in Bytes /\ Len(BigEndian(n, four)) = four
      <3> HIDE DEF n
      <3> QED
        BY ONLY <1>2, four \in Nat, BigEndianBytes
    <2>2. Unsigned(BigEndian(n, four)) = n
      BY <1>1, UnsignedBack
    <2> QED
      BY <2>1, <2>2
  <1>6. ItemBytes(type, items, below) = head \o Joined(parts)
    BY DEF ItemBytes, part
  <1> HIDE DEF head, parts, n
  <1>7. /\ Joined(parts) \in Bytes /\ J[0] = <<>> /\ Joined(parts) = J[n]
        /\ \A k \in 0 .. n : J[k] \in Bytes
    <2>1. n \in 0 .. n
      BY <1>2
    <2> QED
      BY <1>4, <2>1, JoinedStep DEF Joined
  <1>8. head \o Joined(parts) \in Bytes /\ Len(head \o Joined(parts)) = Len(head) + Len(Joined(parts))
    BY <1>5, <1>7, Behind
  <1>9. ASSUME NEW at \in Nat, Holds(data, at, head \o Joined(parts))
        PROVE  /\ Unsigned(BytesAt(data, at, four)) = n
               /\ NbtItems(type, n, at + four, readings) = <<items, at + Len(head \o Joined(parts))>>
    <2>1. Holds(data, at, head) /\ Holds(data, at + four, Joined(parts))
      BY <1>5, <1>7, <1>9, HoldsParts
    <2>2. Unsigned(BytesAt(data, at, four)) = n
      <3>1. BytesAt(data, at, Len(head)) = head
        BY <1>5, <2>1, ReadBytes
      <3> QED
        BY <1>5, <3>1
    <2> DEFINE from == at + four
               step == [k \in Nat |-> [p \in Nat |-> readings[type][p][2]]]
               E == Iterated(step, from)
               Good == {k \in Nat : k <= n => E[k] = from + Len(J[k])}
    <2>3. E[0] = from /\ \A k \in Nat : E[k + 1] = step[k + 1][E[k]]
      <3> HIDE DEF step, from
      <3> QED
        BY ONLY IteratedIs
    <2>4. from \in Nat
      OBVIOUS
    <2> HIDE DEF E, from
    <2>5. ASSUME NEW k \in Nat, k + 1 <= n
          PROVE  /\ Holds(data, from + Len(J[k]), part(k + 1))
                 /\ Len(J[k + 1]) = Len(J[k]) + Len(part(k + 1))
                 /\ Len(J[k]) \in Nat /\ part(k + 1) \in Bytes /\ Len(part(k + 1)) \in Nat
      <3>1. k + 1 \in 1 .. n /\ (k + 1) - 1 = k
        BY <1>2, <2>5
      <3>2. /\ Holds(data, from + Len(J[(k + 1) - 1]), parts[k + 1])
            /\ Len(J[k + 1]) = Len(J[(k + 1) - 1]) + Len(parts[k + 1])
            /\ Len(J[(k + 1) - 1]) \in Nat /\ parts[k + 1] \in Bytes
        <4>1. k + 1 \in 1 .. Len(parts) /\ Holds(data, from, Joined(parts))
          BY <1>4, <2>1, <3>1 DEF from
        <4> QED
          BY <1>4, <2>4, <4>1, JoinedHolds
      <3>3. parts[k + 1] = part(k + 1)
        BY <1>4, <3>1
      <3>4. Len(parts[k + 1]) \in Nat
        BY <3>2, BytesFacts
      <3> QED
        BY <3>1, <3>2, <3>3, <3>4
    <2>6. ASSUME NEW k \in Nat, k + 1 <= n, E[k] = from + Len(J[k])
          PROVE  /\ readings[type][E[k]] = <<items[k + 1], from + Len(J[k + 1])>>
                 /\ E[k + 1] = from + Len(J[k + 1])
      <3>1. /\ Holds(data, E[k], part(k + 1)) /\ E[k] \in Nat
            /\ E[k] + Len(part(k + 1)) = from + Len(J[k + 1])
        <4>1. /\ Holds(data, from + Len(J[k]), part(k + 1))
              /\ Len(J[k + 1]) = Len(J[k]) + Len(part(k + 1))
              /\ Len(J[k]) \in Nat /\ Len(part(k + 1)) \in Nat
          BY <2>5, <2>6
        <4>2. \A a, b, c \in Nat : (a + b) + c = a + (b + c) /\ a + b \in Nat
          OBVIOUS
        <4>3. /\ (from + Len(J[k])) + Len(part(k + 1)) = from + (Len(J[k]) + Len(part(k + 1)))
              /\ from + Len(J[k]) \in Nat
          BY <2>4, <4>1, <4>2, Zenon
        <4> QED
          BY <2>6, <4>1, <4>3, Zenon
      <3>2. k + 1 \in 1 .. n /\ k + 1 \in Nat
        BY <1>2, <2>6
      <3>3. readings[type][E[k]] = <<items[k + 1], E[k] + Len(part(k + 1))>>
        BY <1>3, <3>1, <3>2
      <3>4. readings[type][E[k]] = <<items[k + 1], from + Len(J[k + 1])>>
        BY <3>1, <3>3
      <3>5. step[k + 1] = [p \in Nat |-> readings[type][p][2]]
        BY <3>2
      <3>6. step[k + 1][E[k]] = readings[type][E[k]][2]
        BY <3>1, <3>5
      <3> HIDE DEF step
      <3>7. E[k + 1] = readings[type][E[k]][2]
        BY <2>3, <3>6
      <3> QED
        BY <3>4, <3>7
    <2>7. Good = Nat
      <3>1. 0 \in Good
        <4>1. Len(J[0]) = 0
          BY <1>7, Empty
        <4> QED
          BY <2>3, <2>4, <4>1
      <3>2. ASSUME NEW k \in Nat, k \in Good
            PROVE  k + 1 \in Good
        <4> SUFFICES ASSUME k + 1 <= n
                     PROVE  E[k + 1] = from + Len(J[k + 1])
          <5> k + 1 \in Nat
            OBVIOUS
          <5> QED
            BY Zenon
        <4>1. E[k] = from + Len(J[k])
          BY <1>2, <3>2
        <4> QED
          BY <2>6, <4>1
      <3> HIDE DEF Good
      <3> QED
        BY <3>1, <3>2, AllNat DEF Good
    <2>8. E[n] = from + Len(Joined(parts))
      BY <1>2, <1>7, <2>7
    <2>9. ASSUME NEW k \in 1 .. n
          PROVE  readings[type][E[k - 1]][1] = items[k]
      <3>1. k - 1 \in Nat /\ (k - 1) + 1 = k /\ (k - 1) + 1 <= n /\ k - 1 <= n
        BY <1>2
      <3>2. E[k - 1] = from + Len(J[k - 1])
        BY <2>7, <3>1
      <3>3. readings[type][E[k - 1]] = <<items[(k - 1) + 1], from + Len(J[(k - 1) + 1])>>
        BY <2>6, <3>1, <3>2
      <3> QED
        BY <3>1, <3>3
    <2>10. NbtItems(type, n, from, readings) = <<[k \in 1 .. n |-> readings[type][E[k - 1]][1]], E[n]>>
      BY DEF NbtItems, E, step
    <2>11. [k \in 1 .. n |-> readings[type][E[k - 1]][1]] = items
      <3>1. items = [k \in 1 .. n |-> items[k]]
        BY <1>1, <1>2
      <3> QED
        BY <2>9, <3>1
    <2>12. from + Len(Joined(parts)) = at + Len(head \o Joined(parts))
      <3>1. Len(Joined(parts)) \in Nat
        BY <1>7, BytesFacts
      <3> QED
        BY <1>5, <1>8, <3>1 DEF from
    <2>13. NbtItems(type, n, from, readings) = <<items, at + Len(head \o Joined(parts))>>
      BY <2>8, <2>10, <2>11, <2>12
    <2> QED
      BY <2>2, <2>13 DEF from
  <1> DEFINE x == head \o Joined(parts)
  <1>10. \A at \in Nat : Holds(data, at, x) =>
           /\ Unsigned(BytesAt(data, at, 4)) = n
           /\ NbtItems(type, n, at + 4, readings) = <<items, at + Len(x)>>
    BY <1>9
  <1>11. x \in Bytes /\ ItemBytes(type, items, below) = x
    BY <1>6, <1>8
  <1> HIDE DEF x
  <1> QED
    BY <1>10, <1>11 DEF n, ItemsRead

\* What a node is, and a list.
LEMMA NodeIs ==
  ASSUME NEW values, NEW node \in NodesOver(values)
  PROVE  /\ node.type \in Types /\ node.name \in Text(2) /\ node.value \in values[node.type]
         /\ node = [type |-> node.type, name |-> node.name, value |-> node.value]
  <1> DEFINE Of(type) == [type : {type}, name : Text(2), value : values[type]]
  <1>1. PICK type \in Types : node \in Of(type)
    <2>1. \/ node \in Of(TAG_Byte) \/ node \in Of(TAG_Short) \/ node \in Of(TAG_Int)
          \/ node \in Of(TAG_Long) \/ node \in Of(TAG_Byte_Array) \/ node \in Of(TAG_String)
          \/ node \in Of(TAG_List) \/ node \in Of(TAG_Compound) \/ node \in Of(TAG_Int_Array)
          \/ node \in Of(TAG_Long_Array)
      BY DEF NodesOver
    <2> HIDE DEF Of
    <2>2. /\ TAG_Byte \in Types /\ TAG_Short \in Types /\ TAG_Int \in Types /\ TAG_Long \in Types
          /\ TAG_Byte_Array \in Types /\ TAG_String \in Types /\ TAG_List \in Types
          /\ TAG_Compound \in Types /\ TAG_Int_Array \in Types /\ TAG_Long_Array \in Types
      BY DEF Types, TAG_Byte, TAG_Short, TAG_Int, TAG_Long, TAG_Byte_Array, TAG_String, TAG_List,
             TAG_Compound, TAG_Int_Array, TAG_Long_Array
    <2> QED
      BY <2>1, <2>2
  <1>2. /\ node.type = type /\ node.name \in Text(2) /\ node.value \in values[type]
        /\ node = [type |-> node.type, name |-> node.name, value |-> node.value]
    BY <1>1
  <1> QED
    BY <1>2

\* A list is a type of items and items of that type.
LEMMA ListIs ==
  ASSUME NEW values, NEW list \in ListsOver(values)
  PROVE  /\ list[1] \in Types /\ list[2] \in Items(values[list[1]])
         /\ list = <<list[1], list[2]>>
  <1> DEFINE Of(type) == {type} \X Items(values[type])
  <1>1. PICK type \in Types : list \in Of(type)
    <2>1. \/ list \in Of(TAG_Byte) \/ list \in Of(TAG_Short) \/ list \in Of(TAG_Int)
          \/ list \in Of(TAG_Long) \/ list \in Of(TAG_Byte_Array) \/ list \in Of(TAG_String)
          \/ list \in Of(TAG_List) \/ list \in Of(TAG_Compound) \/ list \in Of(TAG_Int_Array)
          \/ list \in Of(TAG_Long_Array)
      BY DEF ListsOver
    <2> HIDE DEF Of
    <2>2. /\ TAG_Byte \in Types /\ TAG_Short \in Types /\ TAG_Int \in Types /\ TAG_Long \in Types
          /\ TAG_Byte_Array \in Types /\ TAG_String \in Types /\ TAG_List \in Types
          /\ TAG_Compound \in Types /\ TAG_Int_Array \in Types /\ TAG_Long_Array \in Types
      BY DEF Types, TAG_Byte, TAG_Short, TAG_Int, TAG_Long, TAG_Byte_Array, TAG_String, TAG_List,
             TAG_Compound, TAG_Int_Array, TAG_Long_Array
    <2> QED
      BY <2>1, <2>2
  <1>2. list[1] = type /\ list[2] \in Items(values[type]) /\ list = <<list[1], list[2]>>
    BY <1>1
  <1> QED
    BY <1>2

\* A type is a byte, and not the one that ends a compound.
LEMMA TypeByte ==
  ASSUME NEW type \in Types
  PROVE  type \in Byte /\ type # 0
  BY DEF Types, Byte

\* A named node.
LEMMA NamedBack ==
  ASSUME NEW values, NEW below, NEW data \in Bytes, NEW readings,
         Sound(values, below, data, readings), NEW node, node \in NodesOver(values)
  PROVE  /\ Named(node, below) \in Bytes /\ Len(Named(node, below)) >= 1
         /\ \A at \in Nat : Holds(data, at, Named(node, below)) =>
              /\ NbtNamed(data, at, readings) = <<node, at + Len(Named(node, below))>>
              /\ BytesAt(data, at, 1)[1] # 0
  <1> DEFINE type == node.type
             name == node.name
             value == node.value
             first == <<type>>
             two == 2
             named == BigEndian(Len(name), two) \o name
             content == below[type][value]
  <1>1. /\ type \in Types /\ name \in Text(two) /\ value \in values[type]
        /\ node = [type |-> type, name |-> name, value |-> value]
    BY NodeIs
  <1>2. two \in Nat /\ two = 2
    OBVIOUS
  <1> HIDE DEF two
  <1>3. /\ first \in Bytes /\ Len(first) = 1 /\ type # 0
        /\ \A at \in Nat : Holds(data, at, first) => BytesAt(data, at, 1)[1] = type
    <2>1. type \in Byte /\ type # 0
      BY <1>1, TypeByte
    <2> HIDE DEF type
    <2> QED
      BY <2>1, OneByte
  <1>4. /\ named \in Bytes /\ Len(named) = two + Len(name) /\ Len(name) \in Nat
        /\ \A at \in Nat : Holds(data, at, named) =>
             /\ Unsigned(BytesAt(data, at, two)) = Len(name)
             /\ BytesAt(data, at + two, Len(name)) = name
    <2> HIDE DEF name
    <2>1. name \in Bytes /\ IsUnsigned(Len(name), two) /\ two \in Nat
      BY <1>1, <1>2, TextBytes
    <2> QED
      BY <2>1, TextBack
  <1>5. /\ content \in Bytes
        /\ \A at \in Nat : Holds(data, at, content) =>
             readings[type][at] = <<value, at + Len(content)>>
    <2> HIDE DEF type, value
    <2> QED
      BY <1>1 DEF Sound
  <1>6. Named(node, below) = first \o BigEndian(Len(name), two) \o name \o content
    BY <1>2 DEF Named
  <1> DEFINE b == BigEndian(Len(name), two)
  <1>7. b \in Bytes /\ name \in Bytes /\ named = b \o name
    <2>1. Len(name) \in Int
      BY <1>4
    <2> HIDE DEF name
    <2> QED
      BY <1>1, <1>2, <2>1, TextBytes, BigEndianBytes
  <1> DEFINE x == first \o named
  <1>8. first \o BigEndian(Len(name), two) \o name \o content = x \o content
    <2> HIDE DEF first, b, name, content, named
    <2>1. (first \o b) \o name = first \o (b \o name)
      BY <1>3, <1>7, Associative
    <2> QED
      BY <1>7, <2>1 DEF b
  <1> HIDE DEF type, name, value, first, named, content, b, x
  <1>9. x \in Bytes /\ Len(x) = Len(first) + Len(named)
    BY <1>3, <1>4, Behind DEF x
  <1>10. x \o content \in Bytes /\ Len(x \o content) = Len(x) + Len(content)
    BY <1>5, <1>9, Behind
  <1>11. Len(content) \in Nat
    BY <1>5, BytesFacts
  <1>12. Len(x) = 3 + Len(name)
    BY <1>2, <1>3, <1>4, <1>9
  <1>13. ASSUME NEW at \in Nat, Holds(data, at, x \o content)
         PROVE  /\ NbtNamed(data, at, readings) = <<node, at + Len(x \o content)>>
                /\ BytesAt(data, at, 1)[1] # 0
    <2>1. Holds(data, at, x) /\ Holds(data, at + Len(x), content)
      BY <1>5, <1>9, <1>13, HoldsParts
    <2>2. Holds(data, at, first) /\ Holds(data, at + Len(first), named)
      BY <1>3, <1>4, <2>1, HoldsParts DEF x
    <2>3. BytesAt(data, at, 1)[1] = type
      BY <1>3, <2>2
    <2>4. at + 1 \in Nat /\ Holds(data, at + 1, named)
      BY <1>3, <2>2
    <2>5. /\ Unsigned(BytesAt(data, at + 1, two)) = Len(name)
          /\ BytesAt(data, (at + 1) + two, Len(name)) = name
      BY <1>4, <2>4
    <2>6. (at + 1) + two = at + 3 /\ at + Len(x) = at + 3 + Len(name) /\ at + 3 + Len(name) \in Nat
      BY <1>2, <1>4, <1>12
    <2>7. readings[type][at + 3 + Len(name)] = <<value, (at + Len(x)) + Len(content)>>
      BY <1>5, <2>1, <2>6
    <2>8. (at + Len(x)) + Len(content) = at + Len(x \o content)
      BY <1>4, <1>10, <1>11, <1>12
    <2>9. NbtNamed(data, at, readings)
          = <<[type |-> type, name |-> BytesAt(data, at + 3, Len(name)),
               value |-> readings[type][at + 3 + Len(name)][1]],
              readings[type][at + 3 + Len(name)][2]>>
      <3>1. Unsigned(BytesAt(data, at + 1, 2)) = Len(name)
        BY <1>2, <2>5
      <3> QED
        BY <2>3, <3>1 DEF NbtNamed
    <2>10. BytesAt(data, at + 3, Len(name)) = name
      BY <2>5, <2>6
    <2>11. NbtNamed(data, at, readings) = <<node, at + Len(x \o content)>>
      BY <1>1, <2>7, <2>8, <2>9, <2>10
    <2> QED
      BY <1>3, <2>3, <2>11
  <1>14. Named(node, below) = x \o content
    BY <1>6, <1>8
  <1>15. Len(x \o content) >= 1
    BY <1>4, <1>10, <1>11, <1>12
  <1> QED
    BY <1>10, <1>13, <1>14, <1>15

\* Named nodes up to the end of their compound.
CompoundBytes(nodes, below) == Joined([k \in DOMAIN nodes |-> Named(nodes[k], below)]) \o <<0>>

MembersRead(nodes, below, data, readings) ==
  /\ CompoundBytes(nodes, below) \in Bytes
  /\ \A at \in Nat : Holds(data, at, CompoundBytes(nodes, below)) =>
       NbtMembers(data, at, readings) = <<nodes, at + Len(CompoundBytes(nodes, below))>>

\* The named nodes of a compound are read if values of the levels below are.
LEMMA MembersBack ==
  ASSUME NEW values, NEW below, NEW data \in Bytes, NEW readings,
         Sound(values, below, data, readings), NEW nodes, nodes \in Seq(NodesOver(values))
  PROVE  MembersRead(nodes, below, data, readings)
  <1> DEFINE n == Len(nodes)
             part(k) == Named(nodes[k], below)
             parts == [k \in DOMAIN nodes |-> part(k)]
             end == <<0>>
             bytes == CompoundBytes(nodes, below)
             J == JoinedUpTo(parts)
  <1>1. n \in Nat /\ DOMAIN nodes = 1 .. n /\ \A k \in 1 .. n : nodes[k] \in NodesOver(values)
    OBVIOUS
  <1>2. ASSUME NEW k \in 1 .. n
        PROVE  /\ part(k) \in Bytes /\ Len(part(k)) >= 1
               /\ \A p \in Nat : Holds(data, p, part(k)) =>
                    /\ NbtNamed(data, p, readings) = <<nodes[k], p + Len(part(k))>>
                    /\ BytesAt(data, p, 1)[1] # 0
    <2>1. nodes[k] \in NodesOver(values)
      BY <1>1
    <2> QED
      BY <2>1, NamedBack
  <1> HIDE DEF part
  <1>3. parts \in Parts /\ Len(parts) = n /\ \A k \in 1 .. n : parts[k] = part(k)
    <2>1. parts = [k \in 1 .. n |-> part(k)]
      BY <1>1
    <2> HIDE DEF parts
    <2> QED
      BY <1>1, <1>2, <2>1 DEF Parts
  <1>4. /\ end \in Bytes /\ Len(end) = 1
        /\ \A at \in Nat : Holds(data, at, end) => BytesAt(data, at, 1)[1] = 0
    <2>1. 0 \in Byte
      BY DEF Byte
    <2> QED
      BY <2>1, OneByte
  <1>5. bytes = Joined(parts) \o end
    BY DEF part, CompoundBytes
  <1> HIDE DEF parts, n, end, bytes
  <1>6. /\ Joined(parts) \in Bytes /\ J[0] = <<>> /\ Joined(parts) = J[n]
        /\ \A k \in 0 .. n : J[k] \in Bytes
    <2>1. n \in 0 .. n
      BY <1>1
    <2> QED
      BY <1>3, <2>1, JoinedStep DEF Joined
  <1>7. bytes \in Bytes /\ Len(bytes) = Len(Joined(parts)) + 1
    <2>1. /\ Joined(parts) \o end \in Bytes
          /\ Len(Joined(parts) \o end) = Len(Joined(parts)) + Len(end)
      BY ONLY <1>4, <1>6, Behind
    <2> QED
      BY ONLY <1>4, <1>5, <2>1
  <1>8. Len(Joined(parts)) \in Nat /\ Len(Joined(parts)) >= n
    <2>1. \A k \in 1 .. Len(parts) : Len(parts[k]) >= 1
      BY <1>2, <1>3
    <2>2. n \in 0 .. Len(parts)
      BY <1>1, <1>3
    <2> QED
      BY <1>3, <1>6, <2>1, <2>2, JoinedLong
  <1>9. ASSUME NEW at \in Nat, Holds(data, at, bytes)
        PROVE  NbtMembers(data, at, readings) = <<nodes, at + Len(bytes)>>
    <2>1. Holds(data, at, Joined(parts)) /\ Holds(data, at + Len(Joined(parts)), end)
      <3>1. Holds(data, at, Joined(parts) \o end)
        BY ONLY <1>5, <1>9
      <3> QED
        BY <1>4, <1>6, <3>1, HoldsParts
    <2>2. Len(data) \in Nat /\ n \in 0 .. Len(data)
      <3>1. Len(data) \in Nat /\ at + Len(bytes) <= Len(data)
        BY <1>9, BytesFacts DEF Holds
      <3> QED
        BY <1>1, <1>7, <1>8, <3>1
    <2> DEFINE step == [k \in Nat |-> [p \in Nat |-> NbtNamed(data, p, readings)[2]]]
               E == Iterated(step, at)
               Good == {k \in Nat : k <= n => E[k] = at + Len(J[k])}
    <2>3. E[0] = at /\ \A k \in Nat : E[k + 1] = step[k + 1][E[k]]
      <3> HIDE DEF step
      <3> QED
        BY ONLY IteratedIs
    <2> HIDE DEF E
    <2>4. ASSUME NEW k \in Nat, k + 1 <= n
          PROVE  /\ Holds(data, at + Len(J[k]), part(k + 1))
                 /\ Len(J[k + 1]) = Len(J[k]) + Len(part(k + 1))
                 /\ Len(J[k]) \in Nat /\ part(k + 1) \in Bytes /\ Len(part(k + 1)) \in Nat
      <3>1. k + 1 \in 1 .. n /\ (k + 1) - 1 = k
        BY <1>1, <2>4
      <3>2. /\ Holds(data, at + Len(J[(k + 1) - 1]), parts[k + 1])
            /\ Len(J[k + 1]) = Len(J[(k + 1) - 1]) + Len(parts[k + 1])
            /\ Len(J[(k + 1) - 1]) \in Nat /\ parts[k + 1] \in Bytes
        <4>1. k + 1 \in 1 .. Len(parts)
          BY <1>3, <3>1
        <4> QED
          BY <1>3, <2>1, <4>1, JoinedHolds
      <3>3. parts[k + 1] = part(k + 1)
        BY <1>3, <3>1
      <3>4. Len(parts[k + 1]) \in Nat
        BY <3>2, BytesFacts
      <3> QED
        BY <3>1, <3>2, <3>3, <3>4
    <2>5. ASSUME NEW k \in Nat, k + 1 <= n, E[k] = at + Len(J[k])
          PROVE  /\ NbtNamed(data, E[k], readings)[1] = nodes[k + 1]
                 /\ BytesAt(data, E[k], 1)[1] # 0
                 /\ E[k + 1] = at + Len(J[k + 1])
      <3>1. /\ Holds(data, E[k], part(k + 1)) /\ E[k] \in Nat
            /\ E[k] + Len(part(k + 1)) = at + Len(J[k + 1])
        <4>1. /\ Holds(data, at + Len(J[k]), part(k + 1))
              /\ Len(J[k + 1]) = Len(J[k]) + Len(part(k + 1))
              /\ Len(J[k]) \in Nat /\ Len(part(k + 1)) \in Nat
          BY <2>4, <2>5
        <4>2. \A a, b, c \in Nat : (a + b) + c = a + (b + c) /\ a + b \in Nat
          OBVIOUS
        <4>3. /\ (at + Len(J[k])) + Len(part(k + 1)) = at + (Len(J[k]) + Len(part(k + 1)))
              /\ at + Len(J[k]) \in Nat
          BY <4>1, <4>2, Zenon
        <4> QED
          BY <2>5, <4>1, <4>3, Zenon
      <3>2. k + 1 \in 1 .. n /\ k + 1 \in Nat
        BY <1>1, <2>5
      <3>3. /\ NbtNamed(data, E[k], readings) = <<nodes[k + 1], E[k] + Len(part(k + 1))>>
            /\ BytesAt(data, E[k], 1)[1] # 0
        BY <1>2, <3>1, <3>2
      <3>4. NbtNamed(data, E[k], readings) = <<nodes[k + 1], at + Len(J[k + 1])>>
        BY <3>1, <3>3
      <3>5. step[k + 1] = [p \in Nat |-> NbtNamed(data, p, readings)[2]]
        BY <3>2
      <3>6. step[k + 1][E[k]] = NbtNamed(data, E[k], readings)[2]
        BY <3>1, <3>5
      <3> HIDE DEF step
      <3>7. E[k + 1] = NbtNamed(data, E[k], readings)[2]
        BY <2>3, <3>6
      <3> QED
        BY <3>3, <3>4, <3>7
    <2>6. Good = Nat
      <3>1. 0 \in Good
        <4>1. Len(J[0]) = 0
          BY <1>6, Empty
        <4>2. E[0] = at + Len(J[0])
          BY <2>3, <4>1
        <4> QED
          BY <4>2
      <3>2. ASSUME NEW k \in Nat, k \in Good
            PROVE  k + 1 \in Good
        <4> SUFFICES ASSUME k + 1 <= n
                     PROVE  E[k + 1] = at + Len(J[k + 1])
          <5> k + 1 \in Nat
            OBVIOUS
          <5> QED
            BY Zenon
        <4>1. E[k] = at + Len(J[k])
          BY <1>1, <3>2
        <4> QED
          BY <2>5, <4>1
      <3> HIDE DEF Good
      <3> QED
        BY <3>1, <3>2, AllNat DEF Good
    <2>7. E[n] = at + Len(Joined(parts)) /\ BytesAt(data, E[n], 1)[1] = 0
      <3>1. E[n] = at + Len(Joined(parts))
        BY <1>1, <1>6, <2>6
      <3>2. at + Len(Joined(parts)) \in Nat
        BY <1>8
      <3> QED
        BY <1>4, <2>1, <3>1, <3>2
    <2>8. ASSUME NEW k \in 1 .. n
          PROVE  /\ NbtNamed(data, E[k - 1], readings)[1] = nodes[k]
                 /\ BytesAt(data, E[k - 1], 1)[1] # 0
      <3>1. k - 1 \in Nat /\ (k - 1) + 1 = k /\ (k - 1) + 1 <= n /\ k - 1 <= n
        BY <1>1
      <3>2. E[k - 1] = at + Len(J[k - 1])
        BY <2>6, <3>1
      <3>3. /\ NbtNamed(data, E[k - 1], readings)[1] = nodes[(k - 1) + 1]
            /\ BytesAt(data, E[k - 1], 1)[1] # 0
        BY <2>5, <3>1, <3>2
      <3> QED
        BY <3>1, <3>3
    <2> DEFINE zero(k) == BytesAt(data, E[k], 1)[1] = 0
               last == CHOOSE m \in 0 .. Len(data) : zero(m) /\ \A k \in 0 .. m - 1 : ~zero(k)
    <2>9. zero(n) /\ \A k \in 0 .. n - 1 : ~zero(k)
      <3> SUFFICES ASSUME NEW k \in 0 .. n - 1
                   PROVE  ~zero(k)
        BY <2>7
      <3>1. k + 1 \in 1 .. n /\ (k + 1) - 1 = k
        BY <1>1
      <3>2. BytesAt(data, E[(k + 1) - 1], 1)[1] # 0
        BY <2>8, <3>1
      <3> QED
        BY <3>1, <3>2
    <2>10. NbtMembers(data, at, readings)
           = <<[k \in 1 .. last |-> NbtNamed(data, E[k - 1], readings)[1]], E[last] + 1>>
      BY DEF NbtMembers, E, step
    <2> HIDE DEF zero
    <2>11. last = n
      <3>1. /\ last \in 0 .. Len(data) /\ zero(last)
            /\ \A k \in 0 .. last - 1 : ~zero(k)
        BY <2>2, <2>9
      <3> HIDE DEF last
      <3>2. ~(last < n)
        BY <1>1, <2>9, <3>1
      <3>3. ~(n < last)
        BY <1>1, <2>9, <3>1
      <3> QED
        BY <1>1, <2>2, <3>1, <3>2, <3>3
    <2>12. [k \in 1 .. n |-> NbtNamed(data, E[k - 1], readings)[1]] = nodes
      <3>1. nodes = [k \in 1 .. n |-> nodes[k]]
        BY <1>1
      <3> QED
        BY <2>8, <3>1
    <2>13. E[n] + 1 = at + Len(bytes)
      <3>1. \A a \in Nat : (at + a) + 1 = at + (a + 1)
        OBVIOUS
      <3>2. (at + Len(Joined(parts))) + 1 = at + (Len(Joined(parts)) + 1)
        BY <1>8, <3>1
      <3> QED
        BY ONLY <1>7, <2>7, <3>2
    <2> HIDE DEF last
    <2> QED
      BY <2>10, <2>11, <2>12, <2>13
  <1> QED
    BY <1>7, <1>9 DEF bytes, MembersRead

\* What the values of each type are, over those of the level below.
LEMMA ValuesOfTypes ==
  ASSUME NEW below
  PROVE  /\ \A type \in 1 .. 4 : ValuesOver(below)[type] = {v \in Int : IsSigned(v, Size[type])}
         /\ ValuesOver(below)[TAG_String] = Text(2)
         /\ ValuesOver(below)[TAG_Byte_Array] = Items(Byte)
         /\ ValuesOver(below)[TAG_List] = ListsOver(below)
         /\ ValuesOver(below)[TAG_Int_Array] = Items(below[TAG_Int])
         /\ ValuesOver(below)[TAG_Long_Array] = Items(below[TAG_Long])
         /\ ValuesOver(below)[TAG_Compound] = Seq(NodesOver(below))
  BY DEF ValuesOver, Types, TAG_String, TAG_Byte_Array, TAG_List, TAG_Int_Array, TAG_Long_Array,
         TAG_Compound

\* What their bytes are.
LEMMA PayloadOfTypes ==
  ASSUME NEW v, NEW below
  PROVE  /\ \A type \in 1 .. 4 : Payload(type, v, below) = BigEndian(v, Size[type])
         /\ Payload(TAG_String, v, below) = BigEndian(Len(v), 2) \o v
         /\ Payload(TAG_Byte_Array, v, below) = BigEndian(Len(v), 4) \o v
         /\ Payload(TAG_List, v, below) = <<v[1]>> \o ItemBytes(v[1], v[2], below)
         /\ Payload(TAG_Int_Array, v, below) = ItemBytes(TAG_Int, v, below)
         /\ Payload(TAG_Long_Array, v, below) = ItemBytes(TAG_Long, v, below)
  BY DEF Payload, TAG_String, TAG_Byte_Array, TAG_List, TAG_Int_Array, TAG_Long_Array,
         TAG_Compound

\* Those of a compound.
LEMMA PayloadOfCompound ==
  ASSUME NEW v, NEW below
  PROVE  Payload(TAG_Compound, v, below) = CompoundBytes(v, below)
  BY ONLY DEF Payload, CompoundBytes, TAG_String, TAG_Byte_Array, TAG_List, TAG_Int_Array,
              TAG_Long_Array, TAG_Compound

\* And what is read.
LEMMA NbtValueOfTypes ==
  ASSUME NEW data, NEW at, NEW below
  PROVE  /\ \A type \in 1 .. 4 : NbtValue(data, type, at, below)
              = <<Signed(BytesAt(data, at, Size[type])), at + Size[type]>>
         /\ NbtValue(data, TAG_String, at, below)
            = <<BytesAt(data, at + 2, Unsigned(BytesAt(data, at, 2))),
                at + 2 + Unsigned(BytesAt(data, at, 2))>>
         /\ NbtValue(data, TAG_Byte_Array, at, below)
            = <<BytesAt(data, at + 4, Unsigned(BytesAt(data, at, 4))),
                at + 4 + Unsigned(BytesAt(data, at, 4))>>
         /\ NbtValue(data, TAG_List, at, below)
            = <<<<BytesAt(data, at, 1)[1],
                  NbtItems(BytesAt(data, at, 1)[1], Unsigned(BytesAt(data, at + 1, 4)),
                           at + 5, below)[1]>>,
                NbtItems(BytesAt(data, at, 1)[1], Unsigned(BytesAt(data, at + 1, 4)),
                         at + 5, below)[2]>>
         /\ NbtValue(data, TAG_Int_Array, at, below)
            = NbtItems(TAG_Int, Unsigned(BytesAt(data, at, 4)), at + 4, below)
         /\ NbtValue(data, TAG_Long_Array, at, below)
            = NbtItems(TAG_Long, Unsigned(BytesAt(data, at, 4)), at + 4, below)
         /\ NbtValue(data, TAG_Compound, at, below) = NbtMembers(data, at, below)
  BY DEF NbtValue, TAG_String, TAG_Byte_Array, TAG_List, TAG_Int_Array, TAG_Long_Array,
         TAG_Compound

\* A value of a type is bytes, and is read from a buffer that holds them.
Back(type, v, below, data, readings) ==
  /\ Payload(type, v, below) \in Bytes
  /\ \A at \in Nat : Holds(data, at, Payload(type, v, below)) =>
       NbtValue(data, type, at, readings) = <<v, at + Len(Payload(type, v, below))>>

\* A number of 1, 2, 4 or 8 bytes is read as it is written.
LEMMA NumberBack ==
  ASSUME NEW type \in 1 .. 4, NEW v, IsSigned(v, Size[type]), NEW below, NEW data \in Bytes,
         NEW readings
  PROVE  Back(type, v, below, data, readings)
  <1> DEFINE n == Size[type]
             bytes == BigEndian(v, n)
  <1>1. n \in Nat \ {0} /\ v \in Int /\ n \in Nat
    BY DEF Size, IsSigned
  <1> HIDE DEF n
  <1>2. bytes \in Bytes /\ Len(bytes) = n
    BY <1>1, BigEndianBytes
  <1>3. Signed(bytes) = v
    BY <1>1, SignedBack DEF n
  <1>4. Payload(type, v, below) = bytes
    BY PayloadOfTypes DEF n
  <1> HIDE DEF bytes
  <1>5. ASSUME NEW at \in Nat, Holds(data, at, bytes)
        PROVE  NbtValue(data, type, at, readings) = <<v, at + Len(bytes)>>
    <2>1. BytesAt(data, at, Len(bytes)) = bytes
      BY <1>2, <1>5, ReadBytes
    <2>2. NbtValue(data, type, at, readings) = <<Signed(BytesAt(data, at, n)), at + n>>
      BY NbtValueOfTypes DEF n
    <2> QED
      BY <1>2, <1>3, <2>1, <2>2
  <1> QED
    BY <1>2, <1>4, <1>5 DEF Back

\* So is a string.
LEMMA StringBack ==
  ASSUME NEW v, NEW below, NEW data \in Bytes, NEW readings
  PROVE  /\ v \in Text(2) => Back(TAG_String, v, below, data, readings)
         /\ v \in Items(Byte) => Back(TAG_Byte_Array, v, below, data, readings)
  <1>1. ASSUME NEW n \in Nat, v \in Bytes, IsUnsigned(Len(v), n)
        PROVE  /\ BigEndian(Len(v), n) \o v \in Bytes
               /\ \A at \in Nat : Holds(data, at, BigEndian(Len(v), n) \o v) =>
                    <<BytesAt(data, at + n, Unsigned(BytesAt(data, at, n))),
                      at + n + Unsigned(BytesAt(data, at, n))>>
                    = <<v, at + Len(BigEndian(Len(v), n) \o v)>>
    <2> DEFINE x == BigEndian(Len(v), n) \o v
    <2>1. /\ x \in Bytes /\ Len(x) = n + Len(v) /\ Len(v) \in Nat
          /\ \A at \in Nat : Holds(data, at, x) =>
               /\ Unsigned(BytesAt(data, at, n)) = Len(v)
               /\ BytesAt(data, at + n, Len(v)) = v
      BY <1>1, TextBack
    <2> HIDE DEF x
    <2>2. ASSUME NEW at \in Nat, Holds(data, at, x)
          PROVE  <<BytesAt(data, at + n, Unsigned(BytesAt(data, at, n))),
                   at + n + Unsigned(BytesAt(data, at, n))>> = <<v, at + Len(x)>>
      <3>1. (at + n) + Len(v) = at + Len(x)
        BY <2>1
      <3> QED
        BY <2>1, <2>2, <3>1
    <2> QED
      BY <2>1, <2>2 DEF x
  <1>2. ASSUME v \in Text(2)
        PROVE  Back(TAG_String, v, below, data, readings)
    <2> DEFINE x == BigEndian(Len(v), 2) \o v
               r(at) == <<BytesAt(data, at + 2, Unsigned(BytesAt(data, at, 2))),
                          at + 2 + Unsigned(BytesAt(data, at, 2))>>
    <2>1. PICK n \in Nat : n = 2
      OBVIOUS
    <2>2. v \in Bytes /\ IsUnsigned(Len(v), n)
      BY <1>2, <2>1, TextBytes
    <2>3. /\ BigEndian(Len(v), n) \o v \in Bytes
          /\ \A at \in Nat : Holds(data, at, BigEndian(Len(v), n) \o v) =>
               <<BytesAt(data, at + n, Unsigned(BytesAt(data, at, n))),
                 at + n + Unsigned(BytesAt(data, at, n))>>
               = <<v, at + Len(BigEndian(Len(v), n) \o v)>>
      BY <1>1, <2>2
    <2>4. x \in Bytes /\ \A at \in Nat : Holds(data, at, x) => r(at) = <<v, at + Len(x)>>
      BY ONLY <2>1, <2>3
    <2>5. Payload(TAG_String, v, below) = x
      BY PayloadOfTypes
    <2>6. \A at \in Nat : NbtValue(data, TAG_String, at, readings) = r(at)
      BY NbtValueOfTypes
    <2> HIDE DEF x, r
    <2> QED
      BY <2>4, <2>5, <2>6 DEF Back
  <1>3. ASSUME v \in Items(Byte)
        PROVE  Back(TAG_Byte_Array, v, below, data, readings)
    <2> DEFINE x == BigEndian(Len(v), 4) \o v
               r(at) == <<BytesAt(data, at + 4, Unsigned(BytesAt(data, at, 4))),
                          at + 4 + Unsigned(BytesAt(data, at, 4))>>
    <2>1. PICK n \in Nat : n = 4
      OBVIOUS
    <2>2. v \in Bytes /\ IsUnsigned(Len(v), n)
      BY <1>3, <2>1, TextBytes
    <2>3. /\ BigEndian(Len(v), n) \o v \in Bytes
          /\ \A at \in Nat : Holds(data, at, BigEndian(Len(v), n) \o v) =>
               <<BytesAt(data, at + n, Unsigned(BytesAt(data, at, n))),
                 at + n + Unsigned(BytesAt(data, at, n))>>
               = <<v, at + Len(BigEndian(Len(v), n) \o v)>>
      BY <1>1, <2>2
    <2>4. x \in Bytes /\ \A at \in Nat : Holds(data, at, x) => r(at) = <<v, at + Len(x)>>
      BY ONLY <2>1, <2>3
    <2>5. Payload(TAG_Byte_Array, v, below) = x
      BY PayloadOfTypes
    <2>6. \A at \in Nat : NbtValue(data, TAG_Byte_Array, at, readings) = r(at)
      BY NbtValueOfTypes
    <2> HIDE DEF x, r
    <2> QED
      BY <2>4, <2>5, <2>6 DEF Back
  <1> QED
    BY <1>2, <1>3

\* So are arrays.
LEMMA ArrayBack ==
  ASSUME NEW v, NEW values, NEW below, NEW data \in Bytes, NEW readings,
         Sound(values, below, data, readings)
  PROVE  /\ v \in Items(values[TAG_Int]) => Back(TAG_Int_Array, v, below, data, readings)
         /\ v \in Items(values[TAG_Long]) => Back(TAG_Long_Array, v, below, data, readings)
  <1>1. TAG_Int \in Types /\ TAG_Long \in Types
    BY DEF Types, TAG_Int, TAG_Long
  <1>2. ASSUME NEW type \in Types, v \in Items(values[type])
        PROVE  /\ ItemBytes(type, v, below) \in Bytes
               /\ \A at \in Nat : Holds(data, at, ItemBytes(type, v, below)) =>
                    NbtItems(type, Unsigned(BytesAt(data, at, 4)), at + 4, readings)
                    = <<v, at + Len(ItemBytes(type, v, below))>>
    <2>1. ItemsRead(type, v, below, data, readings)
      BY <1>2, ItemsBack
    <2> QED
      BY <2>1 DEF ItemsRead
  <1>3. ASSUME v \in Items(values[TAG_Int])
        PROVE  Back(TAG_Int_Array, v, below, data, readings)
    <2> DEFINE x == ItemBytes(TAG_Int, v, below)
               r(at) == NbtItems(TAG_Int, Unsigned(BytesAt(data, at, 4)), at + 4, readings)
    <2>1. x \in Bytes /\ \A at \in Nat : Holds(data, at, x) => r(at) = <<v, at + Len(x)>>
      BY <1>1, <1>2, <1>3
    <2>2. Payload(TAG_Int_Array, v, below) = x
      BY PayloadOfTypes
    <2>3. \A at \in Nat : NbtValue(data, TAG_Int_Array, at, readings) = r(at)
      BY NbtValueOfTypes
    <2> HIDE DEF x, r
    <2> QED
      BY <2>1, <2>2, <2>3 DEF Back
  <1>4. ASSUME v \in Items(values[TAG_Long])
        PROVE  Back(TAG_Long_Array, v, below, data, readings)
    <2> DEFINE x == ItemBytes(TAG_Long, v, below)
               r(at) == NbtItems(TAG_Long, Unsigned(BytesAt(data, at, 4)), at + 4, readings)
    <2>1. x \in Bytes /\ \A at \in Nat : Holds(data, at, x) => r(at) = <<v, at + Len(x)>>
      BY <1>1, <1>2, <1>4
    <2>2. Payload(TAG_Long_Array, v, below) = x
      BY PayloadOfTypes
    <2>3. \A at \in Nat : NbtValue(data, TAG_Long_Array, at, readings) = r(at)
      BY NbtValueOfTypes
    <2> HIDE DEF x, r
    <2> QED
      BY <2>1, <2>2, <2>3 DEF Back
  <1> QED
    BY <1>3, <1>4

\* So is a list.
LEMMA ListBack ==
  ASSUME NEW v, NEW values, v \in ListsOver(values), NEW below, NEW data \in Bytes, NEW readings,
         Sound(values, below, data, readings)
  PROVE  Back(TAG_List, v, below, data, readings)
  <1> DEFINE type == v[1]
             items == v[2]
             first == <<type>>
             rest == ItemBytes(type, items, below)
  <1>1. type \in Types /\ items \in Items(values[type]) /\ v = <<type, items>>
    BY ListIs
  <1> HIDE DEF type, items
  <1>2. /\ first \in Bytes /\ Len(first) = 1
        /\ \A at \in Nat : Holds(data, at, first) => BytesAt(data, at, 1)[1] = type
    BY <1>1, TypeByte, OneByte
  <1>3. /\ rest \in Bytes
        /\ \A at \in Nat : Holds(data, at, rest) =>
             /\ Unsigned(BytesAt(data, at, 4)) = Len(items)
             /\ NbtItems(type, Len(items), at + 4, readings) = <<items, at + Len(rest)>>
    <2>1. ItemsRead(type, items, below, data, readings)
      BY <1>1, ItemsBack
    <2> QED
      BY <2>1 DEF ItemsRead
  <1>4. Payload(TAG_List, v, below) = first \o rest
    BY PayloadOfTypes DEF type, items
  <1> HIDE DEF first, rest
  <1>5. first \o rest \in Bytes /\ Len(first \o rest) = 1 + Len(rest) /\ Len(rest) \in Nat
    <2>1. Len(rest) \in Nat
      BY <1>3, BytesFacts
    <2>2. first \o rest \in Bytes /\ Len(first \o rest) = Len(first) + Len(rest)
      BY <1>2, <1>3, Behind
    <2> QED
      BY <1>2, <2>1, <2>2
  <1>6. ASSUME NEW at \in Nat, Holds(data, at, first \o rest)
        PROVE  NbtValue(data, TAG_List, at, readings) = <<v, at + Len(first \o rest)>>
    <2>1. Holds(data, at, first) /\ Holds(data, at + 1, rest)
      BY <1>2, <1>3, <1>6, HoldsParts
    <2>2. at + 1 \in Nat /\ (at + 1) + 4 = at + 5 /\ (at + 1) + Len(rest) = at + Len(first \o rest)
      BY <1>5
    <2>3. BytesAt(data, at, 1)[1] = type
      BY <1>2, <2>1
    <2>4. /\ Unsigned(BytesAt(data, at + 1, 4)) = Len(items)
          /\ NbtItems(type, Len(items), at + 5, readings) = <<items, at + Len(first \o rest)>>
      BY <1>3, <2>1, <2>2
    <2>5. NbtValue(data, TAG_List, at, readings) = <<<<type, items>>, at + Len(first \o rest)>>
      <3>1. NbtValue(data, TAG_List, at, readings)
            = <<<<type, NbtItems(type, Len(items), at + 5, readings)[1]>>,
                NbtItems(type, Len(items), at + 5, readings)[2]>>
        BY <2>3, <2>4, NbtValueOfTypes
      <3> QED
        BY <2>4, <3>1
    <2> QED
      BY <1>1, <2>5
  <1> QED
    BY <1>4, <1>5, <1>6 DEF Back

\* So is a compound.
LEMMA CompoundBack ==
  ASSUME NEW v, NEW values, v \in Seq(NodesOver(values)), NEW below, NEW data \in Bytes,
         NEW readings, Sound(values, below, data, readings)
  PROVE  Back(TAG_Compound, v, below, data, readings)
  <1>1. Payload(TAG_Compound, v, below) = CompoundBytes(v, below)
    BY ONLY PayloadOfCompound
  <1>2. \A at \in Nat : NbtValue(data, TAG_Compound, at, readings) = NbtMembers(data, at, readings)
    BY NbtValueOfTypes
  <1>3. MembersRead(v, below, data, readings)
    BY MembersBack
  <1> QED
    BY <1>1, <1>2, <1>3 DEF Back, MembersRead

\* The values of a level are sound when those of the level below are.
LEMMA LevelUp ==
  ASSUME NEW values, NEW below, NEW data \in Bytes, NEW readings,
         Sound(values, below, data, readings)
  PROVE  Sound(ValuesOver(values), PayloadsOver(ValuesOver(values), below), data,
               NbtOver(data, readings))
  <1>1. ASSUME NEW type \in Types, NEW v \in ValuesOver(values)[type]
        PROVE  Back(type, v, below, data, readings)
    <2>1. CASE type \in 1 .. 4
      <3>1. IsSigned(v, Size[type])
        BY <2>1, ValuesOfTypes
      <3> QED
        BY <2>1, <3>1, NumberBack
    <2>2. CASE type = TAG_String \/ type = TAG_Byte_Array
      <3>1. type = TAG_String => v \in Text(2)
        BY ValuesOfTypes
      <3>2. type = TAG_Byte_Array => v \in Items(Byte)
        BY ValuesOfTypes
      <3> QED
        BY <2>2, <3>1, <3>2, StringBack
    <2>3. CASE type = TAG_Int_Array \/ type = TAG_Long_Array
      <3>1. type = TAG_Int_Array => v \in Items(values[TAG_Int])
        BY ValuesOfTypes
      <3>2. type = TAG_Long_Array => v \in Items(values[TAG_Long])
        BY ValuesOfTypes
      <3> QED
        BY <2>3, <3>1, <3>2, ArrayBack
    <2>4. CASE type = TAG_List
      <3>1. v \in ListsOver(values)
        BY <2>4, ValuesOfTypes
      <3> QED
        BY <2>4, <3>1, ListBack
    <2>5. CASE type = TAG_Compound
      <3>1. v \in Seq(NodesOver(values))
        BY <2>5, ValuesOfTypes
      <3> QED
        BY <2>5, <3>1, CompoundBack
    <2>6. \/ type \in 1 .. 4 \/ type = TAG_String \/ type = TAG_Byte_Array
          \/ type = TAG_Int_Array \/ type = TAG_Long_Array \/ type = TAG_List
          \/ type = TAG_Compound
      BY DEF Types, TAG_String, TAG_Byte_Array, TAG_List, TAG_Int_Array, TAG_Long_Array,
             TAG_Compound
    <2> QED
      BY <2>1, <2>2, <2>3, <2>4, <2>5, <2>6
  <1>2. ASSUME NEW type \in Types, NEW v \in ValuesOver(values)[type]
        PROVE  PayloadsOver(ValuesOver(values), below)[type][v] = Payload(type, v, below)
    BY DEF PayloadsOver
  <1>3. ASSUME NEW type \in Types, NEW at \in Nat
        PROVE  NbtOver(data, readings)[type][at] = NbtValue(data, type, at, readings)
    BY DEF NbtOver
  <1> SUFFICES ASSUME NEW type \in Types, NEW v \in ValuesOver(values)[type]
               PROVE  LET bytes == PayloadsOver(ValuesOver(values), below)[type][v]
                      IN  /\ bytes \in Bytes
                          /\ \A at \in Nat : Holds(data, at, bytes) =>
                               NbtOver(data, readings)[type][at] = <<v, at + Len(bytes)>>
    BY DEF Sound
  <1>4. Back(type, v, below, data, readings)
    BY <1>1
  <1> QED
    BY <1>2, <1>3, <1>4 DEF Back

\* The values of every level are.
LEMMA LevelsSound ==
  ASSUME NEW data \in Bytes
  PROVE  \A level \in Nat : Sound(Values[level], Payloads[level], data, NbtValues(data)[level])
  <1> DEFINE Good == {k \in Nat : Sound(Values[k], Payloads[k], data, NbtValues(data)[k])}
  <1>1. 0 \in Good
    <2>1. \A type \in Types : Values[0][type] = {}
      BY ValuesAre DEF NoValues
    <2>2. Sound(Values[0], Payloads[0], data, NbtValues(data)[0])
      BY <2>1 DEF Sound
    <2> QED
      BY <2>2
  <1>2. ASSUME NEW k \in Nat, k \in Good
        PROVE  k + 1 \in Good
    <2>1. Sound(Values[k], Payloads[k], data, NbtValues(data)[k])
      BY <1>2
    <2>2. Values[k + 1] = ValuesOver(Values[k])
      BY ValuesAre
    <2>3. Payloads[k + 1] = PayloadsOver(Values[k + 1], Payloads[k])
      BY PayloadsAre
    <2>4. NbtValues(data)[k + 1] = NbtOver(data, NbtValues(data)[k])
      BY NbtValuesAre
    <2>5. Sound(Values[k + 1], Payloads[k + 1], data, NbtValues(data)[k + 1])
      BY <2>1, <2>2, <2>3, <2>4, LevelUp
    <2> QED
      BY <2>5
  <1>3. Good = Nat
    <2> HIDE DEF Good
    <2> QED
      BY <1>1, <1>2, AllNat DEF Good
  <1> QED
    BY <1>3

\* A tree is bytes, and is read from a buffer that holds them.
LEMMA NbtBack ==
  ASSUME NEW node, node \in NodesOver(Values[MaxLevels]), NEW data \in Bytes
  PROVE  /\ serialize_nbt(node) \in Bytes
         /\ \A at \in Nat : Holds(data, at, serialize_nbt(node)) =>
              NbtNamed(data, at, NbtValues(data)[MaxLevels])
              = <<node, at + Len(serialize_nbt(node))>>
  <1>1. MaxLevels \in Nat
    BY CodecAssumption
  <1>2. Sound(Values[MaxLevels], Payloads[MaxLevels], data, NbtValues(data)[MaxLevels])
    BY <1>1, LevelsSound
  <1> DEFINE values == Values[MaxLevels]
             below == Payloads[MaxLevels]
             readings == NbtValues(data)[MaxLevels]
  <1>3. node \in NodesOver(values) /\ Sound(values, below, data, readings)
    BY <1>2
  <1>4. serialize_nbt(node) = Named(node, below)
    BY DEF serialize_nbt
  <1> HIDE DEF values, below, readings
  <1>5. /\ Named(node, below) \in Bytes
        /\ \A at \in Nat : Holds(data, at, Named(node, below)) =>
             NbtNamed(data, at, readings) = <<node, at + Len(Named(node, below))>>
    BY <1>3, NamedBack
  <1> QED
    BY <1>4, <1>5 DEF readings

-----------------------------------------------------------------------------
(* Fields are read as they are written.                                    *)

\* A field is bytes, and is read from a buffer that holds them.
FieldRead(field, data) ==
  /\ FieldBytes(field) \in Bytes
  /\ \A at \in Nat : Holds(data, at, FieldBytes(field)) =>
       /\ Reading(field, data, at)[2] = at + Len(FieldBytes(field))
       /\ field.kind # "uuid" => Reading(field, data, at)[1] = field.value

\* An unsigned integer is read back.
LEMMA UnsignedField ==
  ASSUME NEW n, n \in Nat, NEW field, IsUnsigned(field.value, n), NEW data \in Bytes,
         FieldBytes(field) = BigEndian(field.value, n),
         \A at \in Nat : Reading(field, data, at) = <<Unsigned(BytesAt(data, at, n)), at + n>>
  PROVE  FieldRead(field, data)
  <1> DEFINE bytes == BigEndian(field.value, n)
  <1>1. field.value \in Int
    BY DEF IsUnsigned
  <1>2. bytes \in Bytes /\ Len(bytes) = n
    BY <1>1, BigEndianBytes
  <1>3. Unsigned(bytes) = field.value
    BY UnsignedBack
  <1>4. FieldBytes(field) = bytes
    OBVIOUS
  <1> HIDE DEF bytes
  <1>5. ASSUME NEW at \in Nat, Holds(data, at, bytes)
        PROVE  Reading(field, data, at) = <<field.value, at + Len(bytes)>>
    <2>1. BytesAt(data, at, Len(bytes)) = bytes
      BY <1>2, <1>5, ReadBytes
    <2> QED
      BY <1>2, <1>3, <2>1
  <1>6. \A at \in Nat : Holds(data, at, bytes) =>
          /\ Reading(field, data, at)[2] = at + Len(bytes)
          /\ Reading(field, data, at)[1] = field.value
    BY ONLY <1>5
  <1> QED
    BY ONLY <1>2, <1>4, <1>6 DEF FieldRead

\* So is a signed one.
LEMMA SignedField ==
  ASSUME NEW n, n \in Nat \ {0}, NEW field, IsSigned(field.value, n), NEW data \in Bytes,
         FieldBytes(field) = BigEndian(field.value, n),
         \A at \in Nat : Reading(field, data, at) = <<Signed(BytesAt(data, at, n)), at + n>>
  PROVE  FieldRead(field, data)
  <1> DEFINE bytes == BigEndian(field.value, n)
  <1>1. field.value \in Int /\ n \in Nat
    BY DEF IsSigned
  <1>2. bytes \in Bytes /\ Len(bytes) = n
    BY <1>1, BigEndianBytes
  <1>3. Signed(bytes) = field.value
    BY SignedBack
  <1>4. FieldBytes(field) = bytes
    OBVIOUS
  <1> HIDE DEF bytes
  <1>5. ASSUME NEW at \in Nat, Holds(data, at, bytes)
        PROVE  Reading(field, data, at) = <<field.value, at + Len(bytes)>>
    <2>1. BytesAt(data, at, Len(bytes)) = bytes
      BY <1>2, <1>5, ReadBytes
    <2> QED
      BY <1>2, <1>3, <2>1
  <1>6. \A at \in Nat : Holds(data, at, bytes) =>
          /\ Reading(field, data, at)[2] = at + Len(bytes)
          /\ Reading(field, data, at)[1] = field.value
    BY ONLY <1>5
  <1> QED
    BY ONLY <1>2, <1>4, <1>6 DEF FieldRead

\* So is a VarInt.
LEMMA VarintField ==
  ASSUME NEW field, field.kind = "varint", IsField(field), NEW data \in Bytes
  PROVE  FieldRead(field, data)
  <1> DEFINE v == field.value
             bytes == Varint(v)
  <1>1. v \in Small
    BY DEF IsField, Small
  <1>2. bytes \in Bytes
    BY <1>1, VarintBytes
  <1>3. FieldBytes(field) = bytes
    BY DEF FieldBytes
  <1>4. \A at \in Nat : Reading(field, data, at) = ReadVarint(data, at)
    BY DEF Reading
  <1>5. \A at \in Nat : Holds(data, at, bytes) => ReadVarint(data, at) = <<v, at + Len(bytes)>>
    BY <1>1, VarintBack
  <1> HIDE DEF bytes
  <1> QED
    BY <1>2, <1>3, <1>4, <1>5 DEF FieldRead

\* So is a string.
LEMMA StringField ==
  ASSUME NEW field, field.kind = "string", IsField(field), NEW data \in Bytes
  PROVE  FieldRead(field, data)
  <1> DEFINE v == field.value
             head == Varint(Len(v))
  <1>1. v \in Bytes /\ Len(v) \in Small
    <2>1. v \in Seq(Byte) /\ Len(v) <= MaxInt
      BY DEF IsField
    <2>2. Len(v) \in Nat /\ MaxInt \in Int
      BY <2>1, SMT DEF MaxInt
    <2> QED
      BY <2>1, <2>2 DEF Bytes, Small
  <1>2. head \in Bytes
    BY <1>1, VarintBytes
  <1>3. FieldBytes(field) = head \o v
    BY DEF FieldBytes
  <1>4. \A at \in Nat : Reading(field, data, at)
          = <<BytesAt(data, ReadVarint(data, at)[2], ReadVarint(data, at)[1]),
              ReadVarint(data, at)[2] + ReadVarint(data, at)[1]>>
    BY DEF Reading
  <1>5. \A at \in Nat : Holds(data, at, head) =>
          ReadVarint(data, at) = <<Len(v), at + Len(head)>>
    BY <1>1, VarintBack
  <1> HIDE DEF head, v
  <1>6. head \o v \in Bytes /\ Len(head \o v) = Len(head) + Len(v)
    BY <1>1, <1>2, Behind
  <1>7. Len(v) \in Nat /\ Len(head) \in Nat
    BY <1>1, <1>2, BytesFacts
  <1>8. ASSUME NEW at \in Nat, Holds(data, at, head \o v)
        PROVE  Reading(field, data, at) = <<v, at + Len(head \o v)>>
    <2>1. Holds(data, at, head) /\ Holds(data, at + Len(head), v)
      BY <1>1, <1>2, <1>8, HoldsParts
    <2>2. ReadVarint(data, at) = <<Len(v), at + Len(head)>>
      BY <1>5, <2>1
    <2>3. at + Len(head) \in Nat /\ (at + Len(head)) + Len(v) = at + Len(head \o v)
      BY <1>6, <1>7
    <2>4. BytesAt(data, at + Len(head), Len(v)) = v
      BY <1>1, <2>1, <2>3, ReadBytes
    <2>5. Reading(field, data, at)
          = <<BytesAt(data, at + Len(head), Len(v)), (at + Len(head)) + Len(v)>>
      BY <1>4, <2>2
    <2> QED
      BY <2>3, <2>4, <2>5
  <1> QED
    BY <1>3, <1>6, <1>8 DEF FieldRead, v

\* So are bytes without a length, to a reader who knows it.
LEMMA ArrayField ==
  ASSUME NEW field, field.kind = "byte_array", IsField(field), NEW data \in Bytes
  PROVE  FieldRead(field, data)
  <1> DEFINE v == field.value
  <1>1. v \in Bytes
    BY DEF IsField, Bytes
  <1>2. FieldBytes(field) = v
    BY DEF FieldBytes
  <1>3. \A at \in Nat : Reading(field, data, at) = <<BytesAt(data, at, Len(v)), at + Len(v)>>
    BY DEF Reading
  <1>4. \A at \in Nat : Holds(data, at, v) => BytesAt(data, at, Len(v)) = v
    BY <1>1, ReadBytes
  <1>5. \A at \in Nat : Holds(data, at, v) =>
          /\ Reading(field, data, at)[2] = at + Len(v)
          /\ Reading(field, data, at)[1] = v
    BY ONLY <1>3, <1>4
  <1> QED
    BY ONLY <1>1, <1>2, <1>5 DEF FieldRead

\* A UUID takes up sixteen bytes.
LEMMA UuidField ==
  ASSUME NEW field, field.kind = "uuid", IsField(field), NEW data \in Bytes
  PROVE  FieldRead(field, data)
  <1> DEFINE bytes == UuidBytes(string_to_uuid(FormatResponse(field.value)))
  <1>1. field.value \in Seq(Digit) /\ Len(field.value) = 32
    BY DEF IsField
  <1>2. bytes \in Bytes /\ Len(bytes) = 16
    BY <1>1, UuidIsBytes
  <1>3. FieldBytes(field) = bytes
    BY DEF FieldBytes
  <1> HIDE DEF bytes
  <1>4. \A at \in Nat : Reading(field, data, at)[2] = at + 16
    BY DEF Reading
  <1> QED
    BY <1>2, <1>3, <1>4 DEF FieldRead

\* An NBT tree is read back.
LEMMA NbtField ==
  ASSUME NEW field, field.kind = "nbt", IsField(field), NEW data \in Bytes
  PROVE  FieldRead(field, data)
  <1> DEFINE v == field.value
             bytes == serialize_nbt(v)
  <1>1. v \in NodesOver(Values[MaxLevels])
    BY DEF IsField
  <1>2. FieldBytes(field) = bytes
    BY DEF FieldBytes
  <1>3. \A at \in Nat : Reading(field, data, at) = NbtNamed(data, at, NbtValues(data)[MaxLevels])
    BY DEF Reading
  <1>4. /\ bytes \in Bytes
        /\ \A at \in Nat : Holds(data, at, bytes) =>
             NbtNamed(data, at, NbtValues(data)[MaxLevels]) = <<v, at + Len(bytes)>>
    BY <1>1, NbtBack
  <1> HIDE DEF bytes
  <1> QED
    BY <1>2, <1>3, <1>4 DEF FieldRead

\* Every field is read as the mcsock_write function of its kind has written it, wherever it
\* is in a packet; of a UUID only the number of bytes is said.
THEOREM FieldBack ==
  ASSUME NEW field, IsField(field), NEW data \in Bytes
  PROVE  FieldRead(field, data)
  <1>1. field.kind \in {"bool", "ubyte", "byte", "ushort", "short", "int", "long", "varint",
                        "string", "byte_array", "uuid", "nbt"}
    BY DEF IsField
  <1>2. CASE field.kind \in {"bool", "ubyte"}
    <2>1. PICK n \in Nat : n = 1
      OBVIOUS
    <2>2. IsUnsigned(field.value, n)
      <3>1. CASE field.kind = "bool"
        <4> DEFINE v == field.value
        <4>1. v \in 0 .. 1
          BY <3>1 DEF IsField
        <4> HIDE DEF v
        <4>2. PICK base \in Base : base = 256
          BY DEF Base
        <4>3. Shifted(v, base, 0) = v /\ Shifted(v, base, 0 + 1) = Shifted(v, base, 0) \div base
          BY <4>1, ShiftedStep
        <4>4. v \div 256 = 0 /\ 0 + 1 = 1 /\ v \in Nat
          BY <4>1
        <4>5. IsUnsigned(v, 1)
          BY <4>2, <4>3, <4>4 DEF IsUnsigned
        <4> QED
          BY <2>1, <4>5 DEF v
      <3>2. CASE field.kind = "ubyte"
        BY <2>1, <3>2 DEF IsField
      <3> QED
        BY <1>2, <3>1, <3>2
    <2>3. FieldBytes(field) = BigEndian(field.value, n)
      BY <1>2, <2>1 DEF FieldBytes
    <2>4. \A at \in Nat : Reading(field, data, at) = <<Unsigned(BytesAt(data, at, n)), at + n>>
      BY <1>2, <2>1 DEF Reading
    <2> QED
      BY <2>2, <2>3, <2>4, UnsignedField
  <1>3. CASE field.kind = "ushort"
    <2>1. PICK n \in Nat : n = 2
      OBVIOUS
    <2>2. IsUnsigned(field.value, n)
      BY <1>3, <2>1 DEF IsField
    <2>3. FieldBytes(field) = BigEndian(field.value, n)
      BY <1>3, <2>1 DEF FieldBytes
    <2>4. \A at \in Nat : Reading(field, data, at) = <<Unsigned(BytesAt(data, at, n)), at + n>>
      BY <1>3, <2>1 DEF Reading
    <2> QED
      BY <2>2, <2>3, <2>4, UnsignedField
  <1>4. CASE field.kind = "byte"
    <2>1. PICK n \in Nat \ {0} : n = 1
      OBVIOUS
    <2>2. IsSigned(field.value, n)
      BY <1>4, <2>1 DEF IsField
    <2>3. FieldBytes(field) = BigEndian(field.value, n)
      BY <1>4, <2>1 DEF FieldBytes
    <2>4. \A at \in Nat : Reading(field, data, at) = <<Signed(BytesAt(data, at, n)), at + n>>
      BY <1>4, <2>1 DEF Reading
    <2> QED
      BY <2>2, <2>3, <2>4, SignedField
  <1>5. CASE field.kind = "short"
    <2>1. PICK n \in Nat \ {0} : n = 2
      OBVIOUS
    <2>2. IsSigned(field.value, n)
      BY <1>5, <2>1 DEF IsField
    <2>3. FieldBytes(field) = BigEndian(field.value, n)
      BY <1>5, <2>1 DEF FieldBytes
    <2>4. \A at \in Nat : Reading(field, data, at) = <<Signed(BytesAt(data, at, n)), at + n>>
      BY <1>5, <2>1 DEF Reading
    <2> QED
      BY <2>2, <2>3, <2>4, SignedField
  <1>6. CASE field.kind = "int"
    <2>1. PICK n \in Nat \ {0} : n = 4
      OBVIOUS
    <2>2. IsSigned(field.value, n)
      BY <1>6, <2>1 DEF IsField
    <2>3. FieldBytes(field) = BigEndian(field.value, n)
      BY <1>6, <2>1 DEF FieldBytes
    <2>4. \A at \in Nat : Reading(field, data, at) = <<Signed(BytesAt(data, at, n)), at + n>>
      BY <1>6, <2>1 DEF Reading
    <2> QED
      BY <2>2, <2>3, <2>4, SignedField
  <1>7. CASE field.kind = "long"
    <2>1. PICK n \in Nat \ {0} : n = 8
      OBVIOUS
    <2>2. IsSigned(field.value, n)
      BY <1>7, <2>1 DEF IsField
    <2>3. FieldBytes(field) = BigEndian(field.value, n)
      BY <1>7, <2>1 DEF FieldBytes
    <2>4. \A at \in Nat : Reading(field, data, at) = <<Signed(BytesAt(data, at, n)), at + n>>
      BY <1>7, <2>1 DEF Reading
    <2> QED
      BY <2>2, <2>3, <2>4, SignedField
  <1>8. CASE field.kind \in {"varint", "string", "byte_array", "uuid", "nbt"}
    BY <1>8, VarintField, StringField, ArrayField, UuidField, NbtField
  <1> QED
    BY <1>1, <1>2, <1>3, <1>4, <1>5, <1>6, <1>7, <1>8

-----------------------------------------------------------------------------
(* The inductive invariant: what is in the buffer, on the wire and in the  *)
(* packet being read is what the history variables say.                    *)

\* The bytes of fields, by their indices.
FieldsBytes(fs) == [k \in 1 .. Len(fs) |-> FieldBytes(Fields[fs[k]])]
Body(fs) == Joined(FieldsBytes(fs))

\* What follows the length of a packet sent, and the whole of it.
Rest(s) == Varint(s.packet_id) \o Body(s.fields)
PlainFrame(s) == Varint(Len(Rest(s))) \o Rest(s)
Frames(ss) == [k \in 1 .. Len(ss) |-> PlainFrame(ss[k])]

\* The packets that may be sent, by their ids and the indices of their fields.
Sends ==
  {s \in [packet_id : PacketIds, fields : Seq(DOMAIN Fields)] : Len(Body(s.fields)) <= MaxBytes}

\* A sequence, of whatever it holds.
IsSeq(s) == s \in Seq({s[k] : k \in DOMAIN s})

\* The packets that have been sent and not received, and what is on the wire once it
\* has been decrypted.
Pending == IF received = NULL THEN sent ELSE Tail(sent)
Clear == IF encrypted THEN Decipher(wire, opened) ELSE wire

\* A size of the buffer that fits this many bytes.
SizeFits(data_length, n) ==
  /\ \E k \in 0 .. 31 : data_length = Doubled(InitSize, k)
  /\ n <= data_length
  /\ data_length > InitSize => 2 * n > data_length

WriterInv ==
  packet # NULL =>
    /\ packet = [packet_id |-> packet.packet_id, data |-> packet.data,
                 data_length |-> packet.data_length]
    /\ packet.packet_id \in PacketIds
    /\ packet.data = Body(fields) /\ Len(packet.data) <= MaxBytes
    /\ SizeFits(packet.data_length, Len(packet.data))
    /\ packets < MaxPackets

ReaderInv ==
  received # NULL /\ missing = 0 =>
    /\ sent # <<>> /\ IsSeq(read) /\ Len(read) <= Len(sent[1].fields)
    /\ received = [packet_id |-> sent[1].packet_id, data |-> Rest(sent[1]),
                   data_ptr |-> Len(Varint(sent[1].packet_id))
                                + Len(JoinedUpTo(FieldsBytes(sent[1].fields))[Len(read)])]
    /\ \A k \in 1 .. Len(read) :
         LET field == Fields[sent[1].fields[k]]
         IN  field.kind # "uuid" => read[k] = field.value

\* The two ends' ciphers, whether or not the reader is in step.
StreamInv ==
  /\ wire \in Seq(Byte) /\ encrypted \in BOOLEAN
  /\ unwritten \in Seq(Nat) /\ missing \in Nat
  /\ opened \in Nat /\ sealed \in Nat
  /\ encrypted => sealed + missing = opened + Len(wire)
  /\ ~encrypted => sealed = opened

\* The reader is in step.
WireInv == missing = 0 => Clear = Joined(Frames(Pending))

IInv ==
  /\ fields \in Seq(DOMAIN Fields)
  /\ packets \in 0 .. MaxPackets /\ written \in 0 .. MaxFields
  /\ WriterInv
  /\ ReaderInv
  /\ StreamInv
  /\ WireInv
  /\ sent \in Seq(Sends)

-----------------------------------------------------------------------------
(* The size of the buffer.                                                 *)

\* Each round doubles it.
LEMMA DoubledStep ==
  ASSUME NEW x \in Nat
  PROVE  /\ Doubled(x, 0) = x
         /\ \A k \in Nat : Doubled(x, k) \in Nat /\ Doubled(x, k + 1) = 2 * Doubled(x, k)
  <1> DEFINE step == [k \in Nat |-> [y \in Nat |-> 2 * y]]
             J == Iterated(step, x)
             Good == {k \in Nat : J[k] \in Nat}
  <1>1. J[0] = x /\ \A k \in Nat : J[k + 1] = step[k + 1][J[k]]
    <2> HIDE DEF step
    <2> QED
      BY IteratedIs
  <1> HIDE DEF J
  <1>2. ASSUME NEW k \in Nat, J[k] \in Nat
        PROVE  J[k + 1] = 2 * J[k]
    <2>1. k + 1 \in Nat
      OBVIOUS
    <2>2. step[k + 1] = [y \in Nat |-> 2 * y]
      BY <2>1
    <2>3. step[k + 1][J[k]] = 2 * J[k]
      BY <1>2, <2>2
    <2> QED
      BY <1>1, <2>3
  <1> HIDE DEF step
  <1>3. Good = Nat
    <2>1. 0 \in Good
      BY <1>1
    <2>2. ASSUME NEW k \in Nat, k \in Good
          PROVE  k + 1 \in Good
      <3>1. J[k + 1] = 2 * J[k]
        BY <1>2, <2>2
      <3> QED
        BY <2>2, <3>1
    <2> HIDE DEF Good
    <2> QED
      BY <2>1, <2>2, AllNat DEF Good
  <1>4. \A k \in Nat : J[k] \in Nat
    BY <1>3
  <1>5. \A k \in Nat : Doubled(x, k) = J[k]
    BY DEF Doubled, J, step
  <1> QED
    BY <1>1, <1>2, <1>4, <1>5

\* Rounds after rounds.
LEMMA DoubledTwice ==
  ASSUME NEW x \in Nat, NEW a \in Nat
  PROVE  \A b \in Nat : Doubled(Doubled(x, a), b) = Doubled(x, a + b)
  <1> DEFINE y == Doubled(x, a)
             Good == {b \in Nat : Doubled(y, b) = Doubled(x, a + b)}
  <1>1. y \in Nat
    BY DoubledStep
  <1>2. 0 \in Good
    <2>1. Doubled(y, 0) = y /\ a + 0 = a
      BY <1>1, DoubledStep
    <2> QED
      BY <2>1
  <1> HIDE DEF y
  <1>3. ASSUME NEW b \in Nat, b \in Good
        PROVE  b + 1 \in Good
    <2>1. Doubled(y, b + 1) = 2 * Doubled(y, b)
      BY <1>1, DoubledStep
    <2>2. a + b \in Nat /\ (a + b) + 1 = a + (b + 1)
      OBVIOUS
    <2>3. Doubled(x, (a + b) + 1) = 2 * Doubled(x, a + b)
      BY <2>2, DoubledStep
    <2>4. Doubled(y, b) = Doubled(x, a + b)
      BY <1>3
    <2>5. Doubled(y, b + 1) = Doubled(x, a + (b + 1))
      BY <2>1, <2>2, <2>3, <2>4
    <2> QED
      BY <2>5
  <1>4. Good = Nat
    <2> HIDE DEF Good
    <2> QED
      BY <1>2, <1>3, AllNat DEF Good
  <1> QED
    BY <1>4 DEF y

\* More rounds never make less.
LEMMA DoubledMore ==
  ASSUME NEW x \in Nat, NEW a \in Nat
  PROVE  \A b \in Nat : Doubled(x, a) <= Doubled(x, a + b)
  <1> DEFINE Good == {b \in Nat : Doubled(x, a) <= Doubled(x, a + b)}
  <1>1. 0 \in Good
    <2>1. Doubled(x, a) \in Nat /\ a + 0 = a
      BY DoubledStep
    <2> QED
      BY <2>1
  <1>2. ASSUME NEW b \in Nat, b \in Good
        PROVE  b + 1 \in Good
    <2>1. a + b \in Nat /\ (a + b) + 1 = a + (b + 1)
      OBVIOUS
    <2>2. Doubled(x, (a + b) + 1) = 2 * Doubled(x, a + b) /\ Doubled(x, a + b) \in Nat
      BY <2>1, DoubledStep
    <2>3. Doubled(x, a) \in Nat
      BY DoubledStep
    <2>4. Doubled(x, a) <= Doubled(x, a + b)
      BY <1>2
    <2>5. Doubled(x, a) <= Doubled(x, a + (b + 1))
      BY <2>1, <2>2, <2>3, <2>4
    <2> QED
      BY <2>5
  <1>3. Good = Nat
    <2> HIDE DEF Good
    <2> QED
      BY <1>1, <1>2, AllNat DEF Good
  <1> QED
    BY <1>3

\* 31 rounds are more than an int holds.
LEMMA Doubled31 ==
  ASSUME NEW x \in Nat \ {0}
  PROVE  MaxInt < Doubled(x, 31)
  <1> DEFINE D(k) == Doubled(x, k)
  <1>1. D(0) = x
    BY DoubledStep
  <1>2. \A k \in Nat : D(k) \in Nat /\ D(k + 1) = 2 * D(k)
    BY DoubledStep
  <1> HIDE DEF D
  <1>3. ASSUME NEW k \in Nat
        PROVE  D(k + 5) = 32 * D(k)
    <2>1. k + 1 \in Nat /\ k + 2 \in Nat /\ k + 3 \in Nat /\ k + 4 \in Nat
      OBVIOUS
    <2>2. /\ D(k + 1) = 2 * D(k) /\ D((k + 1) + 1) = 2 * D(k + 1)
          /\ D((k + 2) + 1) = 2 * D(k + 2) /\ D((k + 3) + 1) = 2 * D(k + 3)
          /\ D((k + 4) + 1) = 2 * D(k + 4) /\ D(k) \in Nat
      BY <1>2, <2>1
    <2>3. /\ (k + 1) + 1 = k + 2 /\ (k + 2) + 1 = k + 3 /\ (k + 3) + 1 = k + 4
          /\ (k + 4) + 1 = k + 5
      OBVIOUS
    <2> QED
      BY <2>2, <2>3
  <1>4. /\ D(0 + 5) = 32 * D(0) /\ D(5 + 5) = 32 * D(5) /\ D(10 + 5) = 32 * D(10)
        /\ D(15 + 5) = 32 * D(15) /\ D(20 + 5) = 32 * D(20) /\ D(25 + 5) = 32 * D(25)
        /\ D(30 + 1) = 2 * D(30)
    BY <1>2, <1>3
  <1>5. /\ D(5) = 32 * D(0) /\ D(10) = 32 * D(5) /\ D(15) = 32 * D(10)
        /\ D(20) = 32 * D(15) /\ D(25) = 32 * D(20) /\ D(30) = 32 * D(25) /\ D(31) = 2 * D(30)
    BY <1>4
  <1>6. D(0) \in Nat /\ D(0) >= 1
    BY <1>1
  <1>7. D(5) \in Nat /\ D(5) >= 32
    BY <1>5, <1>6
  <1>8. D(10) \in Nat /\ D(10) >= 1024
    BY <1>5, <1>7, SMT
  <1>9. D(15) \in Nat /\ D(15) >= 32768
    BY <1>5, <1>8, SMT
  <1>10. D(20) \in Nat /\ D(20) >= 1048576
    BY <1>5, <1>9, SMT
  <1>11. D(25) \in Nat /\ D(25) >= 33554432
    BY <1>5, <1>10, SMT
  <1>12. D(30) \in Nat /\ D(30) >= 1073741824
    BY <1>5, <1>11, SMT
  <1>13. D(31) \in Nat /\ D(31) >= 2147483648
    BY <1>5, <1>12, SMT
  <1>14. MaxInt < D(31)
    BY <1>13, SMT DEF MaxInt
  <1> QED
    BY <1>14 DEF D

\* A size that fits is grown to one that fits more.
LEMMA GrownFits ==
  ASSUME NEW size, NEW n \in Nat, NEW need \in Nat, n <= need, need <= MaxInt, SizeFits(size, n)
  PROVE  SizeFits(Grown(size, need), need) /\ Grown(size, need) \in Nat
  <1> DEFINE least == CHOOSE r \in 0 .. 31 : /\ need <= Doubled(size, r)
                                             /\ \A k \in 0 .. r - 1 : need > Doubled(size, k)
             Enough == {r \in 0 .. 31 : need <= Doubled(size, r)}
             m == Min(Enough)
             grown == Grown(size, need)
  <1>1. InitSize \in Nat /\ InitSize \in Nat \ {0} /\ MaxInt \in Int
    <2>1. MaxInt \in Int
      BY SMT DEF MaxInt
    <2> QED
      BY <2>1, PacketAssumption
  <1>2. PICK j \in 0 .. 31 : size = Doubled(InitSize, j)
    BY DEF SizeFits
  <1>3. size \in Nat /\ size >= InitSize /\ size \in Nat \ {0}
    <2>1. j \in Nat /\ 0 \in Nat /\ 0 + j = j
      OBVIOUS
    <2>2. Doubled(InitSize, 0) = InitSize /\ Doubled(InitSize, j) \in Nat
      BY <1>1, <2>1, DoubledStep
    <2>3. Doubled(InitSize, 0) <= Doubled(InitSize, 0 + j)
      BY <1>1, <2>1, DoubledMore
    <2>4. InitSize <= size /\ size \in Nat
      BY <1>2, <2>1, <2>2, <2>3
    <2> QED
      BY <1>1, <2>4
  <1>4. \A k \in Nat : Doubled(size, k) \in Nat /\ Doubled(size, k + 1) = 2 * Doubled(size, k)
    BY <1>3, DoubledStep
  <1>5. n <= size /\ (size > InitSize => 2 * n > size)
    BY DEF SizeFits
  <1>6. 31 \in Enough /\ Enough \subseteq Nat
    <2>1. MaxInt < Doubled(size, 31)
      BY <1>3, Doubled31
    <2>2. Doubled(size, 31) \in Nat
      BY <1>4
    <2>3. need <= Doubled(size, 31)
      BY <1>1, <2>1, <2>2
    <2> QED
      BY <2>3
  <1>7. m \in Enough /\ \A y \in Enough : m <= y
    <2> HIDE DEF Enough
    <2> QED
      BY <1>6, MinLeast
  <1> HIDE DEF m
  <1>8. /\ m \in 0 .. 31 /\ need <= Doubled(size, m)
        /\ \A k \in 0 .. m - 1 : need > Doubled(size, k)
    <2>1. m \in 0 .. 31 /\ need <= Doubled(size, m)
      BY <1>7
    <2>2. ASSUME NEW k \in 0 .. m - 1
          PROVE  need > Doubled(size, k)
      <3>1. k \in 0 .. 31 /\ ~(m <= k) /\ k \in Nat
        BY <2>1
      <3>2. k \notin Enough
        BY <1>7, <3>1
      <3>3. Doubled(size, k) \in Nat
        BY <1>4, <3>1
      <3> QED
        BY <3>1, <3>2, <3>3
    <2> QED
      BY <2>1, <2>2
  <1>9. /\ least \in 0 .. 31 /\ need <= Doubled(size, least)
        /\ \A k \in 0 .. least - 1 : need > Doubled(size, k)
    <2>1. \E r \in 0 .. 31 : need <= Doubled(size, r) /\ \A k \in 0 .. r - 1 : need > Doubled(size, k)
      BY <1>8
    <2> HIDE DEF Enough
    <2> QED
      BY <2>1
  <1>10. grown = Doubled(size, least)
    BY DEF Grown
  <1> HIDE DEF least, grown, Enough
  <1>11. grown \in Nat /\ least \in Nat
    BY <1>4, <1>9, <1>10
  <1>12. CASE least = 0
    <2>1. grown = size
      BY <1>3, <1>10, <1>12, DoubledStep
    <2>2. SizeFits(grown, need)
      <3>1. grown > InitSize => 2 * need > grown
        BY <1>1, <1>3, <1>5, <2>1
      <3>2. need <= grown
        BY <1>9, <1>10
      <3> QED
        BY <1>2, <2>1, <3>1, <3>2 DEF SizeFits
    <2> QED
      BY <1>11, <2>2 DEF grown
  <1>13. CASE least # 0
    <2> DEFINE last == least - 1
    <2>1. last \in Nat /\ last + 1 = least /\ last \in 0 .. least - 1
      BY <1>11, <1>13
    <2>2. need > Doubled(size, last) /\ grown = 2 * Doubled(size, last) /\ Doubled(size, last) \in Nat
      BY <1>4, <1>9, <1>10, <2>1
    <2>3. 2 * need > grown
      BY <2>2
    <2>4. Doubled(size, last) = Doubled(InitSize, j + last) /\ grown = Doubled(InitSize, j + least)
      <3>1. j \in Nat
        OBVIOUS
      <3> QED
        BY <1>1, <1>2, <1>10, <1>11, <2>1, <3>1, DoubledTwice
    <2>5. j + last < 31
      <3> SUFFICES ASSUME j + last >= 31
                   PROVE  FALSE
        BY <2>1
      <3> DEFINE more == (j + last) - 31
      <3>1. more \in Nat /\ 31 + more = j + last /\ 31 \in Nat
        BY <2>1
      <3>2. Doubled(InitSize, 31) <= Doubled(InitSize, 31 + more)
        BY <1>1, <3>1, DoubledMore
      <3>3. MaxInt < Doubled(InitSize, 31)
        BY <1>1, Doubled31
      <3>4. Doubled(InitSize, 31) \in Nat
        BY <1>1, DoubledStep
      <3>5. Doubled(InitSize, 31) <= Doubled(size, last)
        BY <2>4, <3>1, <3>2
      <3> QED
        BY <1>1, <2>2, <3>3, <3>4, <3>5
    <2>6. j + least \in 0 .. 31
      BY <1>11, <2>1, <2>5
    <2>7. need <= grown
      BY <1>9, <1>10
    <2>8. SizeFits(grown, need)
      BY <2>3, <2>4, <2>6, <2>7 DEF SizeFits
    <2> QED
      BY <1>11, <2>8 DEF grown
  <1> QED
    BY <1>12, <1>13

-----------------------------------------------------------------------------
(* The cipher.                                                             *)

\* Bytes are deciphered to themselves, at the place where they were enciphered.
LEMMA CipherBack ==
  ASSUME NEW x \in Bytes, NEW n \in Nat
  PROVE  /\ Cipher(x, n) \in Bytes /\ Len(Cipher(x, n)) = Len(x)
         /\ Decipher(Cipher(x, n), n) = x
  <1> DEFINE c == [k \in 1 .. Len(x) |-> (x[k] + n + k) % 256]
             d == [k \in 1 .. Len(x) |-> (c[k] - n - k) % 256]
  <1>1. Len(x) \in Nat /\ DOMAIN x = 1 .. Len(x) /\ \A k \in 1 .. Len(x) : x[k] \in Nat /\ x[k] < 256
    BY BytesFacts
  <1>2. ASSUME NEW k \in 1 .. Len(x)
        PROVE  c[k] \in Byte /\ d[k] = x[k]
    <2> DEFINE b == x[k]
               m == n + k
               e == (b + m) % 256
    <2>1. b \in Nat /\ b < 256 /\ m \in Nat
      BY <1>1
    <2>2. c[k] = (b + n + k) % 256 /\ d[k] = (c[k] - n - k) % 256
      OBVIOUS
    <2> HIDE DEF b, m, c, d
    <2>3. b + n + k = b + m /\ b + m \in Int
      BY <1>1, <2>1 DEF m
    <2>4. e \in 0 .. 255 /\ (256 * ((b + m) \div 256)) + e = b + m /\ (b + m) \div 256 \in Int
      BY <2>1, <2>3
    <2>5. c[k] = e
      BY <2>2, <2>3
    <2> HIDE DEF e
    <2>6. c[k] - n - k = e - m
      BY <1>1, <2>4, <2>5 DEF m
    <2>7. (e - m) % 256 = b
      <3> DEFINE q == (b + m) \div 256
      <3>1. e - m = b - (256 * q) /\ q \in Int
        BY <2>1, <2>4
      <3> HIDE DEF q
      <3>2. (b - (256 * q)) % 256 = b
        BY <2>1, <3>1
      <3> QED
        BY <3>1, <3>2
    <2>8. e \in Byte
      BY <2>4 DEF Byte
    <2> QED
      BY <2>2, <2>5, <2>6, <2>7, <2>8 DEF b
  <1>3. Cipher(x, n) = c
    BY <1>1 DEF Cipher
  <1>4. c = [k \in 1 .. Len(x) |-> c[k]] /\ d = [k \in 1 .. Len(x) |-> d[k]] /\ DOMAIN c = 1 .. Len(x)
    OBVIOUS
  <1>5. Decipher(c, n) = d
    BY <1>4 DEF Decipher
  <1> HIDE DEF c, d
  <1>6. [k \in 1 .. Len(x) |-> c[k]] \in Bytes /\ Len([k \in 1 .. Len(x) |-> c[k]]) = Len(x)
    BY <1>1, <1>2, MakeBytes
  <1>7. d = x
    <2>1. x = [k \in 1 .. Len(x) |-> x[k]]
      BY DEF Bytes
    <2> QED
      BY <1>2, <1>4, <2>1
  <1> QED
    BY <1>3, <1>4, <1>5, <1>6, <1>7

\* Bytes are deciphered.
LEMMA DecipherBytes ==
  ASSUME NEW x \in Bytes, NEW n \in Nat
  PROVE  /\ Decipher(x, n) \in Bytes /\ Len(Decipher(x, n)) = Len(x)
         /\ \A k \in 1 .. Len(x) : Decipher(x, n)[k] = (x[k] - n - k) % 256
  <1> DEFINE d == [k \in 1 .. Len(x) |-> (x[k] - n - k) % 256]
  <1>1. Len(x) \in Nat /\ DOMAIN x = 1 .. Len(x) /\ \A k \in 1 .. Len(x) : x[k] \in Nat
    BY BytesFacts
  <1>2. ASSUME NEW k \in 1 .. Len(x)
        PROVE  d[k] \in Byte
    <2>1. x[k] - n - k \in Int
      BY <1>1
    <2>2. d[k] = (x[k] - n - k) % 256
      OBVIOUS
    <2> HIDE DEF d
    <2> DEFINE w == x[k] - n - k
    <2>3. w % 256 \in 0 .. 255
      <3>1. w \in Int
        BY <2>1
      <3> HIDE DEF w
      <3> QED
        BY ONLY <3>1
    <2>4. d[k] \in 0 .. 255
      BY ONLY <2>2, <2>3
    <2> QED
      BY <2>4 DEF Byte
  <1>3. Decipher(x, n) = d
    BY <1>1 DEF Decipher
  <1>4. d = [k \in 1 .. Len(x) |-> d[k]] /\ \A k \in 1 .. Len(x) : d[k] = (x[k] - n - k) % 256
    OBVIOUS
  <1> HIDE DEF d
  <1>5. [k \in 1 .. Len(x) |-> d[k]] \in Bytes /\ Len([k \in 1 .. Len(x) |-> d[k]]) = Len(x)
    BY <1>1, <1>2, MakeBytes
  <1> QED
    BY <1>3, <1>4, <1>5

\* Two pieces are deciphered one after the other.
LEMMA DecipherBoth ==
  ASSUME NEW x \in Bytes, NEW y \in Bytes, NEW n \in Nat
  PROVE  Decipher(x \o y, n) = Decipher(x, n) \o Decipher(y, n + Len(x))
  <1> DEFINE dx == Decipher(x, n)
             dy == Decipher(y, n + Len(x))
             d == Decipher(x \o y, n)
  <1>1. Len(x) \in Nat /\ Len(y) \in Nat /\ n + Len(x) \in Nat
    BY BytesFacts
  <1>2. /\ x \o y \in Bytes /\ Len(x \o y) = Len(x) + Len(y)
        /\ \A k \in 1 .. Len(x) : (x \o y)[k] = x[k]
        /\ \A k \in 1 .. Len(y) : (x \o y)[Len(x) + k] = y[k]
    BY Behind
  <1>3. /\ d \in Bytes /\ Len(d) = Len(x) + Len(y)
        /\ \A k \in 1 .. Len(x) + Len(y) : d[k] = ((x \o y)[k] - n - k) % 256
    <2> DEFINE xy == x \o y
    <2>1. xy \in Bytes /\ Len(xy) = Len(x) + Len(y)
      BY <1>2
    <2> HIDE DEF xy
    <2>2. /\ Decipher(xy, n) \in Bytes /\ Len(Decipher(xy, n)) = Len(xy)
          /\ \A k \in 1 .. Len(xy) : Decipher(xy, n)[k] = (xy[k] - n - k) % 256
      BY <2>1, DecipherBytes
    <2>3. d = Decipher(xy, n)
      BY DEF xy
    <2> HIDE DEF d
    <2>4. /\ d \in Bytes /\ Len(d) = Len(x) + Len(y)
          /\ \A k \in 1 .. Len(x) + Len(y) : d[k] = (xy[k] - n - k) % 256
      BY ONLY <2>1, <2>2, <2>3
    <2> QED
      BY ONLY <2>4 DEF xy
  <1>4. dx \in Bytes /\ Len(dx) = Len(x) /\ \A k \in 1 .. Len(x) : dx[k] = (x[k] - n - k) % 256
    BY DecipherBytes
  <1>5. /\ dy \in Bytes /\ Len(dy) = Len(y)
        /\ \A k \in 1 .. Len(y) : dy[k] = (y[k] - (n + Len(x)) - k) % 256
    BY <1>1, DecipherBytes
  <1> HIDE DEF d, dx, dy
  <1>6. /\ dx \o dy \in Bytes /\ Len(dx \o dy) = Len(x) + Len(y)
        /\ \A k \in 1 .. Len(x) : (dx \o dy)[k] = dx[k]
        /\ \A k \in 1 .. Len(y) : (dx \o dy)[Len(x) + k] = dy[k]
    <2>1. /\ dx \o dy \in Bytes /\ Len(dx \o dy) = Len(dx) + Len(dy)
          /\ \A k \in 1 .. Len(dx) : (dx \o dy)[k] = dx[k]
          /\ \A k \in 1 .. Len(dy) : (dx \o dy)[Len(dx) + k] = dy[k]
      <3>1. dx \in Bytes /\ dy \in Bytes
        BY <1>4, <1>5
      <3> QED
        BY ONLY <3>1, Behind
    <2>2. Len(dx) = Len(x) /\ Len(dy) = Len(y)
      BY <1>4, <1>5
    <2> QED
      BY ONLY <2>1, <2>2
  <1>7. ASSUME NEW k \in 1 .. Len(d)
        PROVE  d[k] = (dx \o dy)[k]
    <2>1. CASE k <= Len(x)
      <3>1. k \in 1 .. Len(x) /\ k \in 1 .. Len(x) + Len(y)
        BY <1>1, <1>3, <2>1
      <3> QED
        BY <1>2, <1>3, <1>4, <1>6, <3>1
    <2>2. CASE k > Len(x)
      <3>1. PICK j \in 1 .. Len(y) : k = Len(x) + j
        <4>1. k - Len(x) \in 1 .. Len(y) /\ k = Len(x) + (k - Len(x))
          BY <1>1, <1>3, <2>2
        <4> QED
          BY <4>1
      <3>2. d[k] = (y[j] - n - k) % 256
        <4>1. k \in 1 .. Len(x) + Len(y)
          BY <1>3
        <4>2. (x \o y)[k] = y[j]
          BY <1>2, <3>1
        <4> QED
          BY <1>3, <4>1, <4>2
      <3>3. (dx \o dy)[k] = (y[j] - (n + Len(x)) - j) % 256
        BY <1>5, <1>6, <3>1
      <3>4. y[j] \in Nat
        BY BytesFacts
      <3>5. y[j] - n - k = y[j] - (n + Len(x)) - j
        BY <1>1, <3>1, <3>4
      <3> QED
        BY <3>2, <3>3, <3>5
    <2>3. k \in Nat
      BY <1>1, <1>3
    <2>4. k <= Len(x) \/ k > Len(x)
      BY ONLY <1>1, <2>3
    <2> QED
      BY ONLY <2>1, <2>2, <2>4
  <1>8. d = dx \o dy
    BY <1>3, <1>6, <1>7, SameBytes
  <1> QED
    BY <1>8 DEF d, dx, dy

\* Whatever is enciphered in three pieces is deciphered in one.
LEMMA CipherThree ==
  ASSUME NEW x \in Bytes, NEW y \in Bytes, NEW z \in Bytes, NEW n \in Nat
  PROVE  LET c == Cipher(x, n) \o Cipher(y, n + Len(x)) \o Cipher(z, n + Len(x) + Len(y))
         IN  /\ c \in Bytes /\ Len(c) = Len(x) + Len(y) + Len(z)
             /\ Decipher(c, n) = x \o y \o z
  <1> DEFINE cx == Cipher(x, n)
             cy == Cipher(y, n + Len(x))
             cz == Cipher(z, n + Len(x) + Len(y))
  <1>1. n + Len(x) \in Nat /\ n + Len(x) + Len(y) \in Nat /\ Len(x) \in Nat /\ Len(y) \in Nat
    BY BytesFacts
  <1>2. cx \in Bytes /\ Len(cx) = Len(x) /\ Decipher(cx, n) = x
    BY CipherBack
  <1>3. cy \in Bytes /\ Len(cy) = Len(y) /\ Decipher(cy, n + Len(x)) = y
    BY <1>1, CipherBack
  <1>4. cz \in Bytes /\ Len(cz) = Len(z) /\ Decipher(cz, n + Len(x) + Len(y)) = z
    BY <1>1, CipherBack
  <1> HIDE DEF cx, cy, cz
  <1>5. cx \o cy \in Bytes /\ Len(cx \o cy) = Len(x) + Len(y) /\ Decipher(cx \o cy, n) = x \o y
    <2>1. cx \o cy \in Bytes /\ Len(cx \o cy) = Len(cx) + Len(cy)
      BY <1>2, <1>3, Behind
    <2>2. Decipher(cx \o cy, n) = Decipher(cx, n) \o Decipher(cy, n + Len(cx))
      <3>1. n \in Nat
        OBVIOUS
      <3> QED
        BY ONLY <1>2, <1>3, <3>1, DecipherBoth
    <2> QED
      BY ONLY <1>2, <1>3, <2>1, <2>2
  <1>6. /\ (cx \o cy) \o cz \in Bytes /\ Len((cx \o cy) \o cz) = (Len(x) + Len(y)) + Len(z)
        /\ Decipher((cx \o cy) \o cz, n) = (x \o y) \o z
    <2>1. n + Len(cx \o cy) = n + Len(x) + Len(y)
      BY <1>1, <1>5
    <2>2. Decipher((cx \o cy) \o cz, n) = Decipher(cx \o cy, n) \o Decipher(cz, n + Len(cx \o cy))
      <3>1. n \in Nat
        OBVIOUS
      <3> QED
        BY ONLY <1>4, <1>5, <3>1, DecipherBoth
    <2>3. (cx \o cy) \o cz \in Bytes /\ Len((cx \o cy) \o cz) = Len(cx \o cy) + Len(cz)
      BY <1>4, <1>5, Behind
    <2> QED
      BY <1>4, <1>5, <2>1, <2>2, <2>3
  <1> QED
    BY <1>6 DEF cx, cy, cz

\* What lies in the middle, or behind, is deciphered from where it is.
LEMMA DecipherAt ==
  ASSUME NEW x \in Bytes, NEW n \in Nat, NEW at \in Nat, NEW m \in Nat, at + m <= Len(x)
  PROVE  Decipher(BytesAt(x, at, m), n + at) = BytesAt(Decipher(x, n), at, m)
  <1> DEFINE part == BytesAt(x, at, m)
             d == Decipher(x, n)
             dp == Decipher(part, n + at)
             pd == BytesAt(d, at, m)
  <1>1. Len(x) \in Nat /\ n + at \in Nat
    BY BytesFacts
  <1>2. d \in Bytes /\ Len(d) = Len(x) /\ \A k \in 1 .. Len(x) : d[k] = (x[k] - n - k) % 256
    BY DecipherBytes
  <1>3. part \in Bytes /\ Len(part) = m
    BY AnyBytes
  <1>4. \A k \in 1 .. m : part[k] = x[at + k]
    BY <1>1 DEF BytesAt
  <1> HIDE DEF part, d
  <1>5. dp \in Bytes /\ Len(dp) = m /\ \A k \in 1 .. m : dp[k] = (part[k] - (n + at) - k) % 256
    BY <1>1, <1>3, DecipherBytes
  <1>6. pd \in Bytes /\ Len(pd) = m
    BY <1>2, AnyBytes
  <1>7. \A k \in 1 .. m : pd[k] = d[at + k]
    BY <1>1, <1>2 DEF BytesAt
  <1> HIDE DEF dp, pd
  <1>8. ASSUME NEW k \in 1 .. Len(dp)
        PROVE  dp[k] = pd[k]
    <2>1. k \in 1 .. m /\ at + k \in 1 .. Len(x)
      BY <1>1, <1>5
    <2>2. pd[k] = (x[at + k] - n - (at + k)) % 256
      BY <1>2, <1>7, <2>1
    <2>3. dp[k] = (x[at + k] - (n + at) - k) % 256
      BY <1>4, <1>5, <2>1
    <2>4. x[at + k] \in Nat
      BY <2>1, BytesFacts
    <2>5. x[at + k] - n - (at + k) = x[at + k] - (n + at) - k
      BY <2>1, <2>4
    <2> QED
      BY <2>2, <2>3, <2>5
  <1>9. dp = pd
    BY <1>5, <1>6, <1>8, SameBytes
  <1> QED
    BY <1>9 DEF dp, pd, d, part

\* What is left of a buffer is what lies behind.
LEMMA LeftBehind ==
  ASSUME NEW x \in Bytes, NEW at \in Nat, at <= Len(x)
  PROVE  SubSeq(x, at + 1, Len(x)) = BytesAt(x, at, Len(x) - at)
  <1> DEFINE s == SubSeq(x, at + 1, Len(x))
             b == BytesAt(x, at, Len(x) - at)
  <1>1. Len(x) \in Nat /\ Len(x) - at \in Nat /\ at + 1 \in Int /\ Len(x) \in Int
    BY BytesFacts
  <1>2. \A i \in at + 1 .. Len(x) : x[i] \in Byte
    <2> SUFFICES ASSUME NEW i \in at + 1 .. Len(x)
                 PROVE  x[i] \in Byte
      OBVIOUS
    <2>1. i \in 1 .. Len(x)
      BY <1>1
    <2> QED
      BY <2>1, BytesFacts
  <1>3. /\ s \in Seq(Byte) /\ Len(s) = IF at + 1 <= Len(x) THEN Len(x) - (at + 1) + 1 ELSE 0
        /\ \A i \in 1 .. Len(x) - (at + 1) + 1 : s[i] = x[(at + 1) + i - 1]
    BY <1>1, <1>2, SubSeqProperties
  <1> HIDE DEF s
  <1>4. s \in Bytes /\ Len(s) = Len(x) - at
    BY <1>1, <1>3 DEF Bytes
  <1>5. b \in Bytes /\ Len(b) = Len(x) - at
    BY <1>1, AnyBytes
  <1>6. ASSUME NEW k \in 1 .. Len(s)
        PROVE  s[k] = b[k]
    <2>1. /\ k \in 1 .. Len(x) - (at + 1) + 1 /\ (at + 1) + k - 1 = at + k
          /\ k \in 1 .. Len(x) - at /\ at + k <= Len(x)
      BY <1>1, <1>4
    <2>2. s[k] = x[at + k]
      BY <1>3, <2>1
    <2>3. b[k] = x[at + k]
      BY <2>1 DEF BytesAt
    <2> QED
      BY <2>2, <2>3
  <1> HIDE DEF b
  <1>7. s = b
    BY <1>4, <1>5, <1>6, SameBytes
  <1> QED
    BY <1>7 DEF s, b

-----------------------------------------------------------------------------
(* What is in a packet and in a frame.                                     *)

\* A sequence of anything that grows by anything.
LEMMA AppendAny ==
  ASSUME NEW s, IsSeq(s), NEW x
  PROVE  /\ IsSeq(Append(s, x)) /\ Len(s) \in Nat /\ Len(Append(s, x)) = Len(s) + 1
         /\ \A k \in 1 .. Len(s) : Append(s, x)[k] = s[k]
         /\ Append(s, x)[Len(s) + 1] = x
  <1> DEFINE T == {s[k] : k \in DOMAIN s} \union {x}
             a == Append(s, x)
  <1>1. s \in Seq(T) /\ x \in T
    <2> DEFINE S == {s[k] : k \in DOMAIN s}
    <2>1. s \in Seq(S)
      BY DEF IsSeq
    <2>2. S \subseteq T
      OBVIOUS
    <2> HIDE DEF S
    <2>3. s \in Seq(T)
      BY ONLY <2>1, <2>2, SeqMonotonic
    <2> QED
      BY <2>3
  <1> HIDE DEF T
  <1>2. /\ a \in Seq(T) /\ Len(a) = Len(s) + 1 /\ Len(s) \in Nat
        /\ \A i \in 1 .. Len(s) : a[i] = s[i]
        /\ a[Len(s) + 1] = x
    BY <1>1, AppendProperties, LenProperties
  <1> HIDE DEF a
  <1>3. IsSeq(a)
    <2> DEFINE S == {a[k] : k \in DOMAIN a}
    <2>1. a \in [1 .. Len(a) -> T] /\ DOMAIN a = 1 .. Len(a) /\ Len(a) \in Nat
      BY <1>2, LenProperties
    <2>2. a \in [1 .. Len(a) -> S]
      BY <2>1
    <2> HIDE DEF S
    <2>3. a \in Seq(S)
      BY <2>1, <2>2, SeqDef
    <2> QED
      BY <2>3 DEF IsSeq, S
  <1> QED
    BY <1>2, <1>3 DEF a

\* The bytes of fields are bytes.
LEMMA FieldsAre ==
  ASSUME NEW fs \in Seq(DOMAIN Fields)
  PROVE  /\ FieldsBytes(fs) \in Parts /\ Len(FieldsBytes(fs)) = Len(fs) /\ Len(fs) \in Nat
         /\ Body(fs) \in Bytes
         /\ \A k \in 1 .. Len(fs) : /\ FieldsBytes(fs)[k] = FieldBytes(Fields[fs[k]])
                                    /\ IsField(Fields[fs[k]]) /\ FieldBytes(Fields[fs[k]]) \in Bytes
  <1> DEFINE f == [k \in 1 .. Len(fs) |-> FieldBytes(Fields[fs[k]])]
  <1>1. Len(fs) \in Nat
    BY LenProperties
  <1>2. ASSUME NEW k \in 1 .. Len(fs)
        PROVE  IsField(Fields[fs[k]]) /\ FieldBytes(Fields[fs[k]]) \in Bytes
    <2> DEFINE field == Fields[fs[k]]
    <2>1. fs[k] \in DOMAIN Fields
      BY ElementOfSeq
    <2>2. IsField(field)
      BY <2>1, PacketAssumption
    <2> HIDE DEF field
    <2>3. FieldRead(field, <<>>)
      BY <2>2, Empty, FieldBack
    <2> QED
      BY <2>2, <2>3 DEF FieldRead, field
  <1>3. f \in [1 .. Len(fs) -> Bytes] /\ DOMAIN f = 1 .. Len(fs)
    BY <1>2
  <1>4. f \in Parts /\ Len(f) = Len(fs)
    <2> HIDE DEF f
    <2>1. f \in Seq(Bytes)
      BY <1>1, <1>3, SeqDef
    <2>2. Len(f) = Len(fs)
      BY <1>1, <1>3, <2>1, LenProperties
    <2> QED
      BY <2>1, <2>2 DEF Parts
  <1>5. FieldsBytes(fs) = f
    BY DEF FieldsBytes
  <1>6. Body(fs) \in Bytes
    <2> HIDE DEF f
    <2>1. 0 \in 0 .. Len(f)
      BY <1>1, <1>4
    <2> QED
      BY <1>4, <1>5, <2>1, JoinedFront DEF Body
  <1>7. \A k \in 1 .. Len(fs) : f[k] = FieldBytes(Fields[fs[k]])
    OBVIOUS
  <1> HIDE DEF f
  <1> QED
    BY <1>1, <1>2, <1>4, <1>5, <1>6, <1>7

\* One more field makes its bytes follow.
LEMMA BodyAppend ==
  ASSUME NEW fs \in Seq(DOMAIN Fields), NEW k \in DOMAIN Fields
  PROVE  /\ Append(fs, k) \in Seq(DOMAIN Fields) /\ FieldBytes(Fields[k]) \in Bytes
         /\ Body(Append(fs, k)) = Body(fs) \o FieldBytes(Fields[k])
  <1> DEFINE a == Append(fs, k)
             x == FieldBytes(Fields[k])
             old == FieldsBytes(fs)
             new == FieldsBytes(a)
  <1>1. /\ a \in Seq(DOMAIN Fields) /\ Len(a) = Len(fs) + 1 /\ Len(fs) \in Nat
        /\ \A i \in 1 .. Len(fs) : a[i] = fs[i]
        /\ a[Len(fs) + 1] = k
    BY AppendProperties, LenProperties
  <1> HIDE DEF a
  <1>2. /\ old \in Parts /\ Len(old) = Len(fs)
        /\ \A i \in 1 .. Len(fs) : old[i] = FieldBytes(Fields[fs[i]])
    BY FieldsAre
  <1>3. /\ new \in Parts /\ Len(new) = Len(a)
        /\ \A i \in 1 .. Len(a) : new[i] = FieldBytes(Fields[a[i]]) /\ FieldBytes(Fields[a[i]]) \in Bytes
    BY <1>1, FieldsAre
  <1> HIDE DEF old, new
  <1>4. x \in Bytes /\ new[Len(fs) + 1] = x
    <2>1. Len(fs) + 1 \in 1 .. Len(a)
      BY <1>1
    <2> QED
      BY <1>1, <1>3, <2>1
  <1> HIDE DEF x
  <1>5. new = Append(old, x)
    <2> DEFINE b == Append(old, x)
    <2>1. /\ b \in Parts /\ Len(b) = Len(old) + 1 /\ \A i \in 1 .. Len(old) : b[i] = old[i]
          /\ b[Len(old) + 1] = x
      BY <1>2, <1>4, AppendProperties DEF Parts
    <2> HIDE DEF b
    <2>2. ASSUME NEW i \in 1 .. Len(new)
          PROVE  new[i] = b[i]
      <3>1. CASE i = Len(fs) + 1
        BY <1>2, <1>4, <2>1, <3>1
      <3>2. CASE i # Len(fs) + 1
        <4>1. i \in 1 .. Len(fs) /\ i \in 1 .. Len(a)
          BY <1>1, <1>3, <3>2
        <4>2. new[i] = FieldBytes(Fields[fs[i]])
          BY <1>1, <1>3, <4>1
        <4>3. b[i] = old[i] /\ old[i] = FieldBytes(Fields[fs[i]])
          BY <1>2, <2>1, <4>1
        <4> QED
          BY <4>2, <4>3
      <3> QED
        BY <3>1, <3>2
    <2>3. Len(new) = Len(b)
      BY <1>1, <1>2, <1>3, <2>1
    <2>4. new = b
      BY <1>3, <2>1, <2>2, <2>3, SeqEqual DEF Parts
    <2> QED
      BY <2>4 DEF b
  <1>6. Joined(new) = Joined(old) \o x
    BY <1>2, <1>4, <1>5, JoinedAppend
  <1> QED
    BY <1>1, <1>4, <1>6 DEF Body, a, x, old, new

\* The bytes of a packet that may be sent; their number is one that an int holds.
LEMMA SendBytes ==
  ASSUME NEW s \in Sends
  PROVE  /\ s = [packet_id |-> s.packet_id, fields |-> s.fields]
         /\ s.packet_id \in PacketIds /\ s.packet_id \in Small /\ s.fields \in Seq(DOMAIN Fields)
         /\ Varint(s.packet_id) \in Bytes /\ Body(s.fields) \in Bytes /\ Rest(s) \in Bytes
         /\ Len(Rest(s)) = Len(Varint(s.packet_id)) + Len(Body(s.fields))
         /\ Len(Rest(s)) \in Small /\ Varint(Len(Rest(s))) \in Bytes
         /\ PlainFrame(s) \in Bytes
         /\ Len(PlainFrame(s)) = Len(Varint(Len(Rest(s)))) + Len(Rest(s))
         /\ Len(PlainFrame(s)) >= 1
  <1> DEFINE id == Varint(s.packet_id)
             body == Body(s.fields)
             rest == Rest(s)
             head == Varint(Len(rest))
             frame == PlainFrame(s)
  <1>1. /\ s.packet_id \in PacketIds /\ s.fields \in Seq(DOMAIN Fields)
        /\ s = [packet_id |-> s.packet_id, fields |-> s.fields] /\ Len(Body(s.fields)) <= MaxBytes
    BY DEF Sends
  <1>2. s.packet_id \in Small
    BY <1>1, PacketAssumption DEF Small
  <1>3. id \in Bytes /\ Groups(s.packet_id, Len(id))
    BY <1>2, VarintBytes
  <1>4. body \in Bytes /\ Len(body) <= MaxBytes
    BY <1>1, FieldsAre
  <1>5. rest = id \o body
    BY DEF Rest
  <1>6. frame = head \o rest
    BY DEF PlainFrame
  <1> HIDE DEF id, body, rest
  <1>7. Len(id) \in 1 .. 5 /\ Len(body) \in Nat
    BY <1>3, <1>4, BytesFacts DEF Groups
  <1>8. rest \in Bytes /\ Len(rest) = Len(id) + Len(body)
    BY <1>3, <1>4, <1>5, Behind
  <1>9. Len(rest) \in Small
    <2>1. MaxBytes \in Nat /\ MaxBytes + 5 <= MaxInt /\ MaxInt \in Int
      <3>1. MaxInt \in Int
        BY SMT DEF MaxInt
      <3> QED
        BY <3>1, PacketAssumption
    <2>2. \A h \in 1 .. 5, b, m \in Nat, top \in Int : b <= m /\ m + 5 <= top => h + b \in 0 .. top
      BY ONLY TRUE
    <2>3. Len(id) + Len(body) \in 0 .. MaxInt
      BY ONLY <1>4, <1>7, <2>1, <2>2
    <2>4. Len(rest) \in 0 .. MaxInt
      BY ONLY <1>8, <2>3
    <2> QED
      BY <2>4 DEF Small
  <1>10. head \in Bytes /\ Groups(Len(rest), Len(head))
    BY <1>9, VarintBytes
  <1> HIDE DEF head, frame
  <1>11. frame \in Bytes /\ Len(frame) = Len(head) + Len(rest)
    BY <1>6, <1>8, <1>10, Behind
  <1>12. Len(frame) >= 1
    <2>1. Len(head) \in 1 .. 5 /\ Len(rest) \in Nat
      BY <1>8, <1>10, BytesFacts DEF Groups
    <2> QED
      BY <1>11, <2>1
  <1> QED
    BY <1>1, <1>2, <1>3, <1>4, <1>8, <1>9, <1>10, <1>11, <1>12 DEF id, body, rest, head, frame

\* The frames of packets.
LEMMA FramesAre ==
  ASSUME NEW ss \in Seq(Sends)
  PROVE  /\ Frames(ss) \in Parts /\ Len(Frames(ss)) = Len(ss) /\ Len(ss) \in Nat
         /\ \A k \in 1 .. Len(ss) : Frames(ss)[k] = PlainFrame(ss[k]) /\ PlainFrame(ss[k]) \in Bytes
  <1> DEFINE f == [k \in 1 .. Len(ss) |-> PlainFrame(ss[k])]
  <1>1. Len(ss) \in Nat
    BY LenProperties
  <1>2. ASSUME NEW k \in 1 .. Len(ss)
        PROVE  PlainFrame(ss[k]) \in Bytes
    <2>1. ss[k] \in Sends
      BY ElementOfSeq
    <2> QED
      BY <2>1, SendBytes
  <1>3. f \in [1 .. Len(ss) -> Bytes] /\ DOMAIN f = 1 .. Len(ss)
        /\ \A k \in 1 .. Len(ss) : f[k] = PlainFrame(ss[k])
    BY <1>2
  <1>4. Frames(ss) = f
    BY DEF Frames
  <1> HIDE DEF f
  <1>5. f \in Seq(Bytes)
    BY <1>1, <1>3, SeqDef
  <1>6. Len(f) = Len(ss)
    BY <1>1, <1>3, <1>5, LenProperties
  <1> QED
    BY <1>1, <1>2, <1>3, <1>4, <1>5, <1>6 DEF Parts

\* One more packet makes its frame follow.
LEMMA FramesAppend ==
  ASSUME NEW ss \in Seq(Sends), NEW s \in Sends
  PROVE  /\ Append(ss, s) \in Seq(Sends) /\ Append(ss, s) # <<>>
         /\ Joined(Frames(Append(ss, s))) = Joined(Frames(ss)) \o PlainFrame(s)
  <1> DEFINE a == Append(ss, s)
             x == PlainFrame(s)
             old == Frames(ss)
             new == Frames(a)
             b == Append(old, x)
  <1>1. /\ a \in Seq(Sends) /\ Len(a) = Len(ss) + 1 /\ Len(ss) \in Nat /\ a # <<>>
        /\ \A i \in 1 .. Len(ss) : a[i] = ss[i]
        /\ a[Len(ss) + 1] = s
    BY AppendProperties, LenProperties
  <1>2. x \in Bytes
    BY SendBytes
  <1> HIDE DEF a
  <1>3. /\ old \in Parts /\ Len(old) = Len(ss)
        /\ \A i \in 1 .. Len(ss) : old[i] = PlainFrame(ss[i])
    BY FramesAre
  <1>4. /\ new \in Parts /\ Len(new) = Len(a) /\ \A i \in 1 .. Len(a) : new[i] = PlainFrame(a[i])
    BY <1>1, FramesAre
  <1> HIDE DEF old, new
  <1>5. /\ b \in Parts /\ Len(b) = Len(old) + 1 /\ \A i \in 1 .. Len(old) : b[i] = old[i]
        /\ b[Len(old) + 1] = x
    <2> HIDE DEF x
    <2> QED
      BY <1>2, <1>3, AppendProperties DEF Parts
  <1> HIDE DEF b
  <1>6. ASSUME NEW i \in 1 .. Len(new)
        PROVE  new[i] = b[i]
    <2>1. CASE i = Len(ss) + 1
      <3>1. Len(ss) + 1 \in 1 .. Len(a)
        BY <1>1
      <3> QED
        BY <1>1, <1>3, <1>4, <1>5, <2>1, <3>1
    <2>2. CASE i # Len(ss) + 1
      <3>1. i \in 1 .. Len(ss) /\ i \in 1 .. Len(a)
        BY <1>1, <1>4, <2>2
      <3>2. new[i] = PlainFrame(ss[i])
        BY <1>1, <1>4, <3>1
      <3>3. b[i] = old[i] /\ old[i] = PlainFrame(ss[i])
        BY <1>3, <1>5, <3>1
      <3> QED
        BY <3>2, <3>3
    <2> QED
      BY <2>1, <2>2
  <1>7. new = b
    <2>1. Len(new) = Len(b)
      BY <1>1, <1>3, <1>4, <1>5
    <2> QED
      BY <1>4, <1>5, <1>6, <2>1, SeqEqual DEF Parts
  <1>8. Joined(new) = Joined(old) \o x
    <2> HIDE DEF x
    <2> QED
      BY <1>2, <1>3, <1>7, JoinedAppend DEF b
  <1> QED
    BY <1>1, <1>8 DEF a, old, new

\* The frame of the first packet comes first.
LEMMA FramesFirst ==
  ASSUME NEW ss \in Seq(Sends), ss # <<>>
  PROVE  /\ Tail(ss) \in Seq(Sends) /\ ss[1] \in Sends
         /\ Len(Tail(ss)) = Len(ss) - 1 /\ Len(ss) \in Nat \ {0}
         /\ Joined(Frames(Tail(ss))) \in Bytes
         /\ Joined(Frames(ss)) = PlainFrame(ss[1]) \o Joined(Frames(Tail(ss)))
  <1> DEFINE t == Tail(ss)
             all == Frames(ss)
             rest == Frames(t)
             b == Tail(all)
  <1>1. /\ t \in Seq(Sends) /\ Len(t) = Len(ss) - 1 /\ Len(ss) \in Nat
        /\ \A i \in 1 .. Len(t) : t[i] = ss[i + 1]
    BY HeadTailProperties, LenProperties
  <1>2. Len(ss) >= 1 /\ ss[1] \in Sends
    <2>1. Len(ss) # 0
      BY EmptySeq, <1>1
    <2>2. 1 \in 1 .. Len(ss)
      BY <1>1, <2>1
    <2> QED
      BY <1>1, <2>2, ElementOfSeq
  <1> HIDE DEF t
  <1>3. /\ all \in Parts /\ Len(all) = Len(ss)
        /\ \A i \in 1 .. Len(ss) : all[i] = PlainFrame(ss[i])
    BY FramesAre
  <1>4. /\ rest \in Parts /\ Len(rest) = Len(t) /\ \A i \in 1 .. Len(t) : rest[i] = PlainFrame(t[i])
    BY <1>1, FramesAre
  <1> HIDE DEF all, rest
  <1>5. b \in Parts /\ Len(b) = Len(all) - 1 /\ \A i \in 1 .. Len(b) : b[i] = all[i + 1]
    <2>1. all # <<>>
      BY <1>2, <1>3, EmptySeq
    <2> QED
      BY <1>3, <2>1, HeadTailProperties DEF Parts
  <1>6. Joined(all) = all[1] \o Joined(b)
    BY <1>2, <1>3, JoinedFirst
  <1> HIDE DEF b
  <1>7. rest = b
    <2>1. Len(rest) = Len(b)
      BY <1>1, <1>3, <1>4, <1>5
    <2>2. ASSUME NEW i \in 1 .. Len(rest)
          PROVE  rest[i] = b[i]
      <3>1. i \in 1 .. Len(t) /\ i + 1 \in 1 .. Len(ss) /\ i \in 1 .. Len(b)
        BY <1>1, <1>4, <2>1
      <3>2. rest[i] = PlainFrame(ss[i + 1])
        BY <1>1, <1>4, <3>1
      <3>3. b[i] = PlainFrame(ss[i + 1])
        BY <1>3, <1>5, <3>1
      <3> QED
        BY <3>2, <3>3
    <2> QED
      BY <1>4, <1>5, <2>1, <2>2, SeqEqual DEF Parts
  <1>8. all[1] = PlainFrame(ss[1])
    <2>1. 1 \in 1 .. Len(ss)
      BY <1>1, <1>2
    <2> QED
      BY <1>3, <2>1
  <1>9. Joined(rest) \in Bytes
    <2>1. 0 \in 0 .. Len(rest)
      BY <1>1, <1>2, <1>4
    <2> QED
      BY <1>4, <2>1, JoinedFront
  <1>10. Len(t) = Len(ss) - 1 /\ Len(ss) \in Nat \ {0}
    BY <1>1, <1>2
  <1> QED
    BY <1>1, <1>2, <1>6, <1>7, <1>8, <1>9, <1>10 DEF t, all, rest

-----------------------------------------------------------------------------
(* The invariant holds at first.                                           *)

\* There is nothing in a packet without fields, and nothing on the wire without packets.
LEMMA Nothing ==
  /\ <<>> \in Seq(DOMAIN Fields) /\ Body(<<>>) = <<>>
  /\ <<>> \in Seq(Sends) /\ Joined(Frames(<<>>)) = <<>>
  <1>1. <<>> \in Seq(DOMAIN Fields) /\ <<>> \in Seq(Sends) /\ Len(<<>>) = 0
    OBVIOUS
  <1> DEFINE none == <<>>
             f == FieldsBytes(none)
             g == Frames(none)
  <1>2. none \in Seq(DOMAIN Fields) /\ none \in Seq(Sends) /\ Len(none) = 0
    BY <1>1
  <1> HIDE DEF none
  <1>3. f \in Parts /\ Len(f) = 0
    BY <1>2, FieldsAre
  <1>4. g \in Parts /\ Len(g) = 0
    BY <1>2, FramesAre
  <1> HIDE DEF f, g
  <1>5. JoinedUpTo(f)[0] = <<>> /\ JoinedUpTo(g)[0] = <<>>
    BY <1>3, <1>4, JoinedStep
  <1>6. Joined(f) = <<>> /\ Joined(g) = <<>>
    BY <1>3, <1>4, <1>5 DEF Joined
  <1> QED
    BY <1>1, <1>6 DEF Body, f, g, none

\* A new buffer fits, with nothing in it.
LEMMA NewFits == SizeFits(InitSize, 0)
  <1>1. InitSize \in Nat \ {0}
    BY PacketAssumption
  <1>2. Doubled(InitSize, 0) = InitSize
    BY <1>1, DoubledStep
  <1> QED
    BY <1>1, <1>2 DEF SizeFits

\* The initial states satisfy the invariant.
LEMMA Starts == Init => IInv
  <1> SUFFICES ASSUME Init
               PROVE  IInv
    OBVIOUS
  <1>1. fields \in Seq(DOMAIN Fields) /\ sent \in Seq(Sends)
    BY Nothing DEF Init
  <1>2. packets \in 0 .. MaxPackets /\ written \in 0 .. MaxFields
    BY PacketAssumption DEF Init
  <1>3. WriterInv /\ ReaderInv
    BY DEF Init, WriterInv, ReaderInv
  <1>4. WireInv
    <2>1. Clear = wire /\ Pending = sent
      BY DEF Init, Clear, Pending
    <2>2. Joined(Frames(sent)) = <<>> /\ wire = <<>>
      BY Nothing DEF Init
    <2> QED
      BY <2>1, <2>2 DEF WireInv
  <1>5. StreamInv
    <2>1. /\ wire = <<>> /\ unwritten = <<>> /\ encrypted = FALSE /\ opened = 0 /\ sealed = 0
          /\ missing = 0
      BY DEF Init
    <2>2. <<>> \in Seq(Byte) /\ <<>> \in Seq(Nat) /\ 0 \in Nat
      OBVIOUS
    <2> QED
      BY ONLY <2>1, <2>2 DEF StreamInv
  <1> QED
    BY <1>1, <1>2, <1>3, <1>4, <1>5 DEF IInv

-----------------------------------------------------------------------------
(* Every step keeps it.                                                    *)

\* What is on the wire, deciphered, is as long as it is.
LEMMA ClearBytes ==
  ASSUME StreamInv
  PROVE  wire \in Bytes /\ Clear \in Bytes /\ Len(Clear) = Len(wire) /\ Len(wire) \in Nat
  <1>1. wire \in Bytes /\ opened \in Nat /\ encrypted \in BOOLEAN
    BY DEF StreamInv, Bytes
  <1>2. Decipher(wire, opened) \in Bytes /\ Len(Decipher(wire, opened)) = Len(wire)
    BY <1>1, DecipherBytes
  <1>3. Len(wire) \in Nat
    BY <1>1, BytesFacts
  <1> QED
    BY <1>1, <1>2, <1>3 DEF Clear

\* What a packet that is read looks like.
LEMMA NotNull ==
  /\ \A id \in Int : \A data \in Bytes : \A n \in Int :
       [packet_id |-> id, data |-> data, data_ptr |-> n] # NULL
  BY PacketAssumption DEF Bytes

\* A packet is begun.
LEMMA NewPacketInv ==
  ASSUME IInv, NEW id \in PacketIds, NewPacket(id)
  PROVE  IInv'
  <1> USE DEF IInv, NewPacket
  <1>1. (fields \in Seq(DOMAIN Fields) /\ sent \in Seq(Sends))'
    BY Nothing
  <1>2. (packets \in 0 .. MaxPackets /\ written \in 0 .. MaxFields)'
    BY DEF counters
  <1>3. WriterInv'
    <2>1. /\ packet' = [packet_id |-> id, data |-> <<>>, data_length |-> InitSize]
          /\ fields' = <<>> /\ packets' = packets /\ packets < MaxPackets
      BY DEF counters
    <2>2. Body(fields') = <<>> /\ Len(<<>>) = 0 /\ 0 <= MaxBytes
      BY <2>1, Nothing, Empty, PacketAssumption
    <2>3. SizeFits(InitSize, 0)
      BY NewFits
    <2>4. /\ packet'.packet_id = id /\ packet'.data = <<>> /\ packet'.data_length = InitSize
          /\ packet' = [packet_id |-> packet'.packet_id, data |-> packet'.data,
                        data_length |-> packet'.data_length]
      BY <2>1
    <2>5. /\ packet'.packet_id \in PacketIds
          /\ packet'.data = Body(fields') /\ Len(packet'.data) <= MaxBytes
          /\ SizeFits(packet'.data_length, Len(packet'.data))
          /\ packets' < MaxPackets
      BY ONLY <2>1, <2>2, <2>3, <2>4, id \in PacketIds
    <2> QED
      BY ONLY <2>4, <2>5 DEF WriterInv
  <1>4. ReaderInv'
    BY DEF ReaderInv, reader_vars, stream_vars
  <1>5. WireInv' /\ StreamInv'
    BY DEF WireInv, StreamInv, Clear, Pending, reader_vars, stream_vars
  <1> QED
    BY <1>1, <1>2, <1>3, <1>4, <1>5

\* Bytes are put into a buffer that fits them then.
LEMMA PutFits ==
  ASSUME NEW p, p = [packet_id |-> p.packet_id, data |-> p.data, data_length |-> p.data_length],
         p.data \in Bytes, SizeFits(p.data_length, Len(p.data)),
         NEW x \in Bytes, Len(p.data) + Len(x) <= MaxInt
  PROVE  /\ Put(p, x) = [packet_id |-> Put(p, x).packet_id, data |-> Put(p, x).data,
                         data_length |-> Put(p, x).data_length]
         /\ Put(p, x).packet_id = p.packet_id
         /\ Put(p, x).data = p.data \o x /\ Put(p, x).data \in Bytes
         /\ SizeFits(Put(p, x).data_length, Len(Put(p, x).data))
  <1> DEFINE q == Put(p, x)
             d == p.data
             size == Grown(p.data_length, Len(d) + Len(x))
  <1>1. q = [packet_id |-> p.packet_id, data |-> d \o x, data_length |-> size]
    <2> DEFINE a == p.packet_id
               l == p.data_length
               dx == d \o x
    <2>1. p = [packet_id |-> a, data |-> d, data_length |-> l]
      OBVIOUS
    <2>2. q = [p EXCEPT !.data = dx, !.data_length = size]
      BY DEF Put
    <2> HIDE DEF a, d, l, dx, size, q
    <2>3. q = [packet_id |-> a, data |-> dx, data_length |-> size]
      BY ONLY <2>1, <2>2
    <2> QED
      BY <2>3 DEF a, dx
  <1>2. Len(d) \in Nat /\ Len(x) \in Nat
    BY BytesFacts
  <1>3. d \o x \in Bytes /\ Len(d \o x) = Len(d) + Len(x)
    <2> HIDE DEF d
    <2> QED
      BY Behind DEF d
  <1>4. SizeFits(size, Len(d) + Len(x))
    <2> DEFINE n == Len(d)
               need == Len(d) + Len(x)
    <2>1. n \in Nat /\ need \in Nat /\ n <= need /\ need <= MaxInt /\ SizeFits(p.data_length, n)
      BY <1>2
    <2> HIDE DEF n, need
    <2>2. SizeFits(Grown(p.data_length, need), need)
      BY <2>1, GrownFits
    <2> QED
      BY <2>2 DEF need
  <1> HIDE DEF q, size
  <1>5. q.packet_id = p.packet_id /\ q.data = d \o x /\ q.data_length = size
        /\ q = [packet_id |-> q.packet_id, data |-> q.data, data_length |-> q.data_length]
    BY ONLY <1>1
  <1>6. SizeFits(q.data_length, Len(q.data))
    BY ONLY <1>3, <1>4, <1>5
  <1> QED
    BY <1>3, <1>5, <1>6 DEF q

\* A field is written behind the others.
LEMMA WriteFieldInv ==
  ASSUME IInv, NEW k \in DOMAIN Fields, WriteField(k)
  PROVE  IInv'
  <1> DEFINE x == FieldBytes(Fields[k])
             v == Fields[k].value
             p == packet
             q == packet'
  <1>1. /\ Append(fields, k) \in Seq(DOMAIN Fields) /\ x \in Bytes
        /\ Body(Append(fields, k)) = Body(fields) \o x
    BY BodyAppend DEF IInv
  <1>2. /\ packet # NULL /\ written < MaxFields /\ Len(p.data) + Len(x) <= MaxBytes
        /\ q = Written(p, Fields[k]) /\ fields' = Append(fields, k) /\ written' = written + 1
        /\ packets' = packets /\ sent' = sent /\ wire' = wire /\ sealed' = sealed /\ opened' = opened
        /\ encrypted' = encrypted /\ received' = received /\ read' = read
        /\ unwritten' = unwritten /\ missing' = missing
    BY DEF WriteField, reader_vars, stream_vars
  <1>3. /\ p = [packet_id |-> p.packet_id, data |-> p.data, data_length |-> p.data_length]
        /\ p.packet_id \in PacketIds /\ p.data = Body(fields) /\ packets < MaxPackets
        /\ SizeFits(p.data_length, Len(p.data))
    BY <1>2 DEF IInv, WriterInv
  <1>4. p.data \in Bytes /\ Len(p.data) \in Nat /\ Len(x) \in Nat
    BY <1>1, <1>3, FieldsAre, BytesFacts DEF IInv
  <1>5. Len(p.data) + Len(x) <= MaxInt /\ MaxInt \in Int
    <2>1. MaxInt \in Int
      BY SMT DEF MaxInt
    <2>2. MaxBytes \in Nat /\ MaxBytes + 5 <= MaxInt
      BY PacketAssumption
    <2> HIDE DEF x, p
    <2> QED
      BY ONLY <1>2, <1>4, <2>1, <2>2
  <1>6. /\ q = [packet_id |-> q.packet_id, data |-> q.data, data_length |-> q.data_length]
        /\ q.packet_id = p.packet_id /\ q.data = p.data \o x
        /\ SizeFits(q.data_length, Len(q.data))
    <2>1. CASE Fields[k].kind = "string"
      <3> DEFINE head == Varint(Len(v))
                 mid == Put(p, head)
      <3>1. v \in Bytes /\ Len(v) \in Small
        <4>1. IsField(Fields[k])
          BY PacketAssumption
        <4>2. v \in Seq(Byte) /\ Len(v) <= MaxInt
          BY <2>1, <4>1 DEF IsField
        <4>3. Len(v) \in Nat
          BY <4>2, LenProperties
        <4> QED
          BY <1>5, <4>2, <4>3 DEF Bytes, Small
      <3>2. head \in Bytes
        BY <3>1, VarintBytes
      <3>3. x = head \o v /\ q = Put(mid, v)
        BY <1>2, <2>1 DEF FieldBytes, Written
      <3> HIDE DEF head, x, v, p, q
      <3>4. Len(x) = Len(head) + Len(v) /\ Len(head) \in Nat /\ Len(v) \in Nat
        BY <3>1, <3>2, <3>3, Behind, BytesFacts
      <3>5. Len(p.data) + Len(head) <= MaxInt /\ (Len(p.data) + Len(head)) + Len(v) <= MaxInt
        <4>1. \A a, b, c \in Nat : \A m \in Int : a + (b + c) <= m => a + b <= m /\ (a + b) + c <= m
          BY ONLY TRUE
        <4> QED
          BY ONLY <1>4, <1>5, <3>4, <4>1
      <3>6. /\ mid = [packet_id |-> mid.packet_id, data |-> mid.data,
                      data_length |-> mid.data_length]
            /\ mid.packet_id = p.packet_id /\ mid.data = p.data \o head /\ mid.data \in Bytes
            /\ SizeFits(mid.data_length, Len(mid.data))
        BY ONLY <1>3, <1>4, <3>2, <3>5, PutFits
      <3>7. Len(mid.data) + Len(v) <= MaxInt
        <4>1. Len(p.data \o head) = Len(p.data) + Len(head)
          BY <1>4, <3>2, Behind
        <4> QED
          BY ONLY <3>5, <3>6, <4>1
      <3> HIDE DEF mid
      <3>8. /\ q = [packet_id |-> q.packet_id, data |-> q.data, data_length |-> q.data_length]
            /\ q.packet_id = mid.packet_id /\ q.data = mid.data \o v
            /\ SizeFits(q.data_length, Len(q.data))
        BY ONLY <3>1, <3>3, <3>6, <3>7, PutFits
      <3>9. (p.data \o head) \o v = p.data \o (head \o v)
        BY <1>4, <3>1, <3>2, Associative
      <3> QED
        BY ONLY <3>3, <3>6, <3>8, <3>9
    <2>2. CASE Fields[k].kind # "string"
      <3>1. q = Put(p, x)
        BY <1>2, <2>2 DEF Written
      <3> HIDE DEF x, p, q
      <3> QED
        BY ONLY <1>1, <1>3, <1>4, <1>5, <3>1, PutFits
    <2> QED
      BY <2>1, <2>2
  <1>7. Len(q.data) <= MaxBytes
    <2>1. Len(p.data \o x) = Len(p.data) + Len(x)
      <3> HIDE DEF p, x
      <3> QED
        BY <1>1, <1>4, Behind
    <2> QED
      BY <1>2, <1>6, <2>1
  <1>8. WriterInv'
    <2> HIDE DEF x, p
    <2>1. q.data = Body(fields') /\ q.packet_id \in PacketIds /\ packets' < MaxPackets
      BY <1>1, <1>2, <1>3, <1>6
    <2> QED
      BY ONLY <1>6, <1>7, <2>1 DEF WriterInv
  <1>9. ReaderInv' /\ WireInv' /\ StreamInv'
    <2> HIDE DEF x, p, q, v
    <2> QED
      BY <1>2 DEF IInv, ReaderInv, WireInv, StreamInv, Clear, Pending
  <1>10. /\ fields' \in Seq(DOMAIN Fields) /\ packets' \in 0 .. MaxPackets
         /\ written' \in 0 .. MaxFields /\ sent' \in Seq(Sends)
    BY <1>1, <1>2, PacketAssumption DEF IInv
  <1> QED
    BY <1>8, <1>9, <1>10 DEF IInv

\* A packet is sent: its frame follows what is on the wire, however it is enciphered.
LEMMA PacketSendInv ==
  ASSUME IInv, PacketSend
  PROVE  IInv'
  <1> DEFINE s == [packet_id |-> packet.packet_id, fields |-> fields]
             id == Varint(packet.packet_id)
             data == packet.data
             head == Varint(Len(id) + Len(data))
             frame == Frame(packet)
             plain == PlainFrame(s)
             left == Unwritten(packet)
  <1>1. /\ packet # NULL /\ wire' = wire \o frame
        /\ sealed' = (IF encrypted THEN sealed + Len(frame) ELSE sealed)
        /\ sent' = Append(sent, s) /\ packets' = packets + 1 /\ packet' = NULL /\ fields' = <<>>
        /\ encrypted' = encrypted /\ opened' = opened /\ received' = received /\ read' = read
        /\ written' = written /\ missing' = missing /\ unwritten' = left
    BY DEF PacketSend, reader_vars
  <1>2. /\ packet.packet_id \in PacketIds /\ data = Body(fields) /\ Len(data) <= MaxBytes
        /\ packets < MaxPackets
    BY <1>1 DEF IInv, WriterInv
  <1>3. s \in Sends /\ s.packet_id = packet.packet_id /\ s.fields = fields
    BY <1>2 DEF IInv, Sends
  <1>4. id \in Bytes /\ data \in Bytes /\ head \in Bytes /\ Rest(s) = id \o data
        /\ Len(Rest(s)) = Len(id) + Len(data) /\ plain = head \o (id \o data) /\ plain \in Bytes
    <2>1. Rest(s) = id \o data
      BY <1>2, <1>3 DEF Rest
    <2>2. Len(Rest(s)) = Len(id) + Len(data) /\ id \in Bytes /\ data \in Bytes
      BY <1>2, <1>3, SendBytes
    <2>3. head = Varint(Len(Rest(s))) /\ plain = head \o (id \o data)
      BY <2>1, <2>2 DEF PlainFrame
    <2>4. Varint(Len(Rest(s))) \in Bytes /\ plain \in Bytes
      BY <1>3, SendBytes
    <2> QED
      BY <2>1, <2>2, <2>3, <2>4
  <1>5. /\ wire \in Bytes /\ Len(wire) \in Nat /\ encrypted \in BOOLEAN /\ opened \in Nat
        /\ sealed \in Nat /\ missing \in Nat /\ (~encrypted => sealed = opened)
        /\ (encrypted => sealed + missing = opened + Len(wire))
        /\ (missing = 0 => Clear = Joined(Frames(Pending)))
    BY ClearBytes DEF IInv, StreamInv, WireInv
  <1>6. frame \in Bytes /\ (~encrypted => frame = plain)
        /\ (encrypted => Decipher(frame, sealed) = plain)
    <2>1. (head \o id) \o data = plain
      <3> HIDE DEF head, id, data, plain
      <3> QED
        BY <1>4, Associative
    <2>2. CASE ~encrypted
      <3>1. frame = (head \o id) \o data
        BY <2>2 DEF Frame
      <3> QED
        BY <1>4, <2>1, <2>2, <3>1
    <2>3. CASE encrypted
      <3>1. frame = (Cipher(head, sealed) \o Cipher(id, sealed + Len(head)))
                    \o Cipher(data, sealed + Len(head) + Len(id))
        BY <2>3 DEF Frame
      <3>2. sealed \in Nat
        BY <1>5
      <3> HIDE DEF head, id, data, plain, frame
      <3>3. frame \in Bytes /\ Decipher(frame, sealed) = (head \o id) \o data
        <4>1. head \in Bytes /\ id \in Bytes /\ data \in Bytes
          BY <1>4
        <4> DEFINE c == Cipher(head, sealed) \o Cipher(id, sealed + Len(head))
                        \o Cipher(data, sealed + Len(head) + Len(id))
        <4>2. c \in Bytes /\ Decipher(c, sealed) = head \o id \o data
          BY ONLY <3>2, <4>1, CipherThree
        <4>3. c = frame
          BY <3>1
        <4> HIDE DEF c
        <4> QED
          BY ONLY <4>2, <4>3
      <3> QED
        BY <2>1, <2>3, <3>3
    <2> QED
      BY <2>2, <2>3
  <1>16. left \in Seq(Nat)
    <2> DEFINE a == Len(frame)
               b == Len(id) + Len(data)
               c == Len(data)
    <2>1. left = <<a, b, c>>
      BY DEF Unwritten
    <2>2. a \in Nat /\ Len(id) \in Nat /\ c \in Nat
      BY <1>4, <1>6, BytesFacts
    <2>3. b \in Nat
      <3>1. \A x, y \in Nat : x + y \in Nat
        BY ONLY TRUE
      <3> QED
        BY ONLY <2>2, <3>1
    <2> HIDE DEF a, b, c, left
    <2> QED
      BY ONLY <2>1, <2>2, <2>3
  <1> HIDE DEF frame, plain, id, data, head, left
  <1>7. wire' \in Bytes /\ Len(wire') = Len(wire) + Len(frame) /\ Len(frame) \in Nat
    BY <1>1, <1>5, <1>6, Behind, BytesFacts
  <1>8. ASSUME missing = 0
        PROVE  Clear' = Clear \o plain
    <2>1. CASE encrypted
      <3>1. Decipher(wire \o frame, opened)
            = Decipher(wire, opened) \o Decipher(frame, opened + Len(wire))
        BY <1>5, <1>6, DecipherBoth
      <3>2. opened + Len(wire) = sealed
        BY <1>5, <1>8, <2>1
      <3>3. Clear' = Decipher(wire \o frame, opened)
        BY <1>1, <2>1 DEF Clear
      <3>4. Clear = Decipher(wire, opened)
        BY <2>1 DEF Clear
      <3> QED
        BY ONLY <1>6, <2>1, <3>1, <3>2, <3>3, <3>4
    <2>2. CASE ~encrypted
      <3>1. Clear' = wire \o frame /\ Clear = wire
        BY <1>1, <2>2 DEF Clear
      <3> QED
        BY <1>6, <2>2, <3>1
    <2> QED
      BY <2>1, <2>2
  <1> HIDE DEF s
  <1>9. sent \in Seq(Sends) /\ sent' \in Seq(Sends) /\ sent' # <<>>
    BY <1>1, <1>3, FramesAppend DEF IInv
  <1>10. ASSUME missing = 0
         PROVE  Pending' = Append(Pending, s) /\ Pending \in Seq(Sends)
    <2>1. CASE received = NULL
      BY <1>1, <1>9, <2>1 DEF Pending
    <2>2. CASE received # NULL
      <3>1. sent # <<>>
        BY <1>10, <2>2 DEF IInv, ReaderInv
      <3>2. Tail(Append(sent, s)) = Append(Tail(sent), s)
        BY <1>9, <3>1, HeadTailAppend
      <3>3. Tail(sent) \in Seq(Sends)
        BY <1>9, <3>1, FramesFirst
      <3> QED
        BY <1>1, <2>2, <3>2, <3>3 DEF Pending
    <2> QED
      BY <2>1, <2>2
  <1>11. ASSUME missing = 0
         PROVE  Joined(Frames(Pending')) = Joined(Frames(Pending)) \o plain
    <2>1. Joined(Frames(Append(Pending, s))) = Joined(Frames(Pending)) \o PlainFrame(s)
      BY <1>3, <1>10, <1>11, FramesAppend
    <2> QED
      BY <1>10, <1>11, <2>1 DEF plain
  <1>12. WireInv'
    BY <1>1, <1>5, <1>8, <1>11 DEF WireInv
  <1>17. StreamInv'
    <2>1. /\ (~encrypted => sealed' = sealed)
          /\ (encrypted => sealed' + missing = opened + Len(wire'))
          /\ sealed' \in Nat
      <3>1. \A a, b, c, f, m \in Nat : a + m = b + c => (a + f) + m = b + (c + f) /\ a + f \in Nat
        BY ONLY TRUE
      <3>3. CASE encrypted
        <4>1. sealed' = sealed + Len(frame) /\ Len(wire') = Len(wire) + Len(frame)
          BY <1>1, <1>7, <3>3
        <4>2. sealed + missing = opened + Len(wire)
          BY <1>5, <3>3
        <4> QED
          BY ONLY <1>5, <1>7, <3>1, <3>3, <4>1, <4>2
      <3>4. CASE ~encrypted
        BY ONLY <1>1, <1>5, <3>4
      <3> QED
        BY ONLY <3>3, <3>4
    <2>2. wire' \in Seq(Byte)
      BY <1>7 DEF Bytes
    <2> QED
      BY <1>1, <1>5, <1>16, <2>1, <2>2 DEF StreamInv
  <1>13. ReaderInv'
    <2>1. CASE received = NULL \/ missing # 0
      BY <1>1, <2>1 DEF ReaderInv
    <2>2. CASE received # NULL /\ missing = 0
      <3>1. sent # <<>>
        BY <2>2 DEF IInv, ReaderInv
      <3>2. Len(sent) \in Nat \ {0}
        BY <1>9, <3>1, FramesFirst
      <3>3. 1 \in 1 .. Len(sent)
        BY <3>2
      <3>4. sent'[1] = sent[1]
        BY <1>1, <1>3, <1>9, <3>3, AppendProperties
      <3> QED
        BY <1>1, <1>9, <2>2, <3>4 DEF IInv, ReaderInv
    <2> QED
      BY <2>1, <2>2
  <1>14. WriterInv'
    BY <1>1 DEF WriterInv
  <1>15. /\ fields' \in Seq(DOMAIN Fields) /\ packets' \in 0 .. MaxPackets
         /\ written' \in 0 .. MaxFields
    BY <1>1, <1>2, Nothing, PacketAssumption DEF IInv
  <1> QED
    BY <1>9, <1>12, <1>13, <1>14, <1>15, <1>17 DEF IInv

\* A buffer is written: what is on the wire, written or not, is the same.
LEMMA WriteInv ==
  ASSUME IInv, Write
  PROVE  IInv'
  <1>1. /\ unwritten # <<>> /\ unwritten' = Tail(unwritten) /\ packet' = packet
        /\ fields' = fields /\ encrypted' = encrypted /\ sealed' = sealed /\ wire' = wire
        /\ opened' = opened /\ missing' = missing /\ received' = received /\ read' = read
        /\ sent' = sent /\ packets' = packets /\ written' = written
    BY DEF Write, writer_vars, reader_vars, counters
  <1>2. unwritten' \in Seq(Nat)
    <2>1. unwritten \in Seq(Nat)
      BY DEF IInv, StreamInv
    <2> QED
      BY <1>1, <2>1, HeadTailProperties
  <1>3. StreamInv'
    BY <1>1, <1>2 DEF IInv, StreamInv
  <1>4. WriterInv' /\ ReaderInv'
    BY <1>1 DEF IInv, WriterInv, ReaderInv
  <1>5. Clear' = Clear /\ Pending' = Pending
    BY <1>1 DEF Clear, Pending
  <1>6. WireInv'
    BY <1>1, <1>5 DEF IInv, WireInv
  <1> QED
    BY <1>1, <1>3, <1>4, <1>6 DEF IInv

\* A packet is received: if it was all there it is the first one, and what is left are the
\* others; if not, the reader is out of step.
LEMMA PacketRecvInv ==
  ASSUME IInv, PacketRecv
  PROVE  IInv'
  <1> DEFINE Open(bytes, n) == IF encrypted THEN Decipher(bytes, n) ELSE bytes
             clear == Open(wire, opened)
             s == sent[1]
             rest == Rest(s)
             hd == Varint(Len(rest))
             frame == PlainFrame(s)
             others == Joined(Frames(Tail(sent)))
             id == Varint(s.packet_id)
             body == Body(s.fields)
             n == Len(hd)
             end == n + Len(rest)
  <1>1. received = NULL /\ missing = 0 /\ Arrived > 0
    BY DEF PacketRecv
  <1>2. /\ wire \in Bytes /\ clear \in Bytes /\ Len(clear) = Len(wire) /\ Len(wire) \in Nat
        /\ encrypted \in BOOLEAN /\ opened \in Nat
        /\ sealed \in Nat /\ (encrypted => sealed = opened + Len(wire))
        /\ (~encrypted => sealed = opened) /\ unwritten \in Seq(Nat)
        /\ clear = Joined(Frames(sent))
    <2>1. Clear = clear /\ Pending = sent
      BY <1>1 DEF Clear, Pending
    <2>2. sealed \in Nat /\ missing = 0 => sealed + missing = sealed
      OBVIOUS
    <2> QED
      BY <1>1, <2>1, <2>2, ClearBytes DEF IInv, StreamInv, WireInv
  <1>18. Arrived \in Int /\ Arrived <= Len(wire) /\ wire # <<>>
    <2>1. CASE unwritten = <<>>
      BY <1>1, <1>2, <2>1, Empty DEF Arrived
    <2>2. CASE unwritten # <<>>
      <3>1. Head(unwritten) \in Nat
        BY <1>2, <2>2, HeadTailProperties
      <3>2. Arrived = Len(wire) - Head(unwritten)
        BY <2>2 DEF Arrived
      <3> DEFINE h == Head(unwritten)
      <3>3. h \in Nat /\ Arrived = Len(wire) - h
        BY <3>1, <3>2
      <3> HIDE DEF h
      <3>4. Arrived \in Int /\ Arrived <= Len(wire) /\ Len(wire) # 0
        BY ONLY <1>1, <1>2, <3>3
      <3> QED
        BY <3>4, Empty
    <2> QED
      BY <2>1, <2>2
  <1>3. sent \in Seq(Sends) /\ sent # <<>>
    <2>1. sent \in Seq(Sends)
      BY DEF IInv
    <2>2. ASSUME sent = <<>>
          PROVE  FALSE
      <3>1. clear = <<>>
        BY <1>2, <2>2, Nothing
      <3>2. Len(wire) = 0
        BY <1>2, <3>1, Empty
      <3> QED
        BY <1>18, <1>2, <3>2, EmptySeq DEF Bytes
    <2> QED
      BY <2>1, <2>2
  <1>4. s \in Sends /\ others \in Bytes /\ clear = frame \o others
    BY <1>2, <1>3, FramesFirst
  <1> HIDE DEF clear, s, others
  <1>5. /\ s.packet_id \in PacketIds /\ s.packet_id \in Small /\ s.fields \in Seq(DOMAIN Fields)
        /\ id \in Bytes /\ body \in Bytes /\ rest \in Bytes /\ hd \in Bytes /\ frame \in Bytes
        /\ Len(rest) \in Small /\ Len(rest) = Len(id) + Len(body)
        /\ Len(frame) = Len(hd) + Len(rest) /\ rest = id \o body /\ frame = hd \o rest
    BY <1>4, SendBytes DEF Rest, PlainFrame
  <1> HIDE DEF rest, frame, id, body
  <1>6. Len(rest) \in Nat /\ n \in Nat /\ Len(others) \in Nat /\ end \in Nat /\ Len(frame) = end
    <2>1. Len(rest) \in Nat /\ Len(hd) \in Nat /\ Len(others) \in Nat
      BY <1>4, <1>5, BytesFacts
    <2> QED
      BY <1>5, <2>1
  <1>7. Holds(clear, 0, hd) /\ Holds(clear, n, rest) /\ Holds(clear, end, others)
    <2>1. Holds(clear, 0, frame) /\ Holds(clear, Len(frame), others)
      BY <1>4, <1>5, HoldsBoth
    <2> DEFINE z == 0
    <2>2. z \in Nat /\ Holds(clear, z, hd \o rest) /\ z + Len(hd) = n
      BY <1>5, <1>6, <2>1
    <2> HIDE DEF z
    <2>3. Holds(clear, z, hd) /\ Holds(clear, z + Len(hd), rest)
      BY <1>2, <1>5, <2>2, HoldsParts
    <2> QED
      BY <1>6, <2>1, <2>2, <2>3 DEF z
  <1>8. ReadVarint(clear, 0) = <<Len(rest), n>>
    <2> DEFINE z == 0
               v == Len(rest)
    <2>1. z \in Nat /\ v \in Small /\ Holds(clear, z, Varint(v)) /\ z + Len(Varint(v)) = n
      BY <1>5, <1>6, <1>7
    <2> HIDE DEF z, v
    <2>2. ReadVarint(clear, z) = <<v, z + Len(Varint(v))>>
      BY <1>2, <2>1, VarintBack
    <2> QED
      BY <2>1, <2>2 DEF z, v
  <1> HIDE DEF n, hd
  <1>9. Len(wire) = end + Len(others)
    <2>1. Len(clear) = Len(frame) + Len(others)
      BY <1>4, <1>5, Behind
    <2> QED
      BY <1>2, <1>6, <2>1
  <1>10. Open(BytesAt(wire, n, Len(rest)), opened + n) = rest
    <2>1. BytesAt(clear, n, Len(rest)) = rest
      BY <1>2, <1>5, <1>6, <1>7, ReadBytes
    <2>2. CASE encrypted
      <3> DEFINE m == Len(rest)
      <3>1. m \in Nat /\ n + m <= Len(wire)
        BY <1>6, <1>9
      <3> HIDE DEF m
      <3>2. Decipher(BytesAt(wire, n, m), opened + n) = BytesAt(Decipher(wire, opened), n, m)
        BY <1>2, <1>6, <3>1, DecipherAt
      <3> QED
        BY <2>1, <2>2, <3>2 DEF clear, m
    <2>3. CASE ~encrypted
      BY <2>1, <2>3 DEF clear
    <2> QED
      BY <2>2, <2>3
  <1>11. ReadVarint(rest, 0) = <<s.packet_id, Len(id)>>
    <2> DEFINE z == 0
               v == s.packet_id
    <2>1. Len(id) \in Nat /\ id \in Bytes
      BY <1>5, BytesFacts
    <2>2. Holds(rest, 0, id)
      BY <1>5, HoldsBoth
    <2>3. z \in Nat /\ v \in Small /\ Holds(rest, z, Varint(v)) /\ z + Len(Varint(v)) = Len(id)
      BY <1>5, <2>1, <2>2 DEF id
    <2> HIDE DEF z, v
    <2>4. ReadVarint(rest, z) = <<v, z + Len(Varint(v))>>
      BY <1>5, <2>3, VarintBack
    <2> QED
      BY <2>3, <2>4 DEF z, v
  <1>12. /\ read' = <<>> /\ opened' = (IF encrypted THEN opened + end ELSE opened)
         /\ packet' = packet /\ fields' = fields /\ encrypted' = encrypted /\ sealed' = sealed
         /\ sent' = sent /\ packets' = packets /\ written' = written
         /\ unwritten' = unwritten
         /\ \E m \in 1 .. Len(rest) :
              /\ n + m <= Arrived /\ missing' = Len(rest) - m
              /\ wire' = SubSeq(wire, n + m + 1, Len(wire))
              /\ m = Len(rest) =>
                   received' = [packet_id |-> s.packet_id, data |-> rest, data_ptr |-> Len(id)]
    <2> DEFINE head == ReadVarint(Open(wire, opened), 0)
               data(m) == Open(BytesAt(wire, head[2], m), opened + head[2])
                          \o [k \in 1 .. head[1] - m |-> 0]
               rid(m) == ReadVarint(data(m), 0)
    <2>1. /\ read' = <<>>
          /\ opened' = (IF encrypted THEN opened + (head[2] + head[1]) ELSE opened)
          /\ packet' = packet /\ fields' = fields /\ encrypted' = encrypted /\ sealed' = sealed
          /\ sent' = sent /\ packets' = packets /\ written' = written
          /\ unwritten' = unwritten
      BY DEF PacketRecv, writer_vars, counters
    <2>2. PICK m : /\ m \in 1 .. head[1] /\ head[2] + m <= Arrived
                   /\ missing' = head[1] - m
                   /\ wire' = SubSeq(wire, head[2] + m + 1, Len(wire))
                   /\ received' = [packet_id |-> rid(m)[1], data |-> data(m),
                                   data_ptr |-> rid(m)[2]]
      BY DEF PacketRecv
    <2>3. head = <<Len(rest), n>>
      BY <1>8 DEF clear
    <2> HIDE DEF head
    <2>4. head[1] = Len(rest) /\ head[2] = n
      BY <2>3
    <2>5. ASSUME m = Len(rest)
          PROVE  received' = [packet_id |-> s.packet_id, data |-> rest, data_ptr |-> Len(id)]
      <3> DEFINE none == [k \in 1 .. head[1] - m |-> 0]
      <3>1. none = <<>>
        <4>1. 1 .. head[1] - m = {}
          BY <1>6, <2>4, <2>5
        <4> QED
          BY <4>1
      <3>2. data(m) = rest \o <<>>
        BY <1>10, <2>4, <2>5, <3>1
      <3> HIDE DEF none, data
      <3>6. rest \o <<>> = rest
        BY <1>5, Empty
      <3>3. data(m) = rest
        BY <3>2, <3>6
      <3>4. rid(m) = <<s.packet_id, Len(id)>>
        BY <1>11, <3>3
      <3> HIDE DEF rid
      <3>5. rid(m)[1] = s.packet_id /\ rid(m)[2] = Len(id)
        BY <3>4
      <3> QED
        BY ONLY <2>2, <3>3, <3>5
    <2> HIDE DEF data, rid
    <2> QED
      BY <2>1, <2>2, <2>4, <2>5
  <1>19. PICK m \in 1 .. Len(rest) :
           /\ n + m <= Arrived /\ missing' = Len(rest) - m
           /\ wire' = SubSeq(wire, n + m + 1, Len(wire))
           /\ m = Len(rest) =>
                received' = [packet_id |-> s.packet_id, data |-> rest, data_ptr |-> Len(id)]
    BY <1>12
  <1>20. m \in Nat /\ n + m \in Nat /\ n + m <= Len(wire) /\ missing' \in Nat
         /\ (missing' = 0 => m = Len(rest))
    BY <1>2, <1>6, <1>18, <1>19
  <1> HIDE DEF Open
  <1>14. /\ wire' = BytesAt(wire, n + m, Len(wire) - (n + m)) /\ wire' \in Bytes
         /\ Len(wire') = Len(wire) - (n + m)
    <2> DEFINE at == n + m
               l == Len(wire) - at
    <2>1. at \in Nat /\ at <= Len(wire) /\ l \in Nat /\ at + l <= Len(wire)
      BY <1>2, <1>20
    <2>2. wire' = SubSeq(wire, at + 1, Len(wire))
      BY <1>19
    <2> HIDE DEF at
    <2>3. wire' = BytesAt(wire, at, l)
      BY <1>2, <2>1, <2>2, LeftBehind
    <2> HIDE DEF l
    <2>4. BytesAt(wire, at, l) \in Bytes /\ Len(BytesAt(wire, at, l)) = l
      BY <1>2, <2>1, AnyBytes
    <2> QED
      BY <2>3, <2>4 DEF at, l
  <1>16. StreamInv'
    <2>1. /\ opened' \in Nat /\ (~encrypted => sealed' = opened')
          /\ (encrypted => sealed' + missing' = opened' + Len(wire'))
      <3>1. \A a, w, h, l, c \in Nat : (a + w) + (l - c) = (a + (h + l)) + (w - (h + c))
        BY ONLY TRUE
      <3>2. \A a, b \in Nat : a + b \in Nat
        BY ONLY TRUE
      <3>3. end = n + Len(rest)
        OBVIOUS
      <3> HIDE DEF end
      <3>4. sealed' = sealed /\ missing' = Len(rest) - m /\ Len(wire') = Len(wire) - (n + m)
        BY <1>12, <1>14, <1>19
      <3>5. /\ opened' = (IF encrypted THEN opened + end ELSE opened)
        BY <1>12
      <3>6. ASSUME encrypted
            PROVE  sealed' + missing' = opened' + Len(wire')
        <4>1. /\ sealed' + missing' = (opened + Len(wire)) + (Len(rest) - m)
              /\ opened' + Len(wire') = (opened + (n + Len(rest))) + (Len(wire) - (n + m))
          BY ONLY <1>2, <3>3, <3>4, <3>5, <3>6
        <4> QED
          BY ONLY <1>2, <1>6, <1>20, <3>1, <4>1
      <3> QED
        BY ONLY <1>2, <1>6, <3>2, <3>4, <3>5, <3>6
    <2> QED
      BY <1>2, <1>12, <1>14, <1>20, <2>1 DEF StreamInv, Bytes
  <1>13. ASSUME missing' = 0
         PROVE  /\ received' = [packet_id |-> s.packet_id, data |-> rest, data_ptr |-> Len(id)]
                /\ received' # NULL
    <2>1. received' = [packet_id |-> s.packet_id, data |-> rest, data_ptr |-> Len(id)]
      BY <1>13, <1>19, <1>20
    <2> DEFINE pid == s.packet_id
               k == Len(id)
    <2>2. pid \in Int /\ k \in Int
      BY <1>5, SmallInt, BytesFacts
    <2> HIDE DEF pid, k
    <2>3. [packet_id |-> pid, data |-> rest, data_ptr |-> k] # NULL
      BY <1>5, <2>2, NotNull
    <2> QED
      BY <2>1, <2>3 DEF pid, k
  <1>15. ASSUME missing' = 0
         PROVE  Clear' = others
    <2>4. m = Len(rest)
      BY <1>15, <1>20
    <2>5. n + m = end
      BY <2>4
    <2> HIDE DEF end
    <2>6. n + m = end /\ Len(wire) - (n + m) = Len(others)
      <3>1. \A a, b \in Nat : (a + b) - a = b
        BY ONLY TRUE
      <3>2. end \in Nat /\ Len(others) \in Nat /\ Len(wire) = end + Len(others)
        BY <1>6, <1>9
      <3> QED
        BY ONLY <2>5, <3>1, <3>2
    <2>1. BytesAt(clear, end, Len(others)) = others
      BY <1>2, <1>4, <1>6, <1>7, ReadBytes
    <2>2. CASE encrypted
      <3> DEFINE l == Len(others)
      <3>1. l \in Nat /\ end + l <= Len(wire) /\ wire' = BytesAt(wire, end, l)
        BY <1>6, <1>9, <1>14, <2>6
      <3> HIDE DEF l
      <3>2. Decipher(BytesAt(wire, end, l), opened + end) = BytesAt(Decipher(wire, opened), end, l)
        BY <1>2, <1>6, <3>1, DecipherAt
      <3>3. Clear' = Decipher(BytesAt(wire, end, l), opened + end)
        BY <1>12, <2>2, <3>1 DEF Clear
      <3> QED
        BY <2>1, <2>2, <3>2, <3>3 DEF clear, Open, l
    <2>3. CASE ~encrypted
      <3>1. Clear' = wire' /\ clear = wire
        BY <1>12, <2>3 DEF Clear, clear, Open
      <3> QED
        BY <1>14, <2>1, <2>6, <3>1
    <2> QED
      BY <2>2, <2>3
  <1>21. WireInv'
    <2> SUFFICES ASSUME missing' = 0
                 PROVE  Clear' = Joined(Frames(Pending'))
      BY DEF WireInv
    <2>1. Pending' = Tail(sent)
      BY <1>12, <1>13 DEF Pending
    <2> QED
      BY <1>15, <2>1 DEF others
  <1>17. ReaderInv'
    <2>7. CASE missing' # 0
      BY <2>7 DEF ReaderInv
    <2>8. CASE missing' = 0
      <3>1. JoinedUpTo(FieldsBytes(s.fields))[0] = <<>> /\ Len(s.fields) \in Nat
        BY <1>5, FieldsAre, JoinedStep
      <3>2. IsSeq(read') /\ Len(read') = 0
        BY <1>12 DEF IsSeq
      <3>3. Len(id) \in Nat /\ Len(id) + 0 = Len(id)
        BY <1>5, BytesFacts
      <3>4. sent'[1] = s /\ sent' # <<>>
        BY <1>3, <1>12 DEF s
      <3>5. received' = [packet_id |-> s.packet_id, data |-> Rest(s),
                         data_ptr |-> Len(Varint(s.packet_id))
                                      + Len(JoinedUpTo(FieldsBytes(s.fields))[Len(read')])]
        BY <1>13, <2>8, <3>1, <3>2, <3>3, Empty DEF id, rest
      <3>6. Len(read') <= Len(s.fields) /\ \A k \in 1 .. Len(read') : FALSE
        BY <3>1, <3>2
      <3> QED
        BY ONLY <3>2, <3>4, <3>5, <3>6 DEF ReaderInv
    <2> QED
      BY <2>7, <2>8
  <1>22. WriterInv'
    BY <1>12 DEF IInv, WriterInv
  <1> QED
    BY <1>12, <1>16, <1>17, <1>21, <1>22 DEF IInv

\* Encryption is set when nothing is on the wire.
LEMMA SetEncryptedInv ==
  ASSUME IInv, SetEncrypted
  PROVE  IInv'
  <1>1. /\ encrypted = FALSE /\ wire = <<>> /\ missing = 0 /\ encrypted' = TRUE
        /\ packet' = packet /\ fields' = fields /\ sealed' = sealed /\ wire' = wire
        /\ opened' = opened /\ unwritten' = unwritten /\ missing' = missing
        /\ received' = received /\ read' = read /\ sent' = sent /\ packets' = packets
        /\ written' = written
    <2>1. encrypted \in BOOLEAN
      BY DEF IInv, StreamInv
    <2> QED
      BY <2>1 DEF SetEncrypted, writer_vars, reader_vars, stream_vars, counters
  <1>2. opened \in Nat /\ sealed = opened
    BY <1>1 DEF IInv, StreamInv
  <1>3. Clear' = Clear
    <2>1. Decipher(<<>>, opened) = <<>>
      <3> DEFINE d == Decipher(<<>>, opened)
      <3>1. d \in Bytes /\ Len(d) = Len(<<>>)
        BY <1>2, Empty, DecipherBytes
      <3> HIDE DEF d
      <3>2. d = <<>>
        BY <3>1, Empty, EmptySeq DEF Bytes
      <3> QED
        BY <3>2 DEF d
    <2> QED
      BY <1>1, <2>1 DEF Clear
  <1>4. WireInv'
    <2>1. Pending' = Pending
      BY <1>1 DEF Pending
    <2>2. Clear' = Joined(Frames(Pending'))
      BY <1>1, <1>3, <2>1 DEF IInv, WireInv
    <2> QED
      BY <2>2 DEF WireInv
  <1>5. WriterInv' /\ ReaderInv'
    BY <1>1 DEF IInv, WriterInv, ReaderInv
  <1>6. StreamInv'
    <2>1. sealed' + missing' = opened' + Len(wire')
      BY <1>1, <1>2
    <2> QED
      BY <1>1, <1>2, <2>1 DEF IInv, StreamInv
  <1> QED
    BY <1>1, <1>4, <1>5, <1>6 DEF IInv

\* A field is read: it is the next one, and the position is that of the one after it.
LEMMA ReadFieldInv ==
  ASSUME IInv, ReadField
  PROVE  IInv'
  <1> DEFINE s == sent[1]
             fs == s.fields
             id == Varint(s.packet_id)
             rest == Rest(s)
             parts == FieldsBytes(fs)
             n == Len(read)
             field == Fields[fs[n + 1]]
             at == Len(id) + Len(JoinedUpTo(parts)[n])
             r == Reading(field, rest, at)
  <1>1. /\ received # NULL /\ missing = 0 /\ sent # <<>> /\ IsSeq(read) /\ n < Len(fs)
        /\ received = [packet_id |-> s.packet_id, data |-> rest, data_ptr |-> at]
        /\ \A k \in 1 .. n : Fields[fs[k]].kind # "uuid" => read[k] = Fields[fs[k]].value
    BY DEF IInv, ReadField, ReaderInv
  <1>2. s \in Sends /\ sent \in Seq(Sends)
    BY <1>1, FramesFirst DEF IInv
  <1> HIDE DEF s
  <1>3. /\ fs \in Seq(DOMAIN Fields) /\ id \in Bytes /\ Body(fs) \in Bytes /\ rest \in Bytes
        /\ rest = id \o Body(fs) /\ s.packet_id \in Small
    BY <1>2, SendBytes DEF Rest
  <1> HIDE DEF fs, id, rest
  <1>4. n \in Nat /\ Len(fs) \in Nat /\ n + 1 \in 1 .. Len(fs)
    <2>1. n \in Nat
      BY <1>1, AppendAny
    <2>2. Len(fs) \in Nat
      BY <1>3, FieldsAre
    <2> QED
      BY <1>1, <2>1, <2>2
  <1>5. /\ parts \in Parts /\ Len(parts) = Len(fs) /\ IsField(field)
        /\ parts[n + 1] = FieldBytes(field)
    BY <1>3, <1>4, FieldsAre
  <1>6. received' = [packet_id |-> s.packet_id, data |-> rest, data_ptr |-> r[2]]
        /\ read' = Append(read, r[1]) /\ sent' = sent /\ packet' = packet /\ fields' = fields
        /\ encrypted' = encrypted /\ sealed' = sealed /\ wire' = wire /\ opened' = opened
        /\ packets' = packets /\ written' = written /\ unwritten' = unwritten
        /\ missing' = missing
    <2>1. /\ read' = Append(read, Reading(Fields[sent[1].fields[Len(read) + 1]],
                                          received.data, received.data_ptr)[1])
          /\ received' = [received EXCEPT !.data_ptr =
                            Reading(Fields[sent[1].fields[Len(read) + 1]],
                                    received.data, received.data_ptr)[2]]
          /\ sent' = sent /\ packet' = packet /\ fields' = fields
          /\ encrypted' = encrypted /\ sealed' = sealed /\ wire' = wire /\ opened' = opened
          /\ packets' = packets /\ written' = written /\ unwritten' = unwritten
          /\ missing' = missing
      BY DEF ReadField, writer_vars, stream_vars, counters
    <2> DEFINE pid == s.packet_id
    <2> HIDE DEF at, field, pid, n
    <2>2. received.data = rest /\ received.data_ptr = at
          /\ received = [packet_id |-> pid, data |-> rest, data_ptr |-> at]
      BY <1>1 DEF pid
    <2>3. Fields[sent[1].fields[Len(read) + 1]] = field
      BY DEF field, fs, s, n
    <2>4. read' = Append(read, r[1]) /\ received' = [received EXCEPT !.data_ptr = r[2]]
      BY ONLY <2>1, <2>2, <2>3
    <2> HIDE DEF r
    <2>5. received' = [packet_id |-> pid, data |-> rest, data_ptr |-> r[2]]
      BY ONLY <2>2, <2>4
    <2> QED
      BY <2>1, <2>4, <2>5 DEF pid
  <1> HIDE DEF parts, field
  <1>7. /\ Holds(rest, at, FieldBytes(field))
        /\ Len(JoinedUpTo(parts)[n + 1]) = Len(JoinedUpTo(parts)[n]) + Len(FieldBytes(field))
        /\ at \in Nat /\ Len(JoinedUpTo(parts)[n]) \in Nat /\ Len(id) \in Nat
        /\ FieldBytes(field) \in Bytes
    <2>1. Holds(rest, Len(id), Joined(parts)) /\ Len(id) \in Nat
      BY <1>3, HoldsBoth, BytesFacts DEF Body, parts
    <2> DEFINE m == n + 1
    <2>2. m \in 1 .. Len(parts) /\ m - 1 = n
      BY <1>4, <1>5
    <2> HIDE DEF m, n
    <2>3. /\ Holds(rest, Len(id) + Len(JoinedUpTo(parts)[m - 1]), parts[m])
          /\ Len(JoinedUpTo(parts)[m]) = Len(JoinedUpTo(parts)[m - 1]) + Len(parts[m])
          /\ Len(JoinedUpTo(parts)[m - 1]) \in Nat /\ parts[m] \in Bytes
      BY <1>3, <1>5, <2>1, <2>2, JoinedHolds
    <2> DEFINE l == Len(JoinedUpTo(parts)[n])
    <2>4. /\ Holds(rest, Len(id) + l, FieldBytes(field)) /\ FieldBytes(field) \in Bytes
          /\ Len(JoinedUpTo(parts)[n + 1]) = l + Len(FieldBytes(field)) /\ l \in Nat
      <3>1. parts[m] = FieldBytes(field)
        BY <1>5 DEF m
      <3>2. JoinedUpTo(parts)[m] = JoinedUpTo(parts)[n + 1]
        BY DEF m
      <3> QED
        BY ONLY <2>2, <2>3, <3>1, <3>2
    <2>5. Len(id) + l \in Nat
      <3> HIDE DEF l
      <3> QED
        BY ONLY <2>1, <2>4
    <2> QED
      BY <2>1, <2>4, <2>5
  <1> HIDE DEF r
  <1>8. /\ r[2] = at + Len(FieldBytes(field)) /\ (field.kind # "uuid" => r[1] = field.value)
    <2> HIDE DEF at
    <2>1. FieldRead(field, rest)
      BY <1>3, <1>5, FieldBack
    <2> QED
      BY <1>7, <2>1 DEF FieldRead, r
  <1>9. r[2] = Len(id) + Len(JoinedUpTo(parts)[n + 1]) /\ r[2] \in Int
    <2>1. Len(FieldBytes(field)) \in Nat
      BY <1>7, BytesFacts
    <2>2. \A a, b, c \in Nat : (a + b) + c = a + (b + c) /\ (a + b) + c \in Int
      OBVIOUS
    <2> HIDE DEF n
    <2> QED
      BY ONLY <1>7, <1>8, <2>1, <2>2 DEF at
  <1> HIDE DEF at
  <1>10. received' # NULL
    <2> DEFINE pid == s.packet_id
               m == r[2]
    <2>1. pid \in Int /\ m \in Int
      BY <1>3, <1>9, SmallInt
    <2> HIDE DEF pid, m
    <2>2. [packet_id |-> pid, data |-> rest, data_ptr |-> m] # NULL
      BY <1>3, <2>1, NotNull
    <2> QED
      BY <1>6, <2>2 DEF pid, m
  <1>11. /\ IsSeq(read') /\ Len(read') = n + 1 /\ \A k \in 1 .. n : read'[k] = read[k]
         /\ read'[n + 1] = r[1]
    BY <1>1, <1>6, AppendAny
  <1>12. ReaderInv'
    <2>1. sent'[1] = s /\ sent' # <<>>
      BY <1>1, <1>6 DEF s
    <2>2. Len(read') <= Len(fs)
      BY <1>4, <1>11
    <2>3. received' = [packet_id |-> s.packet_id, data |-> Rest(s),
                       data_ptr |-> Len(Varint(s.packet_id))
                                    + Len(JoinedUpTo(FieldsBytes(s.fields))[Len(read')])]
      BY <1>6, <1>9, <1>11 DEF id, rest, parts, fs
    <2>4. ASSUME NEW k \in 1 .. Len(read'), Fields[fs[k]].kind # "uuid"
          PROVE  read'[k] = Fields[fs[k]].value
      <3>1. CASE k = n + 1
        BY <1>8, <1>11, <2>4, <3>1 DEF field
      <3>2. CASE k # n + 1
        <4>1. k \in 1 .. n
          BY <1>4, <1>11, <3>2
        <4> QED
          BY <1>1, <1>11, <2>4, <4>1
      <3> QED
        BY <3>1, <3>2
    <2>5. \A k \in 1 .. Len(read') :
            Fields[s.fields[k]].kind # "uuid" => read'[k] = Fields[s.fields[k]].value
      BY <2>4 DEF fs
    <2>6. Len(read') <= Len(s.fields)
      BY <2>2 DEF fs
    <2> QED
      BY ONLY <1>11, <2>1, <2>3, <2>5, <2>6 DEF ReaderInv
  <1>13. WireInv'
    <2>1. Pending' = Pending
      BY <1>1, <1>6, <1>10 DEF Pending
    <2>2. Clear' = Clear
      BY <1>6 DEF Clear
    <2> QED
      BY <1>6, <2>1, <2>2 DEF IInv, WireInv
  <1>14. WriterInv' /\ StreamInv'
    BY <1>6 DEF IInv, WriterInv, StreamInv
  <1> QED
    BY <1>6, <1>12, <1>13, <1>14 DEF IInv

\* A packet has been read.
LEMMA FreePacketInv ==
  ASSUME IInv, FreePacket
  PROVE  IInv'
  <1>1. /\ received # NULL /\ missing = 0 /\ received' = NULL /\ sent' = Tail(sent)
        /\ packet' = packet /\ fields' = fields /\ encrypted' = encrypted
        /\ sealed' = sealed /\ wire' = wire /\ opened' = opened /\ packets' = packets
        /\ written' = written /\ unwritten' = unwritten /\ missing' = missing
    BY DEF FreePacket, writer_vars, stream_vars, counters
  <1>2. sent' \in Seq(Sends)
    <2>1. sent # <<>> /\ sent \in Seq(Sends)
      BY <1>1 DEF IInv, ReaderInv
    <2> QED
      BY <1>1, <2>1, FramesFirst
  <1>3. Pending' = Pending /\ Clear' = Clear
    BY <1>1 DEF Pending, Clear
  <1>4. WireInv' /\ StreamInv'
    BY <1>1, <1>3 DEF IInv, WireInv, StreamInv
  <1>5. WriterInv' /\ ReaderInv'
    BY <1>1 DEF IInv, WriterInv, ReaderInv
  <1> QED
    BY <1>1, <1>2, <1>4, <1>5 DEF IInv

\* Every step keeps the invariant.
LEMMA Inductive == IInv /\ [Next]_vars => IInv'
  <1> SUFFICES ASSUME IInv, [Next]_vars
               PROVE  IInv'
    OBVIOUS
  <1>1. ASSUME NEW id \in PacketIds, NewPacket(id)
        PROVE  IInv'
    BY <1>1, NewPacketInv
  <1>2. ASSUME NEW k \in DOMAIN Fields, WriteField(k)
        PROVE  IInv'
    BY <1>2, WriteFieldInv
  <1>3. CASE PacketSend
    BY <1>3, PacketSendInv
  <1>4. CASE PacketRecv
    BY <1>4, PacketRecvInv
  <1>9. CASE Write
    BY <1>9, WriteInv
  <1>5. CASE SetEncrypted
    BY <1>5, SetEncryptedInv
  <1>6. CASE ReadField
    BY <1>6, ReadFieldInv
  <1>7. CASE FreePacket
    BY <1>7, FreePacketInv
  <1>8. CASE UNCHANGED vars
    BY <1>8 DEF vars, writer_vars, reader_vars, stream_vars, counters, IInv, WriterInv,
                ReaderInv, StreamInv, WireInv, Pending, Clear
  <1> QED
    BY <1>1, <1>2, <1>3, <1>4, <1>5, <1>6, <1>7, <1>8, <1>9 DEF Next

-----------------------------------------------------------------------------
(* The theorems.                                                           *)

\* The invariant holds in every state.
THEOREM Invariant == Spec => []IInv
  <1> QED
    BY Starts, Inductive, PTL DEF Spec

\* The variables have their types, for all fields, packet ids, sizes of the buffer and
\* numbers of packets.
THEOREM TypeCorrect == Spec => []TypeOK
  <1>1. IInv => TypeOK
    <2> SUFFICES ASSUME IInv
                 PROVE  TypeOK
      OBVIOUS
    <2>1. \/ packet = NULL
          \/ /\ packet.packet_id \in PacketIds /\ packet.data \in Seq(Byte)
             /\ \E k \in 0 .. 31 : packet.data_length = Doubled(InitSize, k)
      <3> SUFFICES ASSUME packet # NULL
                   PROVE  /\ packet.packet_id \in PacketIds /\ packet.data \in Seq(Byte)
                          /\ \E k \in 0 .. 31 : packet.data_length = Doubled(InitSize, k)
        OBVIOUS
      <3>1. /\ packet.packet_id \in PacketIds /\ packet.data = Body(fields)
            /\ SizeFits(packet.data_length, Len(packet.data))
        BY DEF IInv, WriterInv
      <3>2. Body(fields) \in Bytes
        BY FieldsAre DEF IInv
      <3> QED
        BY <3>1, <3>2 DEF Bytes, SizeFits
    <2>2. \/ received = NULL \/ missing > 0
          \/ /\ received.packet_id \in PacketIds /\ received.data \in Seq(Byte)
             /\ received.data_ptr \in Nat
      <3> SUFFICES ASSUME received # NULL, ~(missing > 0)
                   PROVE  /\ received.packet_id \in PacketIds /\ received.data \in Seq(Byte)
                          /\ received.data_ptr \in Nat
        OBVIOUS
      <3> DEFINE s == sent[1]
                 parts == FieldsBytes(s.fields)
      <3>10. missing = 0
        BY DEF IInv, StreamInv
      <3>1. /\ sent # <<>> /\ IsSeq(read) /\ Len(read) <= Len(s.fields)
            /\ received = [packet_id |-> s.packet_id, data |-> Rest(s),
                           data_ptr |-> Len(Varint(s.packet_id)) + Len(JoinedUpTo(parts)[Len(read)])]
        BY <3>10 DEF IInv, ReaderInv
      <3>2. s \in Sends
        BY <3>1, FramesFirst DEF IInv
      <3> HIDE DEF s
      <3>3. s.packet_id \in PacketIds /\ Rest(s) \in Bytes /\ Varint(s.packet_id) \in Bytes
            /\ s.fields \in Seq(DOMAIN Fields)
        BY <3>2, SendBytes
      <3>4. parts \in Parts /\ Len(parts) = Len(s.fields) /\ Len(s.fields) \in Nat
        BY <3>3, FieldsAre
      <3> HIDE DEF parts
      <3>5. Len(read) \in 0 .. Len(parts)
        BY <3>1, <3>4, AppendAny
      <3>6. JoinedUpTo(parts)[Len(read)] \in Bytes
        BY <3>4, <3>5, JoinedStep
      <3>7. Len(Varint(s.packet_id)) \in Nat /\ Len(JoinedUpTo(parts)[Len(read)]) \in Nat
        BY <3>3, <3>6, BytesFacts
      <3>8. received.packet_id = s.packet_id /\ received.data = Rest(s)
            /\ received.data_ptr = Len(Varint(s.packet_id)) + Len(JoinedUpTo(parts)[Len(read)])
        BY ONLY <3>1
      <3>9. received.data_ptr \in Nat
        <4> DEFINE a == Len(Varint(s.packet_id))
                   b == Len(JoinedUpTo(parts)[Len(read)])
        <4>1. a \in Nat /\ b \in Nat /\ received.data_ptr = a + b
          BY <3>7, <3>8
        <4> HIDE DEF a, b
        <4>2. a + b \in Nat
          BY ONLY <4>1
        <4> QED
          BY ONLY <4>1, <4>2
      <3> QED
        BY <3>3, <3>8, <3>9 DEF Bytes
    <2> QED
      BY <2>1, <2>2 DEF TypeOK, IInv, StreamInv
  <1> QED
    BY <1>1, Invariant, PTL

\* What has been written into a packet fits its buffer, and the buffer is doubled no more
\* often than it needs: allocate_packet_space.
THEOREM AlwaysFits == Spec => []Fits
  <1>1. IInv => Fits
    BY DEF IInv, WriterInv, SizeFits, Fits
  <1> QED
    BY <1>1, Invariant, PTL

\* As long as every packet received was all there, what is read is what was written, field
\* by field and packet by packet, whatever the packets before it were, however their three
\* writes and the reads fell and wherever encryption was set; the bytes of a packet are used
\* up by its fields.
THEOREM AlwaysReadBack == Spec => []ReadBack
  <1>1. IInv => ReadBack
    <2> SUFFICES ASSUME IInv, missing = 0
                 PROVE  /\ received # NULL =>
                             /\ received.packet_id = sent[1].packet_id
                             /\ \A k \in DOMAIN read :
                                  LET field == Fields[sent[1].fields[k]]
                                  IN  field.kind # "uuid" => read[k] = field.value
                             /\ Len(read) = Len(sent[1].fields) =>
                                  received.data_ptr = Len(received.data)
                        /\ sent = <<>> => wire = <<>>
      BY DEF ReadBack
    <2>1. ASSUME received # NULL
          PROVE  /\ received.packet_id = sent[1].packet_id
                 /\ \A k \in DOMAIN read :
                      LET field == Fields[sent[1].fields[k]]
                      IN  field.kind # "uuid" => read[k] = field.value
                 /\ Len(read) = Len(sent[1].fields) => received.data_ptr = Len(received.data)
      <3> DEFINE s == sent[1]
                 parts == FieldsBytes(s.fields)
      <3>1. /\ sent # <<>> /\ IsSeq(read)
            /\ received = [packet_id |-> s.packet_id, data |-> Rest(s),
                           data_ptr |-> Len(Varint(s.packet_id)) + Len(JoinedUpTo(parts)[Len(read)])]
            /\ \A k \in 1 .. Len(read) :
                 LET field == Fields[s.fields[k]]
                 IN  field.kind # "uuid" => read[k] = field.value
        BY <2>1 DEF IInv, ReaderInv
      <3>2. s \in Sends
        BY <3>1, FramesFirst DEF IInv
      <3>3. DOMAIN read = 1 .. Len(read)
        <4> DEFINE S == {read[k] : k \in DOMAIN read}
        <4>1. read \in Seq(S)
          BY <3>1 DEF IsSeq
        <4> HIDE DEF S
        <4> QED
          BY <4>1, LenProperties
      <3> HIDE DEF s
      <3>4. Len(Rest(s)) = Len(Varint(s.packet_id)) + Len(Body(s.fields))
            /\ s.fields \in Seq(DOMAIN Fields)
        BY <3>2, SendBytes
      <3>5. Len(read) = Len(s.fields) => JoinedUpTo(parts)[Len(read)] = Body(s.fields)
        BY <3>4, FieldsAre DEF Body, Joined
      <3>6. Len(read) = Len(s.fields) => received.data_ptr = Len(received.data)
        BY <3>1, <3>4, <3>5
      <3> QED
        BY <3>1, <3>3, <3>6 DEF s
    <2>2. ASSUME sent = <<>>
          PROVE  wire = <<>>
      <3>1. received = NULL
        BY <2>2 DEF IInv, ReaderInv
      <3>2. Clear = <<>>
        BY <2>2, <3>1, Nothing DEF IInv, WireInv, Pending
      <3>3. wire \in Bytes /\ Len(wire) = 0
        BY <3>2, ClearBytes, Empty DEF IInv
      <3> QED
        BY <3>3, EmptySeq DEF Bytes
    <2> QED
      BY <2>1, <2>2
  <1> QED
    BY <1>1, Invariant, PTL
=============================================================================

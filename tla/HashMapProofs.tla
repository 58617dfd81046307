---------------------------- MODULE HashMapProofs ----------------------------
(***************************************************************************)
(* The hash map keeps its chains intact, for any keys, hashes and number   *)
(* of buckets.  TypeOK and ChainIntegrity are inductive together: the data *)
(* a search loop reaches is typed only because the position it stops at    *)
(* exists, and that needs the chain to hold a key at most once.  What a    *)
(* call does to the result of later reads follows, and from it that        *)
(* num_items counts the stored keys and that the map implements KVStore.   *)
(***************************************************************************)
EXTENDS HashMap, SequenceTheorems, FiniteSetTheorems, TLAPS

\* ChainIntegrity of one chain.
GoodChain(b, s) ==
  \A i \in DOMAIN s :
    /\ BucketOf(s[i].key) = b
    /\ s[i].hash = HashOf[s[i].key]
    /\ \A j \in DOMAIN s : s[i].key = s[j].key => i = j

IInv == TypeOK /\ ChainIntegrity

-----------------------------------------------------------------------------
(* The three ways a chain changes keep it good.                            *)

\* The bucket of a key is one of the map's.
LEMMA BucketInRange == \A k \in Key : BucketOf(k) \in 0 .. NumBuckets - 1
  BY HashMapAssumption DEF BucketOf

\* RemoveAt takes out one element and closes the gap.
LEMMA RemoveAtFacts ==
  ASSUME NEW S, NEW s \in Seq(S), NEW i \in 1 .. Len(s)
  PROVE  /\ RemoveAt(s, i) \in Seq(S)
         /\ Len(RemoveAt(s, i)) = Len(s) - 1
         /\ \A j \in 1 .. Len(s) - 1 :
              RemoveAt(s, i)[j] = IF j < i THEN s[j] ELSE s[j + 1]
  <1> DEFINE l == SubSeq(s, 1, i - 1)
             r == SubSeq(s, i + 1, Len(s))
  <1>1. \A j \in 1 .. Len(s) : s[j] \in S
    OBVIOUS
  <1>2. /\ l \in Seq(S) /\ Len(l) = i - 1
        /\ \A j \in 1 .. i - 1 : l[j] = s[j]
    <2>1. /\ l \in Seq(S) /\ Len(l) = IF 1 <= i - 1 THEN i - 1 - 1 + 1 ELSE 0
          /\ \A j \in 1 .. i - 1 - 1 + 1 : l[j] = s[1 + j - 1]
      BY <1>1, SubSeqProperties
    <2> HIDE DEF l
    <2> QED
      BY <2>1
  <1>3. /\ r \in Seq(S) /\ Len(r) = Len(s) - i
        /\ \A j \in 1 .. Len(s) - i : r[j] = s[i + j]
    <2>1. /\ r \in Seq(S) /\ Len(r) = IF i + 1 <= Len(s) THEN Len(s) - (i + 1) + 1 ELSE 0
          /\ \A j \in 1 .. Len(s) - (i + 1) + 1 : r[j] = s[i + 1 + j - 1]
      BY <1>1, SubSeqProperties
    <2> HIDE DEF r
    <2> QED
      BY <2>1
  <1> HIDE DEF l, r
  <1>4. /\ l \o r \in Seq(S) /\ Len(l \o r) = Len(l) + Len(r)
        /\ \A j \in 1 .. Len(l) + Len(r) :
             (l \o r)[j] = IF j <= Len(l) THEN l[j] ELSE r[j - Len(l)]
    BY <1>2, <1>3, ConcatProperties
  <1>5. RemoveAt(s, i) = l \o r
    BY DEF RemoveAt, l, r
  <1>6. l \o r \in Seq(S) /\ Len(l \o r) = Len(s) - 1
    BY <1>2, <1>3, <1>4
  <1>7. ASSUME NEW j \in 1 .. Len(s) - 1
        PROVE  (l \o r)[j] = IF j < i THEN s[j] ELSE s[j + 1]
    <2>1. CASE j < i
      BY <1>2, <1>3, <1>4, <2>1
    <2>2. CASE ~(j < i)
      <3>1. (l \o r)[j] = r[j - (i - 1)]
        BY <1>2, <1>3, <1>4, <2>2
      <3>2. j - (i - 1) \in 1 .. Len(s) - i /\ i + (j - (i - 1)) = j + 1
        BY <2>2
      <3> QED
        BY <1>3, <2>2, <3>1, <3>2
    <2> QED
      BY <2>1, <2>2
  <1> QED
    BY <1>5, <1>6, <1>7

\* A key that a good chain lacks may be appended to it.
LEMMA AppendGood ==
  ASSUME NEW b \in 0 .. NumBuckets - 1, NEW s \in Seq(Item), GoodChain(b, s),
         NEW k \in Key, BucketOf(k) = b, \A i \in DOMAIN s : s[i].key # k,
         NEW d \in Data
  PROVE  LET t == Append(s, [key |-> k, hash |-> HashOf[k], data |-> d])
         IN  t \in Seq(Item) /\ GoodChain(b, t)
  <1> DEFINE new == [key |-> k, hash |-> HashOf[k], data |-> d]
             t == Append(s, new)
  <1>1. new \in Item
    BY HashMapAssumption DEF Item
  <1>2. t \in Seq(Item) /\ Len(t) = Len(s) + 1 /\ t[Len(s) + 1] = new
        /\ \A i \in 1 .. Len(s) : t[i] = s[i]
    BY <1>1
  <1>3. GoodChain(b, t)
    <2> SUFFICES ASSUME NEW i \in 1 .. Len(s) + 1, NEW j \in 1 .. Len(s) + 1
                 PROVE  /\ BucketOf(t[i].key) = b
                        /\ t[i].hash = HashOf[t[i].key]
                        /\ t[i].key = t[j].key => i = j
      BY <1>2 DEF GoodChain
    <2> HIDE DEF t, new
    <2>1. new.key = k /\ new.hash = HashOf[k]
      BY DEF new
    <2>2. \A n \in 1 .. Len(s) : t[n] = s[n] /\ s[n].key # k
      BY <1>2
    <2> QED
      BY <1>2, <2>1, <2>2 DEF GoodChain
  <1> QED
    BY <1>2, <1>3

\* New data under an old key leaves a chain good.
LEMMA OverwriteGood ==
  ASSUME NEW b \in 0 .. NumBuckets - 1, NEW s \in Seq(Item), GoodChain(b, s),
         NEW i \in DOMAIN s, NEW d \in Data
  PROVE  LET t == [s EXCEPT ![i].data = d]
         IN  t \in Seq(Item) /\ GoodChain(b, t)
  <1> DEFINE t == [s EXCEPT ![i].data = d]
  <1>1. DOMAIN t = DOMAIN s /\ DOMAIN s = 1 .. Len(s)
    OBVIOUS
  <1>2. ASSUME NEW j \in DOMAIN s
        PROVE  t[j] \in Item /\ t[j].key = s[j].key /\ t[j].hash = s[j].hash
    <2>1. s[j] \in Item
      OBVIOUS
    <2>2. t[j] = IF j = i THEN [s[j] EXCEPT !.data = d] ELSE s[j]
      OBVIOUS
    <2> QED
      BY <2>1, <2>2 DEF Item
  <1>3. t \in Seq(Item)
    BY <1>1, <1>2
  <1>4. GoodChain(b, t)
    BY <1>1, <1>2 DEF GoodChain
  <1> QED
    BY <1>3, <1>4

\* So does taking an item out.
LEMMA RemoveGood ==
  ASSUME NEW b \in 0 .. NumBuckets - 1, NEW s \in Seq(Item), GoodChain(b, s),
         NEW i \in DOMAIN s
  PROVE  RemoveAt(s, i) \in Seq(Item) /\ GoodChain(b, RemoveAt(s, i))
  <1> DEFINE t == RemoveAt(s, i)
             old(j) == IF j < i THEN j ELSE j + 1
  <1>1. /\ t \in Seq(Item) /\ Len(t) = Len(s) - 1
        /\ \A j \in 1 .. Len(s) - 1 : t[j] = IF j < i THEN s[j] ELSE s[j + 1]
    <2>1. i \in 1 .. Len(s)
      OBVIOUS
    <2> QED
      BY <2>1, RemoveAtFacts
  <1> HIDE DEF t
  <1>2. \A j \in DOMAIN t : old(j) \in DOMAIN s /\ t[j] = s[old(j)]
    BY <1>1
  <1>3. \A j, m \in DOMAIN t : old(j) = old(m) => j = m
    BY <1>1
  <1> HIDE DEF old
  <1>4. GoodChain(b, t)
    BY <1>2, <1>3 DEF GoodChain
  <1> QED
    BY <1>1, <1>4 DEF t

-----------------------------------------------------------------------------
(* The search loop.                                                        *)

\* In an intact map the loop stops at the one item of its key, or finds that
\* there is none.
LEMMA Search ==
  ASSUME IInv, NEW k \in Key
  PROVE  /\ Chain(k) \in Seq(Item) /\ GoodChain(BucketOf(k), Chain(k))
         /\ Position(k) = 0 => \A i \in DOMAIN Chain(k) : Chain(k)[i].key # k
         /\ Position(k) # 0 => /\ Position(k) \in DOMAIN Chain(k)
                               /\ Chain(k)[Position(k)].key = k
  <1>1. Chain(k) \in Seq(Item) /\ GoodChain(BucketOf(k), Chain(k))
    BY BucketInRange DEF IInv, TypeOK, ChainIntegrity, Chain, GoodChain
  <1>2. Matches(k) = {i \in DOMAIN Chain(k) : Chain(k)[i].key = k}
    BY <1>1 DEF Matches, GoodChain
  <1>3. CASE Matches(k) = {}
    BY <1>1, <1>2, <1>3 DEF Position
  <1>4. CASE Matches(k) # {}
    <2>1. PICK i \in Matches(k) : TRUE
      BY <1>4
    <2>2. Matches(k) = {i} /\ i \in Nat \ {0}
      BY <1>1, <1>2, <2>1 DEF GoodChain
    <2>3. Min(Matches(k)) = i
      BY <2>2 DEF Min
    <2> QED
      BY <1>1, <1>2, <1>4, <2>2, <2>3 DEF Position
  <1> QED
    BY <1>3, <1>4

-----------------------------------------------------------------------------
(* The invariant.                                                          *)

\* Changing one chain to a good one keeps the map intact.
LEMMA ChangeOneChain ==
  ASSUME IInv, NEW b \in 0 .. NumBuckets - 1, NEW t \in Seq(Item), GoodChain(b, t),
         buckets' = [buckets EXCEPT ![b] = t]
  PROVE  /\ buckets' \in [0 .. NumBuckets - 1 -> Seq(Item)]
         /\ ChainIntegrity'
  <1>1. buckets' \in [0 .. NumBuckets - 1 -> Seq(Item)]
    BY DEF IInv, TypeOK
  <1>2. \A c \in 0 .. NumBuckets - 1 : GoodChain(c, buckets'[c])
    BY DEF IInv, TypeOK, ChainIntegrity, GoodChain
  <1> QED
    BY <1>1, <1>2 DEF ChainIntegrity, GoodChain, BucketOf

\* What a read returns is data or NULL.
LEMMA LookupType == ASSUME IInv, NEW k \in Key PROVE Lookup(k) \in Data \union {NULL}
  <1>1. CASE Position(k) = 0
    BY <1>1 DEF Lookup
  <1>2. CASE Position(k) # 0
    <2>1. Chain(k)[Position(k)] \in Item
      BY <1>2, Search, ElementOfSeq
    <2> QED
      BY <1>2, <2>1 DEF Lookup, Item
  <1> QED
    BY <1>1, <1>2

LEMMA UpdateKeepsIInv ==
  ASSUME IInv, NEW k \in Key, NEW d \in Data \union {NULL}, UpdateItem(k, d)
  PROVE  IInv'
  <1> DEFINE b == BucketOf(k)
  <1>1. b \in 0 .. NumBuckets - 1 /\ buckets[b] = Chain(k)
    BY BucketInRange DEF Chain
  <1>2. ret' \in Data \union {NULL}
    BY LookupType DEF UpdateItem
  <1>3. CASE Position(k) = 0 /\ d # NULL
    <2> DEFINE t == Append(Chain(k), [key |-> k, hash |-> HashOf[k], data |-> d])
    <2>1. buckets' = [buckets EXCEPT ![b] = t] /\ num_items' = num_items + 1
      BY <1>1, <1>3 DEF UpdateItem
    <2>2. t \in Seq(Item) /\ GoodChain(b, t)
      BY <1>1, <1>3, Search, AppendGood
    <2> HIDE DEF t, b
    <2>3. buckets' \in [0 .. NumBuckets - 1 -> Seq(Item)] /\ ChainIntegrity'
      BY <1>1, <2>1, <2>2, ChangeOneChain
    <2>4. num_items' \in Int /\ ret' \in Data \union {NULL} \union BOOLEAN
      BY ONLY IInv, <1>2, <2>1 DEF IInv, TypeOK
    <2> QED
      BY ONLY <2>3, <2>4 DEF IInv, TypeOK
  <1>4. CASE Position(k) # 0 /\ d # NULL
    <2> DEFINE t == [Chain(k) EXCEPT ![Position(k)].data = d]
    <2>1. buckets' = [buckets EXCEPT ![b] = t] /\ num_items' = num_items
      BY <1>1, <1>4 DEF UpdateItem
    <2>2. t \in Seq(Item) /\ GoodChain(b, t)
      BY <1>1, <1>4, Search, OverwriteGood
    <2> HIDE DEF t, b
    <2>3. buckets' \in [0 .. NumBuckets - 1 -> Seq(Item)] /\ ChainIntegrity'
      BY <1>1, <2>1, <2>2, ChangeOneChain
    <2>4. num_items' \in Int /\ ret' \in Data \union {NULL} \union BOOLEAN
      BY ONLY IInv, <1>2, <2>1 DEF IInv, TypeOK
    <2> QED
      BY ONLY <2>3, <2>4 DEF IInv, TypeOK
  <1>5. CASE d = NULL
    <2>1. buckets' = buckets /\ num_items' = num_items
      BY <1>5 DEF UpdateItem
    <2> QED
      BY <1>2, <2>1 DEF IInv, TypeOK, ChainIntegrity, BucketOf
  <1> QED
    BY <1>3, <1>4, <1>5

LEMMA RemoveKeepsIInv == ASSUME IInv, NEW k \in Key, RemoveItem(k) PROVE IInv'
  <1> DEFINE b == BucketOf(k)
  <1>1. b \in 0 .. NumBuckets - 1 /\ buckets[b] = Chain(k)
    BY BucketInRange DEF Chain
  <1>2. ret' \in BOOLEAN
    BY DEF RemoveItem
  <1>3. CASE Position(k) = 0
    <2>1. buckets' = buckets /\ num_items' = num_items
      BY <1>3 DEF RemoveItem
    <2> QED
      BY <1>2, <2>1 DEF IInv, TypeOK, ChainIntegrity, BucketOf
  <1>4. CASE Position(k) # 0
    <2> DEFINE t == RemoveAt(Chain(k), Position(k))
    <2>1. buckets' = [buckets EXCEPT ![b] = t] /\ num_items' = num_items - 1
      BY <1>1, <1>4 DEF RemoveItem
    <2>2. t \in Seq(Item) /\ GoodChain(b, t)
      BY <1>1, <1>4, Search, RemoveGood
    <2> HIDE DEF t, b
    <2>3. buckets' \in [0 .. NumBuckets - 1 -> Seq(Item)] /\ ChainIntegrity'
      BY <1>1, <2>1, <2>2, ChangeOneChain
    <2>4. num_items' \in Int /\ ret' \in Data \union {NULL} \union BOOLEAN
      BY ONLY IInv, <1>2, <2>1 DEF IInv, TypeOK
    <2> QED
      BY ONLY <2>3, <2>4 DEF IInv, TypeOK
  <1> QED
    BY <1>3, <1>4

\* The map starts intact and every call leaves it so.
THEOREM Intact == Spec => []IInv
  <1>1. Init => IInv
    BY DEF Init, IInv, TypeOK, ChainIntegrity, BucketOf
  <1>2. IInv /\ [Next]_vars => IInv'
    <2> SUFFICES ASSUME IInv, [Next]_vars PROVE IInv'
      OBVIOUS
    <2>1. ASSUME NEW k \in Key, NEW d \in Data \union {NULL}, UpdateItem(k, d) PROVE IInv'
      BY <2>1, UpdateKeepsIInv
    <2>2. ASSUME NEW k \in Key, RemoveItem(k) PROVE IInv'
      BY <2>2, RemoveKeepsIInv
    <2>3. CASE UNCHANGED vars
      BY <2>3 DEF vars, IInv, TypeOK, ChainIntegrity, BucketOf
    <2> QED
      BY <2>1, <2>2, <2>3 DEF Next
  <1> QED
    BY <1>1, <1>2, PTL DEF Spec

\* The state of the map is always well-typed (hashmap.h's hashmap_t).
THEOREM TypeCorrect == Spec => []TypeOK
  BY Intact, PTL DEF IInv

\* hashmap_update_item and hashmap_remove_item never leave an item in a wrong
\* bucket or a key twice in a chain, whatever keys collide.
THEOREM ChainsStayIntact == Spec => []ChainIntegrity
  BY Intact, PTL DEF IInv

-----------------------------------------------------------------------------
(* What a call does to the reads that follow it.                           *)

\* Lookup in a given chain, so that it can be spoken of before and after.
PositionIn(s, k) ==
  LET M == {i \in DOMAIN s : s[i].hash = HashOf[k] /\ s[i].key = k}
  IN  IF M = {} THEN 0 ELSE Min(M)

LookupIn(s, k) == IF PositionIn(s, k) = 0 THEN NULL ELSE s[PositionIn(s, k)].data

\* A read of a good chain returns the data of the item of its key, and NULL
\* only when there is none.
LEMMA LookupFinds ==
  ASSUME NEW b, NEW s \in Seq(Item), GoodChain(b, s), NEW k \in Key
  PROVE  /\ \A i \in DOMAIN s : s[i].key = k => PositionIn(s, k) = i /\ LookupIn(s, k) = s[i].data
         /\ (\A i \in DOMAIN s : s[i].key # k) => PositionIn(s, k) = 0 /\ LookupIn(s, k) = NULL
  <1> DEFINE M == {i \in DOMAIN s : s[i].hash = HashOf[k] /\ s[i].key = k}
  <1>1. M = {i \in DOMAIN s : s[i].key = k}
    BY DEF GoodChain
  <1>2. ASSUME NEW i \in DOMAIN s, s[i].key = k
        PROVE  PositionIn(s, k) = i
    <2>1. M = {i}
      BY <1>1, <1>2 DEF GoodChain
    <2>2. i \in Nat \ {0}
      OBVIOUS
    <2>3. Min({i}) = i
      BY <2>2 DEF Min
    <2> QED
      BY <2>1, <2>3 DEF PositionIn
  <1>3. ASSUME \A i \in DOMAIN s : s[i].key # k
        PROVE  PositionIn(s, k) = 0
    <2>1. M = {}
      BY <1>1, <1>3
    <2> QED
      BY <2>1 DEF PositionIn
  <1>4. \A i \in DOMAIN s : i # 0
    OBVIOUS
  <1> QED
    BY <1>2, <1>3, <1>4 DEF LookupIn

\* A read looks at its key's chain, before and after a step.
LEMMA LookupIsIn ==
  ASSUME NEW k \in Key
  PROVE  /\ Lookup(k) = LookupIn(Chain(k), k) /\ Position(k) = PositionIn(Chain(k), k)
         /\ Lookup(k)' = LookupIn(Chain(k)', k) /\ Position(k)' = PositionIn(Chain(k)', k)
  BY DEF Lookup, LookupIn, Position, PositionIn, Matches

\* The loop runs off the end of a chain exactly when it returns no data.
LEMMA MissIsNull ==
  ASSUME NEW b, NEW s \in Seq(Item), GoodChain(b, s), NEW k \in Key
  PROVE  PositionIn(s, k) = 0 <=> LookupIn(s, k) = NULL
  <1>1. CASE \A i \in DOMAIN s : s[i].key # k
    BY <1>1, LookupFinds
  <1>2. CASE \E i \in DOMAIN s : s[i].key = k
    <2>1. PICK i \in DOMAIN s : s[i].key = k
      BY <1>2
    <2>2. s[i] \in Item /\ i # 0
      OBVIOUS
    <2>3. s[i].data # NULL
      BY <2>2, HashMapAssumption DEF Item
    <2> QED
      BY <2>1, <2>2, <2>3, LookupFinds
  <1> QED
    BY <1>1, <1>2

\* A key is stored when a read of it returns data, before and after a step.
LEMMA StoredIsFound ==
  /\ IInv => Stored = {k \in Key : Lookup(k) # NULL}
  /\ IInv' => Stored' = {k \in Key : Lookup(k)' # NULL}
  <1>1. ASSUME IInv, NEW k \in Key PROVE Position(k) = 0 <=> Lookup(k) = NULL
    <2>1. Chain(k) \in Seq(Item) /\ GoodChain(BucketOf(k), Chain(k))
      BY <1>1, BucketInRange DEF IInv, TypeOK, ChainIntegrity, Chain, GoodChain
    <2> QED
      BY <2>1, MissIsNull, LookupIsIn
  <1>2. ASSUME IInv', NEW k \in Key PROVE Position(k)' = 0 <=> Lookup(k)' = NULL
    <2>1. Chain(k)' \in Seq(Item) /\ GoodChain(BucketOf(k), Chain(k)')
      BY <1>2, BucketInRange
         DEF IInv, TypeOK, ChainIntegrity, Chain, GoodChain, BucketOf
    <2> QED
      BY <2>1, MissIsNull, LookupIsIn
  <1> QED
    BY <1>1, <1>2 DEF Stored

\* When one chain is replaced, reads of the keys of its bucket look there.
LEMMA ReadsFollow ==
  ASSUME IInv, NEW k \in Key, NEW t,
         buckets' = [buckets EXCEPT ![BucketOf(k)] = t],
         NEW m \in Key
  PROVE  /\ BucketOf(m) = BucketOf(k) => /\ Lookup(m) = LookupIn(Chain(k), m)
                                         /\ Lookup(m)' = LookupIn(t, m)
         /\ BucketOf(m) # BucketOf(k) => Lookup(m)' = Lookup(m)
  <1>1. Chain(m)' = buckets'[BucketOf(m)]
    BY DEF Chain, BucketOf
  <1>2. Chain(m)' = IF BucketOf(m) = BucketOf(k) THEN t ELSE Chain(m)
    BY <1>1, BucketInRange DEF IInv, TypeOK, Chain
  <1>3. BucketOf(m) = BucketOf(k) => Chain(m) = Chain(k)
    BY DEF Chain
  <1> QED
    BY <1>2, <1>3, LookupIsIn

\* hashmap_update_item changes the result of reads of its key alone, and not
\* that either when its data is NULL.
LEMMA UpdateEffect ==
  ASSUME IInv, NEW k \in Key, NEW d \in Data \union {NULL}, UpdateItem(k, d)
  PROVE  \A m \in Key : Lookup(m)' = IF m = k /\ d # NULL THEN d ELSE Lookup(m)
  <1> DEFINE b == BucketOf(k)
             s == Chain(k)
  <1>1. b \in 0 .. NumBuckets - 1 /\ buckets[b] = s
    BY BucketInRange DEF Chain
  <1>2. s \in Seq(Item) /\ GoodChain(b, s)
    BY Search
  <1>3. CASE Position(k) = 0 /\ d # NULL
    <2> DEFINE new == [key |-> k, hash |-> HashOf[k], data |-> d]
               t == Append(s, new)
    <2>1. buckets' = [buckets EXCEPT ![b] = t]
      BY <1>1, <1>3 DEF UpdateItem
    <2>2. t \in Seq(Item) /\ GoodChain(b, t)
      BY <1>1, <1>3, Search, AppendGood
    <2>3. /\ DOMAIN t = DOMAIN s \union {Len(s) + 1}
          /\ t[Len(s) + 1] = new
          /\ \A i \in DOMAIN s : t[i] = s[i] /\ s[i].key # k
      BY <1>2, <1>3, Search
    <2>4. new.key = k /\ new.data = d
      OBVIOUS
    <2> HIDE DEF t, new, s, b
    <2>5. ASSUME NEW m \in Key
          PROVE  LookupIn(t, m) = IF m = k THEN d ELSE LookupIn(s, m)
      <3>1. CASE m = k
        BY <2>2, <2>3, <2>4, <3>1, LookupFinds
      <3>2. CASE m # k /\ \E i \in DOMAIN s : s[i].key = m
        BY <1>2, <2>2, <2>3, <3>2, LookupFinds
      <3>3. CASE m # k /\ \A i \in DOMAIN s : s[i].key # m
        BY <1>2, <2>2, <2>3, <2>4, <3>3, LookupFinds
      <3> QED
        BY <3>1, <3>2, <3>3
    <2>8. buckets' = [buckets EXCEPT ![BucketOf(k)] = t]
      BY <2>1 DEF b
    <2>10. ASSUME NEW m \in Key
           PROVE  Lookup(m)' = IF m = k THEN d ELSE Lookup(m)
      BY <2>5, <2>8, ReadsFollow DEF s
    <2> QED
      BY <1>3, <2>10
  <1>4. CASE Position(k) # 0 /\ d # NULL
    <2> DEFINE p == Position(k)
               t == [s EXCEPT ![p].data = d]
    <2>1. buckets' = [buckets EXCEPT ![b] = t]
      BY <1>1, <1>4 DEF UpdateItem
    <2>2. p \in DOMAIN s /\ s[p].key = k
      BY <1>4, Search
    <2>3. t \in Seq(Item) /\ GoodChain(b, t)
      BY <1>1, <1>2, <1>4, <2>2, OverwriteGood
    <2>4. /\ DOMAIN t = DOMAIN s
          /\ \A i \in DOMAIN s : i # p => t[i] = s[i]
          /\ t[p] = [s[p] EXCEPT !.data = d]
      BY <1>2, <2>2
    <2>5. t[p].key = k /\ t[p].data = d
      <3>1. s[p] \in Item
        BY <1>2, <2>2
      <3> QED
        BY <2>2, <2>4, <3>1 DEF Item
    <2> HIDE DEF t, p, s, b
    <2>6. ASSUME NEW m \in Key
          PROVE  LookupIn(t, m) = IF m = k THEN d ELSE LookupIn(s, m)
      <3>1. CASE m = k
        BY <2>2, <2>3, <2>4, <2>5, <3>1, LookupFinds
      <3>2. CASE m # k /\ \E i \in DOMAIN s : s[i].key = m
        BY <1>2, <2>2, <2>3, <2>4, <3>2, LookupFinds
      <3>3. CASE m # k /\ \A i \in DOMAIN s : s[i].key # m
        <4>1. \A i \in DOMAIN t : t[i].key # m
          BY <2>2, <2>4, <2>5, <3>3
        <4>2. LookupIn(t, m) = NULL
          BY <2>3, <4>1, LookupFinds
        <4>3. LookupIn(s, m) = NULL
          BY <1>2, <3>3, LookupFinds
        <4> QED
          BY <3>3, <4>2, <4>3
      <3> QED
        BY <3>1, <3>2, <3>3
    <2>8. buckets' = [buckets EXCEPT ![BucketOf(k)] = t]
      BY <2>1 DEF b
    <2>10. ASSUME NEW m \in Key
           PROVE  Lookup(m)' = IF m = k THEN d ELSE Lookup(m)
      BY <2>6, <2>8, ReadsFollow DEF s
    <2> QED
      BY <1>4, <2>10
  <1>5. CASE d = NULL
    <2>1. buckets' = buckets
      BY <1>5 DEF UpdateItem
    <2>2. \A m \in Key : Chain(m)' = Chain(m)
      BY <2>1 DEF Chain, BucketOf
    <2> QED
      BY <1>5, <2>2, LookupIsIn
  <1> QED
    BY <1>3, <1>4, <1>5

\* hashmap_remove_item makes reads of its key miss and changes no other read.
LEMMA RemoveEffect ==
  ASSUME IInv, NEW k \in Key, RemoveItem(k)
  PROVE  \A m \in Key : Lookup(m)' = IF m = k THEN NULL ELSE Lookup(m)
  <1> DEFINE b == BucketOf(k)
             s == Chain(k)
             p == Position(k)
  <1>1. b \in 0 .. NumBuckets - 1 /\ buckets[b] = s
    BY BucketInRange DEF Chain
  <1>2. s \in Seq(Item) /\ GoodChain(b, s)
    BY Search
  <1>3. CASE p = 0
    <2>1. buckets' = buckets
      BY <1>3 DEF RemoveItem
    <2>2. \A m \in Key : Chain(m)' = Chain(m)
      BY <2>1 DEF Chain, BucketOf
    <2>3. Lookup(k) = NULL
      BY <1>3 DEF Lookup
    <2> QED
      BY <2>2, <2>3, LookupIsIn
  <1>4. CASE p # 0
    <2> DEFINE t == RemoveAt(s, p)
               old(i) == IF i < p THEN i ELSE i + 1
    <2>1. buckets' = [buckets EXCEPT ![b] = t]
      BY <1>1, <1>4 DEF RemoveItem
    <2>2. p \in DOMAIN s /\ s[p].key = k
      BY <1>4, Search
    <2>3. t \in Seq(Item) /\ GoodChain(b, t)
      BY <1>1, <1>2, <2>2, RemoveGood
    <2>4. /\ Len(t) = Len(s) - 1
          /\ \A i \in 1 .. Len(s) - 1 : t[i] = IF i < p THEN s[i] ELSE s[i + 1]
      <3>1. p \in 1 .. Len(s)
        BY <1>2, <2>2
      <3> QED
        BY <1>2, <3>1, RemoveAtFacts
    <2> HIDE DEF t, p, s, b
    <2>5. \A i \in DOMAIN t : old(i) \in DOMAIN s /\ old(i) # p /\ t[i] = s[old(i)]
      BY <1>2, <2>2, <2>3, <2>4
    <2>6. \A j \in DOMAIN s : j # p => \E i \in DOMAIN t : t[i] = s[j]
      <3> SUFFICES ASSUME NEW j \in DOMAIN s, j # p PROVE \E i \in DOMAIN t : t[i] = s[j]
        OBVIOUS
      <3>1. CASE j < p
        BY <1>2, <2>2, <2>3, <2>4, <3>1
      <3>2. CASE j > p
        <4>1. j - 1 \in 1 .. Len(s) - 1 /\ ~(j - 1 < p) /\ (j - 1) + 1 = j
          BY <1>2, <2>2, <3>2
        <4> QED
          BY <2>3, <2>4, <4>1
      <3> QED
        BY <1>2, <2>2, <3>1, <3>2
    <2> HIDE DEF old
    <2>7. ASSUME NEW m \in Key
          PROVE  LookupIn(t, m) = IF m = k THEN NULL ELSE LookupIn(s, m)
      <3>1. CASE m = k
        <4>1. \A i \in DOMAIN t : t[i].key # k
          BY <1>2, <2>2, <2>5 DEF GoodChain
        <4> QED
          BY <2>3, <3>1, <4>1, LookupFinds
      <3>2. CASE m # k /\ \E i \in DOMAIN s : s[i].key = m
        <4>1. PICK j \in DOMAIN s : s[j].key = m
          BY <3>2
        <4>2. PICK i \in DOMAIN t : t[i] = s[j]
          BY <2>2, <2>6, <3>2, <4>1
        <4> QED
          BY <1>2, <2>3, <3>2, <4>1, <4>2, LookupFinds
      <3>3. CASE m # k /\ \A i \in DOMAIN s : s[i].key # m
        BY <1>2, <2>3, <2>5, <3>3, LookupFinds
      <3> QED
        BY <3>1, <3>2, <3>3
    <2>8. buckets' = [buckets EXCEPT ![BucketOf(k)] = t]
      BY <2>1 DEF b
    <2>9. ASSUME NEW m \in Key
          PROVE  Lookup(m)' = IF m = k THEN NULL ELSE Lookup(m)
      BY <2>7, <2>8, ReadsFollow DEF s
    <2> QED
      BY <2>9
  <1> QED
    BY <1>3, <1>4

-----------------------------------------------------------------------------
(* num_items, and the key/value store.                                     *)

LEMMA UpdateKeepsCount ==
  ASSUME IInv, IInv', ItemCount, NEW k \in Key, NEW d \in Data \union {NULL},
         UpdateItem(k, d)
  PROVE  ItemCount'
  <1>1. \A m \in Key : Lookup(m)' = IF m = k /\ d # NULL THEN d ELSE Lookup(m)
    BY UpdateEffect
  <1>2. Position(k) = 0 <=> k \notin Stored
    BY DEF Stored
  <1>3. Stored' = IF d = NULL THEN Stored ELSE Stored \union {k}
    BY <1>1, StoredIsFound
  <1>4. IsFiniteSet(Stored) /\ num_items = Cardinality(Stored)
    BY DEF ItemCount
  <1>5. num_items' = IF d # NULL /\ k \notin Stored THEN num_items + 1 ELSE num_items
    BY <1>2 DEF UpdateItem
  <1>6. /\ IsFiniteSet(Stored \union {k})
        /\ Cardinality(Stored \union {k}) =
             IF k \in Stored THEN Cardinality(Stored) ELSE Cardinality(Stored) + 1
    BY <1>4, FS_AddElement
  <1>7. IsFiniteSet(Stored') /\ num_items' = Cardinality(Stored')
    BY <1>3, <1>4, <1>5, <1>6
  <1> QED
    BY <1>7 DEF ItemCount

LEMMA RemoveKeepsCount ==
  ASSUME IInv, IInv', ItemCount, NEW k \in Key, RemoveItem(k)
  PROVE  ItemCount'
  <1>1. \A m \in Key : Lookup(m)' = IF m = k THEN NULL ELSE Lookup(m)
    BY RemoveEffect
  <1>2. Position(k) = 0 <=> k \notin Stored
    BY DEF Stored
  <1>3. Stored' = Stored \ {k}
    BY <1>1, StoredIsFound
  <1>4. IsFiniteSet(Stored) /\ num_items = Cardinality(Stored)
    BY DEF ItemCount
  <1>5. num_items' = IF k \in Stored THEN num_items - 1 ELSE num_items
    BY <1>2 DEF RemoveItem
  <1>6. /\ IsFiniteSet(Stored \ {k})
        /\ Cardinality(Stored \ {k}) =
             IF k \in Stored THEN Cardinality(Stored) - 1 ELSE Cardinality(Stored)
    BY <1>4, FS_RemoveElement
  <1>7. IsFiniteSet(Stored') /\ num_items' = Cardinality(Stored')
    BY <1>3, <1>4, <1>5, <1>6
  <1> QED
    BY <1>7 DEF ItemCount

\* num_items is always the number of keys a read finds.
THEOREM CountExact == Spec => []ItemCount
  <1>1. Init => IInv /\ ItemCount
    <2> SUFFICES ASSUME Init PROVE IInv /\ ItemCount
      OBVIOUS
    <2>1. IInv
      BY DEF Init, IInv, TypeOK, ChainIntegrity, BucketOf
    <2>2. \A k \in Key : Matches(k) = {}
      BY BucketInRange DEF Init, Matches, Chain
    <2>3. Stored = {}
      BY <2>2 DEF Stored, Position
    <2>4. IsFiniteSet(Stored) /\ Cardinality(Stored) = 0
      BY <2>3, FS_EmptySet
    <2> QED
      BY <2>1, <2>4 DEF ItemCount, Init
  <1>2. IInv /\ IInv' /\ ItemCount /\ [Next]_vars => ItemCount'
    <2> SUFFICES ASSUME IInv, IInv', ItemCount, [Next]_vars PROVE ItemCount'
      OBVIOUS
    <2>1. ASSUME NEW k \in Key, NEW d \in Data \union {NULL}, UpdateItem(k, d) PROVE ItemCount'
      BY <2>1, UpdateKeepsCount
    <2>2. ASSUME NEW k \in Key, RemoveItem(k) PROVE ItemCount'
      BY <2>2, RemoveKeepsCount
    <2>3. CASE UNCHANGED vars
      BY <2>3 DEF vars, ItemCount, Stored, Position, Matches, Chain, BucketOf
    <2> QED
      BY <2>1, <2>2, <2>3 DEF Next
  <1> QED
    BY <1>1, <1>2, Intact, PTL DEF Spec

\* MapSound holds always: in every order of calls, and whatever keys collide, the
\* chains stay intact and num_items counts the keys a read finds.
THEOREM StaysSound == Spec => []MapSound
  BY ChainsStayIntact, CountExact, PTL DEF MapSound

\* Each call is the store's: reading, storing and removing.
LEMMA UpdateIsPutOrGet ==
  ASSUME IInv, NEW k \in Key, NEW d \in Data \union {NULL}, UpdateItem(k, d)
  PROVE  IF d = NULL THEN Store!Get(k) ELSE Store!Put(k, d)
  <1> DEFINE dict == [m \in Key |-> Lookup(m)]
  <1>1. \A m \in Key : Lookup(m)' = IF m = k /\ d # NULL THEN d ELSE Lookup(m)
    BY UpdateEffect
  <1>2. dict' = IF d = NULL THEN dict ELSE [dict EXCEPT ![k] = d]
    BY <1>1
  <1>3. ret' = dict[k]
    BY DEF UpdateItem
  <1> QED
    BY <1>2, <1>3 DEF Store!Get, Store!Put

LEMMA RemoveIsRemove ==
  ASSUME IInv, NEW k \in Key, RemoveItem(k)
  PROVE  Store!Remove(k)
  <1> DEFINE dict == [m \in Key |-> Lookup(m)]
  <1>1. \A m \in Key : Lookup(m)' = IF m = k THEN NULL ELSE Lookup(m)
    BY RemoveEffect
  <1>2. dict' = [dict EXCEPT ![k] = NULL]
    BY <1>1
  <1>3. ret' = FALSE
    BY DEF RemoveItem
  <1> QED
    BY <1>2, <1>3 DEF Store!Remove

\* hashmap.c implements the key/value store, effect and result of every call, for any keys,
\* hashes and number of buckets: updates and reads are as hashmap.h promises; a removal
\* takes its key out and says false whether it was there or not, which hashmap.h:46 does
\* not promise.
THEOREM Implements == Spec => ImplementsStore
  <1>1. Init => Store!Init
    <2> SUFFICES ASSUME Init PROVE Store!Init
      OBVIOUS
    <2>1. \A k \in Key : Matches(k) = {}
      BY BucketInRange DEF Init, Matches, Chain
    <2>2. \A k \in Key : Lookup(k) = NULL
      BY <2>1 DEF Lookup, Position
    <2> QED
      BY <2>2 DEF Init, Store!Init
  <1>2. IInv /\ [Next]_vars => [Store!Next]_(Store!vars)
    <2> SUFFICES ASSUME IInv, [Next]_vars PROVE [Store!Next]_(Store!vars)
      OBVIOUS
    <2>1. ASSUME NEW k \in Key, NEW d \in Data \union {NULL}, UpdateItem(k, d)
          PROVE  Store!Next
      <3>1. IF d = NULL THEN Store!Get(k) ELSE Store!Put(k, d)
        BY <2>1, UpdateIsPutOrGet
      <3> QED
        BY <3>1 DEF Store!Next
    <2>2. ASSUME NEW k \in Key, RemoveItem(k) PROVE Store!Next
      <3>1. Store!Remove(k)
        BY <2>2, RemoveIsRemove
      <3> QED
        BY <3>1 DEF Store!Next
    <2>3. CASE UNCHANGED vars
      <3>1. \A k \in Key : Lookup(k)' = Lookup(k)
        BY <2>3 DEF vars, Lookup, Position, Matches, Chain, BucketOf
      <3> QED
        BY <2>3, <3>1 DEF vars, Store!vars
    <2> QED
      BY <2>1, <2>2, <2>3 DEF Next
  <1> QED
    BY <1>1, <1>2, Intact, PTL DEF Spec, ImplementsStore, Store!Spec
=============================================================================

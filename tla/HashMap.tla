------------------------------- MODULE HashMap -------------------------------
(***************************************************************************)
(* src/core/hashmap.c: the chained hash map behind the plot tables.        *)
(*                                                                         *)
(* A bucket's chain is the sequence of the items its next pointers link;   *)
(* a splice of the list is the sequence operation it performs.  The prev   *)
(* pointer is written on insertion and read nowhere, so it is left out.    *)
(* HashOf stands for hash(): any assignment of hashes to keys, collisions  *)
(* included.  One module instance is one hashmap_t.                        *)
(***************************************************************************)
EXTENDS Integers, FiniteSets, SequencesExt

CONSTANTS Key,         \* the strings used as keys
          Data,        \* the non-NULL data pointers
          NULL,
          NumBuckets,  \* 1 << num_buckets_log
          HashOf       \* hash(key), for each key

ASSUME HashMapAssumption ==
  /\ NULL \notin Data /\ (Data \union {NULL}) \intersect BOOLEAN = {}
  /\ NumBuckets \in Nat \ {0}
  /\ HashOf \in [Key -> Nat]

VARIABLES buckets,    \* map->buckets: bucket index -> chain of items
          num_items,  \* map->num_items
          ret         \* the value the last call returned

vars == <<buckets, num_items, ret>>

Item == [key : Key, hash : Nat, data : Data]

\* The bucket a key falls in: its hash's low bits.
BucketOf(k) == HashOf[k] % NumBuckets

Chain(k) == buckets[BucketOf(k)]

-----------------------------------------------------------------------------
(* The search loop shared by update and remove.                            *)

\* Mutant: the loop looks at the head of the chain only.
MatchesHeadOnly(k) ==
  {i \in DOMAIN Chain(k) : i = 1 /\ Chain(k)[i].hash = HashOf[k] /\ Chain(k)[i].key = k}

\* Mutant: the hashes are compared, the keys are not.
MatchesHashOnly(k) == {i \in DOMAIN Chain(k) : Chain(k)[i].hash = HashOf[k]}

Matches(k) ==
  {i \in DOMAIN Chain(k) : Chain(k)[i].hash = HashOf[k] /\ Chain(k)[i].key = k}

\* The position in the chain where the loop stops, 0 when it runs off the end.
Position(k) == IF Matches(k) = {} THEN 0 ELSE Min(Matches(k))

\* The data stored under a key: what a read returns.
Lookup(k) == IF Position(k) = 0 THEN NULL ELSE Chain(k)[Position(k)].data

-----------------------------------------------------------------------------
Init ==
  /\ buckets = [b \in 0 .. NumBuckets - 1 |-> <<>>]
  /\ num_items = 0
  /\ ret = NULL

\* Mutant: a read that misses stores its NULL.
UpdateItemStoresNull(k, d) ==
  LET b == BucketOf(k)
      i == Position(k)
  IN  /\ ret' = Lookup(k)
      /\ IF i = 0
         THEN /\ buckets' = [buckets EXCEPT ![b] =
                               Append(@, [key |-> k, hash |-> HashOf[k], data |-> d])]
              /\ num_items' = num_items + 1
         ELSE /\ buckets' = [buckets EXCEPT ![b][i].data = IF d = NULL THEN @ ELSE d]
              /\ UNCHANGED num_items

\* hashmap_update_item.  NULL data makes it a read: a miss stores nothing
\* and a hit keeps the old data.
UpdateItem(k, d) ==
  LET b == BucketOf(k)
      i == Position(k)
  IN  /\ ret' = Lookup(k)
      /\ \/ /\ i = 0 /\ d # NULL
            /\ buckets' = [buckets EXCEPT ![b] =
                             Append(@, [key |-> k, hash |-> HashOf[k], data |-> d])]
            /\ num_items' = num_items + 1
         \/ /\ i # 0 /\ d # NULL
            /\ buckets' = [buckets EXCEPT ![b][i].data = d]
            /\ UNCHANGED num_items
         \/ /\ d = NULL
            /\ UNCHANGED <<buckets, num_items>>

\* hashmap_remove_item.  It returns false on a miss, and after a removal
\* NULL, which a bool holds as false.
RemoveItem(k) ==
  /\ ret' = FALSE
  /\ IF Position(k) = 0
     THEN UNCHANGED <<buckets, num_items>>
     ELSE /\ buckets' = [buckets EXCEPT ![BucketOf(k)] = RemoveAt(@, Position(k))]
          /\ num_items' = num_items - 1

Next == \E k \in Key :
  \/ \E d \in Data \union {NULL} : UpdateItem(k, d)
  \/ RemoveItem(k)

Spec == Init /\ [][Next]_vars

-----------------------------------------------------------------------------
TypeOK ==
  /\ buckets \in [0 .. NumBuckets - 1 -> Seq(Item)]
  /\ num_items \in Int
  /\ ret \in Data \union {NULL} \union BOOLEAN

\* Every item sits in its key's bucket under its key's hash, and no chain
\* holds a key twice: otherwise the search loop would miss an item, or a
\* removal would bring an older value of the key back.
ChainIntegrity ==
  \A b \in DOMAIN buckets : \A i \in DOMAIN buckets[b] :
    /\ BucketOf(buckets[b][i].key) = b
    /\ buckets[b][i].hash = HashOf[buckets[b][i].key]
    /\ \A j \in DOMAIN buckets[b] : buckets[b][i].key = buckets[b][j].key => i = j

\* The keys a read finds.
Stored == {k \in Key : Position(k) # 0}

\* num_items counts exactly the keys a read finds, whatever sequence of
\* inserts, overwrites and removals came before.
ItemCount == IsFiniteSet(Stored) /\ num_items = Cardinality(Stored)

\* The map is sound: its chains are, and its count is that of what they hold.
MapSound == ChainIntegrity /\ ItemCount

Store == INSTANCE KVStore WITH dict <- [k \in Key |-> Lookup(k)]

\* The map implements the key/value store: a call changes what that store's call does and
\* returns what it returns, and every other key is left alone, colliding or not.  A
\* removal returns false whatever it found (hashmap.c:132), where hashmap.h:46 promises
\* "true if the item was found and removed": the store has the code's answer.
ImplementsStore == Store!Spec
=============================================================================

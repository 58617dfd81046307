-------------------------------- MODULE Codec --------------------------------
(***************************************************************************)
(* The conversions of network_utils.c and coretypes.c: what the fields of  *)
(* a packet are on the wire, how they are read back, UUIDs and NBT trees.  *)
(* Bytes are 0 .. 255 and a buffer is a sequence of them; a position in it *)
(* counts the bytes before it.                                             *)
(***************************************************************************)
EXTENDS Integers, SequencesExt

CONSTANT MaxLevels  \* bound: the levels of an NBT tree

ASSUME CodecAssumption == MaxLevels \in Nat

Byte == 0 .. 255

MaxInt == 2147483647  \* of an int

\* What a loop has made of x after each of its rounds; step[k] is round k.
Iterated(step, x) ==
  LET after[k \in Nat] == IF k = 0 THEN x ELSE step[k][after[k - 1]]
  IN  after

\* The first parts, one behind the other, and all of them.
JoinedUpTo(parts) ==
  Iterated([k \in Nat |-> [bytes \in Seq(Byte) |-> bytes \o parts[k]]], <<>>)

Joined(parts) == JoinedUpTo(parts)[Len(parts)]

\* v >> n digits of the base, arithmetically.
Shifted(v, base, n) == Iterated([k \in Nat |-> [x \in Int |-> x \div base]], v)[n]

\* The number that the digits make, the high one first, behind those of top.
Number(base, top, digits) ==
  Iterated([k \in Nat |-> [x \in Int |-> (base * x) + digits[k]]], top)[Len(digits)]

\* The n bytes of a buffer from a position; zeros stand for what lies behind it.
BytesAt(data, at, n) ==
  [k \in 1 .. n |-> IF at + k <= Len(data) THEN data[at + k] ELSE 0]

Reversed(s) == [k \in 1 .. Len(s) |-> s[Len(s) + 1 - k]]

-----------------------------------------------------------------------------
(* VarInts, for values from 0 up, the only ones written.                   *)

\* Mutant: a group of exactly 128 does not say that more follows.
VarintOffByOne(value) ==
  LET n == CHOOSE m \in 1 .. 5 :
             /\ Shifted(value, 128, m) = 0
             /\ \A k \in 1 .. m - 1 : Shifted(value, 128, k) # 0
  IN  [k \in 1 .. n |->
         (Shifted(value, 128, k - 1) % 128)
         + (IF Shifted(value, 128, k - 1) > 128 THEN 128 ELSE 0)]

\* write_varint_to_buf: seven bits at a time, the low ones first, the top bit set
\* while more follow.
Varint(value) ==
  LET n == CHOOSE m \in 1 .. 5 :
             /\ Shifted(value, 128, m) = 0
             /\ \A k \in 1 .. m - 1 : Shifted(value, 128, k) # 0
  IN  [k \in 1 .. n |-> (Shifted(value, 128, k - 1) % 128) + (IF k < n THEN 128 ELSE 0)]

\* mcsock_read_varint: the value, and the position after it.
ReadVarint(data, at) ==
  LET bytes == BytesAt(data, at, 5)
      n == CHOOSE m \in 1 .. 5 :
             /\ m = 5 \/ bytes[m] < 128
             /\ \A k \in 1 .. m - 1 : bytes[k] >= 128
  IN  <<Number(128, 0, Reversed([k \in 1 .. n |-> bytes[k] % 128])), at + n>>

-----------------------------------------------------------------------------
(* Integers of 1, 2, 4 and 8 bytes.                                        *)

\* The integers that a signed type of n bytes holds, and an unsigned one.
IsSigned(v, n) == v \in Int /\ Shifted(v, 256, n - 1) \in -128 .. 127
IsUnsigned(v, n) == v \in Nat /\ Shifted(v, 256, n) = 0

\* mcsock_write_byte, short, int, long: the high byte first.
BigEndian(v, n) == [k \in 1 .. n |-> Shifted(v, 256, n - k) % 256]

\* mcsock_read_ushort and the like.
Unsigned(bytes) == Number(256, 0, bytes)

\* mcsock_read_short and the like: cast to a signed type of that size.
Signed(bytes) ==
  Number(256, IF bytes[1] < 128 THEN bytes[1] ELSE bytes[1] - 256, Tail(bytes))

-----------------------------------------------------------------------------
(* UUIDs.  A word is its two halves, a UUID in memory the sixteen bytes of  *)
(* four words, the last word lowest, each low byte first.  Text is a        *)
(* sequence of hexadecimal digits and hyphens.                              *)

Hyphen == 16
Digit == 0 .. 15

WordBytes(w) == BigEndian(w[1], 2) \o BigEndian(w[2], 2)

set_uuid_from_uint32(a, b, c, d) ==
  Reversed(WordBytes(a) \o WordBytes(b) \o WordBytes(c) \o WordBytes(d))

\* mcsock_write_uuid: the bytes in memory, the highest first.
UuidBytes(uuid) == [k \in 1 .. 16 |-> uuid[17 - k]]

\* The digits from a position to the next hyphen or the end of the text.
DigitsAt(str, at) ==
  LET n == CHOOSE k \in 0 .. Len(str) - at :
             /\ at + k = Len(str) \/ str[at + k + 1] = Hyphen
             /\ \A j \in 1 .. k : str[at + j] # Hyphen
  IN  SubSeq(str, at + 1, at + n)

\* strtol in base 16, to which a hyphen is a sign.
Strtol(str, at) ==
  IF str[at + 1] = Hyphen
  THEN -Number(16, 0, DigitsAt(str, at + 1))
  ELSE Number(16, 0, DigitsAt(str, at))

\* What is left of it in a uint32_t: the last eight digits.
StrtolWord(str, at) ==
  LET digits == DigitsAt(str, at)
      n == Len(digits)
  IN  <<Number(16, 0, SubSeq(digits, n - 7, n - 4)), Number(16, 0, SubSeq(digits, n - 3, n))>>

\* (hi << 16) + lo in a uint32_t, for a lo of 16 bits.
Combine(hi, lo) == <<hi % 65536, lo>>

\* The fourth group is read from the hyphen before it, the last word from a digit
\* that is not its own and that 32 bits have no room for.
string_to_uuid(str) ==
  set_uuid_from_uint32(
    StrtolWord(str, 0),
    Combine(Strtol(str, 9), Strtol(str, 14)),
    Combine(Strtol(str, 18), Strtol(SubSeq(str, 25, 28), 0)),
    StrtolWord(str, 27))

\* The 32 digits of the session server's response, with hyphens put in.
FormatResponse(id) ==
  [k \in 1 .. 36 |->
     CASE k \in {9, 14, 19, 24} -> Hyphen
       [] k < 9 -> id[k]
       [] k \in 10 .. 13 -> id[k - 1]
       [] k \in 15 .. 18 -> id[k - 2]
       [] k \in 20 .. 23 -> id[k - 3]
       [] k > 24 -> id[k - 4]]

-----------------------------------------------------------------------------
(* NBT trees.  A named node is a record [type, name, value].  The value of  *)
(* a list has the type of its items, which have no names, and the items; an *)
(* array's is its items, a compound's the named nodes in it.                *)

TAG_Byte == 1
TAG_Short == 2
TAG_Int == 3
TAG_Long == 4
TAG_Byte_Array == 7
TAG_String == 8
TAG_List == 9
TAG_Compound == 10
TAG_Int_Array == 11
TAG_Long_Array == 12

Types == (1 .. 4) \union (7 .. 12)

\* The bytes of TAG_Byte to TAG_Long.
Size == <<1, 2, 4, 8>>

\* C strings, whose length n bytes hold; there are no zeros in them.
Text(n) == {s \in Seq(Byte \ {0}) : IsUnsigned(Len(s), n)}

\* Any number of things that four bytes hold.
Items(S) == {s \in Seq(S) : IsUnsigned(Len(s), 4)}

\* The lists and the named nodes over the values of the levels below.
ListsOver(below) ==
  LET Of(type) == {type} \X Items(below[type])
  IN  Of(TAG_Byte) \union Of(TAG_Short) \union Of(TAG_Int) \union Of(TAG_Long)
      \union Of(TAG_Byte_Array) \union Of(TAG_String) \union Of(TAG_List)
      \union Of(TAG_Compound) \union Of(TAG_Int_Array) \union Of(TAG_Long_Array)

NodesOver(below) ==
  LET Of(type) == [type : {type}, name : Text(2), value : below[type]]
  IN  Of(TAG_Byte) \union Of(TAG_Short) \union Of(TAG_Int) \union Of(TAG_Long)
      \union Of(TAG_Byte_Array) \union Of(TAG_String) \union Of(TAG_List)
      \union Of(TAG_Compound) \union Of(TAG_Int_Array) \union Of(TAG_Long_Array)

\* The values of each type.
ValuesOver(below) ==
  [type \in Types |->
     CASE type \in 1 .. 4 -> {v \in Int : IsSigned(v, Size[type])}
       [] type = TAG_String -> Text(2)
       [] type = TAG_Byte_Array -> Items(Byte)
       [] type = TAG_List -> ListsOver(below)
       [] type = TAG_Int_Array -> Items(below[TAG_Int])
       [] type = TAG_Long_Array -> Items(below[TAG_Long])
       [] type = TAG_Compound -> Seq(NodesOver(below))]

Values[level \in Nat] ==
  IF level = 0 THEN [type \in Types |-> {}] ELSE ValuesOver(Values[level - 1])

\* A node's type and name, and the bytes of its value.
Named(node, below) ==
  <<node.type>> \o BigEndian(Len(node.name), 2) \o node.name \o below[node.type][node.value]

\* The bytes of the items of an array or a list.
ItemBytes(type, items, below) ==
  BigEndian(Len(items), 4) \o Joined([k \in DOMAIN items |-> below[type][items[k]]])

\* The bytes of a value, over those of the values in it.
Payload(type, value, below) ==
  CASE type \in 1 .. 4 -> BigEndian(value, Size[type])
    [] type = TAG_String -> BigEndian(Len(value), 2) \o value
    [] type = TAG_Byte_Array -> BigEndian(Len(value), 4) \o value
    [] type = TAG_List -> <<value[1]>> \o ItemBytes(value[1], value[2], below)
    [] type = TAG_Int_Array -> ItemBytes(TAG_Int, value, below)
    [] type = TAG_Long_Array -> ItemBytes(TAG_Long, value, below)
    [] type = TAG_Compound -> Joined([k \in DOMAIN value |-> Named(value[k], below)]) \o <<0>>

PayloadsOver(values, below) ==
  [type \in Types |-> [value \in values[type] |-> Payload(type, value, below)]]

Payloads[level \in Nat] ==
  IF level = 0 THEN <<>> ELSE PayloadsOver(Values[level], Payloads[level - 1])

\* A named node with all that is in it.
serialize_nbt(node) == Named(node, Payloads[MaxLevels])

-----------------------------------------------------------------------------
(* What a client makes of the sixteen bytes of a UUID.                     *)

\* The digits of bytes, the high one of each first.
HexDigits(bytes) ==
  FoldLeft(LAMBDA s, b : s \o <<b \div 16, b % 16>>, <<>>, bytes)
=============================================================================

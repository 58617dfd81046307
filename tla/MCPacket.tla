------------------------------ MODULE MCPacket ------------------------------
(* Packets of a few fields, with the values at which an encoding changes.  *)
EXTENDS Packet

Letters(n) == [k \in 1 .. n |-> 97 + (k % 26)]

Node(type, name, value) == [type |-> type, name |-> name, value |-> value]

\* A tree like the dimension codec of handler.c: compounds in a list in a compound,
\* and beside them a node of every other type.
Tree ==
  Node(TAG_Compound, <<>>, <<
    Node(TAG_List, Letters(5), <<TAG_Compound, <<
      <<Node(TAG_Byte, Letters(2), -1)>>,
      <<>> >> >>),
    Node(TAG_Compound, Letters(1), <<Node(TAG_String, Letters(3), Letters(2))>>),
    Node(TAG_Short, Letters(1), -300),
    Node(TAG_Long, Letters(1), 100000),
    Node(TAG_Byte_Array, Letters(1), <<0, 255>>),
    Node(TAG_Long_Array, Letters(1), <<5, -5>>),
    Node(TAG_Int_Array, <<>>, <<>>),
    Node(TAG_Int, Letters(4), -2147483647)>>)

Uuid == [k \in 1 .. 32 |-> k % 16]

Field(kind, value) == [kind |-> kind, value |-> value]

MCFields == <<
  Field("bool", 1),
  Field("byte", -128),
  Field("ushort", 65535),
  Field("short", -2),
  Field("int", -2147483647),
  Field("long", -129),
  Field("varint", 127),
  Field("varint", 128),
  Field("varint", 16384),
  Field("varint", 2147483647),
  Field("string", <<>>),
  Field("string", Letters(125)),
  Field("string", Letters(128)),
  Field("byte_array", <<0, 128, 255>>),
  Field("uuid", Uuid),
  Field("nbt", Tree)>>
=============================================================================

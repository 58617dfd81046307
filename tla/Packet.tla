------------------------------- MODULE Packet -------------------------------
(***************************************************************************)
(* Packets of network_utils.c: a packet's fields are written into a buffer *)
(* that grows, the packet is framed, encrypted if the connection is, and   *)
(* written in three pieces; at the other end it is received, whole or not, *)
(* and its fields are read in the order of the protocol.  The other end is *)
(* taken to do what packet_recv and the mcsock_read functions do.          *)
(***************************************************************************)
EXTENDS Codec

CONSTANTS InitSize,    \* init_buf_size of new_packet: 2048, 64
          Fields,      \* bound: the fields that may be written, a sequence of
                       \* [kind, value]
          PacketIds,   \* bound: the packet ids
          MaxFields,   \* bound: fields written, into all packets
          MaxPackets,  \* bound: packets sent
          MaxBytes,    \* bound: bytes of a packet's data
          Cuts,        \* bound: how many bytes read may return where more are there
          NULL         \* no packet

\* What the kinds of fields hold.
IsField(field) ==
  LET v == field.value
  IN  CASE field.kind = "bool" -> v \in {0, 1}
        [] field.kind = "ubyte" -> IsUnsigned(v, 1)
        [] field.kind = "byte" -> IsSigned(v, 1)
        [] field.kind = "ushort" -> IsUnsigned(v, 2)
        [] field.kind = "short" -> IsSigned(v, 2)
        [] field.kind = "int" -> IsSigned(v, 4)
        [] field.kind = "long" -> IsSigned(v, 8)
        [] field.kind = "varint" -> v \in 0 .. MaxInt
        [] field.kind = "string" -> v \in Seq(Byte) /\ Len(v) <= MaxInt
        [] field.kind = "byte_array" -> v \in Seq(Byte)
        [] field.kind = "uuid" -> v \in Seq(Digit) /\ Len(v) = 32
        [] field.kind = "nbt" -> v \in NodesOver(Values[MaxLevels])
        [] OTHER -> FALSE

ASSUME PacketAssumption ==
  /\ InitSize \in Nat \ {0} /\ PacketIds \subseteq 0 .. MaxInt
  /\ MaxFields \in Nat /\ MaxPackets \in Nat
  /\ MaxBytes \in Nat /\ MaxBytes + 5 <= MaxInt /\ Cuts \subseteq Nat
  /\ \A k \in DOMAIN Fields : IsField(Fields[k])
  /\ NULL \notin [packet_id : Int, data : Seq(Byte), data_length : Int]
  /\ NULL \notin [packet_id : Int, data : Seq(Byte), data_ptr : Int]

VARIABLES packet,      \* the packet being written: its id, its data up to
                       \* data_ptr and data_length, the size of its buffer
          fields,      \* history: the indices of the fields written into it
          encrypted,   \* of the connection, at both ends
          sealed,      \* how many bytes have been encrypted
          wire,        \* bytes of the packets sent, in order, and not received
          unwritten,   \* how many of them are in buffers that write has still to
                       \* be called with, before each call that is left
          opened,      \* how many bytes have been decrypted
          received,    \* the packet being read: its id, data and data_ptr
          read,        \* the values read from it
          missing,     \* how many of its bytes were not there to be read
          sent,        \* history: [id, fields] of packets sent and not read
          packets,     \* history: how many packets have been sent
          written      \* history: how many fields have been written

writer_vars == <<packet, fields>>
reader_vars == <<received, read>>
counters == <<packets, written>>
stream_vars == <<wire, unwritten, sealed, opened, missing>>
vars == <<writer_vars, encrypted, stream_vars, reader_vars, sent, counters>>

Init ==
  /\ packet = NULL /\ fields = <<>>
  /\ encrypted = FALSE /\ sealed = 0 /\ opened = 0
  /\ wire = <<>> /\ unwritten = <<>>
  /\ received = NULL /\ read = <<>> /\ missing = 0
  /\ sent = <<>> /\ packets = 0 /\ written = 0

-----------------------------------------------------------------------------
(* Writing.                                                                *)

\* Mutant: the buffer is doubled at most once.
GrownOnce(data_length, need) == IF need <= data_length THEN data_length ELSE 2 * data_length

\* The size after a number of rounds of data_length <<= 1.
Doubled(data_length, n) == Iterated([k \in Nat |-> [x \in Nat |-> 2 * x]], data_length)[n]

\* allocate_packet_space: the size is doubled until what is needed fits.
Grown(data_length, need) ==
  Doubled(data_length, CHOOSE n \in 0 .. 31 :
                         /\ need <= Doubled(data_length, n)
                         /\ \A k \in 0 .. n - 1 : need > Doubled(data_length, k))

\* What the mcsock_write function of a field's kind appends.
FieldBytes(field) ==
  LET v == field.value
  IN  CASE field.kind \in {"bool", "byte", "ubyte"} -> BigEndian(v, 1)
        [] field.kind \in {"short", "ushort"} -> BigEndian(v, 2)
        [] field.kind = "int" -> BigEndian(v, 4)
        [] field.kind = "long" -> BigEndian(v, 8)
        [] field.kind = "varint" -> Varint(v)
        [] field.kind = "string" -> Varint(Len(v)) \o v
        [] field.kind = "byte_array" -> v
        [] field.kind = "uuid" -> UuidBytes(string_to_uuid(FormatResponse(v)))
        [] field.kind = "nbt" -> serialize_nbt(v)

\* Space is made for bytes before they are copied.
Put(p, bytes) ==
  [p EXCEPT !.data = @ \o bytes,
            !.data_length = Grown(@, Len(p.data) + Len(bytes))]

\* A string's length and its characters are put one after the other.
Written(p, field) ==
  IF field.kind = "string"
  THEN Put(Put(p, Varint(Len(field.value))), field.value)
  ELSE Put(p, FieldBytes(field))

NewPacket(id) ==
  /\ packet = NULL /\ unwritten = <<>>
  /\ packets < MaxPackets
  /\ packet' = [packet_id |-> id, data |-> <<>>, data_length |-> InitSize]
  /\ fields' = <<>>
  /\ UNCHANGED <<encrypted, stream_vars, reader_vars, sent, counters>>

WriteField(k) ==
  /\ packet # NULL
  /\ written < MaxFields
  /\ Len(packet.data) + Len(FieldBytes(Fields[k])) <= MaxBytes
  /\ packet' = Written(packet, Fields[k])
  /\ fields' = Append(fields, k)
  /\ written' = written + 1
  /\ UNCHANGED <<encrypted, stream_vars, reader_vars, sent, packets>>

-----------------------------------------------------------------------------
(* Sending and receiving.                                                  *)

\* A stream cipher: what becomes of a byte depends on how many were before it.
Cipher(bytes, n) == [k \in DOMAIN bytes |-> (bytes[k] + n + k) % 256]
Decipher(bytes, n) == [k \in DOMAIN bytes |-> (bytes[k] - n - k) % 256]

\* packet_send: the length of what follows, the id and the data, encrypted in the
\* order they are sent in.
Frame(p) ==
  LET packid == Varint(p.packet_id)
      packlen == Varint(Len(packid) + Len(p.data))
  IN  IF encrypted
      THEN Cipher(packlen, sealed)
           \o Cipher(packid, sealed + Len(packlen))
           \o Cipher(p.data, sealed + Len(packlen) + Len(packid))
      ELSE packlen \o packid \o p.data

\* Before each of packet_send's three writes: what is still to be written.
Unwritten(p) ==
  LET packid_len == Len(Varint(p.packet_id))
  IN  <<Len(Frame(p)), packid_len + Len(p.data), Len(p.data)>>

\* Mutant: the cipher has passed over the data alone.
PacketSendUncounted ==
  /\ packet # NULL
  /\ wire' = wire \o Frame(packet)
  /\ unwritten' = Unwritten(packet)
  /\ sealed' = IF encrypted THEN sealed + Len(packet.data) ELSE sealed
  /\ sent' = Append(sent, [packet_id |-> packet.packet_id, fields |-> fields])
  /\ packets' = packets + 1
  /\ packet' = NULL
  /\ fields' = <<>>
  /\ UNCHANGED <<encrypted, opened, missing, reader_vars, written>>

\* packet_send up to its writes: all three buffers are encrypted.
PacketSend ==
  /\ packet # NULL
  /\ wire' = wire \o Frame(packet)
  /\ unwritten' = Unwritten(packet)
  /\ sealed' = IF encrypted THEN sealed + Len(Frame(packet)) ELSE sealed
  /\ sent' = Append(sent, [packet_id |-> packet.packet_id, fields |-> fields])
  /\ packets' = packets + 1
  /\ packet' = NULL
  /\ fields' = <<>>
  /\ UNCHANGED <<encrypted, opened, missing, reader_vars, written>>

\* A buffer is written: the length, then the id, then the data.
Write ==
  /\ unwritten # <<>>
  /\ unwritten' = Tail(unwritten)
  /\ UNCHANGED <<writer_vars, encrypted, wire, sealed, opened, missing, reader_vars, sent,
                 counters>>

\* How many bytes can be read.
Arrived == Len(wire) - (IF unwritten = <<>> THEN 0 ELSE Head(unwritten))

\* packet_recv: the length is decrypted byte by byte as it is read.  The rest is decrypted
\* in one piece of that length, though read returns with n bytes of it: any number of
\* those that are there, and it waits only for the first.  What malloc left in the other
\* bytes is taken to be decrypted to zeros.
PacketRecv ==
  LET Open(bytes, n) == IF encrypted THEN Decipher(bytes, n) ELSE bytes
      head == ReadVarint(Open(wire, opened), 0)
  IN  /\ received = NULL /\ missing = 0
      /\ Arrived > 0
      /\ \E n \in {head[1], Arrived - head[2]} \union Cuts :
           LET data == Open(BytesAt(wire, head[2], n), opened + head[2])
                       \o [k \in 1 .. head[1] - n |-> 0]
               id == ReadVarint(data, 0)
           IN  /\ n \in 1 .. head[1] /\ head[2] + n <= Arrived
               /\ received' = [packet_id |-> id[1], data |-> data, data_ptr |-> id[2]]
               /\ missing' = head[1] - n
               /\ wire' = SubSeq(wire, head[2] + n + 1, Len(wire))
      /\ read' = <<>>
      /\ opened' = IF encrypted THEN opened + (head[2] + head[1]) ELSE opened
      /\ UNCHANGED <<writer_vars, encrypted, unwritten, sealed, sent, counters>>

\* handle_play_758 sets it between two packets, and so does the client.
SetEncrypted ==
  /\ ~encrypted
  /\ packet = NULL /\ wire = <<>> /\ unwritten = <<>> /\ received = NULL /\ missing = 0
  /\ encrypted' = TRUE
  /\ UNCHANGED <<writer_vars, stream_vars, reader_vars, sent, counters>>

-----------------------------------------------------------------------------
(* Reading.  NBT and UUIDs are read by the client alone: by the format's    *)
(* definition.  A reader with a packet that was not all there is followed   *)
(* no further: it is out of step with the stream from then on.              *)

\* n values of a type one after the other, and the position after them; below[type][at]
\* is what a value at a position is read as, and the position after it.
NbtItems(type, n, at, below) ==
  LET ends == Iterated([k \in Nat |-> [p \in Nat |-> below[type][p][2]]], at)
  IN  <<[k \in 1 .. n |-> below[type][ends[k - 1]][1]], ends[n]>>

\* A named node, and the position after it.
NbtNamed(data, at, below) ==
  LET type == BytesAt(data, at, 1)[1]
      n == Unsigned(BytesAt(data, at + 1, 2))
      v == below[type][at + 3 + n]
  IN  <<[type |-> type, name |-> BytesAt(data, at + 3, n), value |-> v[1]], v[2]>>

\* Named nodes up to the end of their compound, and the position after it.
NbtMembers(data, at, below) ==
  LET ends == Iterated([k \in Nat |-> [p \in Nat |-> NbtNamed(data, p, below)[2]]], at)
      n == CHOOSE m \in 0 .. Len(data) :
             /\ BytesAt(data, ends[m], 1)[1] = 0
             /\ \A k \in 0 .. m - 1 : BytesAt(data, ends[k], 1)[1] # 0
  IN  <<[k \in 1 .. n |-> NbtNamed(data, ends[k - 1], below)[1]], ends[n] + 1>>

\* A value of a type, and the position after it, over the levels below.
NbtValue(data, type, at, below) ==
  LET n == Unsigned(BytesAt(data, at, 4))
      len == Unsigned(BytesAt(data, at, 2))
      content == BytesAt(data, at, 1)[1]
      items == NbtItems(content, Unsigned(BytesAt(data, at + 1, 4)), at + 5, below)
  IN  CASE type \in 1 .. 4 -> <<Signed(BytesAt(data, at, Size[type])), at + Size[type]>>
        [] type = TAG_String -> <<BytesAt(data, at + 2, len), at + 2 + len>>
        [] type = TAG_Byte_Array -> <<BytesAt(data, at + 4, n), at + 4 + n>>
        [] type = TAG_List -> <<<<content, items[1]>>, items[2]>>
        [] type = TAG_Int_Array -> NbtItems(TAG_Int, n, at + 4, below)
        [] type = TAG_Long_Array -> NbtItems(TAG_Long, n, at + 4, below)
        [] type = TAG_Compound -> NbtMembers(data, at, below)

NbtOver(data, below) ==
  [type \in Types |-> [at \in Nat |-> NbtValue(data, type, at, below)]]

NbtValues(data) ==
  LET values[level \in Nat] ==
        IF level = 0 THEN <<>> ELSE NbtOver(data, values[level - 1])
  IN  values

\* What is read for a field, and the position after it.
Reading(field, data, at) ==
  CASE field.kind \in {"bool", "ubyte"} -> <<Unsigned(BytesAt(data, at, 1)), at + 1>>
    [] field.kind = "byte" -> <<Signed(BytesAt(data, at, 1)), at + 1>>
    [] field.kind = "short" -> <<Signed(BytesAt(data, at, 2)), at + 2>>
    [] field.kind = "ushort" -> <<Unsigned(BytesAt(data, at, 2)), at + 2>>
    [] field.kind = "int" -> <<Signed(BytesAt(data, at, 4)), at + 4>>
    [] field.kind = "long" -> <<Signed(BytesAt(data, at, 8)), at + 8>>
    [] field.kind = "varint" -> ReadVarint(data, at)
    [] field.kind = "string" ->
         LET n == ReadVarint(data, at)
         IN  <<BytesAt(data, n[2], n[1]), n[2] + n[1]>>
    [] field.kind = "byte_array" ->
         <<BytesAt(data, at, Len(field.value)), at + Len(field.value)>>
    [] field.kind = "uuid" -> <<HexDigits(BytesAt(data, at, 16)), at + 16>>
    [] field.kind = "nbt" -> NbtNamed(data, at, NbtValues(data)[MaxLevels])

ReadField ==
  /\ received # NULL /\ missing = 0
  /\ Len(read) < Len(sent[1].fields)
  /\ LET field == Fields[sent[1].fields[Len(read) + 1]]
         r == Reading(field, received.data, received.data_ptr)
     IN  /\ read' = Append(read, r[1])
         /\ received' = [received EXCEPT !.data_ptr = r[2]]
  /\ UNCHANGED <<writer_vars, encrypted, stream_vars, sent, counters>>

FreePacket ==
  /\ received # NULL /\ missing = 0
  /\ Len(read) = Len(sent[1].fields)
  /\ received' = NULL
  /\ read' = <<>>
  /\ sent' = Tail(sent)
  /\ UNCHANGED <<writer_vars, encrypted, stream_vars, counters>>

Next ==
  \/ \E id \in PacketIds : NewPacket(id)
  \/ \E k \in DOMAIN Fields : WriteField(k)
  \/ PacketSend
  \/ Write
  \/ PacketRecv
  \/ SetEncrypted
  \/ ReadField
  \/ FreePacket

Spec == Init /\ [][Next]_vars

-----------------------------------------------------------------------------
(* Properties.                                                             *)

\* The variables have their types; a buffer's size is a doubled init_buf_size; the two
\* ciphers are as far apart as what has been sealed and not received, and the bytes that
\* were opened without being there.
TypeOK ==
  /\ \/ packet = NULL
     \/ /\ packet.packet_id \in PacketIds
        /\ packet.data \in Seq(Byte)
        /\ \E k \in 0 .. 31 : packet.data_length = Doubled(InitSize, k)
  /\ fields \in Seq(DOMAIN Fields)
  /\ encrypted \in BOOLEAN
  /\ wire \in Seq(Byte) /\ unwritten \in Seq(Nat) /\ missing \in Nat
  /\ opened \in Nat
  /\ encrypted => sealed + missing = opened + Len(wire)
  /\ ~encrypted => sealed = opened
  /\ \/ received = NULL \/ missing > 0
     \/ /\ received.packet_id \in PacketIds
        /\ received.data \in Seq(Byte)
        /\ received.data_ptr \in Nat
  /\ packets \in 0 .. MaxPackets /\ written \in 0 .. MaxFields

\* What has been written never reaches beyond the buffer, nor is the buffer doubled
\* more often than what has been written needs: allocate_packet_space is called
\* before every copy and with its size (network_utils.c:305).
Fits ==
  packet # NULL =>
    /\ Len(packet.data) <= packet.data_length
    /\ packet.data_length > InitSize => 2 * Len(packet.data) > packet.data_length

\* As long as every packet received was all there: the id and every field read are those
\* of the oldest packet not yet read, however the packets before it were framed, encrypted
\* and cut into writes; when all fields have been read they have used up the packet's
\* bytes, to the last one and no further; and no byte is left over when no packet is.
\* packet_recv does not make sure that they were: network_utils.c:75 has it return NULL
\* "if socket fetch fails", but it takes what one read of the body returns for the whole
\* (:89), and nothing holds from then on.  UUIDs are another matter.
ReadBack ==
  missing = 0 =>
    /\ received # NULL =>
         /\ received.packet_id = sent[1].packet_id
         /\ \A k \in DOMAIN read :
              LET field == Fields[sent[1].fields[k]]
              IN  field.kind # "uuid" => read[k] = field.value
         /\ Len(read) = Len(sent[1].fields) => received.data_ptr = Len(received.data)
    /\ sent = <<>> => wire = <<>>

\* The UUID that send_login_success tells the client is that of the session server's
\* response (handler.c:309, coretypes.c:46).
UuidReadBack ==
  received # NULL =>
    \A k \in DOMAIN read :
      LET field == Fields[sent[1].fields[k]]
      IN  field.kind = "uuid" => read[k] = field.value
=============================================================================

------------------------- MODULE NetworkMasterProofs -------------------------
(***************************************************************************)
(* The network master keeps its buffer exact, releases what a client owns  *)
(* once and after its last use, and answers no request twice, for any      *)
(* number of connections and any initial size of the buffer.               *)
(*                                                                         *)
(* The invariant IInv says in which order the clients came (so that a new  *)
(* one is in no entry yet), who is registered at each point of the scan    *)
(* and of the shutdown, that the buffer's size is one that doubling led to *)
(* (so that halving it is exact), whose resources may be released, and how *)
(* many halves of messages a client's pair socket may hold in each state   *)
(* of its thread, the one the master has read included.                    *)
(***************************************************************************)
EXTENDS NetworkMaster, SequenceTheorems, FiniteSetTheorems, TLAPS

\* Clients have been accepted in order.
Arrived == \E n \in 0 .. MaxClients : Accepted = 0 .. n - 1

\* The master has not left its loop.
Looping == pc \notin {"shutdown", "done"}

\* Who has an entry: all who came and are not joined; in the shutdown, those whose
\* entries the loop has passed are joined too.
Registered ==
  /\ IsInjective(ctb)
  /\ ToSet(ctb) \union joined = Accepted
  /\ Looping => ToSet(ctb) \intersect joined = {}
  /\ ~Looping => \A j \in DOMAIN ctb : j < i => ctb[j] \in joined
  /\ pc = "done" => i > Len(ctb)
  /\ pc \in {"join", "body"} => i <= Len(ctb)

\* The sizes that doubling leads to from the first: the least set with them.
Closed(T) == CTB_MIN_SIZE \in T /\ \A x \in T : 2 * x \in T
Sizes == {x \in Nat : \A T \in SUBSET Nat : Closed(T) => x \in T}

Sized == ctb_size \in Sizes /\ Len(ctb) <= ctb_size

\* What has been released, and who is past its last use of it.
Owned ==
  /\ \A c \in joined : thread[c] = "ended"
  /\ \A c \in freed : thread[c] \in {"exiting", "ended"}
  /\ \A j \in DOMAIN ctb : ctb[j] \in freed => pc = "join" /\ j = i
  /\ pc = "join" => Entry \in freed
  /\ \A c \in Client :
       closes[c] <= IF thread[c] \in {"flag", "exiting", "ended"} THEN 1 ELSE 0

\* The halves of messages between a client and the master, with the one the master
\* has read and not yet acted on, and how many there may be.
InHand(c) == IF pc = "body" /\ Entry = c THEN 1 ELSE 0
Asked(c) == Len(requests[c])
Answered(c) == Len(replies[c])
Halves(c) == Asked(c) + InHand(c) + Answered(c)
MostHalves(c) ==
  IF thread[c] = "send_body" THEN 1 ELSE IF thread[c] = "await_reply" THEN 2 ELSE 0

Paired ==
  \A c \in Client : Halves(c) <= MostHalves(c) /\ (Answered(c) = 0 \/ Answered(c) = 2)

IInv == TypeOK /\ Arrived /\ Registered /\ Sized /\ Owned /\ Paired

-----------------------------------------------------------------------------
(* Sequences without duplicates, intervals and sizes.                      *)

\* The clients are finitely many.
LEMMA ClientFinite == IsFiniteSet(Client) /\ Cardinality(Client) = MaxClients
  <1>1. 0 \in Int /\ MaxClients - 1 \in Int
    BY NetworkAssumption
  <1> QED
    BY <1>1, FS_Interval, NetworkAssumption DEF Client

\* The elements of a sequence are those at its indexes.
LEMMA InToSet ==
  ASSUME NEW S, NEW s \in Seq(S)
  PROVE  \A x : x \in ToSet(s) <=> \E j \in 1 .. Len(s) : s[j] = x
  BY DEF ToSet

\* A sequence of different clients is not longer than there are clients.
LEMMA InjectiveBounded ==
  ASSUME NEW s \in Seq(Client), IsInjective(s)
  PROVE  Len(s) <= MaxClients
  <1>1. s \in Injection(1 .. Len(s), Client)
    BY LenProperties DEF Injection
  <1>2. Cardinality(1 .. Len(s)) <= Cardinality(Client)
    BY <1>1, ClientFinite, FS_Injection
  <1>3. Len(s) \in Nat
    OBVIOUS
  <1>4. Cardinality(1 .. Len(s)) = Len(s)
    <2>1. PICK n \in Nat : n = Len(s)
      BY <1>3
    <2>2. Cardinality(1 .. n) = n
      BY FS_Interval
    <2> QED
      BY <2>1, <2>2
  <1> QED
    BY <1>2, <1>4, ClientFinite

\* A new element at the end.
LEMMA AppendNew ==
  ASSUME NEW S, NEW s \in Seq(S), NEW x \in S, IsInjective(s), x \notin ToSet(s)
  PROVE  /\ Append(s, x) \in Seq(S) /\ Len(Append(s, x)) = Len(s) + 1
         /\ IsInjective(Append(s, x)) /\ ToSet(Append(s, x)) = ToSet(s) \union {x}
  <1> DEFINE t == Append(s, x)
  <1>1. /\ t \in Seq(S) /\ Len(t) = Len(s) + 1 /\ Len(s) \in Nat
        /\ \A j \in 1 .. Len(s) : t[j] = s[j]
        /\ t[Len(s) + 1] = x
    BY AppendProperties
  <1>2. DOMAIN t = 1 .. Len(s) + 1 /\ DOMAIN s = 1 .. Len(s)
    BY <1>1
  <1> HIDE DEF t
  <1>3. \A j \in 1 .. Len(s) : s[j] # x
    BY InToSet
  <1>4. ASSUME NEW a \in DOMAIN t, NEW b \in DOMAIN t, t[a] = t[b]
        PROVE  a = b
    BY <1>1, <1>2, <1>3, <1>4 DEF IsInjective
  <1>5. ASSUME NEW y
        PROVE  y \in ToSet(t) <=> y \in ToSet(s) \union {x}
    BY <1>1, <1>2 DEF ToSet
  <1> QED
    BY <1>1, <1>4, <1>5 DEF IsInjective, t

\* The last element takes the place of one that is removed.
LEMMA SwapRemove ==
  ASSUME NEW S, NEW s \in Seq(S), NEW j \in 1 .. Len(s), IsInjective(s)
  PROVE  LET t == [Front(s) EXCEPT ![j] = Last(s)]
         IN  /\ t \in Seq(S) /\ Len(t) = Len(s) - 1
             /\ IsInjective(t) /\ ToSet(t) = ToSet(s) \ {s[j]}
  <1> DEFINE n == Len(s)
             t == [Front(s) EXCEPT ![j] = Last(s)]
  <1>1. n \in Nat /\ n >= 1 /\ DOMAIN s = 1 .. n /\ \A k \in 1 .. n : s[k] \in S
    OBVIOUS
  <1>2. Front(s) = SubSeq(s, 1, n - 1) /\ Last(s) = s[n]
    BY DEF Front, Last
  <1>3. /\ Front(s) \in Seq(S) /\ Len(Front(s)) = n - 1
        /\ \A k \in 1 .. n - 1 : Front(s)[k] = s[k]
    BY <1>1, <1>2, SubSeqProperties
  <1>4. Front(s) = [k \in 1 .. n - 1 |-> s[k]]
    BY <1>1, <1>3
  <1>5. t = [k \in 1 .. n - 1 |-> IF k = j THEN s[n] ELSE s[k]]
    BY <1>2, <1>4
  <1> HIDE DEF t
  <1>6. DOMAIN t = 1 .. n - 1 /\ \A k \in 1 .. n - 1 : t[k] = IF k = j THEN s[n] ELSE s[k]
    BY <1>5
  <1>7. j \in 1 .. n
    OBVIOUS
  <1> HIDE DEF n
  <1>8. t \in Seq(S) /\ Len(t) = n - 1
    <2>1. \A k \in 1 .. n - 1 : (IF k = j THEN s[n] ELSE s[k]) \in S
      BY <1>1
    <2>2. t \in [1 .. n - 1 -> S] /\ n - 1 \in Nat
      BY <1>1, <1>5, <2>1
    <2>3. t \in Seq(S)
      BY <2>2, SeqDef
    <2> QED
      BY <2>2, <2>3
  <1>9. IsInjective(t)
    BY <1>1, <1>6, <1>7 DEF IsInjective
  <1>10. ASSUME NEW y
         PROVE  y \in ToSet(t) <=> y \in ToSet(s) \ {s[j]}
    <2>1. ASSUME y \in ToSet(t) PROVE y \in ToSet(s) \ {s[j]}
      <3>1. PICK k \in 1 .. n - 1 : y = t[k]
        BY <1>6, <1>7, <2>1 DEF ToSet
      <3> QED
        BY <1>1, <1>6, <1>7, <3>1 DEF ToSet, IsInjective
    <2>2. ASSUME y \in ToSet(s), y # s[j] PROVE y \in ToSet(t)
      <3>1. PICK k \in 1 .. n : y = s[k]
        BY <1>1, <2>2 DEF ToSet
      <3>2. k # j
        BY <2>2, <3>1
      <3>3. CASE k = n
        <4>1. j \in DOMAIN t /\ t[j] = y
          BY <1>1, <1>6, <1>7, <3>1, <3>2, <3>3
        <4> QED
          BY <4>1 DEF ToSet
      <3>4. CASE k # n
        <4>1. k \in DOMAIN t /\ t[k] = y
          BY <1>1, <1>6, <1>7, <3>1, <3>2, <3>4
        <4> QED
          BY <4>1 DEF ToSet
      <3> QED
        BY <3>3, <3>4
    <2> QED
      BY <2>1, <2>2
  <1> QED
    BY <1>8, <1>9, <1>10 DEF t, n

\* What is left of a sequence without its first two elements.
LEMMA TwoLess ==
  ASSUME NEW S, NEW s \in Seq(S), Len(s) >= 2
  PROVE  Tail(Tail(s)) \in Seq(S) /\ Len(Tail(Tail(s))) = Len(s) - 2
  <1> DEFINE t == Tail(s)
  <1>1. s # <<>>
    OBVIOUS
  <1>2. t \in Seq(S) /\ Len(t) = Len(s) - 1 /\ Len(s) \in Nat
    BY <1>1, HeadTailProperties
  <1> HIDE DEF t
  <1>3. t # <<>>
    BY <1>2
  <1>4. Tail(t) \in Seq(S) /\ Len(Tail(t)) = Len(t) - 1
    BY <1>2, <1>3, HeadTailProperties
  <1> QED
    BY <1>2, <1>4 DEF t

\* Doubling stays among the sizes, and so does halving, but for the least of them.
LEMMA SizesClosed ==
  /\ CTB_MIN_SIZE \in Sizes
  /\ \A x \in Sizes : x \in Nat /\ 2 * x \in Sizes /\ x >= CTB_MIN_SIZE
  <1>1. CTB_MIN_SIZE \in Sizes
    BY NetworkAssumption DEF Sizes, Closed
  <1>2. \A x \in Sizes : x \in Nat /\ 2 * x \in Sizes
    BY DEF Sizes, Closed
  <1>3. ASSUME NEW x \in Sizes PROVE x >= CTB_MIN_SIZE
    <2> DEFINE T == {y \in Nat : y >= CTB_MIN_SIZE}
    <2>1. Closed(T) /\ T \in SUBSET Nat
      BY NetworkAssumption DEF Closed
    <2> QED
      BY <2>1 DEF Sizes
  <1> QED
    BY <1>1, <1>2, <1>3

\* The least set of sizes has nothing but the least size and doubles in it.
LEMMA SizesHalved ==
  ASSUME NEW x \in Sizes, x # CTB_MIN_SIZE
  PROVE  x \div 2 \in Sizes
  <1> DEFINE T == {y \in Nat : y = CTB_MIN_SIZE \/ \E z \in Sizes : y = 2 * z}
  <1>1. T \subseteq Sizes /\ T \in SUBSET Nat
    BY SizesClosed
  <1>2. Closed(T)
    BY <1>1, SizesClosed, NetworkAssumption DEF Closed
  <1>3. x \in T
    BY <1>1, <1>2 DEF Sizes
  <1>4. PICK z \in Sizes : x = 2 * z
    BY <1>3
  <1>5. z \in Nat /\ x \div 2 = z
    BY <1>4, SizesClosed
  <1> QED
    BY <1>5

-----------------------------------------------------------------------------
(* What a step does to the threads and to the buffer.                      *)

\* Places in a thread's life, and those behind its last use of conn.
Places == {"none", "handshake", "status", "send_body", "await_reply", "reading",
           "flag", "exiting", "ended"}
Gone == {"exiting", "ended"}

\* A thread's own steps leave the master alone; a thread that has set its state only ends.
LEMMA ThreadMoves ==
  ASSUME TypeOK, NEW c \in Client, ThreadStep(c) \/ PeerStep(c)
  PROVE  /\ UNCHANGED master_vars
         /\ thread[c] \notin {"none", "ended"}
         /\ \E to \in Places \ {"none"} :
              /\ thread' = [thread EXCEPT ![c] = to]
              /\ thread[c] = "exiting" => to = "ended"
  <1> USE DEF Step, Places, TypeOK
  <1>1. CASE Refuse(c) \/ NoNextState(c) \/ Select(c)
    BY <1>1 DEF Refuse, NoNextState, Select
  <1>2. CASE SendLength(c) \/ SendBody(c) \/ ReceiveReply(c)
    BY <1>2 DEF SendLength, SendBody, ReceiveReply
  <1>3. CASE Finish(c) \/ Terminate(c) \/ ThreadExit(c)
    BY <1>3 DEF Finish, Terminate, ThreadExit
  <1> QED
    BY <1>1, <1>2, <1>3 DEF ThreadStep, PeerStep

\* So nobody new arrives.
LEMMA ThreadArrivals ==
  ASSUME TypeOK, NEW c \in Client, ThreadStep(c) \/ PeerStep(c)
  PROVE  Accepted' = Accepted
  <1>1. PICK to \in Places \ {"none"} : thread' = [thread EXCEPT ![c] = to]
    BY ThreadMoves
  <1>2. thread[c] # "none"
    BY ThreadMoves
  <1> QED
    BY <1>1, <1>2 DEF Accepted, TypeOK, Places

\* A client that is accepted is new, the next one in order.
LEMMA AcceptedIsNew ==
  ASSUME TypeOK, Arrived, NEW c \in Client, Accept(c)
  PROVE  thread[c] = "none" /\ Accepted' = Accepted \union {c} /\ Arrived'
  <1>1. PICK n \in 0 .. MaxClients : Accepted = 0 .. n - 1
    BY DEF Arrived
  <1>2. n \in Nat /\ Cardinality(0 .. n - 1) = n
    BY FS_Interval, NetworkAssumption
  <1>3. c = n
    BY <1>1, <1>2 DEF Accept
  <1>4. c \notin Accepted
    BY <1>1, <1>2, <1>3
  <1>5. thread[c] = "none"
    BY <1>4 DEF Accepted
  <1>6. Accepted' = Accepted \union {c}
    BY DEF Accepted, Accept, TypeOK
  <1>7. Accepted' = 0 .. (n + 1) - 1
    BY <1>1, <1>2, <1>3, <1>6
  <1>8. n + 1 \in 0 .. MaxClients
    BY <1>2, <1>3, NetworkAssumption DEF Client
  <1> QED
    BY <1>5, <1>6, <1>7, <1>8 DEF Arrived

\* The master's other steps let nobody in and leave the threads alone.
LEMMA MasterMoves ==
  ASSUME MasterStep
  PROVE  UNCHANGED <<thread, closes>> /\ Accepted' = Accepted
  <1>1. UNCHANGED <<thread, closes>>
    BY DEF MasterStep, Free, Join, ReceiveLength, ReceiveBody, Command, ShutdownJoin,
           Return, AcceptNone, client_vars
  <1> QED
    BY <1>1 DEF Accepted

\* What the buffer is after a new client.
LEMMA AcceptEffect ==
  ASSUME TypeOK, Arrived, Registered, NEW c \in Client, Accept(c)
  PROVE  /\ ctb' \in Seq(Client) /\ Len(ctb') = Len(ctb) + 1
         /\ IsInjective(ctb') /\ ToSet(ctb') = ToSet(ctb) \union {c}
         /\ c \notin ToSet(ctb) /\ c \notin joined
  <1>1. c \notin Accepted
    BY AcceptedIsNew DEF Accepted
  <1>2. c \notin ToSet(ctb) /\ c \notin joined
    BY <1>1 DEF Registered
  <1>3. ctb' = Append(ctb, c)
    BY DEF Accept
  <1>4. ctb \in Seq(Client) /\ IsInjective(ctb)
    BY DEF TypeOK, Registered
  <1> QED
    BY <1>2, <1>3, <1>4, AppendNew

\* And after one has been joined.
LEMMA JoinEffect ==
  ASSUME TypeOK, Registered, Join
  PROVE  /\ ctb' \in Seq(Client) /\ Len(ctb') = Len(ctb) - 1
         /\ IsInjective(ctb') /\ ToSet(ctb') = ToSet(ctb) \ {Entry}
         /\ i \in 1 .. Len(ctb) /\ Entry \in Client /\ Entry \in ToSet(ctb)
  <1>1. i \in 1 .. Len(ctb)
    BY DEF TypeOK, Registered, Join
  <1>2. ctb' = [Front(ctb) EXCEPT ![i] = Last(ctb)]
    BY DEF Join
  <1>3. ctb \in Seq(Client) /\ IsInjective(ctb)
    BY DEF TypeOK, Registered
  <1>4. Entry \in Client /\ Entry \in ToSet(ctb)
    BY <1>1, <1>3 DEF Entry, ToSet
  <1> QED
    BY <1>1, <1>2, <1>3, <1>4, SwapRemove DEF Entry

\* An entry of the scan is a client's that has been accepted.
LEMMA EntryFacts ==
  ASSUME TypeOK, Registered, i <= Len(ctb)
  PROVE  i \in 1 .. Len(ctb) /\ Entry \in Client /\ Entry \in ToSet(ctb) /\ Entry \in Accepted
  <1>1. i \in 1 .. Len(ctb) /\ ctb \in Seq(Client)
    BY DEF TypeOK
  <1>2. Entry \in Client /\ Entry \in ToSet(ctb)
    BY <1>1 DEF Entry, ToSet
  <1> QED
    BY <1>1, <1>2 DEF Registered

-----------------------------------------------------------------------------
(* Arrivals, the register and the buffer's size.                           *)

\* In the first state nobody has come and the buffer has its least size.
LEMMA RegisteredInit == Init => Arrived /\ Registered /\ Sized
  <1> SUFFICES ASSUME Init PROVE Arrived /\ Registered /\ Sized
    OBVIOUS
  <1>1. Accepted = {} /\ {} = 0 .. 0 - 1 /\ 0 \in 0 .. MaxClients
    BY NetworkAssumption DEF Init, Accepted
  <1>2. Arrived
    BY <1>1 DEF Arrived
  <1>3. ctb = <<>> /\ Len(ctb) = 0 /\ ToSet(ctb) = {} /\ DOMAIN ctb = {}
    BY DEF Init, ToSet
  <1>4. Registered
    BY <1>1, <1>3 DEF Registered, Init, IsInjective, Looping
  <1>5. ctb_size = CTB_MIN_SIZE /\ ctb_size \in Sizes /\ 0 <= ctb_size
    BY SizesClosed, NetworkAssumption DEF Init
  <1> QED
    BY <1>2, <1>3, <1>4, <1>5 DEF Sized

\* Clients come one by one.
LEMMA ArrivedStep ==
  ASSUME IInv, [Next]_vars
  PROVE  Arrived'
  <1> USE DEF IInv
  <1>1. ASSUME NEW c \in Client, Accept(c) PROVE Arrived'
    BY <1>1, AcceptedIsNew
  <1>2. CASE Accepted' = Accepted
    BY <1>2 DEF Arrived
  <1>3. CASE UNCHANGED vars
    BY <1>2, <1>3 DEF vars, client_vars, Accepted
  <1> QED
    BY <1>1, <1>2, <1>3, ThreadArrivals, MasterMoves DEF Next

\* A new client is in no entry; a join removes one entry, wherever the last one goes; the
\* shutdown's loop leaves joined entries behind it.
LEMMA RegisteredStep ==
  ASSUME IInv, [Next]_vars
  PROVE  Registered'
  <1> USE DEF IInv
  <1>1. ASSUME NEW c \in Client, Accept(c) PROVE Registered'
    <2>1. Accepted' = Accepted \union {c}
      BY <1>1, AcceptedIsNew
    <2>2. pc = "accept" /\ pc' = "scan" /\ joined' = joined
      BY <1>1 DEF Accept
    <2> QED
      BY <1>1, <2>1, <2>2, AcceptEffect DEF Registered, Looping
  <1>2. ASSUME NEW c \in Client, ThreadStep(c) \/ PeerStep(c) PROVE Registered'
    BY <1>2, ThreadMoves, ThreadArrivals DEF Registered, Looping, master_vars
  <1>3. CASE AcceptNone
    BY <1>3, MasterMoves DEF MasterStep, AcceptNone, Registered, Looping
  <1>4. CASE Free
    BY <1>4, MasterMoves DEF MasterStep, Free, Registered, Looping
  <1>5. CASE Join
    <2>1. pc = "join" /\ pc' = "scan" /\ joined' = joined \union {Entry}
      BY <1>5 DEF Join
    <2>2. Accepted' = Accepted
      BY <1>5, MasterMoves DEF MasterStep
    <2>3. ToSet(ctb') \union joined' = Accepted
      BY <1>5, <2>1, JoinEffect DEF Registered
    <2>4. ToSet(ctb') \intersect joined' = {}
      BY <1>5, <2>1, JoinEffect DEF Registered, Looping
    <2> QED
      BY <1>5, <2>1, <2>2, <2>3, <2>4, JoinEffect DEF Registered, Looping
  <1>6. CASE ReceiveLength
    BY <1>6, MasterMoves DEF MasterStep, ReceiveLength, Registered, Looping
  <1>7. CASE ReceiveBody
    BY <1>7, MasterMoves DEF MasterStep, ReceiveBody, Registered, Looping
  <1>8. CASE Command
    <2>1. /\ UNCHANGED <<ctb, joined>> /\ pc = "scan" /\ pc' \in {"shutdown", "accept"}
          /\ i' = 1
      BY <1>8 DEF Command
    <2>2. Accepted' = Accepted
      BY <1>8, MasterMoves DEF MasterStep
    <2>3. \A j \in DOMAIN ctb : ~(j < 1)
      BY DEF TypeOK
    <2> QED
      BY <2>1, <2>2, <2>3 DEF Registered, Looping
  <1>9. CASE ShutdownJoin
    <2>1. /\ UNCHANGED <<pc, ctb>> /\ pc = "shutdown" /\ i' = i + 1 /\ i <= Len(ctb)
          /\ joined' = joined \union {Entry}
      BY <1>9 DEF ShutdownJoin
    <2>2. Accepted' = Accepted
      BY <1>9, MasterMoves DEF MasterStep
    <2>3. ToSet(ctb) \union joined' = Accepted
      BY <2>1, EntryFacts DEF Registered
    <2>4. \A j \in DOMAIN ctb : j < i + 1 => j < i \/ j = i
      BY SMTT(30) DEF TypeOK
    <2>5. \A j \in DOMAIN ctb : j < i + 1 => ctb[j] \in joined'
      BY <2>1, <2>4 DEF Registered, Looping, Entry
    <2> QED
      BY <2>1, <2>2, <2>3, <2>5 DEF Registered, Looping
  <1>10. CASE Return
    BY <1>10, MasterMoves DEF MasterStep, Return, Registered, Looping
  <1>11. CASE UNCHANGED vars
    BY <1>11 DEF vars, master_vars, client_vars, Registered, Looping, Accepted
  <1> QED
    BY <1>1, <1>2, <1>3, <1>4, <1>5, <1>6, <1>7, <1>8, <1>9, <1>10, <1>11
    DEF Next, MasterStep

\* The buffer grows before an entry is written past its end, and what is left after a
\* join fits the half of it.
LEMMA SizedStep ==
  ASSUME IInv, [Next]_vars
  PROVE  Sized'
  <1> USE DEF IInv
  <1>1. /\ Len(ctb) \in Nat /\ ctb_size \in Nat /\ ctb_size >= CTB_MIN_SIZE
        /\ CTB_MIN_SIZE \in Nat \ {0} /\ 2 * ctb_size \in Sizes
    BY SizesClosed, NetworkAssumption DEF TypeOK, Sized
  <1>2. ASSUME NEW c \in Client, Accept(c) PROVE Sized'
    <2>1. Len(ctb') = Len(ctb) + 1
      BY <1>2, AcceptEffect
    <2>2. ctb_size' = IF Len(ctb) = ctb_size THEN 2 * ctb_size ELSE ctb_size
      BY <1>2 DEF Accept
    <2> QED
      BY <1>1, <2>1, <2>2 DEF Sized
  <1>3. CASE Join
    <2>1. Len(ctb') = Len(ctb) - 1
      BY <1>3, JoinEffect
    <2>2. ctb_size' = IF Len(ctb') < ctb_size \div 4 /\ ctb_size > CTB_MIN_SIZE
                      THEN ctb_size \div 2 ELSE ctb_size
      BY <1>3 DEF Join
    <2>3. CASE Len(ctb') < ctb_size \div 4 /\ ctb_size > CTB_MIN_SIZE
      <3>1. ctb_size' = ctb_size \div 2
        BY <2>2, <2>3
      <3>2. ctb_size' \in Sizes
        BY <1>1, <2>3, <3>1, SizesHalved DEF Sized
      <3>3. ctb_size \div 4 <= ctb_size \div 2
        BY <1>1
      <3> QED
        BY <1>1, <2>1, <2>3, <3>1, <3>2, <3>3 DEF Sized
    <2>4. CASE ~(Len(ctb') < ctb_size \div 4 /\ ctb_size > CTB_MIN_SIZE)
      BY <1>1, <2>1, <2>2, <2>4 DEF Sized
    <2> QED
      BY <2>3, <2>4
  <1>4. CASE UNCHANGED <<ctb, ctb_size>>
    BY <1>4 DEF Sized
  <1>5. ASSUME NEW c \in Client, ThreadStep(c) \/ PeerStep(c) PROVE Sized'
    BY <1>4, <1>5, ThreadMoves DEF master_vars
  <1>6. CASE AcceptNone \/ Free \/ ReceiveLength \/ ReceiveBody \/ Command \/ ShutdownJoin
             \/ Return
    BY <1>4, <1>6 DEF AcceptNone, Free, ReceiveLength, ReceiveBody, Command, ShutdownJoin, Return
  <1>7. CASE UNCHANGED vars
    BY <1>4, <1>7 DEF vars, master_vars
  <1> QED
    BY <1>2, <1>3, <1>5, <1>6, <1>7 DEF Next, MasterStep

-----------------------------------------------------------------------------
(* Types.                                                                  *)

\* The first state is well typed.
LEMMA TypeInit == Init => TypeOK
  <1> SUFFICES ASSUME Init PROVE TypeOK
    OBVIOUS
  <1>1. i \in 1 .. Cardinality(Client) + 1
    BY ClientFinite, NetworkAssumption DEF Init
  <1>2. ctb \in Seq(Client) /\ ctb_size \in Nat \ {0}
    BY NetworkAssumption DEF Init
  <1>3. /\ requests \in [Client -> Seq({"length", "body"})]
        /\ replies \in [Client -> Seq({"length", "body"})]
    BY DEF Init
  <1>4. /\ pc = "accept" /\ closing \in BOOLEAN /\ freed = {} /\ joined = {}
        /\ thread \in [Client -> Places] /\ closes \in [Client -> Nat]
    BY DEF Init, Places
  <1> QED
    BY <1>1, <1>2, <1>3, <1>4 DEF TypeOK, Places

\* Every step keeps the types; the index is bounded as the entries are different clients.
LEMMA TypeStep ==
  ASSUME IInv, [Next]_vars
  PROVE  TypeOK'
  <1> USE DEF IInv
  <1>1. /\ Cardinality(Client) = MaxClients /\ MaxClients \in Nat
        /\ Len(ctb) \in Nat /\ Len(ctb) <= MaxClients
    BY ClientFinite, NetworkAssumption, InjectiveBounded DEF TypeOK, Registered
  <1>2. ctb_size' \in Nat \ {0}
    <2>1. ctb_size' \in Sizes
      BY SizedStep DEF Sized
    <2> QED
      BY <2>1, SizesClosed, NetworkAssumption
  <1>3. ASSUME NEW c \in Client, Accept(c) PROVE TypeOK'
    <2>1. ctb' \in Seq(Client)
      BY <1>3, AcceptEffect
    <2> QED
      BY <1>1, <1>2, <1>3, <2>1 DEF TypeOK, Accept
  <1>4. ASSUME NEW c \in Client, ThreadStep(c) \/ PeerStep(c) PROVE TypeOK'
    <2>1. UNCHANGED <<pc, i, closing, ctb, ctb_size, freed, joined>>
      BY <1>4, ThreadMoves DEF master_vars
    <2>2. thread' \in [Client -> Places]
      BY <1>4, ThreadMoves DEF TypeOK, Places
    <2>3. closes' \in [Client -> Nat]
      BY <1>4 DEF TypeOK, ThreadStep, PeerStep, Refuse, NoNextState, Select, SendLength,
         SendBody, ReceiveReply, Finish, Terminate, ThreadExit, Close
    <2>4. requests' \in [Client -> Seq({"length", "body"})]
      <3>1. CASE SendLength(c)
        BY <3>1 DEF TypeOK, SendLength
      <3>2. CASE SendBody(c)
        BY <3>2 DEF TypeOK, SendBody
      <3>3. CASE requests' = requests
        BY <3>3 DEF TypeOK
      <3> QED
        BY <1>4, <3>1, <3>2, <3>3 DEF ThreadStep, PeerStep, Refuse, NoNextState, Select,
           ReceiveReply, Finish, Terminate, ThreadExit
    <2>5. replies' \in [Client -> Seq({"length", "body"})]
      <3>1. CASE ReceiveReply(c)
        <4>1. replies[c] \in Seq({"length", "body"}) /\ Len(replies[c]) >= 2
          BY <3>1 DEF ReceiveReply, TypeOK
        <4>2. Tail(Tail(replies[c])) \in Seq({"length", "body"})
          BY <4>1, TwoLess
        <4>3. replies' = [replies EXCEPT ![c] = Tail(Tail(@))]
          BY <3>1 DEF ReceiveReply
        <4> QED
          BY <4>2, <4>3 DEF TypeOK
      <3>2. CASE replies' = replies
        BY <3>2 DEF TypeOK
      <3> QED
        BY <1>4, <3>1, <3>2 DEF ThreadStep, PeerStep, Refuse, NoNextState, Select,
           SendLength, SendBody, Finish, Terminate, ThreadExit
    <2> QED
      BY <2>1, <2>2, <2>3, <2>4, <2>5 DEF TypeOK, Places
  <1>5. CASE AcceptNone
    <2>1. closing' \in BOOLEAN
      BY <1>5, Zenon DEF TypeOK, AcceptNone
    <2>2. /\ pc' = "scan" /\ i' = 1
          /\ UNCHANGED <<ctb, ctb_size, freed, joined, thread, closes, requests, replies>>
      BY <1>5 DEF AcceptNone, client_vars
    <2> QED
      BY <1>1, <2>1, <2>2 DEF TypeOK
  <1>6. CASE Free
    BY <1>1, <1>6, EntryFacts DEF TypeOK, Free, client_vars
  <1>7. CASE Join
    <2>1. ctb' \in Seq(Client) /\ Entry \in Client /\ i \in 1 .. Len(ctb)
      BY <1>7, JoinEffect
    <2>2. /\ pc' = "scan" /\ i' = i + 1 /\ joined' = joined \union {Entry}
          /\ UNCHANGED <<closing, freed, thread, closes, requests, replies>>
      BY <1>7 DEF Join, client_vars
    <2> QED
      BY <1>1, <1>2, <2>1, <2>2, SMTT(30) DEF TypeOK
  <1>8. CASE ReceiveLength
    <2>1. i \in 1 .. Len(ctb) /\ Entry \in Client
      BY <1>8, EntryFacts DEF ReceiveLength
    <2>2. requests' \in [Client -> Seq({"length", "body"})]
      <3>1. CASE requests[Entry] = <<>>
        BY <1>8, <3>1 DEF TypeOK, ReceiveLength
      <3>2. CASE requests[Entry] # <<>>
        <4>1. Tail(requests[Entry]) \in Seq({"length", "body"})
          BY <2>1, <3>2, HeadTailProperties DEF TypeOK
        <4> QED
          BY <1>8, <3>2, <4>1 DEF TypeOK, ReceiveLength
      <3> QED
        BY <3>1, <3>2
    <2>3. /\ i' = i \/ i' = i + 1
          /\ pc' = "scan" \/ pc' = "body"
      BY <1>8 DEF ReceiveLength
    <2>4. UNCHANGED <<closing, ctb, ctb_size, freed, joined, thread, closes, replies>>
      BY <1>8 DEF ReceiveLength
    <2>5. i' \in 1 .. Cardinality(Client) + 1
      BY <1>1, <2>1, <2>3, SMTT(30) DEF TypeOK
    <2>6. closing' \in BOOLEAN
      BY <2>4 DEF TypeOK
    <2> QED
      BY <2>2, <2>3, <2>4, <2>5, <2>6 DEF TypeOK
  <1>9. CASE ReceiveBody
    <2>1. i \in 1 .. Len(ctb) /\ Entry \in Client
      BY <1>9, EntryFacts DEF ReceiveBody, Registered
    <2>2. /\ requests' \in [Client -> Seq({"length", "body"})]
          /\ replies' \in [Client -> Seq({"length", "body"})]
      <3>1. CASE requests[Entry] = <<>>
        BY <1>9, <3>1 DEF TypeOK, ReceiveBody
      <3>2. CASE requests[Entry] # <<>>
        <4>1. Tail(requests[Entry]) \in Seq({"length", "body"})
          BY <2>1, <3>2, HeadTailProperties DEF TypeOK
        <4>2. replies[Entry] \o <<"length", "body">> \in Seq({"length", "body"})
          BY <2>1 DEF TypeOK
        <4> QED
          BY <1>9, <3>2, <4>1, <4>2 DEF TypeOK, ReceiveBody
      <3> QED
        BY <3>1, <3>2
    <2>3. i' \in 1 .. MaxClients + 1 /\ pc' = "scan"
      BY <1>1, <1>9, <2>1 DEF TypeOK, ReceiveBody
    <2> QED
      BY <1>1, <1>9, <2>2, <2>3 DEF TypeOK, ReceiveBody
  <1>10. CASE Command
    <2>1. closing' \in BOOLEAN
      BY <1>10, Zenon DEF TypeOK, Command
    <2>2. /\ pc' \in {"shutdown", "accept"} /\ i' = 1
          /\ UNCHANGED <<ctb, ctb_size, freed, joined, thread, closes, requests, replies>>
      BY <1>10 DEF Command, client_vars
    <2> QED
      BY <1>1, <2>1, <2>2 DEF TypeOK
  <1>11. CASE ShutdownJoin
    <2>1. /\ i <= Len(ctb) /\ i' = i + 1 /\ joined' = joined \union {Entry}
          /\ UNCHANGED <<pc, closing, ctb, ctb_size, freed, thread, closes, requests, replies>>
      BY <1>11 DEF ShutdownJoin, client_vars
    <2>2. Entry \in Client /\ i' \in 1 .. Cardinality(Client) + 1
      BY <1>1, <2>1, EntryFacts DEF TypeOK
    <2> QED
      BY <2>1, <2>2 DEF TypeOK
  <1>12. CASE Return
    BY <1>12 DEF TypeOK, Return, client_vars
  <1>13. CASE UNCHANGED vars
    BY <1>13 DEF TypeOK, vars, master_vars, client_vars
  <1> QED
    BY <1>3, <1>4, <1>5, <1>6, <1>7, <1>8, <1>9, <1>10, <1>11, <1>12, <1>13
    DEF Next, MasterStep

-----------------------------------------------------------------------------
(* Releases.                                                               *)

\* Only the entry that the scan is at is freed, and it is gone before the scan goes on.
LEMMA OwnedStep ==
  ASSUME IInv, [Next]_vars
  PROVE  Owned'
  <1> USE DEF IInv
  <1>1. ASSUME NEW c \in Client, Accept(c) PROVE Owned'
    <2>1. thread[c] = "none" /\ c \notin joined /\ c \notin freed
      BY <1>1, AcceptedIsNew DEF Owned
    <2>2. /\ UNCHANGED <<freed, joined, closes>> /\ pc = "accept" /\ pc' = "scan"
          /\ thread' = [thread EXCEPT ![c] = "handshake"]
      BY <1>1 DEF Accept
    <2>3. ToSet(ctb') = ToSet(ctb) \union {c}
      BY <1>1, AcceptEffect
    <2>4. \A j \in DOMAIN ctb' : ctb'[j] \notin freed
      BY <2>1, <2>2, <2>3 DEF Owned, ToSet
    <2> QED
      BY <2>1, <2>2, <2>4 DEF Owned, TypeOK
  <1>2. ASSUME NEW c \in Client, ThreadStep(c) \/ PeerStep(c) PROVE Owned'
    <2>1. /\ UNCHANGED <<pc, i, ctb, freed, joined>>
          /\ thread[c] \notin {"none", "ended"}
          /\ \E to \in Places \ {"none"} :
               /\ thread' = [thread EXCEPT ![c] = to]
               /\ thread[c] = "exiting" => to = "ended"
      BY <1>2, ThreadMoves DEF master_vars
    <2>2. ASSUME NEW d \in Client
          PROVE  closes'[d] <= IF thread'[d] \in {"flag", "exiting", "ended"} THEN 1 ELSE 0
      <3>1. CASE Refuse(c) \/ Finish(c)
        <4>1. /\ thread[c] \in {"handshake", "status", "reading"}
              /\ thread' = [thread EXCEPT ![c] = "flag"]
              /\ closes' = [closes EXCEPT ![c] = @ + 1]
          BY <3>1 DEF Refuse, Finish, Step, Close
        <4> QED
          BY <4>1 DEF Owned, TypeOK
      <3>2. CASE closes' = closes
        <4>1. thread[c] = "flag" => thread'[c] = "exiting"
          BY <1>2, <3>2 DEF ThreadStep, PeerStep, Refuse, NoNextState, Select, SendLength,
             SendBody, ReceiveReply, Finish, Terminate, ThreadExit, Step, TypeOK
        <4> QED
          BY <2>1, <3>2, <4>1 DEF Owned, TypeOK
      <3> QED
        BY <1>2, <3>1, <3>2 DEF ThreadStep, PeerStep, NoNextState, Select, SendLength,
           SendBody, ReceiveReply, Terminate, ThreadExit
    <2>3. \A d \in joined : thread'[d] = "ended"
      BY <2>1 DEF Owned, TypeOK
    <2>4. \A d \in freed : thread'[d] \in {"exiting", "ended"}
      BY <2>1 DEF Owned, TypeOK
    <2> QED
      BY <2>1, <2>2, <2>3, <2>4 DEF Owned, Entry
  <1>3. CASE Free
    <2>1. /\ pc = "scan" /\ pc' = "join" /\ i' = i /\ ctb' = ctb /\ joined' = joined
          /\ freed' = freed \union {Entry} /\ thread[Entry] \in {"exiting", "ended"}
          /\ thread' = thread /\ closes' = closes
      BY <1>3 DEF Free, Terminated, client_vars
    <2>2. i \in DOMAIN ctb
      BY <1>3, EntryFacts DEF Free, TypeOK
    <2>3. \A j \in DOMAIN ctb : ctb[j] \in freed' => j = i
      BY <2>1, <2>2 DEF Owned, Entry, Registered, IsInjective
    <2> QED
      BY <2>1, <2>3 DEF Owned, Entry
  <1>4. CASE Join
    <2>1. /\ pc = "join" /\ pc' = "scan" /\ freed' = freed /\ thread' = thread
          /\ joined' = joined \union {Entry} /\ thread[Entry] = "ended" /\ closes' = closes
      BY <1>4 DEF Join, client_vars
    <2>2. /\ ToSet(ctb') = ToSet(ctb) \ {Entry}
      BY <1>4, JoinEffect
    <2>3. \A x \in ToSet(ctb) : x \in freed => x = Entry
      BY DEF Owned, ToSet, Entry
    <2>4. \A j \in DOMAIN ctb' : ctb'[j] \notin freed
      BY <2>2, <2>3 DEF ToSet
    <2> QED
      BY <2>1, <2>4 DEF Owned
  <1>5. CASE AcceptNone \/ ReceiveLength \/ ReceiveBody \/ Command \/ ShutdownJoin \/ Return
    <2>1. UNCHANGED <<ctb, freed, thread, closes>> /\ pc # "join" /\ pc' # "join"
      BY <1>5 DEF AcceptNone, ReceiveLength, ReceiveBody, Command, ShutdownJoin, Return,
         client_vars
    <2>2. joined' = joined \/ (joined' = joined \union {Entry} /\ thread[Entry] = "ended")
      BY <1>5 DEF AcceptNone, ReceiveLength, ReceiveBody, Command, ShutdownJoin, Return
    <2> QED
      BY <2>1, <2>2 DEF Owned
  <1>6. CASE UNCHANGED vars
    BY <1>6 DEF vars, master_vars, client_vars, Owned, Entry
  <1> QED
    BY <1>1, <1>2, <1>3, <1>4, <1>5, <1>6 DEF Next, MasterStep

-----------------------------------------------------------------------------
(* Requests and replies.                                                   *)

\* All the counts are numbers.
LEMMA HalvesType ==
  ASSUME TypeOK, NEW c \in Client
  PROVE  /\ Asked(c) \in Nat /\ Answered(c) \in Nat
         /\ InHand(c) = 0 \/ InHand(c) = 1
         /\ MostHalves(c) = 0 \/ MostHalves(c) = 1 \/ MostHalves(c) = 2
  <1>1. Asked(c) \in Nat /\ Answered(c) \in Nat
    BY DEF TypeOK, Asked, Answered
  <1> QED
    BY <1>1 DEF InHand, MostHalves

\* How many halves there may be, in the terms of the arithmetic.
LEMMA PairedFacts ==
  ASSUME TypeOK, Paired, NEW c \in Client
  PROVE  /\ Asked(c) \in Nat
         /\ Answered(c) = 0 \/ Answered(c) = 2
         /\ InHand(c) = 0 \/ InHand(c) = 1
         /\ MostHalves(c) = 0 \/ MostHalves(c) = 1 \/ MostHalves(c) = 2
         /\ Asked(c) + InHand(c) + Answered(c) <= MostHalves(c)
  BY HalvesType DEF Paired, Halves

\* A client that a step leaves alone stays within its number.
LEMMA PairedSame ==
  ASSUME Paired, NEW c \in Client, Asked(c)' = Asked(c), Answered(c)' = Answered(c),
         InHand(c)' = InHand(c), MostHalves(c)' = MostHalves(c)
  PROVE  Halves(c)' <= MostHalves(c)' /\ (Answered(c)' = 0 \/ Answered(c)' = 2)
  <1>1. Halves(c)' = Halves(c)
    BY DEF Halves
  <1> QED
    BY <1>1 DEF Paired

\* The steps of a client that have nothing to do with its pair socket.
Quiet(c) ==
  Refuse(c) \/ NoNextState(c) \/ Select(c) \/ Finish(c) \/ Terminate(c) \/ ThreadExit(c)

\* They change neither the messages nor how many there may be.
LEMMA QuietMoves ==
  ASSUME TypeOK, NEW c \in Client, Quiet(c)
  PROVE  /\ UNCHANGED <<requests, replies>>
         /\ \A d \in Client : MostHalves(d)' = MostHalves(d)
  <1>1. /\ thread[c] \notin {"send_body", "await_reply"}
        /\ \E to \in Places \ {"send_body", "await_reply"} : thread' = [thread EXCEPT ![c] = to]
    BY DEF Quiet, Refuse, NoNextState, Select, Finish, Terminate, ThreadExit, Step, Places
  <1>2. UNCHANGED <<requests, replies>>
    BY DEF Quiet, Refuse, NoNextState, Select, Finish, Terminate, ThreadExit
  <1> QED
    BY <1>1, <1>2 DEF MostHalves, TypeOK

\* What the master has read and not yet acted on stays so in a client's step.
LEMMA PairedThread ==
  ASSUME TypeOK, Paired, NEW c \in Client, ThreadStep(c) \/ PeerStep(c)
  PROVE  Paired'
  <1> SUFFICES ASSUME NEW d \in Client
               PROVE  Halves(d)' <= MostHalves(d)' /\ (Answered(d)' = 0 \/ Answered(d)' = 2)
    BY DEF Paired
  <1>1. InHand(d)' = InHand(d)
    BY ThreadMoves DEF master_vars, InHand, Entry
  <1>2. CASE d # c
    <2>1. Asked(d)' = Asked(d) /\ Answered(d)' = Answered(d) /\ MostHalves(d)' = MostHalves(d)
      BY <1>2 DEF TypeOK, ThreadStep, PeerStep, Refuse, NoNextState, Select, SendLength,
         SendBody, ReceiveReply, Finish, Terminate, ThreadExit, Step, MostHalves, Asked, Answered
    <2> QED
      BY <1>1, <2>1, PairedSame
  <1>3. CASE d = c /\ SendLength(c)
    <2>1. MostHalves(c) = 0 /\ MostHalves(c)' = 1
      BY <1>3 DEF SendLength, Step, TypeOK, MostHalves
    <2>2. Asked(c)' = Asked(c) + 1 /\ Answered(c)' = Answered(c)
      BY <1>3 DEF SendLength, TypeOK, Asked, Answered
    <2> QED
      BY <1>1, <1>3, <2>1, <2>2, PairedFacts DEF Halves
  <1>4. CASE d = c /\ SendBody(c)
    <2>1. MostHalves(c) = 1 /\ MostHalves(c)' = 2
      BY <1>4 DEF SendBody, Step, TypeOK, MostHalves
    <2>2. Asked(c)' = Asked(c) + 1 /\ Answered(c)' = Answered(c)
      BY <1>4 DEF SendBody, TypeOK, Asked, Answered
    <2> QED
      BY <1>1, <1>4, <2>1, <2>2, PairedFacts DEF Halves
  <1>5. CASE d = c /\ ReceiveReply(c)
    <2>1. MostHalves(c) = 2 /\ MostHalves(c)' = 0
      BY <1>5 DEF ReceiveReply, Step, TypeOK, MostHalves
    <2>2. Asked(c)' = Asked(c) /\ Answered(c) >= 2
      BY <1>5 DEF ReceiveReply, Asked, Answered
    <2>3. Answered(c)' = Answered(c) - 2
      <3>1. Len(replies[c]) >= 2 /\ replies'[c] = Tail(Tail(replies[c]))
        BY <1>5 DEF ReceiveReply, TypeOK
      <3>2. Len(Tail(Tail(replies[c]))) = Len(replies[c]) - 2
        BY <3>1, TwoLess DEF TypeOK
      <3> QED
        BY <3>1, <3>2 DEF Answered
    <2> QED
      BY <1>1, <1>5, <2>1, <2>2, <2>3, PairedFacts DEF Halves
  <1>6. CASE Quiet(c)
    <2>1. Asked(d)' = Asked(d) /\ Answered(d)' = Answered(d) /\ MostHalves(d)' = MostHalves(d)
      BY <1>6, QuietMoves DEF Asked, Answered
    <2> QED
      BY <1>1, <2>1, PairedSame
  <1> QED
    BY <1>2, <1>3, <1>4, <1>5, <1>6 DEF ThreadStep, PeerStep, Quiet

\* Reading a length moves a half from the socket into the master's hand.
LEMMA PairedLength ==
  ASSUME TypeOK, Registered, Paired, ReceiveLength
  PROVE  Paired'
  <1> SUFFICES ASSUME NEW d \in Client
               PROVE  Halves(d)' <= MostHalves(d)' /\ (Answered(d)' = 0 \/ Answered(d)' = 2)
    BY DEF Paired
  <1>1. pc = "scan" /\ UNCHANGED <<ctb, thread, replies>>
    BY DEF ReceiveLength
  <1>2. /\ MostHalves(d)' = MostHalves(d) /\ Answered(d)' = Answered(d)
        /\ InHand(d) = 0
    BY <1>1 DEF MostHalves, Answered, InHand
  <1>3. PICK e \in Client : e = Entry
    BY EntryFacts DEF ReceiveLength
  <1>4. CASE requests[e] = <<>> \/ d # e
    <2>1. Asked(d)' = Asked(d)
      BY <1>3, <1>4 DEF ReceiveLength, TypeOK, Asked
    <2>2. InHand(d)' = 0
      BY <1>1, <1>3, <1>4 DEF ReceiveLength, InHand, Entry
    <2> QED
      BY <1>2, <2>1, <2>2, PairedSame
  <1>5. CASE requests[e] # <<>> /\ d = e
    <2>1. pc' = "body" /\ i' = i /\ requests' = [requests EXCEPT ![e] = Tail(@)]
      BY <1>3, <1>5 DEF ReceiveLength
    <2>2. Asked(d)' = Asked(d) - 1
      <3>1. Len(Tail(requests[e])) = Len(requests[e]) - 1
        BY <1>5, HeadTailProperties DEF TypeOK
      <3> QED
        BY <1>5, <2>1, <3>1 DEF TypeOK, Asked
    <2>3. InHand(d)' = 1
      BY <1>1, <1>3, <1>5, <2>1 DEF InHand, Entry
    <2> QED
      BY <1>2, <2>2, <2>3, PairedFacts DEF Halves
  <1> QED
    BY <1>4, <1>5

\* If a half is read after the one in hand, both are a request that is waited for and
\* has no answer yet.
LEMMA BodyIsAsked ==
  ASSUME TypeOK, Registered, Paired, pc = "body", NEW e \in Client, e = Entry,
         requests[e] # <<>>
  PROVE  /\ thread[e] = "await_reply" /\ MostHalves(e) = 2 /\ Asked(e) = 1
         /\ InHand(e) = 1 /\ Answered(e) = 0
  <1>1. InHand(e) = 1
    BY DEF InHand
  <1>2. Asked(e) >= 1
    BY EmptySeq DEF TypeOK, Asked
  <1>3. MostHalves(e) = 2 /\ Asked(e) = 1 /\ Answered(e) = 0
    BY <1>1, <1>2, PairedFacts
  <1> QED
    BY <1>1, <1>3 DEF MostHalves

\* They become an answer.
LEMMA BodyAnswered ==
  ASSUME TypeOK, Registered, Paired, ReceiveBody, NEW e \in Client, e = Entry,
         requests[e] # <<>>
  PROVE  /\ Asked(e)' = 0 /\ Answered(e)' = 2
         /\ \A d \in Client : d # e => Asked(d)' = Asked(d) /\ Answered(d)' = Answered(d)
  <1>1. pc = "body"
    BY DEF ReceiveBody
  <1>2. /\ requests' = [requests EXCEPT ![e] = Tail(@)]
        /\ replies' = [replies EXCEPT ![e] = @ \o <<"length", "body">>]
    BY DEF ReceiveBody
  <1>3. Asked(e)' = Asked(e) - 1
    <2>1. Len(Tail(requests[e])) = Len(requests[e]) - 1
      BY HeadTailProperties DEF TypeOK
    <2> QED
      BY <1>2, <2>1 DEF TypeOK, Asked
  <1>4. Answered(e)' = Answered(e) + 2
    <2>1. replies[e] \in Seq({"length", "body"})
      BY DEF TypeOK
    <2>2. Len(replies[e] \o <<"length", "body">>) = Len(replies[e]) + 2
      BY <2>1
    <2> QED
      BY <1>2, <2>2 DEF TypeOK, Answered
  <1>5. ASSUME NEW d \in Client, d # e
        PROVE  Asked(d)' = Asked(d) /\ Answered(d)' = Answered(d)
    BY <1>2, <1>5 DEF TypeOK, Asked, Answered
  <1> QED
    BY <1>1, <1>3, <1>4, <1>5, BodyIsAsked

\* A half in hand is forgotten or becomes an answer.
LEMMA PairedBody ==
  ASSUME TypeOK, Registered, Paired, ReceiveBody
  PROVE  Paired'
  <1> SUFFICES ASSUME NEW d \in Client
               PROVE  Halves(d)' <= MostHalves(d)' /\ (Answered(d)' = 0 \/ Answered(d)' = 2)
    BY DEF Paired
  <1>1. pc = "body" /\ pc' = "scan" /\ thread' = thread
    BY DEF ReceiveBody
  <1>2. PICK e \in Client : e = Entry
    BY <1>1, EntryFacts DEF Registered
  <1>3. InHand(d)' = 0 /\ MostHalves(d)' = MostHalves(d)
    BY <1>1 DEF InHand, MostHalves
  <1>4. CASE requests[e] = <<>>
    <2>1. Asked(d)' = Asked(d) /\ Answered(d)' = Answered(d)
      BY <1>2, <1>4 DEF ReceiveBody, Asked, Answered
    <2> QED
      BY <1>3, <2>1, PairedFacts DEF Halves
  <1>5. CASE requests[e] # <<>> /\ d = e
    <2>1. Asked(d)' = 0 /\ Answered(d)' = 2 /\ MostHalves(d) = 2
      BY <1>1, <1>2, <1>5, BodyIsAsked, BodyAnswered
    <2> QED
      BY <1>3, <2>1 DEF Halves
  <1>6. CASE requests[e] # <<>> /\ d # e
    <2>1. Asked(d)' = Asked(d) /\ Answered(d)' = Answered(d)
      BY <1>2, <1>6, BodyAnswered
    <2>2. InHand(d) = 0
      BY <1>2, <1>6 DEF InHand
    <2> QED
      BY <1>3, <2>1, <2>2, PairedSame
  <1> QED
    BY <1>4, <1>5, <1>6

\* No step leaves more halves under way than the client's thread has sent.
LEMMA PairedStep ==
  ASSUME IInv, [Next]_vars
  PROVE  Paired'
  <1> USE DEF IInv
  <1>1. ASSUME NEW c \in Client, Accept(c) PROVE Paired'
    <2>1. pc = "accept" /\ pc' = "scan" /\ UNCHANGED <<requests, replies>>
      BY <1>1 DEF Accept
    <2>2. \A d \in Client : MostHalves(d)' = MostHalves(d)
      BY <1>1, AcceptedIsNew DEF Accept, MostHalves, TypeOK
    <2>3. \A d \in Client : Asked(d)' = Asked(d) /\ Answered(d)' = Answered(d)
                            /\ InHand(d)' = InHand(d)
      BY <2>1 DEF Asked, Answered, InHand
    <2> QED
      BY <2>2, <2>3, PairedSame DEF Paired
  <1>2. CASE AcceptNone \/ Free \/ Join \/ Command \/ ShutdownJoin \/ Return
    <2>1. pc # "body" /\ pc' # "body" /\ UNCHANGED <<thread, requests, replies>>
      BY <1>2 DEF AcceptNone, Free, Join, Command, ShutdownJoin, Return, client_vars
    <2>2. \A d \in Client : Asked(d)' = Asked(d) /\ Answered(d)' = Answered(d)
                            /\ InHand(d)' = InHand(d) /\ MostHalves(d)' = MostHalves(d)
      BY <2>1 DEF Asked, Answered, InHand, MostHalves
    <2> QED
      BY <2>2, PairedSame DEF Paired
  <1>3. CASE UNCHANGED vars
    <2>1. \A d \in Client : Asked(d)' = Asked(d) /\ Answered(d)' = Answered(d)
                            /\ InHand(d)' = InHand(d) /\ MostHalves(d)' = MostHalves(d)
      BY <1>3 DEF vars, master_vars, client_vars, Asked, Answered, InHand, MostHalves, Entry
    <2> QED
      BY <2>1, PairedSame DEF Paired
  <1> QED
    BY <1>1, <1>2, <1>3, PairedThread, PairedLength, PairedBody DEF Next, MasterStep

-----------------------------------------------------------------------------
(* The theorems.                                                           *)

\* At first nothing is owned,
LEMMA OwnedInit == Init => Owned
  <1> SUFFICES ASSUME Init PROVE Owned
    OBVIOUS
  <1>1. joined = {} /\ freed = {} /\ pc # "join" /\ \A c \in Client : closes[c] = 0
    BY DEF Init
  <1> QED
    BY <1>1 DEF Owned

\* and nothing is under way.
LEMMA PairedInit == Init => Paired
  <1> SUFFICES ASSUME Init, NEW c \in Client
               PROVE  Halves(c) <= MostHalves(c) /\ (Answered(c) = 0 \/ Answered(c) = 2)
    BY DEF Paired
  <1>1. Asked(c) = 0 /\ Answered(c) = 0 /\ InHand(c) = 0
    BY DEF Init, Asked, Answered, InHand
  <1> QED
    BY <1>1 DEF Halves, MostHalves

\* The invariant holds in every state.
LEMMA Inductive == Spec => []IInv
  <1>1. Init => IInv
    BY TypeInit, RegisteredInit, OwnedInit, PairedInit DEF IInv
  <1>2. IInv /\ [Next]_vars => IInv'
    BY TypeStep, ArrivedStep, RegisteredStep, SizedStep, OwnedStep, PairedStep DEF IInv
  <1> QED
    BY <1>1, <1>2, PTL DEF Spec

\* The variables have their types; the scan's index stays within the entries and one
\* more.
THEOREM TypeCorrect == Spec => []TypeOK
  <1>1. IInv => TypeOK
    BY DEF IInv
  <1> QED
    BY <1>1, Inductive, PTL

\* The buffer holds every client that was accepted and is not yet joined exactly once,
\* and never shrinks below its least size nor below what is in it.
THEOREM BufferExact == Spec => []CtbExact
  <1>1. IInv => CtbExact
    <2> SUFFICES ASSUME IInv PROVE CtbExact
      OBVIOUS
    <2>1. Looping => ToSet(ctb) = Accepted \ joined
      BY DEF IInv, Registered
    <2>2. Len(ctb) <= ctb_size /\ ctb_size >= CTB_MIN_SIZE
      BY SizesClosed DEF IInv, Sized
    <2> QED
      BY <2>1, <2>2 DEF IInv, Registered, Looping, CtbExact
  <1> QED
    BY <1>1, Inductive, PTL

\* What a client owns is released once, after its last use, and all of it before the
\* master returns.
THEOREM ReleasedOnce == Spec => []Released
  <1>1. IInv => Released
    <2> SUFFICES ASSUME IInv PROVE Released
      OBVIOUS
    <2>1. \A c \in freed : thread[c] \in {"exiting", "ended"}
      BY DEF IInv, Owned
    <2>2. ASSUME pc = "done", NEW c \in Accepted
          PROVE  thread[c] = "ended" /\ c \in joined
      <3>1. \A j \in DOMAIN ctb : j < i
        BY <2>2 DEF IInv, TypeOK, Registered
      <3>2. ToSet(ctb) \subseteq joined
        BY <2>2, <3>1 DEF IInv, Registered, Looping, ToSet
      <3> QED
        BY <3>2 DEF IInv, Registered, Owned
    <2>3. ASSUME NEW c \in Client PROVE closes[c] <= 1
      <3>1. closes[c] \in Nat /\ (closes[c] <= 1 \/ closes[c] <= 0)
        BY DEF IInv, Owned, TypeOK
      <3> QED
        BY <3>1
    <2> QED
      BY <2>1, <2>2, <2>3 DEF Released, FreedUnused, ClosedOnce, IInv, Owned
  <1> QED
    BY <1>1, Inductive, PTL

-----------------------------------------------------------------------------
(* The refinement.  Of all the steps three are the service's: the first    *)
(* half of a request asks, the master's reply answers, and reading it      *)
(* receives.                                                               *)

\* The mapping, in the terms of the invariant.
Waiting == {c \in Client : thread[c] \in {"send_body", "await_reply"}}
Unread == [c \in Client |-> Answered(c) \div 2]

\* A step of a client's thread asks, receives or stutters.
LEMMA ThreadImplements ==
  ASSUME TypeOK, Paired, Paired', TypeOK', NEW c \in Client, ThreadStep(c) \/ PeerStep(c)
  PROVE  \/ c \notin Waiting /\ Waiting' = Waiting \union {c} /\ Unread' = Unread
         \/ /\ c \in Waiting /\ Unread[c] = 1
            /\ Unread' = [Unread EXCEPT ![c] = 0] /\ Waiting' = Waiting \ {c}
         \/ Waiting' = Waiting /\ Unread' = Unread
  <1>1. CASE SendLength(c)
    <2>1. Unread' = Unread
      BY <1>1 DEF SendLength, Unread, Answered
    <2>2. c \notin Waiting /\ Waiting' = Waiting \union {c}
      BY <1>1 DEF SendLength, Step, TypeOK, Waiting
    <2> QED
      BY <2>1, <2>2
  <1>2. CASE SendBody(c)
    <2>1. Unread' = Unread
      BY <1>2 DEF SendBody, Unread, Answered
    <2>2. Waiting' = Waiting
      BY <1>2 DEF SendBody, Step, TypeOK, Waiting
    <2> QED
      BY <2>1, <2>2
  <1>3. CASE ReceiveReply(c)
    <2>1. c \in Waiting /\ Waiting' = Waiting \ {c}
      BY <1>3 DEF ReceiveReply, Step, TypeOK, Waiting
    <2>2. Answered(c) = 2 /\ Answered(c)' = 0
      <3>1. Answered(c) = 2
        BY <1>3, PairedFacts DEF ReceiveReply, Answered
      <3>2. MostHalves(c)' = 0
        BY <1>3 DEF ReceiveReply, Step, TypeOK, MostHalves
      <3>3. /\ Asked(c)' \in Nat /\ InHand(c)' \in Nat
            /\ Asked(c)' + InHand(c)' + Answered(c)' <= 0
            /\ Answered(c)' = 0 \/ Answered(c)' = 2
        <4>1. Asked(c)' \in Nat /\ (InHand(c)' = 0 \/ InHand(c)' = 1)
          BY DEF TypeOK, Asked, InHand
        <4>2. Halves(c)' <= MostHalves(c)' /\ (Answered(c)' = 0 \/ Answered(c)' = 2)
          BY DEF Paired
        <4> QED
          BY <3>2, <4>1, <4>2 DEF Halves
      <3> QED
        BY <3>1, <3>3
    <2>3. Unread[c] = 1 /\ Unread'[c] = 0
      <3>1. 0 \div 2 = 0 /\ 2 \div 2 = 1
        OBVIOUS
      <3> QED
        BY <2>2, <3>1 DEF Unread
    <2>4. \A d \in Client : d # c => Unread'[d] = Unread[d]
      BY <1>3 DEF ReceiveReply, TypeOK, Unread, Answered
    <2>5. Unread' = [Unread EXCEPT ![c] = 0]
      BY <2>3, <2>4 DEF Unread
    <2> QED
      BY <2>1, <2>3, <2>5
  <1>4. CASE Quiet(c)
    <2>1. Unread' = Unread
      BY <1>4, QuietMoves DEF Unread, Answered
    <2>2. Waiting' = Waiting
      <3>1. /\ thread[c] \notin {"send_body", "await_reply"}
            /\ \E to \in Places \ {"send_body", "await_reply"} :
                 thread' = [thread EXCEPT ![c] = to]
        BY <1>4 DEF Quiet, Refuse, NoNextState, Select, Finish, Terminate, ThreadExit, Step,
           Places
      <3> QED
        BY <3>1 DEF Waiting, TypeOK
    <2> QED
      BY <2>1, <2>2
  <1> QED
    BY <1>1, <1>2, <1>3, <1>4 DEF ThreadStep, PeerStep, Quiet

\* The master's reading a body answers or, if it is missing, stutters.
LEMMA BodyImplements ==
  ASSUME TypeOK, Registered, Paired, ReceiveBody
  PROVE  \/ \E c \in Client : /\ c \in Waiting /\ Unread[c] = 0
                              /\ Unread' = [Unread EXCEPT ![c] = 1] /\ Waiting' = Waiting
         \/ Waiting' = Waiting /\ Unread' = Unread
  <1>1. pc = "body" /\ Waiting' = Waiting
    BY DEF ReceiveBody, Waiting
  <1>2. PICK e \in Client : e = Entry
    BY <1>1, EntryFacts DEF Registered
  <1>3. CASE requests[e] = <<>>
    <2>1. Unread' = Unread
      BY <1>2, <1>3 DEF ReceiveBody, Unread, Answered
    <2> QED
      BY <1>1, <2>1
  <1>4. CASE requests[e] # <<>>
    <2>1. thread[e] = "await_reply" /\ Answered(e) = 0 /\ Answered(e)' = 2
      BY <1>1, <1>2, <1>4, BodyIsAsked, BodyAnswered
    <2>2. \A d \in Client : d # e => Answered(d)' = Answered(d)
      BY <1>2, <1>4, BodyAnswered
    <2>3. Unread[e] = 0 /\ Unread'[e] = 1
      <3>1. 0 \div 2 = 0 /\ 2 \div 2 = 1
        OBVIOUS
      <3> QED
        BY <2>1, <3>1 DEF Unread
    <2>4. Unread' = [Unread EXCEPT ![e] = 1]
      BY <2>2, <2>3 DEF Unread
    <2>5. e \in Waiting
      BY <2>1 DEF Waiting
    <2> QED
      BY <1>1, <2>3, <2>4, <2>5
  <1> QED
    BY <1>3, <1>4

\* The pair sockets and their two-part messages implement the request/reply service:
\* each request is answered at most once and no client reads an answer to nothing,
\* for any number of clients.
THEOREM Implements == Spec => ImplementsService
  <1>1. Init => Answers!Init
    <2> SUFFICES ASSUME Init PROVE Answers!Init
      OBVIOUS
    <2>1. {c \in Client : thread[c] \in {"send_body", "await_reply"}} = {}
      BY DEF Init
    <2>2. \A c \in Client : Len(replies[c]) = 0
      BY DEF Init
    <2>3. 0 \div 2 = 0
      OBVIOUS
    <2>4. [c \in Client |-> Len(replies[c]) \div 2] = [c \in Client |-> 0]
      BY <2>2, <2>3
    <2> QED
      BY <2>1, <2>4 DEF Answers!Init
  <1>2. IInv /\ IInv' /\ [Next]_vars => [Answers!Next]_(Answers!vars)
    <2> SUFFICES ASSUME IInv, IInv', [Next]_vars PROVE [Answers!Next]_(Answers!vars)
      OBVIOUS
    <2> USE DEF IInv
    <2>1. CASE Waiting' = Waiting /\ Unread' = Unread
      BY <2>1 DEF Answers!vars, Waiting, Unread, Answered
    <2>2. ASSUME NEW c \in Client, ThreadStep(c) \/ PeerStep(c)
          PROVE  [Answers!Next]_(Answers!vars)
      <3>1. CASE c \notin Waiting /\ Waiting' = Waiting \union {c} /\ Unread' = Unread
        <4>1. Answers!Ask(c)
          BY <3>1 DEF Answers!Ask, Waiting, Unread, Answered
        <4> QED
          BY <4>1 DEF Answers!Next
      <3>2. CASE /\ c \in Waiting /\ Unread[c] = 1
                 /\ Unread' = [Unread EXCEPT ![c] = 0] /\ Waiting' = Waiting \ {c}
        <4>1. Answers!Receive(c)
          BY <3>2 DEF Answers!Receive, Waiting, Unread, Answered
        <4> QED
          BY <4>1 DEF Answers!Next
      <3> QED
        BY <2>1, <2>2, <3>1, <3>2, ThreadImplements
    <2>3. CASE ReceiveBody
      <3>1. ASSUME NEW c \in Client, c \in Waiting, Unread[c] = 0,
                   Unread' = [Unread EXCEPT ![c] = 1], Waiting' = Waiting
            PROVE  Answers!Next
        <4>1. Answers!Answer(c)
          BY <3>1 DEF Answers!Answer, Waiting, Unread, Answered
        <4> QED
          BY <4>1 DEF Answers!Next
      <3> QED
        BY <2>1, <2>3, <3>1, BodyImplements
    <2>4. ASSUME NEW c \in Client, Accept(c) PROVE Waiting' = Waiting /\ Unread' = Unread
      BY <2>4, AcceptedIsNew DEF Accept, Waiting, Unread, Answered, TypeOK
    <2>5. CASE AcceptNone \/ Free \/ Join \/ ReceiveLength \/ Command \/ ShutdownJoin \/ Return
      <3>1. UNCHANGED <<thread, replies>>
        BY <2>5 DEF AcceptNone, Free, Join, ReceiveLength, Command, ShutdownJoin, Return,
           client_vars
      <3> QED
        BY <2>1, <3>1 DEF Waiting, Unread, Answered
    <2>6. CASE UNCHANGED vars
      BY <2>1, <2>6 DEF vars, client_vars, Waiting, Unread, Answered
    <2> QED
      BY <2>1, <2>2, <2>3, <2>4, <2>5, <2>6 DEF Next, MasterStep
  <1> QED
    BY <1>1, <1>2, Inductive, PTL DEF Spec, ImplementsService, Answers!Spec
=============================================================================

---------------------------- MODULE SessionProofs ----------------------------
(***************************************************************************)
(* The safety properties of a session, for any intervals and bounds.  The  *)
(* inductive invariant has a part for each: what is held at each place of  *)
(* the thread and what has been lost on the way there, what the client has *)
(* been told, and for the timer that a prompt answer is the packet which   *)
(* the thread takes next.                                                  *)
(***************************************************************************)
EXTENDS Session, SequenceTheorems, TLAPS

\* The places behind the login, and those of the loop.
Joined == {"authenticate", "brand", "settings", "loop", "clientbound"}
Looping == {"loop", "clientbound"}

\* What the thread holds at its place.
Held ==
  (IF pc = "ended" THEN {} ELSE {"fd", "pair_sock"})
  \union (IF pc \in Joined THEN {"secret", "ciphers"} ELSE {})
  \union (IF pc \in Looping THEN {"locale"} ELSE {})

ResourcesExact ==
  IF pc = "killed"
  THEN \A r \in Resources : res[r] \in {0, 1}
  ELSE \A r \in Resources : res[r] = IF r \in Held THEN 1 ELSE 0

\* Until a login is refused for good nothing but requests and chat is lost.
LeakInv ==
  /\ pc \in {"login_start", "response"} => leaked = {} /\ attempts = 0
  /\ "chat" \in leaked => pc \in Looping \union {"ended", "killed"}
  /\ "request" \in leaked => attempts > 0 \/ pc = "ended"
  /\ \/ leaked \subseteq {"request", "chat"}
     \/ leaked \in {{"packet"}, {"sha1_ctx"}} /\ pc \in {"ended", "killed"} /\ attempts = 0

\* Only a round of the loop goes on after a disconnect, to its end.
ToldInv ==
  /\ after_disconnect \in {-1, 0, 1}
  /\ pc \notin {"clientbound", "ended", "killed"} => alive /\ after_disconnect = -1
  /\ pc = "clientbound" => IF alive THEN after_disconnect = -1 ELSE after_disconnect # 1

\* Keep-alives that have arrived are those echoed.
InboxEchoed ==
  \A i \in DOMAIN inbox : inbox[i].id = KEEP_ALIVE => inbox[i].data \in echoed

\* The clock is ahead of every keep-alive sent, and only those are answered.
ClockInv ==
  /\ now > 0 /\ keep_alive_id <= now
  /\ \A t \in ids : t <= keep_alive_id
  /\ prompt \subseteq ids \union {0}

\* A keep-alive that is waited for and was answered promptly has its answer at the head of
\* the inbox, and the thread is about to read it.
AnswerNext ==
  (keep_alive_waiting /\ keep_alive_id \in prompt) =>
    \/ pc = "killed"
    \/ /\ pc = "loop" /\ ~garbled /\ inbox # <<>>
       /\ inbox[1].id = KEEP_ALIVE /\ inbox[1].data = keep_alive_id

TimerInv ==
  /\ InboxEchoed
  /\ ClockInv
  /\ keep_alive_waiting => keep_alive_id # 0 /\ pc \in Looping \union {"ended", "killed"}
  /\ AnswerNext
  /\ timed_out => pc = "ended" /\ keep_alive_id \notin prompt

IInv == TypeOK /\ ResourcesExact /\ LeakInv /\ ToldInv /\ TimerInv

-----------------------------------------------------------------------------
(* Packets and the inbox.                                                  *)

\* A packet has an id and the data that id allows.
LEMMA PacketFacts ==
  ASSUME NEW S, NEW p \in Packets(S)
  PROVE  p.id \in Ids /\ p.data \in Data(p.id, S)
  BY DEF Packets

\* The data of a keep-alive is one of the times.
LEMMA KeepAliveData ==
  ASSUME NEW S, NEW p \in Packets(S), p.id = KEEP_ALIVE
  PROVE  p.data \in S
  BY PacketFacts DEF Data, KEEP_ALIVE, TELEPORT_CONFIRM, ENCRYPTION_RESPONSE, CHAT_MESSAGE

\* More times, more packets.
LEMMA PacketsGrow ==
  ASSUME NEW S, NEW T, S \subseteq T
  PROVE  Packets(S) \subseteq Packets(T)
  <1>1. ASSUME NEW id \in Ids PROVE Data(id, S) \subseteq Data(id, T)
    BY DEF Data, KEEP_ALIVE
  <1> QED
    BY <1>1 DEF Packets

\* A sequence over a set is one over any larger set.
LEMMA SeqGrow ==
  ASSUME NEW S, NEW T, S \subseteq T, NEW s \in Seq(S)
  PROVE  s \in Seq(T)
  <1>1. \A i \in 1 .. Len(s) : s[i] \in T
    OBVIOUS
  <1> QED
    BY <1>1, SeqDef

\* What the inbox becomes when a packet is read: nothing or its tail.
LEMMA ConsumeFacts ==
  ASSUME TypeOK, Consume
  PROVE  /\ inbox' \in Seq(Packets(ids \union {0}))
         /\ partial' \in {"none", "prefix", "body"}
         /\ garbled' \in BOOLEAN
         /\ garbled => garbled'
         /\ \A i \in DOMAIN inbox' : i + 1 \in DOMAIN inbox /\ inbox'[i] = inbox[i + 1]
         /\ inbox # <<>> =>
              \A i \in DOMAIN inbox : i = 1 \/ (i - 1 \in DOMAIN inbox' /\ inbox'[i - 1] = inbox[i])
  <1>1. CASE inbox = <<>>
    <2>1. inbox' = <<>> /\ partial' = "none" /\ garbled' = TRUE
      BY <1>1 DEF Consume
    <2> QED
      BY <1>1, <2>1
  <1>2. CASE inbox # <<>>
    <2>1. inbox' = Tail(inbox) /\ partial' = partial /\ garbled' = garbled
      BY <1>2 DEF Consume, TypeOK
    <2>2. /\ inbox' \in Seq(Packets(ids \union {0})) /\ Len(inbox') = Len(inbox) - 1
          /\ \A i \in 1 .. Len(inbox) - 1 : inbox'[i] = inbox[i + 1]
      BY <1>2, <2>1, HeadTailProperties DEF TypeOK
    <2>3. inbox \in Seq(Packets(ids \union {0})) /\ Len(inbox) \in Nat /\ DOMAIN inbox = 1 .. Len(inbox)
      BY DEF TypeOK
    <2>4. DOMAIN inbox' = 1 .. Len(inbox) - 1
      BY <2>2
    <2>5. \A i \in DOMAIN inbox' : i + 1 \in DOMAIN inbox /\ inbox'[i] = inbox[i + 1]
      BY <2>2, <2>3, <2>4
    <2>6. \A i \in DOMAIN inbox : i = 1 \/ (i - 1 \in DOMAIN inbox' /\ inbox'[i - 1] = inbox[i])
      BY <2>2, <2>3, <2>4
    <2> QED
      BY <2>1, <2>2, <2>5, <2>6 DEF TypeOK
  <1> QED
    BY <1>1, <1>2

-----------------------------------------------------------------------------
(* Types.                                                                  *)

\* The first state is well typed.
LEMMA TypeInit == Init => TypeOK
  <1> SUFFICES ASSUME Init PROVE TypeOK
    OBVIOUS
  <1>1. inbox \in Seq(Packets(ids \union {0}))
    BY DEF Init
  <1>2. res \in [Resources -> Int]
    BY DEF Init
  <1>3. attempts \in 0 .. MaxRetries /\ packets \in 0 .. MaxPackets /\ now \in Nat
    BY SessionAssumption DEF Init
  <1>4. /\ pc = "login_start" /\ partial = "none"
        /\ alive \in BOOLEAN /\ keep_alive_waiting \in BOOLEAN /\ eof \in BOOLEAN
        /\ garbled \in BOOLEAN /\ timed_out \in BOOLEAN
    BY DEF Init
  <1>5. /\ keep_alive_id \in Nat /\ ids \subseteq Nat /\ prompt \subseteq Nat
        /\ full \in BOOLEAN /\ leaked \subseteq Leaks
        /\ echoed \subseteq Nat /\ after_disconnect \in Nat \union {-1}
    BY DEF Init
  <1> QED
    BY <1>1, <1>2, <1>3, <1>4, <1>5 DEF TypeOK

\* Acquiring and releasing change numbers of resources.
LEMMA ResTyped ==
  ASSUME TypeOK, NEW S
  PROVE  Acquire(S) \in [Resources -> Int] /\ Release(S) \in [Resources -> Int]
  BY DEF TypeOK, Acquire, Release

\* A packet that arrives is one the client may send now.
LEMMA SendTyped ==
  ASSUME TypeOK, Send
  PROVE  inbox' \in Seq(Packets(ids \union {0}))
  <1>1. Sendable \subseteq Packets(ids \union {0})
    <2>1. [id |-> CLIENT_STATUS, data |-> 0] \in Packets(ids \union {0})
      <3>1. CLIENT_STATUS \in Ids /\ 0 \in Data(CLIENT_STATUS, ids \union {0})
        BY DEF Ids, Data, CLIENT_STATUS, KEEP_ALIVE, TELEPORT_CONFIRM, ENCRYPTION_RESPONSE,
               CHAT_MESSAGE
      <3> QED
        BY <3>1 DEF Packets
    <2> QED
      BY <2>1 DEF Sendable
  <1>2. PICK p \in Sendable : inbox' = Append(inbox, p)
    BY DEF Send
  <1> QED
    BY <1>1, <1>2, AppendProperties DEF TypeOK

\* Every step of thread, client and clock keeps the types.
LEMMA TypeStep ==
  ASSUME TypeOK, [Next]_vars
  PROVE  TypeOK'
  <1> USE SessionAssumption
  <1>1. CASE Send
    <2>1. PICK p \in Sendable :
            /\ echoed' = IF p.id = KEEP_ALIVE THEN echoed \union {p.data} ELSE echoed
            /\ \/ prompt' = prompt
               \/ p.id = KEEP_ALIVE /\ prompt' = prompt \union {p.data}
      BY <1>1 DEF Send
    <2>2. p \in Packets(ids \union {0}) \/ p.id = CLIENT_STATUS
      BY <2>1 DEF Sendable
    <2>3. p.id = KEEP_ALIVE => p.data \in Nat
      <3>1. p.id = KEEP_ALIVE => p \in Packets(ids \union {0})
        BY <2>2 DEF KEEP_ALIVE, CLIENT_STATUS
      <3>2. ids \union {0} \subseteq Nat
        BY DEF TypeOK
      <3> QED
        BY <3>1, <3>2, KeepAliveData
    <2>4. echoed' \subseteq Nat /\ prompt' \subseteq Nat
      BY <2>1, <2>3 DEF TypeOK
    <2>5. packets' \in 0 .. MaxPackets
      BY <1>1 DEF Send, Count, TypeOK
    <2> QED
      BY <1>1, <2>4, <2>5, SendTyped DEF Send, TypeOK, thread_vars, timer_vars, told_vars
  <1>2. CASE SendPart
    BY <1>2 DEF SendPart, Count, TypeOK, thread_vars, timer_vars, told_vars
  <1>3. CASE Disconnect
    BY <1>3 DEF Disconnect, TypeOK, thread_vars, timer_vars, told_vars, stream_vars
  <1>4. CASE Misread
    <2>1. inbox' \in Seq(Packets(ids \union {0}))
      BY <1>4, HeadTailProperties DEF Misread, TypeOK
    <2> QED
      BY <1>4, <2>1 DEF Misread, TypeOK, thread_vars, timer_vars, told_vars, client_vars
  <1>5. CASE Killed
    BY <1>5 DEF Killed, TypeOK, timer_vars, told_vars, client_vars, stream_vars
  <1>6. CASE LoginStart
    <2>1. /\ pc' \in {"response", "ended"} /\ res' \in [Resources -> Int] /\ full' \in BOOLEAN
          /\ UNCHANGED leaked \/ Forget({}) \/ Forget({"packet"})
          /\ Consume /\ UNCHANGED attempts /\ UNCHANGED_in_login
      BY <1>6, ResTyped
      DEF LoginStart, Unexpected, Go, DisconnectAndClose, Leave, Write, TypeOK
    <2>2. leaked' \subseteq Leaks
      BY <2>1 DEF Forget, Leaks, TypeOK
    <2> QED
      BY <2>1, <2>2, ConsumeFacts
      DEF TypeOK, UNCHANGED_in_login, timer_vars, told_vars, client_vars
  <1>7. CASE EncryptionResponse
    <2>1. /\ pc' \in {"authenticate", "ended", "killed"} /\ res' \in [Resources -> Int]
          /\ full' \in BOOLEAN
          /\ UNCHANGED leaked \/ Forget({}) \/ Forget({"packet"})
          /\ Consume /\ UNCHANGED attempts /\ UNCHANGED_in_login
      BY <1>7, ResTyped
      DEF EncryptionResponse, Unexpected, Go, DisconnectAndClose, Leave, Write, TypeOK
    <2>2. leaked' \subseteq Leaks
      BY <2>1 DEF Forget, Leaks, TypeOK
    <2> QED
      BY <2>1, <2>2, ConsumeFacts
      DEF TypeOK, UNCHANGED_in_login, timer_vars, told_vars, client_vars
  <1>8. CASE DigestInitFails \/ DigestFinalFails \/ Retry \/ NoUuid \/ Join
    <2>1. /\ pc' \in {"authenticate", "brand", "ended", "killed"} /\ res' \in [Resources -> Int]
          /\ full' \in BOOLEAN
          /\ UNCHANGED leaked \/ Forget({}) \/ Forget({"sha1_ctx"}) \/ Forget({"request"})
          /\ attempts' \in 0 .. MaxRetries /\ UNCHANGED_in_authentication
      BY <1>8, ResTyped
      DEF DigestInitFails, DigestFinalFails, NoDigest, Retry, NoUuid, Join, Go, DisconnectAndClose, Leave,
          Write, TypeOK
    <2>2. leaked' \subseteq Leaks
      BY <2>1 DEF Forget, Leaks, TypeOK
    <2> QED
      BY <2>1, <2>2
      DEF TypeOK, UNCHANGED_in_authentication, UNCHANGED_in_login, timer_vars, told_vars,
          client_vars, stream_vars
  <1>9. CASE Settings
    <2>1. /\ pc' \in {"settings", "loop", "ended"} /\ res' \in [Resources -> Int]
          /\ after_disconnect' \in Nat \union {-1} /\ full' \in BOOLEAN /\ Consume
          /\ UNCHANGED <<leaked, attempts, alive, now, timer_vars, client_vars, timed_out>>
      BY <1>9, ResTyped DEF Settings, Go, Leave, Say, SayDisconnect, SayNothing, Write, TypeOK
    <2> QED
      BY <2>1, ConsumeFacts DEF TypeOK, timer_vars, client_vars
  <1>10. CASE Handle
    <2>1. /\ alive' \in BOOLEAN /\ keep_alive_waiting' \in BOOLEAN
          /\ after_disconnect' \in Nat \union {-1} /\ full' \in BOOLEAN
          /\ leaked' \subseteq Leaks
          /\ Consume /\ pc' = "clientbound"
          /\ UNCHANGED <<res, attempts, now, keep_alive_id, ids, client_vars, timed_out>>
      <3>1. /\ \/ UNCHANGED alive \/ alive' = FALSE
            /\ \/ UNCHANGED keep_alive_waiting \/ keep_alive_waiting' = FALSE
            /\ SayNothing \/ Say \/ SayDisconnect
            /\ UNCHANGED leaked \/ Forget({"chat"})
        BY <1>10, Zenon DEF Handle, Refuse, Chat
      <3>2. after_disconnect' \in Nat \union {-1} /\ full' \in BOOLEAN
        BY <3>1 DEF Say, SayDisconnect, SayNothing, Write, TypeOK
      <3>3. leaked' \subseteq Leaks
        BY <3>1 DEF Forget, Leaks, TypeOK
      <3> QED
        BY <1>10, <3>1, <3>2, <3>3 DEF Handle, TypeOK
    <2> QED
      BY <2>1, ConsumeFacts DEF TypeOK, client_vars
  <1>11. CASE NoPacket
    BY <1>11 DEF NoPacket, TypeOK, timer_vars, told_vars, client_vars, stream_vars
  <1>12. CASE Clientbound
    <2>1. pc' \in {"loop", "ended"} /\ res' \in [Resources -> Int]
      BY <1>12, ResTyped DEF Clientbound, Go, Leave, TypeOK
    <2>2. /\ alive' \in BOOLEAN /\ keep_alive_waiting' \in BOOLEAN /\ timed_out' \in BOOLEAN
          /\ after_disconnect' \in Nat \union {-1} /\ full' \in BOOLEAN
          /\ keep_alive_id' \in Nat /\ ids' \subseteq Nat /\ ids \subseteq ids'
      <3>1. CASE SendKeepAlive
        BY <3>1 DEF SendKeepAlive, Say, Write, TypeOK
      <3>2. CASE Kick
        <4>1. /\ alive' = FALSE /\ timed_out' = TRUE
              /\ UNCHANGED keep_alive_waiting /\ UNCHANGED <<keep_alive_id, ids>>
          BY <3>2 DEF Kick, timer_vars
        <4>2. after_disconnect' \in Nat \union {-1} /\ full' \in BOOLEAN
          BY <3>2 DEF Kick, SayDisconnect, Write, TypeOK
        <4> QED
          BY <4>1, <4>2 DEF TypeOK
      <3>3. CASE SayNothing /\ UNCHANGED <<alive, timer_vars, timed_out>>
        BY <3>3 DEF SayNothing, TypeOK, timer_vars
      <3> QED
        BY <1>12, <3>1, <3>2, <3>3 DEF Clientbound
    <2>3. inbox' \in Seq(Packets(ids' \union {0}))
      <3>1. inbox' = inbox
        BY <1>12 DEF Clientbound, stream_vars
      <3> QED
        BY <3>1, <2>2, PacketsGrow, SeqGrow DEF TypeOK
    <2> QED
      BY <1>12, <2>1, <2>2, <2>3 DEF Clientbound, TypeOK, stream_vars, client_vars
  <1>13. CASE Tick
    BY <1>13 DEF Tick, TypeOK, thread_vars, timer_vars, told_vars, client_vars, stream_vars
  <1>14. CASE Drain
    BY <1>14 DEF Drain, TypeOK, thread_vars, timer_vars, told_vars, client_vars, stream_vars
  <1>15. CASE UNCHANGED vars
    BY <1>15 DEF vars, TypeOK, thread_vars, timer_vars, told_vars, client_vars, stream_vars
  <1> QED
    BY <1>1, <1>2, <1>3, <1>4, <1>5, <1>6, <1>7, <1>8, <1>9, <1>10, <1>11, <1>12, <1>13, <1>14,
       <1>15
    DEF Next, Thread

-----------------------------------------------------------------------------
(* Resources.                                                              *)

\* A session starts with the descriptor and the pair socket alone.
LEMMA ResourcesInit == Init => ResourcesExact
  BY DEF Init, ResourcesExact, Held, Joined, Looping, Resources

\* A step releases what is held where it starts and acquires what is held where it
\* ends; only being killed leaves things as they are.
LEMMA ResourcesStep ==
  ASSUME TypeOK, ResourcesExact, [Next]_vars
  PROVE  ResourcesExact'
  <1> USE DEF ResourcesExact, Held, Joined, Looping
  <1>1. ASSUME UNCHANGED <<pc, res>> PROVE ResourcesExact'
    BY <1>1
  <1>2. CASE Killed
    BY <1>2 DEF Killed
  <1>3. CASE LoginStart
    BY <1>3 DEF LoginStart, Unexpected, Go, DisconnectAndClose, Leave, Release, Resources
  <1>4. CASE EncryptionResponse
    <2>1. \/ DisconnectAndClose({})
          \/ Go("killed")
          \/ pc' = "authenticate" /\ res' = Acquire({"secret", "ciphers"})
      BY <1>4 DEF EncryptionResponse, Unexpected
    <2>2. pc = "response"
      BY <1>4 DEF EncryptionResponse
    <2> QED
      BY <2>1, <2>2 DEF DisconnectAndClose, Leave, Go, Acquire, Release, Resources
  <1>5. CASE DigestInitFails \/ DigestFinalFails \/ Retry \/ NoUuid \/ Join
    BY <1>5
    DEF DigestInitFails, DigestFinalFails, NoDigest, Retry, NoUuid, Join, DisconnectAndClose, Leave, Go,
        Release, Resources
  <1>6. CASE Settings
    <2>1. \/ pc' = "settings" /\ UNCHANGED res
          \/ pc' = "loop" /\ res' = Acquire({"locale"})
          \/ Leave(AfterPlay)
      BY <1>6 DEF Settings, Go
    <2>2. pc \in {"brand", "settings"}
      BY <1>6 DEF Settings
    <2> QED
      BY <2>1, <2>2 DEF Leave, AfterPlay, Acquire, Release, Resources
  <1>7. CASE Handle
    BY <1>7 DEF Handle
  <1>8. CASE Clientbound
    <2>1. pc \in Looping /\ (Go("loop") \/ Leave(AfterPlay))
      BY <1>8 DEF Clientbound
    <2> QED
      BY <2>1 DEF Leave, AfterPlay, Go, Release, Resources
  <1>9. CASE NoPacket
    BY <1>9 DEF NoPacket
  <1>10. CASE Send \/ SendPart \/ Disconnect \/ Drain \/ Misread \/ Tick \/ UNCHANGED vars
    BY <1>10, <1>1 DEF Send, SendPart, Disconnect, Drain, Misread, Tick, vars, thread_vars
  <1> QED
    BY <1>2, <1>3, <1>4, <1>5, <1>6, <1>7, <1>8, <1>9, <1>10 DEF Next, Thread

-----------------------------------------------------------------------------
(* What is lost.                                                           *)

\* Nothing has been yet.
LEMMA LeakInit == Init => LeakInv
  BY DEF Init, LeakInv

\* A step that loses a packet's data or the digest's context is the session's last, and
\* no request has failed before it.
LEMMA LeakStep ==
  ASSUME TypeOK, LeakInv, [Next]_vars
  PROVE  LeakInv'
  <1> USE DEF LeakInv, Looping
  <1>1. ASSUME UNCHANGED <<pc, leaked, attempts>> PROVE LeakInv'
    BY <1>1
  <1>2. CASE Killed
    BY <1>2 DEF Killed
  <1>3. CASE LoginStart \/ EncryptionResponse
    <2>1. /\ pc \in {"login_start", "response"} /\ UNCHANGED attempts
          /\ \/ pc' \in {"response", "authenticate", "ended", "killed"} /\ UNCHANGED leaked
             \/ pc' = "ended" /\ (Forget({}) \/ Forget({"packet"}))
      BY <1>3 DEF LoginStart, EncryptionResponse, Unexpected, DisconnectAndClose, Leave, Go
    <2>2. leaked = {} /\ attempts = 0
      BY <2>1
    <2> QED
      BY <2>1, <2>2 DEF Forget
  <1>4. CASE DigestInitFails
    <2>1. /\ pc = "authenticate" /\ attempts = 0 /\ pc' \in {"ended", "killed"} /\ attempts' = 0
          /\ Forget({}) \/ Forget({"sha1_ctx"})
      BY <1>4 DEF DigestInitFails, NoDigest, DisconnectAndClose, Leave, Go
    <2>2. leaked = {}
      BY <2>1
    <2> QED
      BY <2>1, <2>2 DEF Forget
  <1>5. CASE DigestFinalFails \/ NoUuid \/ Join
    BY <1>5 DEF DigestFinalFails, NoDigest, NoUuid, Join, DisconnectAndClose, Leave, Go
  <1>6. CASE Retry
    <2>1. /\ pc = "authenticate" /\ Forget({"request"})
          /\ \/ pc' = "authenticate" /\ attempts' = attempts + 1
             \/ pc' = "ended" /\ UNCHANGED attempts
      BY <1>6 DEF Retry, DisconnectAndClose, Leave, Go
    <2>2. attempts \in Nat
      BY SessionAssumption DEF TypeOK
    <2> QED
      BY <2>1, <2>2 DEF Forget
  <1>7. CASE Settings
    BY <1>7 DEF Settings, Leave, Go
  <1>8. CASE Handle
    <2>1. /\ pc = "loop" /\ pc' = "clientbound" /\ UNCHANGED attempts
          /\ UNCHANGED leaked \/ Forget({"chat"})
      BY <1>8, Zenon DEF Handle, Refuse, Chat
    <2> QED
      BY <2>1 DEF Forget
  <1>9. CASE NoPacket \/ Clientbound
    BY <1>9 DEF NoPacket, Clientbound, Leave, Go
  <1>10. CASE Send \/ SendPart \/ Disconnect \/ Drain \/ Misread \/ Tick \/ UNCHANGED vars
    BY <1>10, <1>1 DEF Send, SendPart, Disconnect, Drain, Misread, Tick, vars, thread_vars
  <1> QED
    BY <1>2, <1>3, <1>4, <1>5, <1>6, <1>7, <1>8, <1>9, <1>10 DEF Next, Thread

-----------------------------------------------------------------------------
(* What the client is told.                                                *)

\* Nobody has been told anything yet.
LEMMA ToldInit == Init => ToldInv
  BY DEF Init, ToldInv

\* A disconnect is the last packet or the last but one, as alive ends the loop.
LEMMA ToldStep ==
  ASSUME TypeOK, ToldInv, [Next]_vars
  PROVE  ToldInv'
  <1>1. CASE Killed
    BY <1>1 DEF Killed, ToldInv, told_vars
  <1>2. CASE \/ LoginStart \/ EncryptionResponse
             \/ DigestInitFails \/ DigestFinalFails \/ Retry \/ NoUuid \/ Join
    <2>1. /\ pc \in {"login_start", "response", "authenticate"}
          /\ pc' \in {"response", "authenticate", "brand", "ended", "killed"}
          /\ UNCHANGED_in_login
      BY <1>2
      DEF LoginStart, EncryptionResponse, Unexpected, DigestInitFails, DigestFinalFails, NoDigest, Retry,
          NoUuid, Join, Go, Leave, DisconnectAndClose, UNCHANGED_in_authentication
    <2> QED
      BY <2>1 DEF UNCHANGED_in_login, told_vars, ToldInv
  <1>3. CASE Settings
    <2>1. /\ pc \in {"brand", "settings"} /\ UNCHANGED alive
          /\ \/ pc' \in {"settings", "loop", "ended"} /\ UNCHANGED after_disconnect
             \/ pc' = "loop" /\ Say
             \/ pc' = "ended" /\ SayDisconnect
      BY <1>3 DEF Settings, Go, Leave, SayNothing
    <2> QED
      BY <2>1 DEF ToldInv, Say, SayDisconnect
  <1>4. CASE Handle
    <2>1. /\ pc = "loop" /\ pc' = "clientbound"
          /\ \/ alive' = FALSE /\ (UNCHANGED after_disconnect \/ SayDisconnect)
             \/ UNCHANGED alive /\ (UNCHANGED after_disconnect \/ Say)
      <3>1. /\ pc = "loop" /\ pc' = "clientbound"
            /\ \/ alive' = FALSE /\ (SayNothing \/ SayDisconnect)
               \/ UNCHANGED alive /\ (SayNothing \/ Say)
        BY <1>4, Zenon DEF Handle, Refuse, Chat
      <3> QED
        BY <3>1 DEF SayNothing
    <2>2. alive /\ after_disconnect = -1
      BY <2>1 DEF ToldInv
    <2>3. CASE alive' = FALSE
      <3>1. after_disconnect' \in {-1, 0}
        <4>1. UNCHANGED after_disconnect \/ SayDisconnect \/ Say
          BY <2>1
        <4>2. after_disconnect = -1
          BY <2>2
        <4> QED
          BY <4>1, <4>2 DEF Say, SayDisconnect
      <3>2. ~alive'
        BY <2>3
      <3> QED
        BY <2>1, <3>1, <3>2 DEF ToldInv
    <2>4. CASE UNCHANGED alive /\ (UNCHANGED after_disconnect \/ Say)
      <3>1. after_disconnect' = -1
        BY <2>2, <2>4 DEF Say
      <3> QED
        BY <2>1, <2>2, <2>4, <3>1 DEF ToldInv
    <2> QED
      BY <2>1, <2>3, <2>4
  <1>5. CASE Clientbound
    <2>1. /\ pc \in Looping
          /\ \/ UNCHANGED alive /\ Say
             \/ alive' = FALSE /\ SayDisconnect
             \/ UNCHANGED <<alive, after_disconnect>>
          /\ IF alive' THEN pc' = "loop" ELSE pc' = "ended"
      BY <1>5 DEF Clientbound, SendKeepAlive, Kick, Go, Leave, SayNothing, Looping
    <2> QED
      BY <2>1 DEF ToldInv, Say, SayDisconnect, Looping, TypeOK
  <1>6. CASE NoPacket
    BY <1>6 DEF NoPacket, told_vars, ToldInv
  <1>7. CASE Send \/ SendPart \/ Disconnect \/ Drain \/ Misread \/ Tick \/ UNCHANGED vars
    BY <1>7
    DEF Send, SendPart, Disconnect, Drain, Misread, Tick, vars, thread_vars, told_vars, ToldInv
  <1> QED
    BY <1>1, <1>2, <1>3, <1>4, <1>5, <1>6, <1>7 DEF Next, Thread

-----------------------------------------------------------------------------
(* The timer.                                                              *)

\* No keep-alive has been sent yet.
LEMMA TimerInit == Init => TimerInv
  <1> SUFFICES ASSUME Init PROVE TimerInv
    OBVIOUS
  <1>1. inbox = <<>> /\ DOMAIN inbox = {}
    BY DEF Init
  <1>2. ClockInv
    BY SessionAssumption DEF Init, ClockInv
  <1> QED
    BY <1>1, <1>2 DEF Init, TimerInv, InboxEchoed, AnswerNext

\* Nothing the timer depends on changes, but the thread may end.
LEMMA TimerKept ==
  ASSUME TypeOK, TimerInv,
         UNCHANGED <<keep_alive_waiting, keep_alive_id, ids, now, prompt, echoed, timed_out>>,
         UNCHANGED <<inbox, garbled>>,
         \/ pc' = pc
         \/ pc # "ended" /\ ~keep_alive_waiting
         \/ pc # "ended" /\ pc' = "killed"
  PROVE  TimerInv'
  BY DEF TimerInv, InboxEchoed, ClockInv, AnswerNext

\* A packet is read that does not matter to the timer, as no prompt answer is waited for.
LEMMA TimerConsume ==
  ASSUME TypeOK, TimerInv, Consume,
         UNCHANGED <<keep_alive_id, ids, now, prompt, echoed, timed_out>>,
         ~timed_out,
         keep_alive_waiting' => /\ keep_alive_waiting /\ keep_alive_id \notin prompt
                                /\ pc' \in Looping \union {"ended", "killed"}
  PROVE  TimerInv'
  <1>1. InboxEchoed'
    BY ConsumeFacts DEF TimerInv, InboxEchoed
  <1>2. ClockInv' /\ AnswerNext'
    BY DEF TimerInv, ClockInv, AnswerNext
  <1> QED
    BY <1>1, <1>2 DEF TimerInv

\* A packet that is received is the first of the inbox, unless reads are out of step.
LEMMA ReceivedFacts ==
  ASSUME TypeOK, NEW p \in Received
  PROVE  /\ inbox # <<>> /\ ~garbled => p = inbox[1] /\ p \in Packets(ids \union {0})
         /\ p \in Packets({0}) \/ p = NULL \/ (inbox # <<>> /\ ~garbled)
  <1>1. CASE inbox # <<>> /\ ~garbled
    <2>1. p = Head(inbox)
      BY <1>1 DEF Received
    <2>2. Head(inbox) = inbox[1] /\ Head(inbox) \in Packets(ids \union {0})
      BY <1>1, HeadTailProperties DEF TypeOK
    <2> QED
      BY <1>1, <2>1, <2>2
  <1>2. CASE ~(inbox # <<>> /\ ~garbled)
    <2>1. p \in Scrambled
      BY <1>2 DEF Received
    <2> QED
      BY <1>2, <2>1 DEF Scrambled
  <1> QED
    BY <1>1, <1>2

\* No packet is taken for the absence of one.
LEMMA PacketNotNull ==
  ASSUME TypeOK, NEW p \in Packets(ids \union {0})
  PROVE  p # NULL
  <1>0. PICK id \in Ids : \E d \in Data(id, ids \union {0}) : p = [id |-> id, data |-> d]
    BY DEF Packets
  <1>1. PICK d \in Data(id, ids \union {0}) : p = [id |-> id, data |-> d]
    BY <1>0
  <1>2. id \in Nat
    BY DEF Ids, LOGIN_START, ENCRYPTION_RESPONSE, CHAT_MESSAGE, CLIENT_STATUS,
           CLIENT_SETTINGS, PLUGIN_MESSAGE, KEEP_ALIVE
  <1>3. d \in Int
    BY DEF Data, GOOD, BAD_SECRET, BAD_TOKEN, OTHER_TOKEN, COMMAND, TypeOK
  <1> QED
    BY <1>1, <1>2, <1>3, SessionAssumption

\* A round of the loop stops the wait only for the answer, and keeps it up only if
\* the packet read was not the answer.
LEMMA HandleFacts ==
  ASSUME TypeOK, Handle, keep_alive_waiting
  PROVE  /\ keep_alive_waiting' \/ keep_alive_waiting' = FALSE
         /\ ~keep_alive_waiting' => \E p \in Received : p # NULL /\ Accepts(p)
         /\ (keep_alive_waiting' /\ inbox # <<>> /\ ~garbled) =>
              ~(inbox[1].id = KEEP_ALIVE /\ inbox[1].data = keep_alive_id)
  <1>1. PICK p \in Received :
          \/ p = NULL /\ UNCHANGED keep_alive_waiting
          \/ p # NULL /\ Offends(p) /\ UNCHANGED keep_alive_waiting
          \/ p # NULL /\ Accepts(p) /\ keep_alive_waiting' = FALSE
          \/ p # NULL /\ p.id # KEEP_ALIVE /\ UNCHANGED keep_alive_waiting
    <2> USE DEF Chat
    <2>1. \A q : q = [id |-> TELEPORT_CONFIRM, data |-> teleport_id - 1] => q.id # KEEP_ALIVE
      BY DEF TELEPORT_CONFIRM, KEEP_ALIVE
    <2>2. \A q : q.id \in Unknown \union Ignored \union {CHAT_MESSAGE} => q.id # KEEP_ALIVE
      BY DEF Unknown, Ignored, CHAT_MESSAGE, KEEP_ALIVE, ENCRYPTION_RESPONSE, CLIENT_STATUS,
             CLIENT_SETTINGS, PLUGIN_MESSAGE
    <2> QED
      BY <2>1, <2>2, Zenon DEF Handle, Refuse
  <1>2. Offends(p) => ~(p.id = KEEP_ALIVE /\ p.data = keep_alive_id)
    BY DEF Offends, Accepts, TELEPORT_CONFIRM, KEEP_ALIVE
  <1>3. ~keep_alive_waiting' => p # NULL /\ Accepts(p)
    BY <1>1
  <1>4. ASSUME keep_alive_waiting', inbox # <<>>, ~garbled
        PROVE  ~(inbox[1].id = KEEP_ALIVE /\ inbox[1].data = keep_alive_id)
    <2>1. p = inbox[1] /\ p # NULL
      BY <1>4, ReceivedFacts, PacketNotNull
    <2> QED
      BY <1>1, <1>2, <1>4, <2>1
  <1> QED
    BY <1>1, <1>3, <1>4

\* A prompt answer comes to the head of the inbox; another packet comes behind it.
LEMMA SendStep ==
  ASSUME TypeOK, TimerInv, Send
  PROVE  TimerInv'
  <1>1. UNCHANGED <<pc, now, keep_alive_waiting, keep_alive_id, ids, garbled, timed_out>>
    BY DEF Send, thread_vars, timer_vars, told_vars
  <1>2. PICK p \in Sendable :
          /\ inbox' = Append(inbox, p)
          /\ echoed' = IF p.id = KEEP_ALIVE THEN echoed \union {p.data} ELSE echoed
          /\ \/ prompt' = prompt
             \/ /\ prompt' = prompt \union {p.data} /\ p.id = KEEP_ALIVE
                /\ pc = "loop" /\ inbox = <<>> /\ ~garbled
    BY DEF Send
  <1>3. p.id = KEEP_ALIVE => p.data \in ids \union {0}
    BY KeepAliveData DEF Sendable, KEEP_ALIVE, CLIENT_STATUS
  <1>4. /\ \A i \in DOMAIN inbox : i \in DOMAIN inbox' /\ inbox'[i] = inbox[i]
        /\ \A i \in DOMAIN inbox' : i \in DOMAIN inbox \/ inbox'[i] = p
        /\ inbox' # <<>>
        /\ inbox = <<>> => inbox'[1] = p
        /\ inbox # <<>> => inbox'[1] = inbox[1]
    <2>1. inbox \in Seq(Packets(ids \union {0}) \union {p})
      BY SeqGrow DEF TypeOK
    <2>2. /\ Len(inbox') = Len(inbox) + 1 /\ DOMAIN inbox' = 1 .. Len(inbox')
          /\ \A i \in 1 .. Len(inbox) : inbox'[i] = inbox[i]
          /\ inbox'[Len(inbox) + 1] = p
      BY <1>2, <2>1, AppendProperties
    <2>3. DOMAIN inbox = 1 .. Len(inbox) /\ Len(inbox) \in Nat
      BY <2>1
    <2>4. inbox # <<>> => Len(inbox) >= 1
      BY <2>1
    <2> QED
      BY <2>2, <2>3, <2>4
  <1>5. InboxEchoed'
    BY <1>2, <1>4 DEF TimerInv, InboxEchoed
  <1>6. ClockInv'
    <2>1. prompt' \subseteq ids \union {0}
      BY <1>2, <1>3 DEF TimerInv, ClockInv
    <2> QED
      BY <1>1, <2>1 DEF TimerInv, ClockInv
  <1>7. AnswerNext'
    <2> SUFFICES ASSUME keep_alive_waiting, keep_alive_id \in prompt', pc # "killed"
                 PROVE  /\ pc = "loop" /\ ~garbled /\ inbox' # <<>>
                        /\ inbox'[1].id = KEEP_ALIVE /\ inbox'[1].data = keep_alive_id
      BY <1>1 DEF AnswerNext
    <2>1. CASE keep_alive_id \in prompt
      BY <1>4, <2>1 DEF TimerInv, AnswerNext
    <2>2. CASE keep_alive_id \notin prompt
      BY <1>2, <1>4, <2>2
    <2> QED
      BY <2>1, <2>2
  <1>8. timed_out => pc = "ended" /\ keep_alive_id \notin prompt'
    BY <1>2 DEF TimerInv
  <1> QED
    BY <1>1, <1>5, <1>6, <1>7, <1>8 DEF TimerInv

\* A keep-alive is newer than all before it; a client is dropped only when no prompt answer
\* is waited for, for that would have been read first.
LEMMA ClientboundStep ==
  ASSUME TypeOK, TimerInv, Clientbound
  PROVE  TimerInv'
  <1>1. /\ pc = "clientbound" /\ pc' \in {"loop", "ended"}
        /\ UNCHANGED <<now, inbox, garbled, prompt, echoed>>
    BY DEF Clientbound, Go, Leave, stream_vars, client_vars
  <1>2. /\ ~timed_out
        /\ keep_alive_waiting => keep_alive_id \notin prompt
    BY <1>1 DEF TimerInv, AnswerNext
  <1>3. InboxEchoed'
    BY <1>1 DEF TimerInv, InboxEchoed
  <1>4. CASE SendKeepAlive
    <2>1. /\ keep_alive_id' = now /\ keep_alive_waiting' = TRUE
          /\ ids' = ids \union {now} /\ timed_out' = timed_out
          /\ Age > KeepAliveInterval
      BY <1>4 DEF SendKeepAlive, KeepAliveDue
    <2>2. keep_alive_id < now
      BY <2>1, SessionAssumption DEF Age, TypeOK
    <2>3. ids \subseteq Nat /\ now \in Nat /\ keep_alive_id \in Nat
      BY DEF TypeOK
    <2>4. now \notin prompt
      BY <2>2, <2>3 DEF TimerInv, ClockInv
    <2>5. \A t \in ids' : t <= now
      BY <2>1, <2>2, <2>3 DEF TimerInv, ClockInv
    <2>6. ClockInv'
      BY <1>1, <2>1, <2>3, <2>5 DEF TimerInv, ClockInv
    <2>7. AnswerNext'
      BY <1>1, <2>1, <2>4 DEF AnswerNext
    <2>8. ~timed_out'
      BY <1>2, <2>1
    <2>9. keep_alive_id' # 0
      BY <2>1, <2>3 DEF TimerInv, ClockInv
    <2> QED
      BY <1>1, <1>3, <2>6, <2>7, <2>8, <2>9 DEF TimerInv, Looping
  <1>5. CASE Kick
    <2>1. /\ keep_alive_waiting
          /\ UNCHANGED <<keep_alive_waiting, keep_alive_id, ids>>
          /\ ~alive'
      BY <1>5 DEF Kick, KickDue, timer_vars
    <2>2. pc' = "ended"
      BY <2>1 DEF Clientbound, Leave
    <2>3. ClockInv' /\ AnswerNext'
      BY <1>1, <1>2, <2>1 DEF TimerInv, ClockInv, AnswerNext
    <2> QED
      BY <1>1, <1>2, <1>3, <2>1, <2>2, <2>3 DEF TimerInv
  <1>6. CASE UNCHANGED <<alive, timer_vars, timed_out>>
    <2>1. UNCHANGED <<keep_alive_waiting, keep_alive_id, ids, now, echoed, timed_out>>
      BY <1>1, <1>6 DEF timer_vars
    <2>2. ClockInv' /\ AnswerNext'
      BY <1>1, <1>2, <2>1 DEF TimerInv, ClockInv, AnswerNext
    <2> QED
      BY <1>1, <1>2, <1>3, <2>1, <2>2 DEF TimerInv, Looping
  <1> QED
    BY <1>4, <1>5, <1>6 DEF Clientbound

\* Every step keeps the timer's invariant.
LEMMA TimerStep ==
  ASSUME TypeOK, TimerInv, [Next]_vars
  PROVE  TimerInv'
  <1>1. CASE Send
    BY <1>1, SendStep
  <1>2. CASE SendPart \/ Disconnect \/ Drain \/ UNCHANGED vars
    BY <1>2, TimerKept
    DEF SendPart, Disconnect, Drain, vars, thread_vars, timer_vars, told_vars, stream_vars,
        client_vars
  <1>3. CASE Misread
    <2>1. /\ garbled /\ garbled' = garbled /\ inbox' = Tail(inbox) /\ inbox # <<>>
          /\ UNCHANGED <<pc, now, keep_alive_waiting, keep_alive_id, ids, prompt, echoed,
                         timed_out>>
      BY <1>3 DEF Misread, thread_vars, timer_vars, told_vars, client_vars
    <2>2. \A i \in DOMAIN inbox' : i + 1 \in DOMAIN inbox /\ inbox'[i] = inbox[i + 1]
      BY <2>1, HeadTailProperties DEF TypeOK
    <2>3. InboxEchoed'
      BY <2>1, <2>2 DEF TimerInv, InboxEchoed
    <2> QED
      BY <2>1, <2>3 DEF TimerInv, ClockInv, AnswerNext
  <1>4. CASE Killed
    BY <1>4, TimerKept DEF Killed, timer_vars, told_vars, stream_vars, client_vars
  <1>5. CASE LoginStart \/ EncryptionResponse \/ Settings
    <2>1. /\ pc \in {"login_start", "response", "brand", "settings"} /\ Consume
          /\ UNCHANGED <<keep_alive_waiting, keep_alive_id, ids, now, prompt, echoed, timed_out>>
      BY <1>5
      DEF LoginStart, EncryptionResponse, Settings, UNCHANGED_in_login, timer_vars, told_vars,
          client_vars
    <2>2. ~keep_alive_waiting /\ ~timed_out
      BY <2>1 DEF TimerInv, Looping
    <2> QED
      BY <2>1, <2>2, TimerConsume
  <1>6. CASE DigestInitFails \/ DigestFinalFails \/ Retry \/ NoUuid \/ Join
    <2>1. pc = "authenticate" /\ UNCHANGED_in_authentication
      BY <1>6 DEF DigestInitFails, DigestFinalFails, NoDigest, Retry, NoUuid, Join
    <2>2. ~keep_alive_waiting
      BY <2>1 DEF TimerInv, Looping
    <2> QED
      BY <2>1, <2>2, TimerKept
      DEF UNCHANGED_in_authentication, UNCHANGED_in_login, timer_vars, told_vars, stream_vars,
          client_vars
  <1>7. CASE Handle
    <2>1. /\ pc = "loop" /\ pc' = "clientbound" /\ Consume
          /\ UNCHANGED <<keep_alive_id, ids, now, prompt, echoed, timed_out>>
      BY <1>7 DEF Handle, client_vars
    <2>2. ~timed_out
      BY <2>1 DEF TimerInv
    <2>3. keep_alive_waiting' = keep_alive_waiting \/ keep_alive_waiting' = FALSE
      BY <1>7, Zenon DEF Handle, Refuse, Chat
    <2>4. ASSUME keep_alive_waiting'
          PROVE  keep_alive_waiting /\ keep_alive_id \notin prompt
      <3>1. keep_alive_waiting
        BY <2>3, <2>4
      <3>2. (inbox # <<>> /\ ~garbled) =>
              ~(inbox[1].id = KEEP_ALIVE /\ inbox[1].data = keep_alive_id)
        BY <1>7, <2>4, <3>1, HandleFacts
      <3> QED
        BY <2>1, <3>1, <3>2 DEF TimerInv, AnswerNext
    <2> QED
      BY <2>1, <2>2, <2>4, TimerConsume DEF Looping
  <1>8. CASE NoPacket
    <2>1. /\ pc = "loop" /\ pc' = "clientbound" /\ inbox = <<>>
          /\ UNCHANGED <<keep_alive_waiting, keep_alive_id, ids, now, prompt, echoed, timed_out,
                         inbox, garbled>>
      BY <1>8 DEF NoPacket, Quiet, timer_vars, told_vars, stream_vars, client_vars
    <2> QED
      BY <2>1 DEF TimerInv, InboxEchoed, ClockInv, AnswerNext, Looping
  <1>9. CASE Clientbound
    BY <1>9, ClientboundStep
  <1>10. CASE Tick
    <2>1. /\ now' = now + 1
          /\ UNCHANGED <<pc, keep_alive_waiting, keep_alive_id, ids, prompt, echoed, timed_out,
                         inbox, garbled>>
      BY <1>10 DEF Tick, thread_vars, timer_vars, told_vars, stream_vars, client_vars
    <2>2. ClockInv'
      BY <2>1 DEF TimerInv, ClockInv, TypeOK
    <2> QED
      BY <2>1, <2>2 DEF TimerInv, InboxEchoed, AnswerNext
  <1> QED
    BY <1>1, <1>2, <1>3, <1>4, <1>5, <1>6, <1>7, <1>8, <1>9, <1>10 DEF Next, Thread

-----------------------------------------------------------------------------
(* The theorems.                                                           *)

\* The invariant holds in every state.
LEMMA Inductive == Spec => []IInv
  <1>1. Init => IInv
    BY TypeInit, ResourcesInit, LeakInit, ToldInit, TimerInit DEF IInv
  <1>2. IInv /\ [Next]_vars => IInv'
    BY TypeStep, ResourcesStep, LeakStep, ToldStep, TimerStep DEF IInv
  <1> QED
    BY <1>1, <1>2, PTL DEF Spec

\* The variables of a session have their types, its retries in bounds.
THEOREM TypeCorrect == Spec => []TypeOK
  <1>1. IInv => TypeOK
    BY DEF IInv
  <1> QED
    BY <1>1, Inductive, PTL

\* Each of the ways out of a session gives back the descriptor, the pair socket, the secret,
\* the ciphers and the locale, if they were acquired on the way there, and nothing twice;
\* of the rest it loses what Balanced names and no more.
THEOREM ReleasedOnce == Spec => []Balanced
  <1>1. IInv => Balanced
    BY DEF IInv, ResourcesExact, Held, Joined, Looping, LeakInv, Balanced
  <1> QED
    BY <1>1, Inductive, PTL

\* A client is not dropped if its answer has come in time, while the thread was waiting for
\* a packet and with no other before it.
THEOREM AnswerCounts == Spec => []PromptNotKicked
  <1>1. IInv => PromptNotKicked
    BY DEF IInv, TimerInv, PromptNotKicked
  <1> QED
    BY <1>1, Inductive, PTL

\* At most one packet follows a disconnect.
THEOREM DisconnectEnds == Spec => []OneAfterDisconnect
  <1>1. IInv => OneAfterDisconnect
    BY DEF IInv, ToldInv, OneAfterDisconnect
  <1> QED
    BY <1>1, Inductive, PTL

\* Only the answer to the last keep-alive stops the wait for it.
THEOREM WaitsForAnswer == Spec => OnlyItsAnswer
  <1>1. IInv /\ [Next]_vars =>
          [keep_alive_waiting /\ ~keep_alive_waiting' => keep_alive_id \in echoed]_vars
    <2> SUFFICES ASSUME IInv, Next, keep_alive_waiting, ~keep_alive_waiting'
                 PROVE  keep_alive_id \in echoed
      OBVIOUS
    <2>1. pc \notin {"login_start", "response", "authenticate", "brand", "settings"}
      BY DEF IInv, TimerInv, Looping
    <2>2. Handle
      BY <2>1
      DEF Next, Thread, Send, SendPart, Disconnect, Drain, Misread, Killed, Tick, LoginStart,
          EncryptionResponse, DigestInitFails, DigestFinalFails, NoDigest, Retry, NoUuid, Join, Settings,
          NoPacket, Clientbound, SendKeepAlive, Kick, timer_vars
    <2>3. PICK p \in Received : p # NULL /\ p.id = KEEP_ALIVE /\ p.data = keep_alive_id
      BY <2>2, HandleFacts DEF IInv, Accepts
    <2>4. CASE inbox # <<>> /\ ~garbled
      <3>1. p = inbox[1] /\ 1 \in DOMAIN inbox
        BY <2>4, ReceivedFacts DEF IInv, TypeOK
      <3> QED
        BY <2>3, <3>1 DEF IInv, TimerInv, InboxEchoed
    <2>5. CASE ~(inbox # <<>> /\ ~garbled)
      <3>1. p \in Packets({0})
        BY <2>3, <2>5, ReceivedFacts DEF IInv
      <3>2. keep_alive_id = 0
        BY <2>3, <3>1, KeepAliveData
      <3> QED
        BY <3>2 DEF IInv, TimerInv
    <2> QED
      BY <2>4, <2>5
  <1> QED
    BY <1>1, Inductive, PTL DEF Spec, OnlyItsAnswer
=============================================================================

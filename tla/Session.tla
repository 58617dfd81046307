------------------------------- MODULE Session -------------------------------
(***************************************************************************)
(* handle_play_758 and handle_state_play of handlers/758/handler.c: one    *)
(* player's session, from login start through encryption, authentication   *)
(* and settings to the play loop with its keep-alives, and how packet_recv *)
(* of network_utils.c reads the client's byte stream.                      *)
(*                                                                         *)
(* The client may send any packet at any time, a packet in two pieces, or  *)
(* close, and may leave unread what it is sent, until a write blocks.  The *)
(* clock moves on at any time, however much is waiting to be handled.      *)
(***************************************************************************)
EXTENDS Integers, SequencesExt

CONSTANTS KeepAliveInterval,  \* seconds after which a keep-alive is sent: 10
          KeepAliveTimeout,   \* seconds its answer may take: 15
          MaxRetries,         \* authentication requests after the first: 5
          MaxPackets,         \* bound: packets the client sends
          MaxQueue,           \* bound: packets sent and not read
          NULL                \* packet_recv returned no packet

ASSUME SessionAssumption ==
  /\ KeepAliveInterval \in Nat /\ KeepAliveTimeout \in Nat
  /\ KeepAliveInterval < KeepAliveTimeout
  /\ MaxRetries \in Nat /\ MaxPackets \in Nat /\ MaxQueue \in Nat
  /\ NULL \notin [id : Nat, data : Int]

VARIABLES pc,                  \* where the thread is
          res,                 \* acquired minus released, of each resource
          leaked,              \* history: what else was acquired and has been
                               \* forgotten without being released
          attempts,            \* auth_attempts
          alive,
          keep_alive_waiting,
          keep_alive_id,       \* when the last keep-alive was sent
          now,                 \* time(NULL)
          inbox,               \* packets that have arrived whole
          partial,             \* what has arrived of the next one, if any:
                               \* "none", some of its length ("prefix"), its
                               \* length and some of its data ("body")
          eof,                 \* the client has closed
          full,                \* the client has left so much unread that the
                               \* next write blocks
          garbled,             \* the stream is no longer read in step
          packets,             \* how many packets the client has sent
          ids,                 \* history: keep-alives sent
          prompt,              \* history: those answered within the limit, while
                               \* the thread was waiting for a packet and with no
                               \* other packet before the answer
          echoed,              \* history: those answered at any time
          timed_out,           \* history: the client was told "timed out"
          after_disconnect     \* history: packets sent to the client after
                               \* the first disconnect in play, -1 before

timer_vars == <<keep_alive_waiting, keep_alive_id, ids>>
stream_vars == <<inbox, partial, garbled>>
client_vars == <<eof, packets, prompt, echoed>>
told_vars == <<timed_out, after_disconnect>>
thread_vars == <<pc, res, leaked, attempts, alive, told_vars>>
vars == <<thread_vars, now, full, timer_vars, stream_vars, client_vars>>

\* Packet ids of handler.h.  Of those that change nothing here there is one; a
\* position, which is only stored, counts as such.
LOGIN_START == 0
ENCRYPTION_RESPONSE == 1
TELEPORT_CONFIRM == 0
CHAT_MESSAGE == 3
CLIENT_STATUS == 4
CLIENT_SETTINGS == 5
PLUGIN_MESSAGE == 10
KEEP_ALIVE == 15

\* What the handlers tell apart of a packet's data.  Of an encryption response:
\* its secret or its token cannot be decrypted, the token is not the one
\* generated, or all is well; of a chat message: it begins with '/' or not; of a
\* teleport confirmation: its id, -1 being the one expected.
GOOD == 0
BAD_SECRET == 1
BAD_TOKEN == 2
OTHER_TOKEN == 3
COMMAND == 1

Data(id, times) ==
  IF id = KEEP_ALIVE THEN times
  ELSE IF id = TELEPORT_CONFIRM THEN {-1, 0}
  ELSE IF id = ENCRYPTION_RESPONSE THEN {GOOD, BAD_SECRET, BAD_TOKEN, OTHER_TOKEN}
  ELSE IF id = CHAT_MESSAGE THEN {0, COMMAND}
  ELSE {0}

Ids == {LOGIN_START, ENCRYPTION_RESPONSE, CHAT_MESSAGE, CLIENT_STATUS, CLIENT_SETTINGS,
        PLUGIN_MESSAGE, KEEP_ALIVE}
Packets(times) == UNION {{[id |-> id, data |-> d] : d \in Data(id, times)} : id \in Ids}

\* What outlives a step and is released later: the descriptor, the pair socket, the
\* decrypted secret, the two ciphers and the locale.  The name of the player goes with
\* conn, which the network thread frees.
Resources == {"fd", "pair_sock", "secret", "ciphers", "locale"}

\* What some way through a step forgets to release: the data of a login packet that is
\* refused, the context of the digest, the handle of an authentication request (or, if
\* there is none, the buffer for its response) and the text of a chat message.
Leaks == {"packet", "sha1_ctx", "request", "chat"}

Acquire(S) == [r \in Resources |-> IF r \in S THEN res[r] + 1 ELSE res[r]]
Release(S) == [r \in Resources |-> IF r \in S THEN res[r] - 1 ELSE res[r]]

\* The teleport id: nothing sends a position, so it stays 0.
teleport_id == 0

Init ==
  /\ pc = "login_start"
  /\ res = [r \in Resources |-> IF r \in {"fd", "pair_sock"} THEN 1 ELSE 0]
  /\ leaked = {}
  /\ attempts = 0 /\ alive = TRUE
  /\ keep_alive_waiting = FALSE /\ keep_alive_id = 0 /\ ids = {}
  /\ now = KeepAliveInterval + 1
  /\ inbox = <<>> /\ partial = "none" /\ garbled = FALSE
  /\ eof = FALSE /\ full = FALSE /\ packets = 0
  /\ prompt = {} /\ echoed = {}
  /\ timed_out = FALSE /\ after_disconnect = -1

-----------------------------------------------------------------------------
(* The client.  It answers keep-alives it was sent, or 0.                  *)

\* Once reads are out of step, what a packet holds no longer matters.
Sendable ==
  IF garbled THEN {[id |-> CLIENT_STATUS, data |-> 0]} ELSE Packets(ids \union {0})

Count == packets < MaxPackets /\ packets' = packets + 1

\* A packet arrives, or the rest of one does.
Send ==
  /\ ~eof /\ Len(inbox) < MaxQueue
  /\ IF partial = "none" \/ garbled THEN Count ELSE UNCHANGED packets
  /\ partial' = "none"
  /\ \E p \in Sendable :
       LET answers == p.id = KEEP_ALIVE
           in_time == answers /\ now - p.data <= KeepAliveTimeout /\ pc = "loop"
           first == inbox = <<>> /\ ~garbled
       IN  /\ inbox' = Append(inbox, p)
           /\ echoed' = IF answers THEN echoed \union {p.data} ELSE echoed
           /\ prompt' = IF in_time /\ first THEN prompt \union {p.data} ELSE prompt
  /\ UNCHANGED <<thread_vars, now, full, timer_vars, garbled, eof>>

\* Only its first bytes do.
SendPart ==
  /\ ~eof /\ partial = "none"
  /\ Count
  /\ partial' \in {"prefix", "body"}
  /\ UNCHANGED <<thread_vars, now, full, timer_vars, inbox, garbled, eof, prompt, echoed>>

Disconnect ==
  /\ ~eof
  /\ eof' = TRUE
  /\ UNCHANGED <<thread_vars, now, full, timer_vars, stream_vars, packets, prompt, echoed>>

\* The client reads what it has been sent.
Drain ==
  /\ full /\ ~eof
  /\ full' = FALSE
  /\ UNCHANGED <<thread_vars, now, timer_vars, stream_vars, client_vars>>

-----------------------------------------------------------------------------
(* packet_send.                                                            *)

\* The write calls return at once if there is room or nobody to wait for, and only
\* they can use up the room; otherwise the step that makes them waits.
Write == (~full \/ eof) /\ full' \in BOOLEAN

-----------------------------------------------------------------------------
(* packet_recv.                                                            *)

\* What a read out of step, or of memory that was not written, may yield: any
\* packet (eight bytes by chance the time are left out) or none.
Scrambled == Packets({0}) \union {NULL}

\* What it may return, nothing if it blocks.  A body that has arrived in part is
\* taken for the whole, which puts the reads that follow out of step; at the end
\* of the stream read sets nothing and the byte used is left over.  The rest of a
\* length is waited for.
Received ==
  IF inbox # <<>> /\ ~garbled THEN {Head(inbox)}
  ELSE IF inbox # <<>> \/ partial = "body" \/ eof THEN Scrambled
  ELSE {}

Consume ==
  /\ inbox' = IF inbox = <<>> THEN <<>> ELSE Tail(inbox)
  /\ partial' = IF inbox = <<>> THEN "none" ELSE partial
  /\ garbled' = (garbled \/ inbox = <<>>)

Receiving == pc \in {"login_start", "response", "brand", "settings", "loop"}

\* Out of step, it may also take what has arrived for a part of a packet.
Misread ==
  /\ Receiving /\ garbled /\ inbox # <<>> /\ ~eof
  /\ inbox' = Tail(inbox)
  /\ partial' = "prefix"
  /\ UNCHANGED <<thread_vars, now, full, timer_vars, garbled, client_vars>>

\* What has no defined end: a write after the client has closed may raise SIGPIPE,
\* which nothing handles, and a field of a packet out of step may lie anywhere.
Killed ==
  /\ eof \/ garbled
  /\ pc \notin {"ended", "killed"}
  /\ pc' = "killed"
  /\ UNCHANGED <<res, leaked, attempts, alive, told_vars, now, full, timer_vars, stream_vars,
                 client_vars>>

-----------------------------------------------------------------------------
(* Login.                                                                  *)

Go(next) == pc' = next /\ UNCHANGED res

\* The handler gives S back and returns.
Leave(S) == pc' = "ended" /\ res' = Release(S)

\* DISCONNECT_AND_CLOSE, after S has been given back.
DisconnectAndClose(S) == Write /\ Leave(S \union {"fd", "pair_sock"})

Forget(S) == leaked' = leaked \union S

UNCHANGED_in_login ==
  UNCHANGED <<alive, now, timer_vars, client_vars, told_vars>>

\* EXPECT_PACKET, when it is not the packet expected: free_packet is not called.
Unexpected(p) ==
  /\ DisconnectAndClose({})
  /\ Forget(IF p = NULL THEN {} ELSE {"packet"})

\* The login start, and the encryption request that answers it.
LoginStart ==
  /\ pc = "login_start"
  /\ \E p \in Received :
       IF p # NULL /\ p.id = LOGIN_START
       THEN Write /\ Go("response") /\ UNCHANGED leaked
       ELSE Unexpected(p)
  /\ Consume
  /\ UNCHANGED attempts /\ UNCHANGED_in_login

\* The response to the encryption request.  The test after the decryption of the
\* token is of the secret again: a token that could not be decrypted is then
\* dereferenced.
EncryptionResponse ==
  /\ pc = "response"
  /\ \E p \in Received :
       IF p = NULL \/ p.id # ENCRYPTION_RESPONSE
       THEN Unexpected(p)
       ELSE /\ \/ p.data \in {BAD_SECRET, OTHER_TOKEN} /\ DisconnectAndClose({})
               \/ p.data = BAD_TOKEN /\ Go("killed") /\ UNCHANGED full
               \/ /\ p.data = GOOD
                  /\ pc' = "authenticate" /\ res' = Acquire({"secret", "ciphers"})
                  /\ UNCHANGED full
            /\ UNCHANGED leaked
  /\ Consume
  /\ UNCHANGED attempts /\ UNCHANGED_in_login

UNCHANGED_in_authentication == UNCHANGED stream_vars /\ UNCHANGED_in_login

\* The digest cannot be made.  The disconnect is encrypted with the cipher that has just
\* been freed, which has no defined end.
NoDigest ==
  /\ pc = "authenticate" /\ attempts = 0
  /\ \/ DisconnectAndClose({"secret", "ciphers"})
     \/ Go("killed") /\ UNCHANGED full
  /\ UNCHANGED attempts /\ UNCHANGED_in_authentication

\* It cannot be begun: its context, if there is one, is not freed.
DigestInitFails == NoDigest /\ (Forget({}) \/ Forget({"sha1_ctx"}))

\* It cannot be finished.
DigestFinalFails == NoDigest /\ UNCHANGED leaked

\* Mutant: the bound on retries is one too many.
RetryOften ==
  /\ pc = "authenticate"
  /\ IF attempts <= MaxRetries
     THEN attempts' = attempts + 1 /\ Go("authenticate") /\ UNCHANGED full
     ELSE DisconnectAndClose({"secret", "ciphers"}) /\ UNCHANGED attempts
  /\ Forget({"request"})
  /\ UNCHANGED_in_authentication

\* A request fails, its handle is not cleaned up, and it is repeated unless it was
\* the last.
Retry ==
  /\ pc = "authenticate"
  /\ IF attempts < MaxRetries
     THEN attempts' = attempts + 1 /\ Go("authenticate") /\ UNCHANGED full
     ELSE DisconnectAndClose({"secret", "ciphers"}) /\ UNCHANGED attempts
  /\ Forget({"request"})
  /\ UNCHANGED_in_authentication

\* Mutant: this way out forgets the ciphers.
NoUuidLeaks ==
  /\ pc = "authenticate"
  /\ DisconnectAndClose({"secret"})
  /\ UNCHANGED <<leaked, attempts>> /\ UNCHANGED_in_authentication

\* The response has no UUID.
NoUuid ==
  /\ pc = "authenticate"
  /\ DisconnectAndClose({"secret", "ciphers"})
  /\ UNCHANGED <<leaked, attempts>> /\ UNCHANGED_in_authentication

\* It has: the play state begins with the packets that join the game.
Join ==
  /\ pc = "authenticate"
  /\ Write /\ Go("brand")
  /\ UNCHANGED <<leaked, attempts>> /\ UNCHANGED_in_authentication

-----------------------------------------------------------------------------
(* Play.                                                                   *)

\* Packets sent to the client, the first of which may be a disconnect.
Say ==
  /\ Write
  /\ after_disconnect' = IF after_disconnect = -1 THEN -1 ELSE after_disconnect + 1
SayDisconnect == Write /\ after_disconnect' = after_disconnect + 1
SayNothing == UNCHANGED <<full, after_disconnect>>

\* What handle_play_758 gives back once handle_state_play has returned; the
\* locale, if it has been set.
AfterPlay == {"fd", "pair_sock", "secret", "ciphers"}
             \union {r \in {"locale"} : res[r] = 1}

\* A brand may come before the settings; what is neither is refused, and a
\* missing packet ends the session without a word.
Settings ==
  /\ pc \in {"brand", "settings"}
  /\ \E p \in Received :
       \/ /\ p # NULL /\ p.id = PLUGIN_MESSAGE /\ pc = "brand"
          /\ Go("settings") /\ SayNothing
       \/ /\ p # NULL /\ p.id = CLIENT_SETTINGS
          /\ pc' = "loop" /\ res' = Acquire({"locale"})
          /\ Say
       \/ /\ p # NULL /\ p.id # CLIENT_SETTINGS /\ ~(p.id = PLUGIN_MESSAGE /\ pc = "brand")
          /\ Leave(AfterPlay) /\ SayDisconnect
       \/ /\ p = NULL
          /\ Leave(AfterPlay) /\ SayNothing
  /\ Consume
  /\ UNCHANGED <<leaked, attempts, alive, now, timer_vars, client_vars, timed_out>>

\* An id of the play state that no handler knows: in this model, 1.
Unknown == {ENCRYPTION_RESPONSE}
Ignored == {CLIENT_STATUS, CLIENT_SETTINGS, PLUGIN_MESSAGE}

\* Mutant: an answer need not be to the last keep-alive.
AcceptsAny(p) == p.id = KEEP_ALIVE /\ keep_alive_waiting

\* Mutant: an answer counts by when it is read.
AcceptsInTime(p) ==
  /\ p.id = KEEP_ALIVE /\ keep_alive_waiting /\ p.data = keep_alive_id
  /\ now - keep_alive_id <= KeepAliveTimeout

\* The answer that is waited for.
Accepts(p) == p.id = KEEP_ALIVE /\ keep_alive_waiting /\ p.data = keep_alive_id

\* The packets that end the session with a disconnect.
Offends(p) ==
  \/ p.id = TELEPORT_CONFIRM /\ p.data # teleport_id - 1
  \/ p.id = KEEP_ALIVE /\ ~Accepts(p)

\* Mutant: a refused packet does not end the loop.
RefuseGoesOn(p) == Offends(p) /\ SayDisconnect /\ UNCHANGED <<alive, keep_alive_waiting>>

Refuse(p) == Offends(p) /\ SayDisconnect /\ alive' = FALSE /\ UNCHANGED keep_alive_waiting

\* A chat message that is not a command is echoed, and the text made for it forgotten.
Chat(p) ==
  /\ p.id = CHAT_MESSAGE
  /\ IF p.data = COMMAND
     THEN SayNothing /\ UNCHANGED leaked
     ELSE Say /\ Forget({"chat"})
  /\ UNCHANGED <<alive, keep_alive_waiting>>

\* One packet of the loop.  An unknown packet ends the session without a word.
Handle ==
  /\ pc = "loop"
  /\ \E p \in Received :
       \/ p = NULL /\ SayNothing /\ UNCHANGED <<leaked, alive, keep_alive_waiting>>
       \/ p # NULL /\ Refuse(p) /\ UNCHANGED leaked
       \/ p # NULL /\ Chat(p)
       \/ /\ p # NULL /\ Accepts(p)
          /\ keep_alive_waiting' = FALSE /\ SayNothing /\ UNCHANGED <<leaked, alive>>
       \/ /\ p # NULL /\ p.id \in Unknown
          /\ alive' = FALSE /\ SayNothing /\ UNCHANGED <<leaked, keep_alive_waiting>>
       \/ /\ p # NULL
          /\ p.id \in Ignored \/ p = [id |-> TELEPORT_CONFIRM, data |-> teleport_id - 1]
          /\ SayNothing /\ UNCHANGED <<leaked, alive, keep_alive_waiting>>
  /\ Consume
  /\ pc' = "clientbound"
  /\ UNCHANGED <<res, attempts, now, keep_alive_id, ids, client_vars, timed_out>>

\* poll finds nothing to read.
Quiet == inbox = <<>> /\ partial = "none" /\ ~eof

NoPacket ==
  /\ pc = "loop" /\ Quiet
  /\ pc' = "clientbound"
  /\ UNCHANGED <<res, leaked, attempts, alive, told_vars, now, full, timer_vars, stream_vars,
                 client_vars>>

Age == now - keep_alive_id

\* Mutant: a keep-alive follows only on one that is not answered.
KeepAliveDueAgain == keep_alive_waiting /\ Age > KeepAliveInterval

KeepAliveDue == ~keep_alive_waiting /\ Age > KeepAliveInterval

KickDue == keep_alive_waiting /\ Age > KeepAliveTimeout

SendKeepAlive ==
  /\ KeepAliveDue
  /\ keep_alive_id' = now /\ keep_alive_waiting' = TRUE
  /\ ids' = ids \union {now}
  /\ Say
  /\ UNCHANGED <<alive, timed_out>>

Kick ==
  /\ KickDue
  /\ alive' = FALSE /\ timed_out' = TRUE
  /\ SayDisconnect
  /\ UNCHANGED timer_vars

\* The rest of an iteration, and what follows the loop.
Clientbound ==
  /\ pc = "clientbound"
  /\ \/ SendKeepAlive
     \/ Kick
     \/ (~KeepAliveDue /\ ~KickDue) /\ SayNothing /\ UNCHANGED <<alive, timer_vars, timed_out>>
  /\ IF alive' THEN Go("loop") ELSE Leave(AfterPlay)
  /\ UNCHANGED <<leaked, attempts, now, stream_vars, client_vars>>

\* The thread is in the middle of a read that nothing ends.
Blocked == inbox = <<>> /\ partial = "prefix" /\ ~eof

\* The client reads nothing, so that a write does not return.
Stuck == full /\ ~eof

\* A second passes, wherever the thread is; before the loop it does not look at the
\* clock.  What is over the limit stays so.
Tick ==
  /\ pc \in {"loop", "clientbound"}
  /\ Age <= KeepAliveTimeout
  /\ now' = now + 1
  /\ UNCHANGED <<thread_vars, full, timer_vars, stream_vars, client_vars>>

-----------------------------------------------------------------------------
Thread ==
  \/ LoginStart \/ EncryptionResponse
  \/ DigestInitFails \/ DigestFinalFails \/ Retry \/ NoUuid \/ Join
  \/ Settings \/ Handle \/ NoPacket \/ Clientbound

Next == Thread \/ Send \/ SendPart \/ Disconnect \/ Drain \/ Misread \/ Killed \/ Tick

\* The thread runs, when no read or write blocks it, and time passes; the client need
\* not do anything.
Spec == Init /\ [][Next]_vars /\ WF_vars(Thread) /\ WF_vars(Tick)

-----------------------------------------------------------------------------
TypeOK ==
  /\ pc \in {"login_start", "response", "authenticate", "brand", "settings", "loop",
             "clientbound", "ended", "killed"}
  /\ res \in [Resources -> Int] /\ leaked \subseteq Leaks
  /\ attempts \in 0 .. MaxRetries
  /\ alive \in BOOLEAN /\ keep_alive_waiting \in BOOLEAN /\ eof \in BOOLEAN
  /\ full \in BOOLEAN /\ garbled \in BOOLEAN /\ timed_out \in BOOLEAN
  /\ keep_alive_id \in Nat /\ now \in Nat /\ packets \in 0 .. MaxPackets
  /\ ids \subseteq Nat /\ echoed \subseteq Nat /\ prompt \subseteq Nat
  /\ inbox \in Seq(Packets(ids \union {0})) /\ partial \in {"none", "prefix", "body"}
  /\ after_disconnect \in Nat \union {-1}

\* Whatever way a session ends, the descriptor, the pair socket, the secret, the ciphers
\* and the locale have been given back, and none of them twice.  Of the rest, a login that
\* is refused before it authenticates loses one thing at most; one that goes on loses
\* nothing but the requests that failed and the text of what the player said.
Balanced ==
  /\ \A r \in Resources : res[r] \in {0, 1} /\ (pc = "ended" => res[r] = 0)
  /\ leaked \in {{"packet"}, {"sha1_ctx"}} => pc \in {"ended", "killed"} /\ attempts = 0
  /\ leaked \in {{"packet"}, {"sha1_ctx"}} \/ leaked \subseteq {"request", "chat"}
  /\ "request" \in leaked => attempts > 0 \/ pc = "ended"
  /\ "chat" \in leaked => pc \in {"loop", "clientbound", "ended", "killed"}

\* An answer to a keep-alive that comes in time while the thread waits for a packet, with
\* no other before it, saves the client, however long the thread takes to handle it.  One
\* that waits behind others may come in time and count for nothing: the loop handles one
\* packet in a round and then looks at the clock (handler.c:756).
PromptNotKicked == timed_out => keep_alive_id \notin prompt

\* A keep-alive counts as answered only when the client has sent back that very
\* id: a late or repeated answer to an earlier one does not stop the timer.
OnlyItsAnswer ==
  [][keep_alive_waiting /\ ~keep_alive_waiting' => keep_alive_id \in echoed]_vars

\* After the disconnect the iteration is finished, which may send one packet more,
\* a keep-alive or another disconnect, and then the session ends.
OneAfterDisconnect == after_disconnect <= 1

\* A session in play ends when its client falls silent or is gone, unless from some time
\* on the thread stays in the middle of a packet's length, or of a write to a client that
\* reads nothing.
SilentEnds == pc = "loop" ~> (pc \in {"ended", "killed"} \/ [](Blocked \/ Stuck))
=============================================================================

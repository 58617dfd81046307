---------------------------- MODULE NetworkMaster ----------------------------
(***************************************************************************)
(* src/network/network.c, the pair sockets of network_utils.c and the      *)
(* status handler of handlers/758/handler.c: the network master, its       *)
(* Client Thread Buffer (CTB) and one thread per client.                   *)
(*                                                                         *)
(* The master accepts connections and scans the CTB: a terminated client's *)
(* entry is freed and its thread joined, any other one's pair socket is    *)
(* read.  A message on a pair socket is two ZeroMQ messages, its length    *)
(* and its body; the master reads both without blocking, a client blocks.  *)
(* What a client sends over TCP, and when, is up to that client; a player's*)
(* session is one phase here.                                              *)
(***************************************************************************)
EXTENDS Integers, FiniteSets, SequencesExt

CONSTANTS MaxClients,   \* bound: connections that come in
          CTB_MIN_SIZE

ASSUME NetworkAssumption ==
  /\ MaxClients \in Nat
  /\ CTB_MIN_SIZE \in Nat \ {0}

\* Clients are numbered in the order in which they connect.
Client == 0 .. MaxClients - 1

VARIABLES pc,        \* where the master is
          i,         \* the scan's index, counted from 1
          closing,   \* __cmd_handler_should_close
          ctb,       \* the CTB's used entries
          ctb_size,  \* how many entries it has room for
          freed,     \* clients whose conn is freed
          joined,    \* clients whose thread is joined
          thread,    \* where each client's thread is
          closes,    \* how often its socket has been closed
          requests,  \* client to master half of its pair socket
          replies    \* master to client half

master_vars == <<pc, i, closing, ctb, ctb_size, freed, joined>>
client_vars == <<thread, closes, requests>>
vars == <<master_vars, client_vars, replies>>

Init ==
  /\ pc = "accept" /\ i = 1 /\ closing = FALSE
  /\ ctb = <<>> /\ ctb_size = CTB_MIN_SIZE
  /\ freed = {} /\ joined = {}
  /\ thread = [c \in Client |-> "none"]
  /\ closes = [c \in Client |-> 0]
  /\ requests = [c \in Client |-> <<>>]
  /\ replies = [c \in Client |-> <<>>]

-----------------------------------------------------------------------------
(* The client threads.                                                     *)

Step(c, from, to) == thread[c] = from /\ thread' = [thread EXCEPT ![c] = to]
Close(c) == closes' = [closes EXCEPT ![c] = @ + 1]

\* dispatch drops the connection: legacy ping, bad packet or version, or the
\* peer has gone.
Refuse(c) ==
  /\ Step(c, "handshake", "flag")
  /\ Close(c)
  /\ UNCHANGED <<master_vars, requests, replies>>

\* A handshake of the right version for neither status nor login: no handler
\* runs and nothing is closed.
NoNextState(c) ==
  /\ Step(c, "handshake", "flag")
  /\ UNCHANGED <<master_vars, closes, requests, replies>>

\* The handshake selects handle_status_758 or handle_play_758; "reading" is a
\* handler that only waits for its client from now on.
Select(c) ==
  /\ Step(c, "handshake", "status") \/ Step(c, "handshake", "reading")
  /\ UNCHANGED <<master_vars, closes, requests, replies>>

\* A status request comes in: its length is sent to the master,
SendLength(c) ==
  /\ Step(c, "status", "send_body")
  /\ requests' = [requests EXCEPT ![c] = Append(@, "length")]
  /\ UNCHANGED <<master_vars, closes, replies>>

\* then its body.
SendBody(c) ==
  /\ Step(c, "send_body", "await_reply")
  /\ requests' = [requests EXCEPT ![c] = Append(@, "body")]
  /\ UNCHANGED <<master_vars, closes, replies>>

\* client_pair_recv_blocking.  The next packet is then waited for.
ReceiveReply(c) ==
  /\ Step(c, "await_reply", "reading")
  /\ Len(replies[c]) >= 2
  /\ replies' = [replies EXCEPT ![c] = Tail(Tail(@))]
  /\ UNCHANGED <<master_vars, closes, requests>>

\* The handler closes the sockets and returns: after a ping or anything else
\* instead of a request or a ping, or when a session ends.
Finish(c) ==
  /\ Step(c, "status", "flag") \/ Step(c, "reading", "flag")
  /\ Close(c)
  /\ UNCHANGED <<master_vars, requests, replies>>

\* conn->state = CL_TERMINATED, the last use of conn,
Terminate(c) ==
  /\ Step(c, "flag", "exiting")
  /\ UNCHANGED <<master_vars, closes, requests, replies>>

\* and the thread ends.
ThreadExit(c) ==
  /\ Step(c, "exiting", "ended")
  /\ UNCHANGED <<master_vars, closes, requests, replies>>

\* Mutant: the state is set before the thread's last use of conn.
TerminatedEarly(c) == thread[c] \in {"flag", "exiting", "ended"}

\* What the master reads in conn->state.
Terminated(c) == thread[c] \in {"exiting", "ended"}

-----------------------------------------------------------------------------
(* The master.                                                             *)

Accepted == {c \in Client : thread[c] # "none"}

\* A new connection gets an entry, doubling a full buffer, and a thread.
Accept(c) ==
  /\ pc = "accept" /\ c = Cardinality(Accepted)
  /\ ctb' = Append(ctb, c)
  /\ ctb_size' = IF Len(ctb) = ctb_size THEN 2 * ctb_size ELSE ctb_size
  /\ thread' = [thread EXCEPT ![c] = "handshake"]
  /\ pc' = "scan" /\ i' = 1
  /\ UNCHANGED <<closing, freed, joined, closes, requests, replies>>

\* accept finds none, or fails, which ends the loop after this round.
AcceptNone ==
  /\ pc = "accept"
  /\ closing' \in {closing, TRUE}
  /\ pc' = "scan" /\ i' = 1
  /\ UNCHANGED <<ctb, ctb_size, freed, joined, client_vars, replies>>

Entry == ctb[i]

\* Mutant: the scan ends one entry early.
FreeNotLast ==
  /\ pc = "scan" /\ i < Len(ctb) /\ Terminated(Entry)
  /\ freed' = freed \union {Entry}
  /\ pc' = "join"
  /\ UNCHANGED <<i, closing, ctb, ctb_size, joined, client_vars, replies>>

\* A terminated client: its conn is freed and its pair socket closed.
Free ==
  /\ pc = "scan" /\ i <= Len(ctb) /\ Terminated(Entry)
  /\ freed' = freed \union {Entry}
  /\ pc' = "join"
  /\ UNCHANGED <<i, closing, ctb, ctb_size, joined, client_vars, replies>>

\* Mutant: a buffer a quarter full is halved, however small it is.
JoinShrinksAlways ==
  /\ pc = "join" /\ thread[Entry] = "ended"
  /\ joined' = joined \union {Entry}
  /\ ctb' = [Front(ctb) EXCEPT ![i] = Last(ctb)]
  /\ ctb_size' = IF Len(ctb') <= ctb_size \div 4 THEN ctb_size \div 2 ELSE ctb_size
  /\ pc' = "scan" /\ i' = i + 1
  /\ UNCHANGED <<closing, freed, client_vars, replies>>

\* Mutant: the last entry is dropped, but not copied.
JoinNoCopy ==
  /\ pc = "join" /\ thread[Entry] = "ended"
  /\ joined' = joined \union {Entry}
  /\ ctb' = Front(ctb)
  /\ ctb_size' = IF Len(ctb') < ctb_size \div 4 /\ ctb_size > CTB_MIN_SIZE
                 THEN ctb_size \div 2 ELSE ctb_size
  /\ pc' = "scan" /\ i' = i + 1
  /\ UNCHANGED <<closing, freed, client_vars, replies>>

\* Its thread is joined, and the last entry takes the place of its own; this
\* scan passes that entry over.  A buffer less than a quarter full is halved.
Join ==
  /\ pc = "join" /\ thread[Entry] = "ended"
  /\ joined' = joined \union {Entry}
  /\ ctb' = [Front(ctb) EXCEPT ![i] = Last(ctb)]
  /\ ctb_size' = IF Len(ctb') < ctb_size \div 4 /\ ctb_size > CTB_MIN_SIZE
                 THEN ctb_size \div 2 ELSE ctb_size
  /\ pc' = "scan" /\ i' = i + 1
  /\ UNCHANGED <<closing, freed, client_vars, replies>>

\* client_pair_recv: the length, if there is one.  A body whose length was
\* lost is read as a length too.
ReceiveLength ==
  /\ pc = "scan" /\ i <= Len(ctb) /\ ~Terminated(Entry)
  /\ IF requests[Entry] = <<>>
     THEN i' = i + 1 /\ UNCHANGED <<pc, requests>>
     ELSE /\ pc' = "body"
          /\ requests' = [requests EXCEPT ![Entry] = Tail(@)]
          /\ UNCHANGED i
  /\ UNCHANGED <<closing, ctb, ctb_size, freed, joined, thread, closes, replies>>

\* Mutant: the result of the second read is not tested.
ReceiveBodyUntested ==
  /\ pc = "body"
  /\ requests' = [requests EXCEPT ![Entry] = IF @ = <<>> THEN @ ELSE Tail(@)]
  /\ replies' = [replies EXCEPT ![Entry] = @ \o <<"length", "body">>]
  /\ pc' = "scan" /\ i' = i + 1
  /\ UNCHANGED <<closing, ctb, ctb_size, freed, joined, thread, closes>>

\* Its body, which is missing if the client has not sent it yet: then the
\* length is forgotten.  A status request is answered.
ReceiveBody ==
  /\ pc = "body"
  /\ IF requests[Entry] = <<>>
     THEN UNCHANGED <<requests, replies>>
     ELSE /\ requests' = [requests EXCEPT ![Entry] = Tail(@)]
          /\ replies' = [replies EXCEPT ![Entry] = @ \o <<"length", "body">>]
  /\ pc' = "scan" /\ i' = i + 1
  /\ UNCHANGED <<closing, ctb, ctb_size, freed, joined, thread, closes>>

\* Mutant: exit and quit are not handled.
CommandGoesOn ==
  /\ pc = "scan" /\ i > Len(ctb)
  /\ closing' \in {closing, TRUE}
  /\ pc' = "accept"
  /\ i' = 1
  /\ UNCHANGED <<ctb, ctb_size, freed, joined, client_vars, replies>>

\* The end of a round: a command may be exit or quit, in this round or not.
Command ==
  /\ pc = "scan" /\ i > Len(ctb)
  /\ closing' \in {closing, TRUE}
  /\ pc' = IF closing' THEN "shutdown" ELSE "accept"
  /\ i' = 1
  /\ UNCHANGED <<ctb, ctb_size, freed, joined, client_vars, replies>>

\* The pair socket of each entry is closed and its thread joined, whatever
\* that thread waits for.
ShutdownJoin ==
  /\ pc = "shutdown" /\ i <= Len(ctb)
  /\ thread[Entry] = "ended"
  /\ joined' = joined \union {Entry}
  /\ i' = i + 1
  /\ UNCHANGED <<pc, closing, ctb, ctb_size, freed, client_vars, replies>>

Return ==
  /\ pc = "shutdown" /\ i > Len(ctb)
  /\ pc' = "done"
  /\ UNCHANGED <<i, closing, ctb, ctb_size, freed, joined, client_vars, replies>>

-----------------------------------------------------------------------------
\* Steps a client thread takes by itself; for the others its client must act.
ThreadStep(c) == SendBody(c) \/ ReceiveReply(c) \/ Terminate(c) \/ ThreadExit(c)
PeerStep(c) == Refuse(c) \/ NoNextState(c) \/ Select(c) \/ SendLength(c) \/ Finish(c)
MasterStep == Free \/ Join \/ ReceiveLength \/ ReceiveBody \/ Command \/ ShutdownJoin
              \/ Return \/ AcceptNone

Next ==
  \/ \E c \in Client : ThreadStep(c) \/ PeerStep(c) \/ Accept(c)
  \/ MasterStep

\* The threads run; no client has to connect, send or disconnect.
Spec ==
  /\ Init /\ [][Next]_vars
  /\ WF_vars(MasterStep)
  /\ \A c \in Client : WF_vars(ThreadStep(c))

-----------------------------------------------------------------------------
TypeOK ==
  /\ pc \in {"accept", "scan", "join", "body", "shutdown", "done"}
  /\ i \in 1 .. Cardinality(Client) + 1
  /\ closing \in BOOLEAN
  /\ ctb \in Seq(Client) /\ ctb_size \in Nat \ {0}
  /\ freed \subseteq Client /\ joined \subseteq Client
  /\ thread \in [Client -> {"none", "handshake", "status", "send_body", "await_reply",
                            "reading", "flag", "exiting", "ended"}]
  /\ closes \in [Client -> Nat]
  /\ requests \in [Client -> Seq({"length", "body"})]
  /\ replies \in [Client -> Seq({"length", "body"})]

\* The buffer holds every client that was accepted and is not yet joined
\* exactly once, through every growth, swap and shrinking, and fits its size.
CtbExact ==
  /\ IsInjective(ctb)
  /\ pc \notin {"shutdown", "done"} => ToSet(ctb) = Accepted \ joined
  /\ Len(ctb) <= ctb_size
  /\ ctb_size >= CTB_MIN_SIZE

\* A conn is freed only when its thread has made its last use of it, and no
\* thread is left running when the master returns.
FreedUnused ==
  /\ \A c \in freed : thread[c] \in {"exiting", "ended"}
  /\ pc = "done" => \A c \in Accepted : thread[c] = "ended" /\ c \in joined

\* No path closes a client's socket twice: the descriptor could be another
\* client's by then.
ClosedOnce == \A c \in Client : closes[c] <= 1

\* Nothing a client owns is released twice or while it is in use: neither by its
\* thread nor by the master, whose scan, and "player info" after it, follow the conn
\* of every entry (but for the one whose thread is being joined).
Released ==
  /\ FreedUnused /\ ClosedOnce
  /\ \A j \in DOMAIN ctb : ctb[j] \in freed => pc = "join" /\ j = i

\* Each request is answered at most once, however the two halves of the messages
\* fall between the master's reads, and no client reads an answer to nothing.
Answers ==
  INSTANCE Service WITH
    waiting <- {c \in Client : thread[c] \in {"send_body", "await_reply"}},
    unread <- [c \in Client |-> Len(replies[c]) \div 2]
ImplementsService == Answers!Spec

\* A client that has terminated is freed and joined, though a swap may make a
\* scan pass it over, unless the master has begun to close.
Reaped == \A c \in Client : thread[c] = "exiting" ~> (c \in joined \/ closing)

\* Once it closes and no client is left that waits for anything, the master
\* returns.
Closes == (closing /\ \A c \in Accepted : Terminated(c)) ~> pc = "done"

\* network.h:31, "Messages typically occur in a request-reply format": a
\* status request is answered while the master runs.  One whose length the
\* master reads before its body is there never is.
RequestAnswered ==
  \A c \in Client : thread[c] = "await_reply" ~> (thread[c] # "await_reply" \/ closing)
=============================================================================

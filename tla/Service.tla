------------------------------- MODULE Service -------------------------------
(***************************************************************************)
(* What the pair sockets are for ("Messages typically occur in a           *)
(* request-reply format, going from the client to the network master",     *)
(* network.h:31): a client asks and waits, the master answers each request *)
(* at most once, and nobody who has not asked gets an answer.  Whether it  *)
(* must answer is not said here.                                           *)
(***************************************************************************)
EXTENDS Integers

CONSTANT Client

VARIABLES waiting,   \* the clients that have asked and wait for the answer
          unread     \* how many answers each has not read

vars == <<waiting, unread>>

Init == waiting = {} /\ unread = [c \in Client |-> 0]

Ask(c) ==
  /\ c \notin waiting
  /\ waiting' = waiting \union {c}
  /\ UNCHANGED unread

Answer(c) ==
  /\ c \in waiting /\ unread[c] = 0
  /\ unread' = [unread EXCEPT ![c] = 1]
  /\ UNCHANGED waiting

Receive(c) ==
  /\ c \in waiting /\ unread[c] = 1
  /\ unread' = [unread EXCEPT ![c] = 0]
  /\ waiting' = waiting \ {c}

Next == \E c \in Client : Ask(c) \/ Answer(c) \/ Receive(c)

Spec == Init /\ [][Next]_vars
=============================================================================

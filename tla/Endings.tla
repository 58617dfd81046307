------------------------------- MODULE Endings -------------------------------
(***************************************************************************)
(* The lines in the queues of the threads, and those of them that end a    *)
(* loop.  Commands says how lines come to the queues and are handled.      *)
(***************************************************************************)
EXTENDS Integers, SequencesExt

VARIABLES queue,          \* of each thread's SUB socket
          should_close,   \* the threads that have left their loop
          failed          \* those of them that no line has made leave

\* strncmp(prefix, line, strlen(prefix)) == 0
StartsWith(line, prefix) ==
  Len(prefix) <= Len(line) /\ SubSeq(line, 1, Len(prefix)) = prefix

Ending(line) == StartsWith(line, "exit") \/ StartsWith(line, "quit")

\* Whatever word a shutdown begins with, exit or quit, and whoever it comes from:
\* when one thread has left its loop because it was told to, each of the others has
\* left too or has a line to read that will make it.  Five loops subscribe to the two
\* words and handle them, and main joins them all.  Nobody is told of a loop that
\* ends because accept failed.
EndsTogether ==
  (\E t \in DOMAIN should_close : should_close[t] /\ t \notin failed) =>
    \A t \in DOMAIN should_close :
      should_close[t] \/ \E line \in ToSet(queue[t]) : Ending(line)
=============================================================================

------------------------------ MODULE Commands ------------------------------
(***************************************************************************)
(* The lines that are typed, what becomes of them on the command bus and   *)
(* which handler they reach: the subscriptions and the HANDLE_COMMAND      *)
(* chains of every thread, by prefix, the relay of players' commands, the  *)
(* log level and the answers of the help service.                          *)
(*                                                                         *)
(* All threads have subscribed and no queue overflows; what happens before *)
(* and when one does is CommandBus.  Which command does what to plots and  *)
(* blocks is PlotManager and PlotStorage.                                  *)
(***************************************************************************)
EXTENDS Help, Bags, Endings

CONSTANTS WithGui,        \* WITH_GUI
          ConsoleLines,   \* lines typed on the terminal or in the window
          PlayerLines,    \* messages of players that begin with a slash
          MaxLines        \* bound: lines typed and sent

ASSUME CommandsAssumption ==
  /\ WithGui \in BOOLEAN
  /\ ConsoleLines \subseteq STRING /\ PlayerLines \subseteq STRING
  /\ MaxLines \in Nat

VARIABLES run_cmd,        \* lines the logger has not read, in no order
          LOG_LEVEL,
          answer,         \* the last answer of the help service
          lines           \* what MaxLines bounds

vars == <<run_cmd, queue, should_close, failed, LOG_LEVEL, answer, lines>>

\* str_split: what lies between the blanks.
str_split(line) ==
  LET add(s, i) ==
        LET c == SubSeq(line, i, i)
        IN  IF c # " " THEN [s EXCEPT !.word = @ \o c]
            ELSE [words |-> IF s.word = "" THEN s.words ELSE Append(s.words, s.word),
                  word |-> ""]
      all == FoldLeft(add, [words |-> <<>>, word |-> ""], [i \in 1 .. Len(line) |-> i])
  IN  IF all.word = "" THEN all.words ELSE Append(all.words, all.word)

-----------------------------------------------------------------------------
(* Who hears what.                                                         *)

Subscriptions == [
  main    |-> {"exit", "quit", "debug", "about", "splash"},
  help    |-> {"help", "exit", "quit"},
  core    |-> {"core", "exit", "quit", "plot", "mccmd"},
  network |-> {"network", "player", "exit", "quit"},
  gui     |-> {"gui", "exit", "quit", "log"},
  logger  |-> {"exit", "quit"}]

\* The HANDLE_COMMANDs of each loop: chains of else, the first of which that matches
\* runs.
EndChains == <<<<"exit">>, <<"quit">>>>

\* Mutant: the short name of a level is tried before the long names.
TerminalChainsShortFirst ==
  EndChains \o <<
    <<"about">>, <<"splash">>,
    <<"debug v", "debug d", "debug i", "debug w", "debug", "debug f">>>>

TerminalChains ==
  EndChains \o <<
    <<"about">>, <<"splash">>,
    <<"debug verbose", "debug verb", "debug v", "debug debug", "debug debg", "debug d",
      "debug info", "debug i", "debug warning", "debug warn", "debug w",
      "debug fatal", "debug fail", "debug f", "debug">>>>

\* Mutant: the general form of a setting is tried before the owner's.
CoreChainsGeneralFirst ==
  EndChains \o <<
    <<"plot new", "plot list", "plot info", "plot config set", "plot config set owner",
      "plot trust", "plot remove">>,
    <<"plot place">>, <<"plot get">>, <<"mccmd /crss ">>>>

CoreChains ==
  EndChains \o <<
    <<"plot new", "plot list", "plot info", "plot config set owner", "plot config set",
      "plot trust", "plot remove">>,
    <<"plot place">>, <<"plot get">>, <<"mccmd /crss ">>>>

\* Mutant: the network master knows only one of the two words.
NetworkChainsNoQuit == <<<<"exit">>, <<"player info">>>>

NetworkChains == EndChains \o <<<<"player info">>>>

Chains == [
  main    |-> TerminalChains,
  help    |-> EndChains \o <<<<"help">>>>,
  core    |-> CoreChains,
  network |-> NetworkChains,
  gui     |-> EndChains \o <<<<"log ">>>>]

\* The threads with a loop of RUN_CMD_HANDLER, and the logger, which leaves its own
\* with whatever it hears.
Handlers == {"main", "help", "core", "network"} \union (IF WithGui THEN {"gui"} ELSE {})
Threads == Handlers \union {"logger"}

Hears(t, line) == \E p \in Subscriptions[t] : StartsWith(line, p)

Matching(chain, line) == {i \in DOMAIN chain : StartsWith(line, chain[i])}

\* The handlers that a line runs in a thread.
Ran(t, line) ==
  {chain[Min(Matching(chain, line))] :
     chain \in {c \in ToSet(Chains[t]) : Matching(c, line) # {}}}

-----------------------------------------------------------------------------
log_verbose == 0
log_debug == 1
log_info == 2
log_warn == 3
log_fatal == 4

\* The level that a handler of the terminal sets; there is none in "debug" alone.
LevelOf ==
  [p \in {"debug verbose", "debug verb", "debug v"} |-> log_verbose] @@
  [p \in {"debug debug", "debug debg", "debug d"} |-> log_debug] @@
  [p \in {"debug info", "debug i"} |-> log_info] @@
  [p \in {"debug warning", "debug warn", "debug w"} |-> log_warn] @@
  [p \in {"debug fatal", "debug fail", "debug f"} |-> log_fatal]

NoAnswer == [argv |-> <<>>, at |-> Root, success |-> TRUE, shown |-> FALSE]

\* The text or the error, logged if the level lets it pass.
Answer(argv) ==
  LET found == Lookup(argv)
  IN  [argv |-> argv, at |-> found.at, success |-> found.success,
       shown |-> (IF found.success THEN log_info ELSE log_fatal) >= LOG_LEVEL]

Init ==
  /\ run_cmd = EmptyBag
  /\ queue = [t \in Threads |-> <<>>]
  /\ should_close = [t \in Threads |-> FALSE]
  /\ failed = {}
  /\ LOG_LEVEL \in log_verbose .. log_fatal     \* -v on the command line
  /\ answer = NoAnswer
  /\ lines = 0

-----------------------------------------------------------------------------
\* dispatch_command
Dispatch(line) == run_cmd' = run_cmd (+) SetToBag({line})

\* A line on stdin or in the window's console; of a player, with a prefix.
Type(line) ==
  /\ lines < MaxLines
  /\ ~should_close["main"] \/ (WithGui /\ ~should_close["gui"])
  /\ lines' = lines + 1
  /\ Dispatch(line)
  /\ UNCHANGED <<queue, should_close, failed, LOG_LEVEL, answer>>

Send(message) ==
  /\ lines < MaxLines /\ ~should_close["network"]
  /\ lines' = lines + 1
  /\ Dispatch("mccmd " \o message)
  /\ UNCHANGED <<queue, should_close, failed, LOG_LEVEL, answer>>

\* Mutant: a thread that has left its loop has not closed its socket.
PublishNoCleanup(line) ==
  /\ ~should_close["logger"]
  /\ run_cmd' = run_cmd (-) SetToBag({line})
  /\ queue' = IF line = "" THEN queue
              ELSE [t \in Threads |->
                      IF Hears(t, line) THEN Append(queue[t], line) ELSE queue[t]]
  /\ UNCHANGED <<should_close, failed, LOG_LEVEL, answer, lines>>

\* The logger reads a line and publishes it, unless it is empty.
Publish(line) ==
  /\ ~should_close["logger"]
  /\ run_cmd' = run_cmd (-) SetToBag({line})
  /\ queue' = IF line = "" THEN queue
              ELSE [t \in Threads |->
                      IF ~should_close[t] /\ Hears(t, line) THEN Append(queue[t], line)
                      ELSE queue[t]]
  /\ UNCHANGED <<should_close, failed, LOG_LEVEL, answer, lines>>

\* How soon it leaves after an exit is CommandBus's.
LoggerLeaves ==
  /\ ~should_close["logger"] /\ queue["logger"] # <<>>
  /\ should_close' = [should_close EXCEPT !["logger"] = TRUE]
  /\ queue' = [queue EXCEPT !["logger"] = <<>>]
  /\ UNCHANGED <<run_cmd, failed, LOG_LEVEL, answer, lines>>

\* A round of RUN_CMD_HANDLER that finds a line.  What the thread has not read when it
\* leaves the loop goes with its socket.
Handle(t) ==
  /\ ~should_close[t] /\ queue[t] # <<>>
  /\ LET line == Head(queue[t])
         ran == Ran(t, line)
         closes == ran \intersect {"exit", "quit"} # {}
     IN  /\ should_close' = [should_close EXCEPT ![t] = closes]
         /\ queue' = [queue EXCEPT ![t] = IF closes THEN <<>> ELSE Tail(@)]
         /\ IF ran \intersect DOMAIN LevelOf = {} THEN UNCHANGED LOG_LEVEL
            ELSE \E p \in ran \intersect DOMAIN LevelOf : LOG_LEVEL' = LevelOf[p]
         /\ answer' = IF "help" \in ran THEN Answer(str_split(line)) ELSE answer
         /\ IF "mccmd /crss " \in ran THEN Dispatch(SubSeq(line, 13, Len(line)))
            ELSE UNCHANGED run_cmd
  /\ UNCHANGED <<failed, lines>>

\* accept fails with another error than that nobody connects: the network master's
\* loop ends, without a line.
AcceptFails ==
  /\ ~should_close["network"]
  /\ should_close' = [should_close EXCEPT !["network"] = TRUE]
  /\ queue' = [queue EXCEPT !["network"] = <<>>]
  /\ failed' = failed \union {"network"}
  /\ UNCHANGED <<run_cmd, LOG_LEVEL, answer, lines>>

Next ==
  \/ \E line \in ConsoleLines : Type(line)
  \/ \E message \in PlayerLines : Send(message)
  \/ \E line \in BagToSet(run_cmd) : Publish(line)
  \/ LoggerLeaves
  \/ \E t \in Handlers : Handle(t)
  \/ AcceptFails

Spec == Init /\ [][Next]_vars

-----------------------------------------------------------------------------
TypeOK ==
  /\ IsABag(run_cmd) /\ BagToSet(run_cmd) \subseteq STRING
  /\ \A t \in Threads :
       queue[t] \in Seq(STRING) /\ \A line \in ToSet(queue[t]) : Hears(t, line)
  /\ should_close \in [Threads -> BOOLEAN]
  /\ \A t \in Threads : should_close[t] => queue[t] = <<>>
  /\ failed \subseteq {"network"}
  /\ LOG_LEVEL \in log_verbose .. log_fatal
  /\ answer.argv \in Seq(STRING) /\ answer.at \in Paths
  /\ answer.success \in BOOLEAN /\ answer.shown \in BOOLEAN
  /\ lines \in 0 .. MaxLines

\* A thread runs at most one handler for a line, that of the longest prefix which
\* matches: neither the order of the chains nor the ifs between them let a shorter
\* command take a longer one's line.
OneHandler ==
  \A t \in Handlers :
    queue[t] # <<>> =>
      LET line == Head(queue[t])
          matching == {p \in UNION {ToSet(c) : c \in ToSet(Chains[t])} : StartsWith(line, p)}
      IN  Ran(t, line) = {p \in matching : \A q \in matching : Len(q) <= Len(p)}

\* The words with which help lists a level.
LevelNames(i) == {options(<<"debug">>)[i].name} \union ToSet(options(<<"debug">>)[i].aliases)

\* When the terminal has read "debug" and a name or an alias that help lists, the level
\* is the listed one's, and only a line that begins with "debug" and a blank changes it.
\* The words are written twice, in help.c with their aliases and in rss-server.c.
LevelAsHelped ==
  [][LET reads == queue["main"] # <<>> /\ queue'["main"] = Tail(queue["main"])
     IN  /\ \A i \in DOMAIN options(<<"debug">>) :
              reads /\ (\E w \in LevelNames(i) : Head(queue["main"]) = "debug " \o w)
                => LOG_LEVEL' = i - 1
         /\ LOG_LEVEL' # LOG_LEVEL =>
              reads /\ StartsWith(Head(queue["main"]), "debug ")]_vars

\* What can be typed: a command that a thread runs, or one that only groups others.
Known(path) == subcommands(path) # <<>> \/ \E t \in Handlers : Ran(t, Joined(path, " ")) # {}

\* Help is about the command of the tree whose names the words are, if there is one,
\* and an error otherwise; and what it describes and says may follow is known, but for
\* one thing: help.c:226 offers "[get|set] <option> [<arg>*]" after plot config, and no
\* thread has a handler for plot config get.  Of the categories that the general help
\* lists as "help <command>" (resources.c:17-24) only plot is a command of the tree: for
\* the seven others help is the error.
HelpExact ==
  LET path == Tail(answer.argv)
  IN  answer.argv # <<>> =>
        /\ answer.success <=> path \in Paths
        /\ answer.success =>
             /\ answer.at = path /\ Known(path)
             /\ \A word \in Offered(path) :
                  Known(path \o <<word>>) <=> path \o <<word>> # <<"plot", "config", "get">>
        /\ \A word \in Categories : path = <<word>> => (answer.success <=> word = "plot")

\* The rows of the table are those that were counted and no text is longer than the
\* buffers it goes through, for each command that help is asked about.
TableFits == answer.argv # <<>> => answer.at \in Fitting
=============================================================================

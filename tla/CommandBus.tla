----------------------------- MODULE CommandBus -----------------------------
(***************************************************************************)
(* The threads of the server and the command bus that joins them: start-up *)
(* barrier, publication of commands and log lines, shutdown.  From         *)
(* logger.c, rss-server.c, internals.c, the RUN_CMD_HANDLER loops of       *)
(* help.c, core.c, network.c and gui.c, and the window of gui.c.           *)
(*                                                                         *)
(* ZeroMQ as this code uses it: each REQ socket sends one message and is   *)
(* closed, and the message waits for the ROUTER even if that binds later;  *)
(* messages of different REQ sockets are read in any order; a PUB message  *)
(* reaches the sockets that have subscribed by then, in order, except      *)
(* those whose queue is full.                                              *)
(***************************************************************************)
EXTENDS Integers, FiniteSets, SequencesExt

CONSTANTS WithGui,    \* WITH_GUI
          Hwm,        \* messages that fit a subscriber's queue
          MaxInputs,  \* bound: commands typed or sent by players, presses of
                      \* Ctrl-C and lines logged, together
          MaxClients  \* bound: client threads at a time

ASSUME BusAssumption ==
  /\ WithGui \in BOOLEAN
  /\ Hwm \in Nat \ {0}
  /\ MaxInputs \in Nat /\ MaxClients \in Nat

\* The threads that run a command handler loop.
Workers == {"help", "core", "network"} \union (IF WithGui THEN {"gui"} ELSE {})
Threads == Workers \union {"main"}

VARIABLES phase,        \* where each thread is
          notes,        \* notifications the logger has not read
          connections,  \* n_connections, the ones it still waits for
          logger,       \* "barrier", "running" or "done"
          ready,        \* what the logger's last zmq_poll found readable
          LOG_SIMPLE,
          keepRunning,
          run_cmd,      \* run-cmd: how many of each command are unread
          logs,         \* logger-log: unread log lines
          inbox,        \* each subscriber's queue
          gtk,          \* the GTK thread: "off", "starting", "open", "draining", "ended"
          window,       \* WINDOW: "none" (NULL), "open", or "closed" when GTK has
                        \* destroyed what it points to
          idle,         \* callbacks queued for the GTK main loop
          clients,      \* threads of clients that the network master has to join
          inputs,       \* what MaxInputs bounds
          after_exit    \* commands published since the first exit, -1 before

thread_vars == <<phase, inbox, keepRunning>>
logger_vars == <<notes, connections, logger, ready, LOG_SIMPLE, logs>>
gui_vars == <<gtk, window, idle>>
vars == <<thread_vars, logger_vars, gui_vars, clients, inputs, run_cmd, after_exit>>

\* "exit" stands for quit too, "mccmd" for a player's "/crss exit", "plot" for
\* a command that leaves the bus alone, "" for an empty line.
Cmd == {"exit", "mccmd", "plot", ""}

Subscription == [
  help    |-> {"exit"},
  core    |-> {"exit", "plot", "mccmd"},
  network |-> {"exit"},
  main    |-> {"exit"},
  gui     |-> {"exit", "log"},
  logger  |-> {"exit"}]

\* Mutant: the terminal is counted too, so that the barrier waits for all.
WaitedAll == IF WithGui THEN 5 ELSE 4

\* The argument of run_logger: 3 + WITH_GUI.
Waited == IF WithGui THEN 4 ELSE 3

Init ==
  /\ phase = [t \in Threads |-> "start"]
  /\ notes = 0 /\ connections = Waited
  /\ logger = "barrier" /\ ready = {} /\ LOG_SIMPLE = TRUE
  /\ keepRunning = TRUE
  /\ run_cmd = [c \in Cmd |-> 0] /\ logs = 0
  /\ inbox = [s \in Threads \union {"logger"} |-> <<>>]
  /\ gtk = IF WithGui THEN "starting" ELSE "off"
  /\ window = "none" /\ idle = <<>>
  /\ clients = 0 /\ inputs = 0
  /\ after_exit = -1

-----------------------------------------------------------------------------
(* Sending.                                                                *)

\* dispatch_command
Dispatch(c) == run_cmd' = [run_cmd EXCEPT ![c] = @ + 1]

\* The sockets that are open, and so hear a publication.  The network master joins
\* its clients before it closes its own, main closes its own before it joins.
Listening(s) == IF s = "logger" THEN logger = "running"
                ELSE \/ phase[s] \in {"subscribed", "waiting", "running"}
                     \/ s = "network" /\ phase[s] = "joining"

Alive == phase["main"] \notin {"done", "killed"}

\* A message on cmd-broadcast, as it shows in the subscribers' queues.
Publish(m) ==
  inbox' = [s \in DOMAIN inbox |->
    IF Listening(s) /\ m \in Subscription[s] /\ Len(inbox[s]) < Hwm
    THEN Append(inbox[s], m) ELSE inbox[s]]

-----------------------------------------------------------------------------
(* The threads.                                                            *)

\* Sockets are connected and subscribed.
Subscribe(t) ==
  /\ phase[t] = "start"
  /\ phase' = [phase EXCEPT ![t] = "subscribed"]
  /\ UNCHANGED <<inbox, keepRunning, logger_vars, gui_vars, clients, inputs, run_cmd, after_exit>>

\* The network master returns before it subscribes when it cannot bind.
NetworkFail ==
  /\ phase["network"] = "start"
  /\ phase' = [phase EXCEPT !["network"] = "done"]
  /\ UNCHANGED <<inbox, keepRunning, logger_vars, gui_vars, clients, inputs, run_cmd, after_exit>>

\* logger_notify.  The GUI's handler then spins until there is a window,
\* main sleeps until the logger is up.
Notify(t) ==
  /\ phase[t] = "subscribed"
  /\ notes' = notes + 1
  /\ phase' = [phase EXCEPT ![t] = IF t \in {"gui", "main"} THEN "waiting" ELSE "running"]
  /\ UNCHANGED <<inbox, keepRunning, connections, logger, ready, LOG_SIMPLE, logs,
                 gui_vars, clients, inputs, run_cmd, after_exit>>

\* while (!WINDOW); and while (LOG_SIMPLE && keepRunning) usleep(1000);
StopWaiting(t) ==
  /\ phase[t] = "waiting"
  /\ t = "gui" => window # "none"
  /\ t = "main" => ~LOG_SIMPLE \/ ~keepRunning
  /\ phase' = [phase EXCEPT ![t] = "running"]
  /\ UNCHANGED <<inbox, keepRunning, logger_vars, gui_vars, clients, inputs, run_cmd, after_exit>>

\* What a thread does when it hears exit: two have others to join.
Leaving(t) == IF t \in {"main", "network"} THEN "joining" ELSE "done"

\* Its queue after a message that it has read; it goes with the socket.
Rest(t, leaves) == IF leaves /\ t # "network" THEN <<>> ELSE Tail(inbox[t])

\* Mutant: the GUI's handler goes on after it has asked the window to close.
HandleGuiGoesOn(t) ==
  /\ phase[t] = "running" /\ inbox[t] # <<>>
  /\ LET m == Head(inbox[t])
         leaves == m = "exit" /\ t # "gui"
     IN  /\ phase' = [phase EXCEPT ![t] = IF leaves THEN Leaving(t) ELSE @]
         /\ inbox' = [inbox EXCEPT ![t] = Rest(t, leaves)]
         /\ IF t = "core" /\ m = "mccmd" THEN Dispatch("exit") ELSE UNCHANGED run_cmd
         /\ idle' = IF t = "gui" /\ m = "exit" THEN Append(idle, "quit")
                    ELSE IF t = "gui" /\ m = "log" /\ window # "none" THEN Append(idle, "add")
                    ELSE idle
  /\ UNCHANGED <<keepRunning, logger_vars, gtk, window, clients, inputs, after_exit>>

\* Mutant: the GUI's handler stops without asking the window to close.
HandleNoTerminate(t) ==
  /\ phase[t] = "running" /\ inbox[t] # <<>>
  /\ LET m == Head(inbox[t])
         leaves == m = "exit"
     IN  /\ phase' = [phase EXCEPT ![t] = IF leaves THEN Leaving(t) ELSE @]
         /\ inbox' = [inbox EXCEPT ![t] = Rest(t, leaves)]
         /\ IF t = "core" /\ m = "mccmd" THEN Dispatch("exit") ELSE UNCHANGED run_cmd
         /\ idle' = IF t = "gui" /\ m = "log" /\ window # "none" THEN Append(idle, "add")
                    ELSE idle
  /\ UNCHANGED <<keepRunning, logger_vars, gtk, window, clients, inputs, after_exit>>

\* One round of RUN_CMD_HANDLER that finds a message.  The thread that hears exit
\* leaves the loop.
Handle(t) ==
  /\ phase[t] = "running" /\ inbox[t] # <<>>
  /\ LET m == Head(inbox[t])
         leaves == m = "exit"
     IN  /\ phase' = [phase EXCEPT ![t] = IF leaves THEN Leaving(t) ELSE @]
         /\ inbox' = [inbox EXCEPT ![t] = Rest(t, leaves)]
         /\ IF t = "core" /\ m = "mccmd" THEN Dispatch("exit") ELSE UNCHANGED run_cmd
         /\ idle' = IF t = "gui" /\ m = "exit" THEN Append(idle, "quit")
                    ELSE IF t = "gui" /\ m = "log" /\ window # "none" THEN Append(idle, "add")
                    ELSE idle
  /\ UNCHANGED <<keepRunning, logger_vars, gtk, window, clients, inputs, after_exit>>

\* The network master's loop also ends when accept fails, and nobody is told.
AcceptFails ==
  /\ phase["network"] = "running"
  /\ phase' = [phase EXCEPT !["network"] = "joining"]
  /\ UNCHANGED <<inbox, keepRunning, logger_vars, gui_vars, clients, inputs, run_cmd, after_exit>>

\* A client connects; its thread ends, when the client does, and is joined.
Accept ==
  /\ phase["network"] = "running" /\ clients < MaxClients
  /\ clients' = clients + 1
  /\ UNCHANGED <<thread_vars, logger_vars, gui_vars, inputs, run_cmd, after_exit>>

ClientEnds ==
  /\ clients > 0
  /\ clients' = clients - 1
  /\ UNCHANGED <<thread_vars, logger_vars, gui_vars, inputs, run_cmd, after_exit>>

\* The network master returns when it has joined all clients, however long they stay.
NetworkJoin ==
  /\ phase["network"] = "joining" /\ clients = 0
  /\ phase' = [phase EXCEPT !["network"] = "done"]
  /\ inbox' = [inbox EXCEPT !["network"] = <<>>]
  /\ UNCHANGED <<keepRunning, logger_vars, gui_vars, clients, inputs, run_cmd, after_exit>>

\* pthread_join of every other thread; run_gui returns with its handler.
MainJoin ==
  /\ phase["main"] = "joining"
  /\ \A t \in Workers : phase[t] = "done"
  /\ logger = "done" /\ gtk \in {"off", "ended"}
  /\ phase' = [phase EXCEPT !["main"] = "terminating"]
  /\ UNCHANGED <<inbox, keepRunning, logger_vars, gui_vars, clients, inputs, run_cmd, after_exit>>

\* zmq_ctx_term waits until every socket has been closed; main returns.
Terminate ==
  /\ phase["main"] = "terminating"
  /\ clients = 0 /\ \A s \in DOMAIN inbox : ~Listening(s)
  /\ phase' = [phase EXCEPT !["main"] = "done"]
  /\ UNCHANGED <<inbox, keepRunning, logger_vars, gui_vars, clients, inputs, run_cmd, after_exit>>

-----------------------------------------------------------------------------
(* Where commands and log lines come from.                                 *)

\* A line on stdin, in the window's console (which ignores an empty one), or
\* of a player.
Issue(c) ==
  /\ inputs < MaxInputs
  /\ \/ phase["main"] = "running"
     \/ gtk = "open" /\ c # ""
     \/ clients > 0 /\ c = "mccmd"
  /\ Dispatch(c)
  /\ inputs' = inputs + 1
  /\ UNCHANGED <<thread_vars, logger_vars, gui_vars, clients, after_exit>>

\* intHandler
Interrupt ==
  /\ inputs < MaxInputs /\ Alive
  /\ inputs' = inputs + 1
  /\ keepRunning' = FALSE
  /\ Dispatch("exit")
  /\ UNCHANGED <<phase, inbox, logger_vars, gui_vars, clients, after_exit>>

\* console_log once the complex logger is up.
Log ==
  /\ inputs < MaxInputs /\ Alive /\ ~LOG_SIMPLE
  /\ inputs' = inputs + 1
  /\ logs' = logs + 1
  /\ UNCHANGED <<thread_vars, notes, connections, logger, ready, LOG_SIMPLE, gui_vars,
                 clients, run_cmd, after_exit>>

-----------------------------------------------------------------------------
(* The logger thread.                                                      *)

\* Mutant: the loop ends one connection late.
ConnectedLate ==
  /\ logger = "barrier" /\ notes > 0
  /\ notes' = notes - 1
  /\ connections' = connections - 1
  /\ IF connections = 0
     THEN logger' = "running" /\ LOG_SIMPLE' = ~LOG_SIMPLE
     ELSE UNCHANGED <<logger, LOG_SIMPLE>>
  /\ UNCHANGED <<thread_vars, ready, logs, gui_vars, clients, inputs, run_cmd, after_exit>>

\* The barrier loop; with the last connection the protocol is switched and
\* the sinks are bound.
Connected ==
  /\ logger = "barrier" /\ notes > 0
  /\ notes' = notes - 1
  /\ connections' = connections - 1
  /\ IF connections = 1
     THEN logger' = "running" /\ LOG_SIMPLE' = ~LOG_SIMPLE
     ELSE UNCHANGED <<logger, LOG_SIMPLE>>
  /\ UNCHANGED <<thread_vars, ready, logs, gui_vars, clients, inputs, run_cmd, after_exit>>

\* zmq_poll on the three sinks.
Poll ==
  /\ logger = "running" /\ ready = {}
  /\ ready' = {x \in {"log", "cmd", "exit"} :
                 \/ x = "log" /\ logs > 0
                 \/ x = "cmd" /\ \E c \in Cmd : run_cmd[c] > 0
                 \/ x = "exit" /\ inbox["logger"] # <<>>}
  /\ ready' # {}
  /\ UNCHANGED <<thread_vars, notes, connections, logger, LOG_SIMPLE, logs, gui_vars,
                 clients, inputs, run_cmd, after_exit>>

\* First a log line is published again,
PublishLog ==
  /\ "log" \in ready
  /\ ready' = ready \ {"log"}
  /\ logs' = logs - 1
  /\ Publish("log")
  /\ UNCHANGED <<phase, keepRunning, notes, connections, logger, LOG_SIMPLE, gui_vars,
                 clients, inputs, run_cmd, after_exit>>

\* then one command, unless it is empty,
PublishCmd(c) ==
  /\ "cmd" \in ready /\ "log" \notin ready
  /\ run_cmd[c] > 0
  /\ ready' = ready \ {"cmd"}
  /\ run_cmd' = [run_cmd EXCEPT ![c] = @ - 1]
  /\ IF c = "" THEN UNCHANGED <<inbox, after_exit>>
     ELSE /\ Publish(c)
          /\ after_exit' = IF after_exit >= 0 THEN after_exit + 1
                           ELSE IF c = "exit" THEN 0 ELSE after_exit
  /\ UNCHANGED <<phase, keepRunning, notes, connections, logger, LOG_SIMPLE, logs,
                 gui_vars, clients, inputs>>

\* Mutant: the loop ends only when a poll finds nothing but the exit.
LoggerExitWhenIdle ==
  /\ "exit" \in ready /\ ready \intersect {"log", "cmd"} = {}
  /\ ready' = {}
  /\ IF logs = 0 /\ \A c \in Cmd : run_cmd[c] = 0
     THEN /\ LOG_SIMPLE' = ~LOG_SIMPLE /\ logger' = "done"
          /\ inbox' = [inbox EXCEPT !["logger"] = <<>>]
     ELSE UNCHANGED <<LOG_SIMPLE, logger, inbox>>
  /\ UNCHANGED <<phase, keepRunning, notes, connections, logs, gui_vars, clients, inputs,
                 run_cmd, after_exit>>

\* and then it leaves the loop if the poll saw an exit.
LoggerExit ==
  /\ "exit" \in ready /\ ready \intersect {"log", "cmd"} = {}
  /\ ready' = {}
  /\ LOG_SIMPLE' = ~LOG_SIMPLE
  /\ logger' = "done"
  /\ inbox' = [inbox EXCEPT !["logger"] = <<>>]
  /\ UNCHANGED <<phase, keepRunning, notes, connections, logs, gui_vars, clients, inputs,
                 run_cmd, after_exit>>

-----------------------------------------------------------------------------
(* The GTK thread.                                                         *)

\* crss_app_activate.  A window that lacks a widget asks for exit at once.
Activate ==
  /\ gtk = "starting"
  /\ gtk' = "open" /\ window' = "open"
  /\ Dispatch("exit") \/ UNCHANGED run_cmd
  /\ UNCHANGED <<thread_vars, logger_vars, idle, clients, inputs, after_exit>>

\* g_application_run returns without a display.
NoDisplay ==
  /\ gtk = "starting"
  /\ gtk' = "draining"
  /\ UNCHANGED <<thread_vars, logger_vars, window, idle, clients, inputs, run_cmd, after_exit>>

\* A callback of the main loop, or of the loop that empties it afterwards:
\* gui_console_add, or __terminate_gui_inner, which ends the main loop.
RunIdle ==
  /\ gtk \in {"open", "draining"} /\ idle # <<>>
  /\ idle' = Tail(idle)
  /\ IF Head(idle) = "quit" THEN window' = "none" /\ gtk' = "draining"
     ELSE UNCHANGED <<window, gtk>>
  /\ UNCHANGED <<thread_vars, logger_vars, clients, inputs, run_cmd, after_exit>>

\* The user closes the window: GTK destroys it, and WINDOW points to it still.
CloseWindow ==
  /\ gtk = "open"
  /\ gtk' = "draining" /\ window' = "closed"
  /\ UNCHANGED <<thread_vars, logger_vars, idle, clients, inputs, run_cmd, after_exit>>

\* A callback that uses what has been destroyed: RunIdle, or the process is killed.
UseAfterClose ==
  /\ gtk = "draining" /\ idle # <<>> /\ window = "closed"
  /\ phase' = [t \in Threads |-> "killed"]
  /\ logger' = "done" /\ ready' = {} /\ gtk' = "ended" /\ window' = "none"
  /\ idle' = <<>> /\ clients' = 0
  /\ UNCHANGED <<inbox, keepRunning, notes, connections, LOG_SIMPLE, logs, inputs,
                 run_cmd, after_exit>>

\* The queue is empty: the thread goes on to join its handler.
EndGtk ==
  /\ gtk = "draining" /\ idle = <<>>
  /\ gtk' = "ended" /\ window' = "none"
  /\ UNCHANGED <<thread_vars, logger_vars, idle, clients, inputs, run_cmd, after_exit>>

-----------------------------------------------------------------------------
ThreadStep(t) == Subscribe(t) \/ Notify(t) \/ StopWaiting(t) \/ Handle(t)
Joins == NetworkJoin \/ MainJoin \/ Terminate
LoggerStep == Connected \/ Poll \/ PublishLog \/ (\E c \in Cmd : PublishCmd(c)) \/ LoggerExit
GtkStep == Activate \/ NoDisplay \/ RunIdle \/ EndGtk

Next ==
  \/ \E t \in Threads : ThreadStep(t)
  \/ NetworkFail \/ AcceptFails \/ Joins
  \/ Accept \/ ClientEnds
  \/ \E c \in Cmd : Issue(c)
  \/ Interrupt \/ Log
  \/ LoggerStep
  \/ GtkStep \/ CloseWindow \/ UseAfterClose

\* Every thread is scheduled; nobody has to connect, leave, type, send, press or
\* close anything.
Spec ==
  /\ Init /\ [][Next]_vars
  /\ \A t \in Threads : WF_vars(ThreadStep(t) \/ (t = "network" /\ NetworkFail))
  /\ WF_vars(NetworkJoin) /\ WF_vars(MainJoin \/ Terminate)
  /\ WF_vars(LoggerStep) /\ WF_vars(GtkStep)

-----------------------------------------------------------------------------
TypeOK ==
  /\ phase \in [Threads -> {"start", "subscribed", "waiting", "running", "joining",
                            "terminating", "done", "killed"}]
  /\ notes \in 0 .. Cardinality(Threads)
  /\ connections \in 0 .. Waited
  /\ logger \in {"barrier", "running", "done"}
  /\ ready \subseteq {"log", "cmd", "exit"}
  /\ LOG_SIMPLE \in BOOLEAN /\ keepRunning \in BOOLEAN
  /\ run_cmd \in [Cmd -> Nat] /\ logs \in 0 .. MaxInputs
  /\ DOMAIN inbox = Threads \union {"logger"}
  /\ \A s \in DOMAIN inbox :
       inbox[s] \in Seq(Subscription[s]) /\ Len(inbox[s]) <= Hwm
  /\ gtk \in {"off", "starting", "open", "draining", "ended"}
  /\ window \in {"none", "open", "closed"} /\ idle \in Seq({"add", "quit"})
  /\ clients \in 0 .. MaxClients /\ inputs \in 0 .. MaxInputs
  /\ after_exit \in Int

\* Once an exit is published the bus closes: however many commands wait, at
\* most one more reaches the threads.
AtMostOneAfterExit == after_exit <= 1

\* No console line and no quit reaches the GTK loop when WINDOW is NULL: both use it
\* unchecked.  In the main loop it is the window itself.  The loop that empties the
\* queue afterwards (gui.c:355) runs callbacks only when the user has closed the window,
\* and each of them uses what GTK has destroyed: gui.h:50 has the thread run "until
\* closed or terminated", but the first of these comes with the callbacks of the second.
IdleFindsWindow ==
  idle # <<>> =>
    /\ gtk = "open" => window = "open"
    /\ gtk = "draining" => window = "closed"

\* The barrier opens, and the server gets out of its simple logging, even
\* when the network master never gets as far as to notify.
BarrierOpens == <>(logger # "barrier")

\* A thread that has started and has an exit to read, or has ended.
Told(t) == phase[t] = "done" \/ (phase[t] = "running" /\ "exit" \in ToSet(inbox[t]))

AllTold == \A t \in Threads : Told(t) \/ phase[t] \in {"joining", "terminating", "killed"}

\* Once every thread has been told, all of them end, main joins them and the context
\* is closed, if the clients have left: the network master, told or out of its loop by
\* itself, waits for theirs.
ToldAllStops ==
  AllTold /\ clients = 0 /\ phase["network"] # "running" ~> ~Alive

\* rss-server.c:205, "Type 'exit' to terminate program": once the terminal has
\* its exit to read, the program ends.  It need not: the barrier opens one
\* notification early, and a thread that has not subscribed by then misses the
\* exit, which main waits for when it joins that thread.
ExitTerminates == Told("main") ~> ~Alive
=============================================================================

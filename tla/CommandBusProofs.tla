--------------------------- MODULE CommandBusProofs ---------------------------
(***************************************************************************)
(* The command bus closes after an exit, and the GTK loop never follows    *)
(* WINDOW when it is NULL, with and without the GUI, for any size of the   *)
(* queues and any number of inputs.                                        *)
(*                                                                         *)
(* That at most one command follows an exit rests on what the logger's     *)
(* last poll found: BusInv follows the exit from its publication to the    *)
(* logger's queue, from there to the result of the next poll, and to the   *)
(* end of the logger.  WindowInv does the same for the request to quit,    *)
(* which is the last callback that is ever queued.                         *)
(*                                                                         *)
(* The last part is about the lines themselves, as Commands has them: the  *)
(* threads end together.                                                   *)
(***************************************************************************)
EXTENDS CommandBus, Endings, SequenceTheorems, FiniteSetTheorems, WellFoundedInduction, TLAPS

\* The threads that have notified the logger, or never will; each of the others is
\* still to be read or still waited for.
Notified == {t \in Threads : phase[t] \notin {"start", "subscribed"}}

BarrierInv ==
  /\ notes + (Waited - connections) <= Cardinality(Notified)
  /\ logger = "barrier" => connections > 0
  /\ logger # "running" => ready = {}

\* What a poll finds readable stays so until it has been read.
PollInv ==
  /\ "log" \in ready => logs > 0
  /\ "exit" \in ready => inbox["logger"] # <<>>
  /\ logs <= inputs

\* The way of the exit through the logger.
BusInv ==
  /\ after_exit \in {-1, 0, 1}
  /\ after_exit = -1 => inbox["logger"] = <<>>
  /\ after_exit # -1 => logger = "done" \/ inbox["logger"] # <<>>
  /\ after_exit = 0 /\ "cmd" \in ready => "exit" \in ready
  /\ after_exit = 1 => "cmd" \notin ready /\ (logger = "done" \/ "exit" \in ready)

\* The window's life, and that of what is queued for it.
WindowInv ==
  /\ window # "none" => gtk \in {"open", "draining"}
  /\ window = "open" <=> gtk = "open"
  /\ \A t \in Threads : t = "gui" /\ phase[t] = "running" => window # "none" \/ gtk = "ended"
  /\ \A j \in DOMAIN idle :
       idle[j] = "quit" => /\ j = Len(idle)
                           /\ \A t \in Threads : t = "gui" => phase[t] = "done"
  /\ gtk \in {"off", "starting"} => idle = <<>>
  /\ IdleFindsWindow

IInv == TypeOK /\ BarrierInv /\ PollInv /\ BusInv /\ WindowInv

-----------------------------------------------------------------------------
(* The constants, the queues and the count of who has notified.            *)

\* The threads, of which the logger is none, and the number it waits for.
LEMMA ThreadFacts ==
  /\ Threads \subseteq {"help", "core", "network", "gui", "main"}
  /\ {"help", "core", "network", "main"} \subseteq Threads
  /\ "logger" \notin Threads
  /\ IsFiniteSet(Threads)
  /\ Waited \in {3, 4}
  <1>1. /\ Threads \subseteq {"help", "core", "network", "gui", "main"}
        /\ {"help", "core", "network", "main"} \subseteq Threads
        /\ "logger" \notin Threads
    BY DEF Threads, Workers
  <1>2. IsFiniteSet({"help", "core", "network", "gui", "main"})
    <2>1. IsFiniteSet({"help"})
      BY FS_Singleton
    <2>2. IsFiniteSet({"help"} \union {"core"})
      BY <2>1, FS_AddElement
    <2>3. IsFiniteSet(({"help"} \union {"core"}) \union {"network"})
      BY <2>2, FS_AddElement
    <2>4. IsFiniteSet((({"help"} \union {"core"}) \union {"network"}) \union {"gui"})
      BY <2>3, FS_AddElement
    <2>5. IsFiniteSet(((({"help"} \union {"core"}) \union {"network"}) \union {"gui"})
                      \union {"main"})
      BY <2>4, FS_AddElement
    <2>6. {"help", "core", "network", "gui", "main"}
          = ((({"help"} \union {"core"}) \union {"network"}) \union {"gui"}) \union {"main"}
      OBVIOUS
    <2> QED
      BY <2>5, <2>6
  <1>3. IsFiniteSet(Threads)
    BY <1>1, <1>2, FS_Subset
  <1>4. Waited \in {3, 4}
    BY DEF Waited
  <1> QED
    BY <1>1, <1>3, <1>4

\* What a publication does to the queues: each stays within its bound and its
\* subscriptions, and loses nothing.
LEMMA PublishFacts ==
  ASSUME TypeOK, NEW m, Publish(m)
  PROVE  /\ DOMAIN inbox' = Threads \union {"logger"}
         /\ \A s \in DOMAIN inbox :
              /\ inbox'[s] \in Seq(Subscription[s]) /\ Len(inbox'[s]) <= Hwm
              /\ inbox[s] # <<>> => inbox'[s] # <<>>
  <1>1. DOMAIN inbox' = Threads \union {"logger"} /\ Hwm \in Nat /\ DOMAIN inbox = DOMAIN inbox'
    BY BusAssumption DEF Publish, TypeOK
  <1>2. ASSUME NEW s \in DOMAIN inbox
        PROVE  /\ inbox'[s] \in Seq(Subscription[s]) /\ Len(inbox'[s]) <= Hwm
               /\ inbox[s] # <<>> => inbox'[s] # <<>>
    <2>1. inbox[s] \in Seq(Subscription[s]) /\ Len(inbox[s]) <= Hwm /\ Len(inbox[s]) \in Nat
      BY DEF TypeOK
    <2>2. inbox'[s] = inbox[s]
          \/ /\ inbox'[s] = Append(inbox[s], m)
             /\ m \in Subscription[s] /\ Len(inbox[s]) < Hwm
      BY DEF Publish
    <2>3. CASE inbox'[s] = inbox[s]
      BY <2>1, <2>3
    <2>4. CASE /\ inbox'[s] = Append(inbox[s], m)
               /\ m \in Subscription[s] /\ Len(inbox[s]) < Hwm
      <3>1. /\ Append(inbox[s], m) \in Seq(Subscription[s])
            /\ Len(Append(inbox[s], m)) = Len(inbox[s]) + 1
        BY <2>1, <2>4, AppendProperties
      <3>2. Append(inbox[s], m) # <<>>
        BY <2>1, <3>1
      <3> QED
        BY <1>1, <2>1, <2>4, <3>1, <3>2
    <2> QED
      BY <2>2, <2>3, <2>4
  <1> QED
    BY <1>1, <1>2

\* The threads that have notified are some of the threads.
LEMMA NotifiedFacts ==
  /\ IsFiniteSet(Notified) /\ Cardinality(Notified) \in Nat
  /\ Cardinality(Threads) \in Nat /\ Cardinality(Notified) <= Cardinality(Threads)
  <1>1. Notified \subseteq Threads
    BY DEF Notified
  <1> QED
    BY <1>1, ThreadFacts, FS_Subset, FS_CardinalityType

\* A queue that is emptied, or from which one message is read, stays within its bound.
LEMMA QueueFacts ==
  ASSUME NEW S
  PROVE  /\ <<>> \in Seq(S) /\ Len(<<>>) <= Hwm
         /\ \A q \in Seq(S) : q # <<>> /\ Len(q) <= Hwm =>
              /\ Head(q) \in S /\ Tail(q) \in Seq(S)
              /\ Len(Tail(q)) = Len(q) - 1 /\ Len(Tail(q)) <= Hwm
  <1>1. Hwm \in Nat /\ Len(<<>>) = 0 /\ <<>> \in Seq(S)
    BY BusAssumption
  <1>2. ASSUME NEW q \in Seq(S), q # <<>>, Len(q) <= Hwm
        PROVE  /\ Head(q) \in S /\ Tail(q) \in Seq(S)
               /\ Len(Tail(q)) = Len(q) - 1 /\ Len(Tail(q)) <= Hwm
    <2>1. Len(q) \in Nat
      OBVIOUS
    <2>2. Head(q) \in S /\ Tail(q) \in Seq(S) /\ Len(Tail(q)) = Len(q) - 1
      BY <1>2, HeadTailProperties
    <2> QED
      BY <1>1, <1>2, <2>1, <2>2
  <1> QED
    BY <1>1, <1>2

\* A command that is sent is one more to be read.
LEMMA DispatchFacts ==
  ASSUME NEW c \in Cmd, run_cmd \in [Cmd -> Nat], Dispatch(c)
  PROVE  run_cmd' \in [Cmd -> Nat]
  BY DEF Dispatch

-----------------------------------------------------------------------------
(* The invariant holds in the beginning.                                   *)

\* Every conjunct of the invariant holds of the initial states.
LEMMA Starts == Init => IInv
  <1> SUFFICES ASSUME Init PROVE IInv
    OBVIOUS
  <1>1. TypeOK
    <2>1. \A s \in DOMAIN inbox : inbox[s] \in Seq(Subscription[s]) /\ Len(inbox[s]) <= Hwm
      <3>1. \A s \in DOMAIN inbox : inbox[s] = <<>>
        BY DEF Init
      <3> QED
        BY <3>1, QueueFacts
    <2>2. /\ window \in {"none", "open", "closed"}
          /\ LOG_SIMPLE \in BOOLEAN /\ keepRunning \in BOOLEAN
      BY DEF Init
    <2>3. gtk \in {"off", "starting", "open", "draining", "ended"}
      BY DEF Init
    <2>4. notes \in 0 .. Cardinality(Threads) /\ connections \in 0 .. Waited
      BY ThreadFacts, NotifiedFacts DEF Init
    <2>5. run_cmd \in [Cmd -> Nat] /\ logs \in 0 .. MaxInputs /\ inputs \in 0 .. MaxInputs
          /\ clients \in 0 .. MaxClients /\ after_exit \in Int
      BY BusAssumption DEF Init
    <2>6. /\ phase \in [Threads -> {"start", "subscribed", "waiting", "running", "joining",
                                    "terminating", "done", "killed"}]
          /\ logger \in {"barrier", "running", "done"} /\ ready \subseteq {"log", "cmd", "exit"}
          /\ DOMAIN inbox = Threads \union {"logger"} /\ idle \in Seq({"add", "quit"})
      BY DEF Init
    <2> QED
      BY <2>1, <2>2, <2>3, <2>4, <2>5, <2>6 DEF TypeOK
  <1>2. BarrierInv
    BY ThreadFacts, NotifiedFacts DEF Init, BarrierInv
  <1>3. PollInv
    BY BusAssumption DEF Init, PollInv
  <1>4. BusInv
    BY DEF Init, BusInv
  <1>5. WindowInv
    <2>1. window = "none" /\ idle = <<>> /\ DOMAIN idle = {} /\ gtk # "open"
      BY DEF Init
    <2>2. \A t \in Threads : phase[t] = "start"
      BY DEF Init
    <2> QED
      BY <2>1, <2>2 DEF WindowInv, IdleFindsWindow
  <1> QED
    BY <1>1, <1>2, <1>3, <1>4, <1>5 DEF IInv

-----------------------------------------------------------------------------
(* The types.                                                              *)

\* The threads' own steps keep the types; a notification is counted by a thread that
\* is not counted in Notified yet.
LEMMA ThreadTypes ==
  ASSUME TypeOK, BarrierInv, NEW t \in Threads, ThreadStep(t)
  PROVE  TypeOK'
  <1>1. CASE Subscribe(t)
    BY <1>1 DEF TypeOK, Subscribe, logger_vars, gui_vars
  <1>2. CASE Notify(t)
    <2>1. notes + 1 \in 0 .. Cardinality(Threads)
      <3>1. t \notin Notified /\ Notified \union {t} \subseteq Threads
        BY <1>2 DEF Notify, Notified
      <3>2. /\ Cardinality(Notified \union {t}) = Cardinality(Notified) + 1
            /\ Cardinality(Notified \union {t}) <= Cardinality(Threads)
        BY <3>1, ThreadFacts, NotifiedFacts, FS_AddElement, FS_Subset
      <3> QED
        BY <3>2, NotifiedFacts, ThreadFacts DEF BarrierInv, TypeOK
    <2> QED
      BY <1>2, <2>1 DEF TypeOK, Notify, gui_vars
  <1>3. CASE StopWaiting(t)
    BY <1>3 DEF TypeOK, StopWaiting, logger_vars, gui_vars
  <1>4. CASE Handle(t)
    <2>1. phase' \in [Threads -> {"start", "subscribed", "waiting", "running", "joining",
                                  "terminating", "done", "killed"}]
      <3>1. Leaving(t) \in {"joining", "done"}
        BY DEF Leaving
      <3>2. \E ph \in {Leaving(t), phase[t]} : phase' = [phase EXCEPT ![t] = ph]
        BY <1>4 DEF Handle
      <3> QED
        BY <3>1, <3>2 DEF TypeOK
    <2>4. idle' \in Seq({"add", "quit"})
      BY <1>4 DEF TypeOK, Handle
    <2>2. run_cmd' \in [Cmd -> Nat]
      <3>1. Dispatch("exit") \/ run_cmd' = run_cmd
        BY <1>4 DEF Handle
      <3> QED
        BY <3>1, DispatchFacts DEF TypeOK, Cmd
    <2>3. /\ DOMAIN inbox' = Threads \union {"logger"}
          /\ \A s \in DOMAIN inbox' :
               inbox'[s] \in Seq(Subscription[s]) /\ Len(inbox'[s]) <= Hwm
      <3>1. inbox[t] \in Seq(Subscription[t]) /\ inbox[t] # <<>> /\ Len(inbox[t]) <= Hwm
        BY <1>4 DEF TypeOK, Handle
      <3>2. /\ Tail(inbox[t]) \in Seq(Subscription[t]) /\ Len(Tail(inbox[t])) <= Hwm
            /\ <<>> \in Seq(Subscription[t]) /\ Len(<<>>) <= Hwm
        BY <3>1, QueueFacts
      <3>3. \E q \in {<<>>, Tail(inbox[t])} : inbox' = [inbox EXCEPT ![t] = q]
        BY <1>4 DEF Handle, Rest
      <3> QED
        BY <3>2, <3>3 DEF TypeOK
    <2> QED
      BY <1>4, <2>1, <2>2, <2>3, <2>4 DEF TypeOK, Handle, logger_vars
  <1> QED
    BY <1>1, <1>2, <1>3, <1>4 DEF ThreadStep

\* So do the other steps of the threads, and what is typed, sent or logged.
LEMMA InputTypes ==
  ASSUME TypeOK, PollInv,
         \/ NetworkFail \/ AcceptFails \/ Joins \/ Accept \/ ClientEnds
         \/ (\E c \in Cmd : Issue(c)) \/ Interrupt \/ Log
  PROVE  TypeOK'
  <1>1. CASE NetworkFail
    BY <1>1 DEF TypeOK, NetworkFail, logger_vars, gui_vars
  <1>2. CASE NetworkJoin
    <2>1. <<>> \in Seq(Subscription["network"]) /\ Len(<<>>) <= Hwm
      BY BusAssumption
    <2> QED
      BY <1>2, <2>1 DEF TypeOK, NetworkJoin, logger_vars, gui_vars
  <1>6. CASE AcceptFails \/ MainJoin \/ Terminate
    <2>1. /\ phase' \in [Threads -> {"start", "subscribed", "waiting", "running", "joining",
                                     "terminating", "done", "killed"}]
          /\ UNCHANGED <<inbox, keepRunning, logger_vars, gui_vars, clients, inputs, run_cmd,
                         after_exit>>
      BY <1>6 DEF TypeOK, AcceptFails, MainJoin, Terminate
    <2> QED
      BY <2>1 DEF TypeOK, logger_vars, gui_vars
  <1>7. CASE Accept \/ ClientEnds
    <2>1. clients' \in 0 .. MaxClients
      BY <1>7, BusAssumption DEF TypeOK, Accept, ClientEnds
    <2> QED
      BY <1>7, <2>1 DEF TypeOK, Accept, ClientEnds, thread_vars, logger_vars, gui_vars
  <1>3. ASSUME NEW c \in Cmd, Issue(c)
        PROVE  TypeOK'
    <2>1. run_cmd' \in [Cmd -> Nat]
      BY <1>3, DispatchFacts DEF Issue, TypeOK
    <2>2. inputs' \in 0 .. MaxInputs
      <3>1. inputs \in 0 .. MaxInputs /\ inputs < MaxInputs /\ inputs' = inputs + 1
        BY <1>3 DEF Issue, TypeOK
      <3> QED
        BY <3>1, BusAssumption
    <2> QED
      BY <1>3, <2>1, <2>2 DEF TypeOK, Issue, thread_vars, logger_vars, gui_vars
  <1>4. CASE Interrupt
    <2>1. keepRunning' \in BOOLEAN /\ "exit" \in Cmd
      BY <1>4 DEF Interrupt, Cmd
    <2> QED
      BY <1>4, <2>1, BusAssumption DEF TypeOK, Interrupt, Dispatch, logger_vars, gui_vars
  <1>5. CASE Log
    BY <1>5, BusAssumption DEF TypeOK, PollInv, Log, thread_vars, gui_vars
  <1> QED
    BY <1>1, <1>2, <1>3, <1>4, <1>5, <1>6, <1>7 DEF Joins

\* So do the steps of the logger.
LEMMA LoggerTypes ==
  ASSUME TypeOK, BarrierInv, PollInv, LoggerStep
  PROVE  TypeOK'
  <1>1. CASE Connected
    <2>1. LOG_SIMPLE' \in BOOLEAN
      BY <1>1 DEF Connected, TypeOK
    <2>2. notes' \in 0 .. Cardinality(Threads) /\ connections' \in 0 .. Waited
      BY <1>1, ThreadFacts, NotifiedFacts DEF Connected, TypeOK, BarrierInv
    <2>3. logger' \in {"barrier", "running", "done"}
      BY <1>1 DEF Connected, TypeOK
    <2> QED
      BY <1>1, <2>1, <2>2, <2>3 DEF Connected, TypeOK, thread_vars, gui_vars
  <1>2. CASE Poll
    BY <1>2 DEF Poll, TypeOK, thread_vars, gui_vars
  <1>3. CASE PublishLog
    <2>1. logs' \in 0 .. MaxInputs /\ ready' \subseteq {"log", "cmd", "exit"}
      BY <1>3, BusAssumption DEF PublishLog, TypeOK, PollInv
    <2> QED
      BY <1>3, <2>1, PublishFacts DEF PublishLog, TypeOK, gui_vars
  <1>4. ASSUME NEW c \in Cmd, PublishCmd(c)
        PROVE  TypeOK'
    <2>1. run_cmd' \in [Cmd -> Nat]
      <3>1. run_cmd[c] \in Nat /\ run_cmd[c] > 0
        BY <1>4 DEF PublishCmd, TypeOK
      <3>2. run_cmd[c] - 1 \in Nat
        BY <3>1
      <3>3. run_cmd' = [run_cmd EXCEPT ![c] = run_cmd[c] - 1] /\ run_cmd \in [Cmd -> Nat]
        BY <1>4 DEF PublishCmd, TypeOK
      <3> QED
        BY <3>2, <3>3
    <2>2. after_exit' \in Int /\ ready' \subseteq {"log", "cmd", "exit"}
      <3>1. after_exit' \in {after_exit, after_exit + 1, 0} /\ after_exit \in Int
        BY <1>4 DEF PublishCmd, TypeOK
      <3>2. ready' = ready \ {"cmd"} /\ ready \subseteq {"log", "cmd", "exit"}
        BY <1>4 DEF PublishCmd, TypeOK
      <3> QED
        BY <3>1, <3>2
    <2>3. /\ DOMAIN inbox' = Threads \union {"logger"}
          /\ \A s \in DOMAIN inbox' :
               inbox'[s] \in Seq(Subscription[s]) /\ Len(inbox'[s]) <= Hwm
      BY <1>4, PublishFacts DEF PublishCmd, TypeOK
    <2> QED
      BY <1>4, <2>1, <2>2, <2>3 DEF PublishCmd, TypeOK, gui_vars
  <1>5. CASE LoggerExit
    <2>1. LOG_SIMPLE' \in BOOLEAN
      BY <1>5 DEF LoggerExit
    <2>2. <<>> \in Seq(Subscription["logger"]) /\ Len(<<>>) <= Hwm
      BY BusAssumption
    <2>3. /\ DOMAIN inbox' = Threads \union {"logger"}
          /\ \A s \in DOMAIN inbox' :
               inbox'[s] \in Seq(Subscription[s]) /\ Len(inbox'[s]) <= Hwm
      BY <1>5, <2>2 DEF LoggerExit, TypeOK
    <2> QED
      BY <1>5, <2>1, <2>3 DEF LoggerExit, TypeOK, gui_vars
  <1> QED
    BY <1>1, <1>2, <1>3, <1>4, <1>5 DEF LoggerStep

\* So do the steps of the GTK thread.
LEMMA GtkTypes ==
  ASSUME TypeOK, GtkStep \/ CloseWindow \/ UseAfterClose
  PROVE  TypeOK'
  <1>1. CASE Activate
    <2>1. window' \in {"none", "open", "closed"}
      BY <1>1 DEF Activate
    <2>2. run_cmd' \in [Cmd -> Nat]
      BY <1>1, SMTT(30) DEF Activate, Dispatch, TypeOK
    <2> QED
      BY <1>1, <2>1, <2>2 DEF Activate, TypeOK, thread_vars, logger_vars
  <1>2. CASE NoDisplay
    BY <1>2 DEF NoDisplay, TypeOK, thread_vars, logger_vars
  <1>3. CASE RunIdle
    <2>1. window' \in {"none", "open", "closed"}
      BY <1>3 DEF RunIdle, TypeOK
    <2>2. idle' \in Seq({"add", "quit"}) /\ gtk' \in {"off", "starting", "open", "draining", "ended"}
      BY <1>3 DEF RunIdle, TypeOK
    <2> QED
      BY <1>3, <2>1, <2>2 DEF RunIdle, TypeOK, thread_vars, logger_vars
  <1>4. CASE EndGtk
    <2>1. window' \in {"none", "open", "closed"}
      BY <1>4 DEF EndGtk
    <2> QED
      BY <1>4, <2>1 DEF EndGtk, TypeOK, thread_vars, logger_vars
  <1>5. CASE CloseWindow
    BY <1>5 DEF CloseWindow, TypeOK, thread_vars, logger_vars
  <1>6. CASE UseAfterClose
    <2>1. /\ phase' \in [Threads -> {"start", "subscribed", "waiting", "running", "joining",
                                     "terminating", "done", "killed"}]
          /\ idle' \in Seq({"add", "quit"}) /\ clients' \in 0 .. MaxClients
      BY <1>6, BusAssumption DEF UseAfterClose
    <2> QED
      BY <1>6, <2>1 DEF UseAfterClose, TypeOK
  <1> QED
    BY <1>1, <1>2, <1>3, <1>4, <1>5, <1>6 DEF GtkStep

-----------------------------------------------------------------------------
(* The barrier, and what the poll found.                                   *)

\* No step takes back that a thread has notified.
LEMMA NotifiedGrows ==
  ASSUME TypeOK, Next
  PROVE  /\ Notified \subseteq Notified'
         /\ IsFiniteSet(Notified') /\ Cardinality(Notified') \in Nat
         /\ Cardinality(Notified) <= Cardinality(Notified')
  <1>1. Notified \subseteq Notified'
    <2>1. ASSUME NEW t \in Threads, ThreadStep(t)
          PROVE  Notified \subseteq Notified'
      <3>1. Leaving(t) \in {"joining", "done"}
        BY DEF Leaving
      <3> QED
        BY <2>1, <3>1 DEF ThreadStep, Subscribe, Notify, StopWaiting, Handle, Notified, TypeOK
    <2>2. CASE NetworkFail \/ AcceptFails \/ Joins \/ UseAfterClose
      BY <2>2 DEF NetworkFail, AcceptFails, Joins, NetworkJoin, MainJoin, Terminate,
                  UseAfterClose, Notified, TypeOK
    <2>3. CASE phase' = phase
      BY <2>3 DEF Notified
    <2>4. CASE \/ Accept \/ ClientEnds \/ (\E c \in Cmd : Issue(c)) \/ Interrupt \/ Log
               \/ LoggerStep \/ GtkStep \/ CloseWindow
      BY <2>3, <2>4
         DEF Accept, ClientEnds, Issue, Interrupt, Log, LoggerStep, GtkStep, CloseWindow, Connected, Poll,
             PublishLog, PublishCmd, LoggerExit, Activate, NoDisplay, RunIdle, EndGtk,
             thread_vars
    <2> QED
      BY <2>1, <2>2, <2>4 DEF Next
  <1>2. Notified' \subseteq Threads
    BY DEF Notified
  <1>3. IsFiniteSet(Notified')
    BY <1>2, ThreadFacts, FS_Subset
  <1> QED
    BY <1>1, <1>3, FS_Subset, FS_CardinalityType

\* The barrier is left alone by all but the notifications and the logger.
LEMMA BarrierStep ==
  ASSUME TypeOK, BarrierInv, Next
  PROVE  BarrierInv'
  <1> USE NotifiedGrows, NotifiedFacts, ThreadFacts
  <1>1. CASE UNCHANGED <<notes, connections, logger>> /\ (ready' = ready \/ logger = "running")
    <2>1. notes \in Int /\ connections \in Int /\ Waited \in Int
      BY DEF TypeOK
    <2>2. notes' + (Waited - connections') <= Cardinality(Notified')
      BY <1>1, <2>1 DEF BarrierInv
    <2>3. logger' = "barrier" => connections' > 0
      BY <1>1 DEF BarrierInv
    <2>4. logger' # "running" => ready' = {}
      BY <1>1 DEF BarrierInv
    <2> QED
      BY <2>2, <2>3, <2>4 DEF BarrierInv
  <1>2. ASSUME NEW t \in Threads, Notify(t)
        PROVE  BarrierInv'
    <2>1. t \notin Notified /\ Notified' = Notified \union {t}
      BY <1>2 DEF Notify, Notified, TypeOK
    <2>2. Cardinality(Notified') = Cardinality(Notified) + 1
      BY <2>1, FS_AddElement
    <2> QED
      BY <1>2, <2>2 DEF Notify, BarrierInv, TypeOK
  <1>3. CASE Connected
    BY <1>3 DEF Connected, BarrierInv, TypeOK
  <1>4. CASE LoggerExit \/ UseAfterClose
    <2>1. logger' = "done" /\ ready' = {} /\ UNCHANGED <<notes, connections>>
      BY <1>4 DEF LoggerExit, UseAfterClose
    <2> QED
      BY <2>1 DEF BarrierInv, TypeOK
  <1>5. ASSUME NEW t \in Threads, Subscribe(t) \/ StopWaiting(t) \/ Handle(t)
        PROVE  BarrierInv'
    BY <1>1, <1>5 DEF Subscribe, StopWaiting, Handle, logger_vars
  <1>6. CASE \/ NetworkFail \/ AcceptFails \/ Joins \/ Accept \/ ClientEnds
             \/ (\E c \in Cmd : Issue(c)) \/ Interrupt \/ Log
    BY <1>1, <1>6 DEF NetworkFail, AcceptFails, Joins, NetworkJoin, MainJoin, Terminate,
                      Accept, ClientEnds, Issue, Interrupt, Log, logger_vars
  <1>7. CASE Poll \/ PublishLog \/ (\E c \in Cmd : PublishCmd(c))
    <2>1. UNCHANGED <<notes, connections, logger>> /\ (ready # {} \/ logger = "running")
      BY <1>7 DEF Poll, PublishLog, PublishCmd
    <2> QED
      BY <1>1, <2>1 DEF BarrierInv
  <1>8. CASE GtkStep \/ CloseWindow
    BY <1>1, <1>8 DEF GtkStep, CloseWindow, Activate, NoDisplay, RunIdle, EndGtk, logger_vars
  <1> QED
    BY <1>2, <1>3, <1>4, <1>5, <1>6, <1>7, <1>8 DEF Next, ThreadStep, LoggerStep

\* Only the logger reads its queue: all else leaves it as it is or adds to it.
LEMMA LoggerQueue ==
  ASSUME TypeOK, Next, ~LoggerStep, ~UseAfterClose
  PROVE  /\ inbox'["logger"] = inbox["logger"]
         /\ UNCHANGED <<logger, ready, after_exit>>
  <1>1. ASSUME NEW t \in Threads, ThreadStep(t)
        PROVE  /\ inbox'["logger"] = inbox["logger"]
               /\ UNCHANGED <<logger, ready, after_exit>>
    <2>1. t # "logger"
      BY ThreadFacts
    <2>2. inbox'["logger"] = inbox["logger"]
      BY <1>1, <2>1 DEF ThreadStep, Subscribe, Notify, StopWaiting, Handle, TypeOK
    <2> QED
      BY <1>1, <2>2 DEF ThreadStep, Subscribe, Notify, StopWaiting, Handle, logger_vars
  <1>2. CASE Joins
    BY <1>2 DEF Joins, NetworkJoin, MainJoin, Terminate, TypeOK, logger_vars
  <1>3. CASE \/ NetworkFail \/ AcceptFails \/ Accept \/ ClientEnds
             \/ (\E c \in Cmd : Issue(c)) \/ Interrupt \/ Log
    BY <1>3 DEF NetworkFail, AcceptFails, Accept, ClientEnds, Issue, Interrupt, Log,
                logger_vars, thread_vars
  <1>4. CASE GtkStep \/ CloseWindow
    BY <1>4 DEF GtkStep, CloseWindow, Activate, NoDisplay, RunIdle, EndGtk, logger_vars,
                thread_vars
  <1> QED
    BY <1>1, <1>2, <1>3, <1>4 DEF Next

\* What a poll found stays to be read.
LEMMA PollStep ==
  ASSUME TypeOK, PollInv, Next
  PROVE  PollInv'
  <1>1. CASE LoggerStep
    <2>1. CASE Connected
      BY <2>1 DEF Connected, PollInv, thread_vars
    <2>2. CASE Poll
      BY <2>2 DEF Poll, PollInv, thread_vars
    <2>3. CASE PublishLog
      BY <2>3, PublishFacts DEF PublishLog, PollInv, TypeOK
    <2>4. ASSUME NEW c \in Cmd, PublishCmd(c)
          PROVE  PollInv'
      <3>1. inbox["logger"] # <<>> => inbox'["logger"] # <<>>
        BY <2>4, PublishFacts DEF PublishCmd, TypeOK
      <3> QED
        BY <2>4, <3>1 DEF PublishCmd, PollInv
    <2>5. CASE LoggerExit
      BY <2>5 DEF LoggerExit, PollInv
    <2> QED
      BY <1>1, <2>1, <2>2, <2>3, <2>4, <2>5 DEF LoggerStep
  <1>3. CASE UseAfterClose
    BY <1>3 DEF UseAfterClose, PollInv
  <1>2. CASE ~LoggerStep /\ ~UseAfterClose
    <2>1. inbox'["logger"] = inbox["logger"] /\ ready' = ready
      BY <1>2, LoggerQueue
    <2>2. \/ logs' = logs /\ inputs' = inputs
          \/ logs' = logs /\ inputs' = inputs + 1
          \/ logs' = logs + 1 /\ inputs' = inputs + 1
      BY <1>2 DEF Next, ThreadStep, Subscribe, Notify, StopWaiting, Handle, NetworkFail,
                  AcceptFails,
                  Joins, NetworkJoin, MainJoin, Terminate, Accept, ClientEnds, Issue, Interrupt, Log, GtkStep, CloseWindow, Activate, NoDisplay, RunIdle,
                  EndGtk, logger_vars
    <2> QED
      BY <2>1, <2>2 DEF PollInv, TypeOK
  <1> QED
    BY <1>1, <1>2, <1>3

-----------------------------------------------------------------------------
(* The way of the exit.                                                    *)

\* The logger hears the exit itself, and nothing else that it publishes.
LEMMA LoggerHears ==
  ASSUME TypeOK, logger = "running", NEW m, Publish(m)
  PROVE  IF m = "exit" THEN inbox'["logger"] # <<>> ELSE inbox'["logger"] = inbox["logger"]
  <1>1. "logger" \in DOMAIN inbox /\ Subscription["logger"] = {"exit"}
    BY DEF TypeOK, Subscription
  <1>2. CASE m # "exit"
    BY <1>1, <1>2 DEF Publish
  <1>3. CASE m = "exit" /\ inbox["logger"] # <<>>
    BY <1>1, <1>3, PublishFacts
  <1>4. CASE m = "exit" /\ inbox["logger"] = <<>>
    <2>1. Len(inbox["logger"]) < Hwm
      BY <1>4, BusAssumption
    <2>2. inbox'["logger"] = Append(<<>>, m)
      BY <1>1, <1>4, <2>1 DEF Publish, Listening
    <2> QED
      BY <1>4, <2>2
  <1> QED
    BY <1>2, <1>3, <1>4

\* The first exit is queued for the logger, is seen by its next poll, and the round
\* that follows this poll is the last.
LEMMA BusStep ==
  ASSUME TypeOK, BarrierInv, PollInv, BusInv, Next
  PROVE  BusInv'
  <1>1. CASE ~LoggerStep /\ ~UseAfterClose
    BY <1>1, LoggerQueue DEF BusInv
  <1>7. CASE UseAfterClose
    BY <1>7 DEF UseAfterClose, BusInv
  <1>2. CASE Connected
    <2>1. logger # "done" /\ UNCHANGED <<inbox, ready, after_exit>>
      BY <1>2 DEF Connected, thread_vars
    <2> QED
      BY <2>1 DEF BusInv
  <1>3. CASE Poll
    <2>1. /\ logger = "running" /\ ready = {} /\ UNCHANGED <<inbox, logger, after_exit>>
          /\ inbox["logger"] # <<>> => "exit" \in ready'
      BY <1>3 DEF Poll, thread_vars
    <2> QED
      BY <2>1 DEF BusInv
  <1>4. CASE PublishLog
    <2>1. logger = "running"
      BY <1>4 DEF PublishLog, BarrierInv
    <2>2. inbox'["logger"] = inbox["logger"]
      BY <1>4, <2>1, LoggerHears DEF PublishLog
    <2>3. /\ UNCHANGED <<logger, after_exit>> /\ ready' = ready \ {"log"}
      BY <1>4 DEF PublishLog
    <2> QED
      BY <2>2, <2>3 DEF BusInv
  <1>5. ASSUME NEW c \in Cmd, PublishCmd(c)
        PROVE  BusInv'
    <2>1. /\ "cmd" \in ready /\ ready' = ready \ {"cmd"} /\ UNCHANGED logger
          /\ logger = "running"
      BY <1>5 DEF PublishCmd, BarrierInv
    <2>2. CASE c = ""
      BY <1>5, <2>1, <2>2 DEF PublishCmd, BusInv
    <2>3. CASE c # ""
      <3>1. /\ Publish(c)
            /\ after_exit' = IF after_exit >= 0 THEN after_exit + 1
                             ELSE IF c = "exit" THEN 0 ELSE after_exit
        BY <1>5, <2>3 DEF PublishCmd
      <3>2. IF c = "exit" THEN inbox'["logger"] # <<>> ELSE inbox'["logger"] = inbox["logger"]
        BY <2>1, <3>1, LoggerHears
      <3>3. CASE after_exit = -1
        BY <2>1, <3>1, <3>2, <3>3 DEF BusInv
      <3>4. CASE after_exit = 0
        BY <2>1, <3>1, <3>2, <3>4 DEF BusInv
      <3>5. CASE after_exit = 1
        BY <2>1, <3>5 DEF BusInv
      <3> QED
        BY <3>3, <3>4, <3>5 DEF BusInv
    <2> QED
      BY <2>2, <2>3
  <1>6. CASE LoggerExit
    <2>1. /\ "exit" \in ready /\ ready' = {} /\ logger' = "done" /\ UNCHANGED after_exit
      BY <1>6 DEF LoggerExit
    <2>2. inbox'["logger"] = <<>>
      BY <1>6 DEF LoggerExit, TypeOK
    <2> QED
      BY <2>1, <2>2 DEF BusInv, PollInv
  <1> QED
    BY <1>1, <1>2, <1>3, <1>4, <1>5, <1>6, <1>7 DEF LoggerStep

-----------------------------------------------------------------------------
(* The window.                                                             *)

\* The steps that leave the window, its thread and its queue alone, and do not set
\* the GUI's handler going, keep what is known of them.
LEMMA WindowAlone ==
  ASSUME WindowInv, UNCHANGED gui_vars,
         \A t \in Threads : t = "gui" =>
            \/ phase'[t] = phase[t]
            \/ phase[t] # "done" /\ phase'[t] # "running"
  PROVE  WindowInv'
  <1>1. window' = window /\ gtk' = gtk /\ idle' = idle
    BY DEF gui_vars
  <1>2. IdleFindsWindow'
    BY <1>1 DEF IdleFindsWindow, WindowInv
  <1>3. \A t \in Threads : t = "gui" /\ phase'[t] = "running" => window' # "none" \/ gtk' = "ended"
    BY <1>1 DEF WindowInv
  <1>4. \A j \in DOMAIN idle' :
          idle'[j] = "quit" => /\ j = Len(idle')
                              /\ \A t \in Threads : t = "gui" => phase'[t] = "done"
    BY <1>1 DEF WindowInv
  <1> QED
    BY <1>1, <1>2, <1>3, <1>4 DEF WindowInv

\* The window is opened before its handler runs, and closed by the last callback.
LEMMA WindowStep ==
  ASSUME TypeOK, WindowInv, Next
  PROVE  WindowInv'
  <1>1. ASSUME NEW t \in Threads, Subscribe(t) \/ Notify(t)
        PROVE  WindowInv'
    <2>1. UNCHANGED gui_vars
      BY <1>1 DEF Subscribe, Notify
    <2>2. \A u \in Threads : u = "gui" =>
            \/ phase'[u] = phase[u]
            \/ phase[u] # "done" /\ phase'[u] # "running"
      BY <1>1 DEF Subscribe, Notify, TypeOK
    <2> QED
      BY <2>1, <2>2, WindowAlone
  <1>2. ASSUME NEW t \in Threads, StopWaiting(t)
        PROVE  WindowInv'
    <2>1. /\ phase[t] = "waiting" /\ phase' = [phase EXCEPT ![t] = "running"]
          /\ t = "gui" => window # "none"
      BY <1>2 DEF StopWaiting
    <2>2. window' = window /\ gtk' = gtk /\ idle' = idle
      BY <1>2 DEF StopWaiting, gui_vars
    <2>3. IdleFindsWindow'
      BY <2>2 DEF IdleFindsWindow, WindowInv
    <2>4. \A u \in Threads : phase'[u] = IF u = t THEN "running" ELSE phase[u]
      BY <2>1 DEF TypeOK
    <2>5. \A u \in Threads : u = "gui" /\ phase'[u] = "running" => window' # "none" \/ gtk' = "ended"
      BY <2>1, <2>2, <2>4 DEF WindowInv
    <2>6. \A j \in DOMAIN idle' :
            idle'[j] = "quit" => /\ j = Len(idle')
                                /\ \A u \in Threads : u = "gui" => phase'[u] = "done"
      BY <2>1, <2>2, <2>4 DEF WindowInv
    <2> QED
      BY <2>2, <2>3, <2>5, <2>6 DEF WindowInv
  <1>3. ASSUME NEW t \in Threads, Handle(t), t # "gui"
        PROVE  WindowInv'
    <2>1. UNCHANGED gui_vars
      BY <1>3 DEF Handle, gui_vars
    <2>2. \A u \in Threads : u = "gui" => phase'[u] = phase[u]
      BY <1>3 DEF Handle, TypeOK
    <2> QED
      BY <2>1, <2>2, WindowAlone
  <1>4. ASSUME "gui" \in Threads, Handle("gui")
        PROVE  WindowInv'
    <2>1. /\ window # "none" \/ gtk = "ended"
          /\ window # "none" => gtk \in {"open", "draining"}
          /\ gtk \notin {"off", "starting"}
      BY <1>4 DEF Handle, WindowInv
    <2>2. /\ window' = window /\ gtk' = gtk /\ idle \in Seq({"add", "quit"})
          /\ window \in {"none", "open", "closed"} /\ (window = "open" <=> gtk = "open")
      BY <1>4 DEF Handle, TypeOK, WindowInv
    <2>3. \A j \in DOMAIN idle : idle[j] # "quit"
      BY <1>4 DEF Handle, WindowInv
    <2>4. \A u \in Threads : u = "gui" => phase'[u] \in {"running", "done"}
      BY <1>4 DEF Handle, Leaving, TypeOK
    <2>5. \/ idle' = Append(idle, "quit") /\ phase'["gui"] = "done"
          \/ idle' = Append(idle, "add")
          \/ idle' = idle
      BY <1>4 DEF Handle, Leaving, TypeOK
    <2>6. \A j \in DOMAIN idle' :
            idle'[j] = "quit" => /\ j = Len(idle')
                                /\ \A u \in Threads : u = "gui" => phase'[u] = "done"
      <3>1. CASE idle' = idle
        BY <2>3, <3>1
      <3>2. ASSUME NEW x \in {"add", "quit"}, idle' = Append(idle, x)
            PROVE  /\ Len(idle') = Len(idle) + 1 /\ DOMAIN idle' = 1 .. Len(idle) + 1
                   /\ \A j \in 1 .. Len(idle) : idle'[j] = idle[j]
                   /\ idle'[Len(idle) + 1] = x /\ Len(idle) \in Nat
                   /\ DOMAIN idle = 1 .. Len(idle)
        BY <2>2, <3>2, AppendProperties
      <3>3. CASE idle' = Append(idle, "add")
        BY <2>3, <3>2, <3>3
      <3>4. CASE idle' = Append(idle, "quit") /\ phase'["gui"] = "done"
        BY <2>3, <3>2, <3>4
      <3> QED
        BY <2>5, <3>1, <3>3, <3>4
    <2>7. IdleFindsWindow'
      BY <2>1, <2>2 DEF IdleFindsWindow
    <2>8. \A u \in Threads : u = "gui" /\ phase'[u] = "running" => window' # "none" \/ gtk' = "ended"
      BY <2>1, <2>2
    <2> QED
      BY <2>1, <2>2, <2>6, <2>7, <2>8 DEF WindowInv
  <1>5. CASE NetworkFail \/ AcceptFails \/ Joins
    <2>1. UNCHANGED gui_vars
      BY <1>5 DEF NetworkFail, AcceptFails, Joins, NetworkJoin, MainJoin, Terminate
    <2>2. \A u \in Threads : u = "gui" => phase'[u] = phase[u]
      BY <1>5 DEF NetworkFail, AcceptFails, Joins, NetworkJoin, MainJoin, Terminate, TypeOK
    <2> QED
      BY <2>1, <2>2, WindowAlone
  <1>6. CASE Accept \/ ClientEnds \/ (\E c \in Cmd : Issue(c)) \/ Interrupt \/ Log \/ LoggerStep
    <2>1. UNCHANGED gui_vars /\ UNCHANGED phase
      BY <1>6 DEF Accept, ClientEnds, Issue, Interrupt, Log, LoggerStep, Connected, Poll, PublishLog, PublishCmd,
                  LoggerExit, thread_vars
    <2> QED
      BY <2>1, WindowAlone
  <1>7. CASE Activate
    <2>1. window' = "open" /\ gtk' = "open" /\ idle' = <<>> /\ phase' = phase
      BY <1>7 DEF Activate, WindowInv, thread_vars
    <2>2. DOMAIN idle' = {}
      BY <2>1
    <2> QED
      BY <2>1, <2>2 DEF WindowInv, IdleFindsWindow
  <1>8. CASE NoDisplay
    <2>1. window' = "none" /\ gtk' = "draining" /\ gtk = "starting" /\ idle' = <<>> /\ phase' = phase
      BY <1>8 DEF NoDisplay, WindowInv, thread_vars
    <2>2. DOMAIN idle' = {}
      BY <2>1
    <2> QED
      BY <2>1, <2>2 DEF WindowInv, IdleFindsWindow
  <1>9. CASE RunIdle
    <2>1. /\ gtk \in {"open", "draining"} /\ idle # <<>> /\ window # "none" /\ phase' = phase
          /\ idle \in Seq({"add", "quit"}) /\ idle' = Tail(idle)
          /\ gtk = "open" \/ (gtk = "draining" /\ window = "closed")
      BY <1>9 DEF RunIdle, WindowInv, IdleFindsWindow, TypeOK, thread_vars
    <2> DEFINE n == Len(idle)
               Closed == \A u \in Threads : u = "gui" => phase'[u] = "done"
    <2>2. /\ n \in Nat /\ n >= 1 /\ DOMAIN idle = 1 .. n /\ Head(idle) = idle[1]
          /\ Len(idle') = n - 1 /\ DOMAIN idle' = 1 .. n - 1
          /\ \A j \in 1 .. n - 1 : idle'[j] = idle[j + 1]
      BY <2>1, HeadTailProperties
    <2>3. \A j \in 1 .. n : idle[j] = "quit" => j = n /\ Closed
      BY <2>1, <2>2 DEF WindowInv
    <2>4. \A j \in DOMAIN idle' : idle'[j] = "quit" => j = Len(idle') /\ Closed
      <3> HIDE DEF n, Closed
      <3> SUFFICES ASSUME NEW j \in 1 .. n - 1, idle'[j] = "quit"
                   PROVE  j = n - 1 /\ Closed
        BY <2>2
      <3>1. j + 1 \in 1 .. n /\ idle[j + 1] = "quit"
        BY <2>2
      <3> QED
        BY <2>2, <2>3, <3>1
    <2>5. CASE Head(idle) = "quit"
      <3>1. n = 1 /\ Closed
        <4> HIDE DEF n, Closed
        <4> QED
          BY <2>2, <2>3, <2>5
      <3>2. window' = "none" /\ gtk' = "draining"
        BY <1>9, <2>5 DEF RunIdle
      <3>3. idle' = <<>>
        BY <2>1, <3>1
      <3> QED
        BY <2>4, <3>1, <3>2, <3>3 DEF WindowInv, IdleFindsWindow
    <2>6. CASE Head(idle) # "quit"
      <3>1. window' = window /\ gtk' = gtk
        BY <1>9, <2>1, <2>6 DEF RunIdle
      <3> QED
        BY <2>1, <2>4, <3>1 DEF WindowInv, IdleFindsWindow
    <2> QED
      BY <2>5, <2>6
  <1>10. CASE CloseWindow
    <2>1. gtk = "open" /\ gtk' = "draining" /\ window' = "closed" /\ idle' = idle
          /\ phase' = phase
      BY <1>10 DEF CloseWindow, thread_vars
    <2> QED
      BY <2>1 DEF WindowInv, IdleFindsWindow
  <1>11. CASE EndGtk
    <2>1. gtk' = "ended" /\ window' = "none" /\ idle' = <<>> /\ phase' = phase
      BY <1>11 DEF EndGtk, thread_vars
    <2>2. DOMAIN idle' = {}
      BY <2>1
    <2> QED
      BY <2>1, <2>2 DEF WindowInv, IdleFindsWindow
  <1>12. CASE UseAfterClose
    <2>1. /\ gtk' = "ended" /\ window' = "none" /\ idle' = <<>>
          /\ \A u \in Threads : phase'[u] = "killed"
      BY <1>12 DEF UseAfterClose
    <2>2. DOMAIN idle' = {}
      BY <2>1
    <2> QED
      BY <2>1, <2>2 DEF WindowInv, IdleFindsWindow
  <1> QED
    BY <1>1, <1>2, <1>3, <1>4, <1>5, <1>6, <1>7, <1>8, <1>9, <1>10, <1>11, <1>12
       DEF Next, ThreadStep, GtkStep

-----------------------------------------------------------------------------
(* The theorems.                                                           *)

\* The invariant is inductive.
THEOREM Inductive == Spec => []IInv
  <1>1. IInv /\ [Next]_vars => IInv'
    <2> SUFFICES ASSUME IInv, [Next]_vars PROVE IInv'
      OBVIOUS
    <2>1. CASE UNCHANGED vars
      BY <2>1 DEF IInv, TypeOK, BarrierInv, PollInv, BusInv, WindowInv, IdleFindsWindow,
                  Notified, vars, thread_vars, logger_vars, gui_vars
    <2>2. CASE Next
      <3>1. TypeOK'
        BY <2>2, ThreadTypes, InputTypes, LoggerTypes, GtkTypes DEF Next, IInv
      <3> QED
        BY <2>2, <3>1, BarrierStep, PollStep, BusStep, WindowStep DEF IInv
    <2> QED
      BY <2>1, <2>2
  <1> QED
    BY Starts, <1>1, PTL DEF Spec

\* Every variable keeps its type: no queue exceeds its bound, no thread hears what it
\* has not subscribed to, and no notification is counted twice.
THEOREM TypeCorrect == Spec => []TypeOK
  <1>1. IInv => TypeOK
    BY DEF IInv
  <1> QED
    BY Inductive, <1>1, PTL

\* However many commands wait in run-cmd when an exit is published, at most one more
\* reaches the threads: the logger's loop reads one command per poll, and the poll
\* that follows the exit finds it (run_logger).
THEOREM BusCloses == Spec => []AtMostOneAfterExit
  <1>1. IInv => AtMostOneAfterExit
    BY DEF IInv, BusInv, AtMostOneAfterExit
  <1> QED
    BY Inductive, <1>1, PTL

\* No callback of the GTK loop finds WINDOW at NULL, though the handler's thread
\* queues them and another runs them: the request to quit, which clears WINDOW, is the
\* last that is queued.  Those of the main loop find the window; those that the loop
\* after it still runs find the window that the user has closed and GTK destroyed.
THEOREM CallbacksFindWindow == Spec => []IdleFindsWindow
  <1>1. IInv => IdleFindsWindow
    BY DEF IInv, WindowInv
  <1> QED
    BY Inductive, <1>1, PTL

-----------------------------------------------------------------------------
(* The same threads, by the lines that they read: module Commands.  They   *)
(* end together: whatever lines are typed and sent, and in whatever order  *)
(* they are read, a line makes one thread leave its loop only if all the   *)
(* others have left theirs or have a line to read that ends it.            *)
(*                                                                         *)
(* Nothing is said here of what a string is: a line either starts with a   *)
(* prefix or it does not.  That is all the proof needs, because every      *)
(* subscription has the two words and every list of chains begins with     *)
(* them.                                                                   *)

CONSTANTS ConsoleLines, PlayerLines, MaxLines

VARIABLES unread,        \* run_cmd of Commands
          LOG_LEVEL, answer, lines

C == INSTANCE Commands WITH run_cmd <- unread

\* The queues are sequences, and what the logger hears ends it.
QueuesEnd ==
  /\ DOMAIN queue = C!Threads /\ should_close \in [C!Threads -> BOOLEAN]
  /\ \A t \in C!Threads : queue[t] \in Seq(C!ToSet(queue[t]))
  /\ \A line \in C!ToSet(queue["logger"]) : C!Ending(line)

\* A thread that has left its loop or is going to.
Ends(t) == should_close[t] \/ \E line \in C!ToSet(queue[t]) : C!Ending(line)

\* An ending line reaches all or none, and only the others have left without one.
AllOrNone ==
  /\ \A t \in C!Threads : t \in failed => should_close[t]
  /\ (\E t \in C!Threads : Ends(t) /\ t \notin failed) => \A t \in C!Threads : Ends(t)

LinesInv == QueuesEnd /\ AllOrNone

-----------------------------------------------------------------------------
(* Queues and handlers.                                                    *)

\* A queue with one more line has what it had and that line.
LEMMA QueueAppend ==
  ASSUME NEW q, q \in Seq(C!ToSet(q)), NEW x
  PROVE  /\ C!ToSet(Append(q, x)) = C!ToSet(q) \union {x}
         /\ Append(q, x) \in Seq(C!ToSet(Append(q, x)))
  <1> DEFINE S == C!ToSet(q) \union {x}
             r == Append(q, x)
  <1>1. q \in Seq(S) /\ x \in S
    <2>1. C!ToSet(q) \subseteq S
      OBVIOUS
    <2> QED
      BY <2>1
  <1>2. /\ r \in Seq(S) /\ Len(r) = Len(q) + 1 /\ Len(q) \in Nat
        /\ \A j \in 1 .. Len(q) : r[j] = q[j]
        /\ r[Len(q) + 1] = x /\ DOMAIN r = 1 .. Len(q) + 1 /\ DOMAIN q = 1 .. Len(q)
    <2> HIDE DEF S
    <2> QED
      BY <1>1, AppendProperties
  <1>3. C!ToSet(r) = S
    <2> HIDE DEF r
    <2>1. ASSUME NEW y
          PROVE  y \in C!ToSet(r) <=> y \in S
      BY <1>2 DEF C!ToSet
    <2> QED
      BY <2>1
  <1> QED
    BY <1>2, <1>3

\* A queue that has been read is its first line and the rest.
LEMMA QueueTail ==
  ASSUME NEW q, q \in Seq(C!ToSet(q)), q # <<>>
  PROVE  /\ C!ToSet(q) = {Head(q)} \union C!ToSet(Tail(q))
         /\ Tail(q) \in Seq(C!ToSet(Tail(q)))
  <1> DEFINE r == Tail(q)
             n == Len(q)
  <1>1. /\ n \in Nat /\ n >= 1 /\ DOMAIN q = 1 .. n /\ Head(q) = q[1]
        /\ r \in Seq(C!ToSet(q)) /\ Len(r) = n - 1 /\ DOMAIN r = 1 .. n - 1
        /\ \A j \in 1 .. n - 1 : r[j] = q[j + 1]
    BY HeadTailProperties
  <1> HIDE DEF r, n
  <1>2. ASSUME NEW y
        PROVE  y \in C!ToSet(q) <=> y = Head(q) \/ y \in C!ToSet(r)
    <2>1. ASSUME NEW k \in 2 .. n
          PROVE  k - 1 \in 1 .. n - 1 /\ r[k - 1] = q[k]
      BY <1>1, <2>1
    <2>2. y \in C!ToSet(q) <=> \E k \in 1 .. n : q[k] = y
      BY <1>1 DEF C!ToSet
    <2>3. y \in C!ToSet(r) <=> \E k \in 1 .. n - 1 : r[k] = y
      BY <1>1 DEF C!ToSet
    <2>4. ASSUME NEW k \in 1 .. n, q[k] = y
          PROVE  y = Head(q) \/ \E j \in 1 .. n - 1 : r[j] = y
      <3>1. CASE k = 1
        BY <1>1, <2>4, <3>1
      <3>2. CASE k # 1
        <4>1. k \in 2 .. n
          BY <1>1, <3>2
        <4> QED
          BY <2>1, <2>4, <4>1
      <3> QED
        BY <1>2, <3>1, <3>2
    <2>5. ASSUME NEW j \in 1 .. n - 1
          PROVE  j + 1 \in 1 .. n /\ r[j] = q[j + 1]
      BY <1>1
    <2>6. 1 \in 1 .. n
      BY <1>1
    <2> QED
      BY <1>1, <2>2, <2>3, <2>4, <2>5, <2>6
  <1>3. C!ToSet(q) = {Head(q)} \union C!ToSet(r)
    BY <1>2
  <1>4. r \in Seq(C!ToSet(r))
    <2>1. r = [j \in 1 .. n - 1 |-> r[j]] /\ n - 1 \in Nat
      BY <1>1
    <2>2. \A j \in 1 .. n - 1 : r[j] \in C!ToSet(r)
      BY <1>1 DEF C!ToSet
    <2> QED
      BY <2>1, <2>2
  <1> QED
    BY <1>3, <1>4 DEF r

\* The minimum of a set of natural numbers is in it.
LEMMA MinIn ==
  ASSUME NEW S, S \subseteq Nat, S # {}
  PROVE  C!Min(S) \in S
  <1> DEFINE R == OpToRel(<, Nat)
  <1>1. IsWellFoundedOn(R, Nat)
    BY NatLessThanWellFounded
  <1>2. \A x, y \in Nat : <<y, x>> \in R <=> y < x
    BY DEF OpToRel
  <1> HIDE DEF R
  <1>3. PICK x \in S : \A y \in S : <<y, x>> \notin R
    BY <1>1, WFMin
  <1>4. ASSUME NEW y \in S
        PROVE  x <= y
    <2>1. x \in Nat /\ y \in Nat /\ ~(y < x)
      BY <1>2, <1>3
    <2> QED
      BY <2>1
  <1> QED
    BY <1>4 DEF C!Min

\* The threads, and what each of them subscribes to.
LEMMA LoopFacts ==
  /\ C!Handlers \subseteq {"main", "help", "core", "network", "gui"} /\ "logger" \notin C!Handlers
  /\ C!Threads = C!Handlers \union {"logger"}
  /\ \A t \in C!Threads : {"exit", "quit"} \subseteq C!Subscriptions[t]
  /\ C!Subscriptions["logger"] = {"exit", "quit"}
  <1>1. /\ C!Handlers \subseteq {"main", "help", "core", "network", "gui"}
        /\ "logger" \notin C!Handlers
    BY DEF C!Handlers
  <1>2. \A t \in {"main", "help", "core", "network", "gui", "logger"} :
          {"exit", "quit"} \subseteq C!Subscriptions[t]
    BY DEF C!Subscriptions
  <1> QED
    BY <1>1, <1>2 DEF C!Threads, C!Subscriptions

\* The first of two lists that follow one another begins the whole.
LEMMA BeginsWith ==
  ASSUME NEW S, NEW a \in S, NEW b \in S, NEW rest \in Seq(S)
  PROVE  LET all == <<a, b>> \o rest
         IN  /\ all \in Seq(S) /\ all[1] = a /\ all[2] = b
             /\ 1 \in DOMAIN all /\ 2 \in DOMAIN all
  <1> DEFINE two == <<a, b>>
             all == two \o rest
  <1>1. two \in Seq(S) /\ Len(two) = 2 /\ two[1] = a /\ two[2] = b
    OBVIOUS
  <1>2. Len(rest) \in Nat
    OBVIOUS
  <1> HIDE DEF two
  <1>3. all \in Seq(S) /\ Len(all) = 2 + Len(rest) /\ all[1] = a /\ all[2] = b
    BY <1>1, <1>2, ConcatProperties, SMTT(30)
  <1>4. DOMAIN all = 1 .. Len(all)
    BY <1>3
  <1>5. 1 \in DOMAIN all /\ 2 \in DOMAIN all
    <2> HIDE DEF all
    <2> QED
      BY <1>2, <1>3, <1>4
  <1> QED
    BY <1>3, <1>5 DEF two

\* Every thread's chains begin with those of the two words, and the indexes of a chain
\* are natural numbers.
LEMMA ChainFacts ==
  ASSUME NEW t \in C!Handlers
  PROVE  /\ {<<"exit">>, <<"quit">>} \subseteq C!ToSet(C!Chains[t])
         /\ \A chain \in C!ToSet(C!Chains[t]) : DOMAIN chain \subseteq Nat
  <1> DEFINE Begun(all) ==
               \E S : \E rest \in Seq(S) :
                 /\ \A chain \in S : DOMAIN chain \subseteq Nat
                 /\ all = <<<<"exit">>, <<"quit">>>> \o rest
  <1>1. ASSUME NEW all, Begun(all)
        PROVE  /\ {<<"exit">>, <<"quit">>} \subseteq C!ToSet(all)
               /\ \A chain \in C!ToSet(all) : DOMAIN chain \subseteq Nat
    <2>1. PICK S : \E rest \in Seq(S) :
            /\ \A chain \in S : DOMAIN chain \subseteq Nat
            /\ all = <<<<"exit">>, <<"quit">>>> \o rest
      BY <1>1
    <2>2. PICK rest \in Seq(S) : all = <<<<"exit">>, <<"quit">>>> \o rest
      BY <2>1
    <2> DEFINE W == {<<"exit">>, <<"quit">>} \union S
    <2>3. rest \in Seq(W) /\ <<"exit">> \in W /\ <<"quit">> \in W
      BY S \subseteq W
    <2>4. \A chain \in W : DOMAIN chain \subseteq Nat
      <3>1. DOMAIN <<"exit">> \subseteq Nat /\ DOMAIN <<"quit">> \subseteq Nat
        OBVIOUS
      <3> QED
        BY <2>1, <3>1
    <2> HIDE DEF W
    <2>5. /\ all \in Seq(W) /\ all[1] = <<"exit">> /\ all[2] = <<"quit">>
          /\ 1 \in DOMAIN all /\ 2 \in DOMAIN all
      BY <2>2, <2>3, BeginsWith
    <2> QED
      BY <2>4, <2>5 DEF C!ToSet
  <1>2. ASSUME NEW S, NEW rest \in Seq(S), NEW all,
               \A chain \in S : DOMAIN chain \subseteq Nat,
               all = <<<<"exit">>, <<"quit">>>> \o rest
        PROVE  Begun(all)
    BY <1>2
  <1> HIDE DEF Begun
  <1>3. Begun(C!Chains[t])
    <2>1. t \in {"main", "help", "core", "network", "gui"}
      BY LoopFacts
    <2>2. CASE t = "main"
      <3> DEFINE levels ==
                   <<"debug verbose", "debug verb", "debug v", "debug debug", "debug debg",
                     "debug d", "debug info", "debug i", "debug warning", "debug warn",
                     "debug w", "debug fatal", "debug fail", "debug f", "debug">>
                 S == {<<"about">>, <<"splash">>, levels}
                 rest == <<<<"about">>, <<"splash">>, levels>>
      <3>1. /\ DOMAIN <<"about">> \subseteq Nat /\ DOMAIN <<"splash">> \subseteq Nat
            /\ DOMAIN levels \subseteq Nat
        OBVIOUS
      <3>2. C!Chains[t] = <<<<"exit">>, <<"quit">>>> \o rest
        BY <2>2 DEF C!Chains, C!TerminalChains, C!EndChains
      <3> HIDE DEF levels
      <3>3. rest \in Seq(S)
        OBVIOUS
      <3>4. \A chain \in S : DOMAIN chain \subseteq Nat
        BY <3>1
      <3> HIDE DEF S, rest
      <3> QED
        BY <1>2, <3>2, <3>3, <3>4
    <2>3. CASE t = "help"
      <3> DEFINE S == {<<"help">>}
                 rest == <<<<"help">>>>
      <3>1. C!Chains[t] = <<<<"exit">>, <<"quit">>>> \o rest
        BY <2>3 DEF C!Chains, C!EndChains
      <3>2. rest \in Seq(S)
        OBVIOUS
      <3>3. \A chain \in S : DOMAIN chain \subseteq Nat
        <4>1. DOMAIN <<"help">> \subseteq Nat
          OBVIOUS
        <4> QED
          BY <4>1
      <3> HIDE DEF S, rest
      <3> QED
        BY <1>2, <3>1, <3>2, <3>3
    <2>4. CASE t = "core"
      <3> DEFINE plots ==
                   <<"plot new", "plot list", "plot info", "plot config set owner",
                     "plot config set", "plot trust", "plot remove">>
                 S == {plots, <<"plot place">>, <<"plot get">>, <<"mccmd /crss ">>}
                 rest == <<plots, <<"plot place">>, <<"plot get">>, <<"mccmd /crss ">>>>
      <3>1. /\ DOMAIN plots \subseteq Nat /\ DOMAIN <<"plot place">> \subseteq Nat
            /\ DOMAIN <<"plot get">> \subseteq Nat /\ DOMAIN <<"mccmd /crss ">> \subseteq Nat
        OBVIOUS
      <3>2. C!Chains[t] = <<<<"exit">>, <<"quit">>>> \o rest
        BY <2>4 DEF C!Chains, C!CoreChains, C!EndChains
      <3> HIDE DEF plots
      <3>3. rest \in Seq(S)
        OBVIOUS
      <3>4. \A chain \in S : DOMAIN chain \subseteq Nat
        BY <3>1
      <3> HIDE DEF S, rest
      <3> QED
        BY <1>2, <3>2, <3>3, <3>4
    <2>5. CASE t = "network"
      <3> DEFINE S == {<<"player info">>}
                 rest == <<<<"player info">>>>
      <3>1. C!Chains[t] = <<<<"exit">>, <<"quit">>>> \o rest
        BY <2>5 DEF C!Chains, C!NetworkChains, C!EndChains
      <3>2. rest \in Seq(S)
        OBVIOUS
      <3>3. \A chain \in S : DOMAIN chain \subseteq Nat
        <4>1. DOMAIN <<"player info">> \subseteq Nat
          OBVIOUS
        <4> QED
          BY <4>1
      <3> HIDE DEF S, rest
      <3> QED
        BY <1>2, <3>1, <3>2, <3>3
    <2>6. CASE t = "gui"
      <3> DEFINE S == {<<"log ">>}
                 rest == <<<<"log ">>>>
      <3>1. C!Chains[t] = <<<<"exit">>, <<"quit">>>> \o rest
        BY <2>6 DEF C!Chains, C!EndChains
      <3>2. rest \in Seq(S)
        OBVIOUS
      <3>3. \A chain \in S : DOMAIN chain \subseteq Nat
        <4>1. DOMAIN <<"log ">> \subseteq Nat
          OBVIOUS
        <4> QED
          BY <4>1
      <3> HIDE DEF S, rest
      <3> QED
        BY <1>2, <3>1, <3>2, <3>3
    <2> QED
      BY <2>1, <2>2, <2>3, <2>4, <2>5, <2>6
  <1> QED
    BY <1>1, <1>3

\* A handler that runs is for a prefix of the line.
LEMMA RanStarts ==
  ASSUME NEW t \in C!Handlers, NEW line, NEW p \in C!Ran(t, line)
  PROVE  C!StartsWith(line, p)
  <1>1. PICK chain \in C!ToSet(C!Chains[t]) :
          C!Matching(chain, line) # {} /\ p = chain[C!Min(C!Matching(chain, line))]
    BY DEF C!Ran
  <1>2. C!Matching(chain, line) \subseteq Nat
    BY ChainFacts DEF C!Matching
  <1>3. C!Min(C!Matching(chain, line)) \in C!Matching(chain, line)
    BY <1>1, <1>2, MinIn
  <1> QED
    BY <1>1, <1>3 DEF C!Matching

\* A chain of one word runs for the lines that start with it.
LEMMA WordRuns ==
  ASSUME NEW t, NEW line, NEW w, <<w>> \in C!ToSet(C!Chains[t]), C!StartsWith(line, w)
  PROVE  w \in C!Ran(t, line)
  <1>1. C!Matching(<<w>>, line) = {1}
    BY DEF C!Matching
  <1>2. C!Min({1}) = 1
    <2>1. C!Min({1}) \in {1}
      BY MinIn
    <2> QED
      BY <2>1
  <1>3. <<w>>[C!Min(C!Matching(<<w>>, line))] = w /\ C!Matching(<<w>>, line) # {}
    BY <1>1, <1>2
  <1> QED
    BY <1>3 DEF C!Ran

\* A thread leaves its loop with the lines that start with one of the two words, and
\* with no other.
LEMMA ClosesExactly ==
  ASSUME NEW t \in C!Handlers, NEW line
  PROVE  C!Ran(t, line) \intersect {"exit", "quit"} # {} <=> C!Ending(line)
  <1>1. ASSUME C!Ran(t, line) \intersect {"exit", "quit"} # {}
        PROVE  C!Ending(line)
    BY <1>1, RanStarts DEF C!Ending
  <1>2. <<"exit">> \in C!ToSet(C!Chains[t]) /\ <<"quit">> \in C!ToSet(C!Chains[t])
    BY ChainFacts
  <1>3. ASSUME C!Ending(line)
        PROVE  C!Ran(t, line) \intersect {"exit", "quit"} # {}
    BY <1>2, <1>3, WordRuns DEF C!Ending
  <1> QED
    BY <1>1, <1>3

-----------------------------------------------------------------------------
(* The invariant.                                                          *)

\* In the beginning nobody is told anything.
LEMMA LinesStart == C!Init => LinesInv
  <1> SUFFICES ASSUME C!Init PROVE LinesInv
    OBVIOUS
  <1>1. /\ DOMAIN queue = C!Threads /\ "logger" \in C!Threads
        /\ \A t \in C!Threads : queue[t] = <<>> /\ ~should_close[t]
    BY DEF C!Init, C!Threads
  <1>2. should_close \in [C!Threads -> BOOLEAN]
    BY DEF C!Init
  <1>3. C!ToSet(<<>>) = {} /\ <<>> \in Seq(C!ToSet(<<>>))
    BY DEF C!ToSet
  <1>4. QueuesEnd
    BY <1>1, <1>2, <1>3 DEF QueuesEnd
  <1>5. \A t \in C!Threads : ~Ends(t) /\ t \notin failed
    BY <1>1, <1>3 DEF Ends, C!Init
  <1> QED
    BY <1>4, <1>5 DEF LinesInv, AllOrNone

\* What the logger publishes reaches every thread that has not left, if it is one of
\* the ending lines, and else changes nothing of who is told.
LEMMA PublishStep ==
  ASSUME LinesInv, NEW line, C!Publish(line)
  PROVE  LinesInv'
  <1>1. should_close' = should_close /\ failed' = failed
    BY DEF C!Publish
  <1>4. \A t \in C!Threads : t \in failed' => should_close'[t]
    BY <1>1 DEF LinesInv, AllOrNone
  <1>2. CASE queue' = queue
    <2>1. \A t \in C!Threads : Ends(t)' <=> Ends(t)
      BY <1>1, <1>2 DEF Ends
    <2>2. QueuesEnd'
      BY <1>1, <1>2 DEF LinesInv, QueuesEnd
    <2> QED
      BY <1>1, <1>4, <2>1, <2>2 DEF LinesInv, AllOrNone
  <1>3. CASE line # ""
    <2>1. /\ queue' = [t \in C!Threads |->
                        IF ~should_close[t] /\ C!Hears(t, line) THEN Append(queue[t], line)
                        ELSE queue[t]]
      BY <1>3 DEF C!Publish
    <2>2. DOMAIN queue' = C!Threads
      BY <2>1
    <2>3. ASSUME NEW t \in C!Threads
          PROVE  \/ /\ ~should_close[t] /\ C!Hears(t, line)
                    /\ C!ToSet(queue'[t]) = C!ToSet(queue[t]) \union {line}
                    /\ queue'[t] \in Seq(C!ToSet(queue'[t]))
                 \/ /\ should_close[t] \/ ~C!Hears(t, line)
                    /\ queue'[t] = queue[t]
      <3>1. queue[t] \in Seq(C!ToSet(queue[t]))
        BY DEF LinesInv, QueuesEnd
      <3>2. CASE ~should_close[t] /\ C!Hears(t, line)
        <4>1. queue'[t] = Append(queue[t], line)
          BY <2>1, <3>2
        <4> QED
          BY <3>1, <3>2, <4>1, QueueAppend
      <3>3. CASE ~(~should_close[t] /\ C!Hears(t, line))
        BY <2>1, <3>3
      <3> QED
        BY <3>2, <3>3
    <2>4. QueuesEnd'
      <3>1. "logger" \in C!Threads
        BY LoopFacts
      <3>2. C!Hears("logger", line) => C!Ending(line)
        BY LoopFacts DEF C!Hears, C!Ending
      <3>3. \A x \in C!ToSet(queue'["logger"]) : C!Ending(x)
        BY <2>3, <3>1, <3>2 DEF LinesInv, QueuesEnd
      <3>4. \A t \in C!Threads : queue'[t] \in Seq(C!ToSet(queue'[t]))
        BY <2>3 DEF LinesInv, QueuesEnd
      <3> QED
        BY <1>1, <2>2, <3>3, <3>4 DEF LinesInv, QueuesEnd
    <2>5. CASE C!Ending(line)
      <3>1. \A t \in C!Threads : C!Hears(t, line)
        BY <2>5, LoopFacts DEF C!Hears, C!Ending
      <3>2. \A t \in C!Threads : should_close[t] \/ line \in C!ToSet(queue'[t])
        BY <2>3, <3>1
      <3>3. \A t \in C!Threads : Ends(t)'
        BY <1>1, <2>5, <3>2 DEF Ends
      <3> QED
        BY <1>4, <2>4, <3>3 DEF LinesInv, AllOrNone
    <2>6. CASE ~C!Ending(line)
      <3>1. \A t \in C!Threads : Ends(t)' <=> Ends(t)
        BY <1>1, <2>3, <2>6 DEF Ends
      <3> QED
        BY <1>1, <1>4, <2>4, <3>1 DEF LinesInv, AllOrNone
    <2> QED
      BY <2>5, <2>6
  <1> QED
    BY <1>2, <1>3 DEF C!Publish

\* A thread that reads leaves with an ending line, which all have been told of, and
\* with no other.
LEMMA HandleStep ==
  ASSUME LinesInv, NEW t \in C!Handlers, C!Handle(t)
  PROVE  LinesInv'
  <1> DEFINE line == Head(queue[t])
             closes == C!Ran(t, line) \intersect {"exit", "quit"} # {}
  <1>1. /\ queue[t] # <<>> /\ ~should_close[t]
        /\ should_close' = [should_close EXCEPT ![t] = closes]
        /\ queue' = [queue EXCEPT ![t] = IF closes THEN <<>> ELSE Tail(queue[t])]
    BY DEF C!Handle
  <1>2. closes <=> C!Ending(line)
    BY ClosesExactly
  <1>3. /\ t \in C!Threads /\ t # "logger" /\ "logger" \in C!Threads
        /\ DOMAIN queue = C!Threads /\ should_close \in [C!Threads -> BOOLEAN]
    BY LoopFacts DEF LinesInv, QueuesEnd
  <1>4. /\ C!ToSet(queue[t]) = {line} \union C!ToSet(Tail(queue[t]))
        /\ Tail(queue[t]) \in Seq(C!ToSet(Tail(queue[t])))
    BY <1>1, <1>3, QueueTail DEF LinesInv, QueuesEnd
  <1>a. closes \in BOOLEAN
    OBVIOUS
  <1> HIDE DEF line, closes
  <1>5. /\ DOMAIN queue' = C!Threads
        /\ \A u \in C!Threads \ {t} : queue'[u] = queue[u] /\ should_close'[u] = should_close[u]
        /\ queue'[t] = IF closes THEN <<>> ELSE Tail(queue[t])
    BY <1>1, <1>3
  <1>6. should_close'[t] <=> closes
    BY <1>1, <1>3
  <1>7. should_close' \in [C!Threads -> BOOLEAN]
    BY <1>1, <1>3, <1>a
  <1>b. failed' = failed /\ t \notin failed
    BY <1>1, <1>3 DEF C!Handle, LinesInv, AllOrNone
  <1>c. \A u \in C!Threads : u \in failed' => should_close'[u]
    BY <1>3, <1>5, <1>b DEF LinesInv, AllOrNone
  <1>8. QueuesEnd'
    <2>1. C!ToSet(<<>>) = {} /\ <<>> \in Seq(C!ToSet(<<>>))
      BY DEF C!ToSet
    <2>2. queue'[t] \in Seq(C!ToSet(queue'[t]))
      BY <1>4, <1>5, <2>1
    <2>3. \A u \in C!Threads : queue'[u] \in Seq(C!ToSet(queue'[u]))
      BY <1>5, <2>2 DEF LinesInv, QueuesEnd
    <2>4. \A x \in C!ToSet(queue'["logger"]) : C!Ending(x)
      BY <1>3, <1>5 DEF LinesInv, QueuesEnd
    <2> QED
      BY <1>5, <1>7, <2>3, <2>4 DEF QueuesEnd
  <1>9. \A u \in C!Threads \ {t} : Ends(u)' <=> Ends(u)
    BY <1>5 DEF Ends
  <1>10. CASE C!Ending(line)
    <2>1. Ends(t) /\ Ends(t)'
      BY <1>2, <1>4, <1>6, <1>10 DEF Ends
    <2>2. \A u \in C!Threads : Ends(u)
      BY <1>3, <1>b, <2>1 DEF LinesInv, AllOrNone
    <2>3. \A u \in C!Threads : Ends(u)'
      BY <1>9, <2>1, <2>2
    <2> QED
      BY <1>8, <1>c, <2>3 DEF LinesInv, AllOrNone
  <1>11. CASE ~C!Ending(line)
    <2>1. Ends(t)' <=> Ends(t)
      BY <1>1, <1>2, <1>4, <1>5, <1>6, <1>11 DEF Ends
    <2>2. \A u \in C!Threads : Ends(u)' <=> Ends(u)
      BY <1>9, <2>1
    <2> QED
      BY <1>8, <1>b, <1>c, <2>2 DEF LinesInv, AllOrNone
  <1> QED
    BY <1>10, <1>11

\* The logger leaves with whatever it hears, and it hears only ending lines.
LEMMA LeaveStep ==
  ASSUME LinesInv, C!LoggerLeaves
  PROVE  LinesInv'
  <1>1. /\ "logger" \in C!Threads /\ DOMAIN queue = C!Threads
        /\ should_close \in [C!Threads -> BOOLEAN]
        /\ queue["logger"] \in Seq(C!ToSet(queue["logger"])) /\ queue["logger"] # <<>>
    BY LoopFacts DEF LinesInv, QueuesEnd, C!LoggerLeaves
  <1>2. Head(queue["logger"]) \in C!ToSet(queue["logger"])
    BY <1>1, QueueTail
  <1>3. Ends("logger")
    BY <1>2 DEF Ends, LinesInv, QueuesEnd
  <1>a. "logger" \notin failed /\ failed' = failed
    BY <1>1 DEF LinesInv, AllOrNone, C!LoggerLeaves
  <1>4. \A u \in C!Threads : Ends(u)
    BY <1>1, <1>3, <1>a DEF LinesInv, AllOrNone
  <1>5. /\ DOMAIN queue' = C!Threads /\ queue'["logger"] = <<>>
        /\ \A u \in C!Threads \ {"logger"} :
             queue'[u] = queue[u] /\ should_close'[u] = should_close[u]
    BY <1>1 DEF C!LoggerLeaves
  <1>6. should_close'["logger"] /\ should_close' \in [C!Threads -> BOOLEAN]
    BY <1>1 DEF C!LoggerLeaves
  <1>7. C!ToSet(<<>>) = {} /\ <<>> \in Seq(C!ToSet(<<>>))
    BY DEF C!ToSet
  <1>8. QueuesEnd'
    <2>1. \A u \in C!Threads : queue'[u] \in Seq(C!ToSet(queue'[u]))
      BY <1>5, <1>7 DEF LinesInv, QueuesEnd
    <2>2. \A x \in C!ToSet(queue'["logger"]) : C!Ending(x)
      BY <1>5, <1>7
    <2> QED
      BY <1>5, <1>6, <2>1, <2>2 DEF QueuesEnd
  <1>9. \A u \in C!Threads : Ends(u)'
    BY <1>4, <1>5, <1>6 DEF Ends
  <1>10. \A u \in C!Threads : u \in failed' => should_close'[u]
    BY <1>5, <1>6, <1>a DEF LinesInv, AllOrNone
  <1> QED
    BY <1>8, <1>9, <1>10 DEF LinesInv, AllOrNone

\* The network master that leaves by itself is one more of those that have failed, and
\* changes nothing for the others.
LEMMA AcceptFailsStep ==
  ASSUME LinesInv, C!AcceptFails
  PROVE  LinesInv'
  <1>1. "network" \in C!Handlers /\ "network" \in C!Threads /\ "network" # "logger"
    BY DEF C!Handlers, C!Threads
  <1>2. DOMAIN queue = C!Threads /\ should_close \in [C!Threads -> BOOLEAN]
    BY DEF LinesInv, QueuesEnd
  <1>3. /\ DOMAIN queue' = C!Threads /\ queue'["network"] = <<>>
        /\ \A u \in C!Threads \ {"network"} :
             queue'[u] = queue[u] /\ should_close'[u] = should_close[u]
        /\ should_close'["network"] /\ should_close' \in [C!Threads -> BOOLEAN]
        /\ failed' = failed \union {"network"}
    BY <1>1, <1>2 DEF C!AcceptFails
  <1>4. C!ToSet(<<>>) = {} /\ <<>> \in Seq(C!ToSet(<<>>))
    BY DEF C!ToSet
  <1>5. QueuesEnd'
    <2>1. \A u \in C!Threads : queue'[u] \in Seq(C!ToSet(queue'[u]))
      BY <1>3, <1>4 DEF LinesInv, QueuesEnd
    <2>2. "logger" \in C!Threads
      BY LoopFacts
    <2>3. \A x \in C!ToSet(queue'["logger"]) : C!Ending(x)
      BY <1>1, <1>3, <2>2 DEF LinesInv, QueuesEnd
    <2> QED
      BY <1>3, <2>1, <2>3 DEF QueuesEnd
  <1>6. \A u \in C!Threads \ {"network"} : Ends(u)' <=> Ends(u)
    BY <1>3 DEF Ends
  <1>7. Ends("network")'
    BY <1>3 DEF Ends
  <1>8. (\E u \in C!Threads : Ends(u)' /\ u \notin failed') => \A u \in C!Threads : Ends(u)'
    <2> SUFFICES ASSUME NEW u \in C!Threads, Ends(u)', u \notin failed'
                 PROVE  \A v \in C!Threads : Ends(v)'
      OBVIOUS
    <2>1. u # "network" /\ u \notin failed
      BY <1>3
    <2>2. \A v \in C!Threads : Ends(v)
      BY <1>6, <2>1 DEF LinesInv, AllOrNone
    <2> QED
      BY <1>6, <1>7, <2>2
  <1>9. \A u \in C!Threads : u \in failed' => should_close'[u]
    BY <1>3 DEF LinesInv, AllOrNone
  <1> QED
    BY <1>5, <1>8, <1>9 DEF LinesInv, AllOrNone

-----------------------------------------------------------------------------
(* The theorem about the lines.                                            *)

\* The invariant is inductive.
THEOREM LinesInductive == C!Spec => []LinesInv
  <1>1. LinesInv /\ [C!Next]_(C!vars) => LinesInv'
    <2> SUFFICES ASSUME LinesInv, [C!Next]_(C!vars) PROVE LinesInv'
      OBVIOUS
    <2>1. CASE UNCHANGED <<queue, should_close, failed>>
      BY <2>1 DEF LinesInv, QueuesEnd, AllOrNone, Ends
    <2>2. CASE UNCHANGED C!vars
      BY <2>1, <2>2 DEF C!vars
    <2>3. CASE (\E line \in ConsoleLines : C!Type(line)) \/ (\E message \in PlayerLines : C!Send(message))
      BY <2>1, <2>3 DEF C!Type, C!Send
    <2>4. CASE \E line \in C!BagToSet(unread) : C!Publish(line)
      BY <2>4, PublishStep
    <2>5. CASE C!LoggerLeaves
      BY <2>5, LeaveStep
    <2>6. CASE \E t \in C!Handlers : C!Handle(t)
      BY <2>6, HandleStep
    <2>7. CASE C!AcceptFails
      BY <2>7, AcceptFailsStep
    <2> QED
      BY <2>2, <2>3, <2>4, <2>5, <2>6, <2>7 DEF C!Next
  <1> QED
    BY LinesStart, <1>1, PTL DEF C!Spec

\* Whatever is typed or sent, and whichever of the two words a shutdown begins with:
\* when one of the RUN_CMD_HANDLER loops or the logger's has ended by a line, each of
\* the others has ended or has a line to read that ends it.  A loop that accept's
\* failure has ended says nothing to the others.
THEOREM ThreadsEndTogether == C!Spec => []EndsTogether
  <1>1. LinesInv => EndsTogether
    <2> SUFFICES ASSUME LinesInv PROVE EndsTogether
      OBVIOUS
    <2>1. DOMAIN should_close = C!Threads
      BY DEF LinesInv, QueuesEnd
    <2> QED
      BY <2>1 DEF LinesInv, AllOrNone, Ends, EndsTogether, Ending, StartsWith, ToSet,
                  C!Ending, C!StartsWith, C!ToSet
  <1> QED
    BY LinesInductive, <1>1, PTL
=============================================================================

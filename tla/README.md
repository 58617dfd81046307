# CRSS: models and proofs

CRSS is a redstone server: a C program of a few threads that share one ZeroMQ
context, keep plots of a block world, hold redstone circuits as graphs and speak
Minecraft protocol 758 to clients. This directory holds TLA+ modules of its
parts, TLC configurations that check them, and TLAPS proofs. Paths below are
relative to the repository; C sources are under `src/`, shared headers under `lib/`.

## Inventory

| Component | Source | State | Operations | What makes it correct |
|---|---|---|---|---|
| Hash map | `src/core/hashmap.c` | buckets of item chains, `num_items` | update, get, remove | a key is found under the data stored last, other keys are untouched, the count is exact |
| Plot manager, plot commands | `src/core/plots.c`, `plotcommands.c`, `core.c` | `plots` (name to plot), `world_positions` (position to name), each plot's owner, trust list, flag | `plot new`, `plot trust`, `plot remove`, `plot config set`, `plot config set owner` | the maps agree, the search for a position finds the nearest free one, revoking trust revokes it |
| Plot storage, octree | `src/core/plot_storage.c`, `ssvo.c` | sparse octree of chunks | `plot place`, `plot get` | a block read is the block written last at that place |
| Redstone graph | `src/core/redsynth/graph.c` | pools of nodes and edges, two edge lists per node | allocate and delete nodes, add and delete edges | a node's lists are exactly the edges at it, no edge dangles |
| Command bus, logger | `src/logger/logger.c`, `src/internals.c`, `lib/internals.h`, `src/utils.c` | notifications, `run-cmd`, `logger-log`, the subscribers' queues, `LOG_SIMPLE` | notify, dispatch, log, publish | start-up completes, commands reach the threads, nothing of note follows an exit |
| Thread life cycle | `src/rss-server.c` | threads and where each is, `keepRunning` | launch, read stdin, Ctrl-C, join | the program ends when told |
| Commands | the handler loops of `rss-server.c`, `help.c`, `core.c`, `network.c`, `gui.c`; `lib/internals.h` | what each thread subscribes to and handles, `LOG_LEVEL` | a line typed, a player's `/crss` | one handler per line, the right one; all threads end together |
| Help service | `src/logger/help.c`, `table.c` | command tree, built once | answer `help` | help is about the command asked for, its table whole |
| GUI | `src/gui/gui.c` | `WINDOW`, the GTK loop's callbacks | open, console line, quit | no callback runs without its window |
| Network master | `src/network/network.c` | client thread buffer (CTB), one pair socket per client | accept, reap, answer a request, shut down | every client is joined and freed once, after its last use |
| Sessions | `src/network/handlers/758/handler.c` | what the thread has acquired, keep-alive, the byte stream | status, login, play loop | all is released once, a silent client is dropped, an answering one is not, nothing follows a disconnect but one packet |
| Wire format | `src/network/minecraft/network_utils.c`, `src/core/coretypes.c` | a packet's buffer, the cipher's place in the stream | write and read fields, frame, send, receive; UUID, NBT | decoding inverts encoding, the buffer fits |
| Crypto, rendering, resources | `src/network/crypto.c`, `src/gui/crss_gl.c`, `camera.c`, `src/resources.c` | none that others depend on | | not modelled |

**How they interact.** Every thread sends commands and log lines as one-shot REQ
messages to the logger thread, which publishes them; help, core, network, the
terminal and the GUI's handler subscribe by prefix and poll. The core thread
alone owns the plot manager. The network master alone owns the CTB and talks to
each client thread over a pair socket; `conn->state` is shared memory. The GUI's
handler thread shares `WINDOW` with the GTK thread and queues callbacks for it.
`main` starts all threads, reads stdin and joins them at the end.

**What is hard.** The start-up barrier counts fewer notifications than threads
send; publication is lossy; the logger may leave between two commands; pair
messages are read in two steps without blocking; the CTB scan swaps entries under
its own index; clients end whenever they like; the graph's lists move between a
union's direct slots and a heap array; counters are 8 and 16 bits wide; commands are
found by prefix in chains written by hand, once per thread, beside a help tree that
nothing ties to them.
`PROJECT.json` lists these under `hazards`, each with its line and the properties
that cover it.

## Plan

1. `HashMap` with its abstract store `KVStore`, and its proofs - done.
2. `PlotManager` and its proofs - done.
3. `RsGraph` and its proofs - done.
4. `CommandBus`, threads and window, and its proofs - done.
5. `NetworkMaster` and its proofs - done.
6. `PlotStorage` over `SSVO`, against `BlockMap`, and the proofs that the octree stays
   one, that what is placed is found and that the storage is a map of blocks - done.
7. `Session` and its proofs - done. Still to come: that it refines the phase `reading` of
   `NetworkMaster`.
8. `Codec` and `Packet`, and the proofs that fields are read as they were written and that
   the buffer fits - done.
9. `Help` and `Commands`, and the proof that threads end together - done.
10. `Service`, the request/reply service of the pair sockets, and the proof that
    `NetworkMaster` implements it - done.

What stays with TLC, and why, is at the end of "Proofs".

`KVStore` is the abstract specification of the hash map, `BlockMap` that of a plot's
storage, `Service` that of the pair sockets.

## Modules

### HashMap, KVStore, HashMapProofs (`src/core/hashmap.c`)

`buckets[b]` is the sequence of items that bucket `b`'s next pointers link, so an
insertion at the end of a chain is `Append` and the removal of an item `RemoveAt`;
`prev` is written and never read, and is left out. `hash` is any function from keys
to hashes (`HashOf`), so collisions within a bucket and of the whole hash both happen.
`UpdateItem` is `hashmap_update_item` with its three ways out, `hashmap_get_item` is
the case of `NULL` data, `RemoveItem` is `hashmap_remove_item`. `Matches`, `Position`
are the search loop, which the code has twice. `KVStore` is the map of keys to data
that `hashmap.h` describes; `ret` is what a call returns. Its `Remove` returns false, as
`hashmap_remove_item` does whatever it found (`hashmap.c:132`), where `hashmap.h:46` promises
"true if the item was found and removed".

### PlotManager (`src/core/plots.c`, `plotcommands.c`, the loop of `core.c`)

The core thread handles one command at a time, so one action is one command. The two hash
maps are functions, which `HashMap` justifies. `Ring(r)` is the order in which the spiral
loop visits a ring; `HasFreePosition` contains the wrap of the 8-bit radius, for which the
outermost ring is never used: `NearestFirst` says that what is free there only is reported as
"no free position", which `plots.c:18` does not promise. Positions are 32-bit pairs in
`world_positions`, 16-bit numbers in the plot. Sizes go through `uint8_t` before they are
tested, negative ones too. `PlotRemove` overwrites the match with the last entry.
`PlotConfigBool` leaves out the names the command loop never passes on (those that begin
with `owner`). Commands the code refuses change nothing, which is stuttering; arguments are
what `atoi` returns. `Widths` has the casts and `count_bits`, which `PlotStorage` uses too.

### SSVO, PlotStorage, BlockMap (`ssvo.c`, `plot_storage.c`, `plot place`, `plot get`)

`SSVO` has the octree as a record: its height and the table of buffers, each with the
entries that are not 0 and the number given away. Links are numbers, as in the code: an
index, or `Msb` plus a buffer's number; a pointer covers `PtrEntries` entries, so that nodes
that overlapped would overwrite one another. `Descend` is a round of the traversal loop,
`NewChild` its allocation, with the comparison of entries with bytes; `Written` is an
assignment to entries. The numbers of the code satisfy `SSVOAssumption`: eight pointers of
four entries are at most `OVB_SIZE`, 32768 entries, which is `Msb`, 0x8000. `GetLeafPtr`
returns the octree with what it allocated, also when it is called to read. `PlotStorage` has
one plot's octree and chunks; `SetBlock` walks the octree twice when there is no chunk, as
`set_block` does. `BlockMap` is a map of blocks whose coordinates wrap around at the side of
the storage, the plot's size rounded down to a power of two. The side of the plot is its size
(`plots.h:58`): `SidesAgree` says that the two are the same where the size is a power of two,
and that otherwise a position inside the plot is the spawn's again.

### RsGraph (`src/core/redsynth/graph.c`)

A node's list is its slots (direct ones or the heap array's) and the array's `used`.
`AddIn`, `AddOut`, `Drop` are the list operations, with growth, migration to the array and
back; `AddEdge`, `DeleteEdge`, `AllocNode`, `DeleteNode` the graph's. `InUse` are the slots
the two ITER macros visit, `RemoveOutEdges` and `RemoveInEdges` the loops over them in the
deletion of a node, as functions of how many slots they have passed. Memory `malloc`
returned and nobody wrote is `Junk`: the test of its top bit goes either way. Two history
variables say what the caller has a right to: `live`, the edges added and not deleted, and
`fault`, the first of three things the code does wrong (`lost_slot`, `stolen_edge`, and
`wrapped_degree`, when a degree, a `uint16_t`, has passed `DegreeLimit`). After a fault the
code follows dangling indexes and the model stops, so `GraphExact` says: until such a fault
the lists are exact. It also says which callers never meet one (`WithinLimits`): those that
do not use up the pool of edges, which gets none back, let no node have more than `Direct +
1` edges out of it and fewer than `DegreeLimit` into each.

### CommandBus (`logger.c`, `rss-server.c`, `internals.c/.h`, the handler loops, `gui.c`)

`phase[t]` is where thread `t` is: before its sockets are connected, subscribed,
waiting (main for the logger, the GUI's handler for the window), in its handler loop,
joining, done. The logger's loop is split as its code is: `Poll`, then at most one log
line, one command and the exit of that poll. `Publish` puts a message in the queue of
each subscriber that listens and has room. ZeroMQ is modelled as the code uses it: a
REQ message of a closed socket still arrives, messages of different REQ sockets
in any order, PUB drops for a full queue and for who has not subscribed. The GTK thread
has its own steps, callbacks wait in `idle`. `window` is what `WINDOW` points to: when the
user closes the window GTK destroys it and the pointer stays, so that a callback which runs
after that (`RunIdle`) may also end the process (`UseAfterClose`). The network master that
leaves its loop, told or because `accept` failed (`AcceptFails`), first joins the threads of
its `clients` (`NetworkJoin`), which stay as long as they like; `main` joins all threads
(`MainJoin`) and then waits in `zmq_ctx_term` until every socket is closed (`Terminate`).
It returns there at once, since each thread closes its sockets before it ends; so the model
does not explain the comment at `rss-server.c:285`, that in GUI mode the program reaches
the end and does not close. The build uses `-O0`, so the unsynchronised
reads of `WINDOW` and `LOG_SIMPLE` are plain reads. `"exit"` stands for `quit` too.

### Help, Endings, Commands (`help.c`, `table.c`, the handler loops)

`Help` has the command tree as a sequence in the order of registration, each command
named by its path. `Scan` is the loop over the subcommands for one argument, which goes on
in the list of the command it has just moved to; `Lookup` is the walk. `RowsSet` are the rows
`get_cmd_help_table` sets, `Rows` what is left of them in a table of `count_table_rows`
rows, and `RowBytes`, `BorderBytes`, `DumpBytes`, `HelpBytes` the bytes of what is joined
from them, with their escape sequences and three-byte box characters; the sizes agree
with those of the compiled program.

`Commands` takes the lines themselves, as strings, through the bus: `run_cmd` is what the
logger has not read, `queue` the threads' queues, filtered by `Subscriptions`. `Endings`
declares the queues, says which lines end a thread and which threads have left their loop
without one (`failed`: `accept` may fail, `AcceptFails`). `Chains` are the `HANDLE_COMMAND`s
of each loop, a chain for each run of `else`, and `Ran` the handlers a line runs. A player's
message comes with `mccmd ` before it and, if it is for `/crss`, is dispatched again
without. Here all threads have subscribed and no queue overflows; `CommandBus` is about when
they have not and one does. `Known` words are those of the tree with something below them or
with a handler; `Offered` are the words that the help for a command names, `Categories`
those of the general help, each held against them. A line for `player info` always has a
name: without one the code reads an argument that is not there.

### NetworkMaster, Service (`network.c`, the pair sockets of `network_utils.c`, `handle_status_758`)

`pc` and `i` are the master's place in its round: accept, scan of the CTB, command. The
free of a client's `conn` and the join of its thread are two steps, as are the two
receives of a pair message and its two sends. `thread[c]` is the client thread's phase;
`flag` is just before `conn->state = CL_TERMINATED`, the last use of `conn`. `closes`
counts `close(conn->fd)`. A play session is the phase `reading` that ends when its client
likes. `Service` says what the pair sockets are for: who has asked waits, and is answered
at most once and only then. It does not say that the master must answer.

### Session (`handle_play_758`, `handle_state_play`, `packet_recv`)

One client thread from login start to its end, in the build with encryption. `pc` is the
packet it waits for, or its place in the round of the play loop; `res` counts what has
been acquired and not released, so that each way out says in `DisconnectAndClose` or
`Leave` what it gives back. Some things are lost on some ways, and `leaked` says which (`Forget`):
the data of a packet that is refused (`EXPECT_PACKET` frees its record alone), the context
of the digest when it cannot be begun, the handle of each authentication request that
fails, the text made for a chat message. The player's name belongs to `conn`, which the
network master frees.

`Handle` is the switch over the packet, `Clientbound` the rest of the round with the
keep-alive timer. Time passes wherever the thread is in the loop (`Tick`), so that an answer
may wait in the inbox, behind other packets or alone, while the limit passes. `prompt` are
the keep-alives whose answer came in time and with nothing before it; one that came in time
behind other packets may count for nothing (`handler.c:756`).

The byte stream is `inbox`, packets that have arrived whole, and `partial`, what there is of
the next one: `packet_recv` waits for the rest of a length but takes a body that is there in
part for the whole, after which the stream is read out of step (`garbled`) and any packet
may come of it. The client may send anything, in pieces, or close, and it may leave unread
what it is sent: then `full` says that the next write blocks until it reads (`Drain`) or
closes. A step that sends waits at its writes (`Write`) before it takes effect, which other
threads cannot tell from a wait in the middle. `killed` stands for what the code gives no
meaning: SIGPIPE, which nothing handles, a disconnect encrypted with a cipher that has been
freed, and the dereference of a token that could not be decrypted (`handler.c:182` tests the
secret a second time).

### Codec, Packet (`network_utils.c`, `coretypes.c`)

`Codec` has the conversions as operators on sequences of bytes: VarInts, integers with the
high byte first, text to UUID to wire, NBT trees. 32-bit words of a UUID are pairs of
halves. The code's loops are recursive functions of the number of rounds (`Iterated`), and
the recursion over an NBT tree goes by levels: `NbtValues`, the bytes of a tree and the
reading of one are each a function of how deep the tree may be, up to `MaxLevels`. A string
is a C string, so it has no zero; a byte array may have. `Packet` is what is done with them:
`WriteField` grows the buffer as `allocate_packet_space` does, once per piece of a field
(`Put`; a string has two), `Frame` is what `packet_send` writes, in three `Write`s that the
reader may come between: `unwritten` is what is still to come before each of them, `Arrived`
what is there. `PacketRecv` and `ReadField` are the receiving side. `read` may return with a
part of the body, and `packet_recv` takes it for the whole: `missing` says how much it
lacked, and from then on the reader is out of step and not followed (what becomes of a
stream that is out of step is in `Session`). The other end of a connection is the client; it
is taken to read as the server does, and NBT and UUIDs, which only a client reads, by the
definition of their format (`NbtNamed`). The cipher stands for any stream cipher: what
becomes of a byte depends on its place in the stream. What lies behind the end of a buffer
reads as zeros, so that reading too far is seen, not stopped. `MaxBytes` bounds a packet;
with the length before it, it has to fit the code's `int`.

## Runs

| Run | Bounds | Shows |
|---|---|---|
| `hashmap` | 4 keys (a full collision, a shared bucket, one alone), 2 buckets, 2 data | chains stay intact, `num_items` exact, `KVStore` implemented, whose removal always says false |
| `plots` | radius up to 3 (24 usable positions, ring 3 the unusable outermost), 26 names, 3 users, 2 trusted, sizes 256, 257 and -1 | maps agree, plots lie apart within 16 bits, nearest free position until the usable rings are full, and none then, although ring 3 has some, trust lists, a removal revokes one user |
| `storage` | plots of 1, 3 and 16 chunks, chunks of 2 blocks, 3 buffers of 100 entries, 6 positions | no two nodes share entries, each chunk hangs on one leaf, a block is lost only when the table is full, `BlockMap` implemented, narrower than the plot of 3 chunks |
| `graph` | 2 nodes, 6 edges, 2 direct slots, arrays of 3, degrees that wrap at 5 | lists exact through migration, growth and swap removal, loops and parallel edges; no dangling edge; no fault within the limits, each of the three faults beyond them |
| `commands` | 50 lines and 6 players' messages, two of them at a time, every level at first | threads that a line ends end together, one handler per line and the right one, levels and help as the tree says, what help offers in vain, whole tables |
| `bus` | window, 1 client, 1 input, queues of 1 | the barrier opens, at most one command after an exit, no callback finds `WINDOW` cleared, and which of them find it destroyed; once all are told and the client has left, all end |
| `network` | 3 clients, a buffer of 1 at first | the CTB is exact, clients are freed once and only after their last use, sockets closed once, `Service` implemented, the dead are reaped, shutdown completes |
| `session` | intervals of 1 and 2 seconds, 1 retry, 6 packets, 2 of them unread | every way out of the login releases what it holds once, and what is lost is named; a client whose answer comes in time and first is not timed out, a silent one ends; one packet at most after a disconnect |
| `codec` | a buffer of 4, 2 packets, 2 fields of 16 kinds and values, NBT of 4 levels, reads that are whole, take all that is there or 1 byte | fields are read as written, plain and encrypted, and use up their bytes, as long as packets are received whole; the buffer fits |
| `exit` | no window, no client, 1 input | **violated**: a thread misses the exit, the program hangs (`rss-server.c:103`) |
| `reply` | 1 client | **violated**: a request is lost between length and body (`network_utils.c:11`) |
| `uuid` | 1 packet with a UUID | **violated**: the fourth group of a UUID is negated (`coretypes.c:72`) |

Why the bounds are enough. In `hashmap` the chain operations see head, middle and end of a
chain and an empty one; the proofs remove the bound. In `plots` both maps fill up past the
point where the search fails; the configuration commands touch one plot while at most two
exist, since they read and write one plot only. Six edges on two nodes with two direct slots
and arrays of three let a list migrate with its third edge, grow with the fourth and wrap
its degree with the fifth, and use up the pool; `MCNext` keeps the sixth edge and what
follows it to one node and deletes nothing after it. In `storage` the tallest octree has two
levels in the root's buffer, a level where buffers change, and leaf nodes of which a buffer
holds one, so each way to allocate a node occurs, and running out of buffers too; a negative
coordinate and one beyond the side wrap around; a plot of three chunks, stored in two, has a
position inside it that is another's. In `bus` one input is enough: a broken window adds an
exit, and a player's "/crss exit" is a command first and an exit later, so that two commands
can wait behind an exit. `Hwm` 1 makes queues overflow, an exit be dropped included. One
client is enough to hold the network master's join. Three clients in `network` make the
buffer grow twice and shrink, and let a swap pass an entry over. `MaxInputs`, `MaxClients`
and `MaxLines` bound what the environment does and are guards of its actions. In `commands`
two lines make one arrive behind another in every order, a player's line within a line
included; the lines name every handler, every level and every command of the tree, and some
that begin like a command and are none. In `session` six packets suffice for a login,
settings, a keep-alive answered late or behind another packet and one more. In `codec`
`MaxBytes` is the largest that an `int` allows, and no packet comes near it; a buffer of 4
is doubled up to seven times within one packet, values lie at 127, 128, 16384 and the
largest, strings make a frame's length one and two bytes, and the tree nests every type of
node. `Cuts` bounds how many bytes a read may return where more are there: one, beside all
that are there and all that are wanted.

**Deadlock** is checked except in `bus`, `commands`, `network`, `session`, `codec` and the
violations of the same modules (`exit`, `reply`, `uuid`). There the program really stops:
sessions end, all packets have been read or one has been cut short, the program ends or
hangs as the findings say - main in a join, the GUI's handler without a window, the master's
shutdown with an idle client.

**Fairness.** Each thread's own steps are weakly fair: the operating system schedules it.
Nothing is assumed of what people and peers do: typing, Ctrl-C, closing the window,
connecting, sending and disconnecting may never happen. A handler loop polls without
blocking, so a queued message is eventually handled; a joined thread is waited for for ever.
`ToldAllStops` and `Closes` therefore assume in their premise that the threads, or clients,
have what they need; `BarrierOpens` and `Reaped` assume nothing. `ToldAllStops` also has the
clients gone and the network master out of its loop or told. In `session` the thread and the
clock are fair and the client is not: a thread in a `read` for the rest of a length, or in a
`write` to a client that reads nothing, cannot take its step, and weak fairness asks nothing
of it. `SilentEnds` excepts a client that holds it so for ever.

## Proofs

`HashMapProofs` proves, for any keys, data, hashes and number of buckets
(`HashMapAssumption`: `NULL` is no data, a hash is a natural number, there is a bucket):

- `TypeCorrect`, `ChainsStayIntact`: `TypeOK` and `ChainIntegrity` hold always. They are
  inductive only together (`IInv`): the position at which the search stops is within
  its chain, with the right item there, only because each key is in its chain at most
  once, and the item found there is typed. `AppendGood`, `OverwriteGood` and `RemoveGood`
  are the three ways a chain changes, `Search` is the loop.
- `CountExact`: `num_items` is the cardinality of the set of keys a read finds.
- `StaysSound`: the two together, which is `MapSound`, the invariant of the run.
- `Implements`: the map implements `KVStore`, with its removal that says false. `UpdateEffect`
  and `RemoveEffect` say what a call does to every later read; they rest on `LookupFinds` (a
  read of an intact chain) and `ReadsFollow` (a replaced chain is seen by its bucket's keys
  only).

`PlotManagerProofs` proves, for any names, users, limits and radius (`PlotAssumption`),
the properties of the run `plots`:

- `TypeCorrect`, `MapsStayInStep`, `TrustBounded`: the state properties,
  whose conjunction is the inductive invariant. A new plot keeps the maps in agreement
  because its name and its position were both free (`RegisterStep`, `FreePositionFree`);
  all other commands change one plot and not its place (`ConfigureStep`). Two plots believe
  they lie at the same place only when one was created beyond 16 bits (`PlacesApart`),
  since no two stand at one position of `world_positions`.
- `RemovalRevokes`: a removal moves the last entry of a trust list onto the match and
  still revokes that user alone; this needs the list without duplicates (`RemoveUser`).
- `NearestFound`: the spiral finds the nearest free position within the usable rings, whatever
  is taken, and none when only the outermost ring has one. A ring
  is exactly the positions at its distance (`RingCovers`, `RingDistance`), and the least
  ring with a free index exists because sets of naturals are well-founded (`MinLeast`).

`SessionProofs` proves, for any intervals, retries and bounds (`SessionAssumption`: the
interval is below the timeout, `NULL` is no packet), the safety properties of the run
`session`. Its invariant has five parts:

- `TypeOK` (`TypeCorrect`).
- `ResourcesExact`: what is held is a function of the thread's place.
- `LeakInv`: what has been lost so far is a function of the way taken. `ReleasedOnce`
  (`Balanced`) follows from the two.
- `ToldInv`: only a round of the loop goes on after a disconnect, and `alive` then ends the
  loop; `DisconnectEnds` (`OneAfterDisconnect`).
- `TimerInv`: a keep-alive whose answer came promptly is no longer waited for, or its answer
  is the next packet the loop handles, whatever the clock says by then (`AnswerNext`); all
  ids sent lie before the clock, so a new one was never answered. `AnswerCounts`
  (`PromptNotKicked`) and `WaitsForAnswer` (`OnlyItsAnswer`) follow; the latter needs that
  an id that is waited for is not 0, which a packet out of step may hold.

`NetworkMasterProofs` proves the safety properties of the run `network` for any number of
clients and any least size of the buffer (`NetworkAssumption`). Its invariant has, beside
`TypeOK`, five parts:

- `Arrived`, `Registered`: clients come in order, and who has been accepted is in the buffer
  until its thread is joined; `Looping` says where in its round that is so.
- `Sized`: the buffer's size is in every set that holds the least size and is closed under
  doubling. Only so is halving exact: the code halves a size above the least one, and
  a size that had not been doubled could fall below it. `BufferExact` follows.
- `Owned`: what a client thread holds is a function of its phase and of the master's place
  between the join and the free; `ReleasedOnce` follows.
- `Paired`: the halves of messages in both sockets, with the one the master has in hand
  between its two receives, are at most those of one exchange. `Implements` maps a client
  that waits to the service's, and an answer to its two halves.

`CommandBusProofs` proves those of the run `bus`, for any bounds, with or without a window.
`BarrierInv` says who has notified the logger, `PollInv` and `BusInv` follow an exit
from the handler to the logger's poll: it is either still unread, which the next poll
finds, or has been found, and the poll in between read one command (`BusCloses`).
`WindowInv` says that the callback which quits is the last in the queue, because the
handler's thread ends once it has queued it, so no callback finds `WINDOW` cleared
(`CallbacksFindWindow`). It also ties the window to the main loop: a callback that runs after
it finds the window which the user has closed.

Its last part proves `ThreadsEndTogether` of `Commands`, which it takes in with INSTANCE
(both modules have a bus of their own; the property is in `Endings`), for any lines: the
chains of each thread begin with the two words (`ChainFacts`), so a line that ends one ends
all, and each thread that has not ended still has it in its queue (`AllOrNone`). The network
loop that `accept`'s failure has ended is excepted, as no line announces it.

`RsGraphProofs` proves `TypeCorrect` and `StaysExact`, the properties of the run `graph`,
for any pools, number of direct slots and size of arrays, and whatever unwritten memory
holds (`GraphAssumption`). `Lists` alone is not inductive: `Held` adds that a list has
exactly its direct slots while they suffice, and as many in use as its degree says, which is
why an insertion finds a free one. `AddInHeld`, `AddOutHeld` and `DropHeld` are the three
ways a list changes, through each migration; `AddTypes` covers the edge that is handed out
twice. `FaultMarks` keeps what each of the three faults needs: an edge in use is handed out
only by a pool used up, only an insertion into an array finds no slot, and a degree wraps
only with the edge that makes it `DegreeLimit`. The two loops of a deletion are recursive
functions: that they are defined (`OutLoop`, `InLoop`) and what they have made of the table
after each slot (`RemoveOutEdgesHeld`, `RemoveInEdgesHeld`) is shown by the least slot that
breaks it.

`PlotStorageProofs` proves `TypeCorrect`, `Sound`, `PlacedIsThere` and `Implements`, for any
sides of plots, positions, blocks, widths of a pointer and sizes of buffers and table
(`SSVOAssumption`, `PlotStorageAssumption`). `OctreeSound` counts links and nodes, which no
step can be followed through, so the invariant (`IInv`, proved by `Inductive`) speaks of a
set of nodes, each a level, a buffer and a first entry:

- `Well`: the nodes lie within what their buffers have given away and share no entry, a
  link that is not 0 leads to one of them, and each but the root is at the end of
  exactly one link. `AddNode` preserves it for a node placed where nothing was given away
  (`ChildInside`, `ChildOutside`); that this is so when a buffer is changed needs that
  an index stays below `Msb`.
- `Hung`: each chunk is on one of the leaf nodes' pointers and no two pointers share one.
  `SetPointer` preserves it for a pointer that was NULL.

`Loop` and `Rounds` follow the traversal from the root down, `LeafFound` is what it returns.
`set_block` writes the chunk through a second traversal, so the pointer it writes is
the one it found NULL only because a repeated traversal changes nothing and ends where
the first did (`WalkAgain`), also when the first one ran out of buffers on its way.
`NodesFound` and `LinkCount` lead from there to `WellFormed`: the nodes a search finds
are those of the invariant, and links map one to one onto nodes other than the root.
`StoredUnlessFull` is about what a look-up finds, which allocates nothing. It goes the
way of the traversal as far as the links are there (`LookedUp`): before a traversal that
finds no room it finds no pointer, after one that finds its pointer it finds the same,
and setting the pointer changes no link (`SameWay`).

`ImplementsMap` speaks of all positions, not only of the one a command carries, so its proof needs
to know which positions share a leaf, and which of them a chunk.

- A position's way down is its chunk's bits, one per level and axis. Two chunks whose
  remainders modulo the side agree have the same bits and conversely (`BitsDetermine`,
  `NearMod`), so look-ups end at the same pointer exactly for positions with the same
  remainders (`CommonPointer`, `LeafFacts`). The widths of the code keep the bits of a
  coordinate within its word (`Coordinate`, `WrapFacts`).
- A traversal adds nodes and moves none: the pointer a position had it keeps
  (`NodesStay`, `TwoWays`, `LeavesStay`), and the chunk that is new is found at the positions
  of its own chunk and nowhere else (`LeafPut`).
- Hence each command is a step of `BlockMap` (`GetIsGet`, `PutsIsPut`), and a block that
  finds no room, though it may have added nodes, leaves the map as it was
  (`StillIsStutter`).
- The storage's side is at most the plot's, as `count_bits` stops below the size, and equal to
  it only where no bit is cut off (`BitsRange`, `SidesHold`).

`PacketProofs` proves `TypeCorrect`, `AlwaysFits` and `AlwaysReadBack`, the properties of the
run `codec`, for any fields, packet ids, numbers of packets and of fields, first size of a
buffer (`CodecAssumption`, `PacketAssumption`: the bounds fit the code's
integers). What it is about is what happens between the two ends, so the invariant (`IInv`,
proved by `Invariant`) has four parts:

- `WriterInv`: the buffer holds the bytes of the fields written so far and nothing else, and
  its size is the least one or a doubling of it (`SizeFits`), so that the loop that grows
  it stops within 31 rounds at the first size that fits (`GrownFits`, `Doubled31`).
- `StreamInv`: the sender's place in the stream is the receiver's plus what lies on the wire, less
  what a short read took for received.
- `WireInv`: while nothing is missing, what is on the wire, deciphered from the receiver's
  place, is the frames of the packets not yet received, in order, whichever of the three
  writes have been made. The receiver deciphers a length byte by byte and then the rest, in
  three calls, which is the same as all at once (`CipherThree`, `DecipherBoth`).
- `ReaderInv`: while nothing is missing, the bytes received are those of the packet's
  fields, and the pointer stands behind those read.

`FieldBack` is the lemma they meet in: a field's bytes, followed by any others, are read as the
field and leave the others unread. VarInts and integers follow from their arithmetic
(the loop's rounds one by one, `IteratedIs`), NBT trees level by level (`LevelsSound`): that
a property holds at each level is shown by the least level at which it would not
(`AllNat`, `MinLeast`), as induction cannot be cited. UUIDs are in it with their size only,
since the code does not write them back (the run `uuid`).

The inductive invariants were checked with TLC as invariants of the runs before they were
proved.

**Only model-checked**, at the bounds above:

- the liveness properties `BarrierOpens`, `ToldAllStops`, `Reaped`, `Closes`, `SilentEnds`,
  which are out of the prover's reach;
- the properties of the violations, which do not hold;
- `OneHandler`, `HelpExact`, `TableFits` and `LevelAsHelped` of `Commands`: they compare what
  is computed from the lines' text, and the provers know nothing of the letters of a string;
- `TypeOK` of `Commands`, for the same reason: that a part of a line is a string.

## Not modelled

Rendering, camera and shaders (floating-point geometry), text resources and version strings,
`crypto.c` (calls of OpenSSL and libcurl), `cmdgraph.c` (nothing calls it), the hexadecimal
digest for the session server (`network_utils.c:454`, pure arithmetic; its carry at line 476
is taken after the addition, which shows for negative digests that end in 0 or 1). Text is
abstracted to what the code tells apart. Memory errors the code could commit (the ten bytes
for a position, a missing argument of `player info`) are left out, as are negative VarInts,
which the code never writes.

**Where the code does otherwise than its texts say.** Three such places have a run of their
own (`exit`, `reply`, `uuid`). The others are in the models as the code has them, and a
property that holds says exactly what happens there:

| Code | Text | Property |
|---|---|---|
| `hashmap.c:132`: a removal returns false always | `hashmap.h:46`, "true if the item was found and removed" | `ImplementsStore` |
| `plots.c:66`: a free position of the outermost ring only is reported as none | `plots.c:18`, "false if there was no free position, true on success" | `NearestFirst` |
| `plots.c:173`: positions are compared with 32 bits and kept with 16 | none | `MapsAgree` |
| `plots.c:177`: the storage is narrower than a plot whose size is no power of two | `plots.h:58`, "Side length of the plot in multiples of 16" | `ImplementsMap` |
| `graph.c:174`, `graph.c:59`, `graph.h:52`: no slot found, an edge handed out twice, a degree that wraps | none | `GraphExact` |
| `gui.c:355`: callbacks run after the user has closed the window | `gui.h:50`, "until closed or terminated" | `IdleFindsWindow` |
| `network.c:138`: the network loop ends by itself when `accept` fails | none | `EndsTogether` |
| `handler.c:134`, `:239`, `:638`, `network_utils.c:535`: what login and play forget to release | none | `Balanced` |
| `handler.c:756`: an answer in time behind other packets does not save the client | `handler.c:757`, "Didn't receive keep alive response in time -> kick" | `PromptNotKicked` |
| `network_utils.c:58`, `:154`: a read or a write holds the thread | none | `SilentEnds` |
| `network_utils.c:89`: a part of a packet is taken for the whole | `network_utils.c:75`, "Packet object or NULL if socket fetch fails" | `ReadBack` |
| `help.c:226`: nothing handles `plot config get` | "[get\|set] <option> [<arg>*]" | `HelpExact` |
| `resources.c:17`-`24`: seven of the eight categories get an error | "help gui" and the others | `HelpExact` |

----------------------------- MODULE PlotManager -----------------------------
(***************************************************************************)
(* src/core/plots.c, plotcommands.c and the dispatch loop of core.c: the   *)
(* core thread's plots, where each lies in the world, and who may edit it. *)
(*                                                                         *)
(* The two hash maps of the manager are functions here (HashMap.tla shows  *)
(* that a hash map is one); a key of world_positions is the pair that      *)
(* "%d;%d" prints.  One action is one command of the core thread, which    *)
(* handles commands one at a time; a command it refuses changes nothing.   *)
(* What a plot stores is in PlotStorage.tla.                               *)
(***************************************************************************)
EXTENDS Integers, FiniteSets, SequencesExt, Widths

CONSTANTS Name,           \* plot names commands may carry
          OwnerNames,     \* those that begin with "owner"
          Uuid,           \* UUIDs commands may carry
          Server,         \* the all-zero UUID
          SizeArg,        \* size arguments, as atoi returns them, negative ones included
          PosArg,         \* position arguments, as atoi returns them
          MaxRadius,      \* largest radius of the spiral, a uint8_t: 255
          SizeDefault,    \* PLOT_SIZE_DEFAULT
          MaxTrusted,     \* PLOT_MAX_TRUSTED
          NULL            \* an argument that is not given

ASSUME PlotAssumption ==
  /\ OwnerNames \subseteq Name
  /\ SizeArg \subseteq Int /\ NULL \notin Int
  /\ PosArg \subseteq Int \X Int
  /\ MaxRadius \in Nat \ {0}
  /\ SizeDefault \in 1 .. 255
  /\ MaxTrusted \in Nat

VARIABLES plots,           \* mgr->plots: name -> plot
          world_positions  \* mgr->world_positions: position -> name

vars == <<plots, world_positions>>

Init ==
  /\ plots = <<>>
  /\ world_positions = <<>>

\* hashmap_update_item with data.
Put(map, k, v) == [x \in DOMAIN map \union {k} |-> IF x = k THEN v ELSE map[x]]

-----------------------------------------------------------------------------
(* The spiral search for a free position.                                  *)

\* Mutant: the walk along a border stops one step short of the corner.
RingShort(r) == [i \in 1 .. 4 * (2 * r - 1) |->
  LET step == (i - 1) \div 4
  IN  << <<r - step, r>>, <<-r, r - step>>, <<-r + step, -r>>, <<r, -r + step>> >>
        [((i - 1) % 4) + 1]]

\* The positions of one ring in the order in which the loop tries them:
\* south, west, north and east border, one step further each round.
Ring(r) == [i \in 1 .. 8 * r |->
  LET step == (i - 1) \div 4
  IN  << <<r - step, r>>, <<-r, r - step>>, <<-r + step, -r>>, <<r, -r + step>> >>
        [((i - 1) % 4) + 1]]

FreeIn(r) == {i \in DOMAIN Ring(r) : Ring(r)[i] \notin DOMAIN world_positions}

FreeRings == {r \in 1 .. MaxRadius : FreeIn(r) # {}}

\* find_free_position succeeds.  radius is incremented once more after the
\* find, so a find in the outermost ring wraps to 0 and counts as none.
HasFreePosition == FreeRings # {} /\ Min(FreeRings) # MaxRadius

FreePosition == LET r == Min(FreeRings) IN Ring(r)[Min(FreeIn(r))]

-----------------------------------------------------------------------------
(* Creating plots.                                                         *)

NewPlot(pos, size) ==
  [virt_x |-> ToInt16(pos[1]), virt_z |-> ToInt16(pos[2]), owner |-> Server,
   size |-> size, log2 |-> CountBits(size), editors |-> <<>>, any_can_edit |-> FALSE]

Register(n, pos, size) ==
  /\ plots' = Put(plots, n, NewPlot(pos, size))
  /\ world_positions' = Put(world_positions, pos, n)

NewFromName(n, size) ==
  IF n \notin DOMAIN plots /\ HasFreePosition
  THEN Register(n, FreePosition, size)
  ELSE UNCHANGED vars

\* Mutant: the name is not looked up.
NewFromPosNoNameCheck(n, size, pos) ==
  IF pos \notin DOMAIN world_positions
  THEN Register(n, pos, size)
  ELSE UNCHANGED vars

NewFromPos(n, size, pos) ==
  IF n \notin DOMAIN plots /\ pos \notin DOMAIN world_positions
  THEN Register(n, pos, size)
  ELSE UNCHANGED vars

\* Mutant: the argument is compared with 0 before it is cut to eight bits.
SizeAcceptedUncut(arg) == arg # NULL => arg # 0

\* A size of 0, once cut to eight bits, is refused.
SizeAccepted(arg) == arg # NULL => ToUint8(arg) # 0

\* plot_size, a uint8_t.
SizeOf(arg) == IF arg = NULL THEN SizeDefault ELSE ToUint8(arg)

\* plot new <name> [<size>] and plot new <name> <x> <z> [<size>]
PlotNew(n, size) ==
  /\ SizeAccepted(size)
  /\ NewFromName(n, SizeOf(size))

PlotNewAt(n, size, pos) ==
  /\ SizeAccepted(size)
  /\ NewFromPos(n, SizeOf(size), pos)

-----------------------------------------------------------------------------
(* Configuring a plot that exists.                                         *)

Positions(editors, u) == {i \in DOMAIN editors : editors[i] = u}

\* plot config set owner
PlotSetOwner(n, u) ==
  /\ n \in DOMAIN plots
  /\ plots' = [plots EXCEPT ![n].owner = u]
  /\ UNCHANGED world_positions

\* Mutant: the limit is checked with > and a known user is not looked for.
PlotTrustUnchecked(n, u) ==
  /\ n \in DOMAIN plots
  /\ Len(plots[n].editors) <= MaxTrusted
  /\ plots' = [plots EXCEPT ![n].editors = Append(@, u)]
  /\ UNCHANGED world_positions

\* plot trust: refused at the limit and for a user trusted already.
PlotTrust(n, u) ==
  /\ n \in DOMAIN plots
  /\ Len(plots[n].editors) < MaxTrusted
  /\ Positions(plots[n].editors, u) = {}
  /\ plots' = [plots EXCEPT ![n].editors = Append(@, u)]
  /\ UNCHANGED world_positions

\* Mutant: the count goes down, but the last entry is not moved.
PlotRemoveLast(n, u) ==
  /\ n \in DOMAIN plots
  /\ Positions(plots[n].editors, u) # {}
  /\ plots' = [plots EXCEPT ![n].editors = Front(@)]
  /\ UNCHANGED world_positions

\* plot remove: the last entry replaces the last match, whatever its place.
PlotRemove(n, u) ==
  /\ n \in DOMAIN plots
  /\ Positions(plots[n].editors, u) # {}
  /\ LET e == plots[n].editors
         match == Max(Positions(e, u))
     IN  plots' = [plots EXCEPT ![n].editors =
                     [i \in 1 .. Len(e) - 1 |-> IF i = match THEN e[Len(e)] ELSE e[i]]]
  /\ UNCHANGED world_positions

\* plot config set <name> anycanedit.  The loop tries the longer prefix
\* "plot config set owner" first, so a name that begins with "owner" never
\* gets here: its command runs as a change of ownership of the plot
\* "anycanedit" to the malformed UUID "true", which is refused.
PlotConfigBool(n, state) ==
  /\ n \in DOMAIN plots \ OwnerNames
  /\ plots' = [plots EXCEPT ![n].any_can_edit = state]
  /\ UNCHANGED world_positions

\* The commands that add a plot, and those that change one.
Create(n, sizes) == \E size \in sizes :
  \/ PlotNew(n, size)
  \/ \E pos \in PosArg : PlotNewAt(n, size, pos)

Configure(n) ==
  \/ \E u \in Uuid : PlotSetOwner(n, u) \/ PlotTrust(n, u) \/ PlotRemove(n, u)
  \/ \E state \in BOOLEAN : PlotConfigBool(n, state)

Next == \E n \in Name : Create(n, SizeArg \union {NULL}) \/ Configure(n)

Spec == Init /\ [][Next]_vars

-----------------------------------------------------------------------------
Plot == [virt_x : Int, virt_z : Int, owner : Uuid \union {Server}, size : 1 .. 255,
         log2 : 0 .. 7, editors : Seq(Uuid), any_can_edit : BOOLEAN]

TypeOK ==
  /\ DOMAIN plots \subseteq Name
  /\ \A n \in DOMAIN plots : plots[n] \in Plot
  /\ DOMAIN world_positions \subseteq Int \X Int
  /\ \A p \in DOMAIN world_positions : world_positions[p] \in Name

\* Each plot stands at exactly one position of the position map, and each position
\* there names a plot that believes it lies there (in the 16 bits it has for that).
Registered ==
  /\ \A n \in DOMAIN plots : \E p \in DOMAIN world_positions : world_positions[p] = n
  /\ \A p, q \in DOMAIN world_positions :
       world_positions[p] = world_positions[q] => p = q
  /\ \A p \in DOMAIN world_positions :
       /\ world_positions[p] \in DOMAIN plots
       /\ plots[world_positions[p]].virt_x = ToInt16(p[1])
       /\ plots[world_positions[p]].virt_z = ToInt16(p[2])

Fits16Bits(p) == ToInt16(p[1]) = p[1] /\ ToInt16(p[2]) = p[2]

\* Two plots that believe they lie at the same place differ only by bits that the plot
\* cannot keep: one of them stands at a position beyond 16 bits.
ApartWithin16Bits ==
  \A n, m \in DOMAIN plots :
    /\ n # m
    /\ plots[n].virt_x = plots[m].virt_x /\ plots[n].virt_z = plots[m].virt_z
    => \E p \in DOMAIN world_positions : world_positions[p] \in {n, m} /\ ~Fits16Bits(p)

\* The two maps agree, and plots lie on one another only where 16 bits are too few.
MapsAgree == Registered /\ ApartWithin16Bits

\* No user is trusted twice on a plot and never more than MaxTrusted are:
\* a removal deletes one entry only, so a second one would survive it.
TrustLists ==
  \A n \in DOMAIN plots :
    /\ Len(plots[n].editors) <= MaxTrusted
    /\ IsInjective(plots[n].editors)

\* Removing a user takes away that user's trust and nobody else's.
RevokesOne ==
  [][\A n \in DOMAIN plots : \A u \in Uuid :
       PlotRemove(n, u) => ToSet(plots'[n].editors) = ToSet(plots[n].editors) \ {u}]_vars

Distance(p) == Max({p[1], -p[1], p[2], -p[2]})

\* Whatever is taken, a plot created without a position gets a free one such
\* that no position nearer to the spawn is free.  When every ring but the outermost is
\* full the search reports none, and so it does where the outermost ring has a free
\* position: it finds that one, its 8-bit radius wraps and it returns false.
\* plots.c:18 promises otherwise: "false if there was no free position, true on success".
NearestFirst ==
  LET Full(d) == \A p \in (-d .. d) \X (-d .. d) :
                   p # <<0, 0>> => p \in DOMAIN world_positions
  IN  IF HasFreePosition
      THEN /\ FreePosition \notin DOMAIN world_positions
           /\ Distance(FreePosition) \in 1 .. MaxRadius - 1
           /\ Full(Distance(FreePosition) - 1)
      ELSE Full(MaxRadius - 1)
=============================================================================

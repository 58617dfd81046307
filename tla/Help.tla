-------------------------------- MODULE Help --------------------------------
(***************************************************************************)
(* The command tree of help.c, the search of a command in it, and the      *)
(* table that table.c lays out for a command: its rows, its format lines   *)
(* and how many bytes the buffers it is built in take.  Text is a string;  *)
(* a cell is what is seen of it and the bytes of an escape sequence in it. *)
(***************************************************************************)
EXTENDS Integers, SequencesExt

-----------------------------------------------------------------------------
(* The tree.  A command is named by the names on the way to it from the    *)
(* root, which is <<>> and has neither name nor usage.                     *)

Command(path, description, aliases, usage) ==
  [path |-> path, description |-> description, aliases |-> aliases, usage |-> usage]

Option(name, description, aliases) ==
  [name |-> name, description |-> description, aliases |-> aliases]

\* build_command_tree, in the order of registration.
command_tree == <<
  Command(<<"debug">>, "Set the debug level", "", "<level>"),
  Command(<<"quit">>, "Exit the application", "exit", ""),
  Command(<<"plot">>, "Manage plots", "", "<option> [<arg>*]"),
  Command(<<"plot", "new">>, "Create a new plot", "", "<plotname> [<x> <z>] [<size>]"),
  Command(<<"plot", "list">>, "Display information about all existing plots", "", "-"),
  Command(<<"plot", "info">>, "Display information about one plot", "", "<plotname>"),
  Command(<<"plot", "config">>, "Configure a plot", "", "[get|set] <option> [<arg>*]"),
  Command(<<"plot", "config", "set">>, "Set a configuration parameter", "",
          "<option> [<arg>*]"),
  Command(<<"plot", "config", "set", "owner">>, "Set a plot's owner", "",
          "<plotname> <uuid>"),
  Command(<<"plot", "config", "set", "anycanedit">>,
          "Set whether anybody can edit a plot", "", "<plotname> [true|false]"),
  Command(<<"plot", "trust">>, "Trust a player to a plot", "", "<plotname> <uuid>"),
  Command(<<"plot", "remove">>, "Remove a player's trust on a plot", "",
          "<plotname> <uuid>")>>

Root == <<>>
Paths == {Root} \union {command_tree[i].path : i \in DOMAIN command_tree}

CommandAt(path) ==
  command_tree[CHOOSE i \in DOMAIN command_tree : command_tree[i].path = path]

subcommands(path) ==
  SelectSeq(command_tree, LAMBDA c : SubSeq(c.path, 1, Len(c.path) - 1) = path)

\* The options register_option gave a command.
options(path) ==
  IF path # <<"debug">> THEN <<>>
  ELSE <<Option("verbose", "Most verbose log level", <<"v">>),
         Option("debug", "Debugging messages", <<"d", "debg">>),
         Option("info", "User Information", <<"i">>),
         Option("warning", "Warnings", <<"w", "warn">>),
         Option("fatal", "Critical errors", <<"f", "fail">>)>>

\* The words that help says may follow a command: its subcommands, and for plot config
\* those of its usage.
Offered(path) ==
  {subcommands(path)[i].path[Len(path) + 1] : i \in DOMAIN subcommands(path)}
  \union (IF path = <<"plot", "config">> THEN {"get", "set"} ELSE {})

\* What RESOURCE_HELP_GENERAL names as "help <command>".
Categories == {"redsynth", "graph", "core", "network", "schems", "plot", "player", "gui"}

-----------------------------------------------------------------------------
(* get_help_cmd_response.                                                  *)

\* The longest list of subcommands, where every scan has ended.
MaxSubcommands == 6

\* The scan of the subcommands for one argument.  It goes on after a match, with
\* the next index, in the list of the command it has moved to.
Scan(path, arg) ==
  FoldLeft(LAMBDA s, i :
             LET list == subcommands(s.at)
             IN  IF i <= Len(list) /\ list[i].path[Len(list[i].path)] = arg
                 THEN [at |-> list[i].path, success |-> TRUE] ELSE s,
           [at |-> path, success |-> FALSE],
           [i \in 1 .. MaxSubcommands |-> i])

\* Mutant: success is not reset before the next argument.
LookupStale(argv) ==
  FoldLeft(LAMBDA s, arg : LET found == Scan(s.at, arg)
                           IN  [found EXCEPT !.success = @ \/ s.success],
           [at |-> Root, success |-> Len(argv) = 1], Tail(argv))

\* The walk down the tree, which the first argument without a match ends.  Without
\* an argument it is the root that help is about.
Lookup(argv) ==
  FoldLeft(LAMBDA s, arg : IF s.success THEN Scan(s.at, arg) ELSE s,
           [at |-> Root, success |-> TRUE], Tail(argv))

-----------------------------------------------------------------------------
(* get_cmd_help_table.                                                     *)

Sum(seq) == FoldLeft(LAMBDA a, b : a + b, 0, seq)

\* Strings one after the other with a separator between them.
Joined(strings, separator) ==
  FoldLeft(LAMBDA s, t : s \o separator \o t, Head(strings), Tail(strings))

\* Mutant: the options of the subcommands are not counted.
CountRowsOwn(path) ==
  (IF path = Root THEN 0 ELSE 1) + Len(subcommands(path)) + Len(options(path))

\* count_table_rows
count_table_rows(path) ==
  (IF path = Root THEN 0 ELSE 1) + Len(subcommands(path)) + Len(options(path))
  + Sum([i \in DOMAIN subcommands(path) |-> Len(options(subcommands(path)[i].path))])

\* A row: five texts, the bytes of the escape sequence in the first of them, and
\* whether it stands for an option, whose first cell is NULL.
TableRow(cells, hidden, option) == [cells |-> cells, hidden |-> hidden, option |-> option]

HeaderRow == TableRow(<<"Command", "Option", "Usage", "Aliases", "Description">>, 0, FALSE)
EmptyRow == TableRow(<<"", "", "", "", "">>, 0, FALSE)

\* The rows of a command: its own, with its full name in green, and its options'.
CommandRows(command) ==
  <<TableRow(<<Joined(command.path, " "), "-", command.usage, command.aliases,
               command.description>>, 5, FALSE)>>
  \o [i \in DOMAIN options(command.path) |->
        LET option == options(command.path)[i]
        IN  TableRow(<<"", option.name, "-", Joined(option.aliases, ", "),
                       option.description>>, 0, TRUE)]

\* The rows that are set, in order.
RowsSet(path) ==
  <<HeaderRow>>
  \o (IF path = Root THEN <<>> ELSE CommandRows(CommandAt(path)))
  \o FlattenSeq([i \in DOMAIN subcommands(path) |-> CommandRows(subcommands(path)[i])])

\* The table: as many rows as were counted, in a uint8_t.  What is set beyond them is
\* refused, and a row nothing is set in stays empty.
Rows(path) ==
  LET set == RowsSet(path)
      n == (count_table_rows(path) + 1) % 256
  IN  SubSeq(set, 1, IF n < Len(set) THEN n ELSE Len(set))
      \o [r \in 1 .. n - Len(set) |-> EmptyRow]

\* row_has_format_line: an option takes the line from the row above it.
HasFormatLine(rows, r) == r < Len(rows) => ~rows[r + 1].option

-----------------------------------------------------------------------------
(* dump_table, in bytes.  A box character has three of them.               *)

ROW_VCHARS == 1024
Columns == 1 .. 5

\* The width of a column: its longest text and a blank on both sides.
col_width(rows, c) ==
  LET wider(r) == Len(rows[r].cells[c]) + 2
  IN  FoldLeft(LAMBDA w, r : IF wider(r) > w THEN wider(r) ELSE w, 5,
               [r \in DOMAIN rows |-> r])

\* header_row, format_row and footer_row, with their format of eight bytes.
BorderBytes(rows) == 1 + 8 + Sum([c \in Columns |-> 3 + (3 * col_width(rows, c))]) + 3

\* next_row: in each cell the format of the frame, a bar, the format of the text, and
\* the text padded to the width of its column.
RowBytes(rows, r) ==
  1 + Sum([c \in Columns |-> 8 + 3 + (IF r = 1 THEN 6 ELSE 4) + col_width(rows, c)])
  + rows[r].hidden + 8 + 3 + 5

\* dump_str_sz
AllocatedBytes(rows) ==
  BorderBytes(rows) + 2
  + Sum([r \in DOMAIN rows |-> RowBytes(rows, r) + BorderBytes(rows) + 1])

\* The length of the string the table comes out as.
DumpBytes(rows) ==
  BorderBytes(rows) + 1
  + Sum([r \in DOMAIN rows |->
           RowBytes(rows, r) + (IF HasFormatLine(rows, r) THEN BorderBytes(rows) + 1 ELSE 0)])

-----------------------------------------------------------------------------
(* get_full_help_string and the log line it becomes.                       *)

\* RESOURCE_HELP_GENERAL with the name and the version of the program.
GeneralBytes == 627

\* The bytes of what get_full_help_string returns, and of the buffer it is printed in.
NameBytes(path) == IF path = Root THEN 0 ELSE Len(Joined(path, " ")) + 5
HelpBytes(path) ==
  GeneralBytes + DumpBytes(Rows(path)) + (IF path = Root THEN 43 ELSE 42 + NameBytes(path))
HelpBuffer(path) == GeneralBytes + DumpBytes(Rows(path)) + NameBytes(path) + 128

\* What get_print_string puts before and after the text, the prompt included, and
\* MAX_LOG_FMT_LEN, the size of the line.
LogLineBytes == 158
MAX_LOG_FMT_LEN == 8192

\* The table of a command is complete, with a line below each command and its options
\* and nowhere else, and no buffer it goes through is too small: the rows of 1024
\* bytes, the dump that grows row by row, the help text and the log line, which cuts or
\* overruns what is too long.
Fits(path) ==
  LET rows == Rows(path)
  IN  /\ rows = RowsSet(path)
      /\ \A r \in DOMAIN rows :
           /\ RowBytes(rows, r) < ROW_VCHARS
           /\ HasFormatLine(rows, r) <=> r = Len(rows) \/ rows[r + 1].cells[1] # ""
      /\ BorderBytes(rows) < ROW_VCHARS
      /\ DumpBytes(rows) < AllocatedBytes(rows)
      /\ HelpBytes(path) < HelpBuffer(path)
      /\ HelpBytes(path) + LogLineBytes < MAX_LOG_FMT_LEN

\* The commands whose help comes out whole.
Fitting == {path \in Paths : Fits(path)}
=============================================================================

----------------------------- MODULE MCCommands -----------------------------
(* Lines for every handler, and lines that look like those of another.     *)
EXTENDS Commands

MCConsoleLines ==
  {"", " exit", "exit", "quit", "exitnow", "about", "splash", "log x", "player info p",
   "help", "help gui", "helpme quit", "help plot", "help plot plot", "help config",
   "help plot config set owner", "help  debug ", "help debug verbose",
   "debug", "debug x", "debug deb", "debugw",
   "plot new a", "plot config set owner a b", "plot config set ownership a true",
   "plot config get a", "plot place a 1 2 3 4", "plot get a 1 2 3"}
  \union UNION {{"debug " \o w : w \in LevelNames(i)} : i \in 1 .. 5}
  \union {"help " \o Joined(path, " ") : path \in Paths \ {Root}}

MCPlayerLines ==
  {"/crss quit", "/crss debug d", "/crss ", "/crss", "/crss mccmd /crss help", "/plot list"}
=============================================================================

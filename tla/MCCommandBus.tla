---------------------------- MODULE MCCommandBus ----------------------------
(***************************************************************************)
(* One input is enough to crowd the bus behind an exit: a window that      *)
(* lacks a widget asks for an exit of its own, and a player's "/crss exit" *)
(* is a command first and an exit once the core thread has handled it.     *)
(***************************************************************************)
EXTENDS CommandBus
=============================================================================

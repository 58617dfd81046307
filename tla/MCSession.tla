------------------------------ MODULE MCSession ------------------------------
(* A session small enough to check: seconds are long and packets few.      *)
EXTENDS Session
=============================================================================

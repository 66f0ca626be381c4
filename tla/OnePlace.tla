------------------------------- MODULE OnePlace -------------------------------
(***************************************************************************)
(* What managed execution promises one process of a program                *)
(* (managed_execution.py): it runs on its own machine or on the server,    *)
(* there at most once, never on both.  A program handed over comes back    *)
(* only while the server has not started it, and one that ran here is      *)
(* never handed over.                                                      *)
(***************************************************************************)
EXTENDS Naturals

VARIABLES
  place,      \* "undecided", "local" or "server"
  started     \* how often the program has been started on the server

vars == <<place, started>>

Init == place = "undecided" /\ started = 0

RunHere  == place # "local" /\ started = 0 /\ place' = "local" /\ UNCHANGED started
HandOver == place = "undecided" /\ place' = "server" /\ UNCHANGED started
RunThere == place = "server" /\ started = 0 /\ started' = 1 /\ UNCHANGED place

Next == RunHere \/ HandOver \/ RunThere

Spec == Init /\ [][Next]_vars
=============================================================================

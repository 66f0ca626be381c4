------------------------------ MODULE SingleStart ------------------------------
(***************************************************************************)
(* What managed execution promises about each approved run: its program    *)
(* starts at most once, only while the gateway has granted its start, and  *)
(* what the gateway comes to know about it is true and final.              *)
(***************************************************************************)
CONSTANT Runs

VARIABLES
  phase, \* "open" (can be granted or withdrawn), "granted", "started", "closed"
  known  \* what the gateway knows: "unknown", "ran", "never"

vars == <<phase, known>>

Init == phase = [r \in Runs |-> "open"] /\ known = [r \in Runs |-> "unknown"]

Become(r, from, to) ==
  phase[r] \in from /\ phase' = [phase EXCEPT ![r] = to]

Grant(r)    == Become(r, {"open"}, "granted") /\ UNCHANGED known
Start(r)    == Become(r, {"granted"}, "started") /\ UNCHANGED known
(* Whoever could have started the program has given up. *)
GiveUp(r)   == Become(r, {"open", "granted"}, "closed") /\ UNCHANGED known
Withdraw(r) == /\ Become(r, {"open"}, "closed")
               /\ known' = [known EXCEPT ![r] = "never"]
Report(r)   == /\ phase[r] = "started" /\ known[r] = "unknown"
               /\ known' = [known EXCEPT ![r] = "ran"]
               /\ UNCHANGED phase

Next == \E r \in Runs : Grant(r) \/ Start(r) \/ GiveUp(r) \/ Withdraw(r) \/ Report(r)

Spec == Init /\ [][Next]_vars
=============================================================================

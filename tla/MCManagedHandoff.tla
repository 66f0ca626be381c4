--------------------------- MODULE MCManagedHandoff ---------------------------
(* Model values for TLC's instances of ManagedHandoff. *)
EXTENDS ManagedHandoff, TLC

CONSTANTS c1, c2

TwoCallers == {c1, c2}

\* Gateways that know submission ids, with and without a local fall-back.
Identified ==
  {o \in [fallback : BOOLEAN, ids : {TRUE}, polling : BOOLEAN] : o.fallback => o.polling}

\* A gateway that lets a program stay local but knows no submission ids.
Unidentified == {[fallback |-> TRUE, ids |-> FALSE, polling |-> FALSE]}
=============================================================================

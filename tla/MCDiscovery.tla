----------------------------- MODULE MCDiscovery -----------------------------
(* Model values for TLC's instances of Discovery and the symmetry they use. *)
EXTENDS Discovery, TLC

CONSTANTS r1, r2, k1, o1, f1, f2, f3

TwoReporters   == {r1, r2}
OneKey         == {k1}
OneObject      == {o1}
NoObject       == {}
ThreeFlights   == {f1, f2, f3}
Nobody         == {}
MainThread     == {r1}
ScopedReporter == {r2}

Runs           == {"run"}
BothModes      == {"run", "background"}

(* Keys are interchangeable, and reporters where none of them is scoped or  *)
(* interruptible; flights are not, a CHOOSE allocates them.                 *)
Symmetry == Permutations(Keys) \union Permutations(Reporters)
=============================================================================

-------------------------- MODULE MCCredentialEngine --------------------------
(* Model values for TLC's instances of CredentialEngine. *)
EXTENDS CredentialEngine, TLC

CONSTANTS g1, g2, t1, a1, a2, c1, c2, s1

Nobody      == {}
OneGoverned == {g1}
TwoGoverned == {g1, g2}
OneRequest  == {t1}
TwoAnswers    == {a1, a2}
TwoBuilds     == {c1, c2}
OwnCredential == {s1}

EveryKind == Kinds

Symmetry == Permutations(Governed) \union Permutations(Transparent)
=============================================================================

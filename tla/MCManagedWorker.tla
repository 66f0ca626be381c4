---------------------------- MODULE MCManagedWorker ----------------------------
(* Model values for TLC's instances of ManagedWorker. *)
EXTENDS ManagedWorker, TLC

CONSTANTS w1, w2, q1, q2, q3, u1, u2

TwoWorkers    == {w1, w2}
TwoRequests   == {q1, q2}
ThreeRequests == {q1, q2, q3}
OneRun        == {u1}
TwoRuns       == {u1, u2}
=============================================================================

---------------------------- MODULE MCGovernedCall ----------------------------
(* Model values for TLC's instance of GovernedCall. *)
EXTENDS GovernedCall, TLC

CONSTANTS t1, t2

OneTask    == {t1}
OtherTask  == {t2}
TwoTasks   == {t1, t2}
=============================================================================

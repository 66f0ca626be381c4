---------------------------- MODULE MCComponents ----------------------------
(***************************************************************************)
(* Values for the parameters of Components that a configuration cannot     *)
(* write down.                                                             *)
(***************************************************************************)
EXTENDS Components

\* Two names of frameworks that one adapter guards.
OnePackage == [n \in Frameworks |-> "package"]
=============================================================================

-------------------------- MODULE MCLocalTerminal --------------------------
(* A small instance of LocalTerminal for TLC, with what it is symmetric in. *)
EXTENDS LocalTerminal, TLC

Symmetric == Permutations(Attachers) \cup Permutations(Quitters)
=============================================================================

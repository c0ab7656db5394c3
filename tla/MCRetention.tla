----------------------------- MODULE MCRetention -----------------------------
(* Instances of Retention for TLC: tracks, replicas and operators are interchangeable. *)
EXTENDS Retention, TLC

Symmetry == Permutations(Track) \cup Permutations(Replica) \cup Permutations(Operator)
=============================================================================

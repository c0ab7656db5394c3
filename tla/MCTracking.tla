------------------------------ MODULE MCTracking ------------------------------
(* Instances of Tracking for TLC: symmetric ids and processes. *)
EXTENDS Tracking, TLC

Symmetry ==
  Permutations(Track) \cup Permutations(Object) \cup Permutations(IncidentId)
    \cup Permutations(Worker) \cup Permutations(Reader)
=============================================================================

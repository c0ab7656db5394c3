----------------------------- MODULE MCRateLimit -----------------------------
(* Instances of RateLimit for TLC: threads and sensors are interchangeable. *)
EXTENDS RateLimit, TLC

Symmetry == Permutations(Thread) \cup Permutations(Sensor)
=============================================================================

--------------------------- MODULE MCTimedEvents ---------------------------
(* TimedEvents on small instances. *)
EXTENDS TimedEvents, TLC

Symmetry == Permutations(Threads) \cup Permutations(Events)
============================================================================

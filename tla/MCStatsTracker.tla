--------------------------- MODULE MCStatsTracker ---------------------------
(* Model-checking instance of StatsTracker. *)
EXTENDS StatsTracker, TLC

Symmetry == Permutations(Keys)
=============================================================================

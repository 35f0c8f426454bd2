------------------------- MODULE MCReplayProtection -------------------------
(* Model-checking instance of ReplayProtection; the values are in the .cfg.*)
EXTENDS ReplayProtection, TLC

Symmetry == Permutations(Sources)
=============================================================================

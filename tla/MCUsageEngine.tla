---------------------------- MODULE MCUsageEngine ---------------------------
(* Two handlers and two customers, events dated from the past to the future. *)
EXTENDS UsageEngine, TLC

CONSTANTS h1, h2, c1, c2

Symmetry == Permutations({h1, h2}) \cup Permutations({c1, c2})
=============================================================================

--------------------------- MODULE MCUsageService ---------------------------
(* Two workers and three requests over a channel of capacity two. *)
EXTENDS UsageService, TLC

CONSTANTS e1, e2, e3, w1, w2
=============================================================================

--------------------------- MODULE MCBatchManager ---------------------------
(* Small instance of BatchManager: two metrics of one item and one of another. *)
EXTENDS BatchManager, TLC

CONSTANTS m1, m2, m3, i1, i2

MCItem == m1 :> i1 @@ m2 :> i1 @@ m3 :> i2
=============================================================================

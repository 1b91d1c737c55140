-------------------------- MODULE MCMeteredBilling --------------------------
(* Two batches of one item, with different quantities, and one batch alone. *)
EXTENDS MeteredBilling, TLC

CONSTANTS b1, b2, i1

MCItem     == b1 :> i1 @@ b2 :> i1
MCQuantity == b1 :> 1 @@ b2 :> 2

MCItemAlone     == b1 :> i1
MCQuantityAlone == b1 :> 1
=============================================================================

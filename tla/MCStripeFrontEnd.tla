-------------------------- MODULE MCStripeFrontEnd --------------------------
(* Two handlers, and one client more than the map has room for.              *)
EXTENDS StripeFrontEnd

CONSTANTS h1, h2, c1, c2, c3, lb, l1, l2, l3, l4
=============================================================================

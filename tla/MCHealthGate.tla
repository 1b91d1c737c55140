---------------------------- MODULE MCHealthGate ----------------------------
(* Two upstreams, one of which can keep the other's round waiting.           *)
EXTENDS HealthGate

CONSTANTS n1, n2, h1
=============================================================================

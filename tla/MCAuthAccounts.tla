--------------------------- MODULE MCAuthAccounts ---------------------------
(* Four requests: two that race, the one that made their account and a last. *)
EXTENDS AuthAccounts, TLC

CONSTANTS r1, r2, r3, r4, e1, e2, p1, p2

Interchangeable == Permutations(Requests) \cup Permutations(Emails) \cup Permutations(Passwords)
=============================================================================

--------------------------- MODULE MCRefreshTokens ---------------------------
(* Four requests, enough for a login, two uses of its token and a later one. *)
EXTENDS RefreshTokens, TLC

CONSTANTS r1, r2, r3, r4, t1, t2, t3, u1, u2

Interchangeable == Permutations(Requests) \cup Permutations(Tokens) \cup Permutations(Users)
=============================================================================

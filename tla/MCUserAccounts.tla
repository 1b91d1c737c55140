--------------------------- MODULE MCUserAccounts ---------------------------
(* Two handlers, with the statements that need none as a third actor. Two    *)
(* users who want one address; two roles, to be given at the same time.      *)
EXTENDS UserAccounts, TLC

CONSTANTS h1, h2, u1, u2, p1, p2, t1, e1, admin, editor

Interchangeable == Permutations(Handlers) \cup Permutations(Users)
                   \cup Permutations(Passwords) \cup Permutations(Roles)
=============================================================================

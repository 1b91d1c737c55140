---------------------------- MODULE Credentials ----------------------------
(***************************************************************************)
(* What the auth service promises its callers: every request takes effect  *)
(* at one moment, or not at all. An account is opened under an address     *)
(* nobody has and is never taken over; it lets in who knows its password   *)
(* and nobody else, and changes its password for someone who has shown one *)
(* it has had. A request answered with an error may have had its effect.   *)
(***************************************************************************)
CONSTANTS Requests,   \* also names the accounts: the request that opened one
          Emails, Passwords,
          None

VARIABLES email, password, profile,  \* of each account, None before it is opened
          had,                       \* the passwords an account has had
          done                       \* what each finished request asked and was answered

vars == <<email, password, profile, had, done>>

Init ==
    /\ email = [u \in Requests |-> None] /\ password = [u \in Requests |-> None]
    /\ profile = [u \in Requests |-> None] /\ had = [u \in Requests |-> {}]
    /\ done = [r \in Requests |-> None]

Matches(e, p) == \E u \in Requests : email[u] = e /\ password[u] = p

Finish(r, ask, answer) ==
    done[r] = None /\ done' = [done EXCEPT ![r] = <<ask, answer>>]

Unchanged(r, ask, answer) ==
    Finish(r, ask, answer) /\ UNCHANGED <<email, password, profile, had>>

Open(r, e, p, answer) ==
    /\ Finish(r, [op |-> "register", email |-> e, password |-> p], answer)
    /\ \A u \in Requests : email[u] # e
    /\ email' = [email EXCEPT ![r] = e] /\ password' = [password EXCEPT ![r] = p]
    /\ profile' = [profile EXCEPT ![r] = r] /\ had' = [had EXCEPT ![r] = {p}]

Replace(r, u, p, new, answer) ==
    /\ Finish(r, [op |-> "change", user |-> u, password |-> p, new |-> new], answer)
    /\ p \in had[u]
    /\ password' = [password EXCEPT ![u] = new] /\ had' = [had EXCEPT ![u] = @ \cup {new}]
    /\ UNCHANGED <<email, profile>>

Rename(r, u, answer) ==
    /\ Finish(r, [op |-> "rename", user |-> u], answer)
    /\ email[u] # None /\ profile' = [profile EXCEPT ![u] = r]
    /\ UNCHANGED <<email, password, had>>

\* Requests that leave the accounts alone.
Register(r, e, p) ==
    LET ask == [op |-> "register", email |-> e, password |-> p]
    IN  \/ Unchanged(r, ask, "refused") /\ \E u \in Requests : email[u] = e
        \/ Unchanged(r, ask, "error")
LogIn(r, e, p) ==
    LET ask == [op |-> "login", email |-> e, password |-> p]
    IN  \/ Unchanged(r, ask, "ok") /\ Matches(e, p)
        \/ Unchanged(r, ask, "refused") /\ ~Matches(e, p)
        \/ Unchanged(r, ask, "error")
Prolong(r, u) ==
    LET ask == [op |-> "refresh", user |-> u]
    IN  \/ Unchanged(r, ask, "ok") /\ email[u] # None
        \/ \E answer \in {"refused", "error"} : Unchanged(r, ask, answer)
Change(r, u, p, new) ==
    LET ask == [op |-> "change", user |-> u, password |-> p, new |-> new]
    IN  \/ Unchanged(r, ask, "refused") /\ password[u] # p
        \/ Unchanged(r, ask, "error")

Next ==
    \E r \in Requests :
        \/ \E e \in Emails, p \in Passwords :
              Register(r, e, p) \/ LogIn(r, e, p) \/ Open(r, e, p, "created") \/ Open(r, e, p, "error")
        \/ \E u \in Requests :
              \/ Prolong(r, u) \/ Rename(r, u, "ok") \/ Rename(r, u, "error")
              \/ Unchanged(r, [op |-> "rename", user |-> u], "error")
              \/ \E p, new \in Passwords :
                    \/ Change(r, u, p, new)
                    \/ Replace(r, u, p, new, "ok") \/ Replace(r, u, p, new, "error")
        \/ \E op \in {"register", "login", "refresh", "rename", "change"} :
              Unchanged(r, [op |-> op], "refused")   \* malformed, or without a valid token

Spec == Init /\ [][Next]_vars
=============================================================================

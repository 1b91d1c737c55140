---------------------------- MODULE RefreshTokens ----------------------------
(***************************************************************************)
(* services/gateway/internal/auth: the handlers of /auth/login, /refresh   *)
(* and /logout over InMemoryRefreshTokenStore, and the hourly sweep of the *)
(* store (gateway/main.go).                                                *)
(*                                                                         *)
(* Every request is a goroutine that calls the store several times; each   *)
(* call is atomic (s.mu), their sequence is not. A token is identified     *)
(* with its hash and its id. Requests that are refused before they reach   *)
(* the store change nothing and are left out. Time is abstracted: a token  *)
(* may expire at any moment, and a consumed hash outlives the token's      *)
(* lifetime (consumedRetention, 14 days, against RefreshDuration, 7 by     *)
(* default).                                                               *)
(***************************************************************************)
EXTENDS Integers, FiniteSets

CONSTANTS Requests,  \* login, refresh and logout requests of a behaviour
          Tokens,    \* the refresh tokens that may be issued
          Users,
          None       \* no token, request or user

ASSUME TokenConstants == None \notin Requests \cup Tokens \cup Users

VARIABLES
    op,         \* what each request asks for
    pc,         \* where its handler is
    tok,        \* the token it presents (None for a login)
    user,       \* the user it is for
    by,         \* the request that issued each token
    stored,     \* s.tokens
    revoked,    \* tokens with Revoked set
    consumed,   \* s.consumed
    expired,    \* tokens past ExpiresAt
    condemned,  \* history: tokens that existed when RevokeAllForUser hit their user
    spared,     \* history: requests past FindByTokenHash when that happened to their user
    doubled     \* history: tokens found live while another request was about to revoke them

request == <<op, tok, user>>
store   == <<stored, revoked, consumed>>
history == <<condemned, spared, doubled>>
vars    == <<op, pc, tok, user, by, stored, revoked, consumed, expired,
             condemned, spared, doubled>>

Labels     == {"idle", "check", "owner", "revokeAll", "find", "revoke", "mark", "issue", "done"}
Issued     == {t \in Tokens : by[t] # None}
Owner(t)   == user[by[t]]
Parent(t)  == tok[by[t]]     \* the token a token replaced, None after a login
Successors(t) == {s \in Issued : Parent(s) = t}
Live       == stored \ (revoked \cup expired)    \* what FindByTokenHash finds
At(r, label) == pc[r] = label
Goto(r, label) == pc' = [pc EXCEPT ![r] = label]

Init ==
    /\ op = [r \in Requests |-> "none"] /\ pc = [r \in Requests |-> "idle"]
    /\ tok = [r \in Requests |-> None] /\ user = [r \in Requests |-> None]
    /\ by = [t \in Tokens |-> None]
    /\ stored = {} /\ revoked = {} /\ consumed = {} /\ expired = {}
    /\ condemned = {} /\ spared = {} /\ doubled = {}
-----------------------------------------------------------------------------
\* Credentials were accepted: the login goes on to issue a token.
Login(r, u) ==
    /\ At(r, "idle") /\ Goto(r, "issue")
    /\ op' = [op EXCEPT ![r] = "login"]
    /\ user' = [user EXCEPT ![r] = u]
    /\ UNCHANGED <<tok, by, store, expired, history>>

\* A client presents a token it was given, to refresh it or to log out.
Present(r, t, what, label) ==
    /\ At(r, "idle") /\ Goto(r, label)
    /\ t \in Issued /\ At(by[t], "done")
    /\ op' = [op EXCEPT ![r] = what]
    /\ tok' = [tok EXCEPT ![r] = t]
    /\ user' = [user EXCEPT ![r] = Owner(t)]
    /\ UNCHANGED <<by, store, expired, history>>

Refresh(r, t) == Present(r, t, "refresh", "check")
Logout(r, t)  == Present(r, t, "logout", "find")
-----------------------------------------------------------------------------
(* Reuse detection in RefreshHandler.                                      *)

IsConsumed(r) ==
    /\ At(r, "check")
    /\ Goto(r, IF tok[r] \in consumed THEN "owner" ELSE "find")
    /\ UNCHANGED <<request, by, store, expired, history>>

\* findByHashIncludingRevoked: a swept token has no owner any more.
FindOwner(r) ==
    /\ At(r, "owner")
    /\ Goto(r, IF tok[r] \in stored THEN "revokeAll" ELSE "done")
    /\ UNCHANGED <<request, by, store, expired, history>>

Past(r) == pc[r] \in {"revoke", "mark", "issue"}

\* What the histories remember of a RevokeAllForUser.
Condemn(u) ==
    /\ condemned' = condemned \cup {t \in Issued : Owner(t) = u}
    /\ spared' = spared \cup {r \in Requests : user[r] = u /\ Past(r)}

\* Fault: only the presented token is revoked.
RevokeAllPresented(r) ==
    /\ At(r, "revokeAll") /\ Goto(r, "done")
    /\ revoked' = revoked \cup {tok[r]}
    /\ Condemn(user[r])
    /\ UNCHANGED <<request, by, stored, consumed, expired, doubled>>

\* Fault: the sessions of every user are revoked.
RevokeAllOfEveryone(r) ==
    /\ At(r, "revokeAll") /\ Goto(r, "done")
    /\ revoked' = revoked \cup stored
    /\ Condemn(user[r])
    /\ UNCHANGED <<request, by, stored, consumed, expired, doubled>>

RevokeAllForUser(r) ==
    /\ At(r, "revokeAll") /\ Goto(r, "done")
    /\ revoked' = revoked \cup {t \in stored : Owner(t) = user[r]}
    /\ Condemn(user[r])
    /\ UNCHANGED <<request, by, stored, consumed, expired, doubled>>
-----------------------------------------------------------------------------
(* Rotation in RefreshHandler, revocation in LogoutHandler.                *)

\* Fault: the lookup ignores Revoked.
FindRevoked(r) ==
    /\ At(r, "find")
    /\ Goto(r, IF tok[r] \in stored \ expired THEN "revoke" ELSE "done")
    /\ UNCHANGED <<request, by, store, expired, history>>

FindByTokenHash(r) ==
    /\ At(r, "find")
    /\ Goto(r, IF tok[r] \in Live THEN "revoke" ELSE "done")
    /\ doubled' = IF tok[r] \in Live /\ \E q \in Requests \ {r} : tok[q] = tok[r] /\ At(q, "revoke")
                  THEN doubled \cup {tok[r]} ELSE doubled
    /\ UNCHANGED <<request, by, store, expired, condemned, spared>>

\* Fault: the old token is left to expire.
RevokeNothing(r) ==
    /\ At(r, "revoke") /\ Goto(r, "mark")
    /\ UNCHANGED <<request, by, store, expired, history>>

\* A token swept meanwhile is not found by Revoke, and stays gone.
Revoke(r) ==
    /\ At(r, "revoke") /\ Goto(r, "mark")
    /\ revoked' = revoked \cup ({tok[r]} \cap stored)
    /\ UNCHANGED <<request, by, stored, consumed, expired, history>>

\* Fault: the hash marked is that of the token about to be issued.
MarkConsumedNew(r) ==
    /\ At(r, "mark")
    /\ Goto(r, IF op[r] = "logout" THEN "done" ELSE "issue")
    /\ \E t \in Tokens \ Issued : consumed' = consumed \cup {t}
    /\ UNCHANGED <<request, by, stored, revoked, expired, history>>

MarkConsumed(r) ==
    /\ At(r, "mark")
    /\ Goto(r, IF op[r] = "logout" THEN "done" ELSE "issue")
    /\ consumed' = consumed \cup {tok[r]}
    /\ UNCHANGED <<request, by, stored, revoked, expired, history>>

\* generateRefreshToken: a token nobody has had before.
Issue(r, t) ==
    /\ At(r, "issue") /\ Goto(r, "done")
    /\ t \notin Issued
    /\ by' = [by EXCEPT ![t] = r]
    /\ stored' = stored \cup {t}
    /\ UNCHANGED <<request, revoked, consumed, expired, history>>

\* A token could not be generated: the client is left without one.
IssueFails(r) ==
    /\ At(r, "issue") /\ Goto(r, "done")
    /\ UNCHANGED <<request, by, store, expired, history>>
-----------------------------------------------------------------------------
(* Time.                                                                   *)

Expire(t) ==
    /\ t \in Issued \ expired
    /\ expired' = expired \cup {t}
    /\ UNCHANGED <<request, pc, by, store, history>>

\* Fault: hashes are kept for less than the lifetime of a token.
DeleteExpiredEarly ==
    /\ stored' = stored \ expired
    /\ \E old \in SUBSET consumed : consumed' = consumed \ old
    /\ UNCHANGED <<request, pc, by, revoked, expired, history>>

\* Expired tokens go; so do the hashes consumed longer ago than the retention, all of them
\* hashes of expired tokens.
DeleteExpired ==
    /\ stored' = stored \ expired
    /\ \E old \in SUBSET (consumed \cap expired) : consumed' = consumed \ old
    /\ UNCHANGED <<request, pc, by, revoked, expired, history>>
-----------------------------------------------------------------------------
Step(r) ==
    \/ IsConsumed(r) \/ FindOwner(r) \/ RevokeAllForUser(r)
    \/ FindByTokenHash(r) \/ Revoke(r) \/ MarkConsumed(r)
    \/ \E t \in Tokens : Issue(r, t)
    \/ IssueFails(r)

Next ==
    \/ \E r \in Requests : \/ \E u \in Users : Login(r, u)
                           \/ \E t \in Tokens : Refresh(r, t) \/ Logout(r, t)
                           \/ Step(r)
    \/ \E t \in Tokens : Expire(t)
    \/ DeleteExpired

Spec == Init /\ [][Next]_vars
-----------------------------------------------------------------------------
TypeOK ==
    /\ op \in [Requests -> {"none", "login", "refresh", "logout"}]
    /\ pc \in [Requests -> Labels]
    /\ tok \in [Requests -> Tokens \cup {None}]
    /\ user \in [Requests -> Users \cup {None}]
    /\ by \in [Tokens -> Requests \cup {None}]
    /\ stored \subseteq Issued /\ revoked \subseteq Issued
    /\ consumed \subseteq Issued /\ expired \subseteq Issued
    /\ condemned \subseteq Issued /\ doubled \subseteq Issued /\ spared \subseteq Requests

\* Rotation: a token and one issued in its place are never usable at the same time.
ReplacedIsDead == \A s \in Issued : Parent(s) \notin Live

\* A token is replaced at most once unless two requests presented it at the same time, both
\* finding it live before either revoked it.
ReplacedOnceUnlessDoubled ==
    \A t \in Issued \ doubled : \A s, u \in Successors(t) : s = u

\* Reuse stays detectable for as long as a token would have lived: the hash of a replaced
\* token is remembered and its owner can be found, whatever the sweep deleted.
ReuseDetectable ==
    \A s \in Issued : Parent(s) \notin expired \cup {None} => Parent(s) \in consumed \cap stored

\* After a reuse was detected none of the sessions the user had lives on, nor one refreshed
\* from them, save by a refresh that had found its token before.
ReuseEndsSessions ==
    /\ condemned \cap Live = {}
    /\ \A s \in Live : Parent(s) \in condemned => by[s] \in spared

\* A token is revoked only because it was presented, or because of its own user's reuse.
RevokedForCause ==
    \A t \in revoked :
        \/ t \in condemned
        \/ \E r \in Requests : tok[r] = t /\ pc[r] \in {"mark", "issue", "done"}

\* "Refresh tokens rotate on use; replaying a rotated token revokes all of the user's
\* sessions": a token is exchanged for a new one at most once.
ReplacedOnce == \A t \in Issued : \A s, u \in Successors(t) : s = u
=============================================================================

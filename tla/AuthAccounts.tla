---------------------------- MODULE AuthAccounts ----------------------------
(***************************************************************************)
(* services/auth-service: the handlers of /auth and /users/me over the     *)
(* users table. A request is a goroutine that runs one or two SQL          *)
(* statements; each is atomic, their sequence is not, and PostgreSQL keeps *)
(* addresses unique. An account is named by the request that registered    *)
(* it. A salted hash is compared with the one password it was made from,   *)
(* so the table holds passwords. Tokens are signed and stateless: a        *)
(* request that was given a pair can show it until it expires, after which *)
(* it is refused.                                                          *)
(***************************************************************************)
EXTENDS Integers, FiniteSets

CONSTANTS Requests,   \* the requests of a behaviour
          Emails, Passwords,
          None

ASSUME AccountConstants == None \notin Requests \cup Emails \cup Passwords

VARIABLES
    email, password, profile,   \* columns of users, None in a row that does not exist;
                                \* profile: the request that wrote the names last
    asked,      \* what each request asks for, None before it arrives
    pc,         \* where its handler is
    answer,     \* its status: created (201), ok (200), refused (4xx), error (500)
    session,    \* the account its token pair is for
    had,        \* history: the passwords each account has had
    stale       \* history: changes of password whose comparison another change overtook

users == <<email, password, profile, had>>
vars  == <<email, password, profile, asked, pc, answer, session, had, stale>>

Ops == {"register", "login", "refresh", "rename", "change"}
ByAddress(op, e, p) == [op |-> op, email |-> e, password |-> p]
ByToken(op, u) == [op |-> op, user |-> u]
Changing(u, p, new) == [op |-> "change", user |-> u, password |-> p, new |-> new]

InUse(e) == \E u \in Requests : email[u] = e
Matches(e, p) == \E u \in Requests : email[u] = e /\ password[u] = p

Arrive(r, ask, label) ==
    /\ pc[r] = "idle" /\ pc' = [pc EXCEPT ![r] = label]
    /\ asked' = [asked EXCEPT ![r] = ask]

Answer(r, status) == answer' = [answer EXCEPT ![r] = status]

\* The last step of a handler that had more than one.
Return(r, status) ==
    pc' = [pc EXCEPT ![r] = "done"] /\ Answer(r, status) /\ UNCHANGED asked

Init ==
    /\ email = [u \in Requests |-> None] /\ password = [u \in Requests |-> None]
    /\ profile = [u \in Requests |-> None] /\ had = [u \in Requests |-> {}]
    /\ asked = [r \in Requests |-> None] /\ pc = [r \in Requests |-> "idle"]
    /\ answer = [r \in Requests |-> None] /\ session = [r \in Requests |-> None]
    /\ stale = {}

\* A request that is malformed (validate) or comes without a valid token: 400 or 401.
Reject(r, op) ==
    /\ Arrive(r, [op |-> op], "done") /\ Answer(r, "refused")
    /\ UNCHANGED <<users, session, stale>>

\* A statement fails, or hashing or signing does, before anything is written: 500.
Fail(r, ask) ==
    /\ Arrive(r, ask, "done") /\ Answer(r, "error")
    /\ UNCHANGED <<users, session, stale>>
-----------------------------------------------------------------------------
(* Register.                                                               *)

\* userExists: an address in use is refused with 409.
UserExists(r, e, p) ==
    /\ Arrive(r, ByAddress("register", e, p), "done") /\ InUse(e) /\ Answer(r, "refused")
    /\ UNCHANGED <<users, session, stale>>

\* It is free: the password is hashed, which takes its time.
UserIsNew(r, e, p) ==
    /\ Arrive(r, ByAddress("register", e, p), "insert") /\ ~InUse(e)
    /\ UNCHANGED <<users, answer, session, stale>>

InsertRow(r) ==
    /\ email' = [email EXCEPT ![r] = asked[r].email]
    /\ password' = [password EXCEPT ![r] = asked[r].password]
    /\ profile' = [profile EXCEPT ![r] = r]
    /\ had' = [had EXCEPT ![r] = {asked[r].password}]

\* Fault: the check is relied on, the table does not enforce it.
InsertUnchecked(r) ==
    /\ pc[r] = "insert"
    /\ Return(r, "created") /\ InsertRow(r) /\ session' = [session EXCEPT ![r] = r]
    /\ UNCHANGED stale

Insert(r) ==
    /\ pc[r] = "insert" /\ ~InUse(asked[r].email)
    /\ Return(r, "created") /\ InsertRow(r) /\ session' = [session EXCEPT ![r] = r]
    /\ UNCHANGED stale

\* Somebody else was faster (UNIQUE), or the statement failed: 500, nothing inserted.
InsertFails(r) ==
    /\ pc[r] = "insert" /\ Return(r, "error")
    /\ UNCHANGED <<users, session, stale>>

\* The row is there, but the reply was lost or the tokens could not be signed.
InsertedButFails(r) ==
    /\ pc[r] = "insert" /\ ~InUse(asked[r].email)
    /\ Return(r, "error") /\ InsertRow(r)
    /\ UNCHANGED <<session, stale>>
-----------------------------------------------------------------------------
(* Login, RefreshToken and the requests that carry an access token.        *)

Login(r, e, p) ==
    \E u \in Requests :
        /\ email[u] = e /\ password[u] = p
        /\ Arrive(r, ByAddress("login", e, p), "done") /\ Answer(r, "ok")
        /\ session' = [session EXCEPT ![r] = u]
        /\ UNCHANGED <<users, stale>>

LoginRefused(r, e, p) ==
    /\ ~Matches(e, p)
    /\ Arrive(r, ByAddress("login", e, p), "done") /\ Answer(r, "refused")
    /\ UNCHANGED <<users, session, stale>>

\* The pair of tokens q was answered with is shown; it has not expired.
Authenticated(q) == session[q] # None

RefreshToken(r, q) ==
    /\ Authenticated(q)
    /\ Arrive(r, ByToken("refresh", session[q]), "done") /\ Answer(r, "ok")
    /\ session' = [session EXCEPT ![r] = session[q]]
    /\ UNCHANGED <<users, stale>>

\* Its owner cannot be read, for whatever reason: "user not found", 401.
OwnerUnread(r, q) ==
    /\ Authenticated(q)
    /\ Arrive(r, ByToken("refresh", session[q]), "done") /\ Answer(r, "refused")
    /\ UNCHANGED <<users, session, stale>>

\* The names are written; the reply to the statement may be lost.
UpdateUser(r, q, status) ==
    /\ Authenticated(q)
    /\ Arrive(r, ByToken("rename", session[q]), "done") /\ Answer(r, status)
    /\ profile' = [profile EXCEPT ![session[q]] = r]
    /\ UNCHANGED <<email, password, had, session, stale>>
-----------------------------------------------------------------------------
(* ChangePassword.                                                         *)

\* The stored hash is read and does not match the password given: 401.
Mismatch(r, q, p, new) ==
    /\ Authenticated(q) /\ password[session[q]] # p
    /\ Arrive(r, Changing(session[q], p, new), "done") /\ Answer(r, "refused")
    /\ UNCHANGED <<users, session, stale>>

\* Fault: the current password is not compared.
CompareNothing(r, q, p, new) ==
    /\ Authenticated(q)
    /\ Arrive(r, Changing(session[q], p, new), "update")
    /\ UNCHANGED <<users, answer, session, stale>>

\* It matches: the new password is hashed.
Compare(r, q, p, new) ==
    /\ Authenticated(q) /\ password[session[q]] = p
    /\ Arrive(r, Changing(session[q], p, new), "update")
    /\ UNCHANGED <<users, answer, session, stale>>

Overtaken(r) ==
    {c \in Requests \ {r} : pc[c] = "update" /\ asked[c].user = asked[r].user}

\* Fault: a failure to hash goes unnoticed and the row is left without a hash.
UpdatePasswordBlank(r, status) ==
    /\ pc[r] = "update" /\ Return(r, status)
    /\ password' = [password EXCEPT ![asked[r].user] = None]
    /\ stale' = stale \cup Overtaken(r)
    /\ UNCHANGED <<email, profile, had, session>>

\* Whatever is stored by then is overwritten.
UpdatePassword(r, status) ==
    /\ pc[r] = "update" /\ Return(r, status)
    /\ password' = [password EXCEPT ![asked[r].user] = asked[r].new]
    /\ had' = [had EXCEPT ![asked[r].user] = @ \cup {asked[r].new}]
    /\ stale' = stale \cup Overtaken(r)
    /\ UNCHANGED <<email, profile, session>>

UpdateFails(r) ==
    /\ pc[r] = "update" /\ Return(r, "error")
    /\ UNCHANGED <<users, session, stale>>
-----------------------------------------------------------------------------
ByVisitor(r) ==
    \E e \in Emails, p \in Passwords :
        \/ UserExists(r, e, p) \/ UserIsNew(r, e, p) \/ Fail(r, ByAddress("register", e, p))
        \/ Login(r, e, p) \/ LoginRefused(r, e, p) \/ Fail(r, ByAddress("login", e, p))

ByUser(r) ==
    \E q \in Requests :
        \/ RefreshToken(r, q) \/ OwnerUnread(r, q) \/ UpdateUser(r, q, "ok") \/ UpdateUser(r, q, "error")
        \/ \E op \in {"refresh", "rename"} : Authenticated(q) /\ Fail(r, ByToken(op, session[q]))
        \/ \E p, new \in Passwords :
              \/ Mismatch(r, q, p, new) \/ Compare(r, q, p, new)
              \/ Authenticated(q) /\ Fail(r, Changing(session[q], p, new))

Next ==
    \E r \in Requests :
        \/ \E op \in Ops : Reject(r, op)
        \/ ByVisitor(r) \/ ByUser(r)
        \/ Insert(r) \/ InsertFails(r) \/ InsertedButFails(r)
        \/ UpdatePassword(r, "ok") \/ UpdatePassword(r, "error") \/ UpdateFails(r)

Spec == Init /\ [][Next]_vars
-----------------------------------------------------------------------------
Ask == [op : Ops]
       \cup [op : {"register", "login"}, email : Emails, password : Passwords]
       \cup [op : {"refresh", "rename"}, user : Requests]
       \cup [op : {"change"}, user : Requests, password : Passwords, new : Passwords]

\* Every variable has its type, and a row has all its columns.
TypeOK ==
    /\ email \in [Requests -> Emails \cup {None}]
    /\ password \in [Requests -> Passwords \cup {None}]
    /\ profile \in [Requests -> Requests \cup {None}]
    /\ asked \in [Requests -> Ask \cup {None}]
    /\ pc \in [Requests -> {"idle", "insert", "update", "done"}]
    /\ answer \in [Requests -> {"created", "ok", "refused", "error", None}]
    /\ session \in [Requests -> Requests \cup {None}]
    /\ had \in [Requests -> SUBSET Passwords]
    /\ stale \subseteq Requests
    /\ \A u \in Requests : email[u] = None <=> password[u] = None

\* A request is finished when it is answered.
Finished == [r \in Requests |-> IF pc[r] = "done" THEN <<asked[r], answer[r]>> ELSE None]

Promised == INSTANCE Credentials WITH done <- Finished

\* The service implements Credentials: registrations and changes of password, two statements
\* each with others in between, take effect as if they were one.
ImplementsCredentials == Promised!Spec

\* A change of password that no other change overtook replaces the very password its caller
\* has shown (service.go:236-267 compares with one statement and overwrites with another).
ChangeReplacesProved ==
    [][\A r \in Requests \ stale :
          pc[r] = "update" /\ password' # password /\ pc'[r] = "done"
             => password[asked[r].user] = asked[r].password]_vars
=============================================================================

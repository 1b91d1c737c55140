---------------------------- MODULE UserAccounts ----------------------------
(***************************************************************************)
(* services/user-service: the repository's operations on users and the two *)
(* token tables, and the RGPD service on top of it, which reads a row,     *)
(* changes the copy and writes the columns back. A handler is a goroutine  *)
(* that runs one operation after the other. A statement is atomic; the     *)
(* tables are as the repository's queries take them to be (README, 6).     *)
(* The address stands for all personal columns: they change together.      *)
(***************************************************************************)
EXTENDS FiniteSets

CONSTANTS Handlers, Users, Emails, Roles, Passwords, Tokens,
          Anonymous,   \* deleted-<id>@deleted.local and the names that go with it
          Mangled,     \* the address of a deleted row, <email>_deleted_<epoch>
          None

ASSUME UserConstants ==
    /\ {Anonymous, Mangled, None} \cap Emails = {} /\ Anonymous # Mangled
    /\ None \notin Handlers \cup Tokens

VARIABLES
    row,        \* the users table, None where there is no row
    token,      \* email_verification_tokens and password_reset_tokens, one row per user
    issued,     \* tokens that have been drawn: they are random and never drawn twice
    job,        \* what each handler is in the middle of, None when idle
    outdated    \* history: handlers whose copy of a row another statement has overtaken

vars == <<row, token, issued, job, outdated>>

Kinds == {"verification", "reset"}
Row   == [email : Emails \cup {Anonymous, Mangled}, password : Passwords,
          verified : BOOLEAN, roles : SUBSET Roles, deleted : BOOLEAN]
ASSUME NoneIsNoRow == None \notin Row

Job   == [op : {"consent", "erase"}, user : Users, seen : Row]
         \cup [op : {"grant", "revoke"}, user : Users, seen : Row, role : Roles]
         \cup [op : Kinds, user : Users, token : Tokens]

Live(u)     == row[u] # None /\ ~row[u].deleted
Taken(u, e) == \E v \in Users \ {u} : row[v] # None /\ row[v].email = e /\ e \in Emails

On(h, ops, u) == job[h] # None /\ job[h].op \in ops /\ job[h].user = u
\* SELECT ... FOR UPDATE keeps every other statement from writing the row until it commits.
Unlocked(u)   == \A h \in Handlers : ~On(h, {"grant", "revoke"}, u)

Start(h, j) == job[h] = None /\ job' = [job EXCEPT ![h] = j]
End(h)      == job' = [job EXCEPT ![h] = None]

Write(u, new) == row' = [row EXCEPT ![u] = new]
\* A statement has changed columns that copies of the row would write back.
Overtake(u, h) ==
    outdated' = (outdated \cup {q \in Handlers : On(q, {"consent", "erase"}, u)}) \ {h}

Init ==
    /\ row = [u \in Users |-> None] /\ token = [k \in Kinds |-> [u \in Users |-> None]]
    /\ issued = {} /\ job = [h \in Handlers |-> None] /\ outdated = {}
-----------------------------------------------------------------------------
(* Operations of one statement.                                            *)

\* Fault: nothing keeps addresses unique.
CreateUserTwice(u, e, p, rs) ==
    /\ row[u] = None
    /\ Write(u, [email |-> e, password |-> p, verified |-> FALSE, roles |-> rs, deleted |-> FALSE])
    /\ UNCHANGED <<token, issued, job, outdated>>

CreateUser(u, e, p, rs) ==
    /\ row[u] = None /\ ~Taken(u, e)
    /\ Write(u, [email |-> e, password |-> p, verified |-> FALSE, roles |-> rs, deleted |-> FALSE])
    /\ UNCHANGED <<token, issued, job, outdated>>

\* The soft delete.
DeleteUser(u) ==
    /\ Live(u) /\ Unlocked(u)
    /\ Write(u, [row[u] EXCEPT !.email = Mangled, !.deleted = TRUE])
    /\ Overtake(u, None)
    /\ UNCHANGED <<token, issued, job>>

UpdatePassword(u, p) ==
    /\ Live(u) /\ Unlocked(u)
    /\ Write(u, [row[u] EXCEPT !.password = p])
    /\ UNCHANGED <<token, issued, job, outdated>>

\* upsertToken: the user's token is replaced. A row of users must exist, deleted or not.
Upsert(k, u, t) == row[u] # None /\ token' = [token EXCEPT ![k][u] = t]

CreateEmailVerificationToken(u, t) ==
    /\ t \notin issued /\ issued' = issued \cup {t}
    /\ Upsert("verification", u, t)
    /\ UNCHANGED <<row, job, outdated>>

DeletePasswordResetToken(u) ==
    /\ token["reset"][u] # None /\ token' = [token EXCEPT !["reset"][u] = None]
    /\ UNCHANGED <<row, issued, job, outdated>>
-----------------------------------------------------------------------------
(* Operations of several statements. The context may end, or a statement   *)
(* fail, between any two: the transaction is rolled back.                  *)

Abort(h) ==
    /\ job[h] # None /\ End(h)
    /\ outdated' = outdated \ {h} /\ UNCHANGED <<row, token, issued>>

\* CreatePasswordResetToken: the user is looked up by address, then the token is stored.
ResetLookup(h, u, t) ==
    /\ Live(u) /\ t \notin issued /\ issued' = issued \cup {t}
    /\ Start(h, [op |-> "reset", user |-> u, token |-> t])
    /\ UNCHANGED <<row, token, outdated>>
ResetUpsert(h) ==
    /\ job[h] # None /\ job[h].op = "reset" /\ End(h)
    /\ Upsert("reset", job[h].user, job[h].token)
    /\ UNCHANGED <<row, issued, outdated>>

\* VerifyEmailToken: the token's user is selected; then the user is marked, the token deleted.
VerifySelect(h, u) ==
    /\ token["verification"][u] # None
    /\ Start(h, [op |-> "verification", user |-> u, token |-> token["verification"][u]])
    /\ UNCHANGED <<row, token, issued, outdated>>
VerifyCommit(h) ==
    /\ job[h] # None /\ job[h].op = "verification" /\ End(h)
    /\ LET u == job[h].user
       IN  /\ Live(u) /\ Unlocked(u)
           /\ Write(u, [row[u] EXCEPT !.verified = TRUE])
           /\ token' = [token EXCEPT !["verification"][u] = IF @ = job[h].token THEN None ELSE @]
           /\ Overtake(u, h)
    /\ UNCHANGED issued

\* Fault: the row is selected without FOR UPDATE.
LockRolesUnlocked(h, op, u, r) ==
    /\ Live(u)
    /\ Start(h, [op |-> op, user |-> u, seen |-> row[u], role |-> r])
    /\ UNCHANGED <<row, token, issued, outdated>>

\* withLockedRoles: the row is locked and its roles read; the changed roles are written.
LockRoles(h, op, u, r) ==
    /\ Live(u) /\ Unlocked(u)
    /\ Start(h, [op |-> op, user |-> u, seen |-> row[u], role |-> r])
    /\ UNCHANGED <<row, token, issued, outdated>>
CommitRoles(h) ==
    /\ job[h] # None /\ job[h].op \in {"grant", "revoke"} /\ End(h)
    /\ LET u == job[h].user
           r == {job[h].role}
       IN  /\ Live(u)
           /\ Write(u, [row[u] EXCEPT !.roles = IF job[h].op = "grant" THEN job[h].seen.roles \cup r
                                                ELSE job[h].seen.roles \ r])
           /\ Overtake(u, h)
    /\ UNCHANGED <<token, issued>>
-----------------------------------------------------------------------------
(* UpdateConsent and AnonymizeUser. Neither the consent columns nor the    *)
(* password nor deleted_at is among the columns UpdateUser writes.         *)

GetUserByID(h, op, u) ==
    /\ Live(u) /\ Start(h, [op |-> op, user |-> u, seen |-> row[u]])
    /\ UNCHANGED <<row, token, issued, outdated>>

Address(j) == IF j.op = "erase" THEN Anonymous ELSE j.seen.email

\* Fault: a row that was deleted in the meantime is written all the same.
UpdateUserDeleted(h) ==
    /\ job[h] # None /\ job[h].op \in {"consent", "erase"} /\ End(h)
    /\ LET j == job[h]
           u == j.user
       IN  /\ Unlocked(u) /\ ~Taken(u, Address(j))
           /\ Write(u, [row[u] EXCEPT !.email = Address(j), !.verified = j.seen.verified,
                                      !.roles = j.seen.roles])
           /\ Overtake(u, h)
    /\ UNCHANGED <<token, issued>>

UpdateUser(h) ==
    /\ job[h] # None /\ job[h].op \in {"consent", "erase"} /\ End(h)
    /\ LET j == job[h]
           u == j.user
       IN  /\ Live(u) /\ Unlocked(u) /\ ~Taken(u, Address(j))
           /\ Write(u, [row[u] EXCEPT !.email = Address(j), !.verified = j.seen.verified,
                                      !.roles = j.seen.roles])
           /\ Overtake(u, h)
    /\ UNCHANGED <<token, issued>>
-----------------------------------------------------------------------------
Statement ==
    \E u \in Users :
        \/ \E e \in Emails, p \in Passwords, rs \in SUBSET Roles : CreateUser(u, e, p, rs)
        \/ DeleteUser(u) \/ DeletePasswordResetToken(u)
        \/ \E p \in Passwords : UpdatePassword(u, p)
        \/ \E t \in Tokens : CreateEmailVerificationToken(u, t)

Begin(h) ==
    \E u \in Users :
        \/ VerifySelect(h, u) \/ \E t \in Tokens : ResetLookup(h, u, t)
        \/ \E op \in {"grant", "revoke"}, r \in Roles : LockRoles(h, op, u, r)
        \/ \E op \in {"consent", "erase"} : GetUserByID(h, op, u)

Next ==
    \/ Statement
    \/ \E h \in Handlers :
          \/ Begin(h) \/ Abort(h)
          \/ ResetUpsert(h) \/ VerifyCommit(h) \/ CommitRoles(h) \/ UpdateUser(h)

Spec == Init /\ [][Next]_vars
-----------------------------------------------------------------------------
\* Every variable has its type, and no address of a person is in two rows.
TypeOK ==
    /\ row \in [Users -> Row \cup {None}]
    /\ token \in [Kinds -> [Users -> Tokens \cup {None}]]
    /\ issued \subseteq Tokens
    /\ job \in [Handlers -> Job \cup {None}]
    /\ outdated \subseteq Handlers
    /\ \A u \in Users : row[u] # None => ~Taken(u, row[u].email)

\* What the row of job j should hold once j is done, given what it holds just before.
Meant(j, x) ==
    CASE j.op = "erase"   -> [x EXCEPT !.email = Anonymous]
      [] j.op = "grant"   -> [x EXCEPT !.roles = @ \cup {j.role}]
      [] j.op = "revoke"  -> [x EXCEPT !.roles = @ \ {j.role}]
      [] j.op = "verification" -> [x EXCEPT !.verified = TRUE]
      [] OTHER -> x

\* A job that ends has changed of its row what it was meant to change and nothing else: no
\* role, verification, erasure or password that was written meanwhile is lost
\* (user_repository.go:288-290), save by a write-back whose copy was overtaken.
LosesNothing ==
    [][\A h \in Handlers \ outdated :
          job[h] # None /\ job'[h] = None
             => row'[job[h].user] \in {row[job[h].user], Meant(job[h], row[job[h].user])}]_vars

\* A deleted row never changes again, whatever was under way when it was deleted.
FrozenOnceDeleted ==
    [][\A u \in Users : row[u] # None /\ ~Live(u) => row'[u] = row[u]]_vars
=============================================================================

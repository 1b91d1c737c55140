------------------------- MODULE UserAccountsProofs -------------------------
(***************************************************************************)
(* The users table for every number of handlers, users, addresses and      *)
(* roles. A copy is good until it is overtaken (GoodCopies), and the roles *)
(* a transaction has read are those of the row while it holds the lock     *)
(* (GoodLocks, OneLock): so what a job writes back besides its own change  *)
(* is what is there already.                                               *)
(***************************************************************************)
EXTENDS UserAccounts, TLAPS

USE UserConstants DEF UserConstants

WriteBack == {"consent", "erase"}
RoleChange == {"grant", "revoke"}

\* TypeOK says of rows that they are rows and their addresses unique.
Unique == \A u \in Users : row[u] # None => ~Taken(u, row[u].email)
Rows == row \in [Users -> Row \cup {None}] /\ Unique

\* What UpdateUser writes is in the row as it was read, unless the copy was overtaken.
GoodCopies ==
    \A h \in Handlers \ outdated : job[h] # None /\ job[h].op \in WriteBack =>
        LET x == row[job[h].user]
        IN  /\ Live(job[h].user)
            /\ x.email = job[h].seen.email /\ x.verified = job[h].seen.verified
            /\ x.roles = job[h].seen.roles

\* Under the lock, the roles are those that were read.
GoodLocks ==
    \A h \in Handlers : job[h] # None /\ job[h].op \in RoleChange =>
        Live(job[h].user) /\ row[job[h].user].roles = job[h].seen.roles

\* One transaction at a time holds the lock of a row.
OneLock ==
    \A g, h \in Handlers :
        /\ job[g] # None /\ job[g].op \in RoleChange
        /\ job[h] # None /\ job[h].op \in RoleChange
        /\ job[g].user = job[h].user
        => g = h

IInv == TypeOK /\ GoodCopies /\ GoodLocks /\ OneLock
-----------------------------------------------------------------------------
\* No row and no job at first.
LEMMA InvInit == Init => IInv
  BY DEF Init, IInv, TypeOK, GoodCopies, GoodLocks, OneLock, Kinds

\* Writing a row keeps addresses unique if the new address is free or nobody's.
LEMMA RowWritten ==
    ASSUME TypeOK, NEW u \in Users, NEW x \in Row, Write(u, x), ~Taken(u, x.email)
    PROVE  Rows'
  <1> USE DEF TypeOK, Write
  <1>1. row' \in [Users -> Row \cup {None}]
    OBVIOUS
  <1>2. ASSUME NEW v \in Users, row'[v] # None, NEW w \in Users \ {v},
               row'[w] # None, row'[w].email = row'[v].email, row'[v].email \in Emails
        PROVE  FALSE
    <2>1. CASE v = u
      <3>1. row[w] # None /\ row[w].email = x.email /\ x.email \in Emails
        BY <1>2, <2>1
      <3>2. QED
        BY <1>2, <2>1, <3>1 DEF Taken
    <2>2. CASE w = u
      <3>1. row[v] # None /\ row[v].email = x.email /\ x.email \in Emails
        BY <1>2, <2>2
      <3>2. QED
        BY <1>2, <2>2, <3>1 DEF Taken
    <2>3. CASE v # u /\ w # u
      <3>1. row'[v] = row[v] /\ row'[w] = row[w]
        BY <1>2, <2>3
      <3>2. Taken(v, row[v].email) /\ row[v] # None
        BY <1>2, <3>1 DEF Taken
      <3>3. QED
        BY <3>2 DEF TypeOK
    <2>4. QED
      BY <2>1, <2>2, <2>3
  <1>3. QED
    BY <1>1, <1>2 DEF Rows, Unique, Taken

\* The address of a row is not another's.
LEMMA OwnAddress ==
    ASSUME TypeOK, NEW u \in Users, row[u] # None
    PROVE  row[u] \in Row /\ ~Taken(u, row[u].email)
  BY DEF TypeOK

\* Each action keeps the types, and addresses unique.
LEMMA TypeStep == TypeOK /\ [Next]_vars => TypeOK'
  <1> SUFFICES ASSUME TypeOK, [Next]_vars PROVE TypeOK'
    OBVIOUS
  <1>0. ASSUME row' = row PROVE Rows'
    BY <1>0 DEF TypeOK, Rows, Unique, Taken
  <1>1. ASSUME NEW u \in Users, NEW e \in Emails, NEW p \in Passwords, NEW rs \in SUBSET Roles,
               CreateUser(u, e, p, rs)
        PROVE  TypeOK'
    <2> DEFINE x == [email |-> e, password |-> p, verified |-> FALSE, roles |-> rs, deleted |-> FALSE]
    <2>1. x \in Row /\ x.email = e
      BY DEF Row
    <2>2. Write(u, x) /\ ~Taken(u, x.email)
      BY <1>1, <2>1 DEF CreateUser
    <2>3. Rows'
      BY <2>1, <2>2, RowWritten
    <2>4. QED
      BY <1>1, <2>3 DEF CreateUser, TypeOK, Rows, Unique
  <1>2. ASSUME NEW u \in Users, DeleteUser(u) PROVE TypeOK'
    <2> DEFINE x == [row[u] EXCEPT !.email = Mangled, !.deleted = TRUE]
    <2>1. x \in Row /\ x.email = Mangled
      BY <1>2, OwnAddress DEF DeleteUser, Live, Row
    <2>2. Rows'
      BY <1>2, <2>1, RowWritten DEF DeleteUser, Taken
    <2>3. QED
      BY <1>2, <2>2 DEF DeleteUser, Overtake, TypeOK, Rows, Unique
  <1>3. ASSUME NEW u \in Users, NEW p \in Passwords, UpdatePassword(u, p) PROVE TypeOK'
    <2> DEFINE x == [row[u] EXCEPT !.password = p]
    <2>1. x \in Row /\ x.email = row[u].email /\ ~Taken(u, row[u].email)
      BY <1>3, OwnAddress DEF UpdatePassword, Live, Row
    <2>2. Rows'
      BY <1>3, <2>1, RowWritten DEF UpdatePassword
    <2>3. QED
      BY <1>3, <2>2 DEF UpdatePassword, TypeOK, Rows, Unique
  <1>4. ASSUME NEW u \in Users, NEW t \in Tokens, CreateEmailVerificationToken(u, t)
        PROVE  TypeOK'
    <2>1. token' \in [Kinds -> [Users -> Tokens \cup {None}]]
      BY <1>4 DEF CreateEmailVerificationToken, Upsert, TypeOK
    <2>2. QED
      BY <1>0, <1>4, <2>1 DEF CreateEmailVerificationToken, TypeOK, Rows, Unique
  <1>5. ASSUME NEW u \in Users, DeletePasswordResetToken(u) PROVE TypeOK'
    <2>1. token' \in [Kinds -> [Users -> Tokens \cup {None}]]
      BY <1>5 DEF DeletePasswordResetToken, TypeOK
    <2>2. QED
      BY <1>0, <1>5, <2>1 DEF DeletePasswordResetToken, TypeOK, Rows, Unique
  <1>6. ASSUME NEW h \in Handlers, Abort(h) PROVE TypeOK'
    BY <1>0, <1>6 DEF Abort, End, TypeOK, Rows, Unique
  <1>7. ASSUME NEW h \in Handlers, NEW u \in Users, NEW t \in Tokens, ResetLookup(h, u, t)
        PROVE  TypeOK'
    <2>1. [op |-> "reset", user |-> u, token |-> t] \in Job
      BY DEF Job, Kinds
    <2>2. QED
      BY <1>0, <1>7, <2>1 DEF ResetLookup, Start, TypeOK, Rows, Unique
  <1>8. ASSUME NEW h \in Handlers, ResetUpsert(h) PROVE TypeOK'
    <2>1. job[h].user \in Users /\ job[h].token \in Tokens
      BY <1>8 DEF ResetUpsert, TypeOK, Job, Kinds
    <2>2. token' \in [Kinds -> [Users -> Tokens \cup {None}]]
      BY <1>8, <2>1 DEF ResetUpsert, Upsert, TypeOK
    <2>3. QED
      BY <1>0, <1>8, <2>2 DEF ResetUpsert, End, TypeOK, Rows, Unique
  <1>9. ASSUME NEW h \in Handlers, NEW u \in Users, VerifySelect(h, u) PROVE TypeOK'
    <2>1. token["verification"][u] \in Tokens
      BY <1>9 DEF VerifySelect, TypeOK, Kinds
    <2>2. [op |-> "verification", user |-> u, token |-> token["verification"][u]] \in Job
      BY <2>1 DEF Job, Kinds
    <2>3. QED
      BY <1>0, <1>9, <2>2 DEF VerifySelect, Start, TypeOK, Rows, Unique
  <1>10. ASSUME NEW h \in Handlers, VerifyCommit(h) PROVE TypeOK'
    <2> DEFINE u == job[h].user
               x == [row[u] EXCEPT !.verified = TRUE]
    <2>1. u \in Users
      BY <1>10 DEF VerifyCommit, TypeOK, Job, Kinds
    <2>2. x \in Row /\ x.email = row[u].email /\ ~Taken(u, row[u].email)
      BY <1>10, <2>1, OwnAddress DEF VerifyCommit, Live, Row
    <2>3. Rows'
      BY <1>10, <2>1, <2>2, RowWritten DEF VerifyCommit
    <2>4. token' \in [Kinds -> [Users -> Tokens \cup {None}]]
      <3>1. token' = [token EXCEPT !["verification"][u] = None] \/ token' = token
        BY <1>10 DEF VerifyCommit, TypeOK, Kinds
      <3>2. QED
        BY <2>1, <3>1 DEF TypeOK
    <2>5. QED
      BY <1>10, <2>3, <2>4 DEF VerifyCommit, Overtake, End, TypeOK, Rows, Unique
  <1>11. ASSUME NEW h \in Handlers, NEW op \in {"grant", "revoke"}, NEW u \in Users, NEW r \in Roles,
                LockRoles(h, op, u, r)
         PROVE  TypeOK'
    <2>1. [op |-> op, user |-> u, seen |-> row[u], role |-> r] \in Job
      BY <1>11, OwnAddress DEF LockRoles, Live, Job
    <2>2. QED
      BY <1>0, <1>11, <2>1 DEF LockRoles, Start, TypeOK, Rows, Unique
  <1>12. ASSUME NEW h \in Handlers, CommitRoles(h) PROVE TypeOK'
    <2> DEFINE u == job[h].user
               rs == IF job[h].op = "grant" THEN job[h].seen.roles \cup {job[h].role}
                     ELSE job[h].seen.roles \ {job[h].role}
               x == [row[u] EXCEPT !.roles = rs]
    <2>1. u \in Users /\ rs \in SUBSET Roles
      BY <1>12 DEF CommitRoles, TypeOK, Job, Row, Kinds
    <2>2. x \in Row /\ x.email = row[u].email /\ ~Taken(u, row[u].email)
      BY <1>12, <2>1, OwnAddress DEF CommitRoles, Live, Row
    <2>3. Rows'
      BY <1>12, <2>1, <2>2, RowWritten DEF CommitRoles
    <2>4. QED
      BY <1>12, <2>3 DEF CommitRoles, Overtake, End, TypeOK, Rows, Unique
  <1>13. ASSUME NEW h \in Handlers, NEW op \in {"consent", "erase"}, NEW u \in Users,
                GetUserByID(h, op, u)
         PROVE  TypeOK'
    <2>1. [op |-> op, user |-> u, seen |-> row[u]] \in Job
      BY <1>13, OwnAddress DEF GetUserByID, Live, Job
    <2>2. QED
      BY <1>0, <1>13, <2>1 DEF GetUserByID, Start, TypeOK, Rows, Unique
  <1>14. ASSUME NEW h \in Handlers, UpdateUser(h) PROVE TypeOK'
    <2> DEFINE j == job[h]
               u == j.user
               x == [row[u] EXCEPT !.email = Address(j), !.verified = j.seen.verified,
                                   !.roles = j.seen.roles]
    <2>1. u \in Users /\ j.seen \in Row
      BY <1>14 DEF UpdateUser, TypeOK, Job, Kinds
    <2>2. Address(j) \in Emails \cup {Anonymous, Mangled}
      BY <2>1 DEF Address, Row
    <2>3. x \in Row /\ x.email = Address(j)
      BY <1>14, <2>1, <2>2, OwnAddress DEF UpdateUser, Live, Row
    <2>4. Rows'
      BY <1>14, <2>1, <2>3, RowWritten DEF UpdateUser
    <2>5. QED
      BY <1>14, <2>4 DEF UpdateUser, Overtake, End, TypeOK, Rows, Unique
  <1>15. CASE UNCHANGED vars
    BY <1>0, <1>15 DEF vars, TypeOK, Rows, Unique
  <1>16. QED
    BY <1>1, <1>2, <1>3, <1>4, <1>5, <1>6, <1>7, <1>8, <1>9, <1>10, <1>11, <1>12, <1>13, <1>14,
       <1>15 DEF Next, Statement, Begin
-----------------------------------------------------------------------------
\* A job in progress stays what it is, and is not forgotten to be outdated.
LEMMA JobStep ==
    ASSUME [Next]_vars, TypeOK, NEW h \in Handlers, job[h] # None, job'[h] # None
    PROVE  job'[h] = job[h] /\ (h \in outdated => h \in outdated')
  <1> USE DEF TypeOK
  <1>1. ASSUME NEW q \in Handlers, End(q) PROVE job'[h] = job[h] /\ h # q
    BY <1>1 DEF End
  <1>2. ASSUME NEW q \in Handlers, NEW j, Start(q, j) PROVE job'[h] = job[h]
    BY <1>2 DEF Start
  <1>3. CASE Statement
    BY <1>3 DEF Statement, CreateUser, DeleteUser, DeletePasswordResetToken, UpdatePassword,
                CreateEmailVerificationToken, Overtake
  <1>4. ASSUME NEW q \in Handlers, Begin(q) PROVE job'[h] = job[h] /\ outdated' = outdated
    BY <1>2, <1>4 DEF Begin, VerifySelect, ResetLookup, LockRoles, GetUserByID
  <1>5. ASSUME NEW q \in Handlers, Abort(q) \/ ResetUpsert(q)
        PROVE  job'[h] = job[h] /\ (h \in outdated => h \in outdated')
    BY <1>1, <1>5 DEF Abort, ResetUpsert
  <1>6. ASSUME NEW q \in Handlers, VerifyCommit(q) \/ CommitRoles(q) \/ UpdateUser(q)
        PROVE  job'[h] = job[h] /\ (h \in outdated => h \in outdated')
    BY <1>1, <1>6 DEF VerifyCommit, CommitRoles, UpdateUser, Overtake
  <1>7. CASE UNCHANGED vars
    BY <1>7 DEF vars
  <1>8. QED
    BY <1>3, <1>4, <1>5, <1>6, <1>7 DEF Next

\* How a row that exists is written: a live one, by its lock's holder or while there is none;
\* then every copy of it is overtaken, unless only the password changed.
LEMMA RowStep ==
    ASSUME [Next]_vars, TypeOK, NEW u \in Users, row[u] # None, row'[u] # row[u]
    PROVE  /\ Live(u)
           /\ \/ Unlocked(u)
              \/ \E q \in Handlers : On(q, RoleChange, u) /\ job'[q] = None
           /\ \/ \E p \in Passwords : row'[u] = [row[u] EXCEPT !.password = p]
              \/ \A h \in Handlers : On(h, WriteBack, u) /\ job'[h] # None => h \in outdated'
  <1> DEFINE Goal ==
        /\ Live(u)
        /\ \/ Unlocked(u)
           \/ \E q \in Handlers : On(q, RoleChange, u) /\ job'[q] = None
        /\ \/ \E p \in Passwords : row'[u] = [row[u] EXCEPT !.password = p]
           \/ \A h \in Handlers : On(h, WriteBack, u) /\ job'[h] # None => h \in outdated'
  <1> USE DEF TypeOK
  <1>1. ASSUME NEW v \in Users, NEW e \in Emails, NEW p \in Passwords, NEW rs \in SUBSET Roles,
               CreateUser(v, e, p, rs)
        PROVE  FALSE
    BY <1>1 DEF CreateUser, Write
  <1>2. ASSUME NEW v \in Users, DeleteUser(v) PROVE Goal
    <2>1. u = v
      BY <1>2 DEF DeleteUser, Write
    <2>2. Live(u) /\ Unlocked(u)
      BY <1>2, <2>1 DEF DeleteUser
    <2>3. \A h \in Handlers : On(h, WriteBack, u) => h \in outdated' \/ h = None
      BY <1>2, <2>1 DEF DeleteUser, Overtake, On, WriteBack
    <2>4. QED
      BY <2>2, <2>3
  <1>3. ASSUME NEW v \in Users, NEW p \in Passwords, UpdatePassword(v, p) PROVE Goal
    <2>1. u = v
      BY <1>3 DEF UpdatePassword, Write
    <2>2. QED
      BY <1>3, <2>1 DEF UpdatePassword, Write
  <1>4. ASSUME NEW q \in Handlers, VerifyCommit(q) \/ UpdateUser(q) PROVE Goal
    <2>1. u = job[q].user
      BY <1>4 DEF VerifyCommit, UpdateUser, Write
    <2>2. Live(u) /\ Unlocked(u)
      BY <1>4, <2>1 DEF VerifyCommit, UpdateUser
    <2>3. \A h \in Handlers : On(h, WriteBack, u) /\ h # q => h \in outdated'
      BY <1>4, <2>1 DEF VerifyCommit, UpdateUser, Overtake, On, WriteBack
    <2>4. job'[q] = None
      BY <1>4 DEF VerifyCommit, UpdateUser, End
    <2>5. QED
      BY <2>2, <2>3, <2>4
  <1>5. ASSUME NEW q \in Handlers, CommitRoles(q) PROVE Goal
    <2>1. u = job[q].user
      BY <1>5 DEF CommitRoles, Write
    <2>2. Live(u) /\ On(q, RoleChange, u)
      BY <1>5, <2>1 DEF CommitRoles, On, RoleChange
    <2>3. \A h \in Handlers : On(h, WriteBack, u) /\ h # q => h \in outdated'
      BY <1>5, <2>1 DEF CommitRoles, Overtake, On, WriteBack
    <2>4. job'[q] = None
      BY <1>5 DEF CommitRoles, End
    <2>5. QED
      BY <2>2, <2>3, <2>4
  <1>6. CASE row' = row
    BY <1>6
  <1>7. CASE Statement
    BY <1>1, <1>2, <1>3, <1>6, <1>7
       DEF Statement, CreateEmailVerificationToken, DeletePasswordResetToken
  <1>8. ASSUME NEW q \in Handlers, Begin(q) PROVE Goal
    BY <1>6, <1>8 DEF Begin, VerifySelect, ResetLookup, LockRoles, GetUserByID
  <1>9. ASSUME NEW q \in Handlers, Abort(q) \/ ResetUpsert(q) PROVE Goal
    BY <1>6, <1>9 DEF Abort, ResetUpsert
  <1>10. CASE UNCHANGED vars
    BY <1>6, <1>10 DEF vars
  <1>11. QED
    BY <1>4, <1>5, <1>7, <1>8, <1>9, <1>10 DEF Next
-----------------------------------------------------------------------------
\* Jobs of several statements begin with what is stored.
LEMMA BeginStep ==
    ASSUME [Next]_vars, TypeOK, NEW h \in Handlers, job[h] = None, job'[h] # None,
           job'[h].op \in WriteBack \cup RoleChange
    PROVE  /\ row' = row /\ job'[h].user \in Users
           /\ Live(job'[h].user) /\ job'[h].seen = row[job'[h].user]
           /\ job'[h].op \in RoleChange => Unlocked(job'[h].user)
  <1> DEFINE Goal == /\ row' = row /\ job'[h].user \in Users
                     /\ Live(job'[h].user) /\ job'[h].seen = row[job'[h].user]
                     /\ job'[h].op \in RoleChange => Unlocked(job'[h].user)
  <1> USE DEF TypeOK
  <1>1. ASSUME NEW q \in Handlers, NEW j, Start(q, j) PROVE q = h /\ job'[h] = j
    BY <1>1 DEF Start
  <1>2. ASSUME NEW q \in Handlers, End(q) PROVE FALSE
    BY <1>2 DEF End
  <1>3. CASE Statement
    BY <1>3 DEF Statement, CreateUser, DeleteUser, DeletePasswordResetToken, UpdatePassword,
                CreateEmailVerificationToken
  <1>4. ASSUME NEW q \in Handlers, NEW u \in Users, NEW op \in {"consent", "erase"},
               GetUserByID(q, op, u)
        PROVE  Goal
    <2>1. q = h /\ job'[h] = [op |-> op, user |-> u, seen |-> row[u]]
      BY <1>1, <1>4 DEF GetUserByID
    <2>2. QED
      BY <1>4, <2>1 DEF GetUserByID, RoleChange
  <1>5. ASSUME NEW q \in Handlers, NEW u \in Users, NEW op \in {"grant", "revoke"}, NEW r \in Roles,
               LockRoles(q, op, u, r)
        PROVE  Goal
    <2>1. q = h /\ job'[h] = [op |-> op, user |-> u, seen |-> row[u], role |-> r]
      BY <1>1, <1>5 DEF LockRoles
    <2>2. QED
      BY <1>5, <2>1 DEF LockRoles
  <1>6. ASSUME NEW q \in Handlers, NEW u \in Users, VerifySelect(q, u) PROVE FALSE
    <2>1. job'[h] = [op |-> "verification", user |-> u, token |-> token["verification"][u]]
      BY <1>1, <1>6 DEF VerifySelect
    <2>2. QED
      BY <2>1 DEF WriteBack, RoleChange
  <1>7. ASSUME NEW q \in Handlers, NEW u \in Users, NEW t \in Tokens, ResetLookup(q, u, t)
        PROVE  FALSE
    <2>1. job'[h] = [op |-> "reset", user |-> u, token |-> t]
      BY <1>1, <1>7 DEF ResetLookup
    <2>2. QED
      BY <2>1 DEF WriteBack, RoleChange
  <1>8. ASSUME NEW q \in Handlers,
               \/ Abort(q) \/ ResetUpsert(q) \/ VerifyCommit(q) \/ CommitRoles(q) \/ UpdateUser(q)
        PROVE  FALSE
    BY <1>2, <1>8 DEF Abort, ResetUpsert, VerifyCommit, CommitRoles, UpdateUser
  <1>9. CASE UNCHANGED vars
    BY <1>9 DEF vars
  <1>10. QED
    BY <1>3, <1>4, <1>5, <1>6, <1>7, <1>8, <1>9 DEF Next, Begin

\* One job begins at a time.
LEMMA OneBegins ==
    ASSUME [Next]_vars, TypeOK, NEW g \in Handlers, NEW h \in Handlers,
           job[g] = None, job'[g] # None, job[h] = None, job'[h] # None
    PROVE  g = h
  <1> USE DEF TypeOK
  <1>1. ASSUME NEW q \in Handlers, NEW j, Start(q, j) PROVE g = q /\ h = q
    BY <1>1 DEF Start
  <1>2. ASSUME NEW q \in Handlers, End(q) PROVE FALSE
    BY <1>2 DEF End
  <1>3. ASSUME Statement \/ UNCHANGED vars PROVE FALSE
    BY <1>3 DEF Statement, CreateUser, DeleteUser, DeletePasswordResetToken, UpdatePassword,
                CreateEmailVerificationToken, vars
  <1>4. ASSUME NEW q \in Handlers, Begin(q) PROVE g = h
    BY <1>1, <1>4 DEF Begin, VerifySelect, ResetLookup, LockRoles, GetUserByID
  <1>5. ASSUME NEW q \in Handlers,
               \/ Abort(q) \/ ResetUpsert(q) \/ VerifyCommit(q) \/ CommitRoles(q) \/ UpdateUser(q)
        PROVE  FALSE
    BY <1>2, <1>5 DEF Abort, ResetUpsert, VerifyCommit, CommitRoles, UpdateUser
  <1>6. QED
    BY <1>3, <1>4, <1>5 DEF Next

\* The user of such a job.
LEMMA JobUser ==
    ASSUME TypeOK, NEW h \in Handlers, job[h] # None, job[h].op \in WriteBack \cup RoleChange
    PROVE  job[h].user \in Users
  BY DEF TypeOK, Job, Kinds

\* A copy stays good until its row is written, and is overtaken then.
LEMMA CopiesStep == IInv /\ [Next]_vars => GoodCopies'
  <1> SUFFICES ASSUME IInv, [Next]_vars, NEW h \in Handlers, h \notin outdated',
                      job'[h] # None, job'[h].op \in WriteBack
               PROVE  LET u == job'[h].user
                      IN  /\ row'[u] # None /\ ~row'[u].deleted
                          /\ row'[u].email = job'[h].seen.email
                          /\ row'[u].verified = job'[h].seen.verified
                          /\ row'[u].roles = job'[h].seen.roles
    BY DEF GoodCopies, Live
  <1> DEFINE u == job'[h].user
  <1> USE DEF IInv
  <1>1. CASE job[h] = None
    BY <1>1, BeginStep DEF Live
  <1>2. CASE job[h] # None
    <2>1. job'[h] = job[h] /\ h \notin outdated
      BY <1>2, JobStep
    <2>2. /\ u \in Users /\ Live(u) /\ row[u].email = job[h].seen.email
          /\ row[u].verified = job[h].seen.verified /\ row[u].roles = job[h].seen.roles
      BY <1>2, <2>1, JobUser DEF GoodCopies
    <2>3. CASE row'[u] = row[u]
      BY <2>1, <2>2, <2>3 DEF Live
    <2>4. CASE row'[u] # row[u]
      <3>1. On(h, WriteBack, u)
        BY <1>2, <2>1 DEF On
      <3>2. PICK p \in Passwords : row'[u] = [row[u] EXCEPT !.password = p]
        BY <2>2, <2>4, <3>1, RowStep DEF Live
      <3>3. row[u] \in Row
        BY <2>2, OwnAddress DEF Live
      <3>4. /\ row'[u].email = row[u].email /\ row'[u].verified = row[u].verified
            /\ row'[u].roles = row[u].roles /\ row'[u].deleted = row[u].deleted
        BY <3>2, <3>3 DEF Row
      <3>5. row'[u] # None
        BY <3>2, <3>3, NoneIsNoRow DEF Row
      <3>6. QED
        BY <2>1, <2>2, <3>4, <3>5 DEF Live
    <2>5. QED
      BY <2>3, <2>4
  <1>3. QED
    BY <1>1, <1>2

\* Nobody else writes a row that is locked, nor locks it.
LEMMA LocksStep == IInv /\ [Next]_vars => GoodLocks' /\ OneLock'
  <1> SUFFICES ASSUME IInv, [Next]_vars PROVE GoodLocks' /\ OneLock'
    OBVIOUS
  <1> USE DEF IInv
  <1>1. ASSUME NEW h \in Handlers, job'[h] # None, job'[h].op \in RoleChange
        PROVE  LET u == job'[h].user
               IN  row'[u] # None /\ ~row'[u].deleted /\ row'[u].roles = job'[h].seen.roles
    <2> DEFINE u == job'[h].user
    <2>1. CASE job[h] = None
      BY <1>1, <2>1, BeginStep DEF Live
    <2>2. CASE job[h] # None
      <3>1. job'[h] = job[h]
        BY <1>1, <2>2, JobStep
      <3>2. u \in Users /\ Live(u) /\ row[u].roles = job[h].seen.roles /\ On(h, RoleChange, u)
        BY <1>1, <2>2, <3>1, JobUser DEF GoodLocks, On
      <3>3. ASSUME row'[u] # row[u] PROVE FALSE
        <4>1. Unlocked(u) \/ \E q \in Handlers : On(q, RoleChange, u) /\ job'[q] = None
          BY <3>2, <3>3, RowStep DEF Live
        <4>2. ~Unlocked(u)
          BY <3>2 DEF Unlocked, RoleChange
        <4>3. PICK q \in Handlers : On(q, RoleChange, u) /\ job'[q] = None
          BY <4>1, <4>2
        <4>4. q = h
          BY <3>2, <4>3 DEF OneLock, On
        <4>5. QED
          BY <1>1, <4>3, <4>4
      <3>4. QED
        BY <3>1, <3>2, <3>3 DEF Live
    <2>3. QED
      BY <2>1, <2>2
  <1>2. ASSUME NEW g \in Handlers, NEW h \in Handlers,
               job'[g] # None, job'[g].op \in RoleChange, job'[h] # None, job'[h].op \in RoleChange,
               job'[g].user = job'[h].user, g # h
        PROVE  FALSE
    <2>1. ASSUME NEW q \in Handlers, job'[q] # None, job'[q].op \in RoleChange
          PROVE  /\ job[q] = None => Unlocked(job'[q].user)
                 /\ job[q] # None => job[q] = job'[q] /\ On(q, RoleChange, job'[q].user)
      BY <2>1, BeginStep, JobStep DEF On
    <2>2. CASE job[g] = None /\ job[h] = None
      BY <1>2, <2>2, OneBegins
    <2>3. CASE job[g] = None /\ job[h] # None
      BY <1>2, <2>1, <2>3 DEF Unlocked, RoleChange
    <2>4. CASE job[g] # None /\ job[h] = None
      BY <1>2, <2>1, <2>4 DEF Unlocked, RoleChange
    <2>5. CASE job[g] # None /\ job[h] # None
      BY <1>2, <2>1, <2>5 DEF OneLock
    <2>6. QED
      BY <2>2, <2>3, <2>4, <2>5
  <1>3. QED
    BY <1>1, <1>2 DEF GoodLocks, OneLock, Live

\* IInv is inductive.
LEMMA InvStep == IInv /\ [Next]_vars => IInv'
  BY TypeStep, CopiesStep, LocksStep DEF IInv

\* The inductive invariant of the users table.
THEOREM Invariance == Spec => []IInv
  BY InvInit, InvStep, PTL DEF Spec

\* Every variable keeps its type, and no person's address is in two rows.
THEOREM TypeCorrect == Spec => []TypeOK
  BY Invariance, PTL DEF IInv
-----------------------------------------------------------------------------
\* Writing back what is there changes nothing.
LEMMA SameFields ==
    ASSUME NEW x \in Row, NEW e
    PROVE  /\ [x EXCEPT !.email = e, !.verified = x.verified, !.roles = x.roles]
                = [x EXCEPT !.email = e]
           /\ [x EXCEPT !.email = x.email] = x
  BY DEF Row

\* A job that ends has made its own change to the row, or none, unless its copy was overtaken.
LEMMA EndStep ==
    ASSUME IInv, [Next]_vars, NEW h \in Handlers \ outdated, job[h] # None, job'[h] = None
    PROVE  row'[job[h].user] \in {row[job[h].user], Meant(job[h], row[job[h].user])}
  <1> DEFINE u == job[h].user
             Goal == row'[u] \in {row[u], Meant(job[h], row[u])}
  <1> USE DEF IInv
  <1>1. ASSUME NEW q \in Handlers, End(q) PROVE q = h
    BY <1>1 DEF End, TypeOK
  <1>2. CASE row' = row
    BY <1>2
  <1>3. ASSUME NEW q \in Handlers, VerifyCommit(q) PROVE Goal
    <2>1. q = h /\ job[h].op = "verification" /\ u \in Users
      BY <1>1, <1>3 DEF VerifyCommit, TypeOK, Job, Kinds
    <2>2. row'[u] = [row[u] EXCEPT !.verified = TRUE]
      BY <1>3, <2>1 DEF VerifyCommit, Write, TypeOK
    <2>3. QED
      BY <2>1, <2>2 DEF Meant
  <1>4. ASSUME NEW q \in Handlers, CommitRoles(q) PROVE Goal
    <2>1. q = h /\ job[h].op \in RoleChange /\ u \in Users
      BY <1>1, <1>4 DEF CommitRoles, TypeOK, Job, Kinds, RoleChange
    <2>2. row[u].roles = job[h].seen.roles
      BY <2>1 DEF GoodLocks
    <2>3. row'[u] = [row[u] EXCEPT !.roles =
                        IF job[h].op = "grant" THEN row[u].roles \cup {job[h].role}
                        ELSE row[u].roles \ {job[h].role}]
      BY <1>4, <2>1, <2>2 DEF CommitRoles, Write, TypeOK
    <2>4. QED
      BY <2>1, <2>3 DEF Meant, RoleChange
  <1>5. ASSUME NEW q \in Handlers, UpdateUser(q) PROVE Goal
    <2>1. q = h /\ job[h].op \in WriteBack /\ u \in Users
      BY <1>1, <1>5 DEF UpdateUser, TypeOK, Job, Kinds, WriteBack
    <2>2. /\ row[u].email = job[h].seen.email /\ row[u].verified = job[h].seen.verified
          /\ row[u].roles = job[h].seen.roles
      BY <2>1 DEF GoodCopies
    <2>3. row[u] \in Row
      BY <1>5, <2>1, OwnAddress DEF UpdateUser, Live
    <2>4. row'[u] = [row[u] EXCEPT !.email = Address(job[h]), !.verified = row[u].verified,
                                   !.roles = row[u].roles]
      BY <1>5, <2>1, <2>2 DEF UpdateUser, Write, TypeOK
    <2>5. row'[u] = [row[u] EXCEPT !.email = Address(job[h])]
      BY <2>3, <2>4, SameFields
    <2>6. CASE job[h].op = "erase"
      BY <2>5, <2>6 DEF Address, Meant
    <2>7. CASE job[h].op # "erase"
      BY <2>2, <2>3, <2>5, <2>7, SameFields DEF Address
    <2>8. QED
      BY <2>6, <2>7
  <1>6. ASSUME Statement PROVE FALSE
    BY <1>6 DEF Statement, CreateUser, DeleteUser, DeletePasswordResetToken, UpdatePassword,
                CreateEmailVerificationToken
  <1>7. ASSUME NEW q \in Handlers, Begin(q) PROVE Goal
    BY <1>2, <1>7 DEF Begin, VerifySelect, ResetLookup, LockRoles, GetUserByID
  <1>8. ASSUME NEW q \in Handlers, Abort(q) \/ ResetUpsert(q) PROVE Goal
    BY <1>2, <1>8 DEF Abort, ResetUpsert
  <1>9. CASE UNCHANGED vars
    BY <1>2, <1>9 DEF vars
  <1>10. QED
    BY <1>3, <1>4, <1>5, <1>6, <1>7, <1>8, <1>9 DEF Next

\* For any number of handlers and users, only a write-back whose copy was overtaken changes more
\* than it was meant to.
THEOREM NothingIsLost == Spec => LosesNothing
  <1>1. IInv /\ [Next]_vars =>
            [\A h \in Handlers \ outdated :
                job[h] # None /\ job'[h] = None
                   => row'[job[h].user] \in {row[job[h].user], Meant(job[h], row[job[h].user])}]_vars
    BY EndStep
  <1>2. QED
    BY <1>1, Invariance, PTL DEF Spec, LosesNothing

\* A deleted row is final.
THEOREM DeletedIsFinal == Spec => FrozenOnceDeleted
  <1>1. IInv /\ [Next]_vars => [\A u \in Users : row[u] # None /\ ~Live(u) => row'[u] = row[u]]_vars
    BY RowStep DEF IInv
  <1>2. QED
    BY <1>1, Invariance, PTL DEF Spec, FrozenOnceDeleted
=============================================================================

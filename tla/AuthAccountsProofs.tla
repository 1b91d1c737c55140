------------------------- MODULE AuthAccountsProofs -------------------------
(***************************************************************************)
(* The auth service for every number of requests, addresses and passwords: *)
(* it implements Credentials. A registration takes effect at its INSERT    *)
(* and a change of password at its UPDATE; what each has read before is    *)
(* still true then, or still true enough: the address is free by the       *)
(* INSERT's own guard, and the password shown is one the account has had   *)
(* (InHand).                                                               *)
(***************************************************************************)
EXTENDS AuthAccounts, TLAPS

USE AccountConstants DEF AccountConstants

Registering == [op : {"register"}, email : Emails, password : Passwords]
ChangingOne == [op : {"change"}, user : Requests, password : Passwords, new : Passwords]

\* An account is opened by a request that is done then, and has had its password.
Opened ==
    \A u \in Requests : email[u] # None => pc[u] = "done" /\ password[u] \in had[u]

\* Tokens are for accounts that exist.
ForAccounts == \A r \in Requests : session[r] # None => email[session[r]] # None

\* What a request between its two statements has in hand.
InHand ==
    \A r \in Requests :
        /\ pc[r] = "insert" => asked[r] \in Registering
        /\ pc[r] = "update" => /\ asked[r] \in ChangingOne
                               /\ email[asked[r].user] # None
                               /\ asked[r].password \in had[asked[r].user]

\* The comparison of a change still holds, unless another change overtook it.
StillMatches ==
    \A r \in Requests \ stale :
        pc[r] = "update" => password[asked[r].user] = asked[r].password

IInv == TypeOK /\ Opened /\ ForAccounts /\ InHand /\ StillMatches
-----------------------------------------------------------------------------
\* No account and no request at first.
LEMMA InvInit == Init => IInv
  BY DEF Init, IInv, TypeOK, Opened, ForAccounts, InHand, StillMatches

\* A request that is answered at once leaves all invariants, if it does not touch the accounts.
LEMMA AtOnce ==
    ASSUME IInv, NEW r \in Requests, NEW ask \in Ask, NEW status \in {"ok", "refused", "error"},
           Arrive(r, ask, "done"), Answer(r, status), UNCHANGED <<users, stale>>,
           session' = session \/ \E u \in Requests : email[u] # None /\ session' = [session EXCEPT ![r] = u]
    PROVE  IInv'
  <1> USE DEF IInv, Arrive, Answer, users
  <1>1. TypeOK'
    BY DEF TypeOK
  <1>2. Opened'
    BY DEF Opened, TypeOK
  <1>3. ForAccounts'
    BY DEF ForAccounts, TypeOK
  <1>4. InHand'
    BY DEF InHand, TypeOK
  <1>5. StillMatches'
    BY DEF StillMatches, TypeOK
  <1>6. QED
    BY <1>1, <1>2, <1>3, <1>4, <1>5

\* A request that stops after its first statement.
LEMMA OnTheWay ==
    ASSUME IInv, NEW r \in Requests, NEW ask, NEW label, Arrive(r, ask, label),
           UNCHANGED <<users, answer, session, stale>>,
           \/ label = "insert" /\ ask \in Registering
           \/ label = "update" /\ ask \in ChangingOne /\ email[ask.user] # None
              /\ password[ask.user] = ask.password
    PROVE  IInv'
  <1> USE DEF IInv, Arrive, users
  <1>0. ask \in Ask
    BY DEF Ask, Registering, ChangingOne
  <1>1. TypeOK'
    BY <1>0 DEF TypeOK
  <1>2. Opened'
    BY DEF Opened, TypeOK
  <1>3. ForAccounts'
    BY DEF ForAccounts, TypeOK
  <1>4. InHand'
    BY DEF InHand, Opened, TypeOK, ChangingOne
  <1>5. StillMatches'
    BY DEF StillMatches, TypeOK
  <1>6. QED
    BY <1>1, <1>2, <1>3, <1>4, <1>5

\* A request that ends after its second statement, without effect.
LEMMA InVain ==
    ASSUME IInv, NEW r \in Requests, Return(r, "error"), UNCHANGED <<users, session, stale>>
    PROVE  IInv'
  <1> USE DEF IInv, Return, Answer, users
  <1>1. TypeOK'
    BY DEF TypeOK
  <1>2. Opened' /\ ForAccounts'
    BY DEF Opened, ForAccounts, TypeOK
  <1>3. InHand' /\ StillMatches'
    BY DEF InHand, StillMatches, TypeOK
  <1>4. QED
    BY <1>1, <1>2, <1>3

\* The INSERT.
LEMMA Inserted ==
    ASSUME IInv, NEW r \in Requests, NEW status \in {"created", "error"},
           pc[r] = "insert", Return(r, status), InsertRow(r), UNCHANGED stale,
           session' = session \/ session' = [session EXCEPT ![r] = r]
    PROVE  IInv'
  <1> USE DEF IInv, Return, Answer, InsertRow
  <1>1. asked[r] \in Registering /\ asked[r].email \in Emails /\ asked[r].password \in Passwords
    BY DEF InHand, Registering
  <1>2. email[r] = None
    BY DEF Opened
  <1>3. TypeOK'
    BY <1>1 DEF TypeOK
  <1>4. Opened'
    BY <1>1 DEF Opened, TypeOK
  <1>5. ForAccounts'
    BY <1>1 DEF ForAccounts, TypeOK
  <1>6. InHand'
    BY <1>2 DEF InHand, TypeOK, ChangingOne
  <1>7. StillMatches'
    BY <1>2 DEF StillMatches, InHand, TypeOK, ChangingOne
  <1>8. QED
    BY <1>3, <1>4, <1>5, <1>6, <1>7

\* The UPDATE of a password.
LEMMA Updated ==
    ASSUME IInv, NEW r \in Requests, NEW status \in {"ok", "error"}, UpdatePassword(r, status)
    PROVE  IInv'
  <1> USE DEF IInv, Return, Answer, UpdatePassword
  <1> DEFINE u == asked[r].user
  <1>1. u \in Requests /\ asked[r].new \in Passwords /\ email[u] # None
    BY DEF InHand, ChangingOne
  <1>2. TypeOK'
    BY <1>1 DEF TypeOK, Overtaken
  <1>3. Opened' /\ ForAccounts'
    BY <1>1 DEF Opened, ForAccounts, TypeOK
  <1>4. InHand'
    BY <1>1 DEF InHand, TypeOK, ChangingOne
  <1>5. StillMatches'
    BY <1>1 DEF StillMatches, InHand, TypeOK, ChangingOne, Overtaken
  <1>6. QED
    BY <1>2, <1>3, <1>4, <1>5

\* The UPDATE of the names.
LEMMA Renamed ==
    ASSUME IInv, NEW r \in Requests, NEW q \in Requests, NEW status \in {"ok", "error"},
           UpdateUser(r, q, status)
    PROVE  IInv'
  <1> USE DEF IInv, Arrive, Answer, UpdateUser, Authenticated
  <1>1. session[q] \in Requests /\ ByToken("rename", session[q]) \in Ask
    BY DEF TypeOK, Ask, ByToken
  <1>2. TypeOK'
    BY <1>1 DEF TypeOK
  <1>3. Opened' /\ ForAccounts'
    BY DEF Opened, ForAccounts, TypeOK
  <1>4. InHand' /\ StillMatches'
    BY DEF InHand, StillMatches, TypeOK
  <1>5. QED
    BY <1>2, <1>3, <1>4

\* A matching address or a token belongs to an account that exists.
LEMMA Exists ==
    ASSUME IInv, NEW q \in Requests, Authenticated(q)
    PROVE  session[q] \in Requests /\ email[session[q]] # None
  BY DEF IInv, TypeOK, ForAccounts, Authenticated

\* Every step keeps the invariants.
LEMMA InvStep == IInv /\ [Next]_vars => IInv'
  <1> SUFFICES ASSUME IInv, [Next]_vars PROVE IInv'
    OBVIOUS
  <1>a. ASSUME NEW r \in Requests, NEW ask \in Ask, Fail(r, ask) PROVE IInv'
    BY <1>a, AtOnce DEF Fail
  <1>1. ASSUME NEW r \in Requests, NEW op \in Ops, Reject(r, op) PROVE IInv'
    <2>1. [op |-> op] \in Ask
      BY DEF Ask
    <2>2. QED
      BY <1>1, <2>1, AtOnce DEF Reject
  <1>2. ASSUME NEW r \in Requests, ByVisitor(r) PROVE IInv'
    <2>0. PICK e \in Emails, p \in Passwords :
            \/ UserExists(r, e, p) \/ UserIsNew(r, e, p) \/ Fail(r, ByAddress("register", e, p))
            \/ Login(r, e, p) \/ LoginRefused(r, e, p) \/ Fail(r, ByAddress("login", e, p))
      BY <1>2 DEF ByVisitor
    <2>1. /\ ByAddress("register", e, p) \in Ask \cap Registering
          /\ ByAddress("login", e, p) \in Ask
      BY DEF ByAddress, Ask, Registering
    <2>2. CASE UserExists(r, e, p)
      BY <2>1, <2>2, AtOnce DEF UserExists
    <2>3. CASE UserIsNew(r, e, p)
      BY <2>1, <2>3, OnTheWay DEF UserIsNew
    <2>4. CASE Login(r, e, p)
      <3>1. PICK u \in Requests :
              email[u] = e /\ session' = [session EXCEPT ![r] = u]
        BY <2>4 DEF Login
      <3>2. email[u] # None
        BY <3>1
      <3>3. Arrive(r, ByAddress("login", e, p), "done") /\ Answer(r, "ok") /\ UNCHANGED <<users, stale>>
        BY <2>4 DEF Login
      <3>4. QED
        BY <2>1, <3>1, <3>2, <3>3, AtOnce
    <2>5. CASE LoginRefused(r, e, p)
      BY <2>1, <2>5, AtOnce DEF LoginRefused
    <2>6. QED
      BY <1>a, <2>0, <2>1, <2>2, <2>3, <2>4, <2>5
  <1>3. ASSUME NEW r \in Requests, ByUser(r) PROVE IInv'
    <2>0. PICK q \in Requests :
            \/ RefreshToken(r, q) \/ OwnerUnread(r, q) \/ UpdateUser(r, q, "ok") \/ UpdateUser(r, q, "error")
            \/ \E op \in {"refresh", "rename"} : Authenticated(q) /\ Fail(r, ByToken(op, session[q]))
            \/ \E p, new \in Passwords :
                  \/ Mismatch(r, q, p, new) \/ Compare(r, q, p, new)
                  \/ Authenticated(q) /\ Fail(r, Changing(session[q], p, new))
      BY <1>3 DEF ByUser
    <2>1. Authenticated(q)
      BY <2>0 DEF RefreshToken, OwnerUnread, UpdateUser, Mismatch, Compare
    <2>2. session[q] \in Requests /\ email[session[q]] # None
      BY <2>1, Exists
    <2>3. \A op \in {"refresh", "rename"} : ByToken(op, session[q]) \in Ask
      BY <2>2 DEF ByToken, Ask
    <2>4. \A p, new \in Passwords : Changing(session[q], p, new) \in Ask \cap ChangingOne
      BY <2>2 DEF Changing, Ask, ChangingOne
    <2>5. CASE RefreshToken(r, q)
      BY <2>2, <2>3, <2>5, AtOnce DEF RefreshToken
    <2>6. CASE OwnerUnread(r, q)
      BY <2>3, <2>6, AtOnce DEF OwnerUnread
    <2>7. CASE UpdateUser(r, q, "ok") \/ UpdateUser(r, q, "error")
      BY <2>7, Renamed
    <2>8. CASE \E op \in {"refresh", "rename"} : Fail(r, ByToken(op, session[q]))
      BY <1>a, <2>3, <2>8
    <2>9. ASSUME NEW p \in Passwords, NEW new \in Passwords,
                 Mismatch(r, q, p, new) \/ Compare(r, q, p, new) \/ Fail(r, Changing(session[q], p, new))
          PROVE  IInv'
      <3>1. CASE Mismatch(r, q, p, new)
        BY <2>4, <3>1, AtOnce DEF Mismatch
      <3>2. CASE Compare(r, q, p, new)
        <4> DEFINE ask == Changing(session[q], p, new)
        <4>1. ask.user = session[q] /\ ask.password = p
          BY DEF Changing
        <4>2. ask \in ChangingOne
          BY <2>4
        <4>3. Arrive(r, ask, "update") /\ UNCHANGED <<users, answer, session, stale>>
              /\ password[session[q]] = p
          BY <3>2 DEF Compare
        <4> HIDE DEF ask
        <4>4. QED
          BY <2>2, <4>1, <4>2, <4>3, OnTheWay
      <3>3. QED
        BY <1>a, <2>4, <2>9, <3>1, <3>2
    <2>10. QED
      BY <2>0, <2>5, <2>6, <2>7, <2>8, <2>9
  <1>4. ASSUME NEW r \in Requests, Insert(r) PROVE IInv'
    BY <1>4, Inserted DEF Insert
  <1>5. ASSUME NEW r \in Requests, InsertFails(r) \/ UpdateFails(r) PROVE IInv'
    BY <1>5, InVain DEF InsertFails, UpdateFails
  <1>6. ASSUME NEW r \in Requests, InsertedButFails(r) PROVE IInv'
    BY <1>6, Inserted DEF InsertedButFails
  <1>7. CASE UNCHANGED vars
    BY <1>7 DEF vars, IInv, TypeOK, Opened, ForAccounts, InHand, StillMatches
  <1>8. QED
    BY <1>1, <1>2, <1>3, <1>4, <1>5, <1>6, <1>7, Updated DEF Next

\* The auth service keeps its invariants, whatever the order of the statements.
THEOREM Invariance == Spec => []IInv
  BY InvInit, InvStep, PTL DEF Spec

\* Every variable keeps its type, and a row has all its columns or none.
THEOREM TypeCorrect == Spec => []TypeOK
  <1>1. IInv => TypeOK
    BY DEF IInv
  <1>2. QED
    BY <1>1, Invariance, PTL
-----------------------------------------------------------------------------
(* A change of password replaces the password that was shown.              *)

\* A step that takes a request from "update" to its end, and writes, is its own UPDATE.
LEMMA ChangeStep ==
    ASSUME IInv, [Next]_vars, NEW r \in Requests \ stale,
           pc[r] = "update", password' # password, pc'[r] = "done"
    PROVE  password[asked[r].user] = asked[r].password
  BY DEF IInv, StillMatches

\* A change that no other overtook replaces the password its caller has shown.
THEOREM ChangeReplacesWhatWasShown == Spec => ChangeReplacesProved
  <1>1. IInv /\ [Next]_vars =>
          [\A r \in Requests \ stale :
             pc[r] = "update" /\ password' # password /\ pc'[r] = "done"
               => password[asked[r].user] = asked[r].password]_vars
    BY ChangeStep
  <1>2. QED
    BY <1>1, Invariance, PTL DEF Spec, ChangeReplacesProved
-----------------------------------------------------------------------------
(* The service implements Credentials. A step that answers a request is    *)
(* the step Credentials takes for it; a step on the way changes nothing.   *)

Same == UNCHANGED Promised!vars

\* A request that is answered at once finishes with what it asked and was answered.
LEMMA FinishedAtOnce ==
    ASSUME IInv, NEW r \in Requests, NEW ask, NEW status, Arrive(r, ask, "done"), Answer(r, status)
    PROVE  Promised!Finish(r, ask, status)
  BY DEF IInv, TypeOK, Arrive, Answer, Finished, Promised!Finish

\* So does one that ends with its second statement.
LEMMA FinishedByReturn ==
    ASSUME IInv, NEW r \in Requests, NEW status, pc[r] # "done", Return(r, status)
    PROVE  Promised!Finish(r, asked[r], status)
  BY DEF IInv, TypeOK, Return, Answer, Finished, Promised!Finish

\* One that stops on its way has not finished.
LEMMA NotFinished ==
    ASSUME IInv, NEW r \in Requests, NEW ask, NEW label, label # "done",
           Arrive(r, ask, label), UNCHANGED answer
    PROVE  Finished' = Finished
  BY DEF IInv, TypeOK, Arrive, Finished

\* A request that is refused or fails at once, and leaves the accounts alone.
LEMMA LeavesAlone ==
    ASSUME IInv, NEW r \in Requests, NEW ask, NEW status,
           Arrive(r, ask, "done"), Answer(r, status), UNCHANGED users
    PROVE  Promised!Unchanged(r, ask, status)
  BY FinishedAtOnce DEF Promised!Unchanged, users

\* Each action of the service is a step of Credentials or leaves it alone.
LEMMA PromisedStep == IInv /\ [Next]_vars => [Promised!Next]_(Promised!vars)
  <1> SUFFICES ASSUME IInv, [Next]_vars PROVE Promised!Next \/ Same
    BY DEF Same
  <1>1. ASSUME NEW r \in Requests, NEW op \in Ops, Reject(r, op) PROVE Promised!Next
    <2>1. Promised!Unchanged(r, [op |-> op], "refused")
      BY <1>1, LeavesAlone DEF Reject
    <2>2. QED
      BY <2>1 DEF Promised!Next, Ops
  <1>2. ASSUME NEW r \in Requests, NEW e \in Emails, NEW p \in Passwords,
               \/ UserExists(r, e, p) \/ UserIsNew(r, e, p) \/ Fail(r, ByAddress("register", e, p))
               \/ Login(r, e, p) \/ LoginRefused(r, e, p) \/ Fail(r, ByAddress("login", e, p))
        PROVE  Promised!Next \/ Same
    <2>1. CASE UserExists(r, e, p)
      <3>1. Promised!Unchanged(r, ByAddress("register", e, p), "refused")
        BY <2>1, LeavesAlone DEF UserExists
      <3>2. \E u \in Requests : email[u] = e
        BY <2>1 DEF UserExists, InUse
      <3>3. Promised!Register(r, e, p)
        BY <3>1, <3>2 DEF Promised!Register, ByAddress
      <3>4. QED
        BY <3>3 DEF Promised!Next
    <2>2. CASE UserIsNew(r, e, p)
      BY <2>2, NotFinished DEF UserIsNew, users, Same, Promised!vars
    <2>3. CASE Fail(r, ByAddress("register", e, p))
      <3>1. Promised!Unchanged(r, ByAddress("register", e, p), "error")
        BY <2>3, LeavesAlone DEF Fail
      <3>2. Promised!Register(r, e, p)
        BY <3>1 DEF Promised!Register, ByAddress
      <3>3. QED
        BY <3>2 DEF Promised!Next
    <2>4. CASE Login(r, e, p)
      <3>1. Promised!Unchanged(r, ByAddress("login", e, p), "ok")
        BY <2>4, LeavesAlone DEF Login
      <3>2. Promised!Matches(e, p)
        BY <2>4 DEF Login, Promised!Matches
      <3>3. Promised!LogIn(r, e, p)
        BY <3>1, <3>2 DEF Promised!LogIn, ByAddress
      <3>4. QED
        BY <3>3 DEF Promised!Next
    <2>5. CASE LoginRefused(r, e, p)
      <3>1. Promised!Unchanged(r, ByAddress("login", e, p), "refused")
        BY <2>5, LeavesAlone DEF LoginRefused
      <3>2. ~Promised!Matches(e, p)
        BY <2>5 DEF LoginRefused, Matches, Promised!Matches
      <3>3. Promised!LogIn(r, e, p)
        BY <3>1, <3>2 DEF Promised!LogIn, ByAddress
      <3>4. QED
        BY <3>3 DEF Promised!Next
    <2>6. CASE Fail(r, ByAddress("login", e, p))
      <3>1. Promised!Unchanged(r, ByAddress("login", e, p), "error")
        BY <2>6, LeavesAlone DEF Fail
      <3>2. Promised!LogIn(r, e, p)
        BY <3>1 DEF Promised!LogIn, ByAddress
      <3>3. QED
        BY <3>2 DEF Promised!Next
    <2>7. QED
      BY <1>2, <2>1, <2>2, <2>3, <2>4, <2>5, <2>6
  <1>3. ASSUME NEW r \in Requests, NEW q \in Requests, Authenticated(q),
               \/ RefreshToken(r, q) \/ OwnerUnread(r, q) \/ Fail(r, ByToken("refresh", session[q]))
               \/ UpdateUser(r, q, "ok") \/ UpdateUser(r, q, "error")
               \/ Fail(r, ByToken("rename", session[q]))
        PROVE  Promised!Next
    <2> DEFINE u == session[q]
    <2>0. u \in Requests /\ email[u] # None
      BY <1>3, Exists
    <2>1. CASE RefreshToken(r, q)
      <3>1. Promised!Unchanged(r, ByToken("refresh", u), "ok")
        BY <2>1, LeavesAlone DEF RefreshToken
      <3>2. Promised!Prolong(r, u)
        BY <2>0, <3>1 DEF Promised!Prolong, ByToken
      <3>3. QED
        BY <2>0, <3>2 DEF Promised!Next
    <2>2. CASE OwnerUnread(r, q)
      <3>1. Promised!Unchanged(r, ByToken("refresh", u), "refused")
        BY <2>2, LeavesAlone DEF OwnerUnread
      <3>2. Promised!Prolong(r, u)
        BY <3>1 DEF Promised!Prolong, ByToken
      <3>3. QED
        BY <2>0, <3>2 DEF Promised!Next
    <2>3. CASE Fail(r, ByToken("refresh", u))
      <3>1. Promised!Unchanged(r, ByToken("refresh", u), "error")
        BY <2>3, LeavesAlone DEF Fail
      <3>2. Promised!Prolong(r, u)
        BY <3>1 DEF Promised!Prolong, ByToken
      <3>3. QED
        BY <2>0, <3>2 DEF Promised!Next
    <2>4. ASSUME NEW status \in {"ok", "error"}, UpdateUser(r, q, status)
          PROVE  Promised!Rename(r, u, status)
      <3>1. Promised!Finish(r, ByToken("rename", u), status)
        BY <2>4, FinishedAtOnce DEF UpdateUser
      <3>2. QED
        BY <2>0, <2>4, <3>1 DEF UpdateUser, ByToken, Promised!Rename
    <2>5. CASE Fail(r, ByToken("rename", u))
      <3>1. Promised!Unchanged(r, [op |-> "rename", user |-> u], "error")
        BY <2>5, LeavesAlone DEF Fail, ByToken
      <3>2. QED
        BY <2>0, <3>1 DEF Promised!Next
    <2>6. CASE UpdateUser(r, q, "ok") \/ UpdateUser(r, q, "error")
      BY <2>0, <2>4, <2>6 DEF Promised!Next
    <2>7. QED
      BY <1>3, <2>1, <2>2, <2>3, <2>5, <2>6
  <1>4. ASSUME NEW r \in Requests, NEW q \in Requests, Authenticated(q),
               NEW p \in Passwords, NEW new \in Passwords,
               Mismatch(r, q, p, new) \/ Compare(r, q, p, new) \/ Fail(r, Changing(session[q], p, new))
        PROVE  Promised!Next \/ Same
    <2> DEFINE u == session[q]
    <2>0. u \in Requests
      BY <1>4, Exists
    <2>1. CASE Mismatch(r, q, p, new)
      <3>1. Promised!Unchanged(r, Changing(u, p, new), "refused") /\ password[u] # p
        BY <2>1, LeavesAlone DEF Mismatch
      <3>2. Promised!Change(r, u, p, new)
        BY <3>1 DEF Promised!Change, Changing
      <3>3. QED
        BY <2>0, <3>2 DEF Promised!Next
    <2>2. CASE Compare(r, q, p, new)
      BY <2>2, NotFinished DEF Compare, users, Same, Promised!vars
    <2>3. CASE Fail(r, Changing(u, p, new))
      <3>1. Promised!Unchanged(r, Changing(u, p, new), "error")
        BY <2>3, LeavesAlone DEF Fail
      <3>2. Promised!Change(r, u, p, new)
        BY <3>1 DEF Promised!Change, Changing
      <3>3. QED
        BY <2>0, <3>2 DEF Promised!Next
    <2>4. QED
      BY <1>4, <2>1, <2>2, <2>3
  <1>5. ASSUME NEW r \in Requests, ByVisitor(r) PROVE Promised!Next \/ Same
    BY <1>2, <1>5 DEF ByVisitor
  <1>6. ASSUME NEW r \in Requests, ByUser(r) PROVE Promised!Next \/ Same
    <2>1. PICK q \in Requests :
            \/ RefreshToken(r, q) \/ OwnerUnread(r, q) \/ UpdateUser(r, q, "ok") \/ UpdateUser(r, q, "error")
            \/ \E op \in {"refresh", "rename"} : Authenticated(q) /\ Fail(r, ByToken(op, session[q]))
            \/ \E p, new \in Passwords :
                  \/ Mismatch(r, q, p, new) \/ Compare(r, q, p, new)
                  \/ Authenticated(q) /\ Fail(r, Changing(session[q], p, new))
      BY <1>6 DEF ByUser
    <2>2. Authenticated(q)
      BY <2>1 DEF RefreshToken, OwnerUnread, UpdateUser, Mismatch, Compare
    <2>3. QED
      BY <1>3, <1>4, <2>1, <2>2
  <1>7. ASSUME NEW r \in Requests, NEW status \in {"created", "error"},
               pc[r] = "insert", ~InUse(asked[r].email), Return(r, status), InsertRow(r)
        PROVE  Promised!Next
    <2> DEFINE e == asked[r].email
               p == asked[r].password
    <2>1. /\ e \in Emails /\ p \in Passwords
          /\ asked[r] = [op |-> "register", email |-> e, password |-> p]
      BY <1>7 DEF IInv, InHand, Registering
    <2>2. Promised!Finish(r, asked[r], status)
      BY <1>7, FinishedByReturn
    <2>3. Promised!Open(r, e, p, status)
      BY <1>7, <2>1, <2>2 DEF Promised!Open, InUse, InsertRow
    <2>4. QED
      BY <2>1, <2>3 DEF Promised!Next
  <1>8. ASSUME NEW r \in Requests, InsertFails(r) PROVE Promised!Next
    <2> DEFINE e == asked[r].email
               p == asked[r].password
    <2>1. /\ e \in Emails /\ p \in Passwords
          /\ asked[r] = [op |-> "register", email |-> e, password |-> p]
      BY <1>8 DEF InsertFails, IInv, InHand, Registering
    <2>2. Promised!Unchanged(r, asked[r], "error")
      BY <1>8, FinishedByReturn DEF InsertFails, users, Promised!Unchanged
    <2>3. Promised!Register(r, e, p)
      BY <2>1, <2>2 DEF Promised!Register
    <2>4. QED
      BY <2>1, <2>3 DEF Promised!Next
  <1>9. ASSUME NEW r \in Requests, pc[r] = "update"
        PROVE  /\ asked[r].user \in Requests
               /\ asked[r].password \in Passwords /\ asked[r].new \in Passwords
               /\ asked[r].password \in had[asked[r].user]
               /\ asked[r] = [op |-> "change", user |-> asked[r].user,
                              password |-> asked[r].password, new |-> asked[r].new]
    BY <1>9 DEF IInv, InHand, ChangingOne
  <1>10. ASSUME NEW r \in Requests, NEW status \in {"ok", "error"}, UpdatePassword(r, status)
         PROVE  Promised!Next
    <2>1. Promised!Finish(r, asked[r], status)
      BY <1>10, FinishedByReturn DEF UpdatePassword
    <2>2. Promised!Replace(r, asked[r].user, asked[r].password, asked[r].new, status)
      BY <1>9, <1>10, <2>1 DEF UpdatePassword, Promised!Replace
    <2>3. pc[r] = "update"
      BY <1>10 DEF UpdatePassword
    <2>4. \E u \in Requests, p, new \in Passwords : Promised!Replace(r, u, p, new, status)
      BY <1>9, <2>2, <2>3
    <2>5. QED
      BY <2>4 DEF Promised!Next
  <1>11. ASSUME NEW r \in Requests, UpdateFails(r) PROVE Promised!Next
    <2>1. Promised!Unchanged(r, asked[r], "error")
      BY <1>11, FinishedByReturn DEF UpdateFails, users, Promised!Unchanged
    <2>2. Promised!Change(r, asked[r].user, asked[r].password, asked[r].new)
      BY <1>9, <1>11, <2>1 DEF UpdateFails, Promised!Change
    <2>3. QED
      BY <1>9, <1>11, <2>2 DEF UpdateFails, Promised!Next
  <1>12. CASE UNCHANGED vars
    BY <1>12 DEF vars, Same, Promised!vars, Finished
  <1>13. QED
    BY <1>1, <1>5, <1>6, <1>7, <1>8, <1>10, <1>11, <1>12 DEF Next, Insert, InsertedButFails

\* The auth service implements Credentials, for every instance.
THEOREM ServiceImplementsCredentials == Spec => ImplementsCredentials
  <1>1. Init => Promised!Init
    BY DEF Init, Finished, Promised!Init
  <1>2. QED
    BY <1>1, PromisedStep, Invariance, PTL DEF Spec, ImplementsCredentials, Promised!Spec
=============================================================================

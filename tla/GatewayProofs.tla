---------------------------- MODULE GatewayProofs ----------------------------
(***************************************************************************)
(* The gateway process: its sessions (RefreshTokens), for every number of  *)
(* requests, tokens and users, and its health flags (HealthGate), for      *)
(* every number of upstreams and handlers.                                 *)
(*                                                                         *)
(* A token's history hangs on the request that issued it and the token     *)
(* that request presented, neither of which changes once the token exists  *)
(* (Presented, lemma Kept). The properties of rotation then follow from    *)
(* what each request has done to its token by the time it issues another   *)
(* (RevokedPast, MarkedPast, SparedPast) and from who got past the lookup  *)
(* (PastOnce).                                                             *)
(*                                                                         *)
(* What the gate decides on is never older than the round before the       *)
(* current one. That argument goes upstream by upstream: a flag that was   *)
(* stored in this round, or that no probe is about to replace, is recent;  *)
(* one that waits for its probe was recent when the round began.           *)
(***************************************************************************)
EXTENDS RefreshTokens, HealthGate, TLAPS

USE TokenConstants DEF TokenConstants

\* A request presents an issued token of its own user, a token was issued by a request that
\* is done, and a request issues one token at most.
Presented ==
    /\ \A r \in Requests : tok[r] # None => tok[r] \in Issued /\ user[r] = Owner(tok[r])
    /\ \A r \in Requests : At(r, "idle") => tok[r] = None
    /\ \A r \in Requests : pc[r] \notin {"idle", "issue", "done"} => tok[r] # None
    /\ \A t \in Issued : pc[by[t]] = "done"
    /\ \A s, t \in Issued : by[s] = by[t] => s = t

\* A request past Revoke has left its token dead.
RevokedPast == \A r \in Requests : pc[r] \in {"mark", "issue"} => tok[r] \notin Live

\* A request past MarkConsumed has left its token's hash behind, until the token expires.
MarkedPast ==
    \A r \in Requests : At(r, "issue") /\ tok[r] \notin expired \cup {None} => tok[r] \in consumed

\* Only the sweep removes tokens, and only expired ones.
NotSwept == Issued \ expired \subseteq stored

\* A request whose token was condemned under its hands is remembered.
SparedPast == \A r \in Requests : Past(r) /\ tok[r] \in condemned => r \in spared

\* The requests that found their token live, or have issued a token in its place.
Through(r) == Past(r) \/ \E s \in Issued : by[s] = r

\* One request per token gets that far, unless the lookups of two overlapped.
PastOnce ==
    \A r, q \in Requests :
        r # q /\ Through(r) /\ Through(q) /\ tok[r] = tok[q] => tok[r] \in doubled \cup {None}

IInv == /\ TypeOK
        /\ Presented
        /\ RevokedPast
        /\ ReplacedIsDead
        /\ MarkedPast
        /\ NotSwept
        /\ ReuseDetectable
        /\ SparedPast
        /\ ReuseEndsSessions
        /\ RevokedForCause
        /\ PastOnce
-----------------------------------------------------------------------------
\* Nothing is issued at first.
LEMMA InvInit == Init => IInv
  <1> SUFFICES ASSUME Init PROVE IInv
    OBVIOUS
  <1>1. Issued = {}
    BY DEF Init, Issued
  <1>2. TypeOK
    BY <1>1 DEF Init, TypeOK, Labels
  <1>3. Presented /\ RevokedPast /\ ReplacedIsDead /\ MarkedPast /\ NotSwept
    BY <1>1 DEF Init, Presented, RevokedPast, ReplacedIsDead, MarkedPast, NotSwept, Live, At
  <1>4. ReuseDetectable /\ SparedPast /\ ReuseEndsSessions /\ RevokedForCause /\ PastOnce
    BY <1>1 DEF Init, ReuseDetectable, SparedPast, ReuseEndsSessions, RevokedForCause,
                PastOnce, Through, Past, Live
  <1>5. QED
    BY <1>2, <1>3, <1>4 DEF IInv

\* Each action keeps the types.
LEMMA TypeStep == TypeOK /\ Presented /\ [Next]_vars => TypeOK'
  <1> SUFFICES ASSUME TypeOK, Presented, [Next]_vars PROVE TypeOK'
    OBVIOUS
  <1> USE DEF TypeOK, Issued, At, Goto, Labels, request, store, history
  <1>1. ASSUME NEW r \in Requests, NEW u \in Users, Login(r, u) PROVE TypeOK'
    BY <1>1 DEF Login
  <1>2. ASSUME NEW r \in Requests, NEW t \in Tokens, Refresh(r, t) \/ Logout(r, t) PROVE TypeOK'
    BY <1>2 DEF Refresh, Logout, Present, Owner
  <1>3. ASSUME NEW r \in Requests, IsConsumed(r) \/ FindOwner(r) PROVE TypeOK'
    BY <1>3 DEF IsConsumed, FindOwner
  <1>4. ASSUME NEW r \in Requests, RevokeAllForUser(r) PROVE TypeOK'
    BY <1>4 DEF RevokeAllForUser, Condemn
  <1>5. ASSUME NEW r \in Requests, FindByTokenHash(r) PROVE TypeOK'
    BY <1>5 DEF FindByTokenHash, Live
  <1>6. ASSUME NEW r \in Requests, Revoke(r) \/ MarkConsumed(r) PROVE TypeOK'
    BY <1>6 DEF Revoke, MarkConsumed, Presented
  <1>7. ASSUME NEW r \in Requests, NEW t \in Tokens, Issue(r, t) PROVE TypeOK'
    BY <1>7 DEF Issue
  <1>8. ASSUME NEW r \in Requests, IssueFails(r) PROVE TypeOK'
    BY <1>8 DEF IssueFails
  <1>9. ASSUME NEW t \in Tokens, Expire(t) PROVE TypeOK'
    BY <1>9 DEF Expire
  <1>10. CASE DeleteExpired
    BY <1>10 DEF DeleteExpired
  <1>11. CASE UNCHANGED vars
    BY <1>11 DEF vars
  <1>12. QED
    BY <1>1, <1>2, <1>3, <1>4, <1>5, <1>6, <1>7, <1>8, <1>9, <1>10, <1>11 DEF Next, Step
-----------------------------------------------------------------------------
\* What a step leaves as it was: who issued a token, to whom, and in place of which token;
\* what a request in progress is about; and that no token comes back to life.
LEMMA Kept ==
    ASSUME TypeOK, Presented, [Next]_vars
    PROVE  /\ \A t \in Issued : /\ t \in Issued' /\ by'[t] = by[t]
                                /\ Owner(t)' = Owner(t) /\ Parent(t)' = Parent(t)
                                /\ t \in Live' => t \in Live
           /\ \A r \in Requests : pc[r] # "idle" => tok'[r] = tok[r] /\ user'[r] = user[r]
           /\ expired \subseteq expired' /\ condemned \subseteq condemned'
           /\ spared \subseteq spared' /\ doubled \subseteq doubled'
  <1> DEFINE Goal ==
        /\ \A t \in Issued : /\ t \in Issued' /\ by'[t] = by[t]
                             /\ Owner(t)' = Owner(t) /\ Parent(t)' = Parent(t)
                             /\ t \in Live' => t \in Live
        /\ \A r \in Requests : pc[r] # "idle" => tok'[r] = tok[r] /\ user'[r] = user[r]
        /\ expired \subseteq expired' /\ condemned \subseteq condemned'
        /\ spared \subseteq spared' /\ doubled \subseteq doubled'
  <1>0. \A t \in Issued : by[t] \in Requests /\ pc[by[t]] = "done"
    BY DEF TypeOK, Issued, Presented
  <1> USE DEF TypeOK, Issued, Owner, Parent, Live, At, Goto, request, store, history
  <1>1. ASSUME NEW r \in Requests, NEW u \in Users, Login(r, u) PROVE Goal
    BY <1>0, <1>1 DEF Login
  <1>2. ASSUME NEW r \in Requests, NEW t \in Tokens, Refresh(r, t) \/ Logout(r, t) PROVE Goal
    BY <1>0, <1>2 DEF Refresh, Logout, Present
  <1>3. ASSUME NEW r \in Requests, IsConsumed(r) \/ FindOwner(r) PROVE Goal
    BY <1>3 DEF IsConsumed, FindOwner
  <1>4. ASSUME NEW r \in Requests, RevokeAllForUser(r) PROVE Goal
    BY <1>4 DEF RevokeAllForUser, Condemn
  <1>5. ASSUME NEW r \in Requests, FindByTokenHash(r) PROVE Goal
    BY <1>5 DEF FindByTokenHash
  <1>6. ASSUME NEW r \in Requests, Revoke(r) \/ MarkConsumed(r) PROVE Goal
    BY <1>6 DEF Revoke, MarkConsumed
  <1>7. ASSUME NEW r \in Requests, NEW t \in Tokens, Issue(r, t) PROVE Goal
    BY <1>0, <1>7 DEF Issue
  <1>8. ASSUME NEW r \in Requests, IssueFails(r) PROVE Goal
    BY <1>8 DEF IssueFails
  <1>9. ASSUME NEW t \in Tokens, Expire(t) PROVE Goal
    BY <1>9 DEF Expire
  <1>10. CASE DeleteExpired
    BY <1>10 DEF DeleteExpired
  <1>11. CASE UNCHANGED vars
    BY <1>11 DEF vars
  <1>12. QED
    BY <1>1, <1>2, <1>3, <1>4, <1>5, <1>6, <1>7, <1>8, <1>9, <1>10, <1>11 DEF Next, Step

\* A request presents a token that keeps its owner, and issues one token at most.
LEMMA PresentedStep == TypeOK /\ Presented /\ [Next]_vars => Presented'
  <1> SUFFICES ASSUME TypeOK, Presented, [Next]_vars PROVE Presented'
    OBVIOUS
  <1>0. \A t \in Issued : by[t] \in Requests /\ pc[by[t]] = "done"
    BY DEF TypeOK, Issued, Presented
  <1> USE DEF TypeOK, Presented, Issued, Owner, At, Goto, request, store, history
  <1>1. ASSUME NEW r \in Requests, NEW u \in Users, Login(r, u) PROVE Presented'
    BY <1>0, <1>1 DEF Login
  <1>2. ASSUME NEW r \in Requests, NEW t \in Tokens, Refresh(r, t) \/ Logout(r, t)
        PROVE  Presented'
    BY <1>0, <1>2 DEF Refresh, Logout, Present
  <1>3. ASSUME NEW r \in Requests, IsConsumed(r) \/ FindOwner(r) PROVE Presented'
    BY <1>3 DEF IsConsumed, FindOwner
  <1>4. ASSUME NEW r \in Requests, RevokeAllForUser(r) PROVE Presented'
    BY <1>4 DEF RevokeAllForUser
  <1>5. ASSUME NEW r \in Requests, FindByTokenHash(r) PROVE Presented'
    BY <1>5 DEF FindByTokenHash
  <1>6. ASSUME NEW r \in Requests, Revoke(r) \/ MarkConsumed(r) PROVE Presented'
    BY <1>6 DEF Revoke, MarkConsumed
  <1>7. ASSUME NEW r \in Requests, NEW t \in Tokens, Issue(r, t) PROVE Presented'
    BY <1>0, <1>7 DEF Issue
  <1>8. ASSUME NEW r \in Requests, IssueFails(r) PROVE Presented'
    BY <1>8 DEF IssueFails
  <1>9. CASE DeleteExpired \/ \E t \in Tokens : Expire(t)
    BY <1>9 DEF DeleteExpired, Expire
  <1>10. CASE UNCHANGED vars
    BY <1>10 DEF vars
  <1>11. QED
    BY <1>1, <1>2, <1>3, <1>4, <1>5, <1>6, <1>7, <1>8, <1>9, <1>10 DEF Next, Step

\* A request moves by a step of its handler or by starting, and only Issue issues a token.
LEMMA RequestMoves ==
    ASSUME TypeOK, Presented, [Next]_vars
    PROVE  /\ \A r \in Requests :
                \/ pc'[r] = pc[r]
                \/ Step(r)
                \/ /\ At(r, "idle")
                   /\ pc'[r] \in {"check", "find"} \/ (pc'[r] = "issue" /\ tok'[r] = None)
           /\ \A s \in Issued' \ Issued : \E r \in Requests : Issue(r, s)
  <1> DEFINE Start(r) == /\ At(r, "idle")
                         /\ pc'[r] \in {"check", "find"} \/ (pc'[r] = "issue" /\ tok'[r] = None)
  <1>1. \A r \in Requests : pc'[r] = pc[r] \/ Step(r) \/ Start(r)
    <2> SUFFICES ASSUME NEW r \in Requests, pc'[r] # pc[r] PROVE Step(r) \/ Start(r)
      OBVIOUS
    <2>1. ASSUME NEW q \in Requests, Step(q) PROVE q = r
      <3>1. PICK label : Goto(q, label)
        BY <2>1 DEF Step, IsConsumed, FindOwner, RevokeAllForUser, FindByTokenHash, Revoke,
                    MarkConsumed, Issue, IssueFails
      <3>2. QED
        BY <3>1 DEF Goto, TypeOK
    <2>2. ASSUME NEW q \in Requests, NEW u \in Users, Login(q, u) PROVE Start(r)
      BY <2>2 DEF Login, Goto, At, TypeOK, Presented
    <2>3. ASSUME NEW q \in Requests, NEW t \in Tokens, Refresh(q, t) \/ Logout(q, t)
          PROVE  Start(r)
      BY <2>3 DEF Refresh, Logout, Present, Goto, At, TypeOK
    <2>4. ~UNCHANGED pc
      OBVIOUS
    <2>5. QED
      BY <2>1, <2>2, <2>3, <2>4 DEF Next, Expire, DeleteExpired, vars
  <1>2. ASSUME NEW s \in Issued' \ Issued PROVE \E r \in Requests : Issue(r, s)
    <2>1. by' # by
      BY DEF Issued
    <2>2. PICK r \in Requests, t \in Tokens : Issue(r, t)
      BY <2>1 DEF Next, Step, Login, Refresh, Logout, Present, IsConsumed, FindOwner,
                  RevokeAllForUser, FindByTokenHash, Revoke, MarkConsumed, IssueFails, Expire,
                  DeleteExpired, vars
    <2>3. s = t
      BY <2>2 DEF Issue, Issued, TypeOK
    <2>4. QED
      BY <2>2, <2>3
  <1>3. QED
    BY <1>1, <1>2
-----------------------------------------------------------------------------
(* Rotation.                                                               *)

\* Revoke is what lets a request go on, and what is dead stays dead.
LEMMA RotationStep ==
    TypeOK /\ Presented /\ RevokedPast /\ ReplacedIsDead /\ [Next]_vars
        => (RevokedPast /\ ReplacedIsDead)'
  <1> SUFFICES ASSUME TypeOK, Presented, RevokedPast, ReplacedIsDead, [Next]_vars
               PROVE  RevokedPast' /\ ReplacedIsDead'
    OBVIOUS
  <1>0. /\ \A t \in Issued : Parent(t)' = Parent(t) /\ (t \in Live' => t \in Live)
        /\ \A r \in Requests : pc[r] # "idle" => tok'[r] = tok[r]
    BY Kept
  <1>1. \A r \in Requests : tok[r] = None \/ tok[r] \in Issued
    BY DEF Presented
  <1>2. None \notin Live'
    BY TypeStep DEF Live, TypeOK, Issued
  <1>3. \A r \in Requests : pc'[r] \in {"mark", "issue"} =>
            \/ pc[r] \in {"mark", "issue"}
            \/ pc[r] = "idle" /\ tok'[r] = None
            \/ Revoke(r)
    <2> SUFFICES ASSUME NEW r \in Requests, pc'[r] \in {"mark", "issue"},
                        pc[r] \notin {"mark", "issue"}
                 PROVE  (pc[r] = "idle" /\ tok'[r] = None) \/ Revoke(r)
      OBVIOUS
    <2>1. CASE Step(r)
      BY <2>1 DEF Step, IsConsumed, FindOwner, RevokeAllForUser, FindByTokenHash, MarkConsumed,
                  Issue, IssueFails, At, Goto, TypeOK
    <2>2. QED
      BY <2>1, RequestMoves DEF At
  <1>4. \A r \in Requests : Revoke(r) => tok'[r] \notin Live'
    BY DEF Revoke, Live, store, history, request
  <1>5. RevokedPast'
    BY <1>0, <1>1, <1>2, <1>3, <1>4 DEF RevokedPast
  <1>6. ASSUME NEW s \in Issued' PROVE Parent(s)' \notin Live'
    <2>1. CASE s \in Issued
      <3>1. Parent(s) = None \/ Parent(s) \in Issued
        BY <1>1, <2>1 DEF Parent, Issued, TypeOK
      <3>2. QED
        BY <1>0, <1>2, <2>1, <3>1 DEF ReplacedIsDead
    <2>2. CASE s \notin Issued
      <3>1. PICK r \in Requests : Issue(r, s)
        BY <2>2, RequestMoves
      <3>2. Parent(s)' = tok[r] /\ tok[r] \notin Live
        BY <3>1, s \in Tokens DEF Issue, Parent, RevokedPast, At, request, TypeOK, Issued
      <3>3. QED
        BY <1>0, <1>1, <1>2, <3>2
    <2>3. QED
      BY <2>1, <2>2
  <1>7. QED
    BY <1>5, <1>6 DEF ReplacedIsDead
-----------------------------------------------------------------------------
(* Detection of reuse.                                                     *)

\* The hash of a replaced token stays, and so does the token, until it expires.
LEMMA DetectionStep ==
    TypeOK /\ Presented /\ MarkedPast /\ NotSwept /\ ReuseDetectable /\ [Next]_vars
        => (MarkedPast /\ NotSwept /\ ReuseDetectable)'
  <1> SUFFICES ASSUME TypeOK, Presented, MarkedPast, NotSwept, ReuseDetectable, [Next]_vars
               PROVE  MarkedPast' /\ NotSwept' /\ ReuseDetectable'
    OBVIOUS
  <1>0. /\ \A t \in Issued : t \in Issued' /\ Parent(t)' = Parent(t)
        /\ \A r \in Requests : pc[r] # "idle" => tok'[r] = tok[r]
        /\ expired \subseteq expired'
    BY Kept
  <1>1. \A r \in Requests : tok[r] = None \/ tok[r] \in Issued
    BY DEF Presented
  <1>2. consumed \ expired' \subseteq consumed' /\ stored \ expired' \subseteq stored'
    <2>1. ASSUME NEW r \in Requests, Step(r)
          PROVE  consumed \subseteq consumed' /\ stored \subseteq stored'
      BY <2>1 DEF Step, IsConsumed, FindOwner, RevokeAllForUser, FindByTokenHash, Revoke,
                  MarkConsumed, Issue, IssueFails, store
    <2>2. CASE DeleteExpired \/ (\E t \in Tokens : Expire(t)) \/ UNCHANGED vars
      BY <2>2 DEF DeleteExpired, Expire, store, vars
    <2>3. ASSUME NEW r \in Requests, NEW u \in Users, Login(r, u)
          PROVE  consumed \subseteq consumed' /\ stored \subseteq stored'
      BY <2>3 DEF Login, store
    <2>4. ASSUME NEW r \in Requests, NEW t \in Tokens, Refresh(r, t) \/ Logout(r, t)
          PROVE  consumed \subseteq consumed' /\ stored \subseteq stored'
      BY <2>4 DEF Refresh, Logout, Present, store
    <2>5. QED
      BY <2>1, <2>2, <2>3, <2>4 DEF Next
  <1>3. NotSwept'
    <2> SUFFICES ASSUME NEW t \in Issued', t \notin expired' PROVE t \in stored'
      BY DEF NotSwept
    <2>1. CASE t \in Issued
      BY <1>0, <1>2, <2>1 DEF NotSwept
    <2>2. CASE t \notin Issued
      BY <2>2, RequestMoves DEF Issue
    <2>3. QED
      BY <2>1, <2>2
  <1>4. ASSUME NEW r \in Requests, pc'[r] = "issue", tok'[r] \notin expired' \cup {None}
        PROVE  tok'[r] \in consumed'
    <2>1. CASE pc[r] = "issue"
      BY <1>0, <1>2, <1>4, <2>1 DEF MarkedPast, At
    <2>2. CASE pc[r] # "issue" /\ Step(r)
      <3>1. MarkConsumed(r)
        BY <1>4, <2>2 DEF Step, IsConsumed, FindOwner, RevokeAllForUser, FindByTokenHash,
                          Revoke, Issue, IssueFails, At, Goto, TypeOK
      <3>2. QED
        BY <3>1 DEF MarkConsumed, request
    <2>3. QED
      BY <1>4, <2>1, <2>2, RequestMoves DEF At
  <1>5. ASSUME NEW s \in Issued', Parent(s)' \notin expired' \cup {None}
        PROVE  Parent(s)' \in consumed' \cap stored'
    <2>1. CASE s \in Issued
      BY <1>0, <1>2, <1>5, <2>1 DEF ReuseDetectable
    <2>2. CASE s \notin Issued
      <3>1. PICK r \in Requests : Issue(r, s)
        BY <2>2, RequestMoves
      <3>2. Parent(s)' = tok[r] /\ At(r, "issue") /\ expired' = expired
        BY <3>1, s \in Tokens DEF Issue, Parent, request, history, TypeOK, Issued
      <3>3. tok[r] \in consumed /\ tok[r] \in stored
        BY <1>1, <1>5, <3>2 DEF MarkedPast, NotSwept
      <3>4. QED
        BY <1>2, <1>5, <3>2, <3>3
    <2>3. QED
      BY <2>1, <2>2
  <1>6. QED
    BY <1>3, <1>4, <1>5 DEF MarkedPast, ReuseDetectable, At
-----------------------------------------------------------------------------
(* The end of a user's sessions.                                           *)

\* The steps but RevokeAllForUser condemn nothing.
LEMMA Condemning ==
    ASSUME [Next]_vars
    PROVE  (\E q \in Requests : RevokeAllForUser(q)) \/ UNCHANGED <<condemned, spared>>
  BY DEF Next, Step, Login, Refresh, Logout, Present, IsConsumed, FindOwner, FindByTokenHash,
         Revoke, MarkConsumed, Issue, IssueFails, Expire, DeleteExpired, history, vars

\* A request gets past the lookup by a lookup, or as a login.
LEMMA EntersPast ==
    ASSUME TypeOK, Presented, [Next]_vars, NEW r \in Requests, Past(r)'
    PROVE  \/ Past(r) /\ tok'[r] = tok[r]
           \/ FindByTokenHash(r) /\ tok[r] \in Live /\ tok'[r] = tok[r]
           \/ tok'[r] = None
  <1>1. CASE Past(r)
    BY <1>1, Kept DEF Past
  <1>2. CASE ~Past(r) /\ Step(r)
    <2>1. FindByTokenHash(r)
      BY <1>2 DEF Step, Past, IsConsumed, FindOwner, RevokeAllForUser, Revoke, MarkConsumed,
                  Issue, IssueFails, At, Goto, TypeOK
    <2>2. QED
      BY <2>1 DEF FindByTokenHash, Past, Goto, request, TypeOK
  <1>3. QED
    BY <1>1, <1>2, RequestMoves DEF Past, At

\* What was condemned is dead, and so is what it is exchanged for, save under spared hands.
LEMMA EndStep ==
    TypeOK /\ Presented /\ SparedPast /\ ReuseEndsSessions /\ [Next]_vars
        => (SparedPast /\ ReuseEndsSessions)'
  <1> SUFFICES ASSUME TypeOK, Presented, SparedPast, ReuseEndsSessions, [Next]_vars
               PROVE  SparedPast' /\ ReuseEndsSessions'
    OBVIOUS
  <1>0. /\ \A t \in Issued : /\ by'[t] = by[t] /\ Parent(t)' = Parent(t)
                             /\ t \in Live' => t \in Live
        /\ spared \subseteq spared'
    BY Kept
  <1>1. /\ \A r \in Requests : tok[r] # None => tok[r] \in Issued /\ user[r] = Owner(tok[r])
        /\ \A t \in Issued : by[t] \in Requests
        /\ condemned \subseteq Issued /\ None \notin condemned
    BY DEF Presented, TypeOK, Issued
  <1>2. None \notin condemned' /\ Live' \subseteq Issued'
    BY TypeStep DEF Live, TypeOK, Issued
  <1>3. SparedPast'
    <2> SUFFICES ASSUME NEW r \in Requests, Past(r)', tok'[r] \in condemned'
                 PROVE  r \in spared'
      BY DEF SparedPast
    <2>1. ASSUME NEW q \in Requests, RevokeAllForUser(q) PROVE r \in spared'
      <3>1. Past(r) /\ tok'[r] = tok[r]
        BY <2>1 DEF RevokeAllForUser, Past, At, Goto, request, TypeOK
      <3>2. CASE tok[r] \in condemned
        BY <1>0, <3>1, <3>2 DEF SparedPast
      <3>3. CASE tok[r] \notin condemned
        <4>1. user[r] = user[q]
          BY <1>1, <2>1, <3>1, <3>3 DEF RevokeAllForUser, Condemn, Issued
        <4>2. QED
          BY <2>1, <3>1, <4>1 DEF RevokeAllForUser, Condemn
      <3>4. QED
        BY <3>2, <3>3
    <2>2. CASE UNCHANGED <<condemned, spared>>
      BY <1>2, <2>2, EntersPast DEF SparedPast, ReuseEndsSessions
    <2>3. QED
      BY <2>1, <2>2, Condemning
  <1>4. condemned' \cap Live' = {}
    <2>1. ASSUME NEW q \in Requests, RevokeAllForUser(q) PROVE condemned' \cap Live' = {}
      BY <1>0, <1>1, <2>1 DEF RevokeAllForUser, Condemn, Live, ReuseEndsSessions
    <2>2. CASE UNCHANGED <<condemned, spared>>
      BY <1>0, <1>1, <2>2 DEF ReuseEndsSessions
    <2>3. QED
      BY <2>1, <2>2, Condemning
  <1>5. ASSUME NEW s \in Live', Parent(s)' \in condemned' PROVE by'[s] \in spared'
    <2>1. CASE s \in Issued
      <3>1. s \in Live /\ Parent(s)' = Parent(s) /\ by'[s] = by[s]
        BY <1>0, <2>1
      <3>2. ASSUME NEW q \in Requests, RevokeAllForUser(q), Parent(s) \notin condemned
            PROVE  FALSE
        <4>1. Parent(s) \in Issued /\ Owner(Parent(s)) = user[q]
          BY <1>5, <3>1, <3>2 DEF RevokeAllForUser, Condemn
        <4>2. Owner(s) = user[q]
          BY <1>1, <2>1, <4>1 DEF Owner, Parent, Issued
        <4>3. s \in revoked'
          BY <3>1, <3>2, <4>2 DEF RevokeAllForUser, Live
        <4>4. QED
          BY <4>3 DEF Live
      <3>3. Parent(s) \in condemned
        BY <1>5, <3>1, <3>2, Condemning
      <3>4. QED
        BY <1>0, <3>1, <3>3 DEF ReuseEndsSessions
    <2>2. CASE s \notin Issued
      <3>1. PICK r \in Requests : Issue(r, s)
        BY <1>2, <2>2, RequestMoves
      <3>2. /\ Parent(s)' = tok[r] /\ by'[s] = r /\ Past(r)
            /\ condemned' = condemned /\ spared' = spared
        BY <1>2, <3>1 DEF Issue, Parent, Past, At, request, history, TypeOK, Issued
      <3>3. QED
        BY <1>5, <3>2 DEF SparedPast
    <2>3. QED
      BY <2>1, <2>2
  <1>6. QED
    BY <1>3, <1>4, <1>5 DEF ReuseEndsSessions
-----------------------------------------------------------------------------
(* Causes of revocation, and who is let through.                           *)

\* A token is revoked by a request that presents it, or with all of its owner's.
LEMMA CauseStep ==
    TypeOK /\ Presented /\ RevokedForCause /\ [Next]_vars => RevokedForCause'
  <1> SUFFICES ASSUME TypeOK, Presented, RevokedForCause, [Next]_vars, NEW t \in revoked'
               PROVE  \/ t \in condemned'
                      \/ \E r \in Requests : tok'[r] = t /\ pc'[r] \in {"mark", "issue", "done"}
    BY DEF RevokedForCause
  <1>1. CASE t \in revoked
    <2>1. ASSUME NEW r \in Requests, tok[r] = t, pc[r] \in {"mark", "issue", "done"}
          PROVE  tok'[r] = t /\ pc'[r] \in {"mark", "issue", "done"}
      <3>1. tok'[r] = t
        BY <2>1, Kept
      <3>2. CASE Step(r)
        BY <2>1, <3>1, <3>2 DEF Step, IsConsumed, FindOwner, RevokeAllForUser, FindByTokenHash,
                          Revoke, MarkConsumed, Issue, IssueFails, At, Goto, TypeOK
      <3>3. QED
        BY <2>1, <3>1, <3>2, RequestMoves DEF At
    <2>2. condemned \subseteq condemned'
      BY Kept
    <2>3. QED
      BY <1>1, <2>1, <2>2 DEF RevokedForCause
  <1>2. CASE t \notin revoked
    <2>1. \E r \in Requests : Revoke(r) \/ RevokeAllForUser(r)
      BY <1>2 DEF Next, Step, Login, Refresh, Logout, Present, IsConsumed, FindOwner,
                  FindByTokenHash, MarkConsumed, Issue, IssueFails, Expire, DeleteExpired,
                  store, vars
    <2>2. ASSUME NEW r \in Requests, Revoke(r)
          PROVE  tok'[r] = t /\ pc'[r] \in {"mark", "issue", "done"}
      BY <1>2, <2>2 DEF Revoke, Goto, request, TypeOK
    <2>3. ASSUME NEW r \in Requests, RevokeAllForUser(r) PROVE t \in condemned'
      BY <1>2, <2>3 DEF RevokeAllForUser, Condemn, TypeOK
    <2>4. QED
      BY <2>1, <2>2, <2>3
  <1>3. QED
    BY <1>1, <1>2

\* A second request is let through with a token only while the first is about to revoke it.
LEMMA OnceStep ==
    TypeOK /\ Presented /\ RevokedPast /\ ReplacedIsDead /\ PastOnce /\ [Next]_vars => PastOnce'
  <1> SUFFICES ASSUME TypeOK, Presented, RevokedPast, ReplacedIsDead, PastOnce, [Next]_vars,
                      NEW r \in Requests, NEW q \in Requests, r # q,
                      Through(r)', Through(q)', tok'[r] = tok'[q], tok'[r] # None
               PROVE  tok'[r] \in doubled'
    BY DEF PastOnce
  <1>1. ASSUME NEW x \in Requests, Through(x)', tok'[x] # None
        PROVE  /\ tok'[x] = tok[x]
               /\ Through(x) \/ (FindByTokenHash(x) /\ tok[x] \in Live)
    <2>1. CASE Past(x)'
      BY <1>1, <2>1, EntersPast DEF Through
    <2>2. ASSUME NEW s \in Issued', by'[s] = x PROVE Through(x) /\ tok'[x] = tok[x]
      <3>1. CASE s \in Issued
        BY <2>2, <3>1, Kept DEF Through, Presented
      <3>2. CASE s \notin Issued
        <4>1. PICK y \in Requests : Issue(y, s)
          BY <3>2, RequestMoves
        <4>2. y = x
          BY <2>2, <4>1, s \in Tokens DEF Issue, TypeOK, Issued
        <4>3. QED
          BY <4>1, <4>2 DEF Issue, Through, Past, At, request
      <3>3. QED
        BY <3>1, <3>2
    <2>3. QED
      BY <1>1, <2>1, <2>2 DEF Through
  <1>2. doubled \subseteq doubled'
    BY Kept
  <1>3. ASSUME NEW x \in Requests, NEW y \in Requests, x # y, tok[x] = tok[y],
               FindByTokenHash(x), tok[x] \in Live, Through(y)
        PROVE  tok[x] \in doubled'
    <2>1. CASE Past(y)
      <3>1. At(y, "revoke")
        BY <1>3, <2>1 DEF Past, RevokedPast, At
      <3>2. QED
        BY <1>3, <3>1 DEF FindByTokenHash
    <2>2. ASSUME NEW s \in Issued, by[s] = y PROVE FALSE
      BY <1>3, <2>2 DEF ReplacedIsDead, Parent
    <2>3. QED
      BY <1>3, <2>1, <2>2 DEF Through
  <1>4. ~(FindByTokenHash(r) /\ tok[r] \in Live /\ FindByTokenHash(q))
    BY DEF FindByTokenHash, At, Goto, TypeOK
  <1>5. QED
    BY <1>1, <1>2, <1>3, <1>4 DEF PastOnce
-----------------------------------------------------------------------------
\* The inductive invariant holds in every reachable state.
THEOREM Invariance == Spec => []IInv
  <1>1. Init => IInv
    BY InvInit
  <1>2. IInv /\ [Next]_vars => IInv'
    BY TypeStep, PresentedStep, RotationStep, DetectionStep, EndStep, CauseStep, OnceStep DEF IInv
  <1>3. QED
    BY <1>1, <1>2, PTL DEF Spec

\* Every variable keeps its type; the store only ever holds tokens that were issued.
THEOREM TypeCorrect == Spec => []TypeOK
  <1>1. IInv => TypeOK
    BY DEF IInv
  <1>2. QED
    BY <1>1, Invariance, PTL

\* A token and its replacement are never usable at the same time.
THEOREM RotationKills == Spec => []ReplacedIsDead
  <1>1. IInv => ReplacedIsDead
    BY DEF IInv
  <1>2. QED
    BY <1>1, Invariance, PTL

\* A token is exchanged twice only by requests whose lookups overlapped.
THEOREM ExchangedOnce == Spec => []ReplacedOnceUnlessDoubled
  <1>1. IInv => ReplacedOnceUnlessDoubled
    <2> SUFFICES ASSUME IInv, NEW t \in Issued, t \notin doubled,
                        NEW s \in Successors(t), NEW u \in Successors(t)
                 PROVE  s = u
      BY DEF ReplacedOnceUnlessDoubled
    <2>1. /\ by[s] \in Requests /\ by[u] \in Requests /\ tok[by[s]] = t /\ tok[by[u]] = t
          /\ Through(by[s]) /\ Through(by[u]) /\ s \in Issued /\ u \in Issued
      BY DEF IInv, TypeOK, Successors, Parent, Issued, Through
    <2>2. t # None
      BY DEF Issued
    <2>3. by[s] = by[u]
      BY <2>1, <2>2 DEF IInv, PastOnce
    <2>4. QED
      BY <2>1, <2>3 DEF IInv, Presented
  <1>2. QED
    BY <1>1, Invariance, PTL

\* The reuse of a replaced token can be detected, and its owner found, until it expires.
THEOREM ReuseIsDetectable == Spec => []ReuseDetectable
  <1>1. IInv => ReuseDetectable
    BY DEF IInv
  <1>2. QED
    BY <1>1, Invariance, PTL

\* A detected reuse ends every session its user had, and those refreshed from them.
THEOREM ReuseIsTheEnd == Spec => []ReuseEndsSessions
  <1>1. IInv => ReuseEndsSessions
    BY DEF IInv
  <1>2. QED
    BY <1>1, Invariance, PTL

\* No token is revoked without a request presenting it or a reuse by its owner.
THEOREM NoRevocationWithoutCause == Spec => []RevokedForCause
  <1>1. IInv => RevokedForCause
    BY DEF IInv
  <1>2. QED
    BY <1>1, Invariance, PTL
-----------------------------------------------------------------------------
(* The health checker and the gate.                                        *)

\* A flag is news of this round once its probe is over, and of the last one until then.
FlagInTime ==
    \A n \in Upstreams :
        IF probe[n] = "none" THEN flag[n] \in recent[n] ELSE flag[n] \in previous[n]

\* What a probe has seen happened in this round.
SeenInTime ==
    \A n \in Upstreams :
        /\ Healthy(status[n]) \in recent[n]
        /\ probe[n] = "yes" => TRUE \in recent[n]
        /\ probe[n] = "no" => FALSE \in recent[n]

\* wg.Wait: outside a round no probe is under way.
RoundsAreWhole == loop # "round" => \A n \in Upstreams : probe[n] = "none"

GateInv == GateTypeOK /\ FlagInTime /\ SeenInTime /\ RoundsAreWhole
-----------------------------------------------------------------------------
\* Every flag is FALSE at first, before any round.
LEMMA GateInvInit == GateInit => GateInv
  BY DEF GateInit, GateInv, GateTypeOK, FlagInTime, SeenInTime, RoundsAreWhole, Healthy

\* A verdict is a Boolean.
LEMMA Verdict == \A s : Healthy(s) \in BOOLEAN
  BY DEF Healthy

\* The flag stored is the probe's verdict.
LEMMA Stored ==
    ASSUME flag \in [Upstreams -> BOOLEAN], NEW n \in Upstreams, Store(n)
    PROVE  /\ probe[n] = "yes" => flag'[n] = TRUE
           /\ probe[n] = "no" => flag'[n] = FALSE
  <1>1. flag' = [flag EXCEPT ![n] = (probe[n] = "yes")]
    BY DEF Store
  <1>2. flag'[n] = (probe[n] = "yes")
    BY <1>1
  <1>3. probe[n] = "no" => probe[n] # "yes"
    OBVIOUS
  <1>4. QED
    BY <1>2, <1>3, Zenon

\* Requests and main leave the checker and the upstreams alone.
LEMMA ElsewhereInGate ==
    ASSUME GateInv, UNCHANGED <<status, checker, recent>>
    PROVE  FlagInTime' /\ SeenInTime' /\ RoundsAreWhole'
  BY DEF GateInv, checker, FlagInTime, SeenInTime, RoundsAreWhole

\* Every step of a handler keeps the invariant.
LEMMA HandlerStep == ASSUME GateInv, NEW h \in Handlers, Handle(h) PROVE GateInv'
  <1> USE DEF checker, Answer
  <1>1. UNCHANGED <<status, checker, main, recent>>
    BY DEF Handle, Serve, Forward, Proxied, ClientGone
  <1>2. at' \in [Handlers -> Upstreams \cup {200, 401, 403, 404, 502, 503, Absent}]
    <2>1. \A route, roles : Guarded(route, roles) \in {200, 401, 403, 404}
      BY DEF Guarded
    <2>2. QED
      BY <2>1 DEF Handle, Serve, Forward, Proxied, ClientGone, GateInv, GateTypeOK
  <1>3. GateTypeOK'
    BY <1>1, <1>2 DEF GateInv, GateTypeOK
  <1>4. QED
    BY <1>1, <1>3, ElsewhereInGate DEF GateInv

\* Every step keeps the invariant.
LEMMA GateInvStep == GateInv /\ [GateNext]_gateVars => GateInv'
  <1> SUFFICES ASSUME GateInv, [GateNext]_gateVars PROVE GateInv'
    OBVIOUS
  <1> USE DEF GateInv, GateTypeOK, gateway, checker
  <1>1. ASSUME NEW n \in Upstreams, NEW s \in {"up", "down", "hung"}, Becomes(n, s) PROVE GateInv'
    <2>0. recent[n] \cup {Healthy(s)} \subseteq BOOLEAN
      BY Verdict
    <2>1. GateTypeOK'
      BY <1>1, <2>0 DEF Becomes
    <2>2. FlagInTime' /\ RoundsAreWhole'
      BY <1>1 DEF Becomes, FlagInTime, RoundsAreWhole
    <2>3. SeenInTime'
      <3>1. \A m \in Upstreams : recent[m] \subseteq recent'[m]
        BY <1>1 DEF Becomes
      <3>2. \A m \in Upstreams \ {n} : status'[m] = status[m]
        BY <1>1 DEF Becomes
      <3>3. status'[n] = s /\ Healthy(s) \in recent'[n]
        BY <1>1 DEF Becomes
      <3>4. probe' = probe
        BY <1>1 DEF Becomes
      <3>5. QED
        BY <3>1, <3>2, <3>3, <3>4, Zenon DEF SeenInTime
    <2>4. QED
      BY <2>1, <2>2, <2>3
  <1>2. CASE Tick
    <2>1. GateTypeOK'
      BY <1>2 DEF Tick
    <2>2. FlagInTime' /\ SeenInTime' /\ RoundsAreWhole'
      BY <1>2 DEF Tick, FlagInTime, SeenInTime, RoundsAreWhole
    <2>3. QED
      BY <2>1, <2>2
  <1>3. CASE RoundBegins
    <2>1. \A n \in Upstreams : flag[n] \in recent[n]
      BY <1>3 DEF RoundBegins, FlagInTime, RoundsAreWhole
    <2>2. probe' = [n \in Upstreams |-> "asked"]
      BY <1>3 DEF RoundBegins, RoundsAreWhole
    <2>3. GateTypeOK'
      <3>1. \A n \in Upstreams : {Healthy(status[n])} \subseteq BOOLEAN
        BY Verdict
      <3>2. recent' \in [Upstreams -> SUBSET BOOLEAN]
        BY <1>3, <3>1 DEF RoundBegins
      <3>3. UNCHANGED <<status, flag, main, at>> /\ loop' = "round" /\ tick' \in BOOLEAN
            /\ previous' = recent
        BY <1>3 DEF RoundBegins
      <3>4. QED
        BY <2>2, <3>2, <3>3
    <2>4. FlagInTime' /\ SeenInTime' /\ RoundsAreWhole'
      BY <1>3, <2>1, <2>2 DEF RoundBegins, FlagInTime, SeenInTime, RoundsAreWhole
    <2>5. QED
      BY <2>3, <2>4
  <1>4. ASSUME NEW n \in Upstreams, ProbeEnds(n) PROVE GateInv'
    <2>0. RoundsAreWhole'
      BY <1>4 DEF ProbeEnds, RoundsAreWhole
    <2>1. GateTypeOK'
      BY <1>4 DEF ProbeEnds
    <2>2. FlagInTime'
      BY <1>4 DEF ProbeEnds, FlagInTime
    <2>3. SeenInTime'
      <3>1. \A m \in Upstreams \ {n} : probe'[m] = probe[m]
        BY <1>4 DEF ProbeEnds
      <3>2. /\ probe'[n] = "yes" => Healthy(status[n]) = TRUE
            /\ probe'[n] = "no" => Healthy(status[n]) = FALSE
        BY <1>4 DEF ProbeEnds, Healthy
      <3>3. UNCHANGED <<status, recent>>
        BY <1>4 DEF ProbeEnds
      <3>4. ASSUME NEW m \in Upstreams, probe'[m] = "yes" PROVE TRUE \in recent[m]
        <4>1. CASE m = n
          <5>1. Healthy(status[n]) \in recent[n] /\ Healthy(status[n]) = TRUE
            BY <3>2, <3>4, <4>1 DEF SeenInTime
          <5>2. QED
            BY <4>1, <5>1, Zenon
        <4>2. CASE m # n
          BY <3>1, <3>4, <4>2 DEF SeenInTime
        <4>3. QED
          BY <4>1, <4>2
      <3>5. ASSUME NEW m \in Upstreams, probe'[m] = "no" PROVE FALSE \in recent[m]
        <4>1. CASE m = n
          <5>1. Healthy(status[n]) \in recent[n] /\ Healthy(status[n]) = FALSE
            BY <3>2, <3>5, <4>1 DEF SeenInTime
          <5>2. QED
            BY <4>1, <5>1, Zenon
        <4>2. CASE m # n
          BY <3>1, <3>5, <4>2 DEF SeenInTime
        <4>3. QED
          BY <4>1, <4>2
      <3>6. QED
        BY <3>3, <3>4, <3>5, Zenon DEF SeenInTime
    <2>4. QED
      BY <2>0, <2>1, <2>2, <2>3
  <1>5. ASSUME NEW n \in Upstreams, Store(n) PROVE GateInv'
    <2>0. RoundsAreWhole'
      BY <1>5 DEF Store, RoundsAreWhole
    <2>1. GateTypeOK'
      BY <1>5 DEF Store
    <2>2. FlagInTime'
      <3>1. \A m \in Upstreams \ {n} : probe'[m] = probe[m] /\ flag'[m] = flag[m]
        BY <1>5 DEF Store
      <3>2. UNCHANGED <<recent, previous>> /\ probe'[n] = "none"
        BY <1>5 DEF Store
      <3>3. flag'[n] \in recent[n]
        <4>1. CASE probe[n] = "yes"
          <5>1. flag'[n] = TRUE
            BY <1>5, <4>1, Stored
          <5>2. TRUE \in recent[n]
            BY <4>1 DEF SeenInTime
          <5>3. QED
            BY <5>1, <5>2, Zenon
        <4>2. CASE probe[n] = "no"
          <5>1. flag'[n] = FALSE
            BY <1>5, <4>2, Stored
          <5>2. FALSE \in recent[n]
            BY <4>2 DEF SeenInTime
          <5>3. QED
            BY <5>1, <5>2, Zenon
        <4>3. QED
          BY <1>5, <4>1, <4>2 DEF Store
      <3>4. QED
        BY <3>1, <3>2, <3>3 DEF FlagInTime
    <2>3. SeenInTime'
      <3>1. UNCHANGED <<status, recent>>
        BY <1>5 DEF Store
      <3>2. \A m \in Upstreams : probe'[m] \in {probe[m], "none"}
        BY <1>5 DEF Store
      <3>3. ASSUME NEW m \in Upstreams, probe'[m] = "yes" PROVE TRUE \in recent[m]
        BY <3>2, <3>3 DEF SeenInTime
      <3>4. ASSUME NEW m \in Upstreams, probe'[m] = "no" PROVE FALSE \in recent[m]
        BY <3>2, <3>4 DEF SeenInTime
      <3>5. QED
        BY <3>1, <3>3, <3>4, Zenon DEF SeenInTime
    <2>4. QED
      BY <2>0, <2>1, <2>2, <2>3
  <1>6. CASE RoundEnds \/ LoopLeaves
    <2>1. GateTypeOK'
      BY <1>6 DEF RoundEnds, LoopLeaves
    <2>2. RoundsAreWhole'
      BY <1>6 DEF RoundEnds, LoopLeaves, RoundsAreWhole
    <2>3. UNCHANGED <<status, flag, probe, recent, previous>>
      BY <1>6 DEF RoundEnds, LoopLeaves
    <2>4. FlagInTime' /\ SeenInTime'
      BY <2>3 DEF FlagInTime, SeenInTime
    <2>5. QED
      BY <2>1, <2>2, <2>4
  <1>7. CASE Signal \/ CloseListener \/ Exit
    <2>1. UNCHANGED <<status, checker, at, recent>> /\ GateTypeOK'
      BY <1>7 DEF Signal, CloseListener, Exit, Moves
    <2>2. QED
      BY <2>1, ElsewhereInGate
  <1>8. CASE UNCHANGED gateVars
    BY <1>8, ElsewhereInGate DEF gateVars
  <1>9. QED
    BY <1>1, <1>2, <1>3, <1>4, <1>5, <1>6, <1>7, <1>8, HandlerStep DEF GateNext

\* The invariant holds throughout.
THEOREM GateInvariance == GateSpec => []GateInv
  BY GateInvInit, GateInvStep, PTL DEF GateSpec

\* Every variable keeps its type.
THEOREM GateTypeCorrect == GateSpec => []GateTypeOK
  <1>1. GateInv => GateTypeOK
    BY DEF GateInv
  <1>2. QED
    BY <1>1, GateInvariance, PTL

\* What a flag says, its upstream would have said since the previous round began.
THEOREM GateDecidesOnRecentNews == GateSpec => []FlagIsRecent
  <1>1. GateInv => FlagIsRecent
    BY DEF GateInv, FlagInTime, FlagIsRecent
  <1>2. QED
    BY <1>1, GateInvariance, PTL
=============================================================================

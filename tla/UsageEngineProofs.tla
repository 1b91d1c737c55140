-------------------------- MODULE UsageEngineProofs --------------------------
(***************************************************************************)
(* The usage engine for every number of handlers, customers and events,    *)
(* every set of hours, and every window shorter than the time to live.     *)
(*                                                                         *)
(* A counter of the window covers what was accepted and what is about to   *)
(* be (CoversPending), and its key stays until the hour has left the       *)
(* window (LivesLongEnough). So neither the key's expiry nor the pruning,  *)
(* however late it comes (SweepIsOld), reaches an hour of the window.      *)
(***************************************************************************)
EXTENDS UsageEngine, FiniteSetTheorems, TLAPS

USE EngineConstants, NoneIsNoEvent DEF EngineConstants

\* Events of an hour that are counted and may still be accepted.
Pending(c, d) ==
    {h \in Handlers : job[h] # None /\ job[h].customer = c /\ job[h].hour = d /\ job[h].kept}

\* An hour of the window, or one that will come into it, counts them and those accepted.
CoversPending ==
    \A c \in Customers, d \in Hours :
        d > now - Window => count[c][d] >= accepted[c][d] + Cardinality(Pending(c, d))

\* The key of an accepted event goes when its hour has left the window, not before.
LivesLongEnough ==
    \A c \in Customers, d \in Hours :
        d > now - Window /\ accepted[c][d] > 0
            => expires[c] # None /\ expires[c] >= d + Window

\* A time to live was set at an earlier time, to TTL.
SetBefore == \A c \in Customers : expires[c] # None => expires[c] <= now + TTL

\* What a round is about to delete was stale when it began, and is so still.
SweepIsOld == sweep # None => sweep.at <= now /\ \A d \in sweep.stale : d <= sweep.at - TTL

IInv == /\ TypeOK
        /\ CoversPending
        /\ LivesLongEnough
        /\ SetBefore
        /\ SweepIsOld
        /\ ExpiresUnlessCut
-----------------------------------------------------------------------------
\* What is pending can be counted.
LEMMA PendingIsFinite ==
    \A c \in Customers, d \in Hours :
        IsFiniteSet(Pending(c, d)) /\ Cardinality(Pending(c, d)) \in Nat
  <1> TAKE c \in Customers, d \in Hours
  <1>1. Pending(c, d) \in SUBSET Handlers
    BY DEF Pending
  <1>2. IsFiniteSet(Pending(c, d))
    BY <1>1, FS_Subset, IsFiniteSet(Handlers)
  <1>3. QED
    BY <1>2, FS_CardinalityType

\* Nothing is counted at first.
LEMMA InvInit == Init => IInv
  <1> SUFFICES ASSUME Init PROVE IInv
    OBVIOUS
  <1>1. TypeOK
    BY DEF Init, TypeOK
  <1>2. \A c \in Customers, d \in Hours : Cardinality(Pending(c, d)) = 0
    BY FS_EmptySet DEF Init, Pending
  <1>3. CoversPending
    BY <1>2 DEF Init, CoversPending
  <1>4. LivesLongEnough /\ SetBefore /\ SweepIsOld /\ ExpiresUnlessCut
    BY DEF Init, LivesLongEnough, SetBefore, SweepIsOld, ExpiresUnlessCut, Exists
  <1>5. QED
    BY <1>1, <1>3, <1>4 DEF IInv

\* Each action keeps the types.
LEMMA TypeStep == TypeOK /\ [Next]_vars => TypeOK'
  <1> SUFFICES ASSUME TypeOK, [Next]_vars PROVE TypeOK'
    OBVIOUS
  <1> USE DEF TypeOK
  <1>1. ASSUME NEW c \in Customers, NEW d \in Hours, CountedUnseen(c, d) PROVE TypeOK'
    BY <1>1 DEF CountedUnseen, HIncrBy, Left
  <1>2. ASSUME NEW c \in Customers, NEW d \in Hours, NEW h \in Handlers, Counted(h, c, d)
        PROVE  TypeOK'
    <2>1. [customer |-> c, hour |-> d, kept |-> TRUE] \in Event
      BY DEF Event
    <2>2. count' \in [Customers -> [Hours -> Nat]]
      BY <1>2 DEF Counted, HIncrBy
    <2>3. QED
      BY <1>2, <2>1, <2>2 DEF Counted, HIncrBy
  <1>3. ASSUME NEW h \in Handlers, Refreshed(h) PROVE TypeOK'
    <2>1. PICK c \in Customers, d \in Hours : c = job[h].customer /\ d = job[h].hour
      BY <1>3 DEF Refreshed, Event
    <2>2. accepted' \in [Customers -> [Hours -> Nat]]
      <3>1. accepted' = [accepted EXCEPT ![c][d] = @ + 1] \/ accepted' = accepted
        BY <1>3, <2>1 DEF Refreshed, Answered
      <3>2. QED
        BY <3>1
    <2>3. job' \in [Handlers -> Event \cup {None}]
      BY <1>3 DEF Refreshed, Answered
    <2>4. expires' \in [Customers -> Int \cup {None}]
      <3>1. expires' = [expires EXCEPT ![c] = now + TTL] \/ expires' = expires
        BY <1>3, <2>1 DEF Refreshed
      <3>2. QED
        BY <3>1
    <2>5. exposed' \subseteq Customers
      BY <1>3 DEF Refreshed
    <2>6. QED
      BY <1>3, <2>2, <2>3, <2>4, <2>5 DEF Refreshed
  <1>4. ASSUME NEW h \in Handlers, RefreshFails(h) PROVE TypeOK'
    BY <1>4 DEF RefreshFails, Left, Event
  <1>5. CASE RoundBegins
    BY <1>5 DEF RoundBegins, Sweep
  <1>6. ASSUME NEW c \in Customers, PruneReads(c) PROVE TypeOK'
    BY <1>6 DEF PruneReads, Sweep
  <1>7. CASE Pruned
    <2>1. sweep' \in Sweep \cup {None}
      BY <1>7 DEF Pruned, Reported, Sweep
    <2>2. QED
      BY <1>7, <2>1 DEF Pruned
  <1>8. CASE PruneFails
    BY <1>8 DEF PruneFails, Reported, Sweep
  <1>9. ASSUME NEW c \in Customers, Evicted(c) PROVE TypeOK'
    <2>1. job' \in [Handlers -> Event \cup {None}]
      BY <1>9 DEF Evicted, Event
    <2>2. QED
      BY <1>9, <2>1 DEF Evicted
  <1>10. CASE Restart
    BY <1>10 DEF Restart
  <1>11. CASE Tick
    BY <1>11 DEF Tick
  <1>12. CASE UNCHANGED vars
    BY <1>12 DEF vars
  <1>13. QED
    BY <1>1, <1>2, <1>3, <1>4, <1>5, <1>6, <1>7, <1>8, <1>9, <1>10, <1>11, <1>12 DEF Next
-----------------------------------------------------------------------------
\* The time to live is always that long; the round's deletions stay old.
LEMMA TimesStep == IInv /\ [Next]_vars => SetBefore' /\ SweepIsOld'
  <1> SUFFICES ASSUME IInv, [Next]_vars PROVE SetBefore' /\ SweepIsOld'
    OBVIOUS
  <1> USE DEF IInv, TypeOK, SetBefore, SweepIsOld
  <1>1. CASE UNCHANGED <<now, expires, sweep>>
    BY <1>1
  <1>2. ASSUME NEW h \in Handlers, Refreshed(h) PROVE SetBefore' /\ SweepIsOld'
    BY <1>2 DEF Refreshed
  <1>3. CASE RoundBegins
    BY <1>3 DEF RoundBegins
  <1>4. ASSUME NEW c \in Customers, PruneReads(c) PROVE SetBefore' /\ SweepIsOld'
    BY <1>4 DEF PruneReads, Sweep
  <1>5. CASE Pruned \/ PruneFails
    BY <1>5 DEF Pruned, PruneFails, Reported, Sweep
  <1>6. ASSUME NEW c \in Customers, Evicted(c) PROVE SetBefore' /\ SweepIsOld'
    BY <1>6 DEF Evicted
  <1>7. CASE Restart
    BY <1>7 DEF Restart
  <1>8. CASE Tick
    <2>1. SetBefore'
      BY <1>8 DEF Tick
    <2>2. SweepIsOld'
      BY <1>8 DEF Tick, Sweep
    <2>3. QED
      BY <2>1, <2>2
  <1>9. ASSUME NEW c \in Customers, NEW d \in Hours, NEW h \in Handlers,
               CountedUnseen(c, d) \/ Counted(h, c, d) \/ RefreshFails(h)
        PROVE  SetBefore' /\ SweepIsOld'
    BY <1>9, <1>1 DEF CountedUnseen, Counted, RefreshFails
  <1>10. ASSUME NEW h \in Handlers, RefreshFails(h) PROVE SetBefore' /\ SweepIsOld'
    BY <1>10, <1>1 DEF RefreshFails
  <1>11. ASSUME NEW c \in Customers, NEW d \in Hours, CountedUnseen(c, d)
         PROVE  SetBefore' /\ SweepIsOld'
    BY <1>11, <1>1 DEF CountedUnseen
  <1>12. QED
    BY <1>1, <1>2, <1>3, <1>4, <1>5, <1>6, <1>7, <1>8, <1>9, <1>10, <1>11 DEF Next, vars

\* Pruning removes what it found stale, and a key only if nothing else is left in it.
LEMMA PrunedEffect ==
    ASSUME TypeOK, Pruned, NEW k \in Customers, NEW d \in Hours
    PROVE  /\ count'[k][d] \in {0, count[k][d]}
           /\ d \notin sweep.stale => count'[k][d] = count[k][d]
           /\ count'[k][d] > 0 => expires'[k] = expires[k] /\ (k \in exposed' <=> k \in exposed)
  <1> USE DEF TypeOK
  <1> DEFINE c == sweep.customer
             kept == [e \in Hours |-> IF e \in sweep.stale THEN 0 ELSE count[c][e]]
             gone == \A e \in Hours : kept[e] = 0
  <1>1. c \in Customers
    BY DEF Pruned, Sweep
  <1>2. /\ count' = [count EXCEPT ![c] = kept]
        /\ expires' = [expires EXCEPT ![c] = IF gone THEN None ELSE @]
        /\ exposed' = IF gone THEN exposed \ {c} ELSE exposed
    BY DEF Pruned
  <1>3. CASE k # c
    <2>1. count'[k] = count[k] /\ expires'[k] = expires[k] /\ (k \in exposed' <=> k \in exposed)
      BY <1>1, <1>2, <1>3
    <2>2. QED
      BY <2>1
  <1>4. CASE k = c
    <2>1. count'[k] = kept
      BY <1>1, <1>2, <1>4
    <2>2. kept[d] = IF d \in sweep.stale THEN 0 ELSE count[k][d]
      BY <1>4
    <2>3. CASE count'[k][d] > 0
      <3>1. ~gone
        BY <2>1, <2>3
      <3>2. expires' = [expires EXCEPT ![c] = @] /\ exposed' = exposed
        BY <1>2, <3>1
      <3>3. QED
        BY <1>1, <1>4, <2>1, <2>2, <3>2
    <2>4. CASE ~(count'[k][d] > 0)
      BY <2>1, <2>2, <2>4
    <2>5. QED
      BY <2>3, <2>4
  <1>5. QED
    BY <1>3, <1>4

\* A hash without a time to live has its call, or is remembered as exposed.
LEMMA ExpiresStep == IInv /\ [Next]_vars => ExpiresUnlessCut'
  <1> SUFFICES ASSUME IInv, [Next]_vars,
                      NEW k \in Customers, k \notin exposed', Exists(k)', expires'[k] = None
               PROVE  \E g \in Handlers : job'[g] # None /\ job'[g].customer = k
    BY DEF ExpiresUnlessCut
  <1> DEFINE Goal == \E g \in Handlers : job'[g] # None /\ job'[g].customer = k
  <1> USE DEF IInv, TypeOK
  <1>0. k \notin exposed /\ Exists(k) /\ expires[k] = None
            => \E g \in Handlers : job[g] # None /\ job[g].customer = k
    BY DEF ExpiresUnlessCut
  <1>1. ASSUME NEW c \in Customers, NEW d \in Hours, CountedUnseen(c, d) PROVE Goal
    <2>1. k # c
      BY <1>1 DEF CountedUnseen, Left
    <2>2. Exists(k) /\ expires[k] = None /\ k \notin exposed
      BY <1>1, <2>1 DEF CountedUnseen, HIncrBy, Left, Exists
    <2>3. QED
      BY <1>0, <1>1, <2>2 DEF CountedUnseen
  <1>2. ASSUME NEW c \in Customers, NEW d \in Hours, NEW h \in Handlers, Counted(h, c, d)
        PROVE  Goal
    <2>1. CASE k = c
      <3>1. job'[h] = [customer |-> c, hour |-> d, kept |-> TRUE] /\ job'[h] \in Event
        BY <1>2 DEF Counted, Event
      <3>2. QED
        BY <2>1, <3>1
    <2>2. CASE k # c
      <3>1. Exists(k) /\ expires[k] = None /\ k \notin exposed
        BY <1>2, <2>2 DEF Counted, HIncrBy, Exists
      <3>2. PICK g \in Handlers : job[g] # None /\ job[g].customer = k
        BY <1>0, <3>1
      <3>3. job'[g] = job[g]
        BY <1>2, <3>2 DEF Counted
      <3>4. QED
        BY <3>2, <3>3
    <2>3. QED
      BY <2>1, <2>2
  <1>3. ASSUME NEW h \in Handlers, Refreshed(h) \/ RefreshFails(h) PROVE Goal
    <2>1. job[h] \in Event
      BY <1>3 DEF Refreshed, RefreshFails
    <2>2. k # job[h].customer /\ Exists(k) /\ expires[k] = None /\ k \notin exposed
      <3> DEFINE c == job[h].customer
      <3>1. c \in Customers
        BY <2>1 DEF Event
      <3>2. Exists(k)
        BY <1>3 DEF Refreshed, RefreshFails, Exists
      <3>3. CASE Refreshed(h)
        <4>1. k # c \/ expires'[k] = now + TTL
          BY <3>1, <3>2, <3>3 DEF Refreshed
        <4>2. k # c
          BY <4>1
        <4>3. expires'[k] = expires[k] /\ (k \in exposed <=> k \in exposed')
          BY <3>1, <3>3, <4>2 DEF Refreshed
        <4>4. QED
          BY <3>2, <4>2, <4>3
      <3>4. CASE RefreshFails(h)
        BY <3>1, <3>2, <3>4 DEF RefreshFails, Left
      <3>5. QED
        BY <1>3, <3>3, <3>4
    <2>3. PICK g \in Handlers : job[g] # None /\ job[g].customer = k
      BY <1>0, <2>2
    <2>4. job'[g] = job[g]
      BY <1>3, <2>2, <2>3 DEF Refreshed, RefreshFails, Answered
    <2>5. QED
      BY <2>3, <2>4
  <1>4. CASE Pruned
    <2>1. PICK e \in Hours : count'[k][e] > 0
      BY DEF Exists
    <2>2. Exists(k)
      BY <1>4, <2>1, PrunedEffect DEF Exists
    <2>3. expires[k] = None /\ k \notin exposed
      BY <1>4, <2>1, PrunedEffect
    <2>4. QED
      BY <1>0, <1>4, <2>2, <2>3 DEF Pruned
  <1>5. ASSUME NEW c \in Customers, Evicted(c) PROVE Goal
    <2>1. k # c
      BY <1>5 DEF Evicted, Exists
    <2>2. Exists(k) /\ expires[k] = None /\ k \notin exposed
      BY <1>5, <2>1 DEF Evicted, Exists
    <2>3. PICK g \in Handlers : job[g] # None /\ job[g].customer = k
      BY <1>0, <2>2
    <2>4. job'[g] = job[g]
      BY <1>5, <2>1, <2>3 DEF Evicted
    <2>5. QED
      BY <2>3, <2>4
  <1>6. CASE Restart
    <2>1. Exists(k) /\ expires[k] = None /\ k \notin exposed
      BY <1>6 DEF Restart, Exists
    <2>2. QED
      BY <1>0, <1>6, <2>1 DEF Restart
  <1>7. CASE UNCHANGED <<count, expires, job, exposed>>
    <2>1. Exists(k) /\ expires[k] = None /\ k \notin exposed
      BY <1>7 DEF Exists
    <2>2. QED
      BY <1>0, <1>7, <2>1
  <1>8. ASSUME NEW c \in Customers, PruneReads(c) PROVE Goal
    BY <1>7, <1>8 DEF PruneReads
  <1>9. CASE RoundBegins \/ PruneFails \/ Tick \/ UNCHANGED vars
    BY <1>7, <1>9 DEF RoundBegins, PruneFails, Tick, vars
  <1>10. QED
    BY <1>1, <1>2, <1>3, <1>4, <1>5, <1>6, <1>8, <1>9 DEF Next
-----------------------------------------------------------------------------
\* The time to live covers the window.
LEMMA StaleIsOutside ==
    ASSUME NEW at \in Int, NEW t \in Int, NEW d \in Int, at <= t, d <= at - TTL
    PROVE  ~(d > t - Window)
  OBVIOUS

\* Counters are numbers.
LEMMA CountersAreNumbers ==
    ASSUME TypeOK, NEW c \in Customers, NEW d \in Hours
    PROVE  count[c][d] \in Nat /\ accepted[c][d] \in Nat
  BY DEF TypeOK

\* No hour of the window is pruned or expires.
LEMMA WindowSpared ==
    ASSUME IInv, NEW c \in Customers, NEW d \in Hours, d > now - Window
    PROVE  /\ sweep # None => d \notin sweep.stale
           /\ Evicted(c) => accepted[c][d] = 0
  <1> USE DEF IInv, TypeOK
  <1>1. ASSUME sweep # None, d \in sweep.stale PROVE FALSE
    <2>1. sweep.at \in Int /\ sweep.at <= now /\ d <= sweep.at - TTL
      BY <1>1 DEF SweepIsOld, Sweep
    <2>2. now \in Int /\ d \in Int
      OBVIOUS
    <2>3. QED
      BY <2>1, <2>2, StaleIsOutside
  <1>2. ASSUME Evicted(c), accepted[c][d] # 0 PROVE FALSE
    <2>0. accepted[c][d] \in Nat /\ expires[c] \in Int \cup {None} /\ expires[c] # None
      BY <1>2 DEF Evicted
    <2>1. accepted[c][d] > 0 /\ expires[c] \in Int
      BY <1>2, <2>0
    <2>2. expires[c] <= now /\ expires[c] >= d + Window
      BY <1>2, <2>1 DEF Evicted, LivesLongEnough
    <2>3. QED
      BY <2>1, <2>2
  <1>3. QED
    BY <1>1, <1>2

\* The clock goes on by an hour at a time.
LEMMA ClockStep == [Next]_vars => now' = now \/ now' = now + 1
  BY DEF Next, vars, CountedUnseen, Counted, Refreshed, RefreshFails, RoundBegins, PruneReads,
         Pruned, PruneFails, Restart, Evicted, Tick

\* A step covers what becomes pending, and accepts only what was.
LEMMA CoversStep == IInv /\ [Next]_vars => CoversPending'
  <1> SUFFICES ASSUME IInv, [Next]_vars, NEW c \in Customers, NEW d \in Hours, d > now' - Window
               PROVE  count'[c][d] >= accepted'[c][d] + Cardinality(Pending(c, d)')
    BY DEF CoversPending
  <1> DEFINE Goal == count'[c][d] >= accepted'[c][d] + Cardinality(Pending(c, d)')
  <1> USE DEF IInv, TypeOK
  <1>a. d > now - Window /\ d \in Int
    BY ClockStep
  <1>b. IsFiniteSet(Pending(c, d)) /\ Cardinality(Pending(c, d)) \in Nat
    BY PendingIsFinite
  <1>c. count[c][d] >= accepted[c][d] + Cardinality(Pending(c, d))
    BY <1>a DEF CoversPending
  <1>d. count[c][d] \in Nat /\ accepted[c][d] \in Nat
    OBVIOUS
  <1>e. ASSUME Pending(c, d)' \subseteq Pending(c, d),
               count'[c][d] >= count[c][d], count'[c][d] \in Nat, accepted'[c][d] = accepted[c][d]
        PROVE  Goal
    <2>1. Cardinality(Pending(c, d)') \in Nat
          /\ Cardinality(Pending(c, d)') <= Cardinality(Pending(c, d))
      BY <1>b, <1>e, FS_Subset, FS_CardinalityType
    <2>2. QED
      BY <1>b, <1>c, <1>d, <1>e, <2>1
  <1>1. ASSUME NEW k \in Customers, NEW e \in Hours, CountedUnseen(k, e) PROVE Goal
    BY <1>1, <1>d, <1>e DEF CountedUnseen, HIncrBy, Pending
  <1>2. ASSUME NEW k \in Customers, NEW e \in Hours, NEW h \in Handlers, Counted(h, k, e)
        PROVE  Goal
    <2>1. job' = [job EXCEPT ![h] = [customer |-> k, hour |-> e, kept |-> TRUE]]
          /\ job[h] = None /\ accepted' = accepted /\ count' = [count EXCEPT ![k][e] = @ + 1]
      BY <1>2 DEF Counted, HIncrBy
    <2>2. CASE k = c /\ e = d
      <3>1. [customer |-> k, hour |-> e, kept |-> TRUE] \in Event
        BY DEF Event
      <3>2. Pending(c, d)' = Pending(c, d) \cup {h} /\ h \notin Pending(c, d)
        BY <2>1, <2>2, <3>1 DEF Pending
      <3>3. Cardinality(Pending(c, d)') = Cardinality(Pending(c, d)) + 1
        BY <1>b, <3>2, FS_AddElement
      <3>4. count'[c][d] = count[c][d] + 1
        BY <2>1, <2>2
      <3>5. QED
        BY <1>b, <1>c, <1>d, <2>1, <3>3, <3>4
    <2>3. CASE ~(k = c /\ e = d)
      <3>1. Pending(c, d)' \subseteq Pending(c, d)
        BY <2>1, <2>3 DEF Pending
      <3>2. count'[c][d] = count[c][d]
        BY <2>1, <2>3
      <3>3. QED
        BY <1>d, <1>e, <2>1, <3>1, <3>2
    <2>4. QED
      BY <2>2, <2>3
  <1>3. ASSUME NEW h \in Handlers, Refreshed(h) PROVE Goal
    <2>1. job' = [job EXCEPT ![h] = None] /\ count' = count /\ job[h] \in Event
      BY <1>3 DEF Refreshed, Answered
    <2>2. CASE h \in Pending(c, d)
      <3>1. Pending(c, d)' = Pending(c, d) \ {h}
        BY <2>1 DEF Pending
      <3>2. Cardinality(Pending(c, d)') = Cardinality(Pending(c, d)) - 1
        <4>1. Cardinality(Pending(c, d) \ {h}) = Cardinality(Pending(c, d)) - 1
          BY <1>b, <2>2, FS_RemoveElement
        <4>2. QED
          BY <3>1, <4>1
      <3>3. accepted' = [accepted EXCEPT ![c][d] = @ + 1] \/ accepted' = accepted
        BY <1>3, <2>2 DEF Refreshed, Answered, Pending
      <3>4. accepted'[c][d] \in {accepted[c][d], accepted[c][d] + 1}
        BY <3>3
      <3>5. QED
        BY <1>b, <1>c, <1>d, <2>1, <3>2, <3>4
    <2>3. CASE h \notin Pending(c, d)
      <3>1. Pending(c, d)' \subseteq Pending(c, d)
        BY <2>1 DEF Pending
      <3>2. accepted'[c][d] = accepted[c][d]
        <4>1. PICK k \in Customers, e \in Hours : k = job[h].customer /\ e = job[h].hour
          BY <2>1 DEF Event
        <4>2. \/ accepted' = [accepted EXCEPT ![k][e] = @ + 1] /\ job[h].kept
              \/ accepted' = accepted
          BY <1>3, <4>1 DEF Refreshed, Answered
        <4>3. ~(k = c /\ e = d) \/ ~job[h].kept
          BY <1>3, <2>3, <4>1 DEF Pending, Refreshed
        <4>4. QED
          BY <4>2, <4>3
      <3>3. QED
        BY <1>d, <1>e, <2>1, <3>1, <3>2
    <2>4. QED
      BY <2>2, <2>3
  <1>4. ASSUME NEW h \in Handlers, RefreshFails(h) PROVE Goal
    BY <1>4, <1>d, <1>e DEF RefreshFails, Pending
  <1>5. CASE Restart
    BY <1>5, <1>d, <1>e DEF Restart, Pending
  <1>6. CASE Pruned
    <2>1. count'[c][d] = count[c][d]
      BY <1>6, <1>a, WindowSpared, PrunedEffect DEF Pruned
    <2>2. accepted' = accepted /\ Pending(c, d)' = Pending(c, d)
      BY <1>6 DEF Pruned, Pending
    <2>3. QED
      BY <1>d, <1>e, <2>1, <2>2
  <1>7. ASSUME NEW k \in Customers, Evicted(k) PROVE Goal
    <2>1. CASE k = c
      <3>1. accepted'[c][d] = 0 /\ count'[c][d] = 0
        BY <1>7, <1>a, <2>1, WindowSpared DEF Evicted
      <3>2. ASSUME NEW g \in Pending(c, d)' PROVE FALSE
        <4>1. g \in Handlers /\ job'[g] # None /\ job'[g].customer = c /\ job'[g].kept
          BY <3>2 DEF Pending
        <4>2. CASE job[g] # None /\ job[g].customer = c
          <5>1. job'[g] = [job[g] EXCEPT !.kept = FALSE] /\ job[g] \in Event
            BY <1>7, <2>1, <4>1, <4>2 DEF Evicted
          <5>2. QED
            BY <4>1, <5>1 DEF Event
        <4>3. CASE ~(job[g] # None /\ job[g].customer = c)
          BY <1>7, <2>1, <4>1, <4>3 DEF Evicted
        <4>4. QED
          BY <4>2, <4>3
      <3>3. Pending(c, d)' = {}
        BY <3>2
      <3>4. Cardinality(Pending(c, d)') = 0
        BY <3>3, FS_EmptySet
      <3>5. QED
        BY <3>1, <3>4
    <2>2. CASE k # c
      <3>1. count'[c][d] = count[c][d] /\ accepted' = accepted
        BY <1>7, <2>2 DEF Evicted
      <3>2. ASSUME NEW g \in Pending(c, d)' PROVE g \in Pending(c, d)
        <4>1. g \in Handlers /\ job'[g] # None /\ job'[g].customer = c
          BY <3>2 DEF Pending
        <4>2. CASE job[g] # None /\ job[g].customer = k
          <5>1. job'[g] = [job[g] EXCEPT !.kept = FALSE] /\ job[g] \in Event
            BY <1>7, <4>1, <4>2 DEF Evicted
          <5>2. QED
            BY <2>2, <4>1, <4>2, <5>1 DEF Event
        <4>3. CASE ~(job[g] # None /\ job[g].customer = k)
          <5>1. job'[g] = job[g]
            BY <1>7, <4>1, <4>3 DEF Evicted
          <5>2. QED
            BY <3>2, <5>1 DEF Pending
        <4>4. QED
          BY <4>2, <4>3
      <3>3. QED
        BY <1>d, <1>e, <3>1, <3>2
    <2>3. QED
      BY <2>1, <2>2
  <1>8. CASE UNCHANGED <<count, accepted, job>>
    BY <1>8, <1>d, <1>e DEF Pending
  <1>9. ASSUME NEW k \in Customers, PruneReads(k) PROVE Goal
    BY <1>8, <1>9 DEF PruneReads
  <1>10. CASE RoundBegins \/ PruneFails \/ Tick \/ UNCHANGED vars
    BY <1>8, <1>10 DEF RoundBegins, PruneFails, Tick, vars
  <1>11. QED
    BY <1>1, <1>2, <1>3, <1>4, <1>5, <1>6, <1>7, <1>9, <1>10 DEF Next

\* An accepted event sets its key's time to live, and nobody shortens it.
LEMMA LivesStep == IInv /\ [Next]_vars => LivesLongEnough'
  <1> SUFFICES ASSUME IInv, [Next]_vars, NEW c \in Customers, NEW d \in Hours,
                      d > now' - Window, accepted'[c][d] > 0
               PROVE  expires'[c] # None /\ expires'[c] >= d + Window
    BY DEF LivesLongEnough
  <1> DEFINE Goal == expires'[c] # None /\ expires'[c] >= d + Window
  <1> USE DEF IInv, TypeOK
  <1>a. d > now - Window /\ d \in Int
    BY ClockStep
  <1>b. accepted[c][d] > 0 => expires[c] \in Int /\ expires[c] >= d + Window
    BY <1>a DEF LivesLongEnough
  <1>1. CASE UNCHANGED <<expires, accepted>>
    BY <1>1, <1>b
  <1>2. ASSUME NEW h \in Handlers, Refreshed(h) PROVE Goal
    <2>1. PICK k \in Customers, e \in Hours : k = job[h].customer /\ e = job[h].hour
      BY <1>2 DEF Refreshed, Event
    <2>2. expires' = [expires EXCEPT ![k] = IF Exists(k) THEN now + TTL ELSE @]
      BY <1>2, <2>1 DEF Refreshed
    <2>3. CASE accepted[c][d] > 0
      <3>1. expires[c] \in Int /\ expires[c] >= d + Window /\ expires[c] <= now + TTL
        BY <1>b, <2>3 DEF SetBefore
      <3>2. expires'[c] \in {expires[c], now + TTL}
        BY <2>2
      <3>3. QED
        BY <1>a, <3>1, <3>2
    <2>4. CASE ~(accepted[c][d] > 0)
      <3>1. \/ accepted' = [accepted EXCEPT ![k][e] = @ + 1] /\ job[h].kept /\ InReach(e)
            \/ accepted' = accepted
        BY <1>2, <2>1 DEF Refreshed, Answered
      <3>2. k = c /\ e = d /\ job[h].kept /\ InReach(d)
        BY <2>4, <3>1
      <3>3. h \in Pending(c, d)
        BY <1>2, <2>1, <3>2 DEF Pending, Refreshed
      <3>4. Cardinality(Pending(c, d)) \in Nat \ {0}
        BY <3>3, PendingIsFinite, FS_EmptySet
      <3>5. count[c][d] > 0
        <4>1. count[c][d] >= accepted[c][d] + Cardinality(Pending(c, d))
          BY <1>a DEF CoversPending
        <4>2. count[c] \in [Hours -> Nat] /\ accepted[c] \in [Hours -> Nat]
          BY DEF IInv, TypeOK
        <4>3. count[c][d] \in Nat /\ accepted[c][d] \in Nat
          BY <4>2
        <4>4. \A a, b \in Nat, n \in Nat \ {0} : a >= b + n => a > 0
          OBVIOUS
        <4>5. QED
          BY <3>4, <4>1, <4>3, <4>4
      <3>6. Exists(c)
        BY <3>5 DEF Exists
      <3>7. expires'[c] = now + TTL
        BY <2>2, <3>2, <3>6
      <3>8. QED
        BY <1>a, <3>2, <3>7 DEF InReach
    <2>5. QED
      BY <2>3, <2>4
  <1>3. CASE Pruned
    <2>1. accepted[c][d] > 0
      BY <1>3 DEF Pruned
    <2>2. count'[c][d] = count[c][d]
      BY <1>3, <1>a, WindowSpared, PrunedEffect DEF Pruned
    <2>3. count[c][d] > 0
      <3>1. count[c][d] >= accepted[c][d] + Cardinality(Pending(c, d))
        BY <1>a DEF CoversPending
      <3>2. Cardinality(Pending(c, d)) \in Nat
        BY PendingIsFinite
      <3>3. count[c][d] \in Nat /\ accepted[c][d] \in Nat
        BY CountersAreNumbers
      <3>4. QED
        BY <2>1, <3>1, <3>2, <3>3
    <2>4. expires'[c] = expires[c]
      BY <1>3, <2>2, <2>3, PrunedEffect
    <2>5. QED
      BY <1>b, <2>1, <2>4
  <1>4. ASSUME NEW k \in Customers, Evicted(k) PROVE Goal
    <2>1. accepted[c][d] > 0
      BY <1>4 DEF Evicted
    <2>2. k # c
      BY <1>4, <1>a, <2>1, WindowSpared
    <2>3. expires'[c] = expires[c]
      BY <1>4, <2>2 DEF Evicted
    <2>4. QED
      BY <1>b, <2>1, <2>3
  <1>5. ASSUME NEW k \in Customers, NEW e \in Hours, CountedUnseen(k, e) PROVE Goal
    BY <1>1, <1>5 DEF CountedUnseen
  <1>6. ASSUME NEW k \in Customers, NEW e \in Hours, NEW h \in Handlers, Counted(h, k, e)
        PROVE  Goal
    BY <1>1, <1>6 DEF Counted
  <1>7. ASSUME NEW h \in Handlers, RefreshFails(h) PROVE Goal
    BY <1>1, <1>7 DEF RefreshFails
  <1>8. ASSUME NEW k \in Customers, PruneReads(k) PROVE Goal
    BY <1>1, <1>8 DEF PruneReads
  <1>9. CASE RoundBegins \/ PruneFails \/ Restart \/ Tick \/ UNCHANGED vars
    BY <1>1, <1>9 DEF RoundBegins, PruneFails, Restart, Tick, vars
  <1>10. QED
    BY <1>2, <1>3, <1>4, <1>5, <1>6, <1>7, <1>8, <1>9 DEF Next

\* IInv is inductive.
LEMMA InvStep == IInv /\ [Next]_vars => IInv'
  BY TypeStep, TimesStep, ExpiresStep, CoversStep, LivesStep DEF IInv

\* The inductive invariant of the usage engine.
THEOREM Invariance == Spec => []IInv
  BY InvInit, InvStep, PTL DEF Spec

\* Every variable keeps its type.
THEOREM TypeCorrect == Spec => []TypeOK
  BY Invariance, PTL DEF IInv

\* A rolling average counts every event of the window that was accepted, for any number of
\* handlers and however late the job deletes what it read.
THEOREM AverageCountsAccepted == Spec => []AcceptedCounted
  <1>1. IInv => AcceptedCounted
    <2> SUFFICES ASSUME IInv, NEW c \in Customers, NEW d \in Hours,
                        accepted[c][d] > 0, InWindow(d, now)
                 PROVE  d \in Recent(c, now) /\ count[c][d] >= accepted[c][d]
      BY DEF AcceptedCounted
    <2>1. count[c][d] >= accepted[c][d] + Cardinality(Pending(c, d))
      BY DEF IInv, CoversPending, InWindow, TypeOK
    <2>2. Cardinality(Pending(c, d)) \in Nat
      BY PendingIsFinite
    <2>3. QED
      BY <2>1, <2>2 DEF IInv, TypeOK, Recent
  <1>2. QED
    BY <1>1, Invariance, PTL

\* A hash without a time to live is being worked on, or a call failed half way.
THEOREM HashesExpire == Spec => []ExpiresUnlessCut
  BY Invariance, PTL DEF IInv
=============================================================================

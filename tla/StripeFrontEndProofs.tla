------------------------ MODULE StripeFrontEndProofs ------------------------
(***************************************************************************)
(* The rate limiter for every number of clients, proxies and handlers and  *)
(* every burst: the map stays within its bound, and behind proxies every   *)
(* client keeps a bucket of its own.                                       *)
(*                                                                         *)
(* A request uses its limiter after the lock was released, when the map    *)
(* may have moved on. What makes that harmless is that a limiter belongs   *)
(* to one address for good: no two entries share one (OneEach), a request  *)
(* holds one that is in nobody else's entry (HeldForOne), and if it is no  *)
(* longer in the client's own, the entry was evicted (HeldOrGone). A       *)
(* limiter that is entered is nobody's, so its bucket is full              *)
(* (UnusedIsFull).                                                         *)
(***************************************************************************)
EXTENDS StripeFrontEnd, FiniteSetTheorems, SequenceTheorems, TLAPS

\* No two addresses share a limiter.
OneEach == \A k, l \in Addresses : limiter[k] = limiter[l] /\ limiter[k] # None => k = l

\* The bucket of a limiter that nothing refers to is full.
UnusedIsFull == \A l \in Limiters \ Referenced : tokens[l] = IPBurst

\* The limiter is looked up under the client's own address.
LooksUpOwn == \A h \in Handlers : In(h, "lookup") => job[h].key = Client(h)

\* A limiter in use is in no entry but the client's.
HeldForOne ==
    \A h \in Handlers : In(h, "allow") =>
        \A k \in Addresses : limiter[k] = job[h].limiter => k = Client(h)

\* It is in the client's entry, unless that was removed.
HeldOrGone ==
    \A h \in Handlers : In(h, "allow") =>
        own[Client(h)] = Gone \/ limiter[Client(h)] = job[h].limiter

Types == TypeOK /\ IsFiniteSet(Entries)

Separate == OneEach /\ UnusedIsFull

Apart == Proxies # {} => LooksUpOwn /\ HeldForOne /\ HeldOrGone /\ OwnBucket

IInv == Types /\ Separate /\ Apart
-----------------------------------------------------------------------------
(* getClientIP.                                                            *)

\* The constants, without the supply of limiters.
LEMMA Constants ==
    /\ MaxIPLimiters \in Nat \ {0} /\ IPBurst \in Nat \ {0} /\ GlobalBurst \in Nat \ {0}
    /\ None \notin Limiters
    /\ \A c \in Clients : c \notin Proxies /\ c # Blank /\ c \in Addresses
    /\ \A p \in Proxies : p # Blank
  BY FrontEndConstants DEF FrontEndConstants, Addresses

\* Max of a set that has a greatest element is that element.
LEMMA MaxIs ==
    ASSUME NEW S \in SUBSET Int, NEW m \in S, \A i \in S : i <= m
    PROVE  Max(S) = m
  <1>1. \E n \in S : \A i \in S : n >= i
    OBVIOUS
  <1>2. Max(S) \in S /\ \A i \in S : Max(S) >= i
    BY <1>1 DEF Max
  <1>3. Max(S) \in Int /\ Max(S) >= m /\ Max(S) <= m
    BY <1>2
  <1>4. QED
    BY <1>3

\* The right-most hop that is neither blank nor a proxy is the one a trusted proxy reports.
LEMMA RightMostHop ==
    ASSUME Proxies # {}, NEW p \in Proxies, NEW hops, Len(hops) \in Nat, hops # <<>>,
           NEW m \in 1..Len(hops), hops[m] \notin Proxies \cup {Blank},
           \A i \in 1..Len(hops) : i > m => hops[i] \in Proxies
    PROVE  ClientIP(p, hops) = hops[m]
  <1> DEFINE real == {i \in 1..Len(hops) : hops[i] \notin Proxies \cup {Blank}}
  <1>1. real \in SUBSET Int /\ m \in real /\ \A i \in real : i <= m
    OBVIOUS
  <1>2. Max(real) = m
    BY <1>1, MaxIs
  <1>3. QED
    BY <1>1, <1>2 DEF ClientIP

\* A claim is a sequence of addresses and blanks, and so is what the proxies append.
LEMMA RouteTypes ==
    ASSUME NEW route \in Routes
    PROVE  /\ route.claim \in Claims /\ route.claim \in Seq(Addresses \cup {Blank})
           /\ route.through \in Seq(Proxies)
  <1>1. <<>> \in Seq(Addresses \cup {Blank})
    OBVIOUS
  <1>2. \A ip \in Addresses \cup {Blank} : <<ip>> \in Seq(Addresses \cup {Blank})
    OBVIOUS
  <1>3. route.claim \in Claims /\ route.claim \in Seq(Addresses \cup {Blank})
    BY <1>1, <1>2 DEF Routes, Claims
  <1>4. PICK n \in 0..MaxProxies : route.through \in [1..n -> Proxies]
    BY DEF Routes
  <1>5. n \in Nat
    BY FrontEndConstants DEF FrontEndConstants
  <1>6. QED
    BY <1>3, <1>4, <1>5

\* A client that is called from through proxies comes before them in the header.
LEMMA HopsThroughProxies ==
    ASSUME NEW c \in Clients, NEW f \in Seq(Addresses \cup {Blank}), NEW rest \in Seq(Proxies),
           NEW p \in Proxies
    PROVE  ClientIP(p, f \o <<c>> \o rest) = c
  <1> DEFINE S == Addresses \cup {Blank}
             front == f \o <<c>>
             hops == front \o rest
             m == Len(f) + 1
  <1>1. Len(f) \in Nat /\ Len(rest) \in Nat /\ <<c>> \in Seq(S) /\ rest \in Seq(S)
    BY Constants DEF Addresses
  <1>2. /\ front \in Seq(S) /\ Len(front) = m
        /\ \A i \in 1..m : front[i] = IF i <= Len(f) THEN f[i] ELSE <<c>>[i - Len(f)]
    BY <1>1, ConcatProperties
  <1>3. front[m] = c
    BY <1>1, <1>2
  <1> HIDE DEF front, S
  <1>4. /\ Len(hops) = m + Len(rest)
        /\ \A i \in 1..(m + Len(rest)) : hops[i] = IF i <= m THEN front[i] ELSE rest[i - m]
    <2>1. /\ Len(hops) = Len(front) + Len(rest)
          /\ \A i \in 1..(Len(front) + Len(rest)) :
                hops[i] = IF i <= Len(front) THEN front[i] ELSE rest[i - Len(front)]
      <3>1. front \in Seq(S) /\ rest \in Seq(S)
        BY <1>1, <1>2
      <3>2. QED
        BY <3>1, ConcatProperties, Zenon
    <2>2. QED
      BY <1>2, <2>1
  <1> HIDE DEF hops
  <1>5. m \in 1..Len(hops) /\ hops[m] = c /\ hops # <<>> /\ Len(hops) \in Nat
    BY <1>1, <1>3, <1>4
  <1>6. ASSUME NEW i \in 1..Len(hops), i > m PROVE hops[i] \in Proxies
    <2>1. i - m \in 1..Len(rest) /\ hops[i] = rest[i - m]
      BY <1>1, <1>4, <1>6
    <2>2. QED
      BY <2>1, ElementOfSeq
  <1>7. ClientIP(p, hops) = hops[m]
    BY <1>5, <1>6, Constants, RightMostHop
  <1>8. QED
    BY <1>5, <1>7 DEF hops, front

\* Whatever its requests claim, behind proxies a client is taken for itself.
THEOREM TakenForItself == ASSUME Proxies # {}, NEW c \in Clients PROVE TakenFor[c] = {c}
  <1>1. ASSUME NEW route \in Routes PROVE ClientIP(Peer(c, route), Hops(c, route)) = c
    <2> DEFINE n == Len(route.through)
               rest == SubSeq(route.through, 1, n - 1)
    <2>1. CASE route.through = <<>>
      BY <2>1, Constants DEF Peer, Hops, ClientIP
    <2>2. CASE route.through # <<>>
      <3>1. n \in Nat /\ n > 0 /\ \A i \in 1..n : route.through[i] \in Proxies
        BY <2>2, RouteTypes
      <3>2. rest \in Seq(Proxies)
        <4>1. n - 1 \in Int /\ \A i \in 1..(n - 1) : route.through[i] \in Proxies
          BY <3>1
        <4>2. QED
          BY <4>1, SubSeqProperties
      <3>3. route.through[n] \in Proxies
        BY <3>1
      <3>4. QED
        BY <2>2, <3>2, <3>3, RouteTypes, HopsThroughProxies DEF Peer, Hops
    <2>3. QED
      BY <2>1, <2>2
  <1>2. [claim |-> <<>>, through |-> <<>>] \in Routes
    <2>1. <<>> \in Claims
      BY DEF Claims
    <2>2. <<>> \in [1..0 -> Proxies] /\ 0 \in 0..MaxProxies
      BY FrontEndConstants DEF FrontEndConstants
    <2>3. QED
      BY <2>1, <2>2 DEF Routes
  <1>3. QED
    BY <1>1, <1>2 DEF TakenFor

\* Without proxies it is taken for itself or for the address it claims.
LEMMA TakenForAddress == ASSUME NEW c \in Clients PROVE TakenFor[c] \subseteq Addresses
  <1>1. CASE Proxies # {}
    BY <1>1, TakenForItself, Constants
  <1>2. CASE Proxies = {}
    <2>1. \A route \in Routes : Peer(c, route) = c /\ Hops(c, route) \in Claims
      <3> TAKE route \in Routes
      <3>1. route.through = <<>>
        BY <1>2, RouteTypes
      <3>2. QED
        BY <3>1, RouteTypes DEF Peer, Hops
    <2>2. ASSUME NEW f \in Claims PROVE ClientIP(c, f) \in Addresses
      <3>1. CASE f = <<>>
        BY <3>1, Constants DEF ClientIP
      <3>2. ASSUME NEW ip \in Addresses \cup {Blank}, f = <<ip>>
            PROVE  ClientIP(c, f) \in Addresses
        BY <1>2, <3>2, Constants DEF ClientIP
      <3>3. QED
        BY <3>1, <3>2 DEF Claims
    <2>3. QED
      BY <2>1, <2>2 DEF TakenFor
  <1>3. QED
    BY <1>1, <1>2
-----------------------------------------------------------------------------
(* Types and the bound on the map.                                         *)

\* What a handler's job holds at each step.
LEMMA JobTypes ==
    ASSUME TypeOK, NEW h \in Handlers
    PROVE  /\ In(h, "lookup") => Client(h) \in Clients /\ job[h].key \in Addresses
           /\ In(h, "allow") => Client(h) \in Clients /\ job[h].limiter \in Limiters
  BY DEF TypeOK, In, Client, Job

\* The map and the handlers refer to fewer limiters than there can be.
LEMMA FreshExists ==
    ASSUME Types, NEW h \in Handlers, In(h, "lookup")
    PROVE  Fresh \in Limiters \ Referenced
  <1> DEFINE G == {g \in Handlers : In(g, "allow")}
             A == {limiter[k] : k \in Entries}
             B == {job[g].limiter : g \in G}
  <1>1. IsFiniteSet(A) /\ Cardinality(A) <= Cardinality(Entries)
    <2>1. [k \in Entries |-> limiter[k]] \in Surjection(Entries, A)
      BY DEF Surjection
    <2>2. QED
      BY <2>1, FS_Surjection DEF Types
  <1>2. IsFiniteSet(B) /\ Cardinality(B) <= Cardinality(G) /\ IsFiniteSet(G)
    <2>1. IsFiniteSet(G)
      BY FrontEndConstants, FS_Subset DEF FrontEndConstants
    <2>2. [g \in G |-> job[g].limiter] \in Surjection(G, B)
      BY DEF Surjection
    <2>3. QED
      BY <2>1, <2>2, FS_Surjection
  <1>3. /\ Cardinality(Handlers) \in Nat /\ Cardinality(G) \in Nat
        /\ Cardinality(G) < Cardinality(Handlers)
    <2>1. G \in SUBSET Handlers /\ h \notin G
      BY DEF In
    <2>2. IsFiniteSet(Handlers) /\ G # Handlers
      BY <2>1, FrontEndConstants DEF FrontEndConstants
    <2>3. /\ Cardinality(G) <= Cardinality(Handlers)
          /\ Cardinality(G) # Cardinality(Handlers)
      BY <2>1, <2>2, FS_Subset
    <2>4. QED
      BY <1>2, <2>2, <2>3, FS_CardinalityType
  <1>4. IsFiniteSet(A \cup B) /\ Cardinality(A \cup B) < MaxIPLimiters + Cardinality(Handlers)
    <2>1. /\ IsFiniteSet(A \cup B) /\ IsFiniteSet(A \cap B)
          /\ Cardinality(A \cup B) = Cardinality(A) + Cardinality(B) - Cardinality(A \cap B)
      BY <1>1, <1>2, FS_Union, FS_Intersection
    <2>2. /\ Cardinality(A) \in Nat /\ Cardinality(B) \in Nat /\ Cardinality(A \cap B) \in Nat
          /\ Cardinality(Entries) \in Nat
      BY <1>1, <1>2, <2>1, FS_CardinalityType DEF Types
    <2>3. Cardinality(Entries) <= MaxIPLimiters
      BY DEF Types, TypeOK
    <2>4. QED
      BY <1>1, <1>2, <1>3, <2>1, <2>2, <2>3, Constants
  <1>5. A \cup B \in SUBSET Limiters
    <2>1. A \subseteq Limiters
      BY DEF Types, TypeOK, Entries
    <2>2. B \subseteq Limiters
      BY JobTypes DEF Types
    <2>3. QED
      BY <2>1, <2>2
  <1>6. PICK l \in Limiters : l \notin A \cup B
    BY <1>4, <1>5, FrontEndConstants DEF FrontEndConstants
  <1>7. l \in Limiters \ Referenced
    BY <1>6, Constants DEF Referenced, Entries
  <1>8. QED
    BY <1>7 DEF Fresh

\* An entry is added, and one is removed if the map was full.
LEMMA EntriesBounded ==
    ASSUME Types, NEW h \in Handlers, NEW out \in {{}} \cup {{k} : k \in Entries}, Created(h, out)
    PROVE  IsFiniteSet(Entries)' /\ Cardinality(Entries)' <= MaxIPLimiters
  <1> DEFINE key == job[h].key
  <1>1. Fresh \in Limiters /\ key \in Addresses /\ limiter[key] = None
    BY FreshExists, JobTypes DEF Created, Types
  <1>2. limiter' = [k \in Addresses |-> IF k = key THEN Fresh
                                        ELSE IF k \in out THEN None ELSE limiter[k]]
    BY DEF Created
  <1>3. Entries' = (Entries \ out) \cup {key} /\ key \notin Entries
    BY <1>1, <1>2, Constants DEF Entries
  <1>4. Cardinality(Entries) \in Nat /\ Cardinality(Entries) <= MaxIPLimiters
    BY FS_CardinalityType DEF Types, TypeOK
  <1>5. CASE out = {}
    <2>1. Cardinality(Entries) < MaxIPLimiters /\ Entries' = Entries \cup {key}
      BY <1>3, <1>4, <1>5, Constants DEF Created
    <2>2. /\ IsFiniteSet(Entries \cup {key})
          /\ Cardinality(Entries \cup {key}) = Cardinality(Entries) + 1
      BY <1>3, FS_AddElement DEF Types
    <2>3. QED
      BY <1>4, <2>1, <2>2, Constants
  <1>6. ASSUME NEW k \in Entries, out = {k}
        PROVE  IsFiniteSet(Entries)' /\ Cardinality(Entries)' <= MaxIPLimiters
    <2>1. Entries' = (Entries \ {k}) \cup {key} /\ key \notin Entries \ {k}
      BY <1>3, <1>6
    <2>2. IsFiniteSet(Entries \ {k}) /\ Cardinality(Entries \ {k}) = Cardinality(Entries) - 1
      BY <1>6, FS_RemoveElement DEF Types
    <2>3. /\ IsFiniteSet((Entries \ {k}) \cup {key})
          /\ Cardinality((Entries \ {k}) \cup {key}) = Cardinality(Entries) - 1 + 1
      BY <2>1, <2>2, FS_AddElement
    <2>4. QED
      BY <1>4, <2>1, <2>3, Constants
  <1>7. QED
    BY <1>5, <1>6

\* Buckets hold at most their burst, whatever the collector resets.
LEMMA LeavesTypes ==
    ASSUME NEW t \in [Limiters -> 0..IPBurst], Leaves(t)
    PROVE  tokens' \in [Limiters -> 0..IPBurst]
  BY Constants DEF Leaves

\* The map is empty, the buckets are full.
LEMMA TypesInit == Init => Types
  <1> SUFFICES ASSUME Init PROVE Types
    OBVIOUS
  <1>1. Entries = {}
    BY DEF Init, Entries
  <1>2. IsFiniteSet(Entries) /\ Cardinality(Entries) = 0
    BY <1>1, FS_EmptySet
  <1>3. Cardinality(Entries) <= MaxIPLimiters
    BY <1>2, Constants
  <1>4. GlobalBurst \in 0..GlobalBurst /\ IPBurst \in 0..IPBurst /\ IPBurst \in Gone..IPBurst
    BY Constants DEF Gone
  <1>5. TypeOK
    BY <1>3, <1>4 DEF Init, TypeOK
  <1>6. QED
    BY <1>2, <1>5 DEF Types

\* A token comes back to a bucket that is not full; a bucket that is gone stays gone.
LEMMA RefilledIs ==
    /\ \A n \in 0..IPBurst : Refilled(n) \in 0..IPBurst
    /\ \A n \in Gone..IPBurst : Refilled(n) \in Gone..IPBurst /\ (Refilled(n) = Gone <=> n = Gone)
    /\ Refilled(IPBurst) = IPBurst
  BY Constants DEF Refilled, Gone

\* A handler goes on to another job; the limiters stay as they are.
LEMMA JobMoves ==
    ASSUME Types, NEW h \in Handlers, NEW j \in Job \cup {None}, Goes(h, j),
           UNCHANGED <<limiter, tokens, server, own>>, global' \in 0..GlobalBurst
    PROVE  Types'
  <1>1. Entries' = Entries
    BY DEF Entries
  <1>2. job' \in [Handlers -> Job \cup {None}]
    BY DEF Types, TypeOK, Goes
  <1>3. QED
    BY <1>1, <1>2 DEF Types, TypeOK, server

\* The map and the handlers keep their types under every action.
LEMMA TypesStep == Types /\ [Next]_vars => Types'
  <1> SUFFICES ASSUME Types, [Next]_vars PROVE Types'
    OBVIOUS
  <1> USE DEF server
  <1>t. TypeOK /\ global \in 0..GlobalBurst
    BY DEF Types, TypeOK
  <1>1. ASSUME NEW h \in Handlers, NEW c \in Clients, Arrive(h, c) PROVE Types'
    <2>1. PICK ip \in TakenFor[c] : Goes(h, [step |-> "lookup", client |-> c, key |-> ip])
      BY <1>1 DEF Arrive
    <2>2. [step |-> "lookup", client |-> c, key |-> ip] \in Job
      BY TakenForAddress DEF Job
    <2>3. global' \in 0..GlobalBurst
      BY <1>1, <1>t, Constants DEF Arrive
    <2>4. QED
      BY <1>1, <2>1, <2>2, <2>3, JobMoves DEF Arrive
  <1>2. ASSUME NEW h \in Handlers, Found(h) PROVE Types'
    <2>1. [step |-> "allow", client |-> Client(h), limiter |-> limiter[job[h].key]] \in Job
      BY <1>2, <1>t, JobTypes DEF Found, TypeOK, Job
    <2>2. QED
      BY <1>2, <1>t, <2>1, JobMoves DEF Found, Take
  <1>3. ASSUME NEW h \in Handlers, NEW out \in {{}} \cup {{k} : k \in Entries}, Created(h, out)
        PROVE  Types'
    <2>1. IsFiniteSet(Entries)' /\ Cardinality(Entries)' <= MaxIPLimiters
      BY <1>3, EntriesBounded
    <2>2. Fresh \in Limiters /\ Client(h) \in Clients
      BY <1>3, <1>t, FreshExists, JobTypes DEF Created
    <2>3. job' \in [Handlers -> Job \cup {None}]
      <3>1. [step |-> "allow", client |-> Client(h), limiter |-> Fresh] \in Job
        BY <2>2 DEF Job
      <3>2. QED
        BY <1>3, <1>t, <3>1 DEF Created, Take, Goes, TypeOK
    <2>4. limiter' \in [Addresses -> Limiters \cup {None}]
      BY <1>3, <1>t, <2>2 DEF Created, TypeOK
    <2>5. tokens' \in [Limiters -> 0..IPBurst]
      BY <1>3, <1>t, LeavesTypes DEF Created, TypeOK
    <2>6. own' \in [Addresses -> Gone..IPBurst]
      <3>1. Gone \in Gone..IPBurst
        BY Constants DEF Gone
      <3>2. QED
        BY <1>3, <1>t, <3>1 DEF Created, TypeOK
    <2>7. QED
      BY <1>3, <1>t, <2>1, <2>3, <2>4, <2>5, <2>6 DEF Created, Types, TypeOK
  <1>4. ASSUME NEW h \in Handlers, Allowed(h) PROVE Types'
    <2>1. Client(h) \in Addresses /\ job[h].limiter \in Limiters
      BY <1>4, <1>t, JobTypes, Constants DEF Allowed
    <2>2. job' \in [Handlers -> Job \cup {None}] /\ Entries' = Entries
      <3>1. [step |-> "handle"] \in Job
        BY DEF Job
      <3>2. QED
        BY <1>4, <1>t, <3>1 DEF Allowed, Goes, TypeOK, Entries
    <2>3. tokens' \in [Limiters -> 0..IPBurst]
      <3>1. tokens[job[h].limiter] - 1 \in 0..IPBurst
        BY <1>4, <1>t, <2>1, Constants DEF Allowed, TypeOK
      <3>2. [tokens EXCEPT ![job[h].limiter] = @ - 1] \in [Limiters -> 0..IPBurst]
        BY <1>t, <3>1 DEF TypeOK
      <3>3. QED
        BY <1>4, <3>2, LeavesTypes DEF Allowed
    <2>4. own' \in [Addresses -> Gone..IPBurst]
      <3>1. \A n \in Gone..IPBurst : (IF n > 0 THEN n - 1 ELSE n) \in Gone..IPBurst
        BY Constants DEF Gone
      <3>2. (IF own[Client(h)] > 0 THEN own[Client(h)] - 1 ELSE own[Client(h)]) \in Gone..IPBurst
        BY <1>t, <2>1, <3>1 DEF TypeOK
      <3>3. QED
        BY <1>4, <1>t, <3>2 DEF Allowed, TypeOK
    <2>5. QED
      BY <1>4, <1>t, <2>2, <2>3, <2>4 DEF Allowed, Types, TypeOK
  <1>5. ASSUME NEW h \in Handlers, Denied(h) PROVE Types'
    <2>1. job' \in [Handlers -> Job \cup {None}] /\ Entries' = Entries
      BY <1>5, <1>t DEF Denied, Goes, TypeOK, Entries
    <2>2. tokens' \in [Limiters -> 0..IPBurst]
      BY <1>5, <1>t, LeavesTypes DEF Denied, TypeOK
    <2>3. QED
      BY <1>5, <2>1, <2>2 DEF Denied, Types, TypeOK
  <1>6. ASSUME NEW h \in Handlers, Refused(h) \/ Verified(h) \/ StripeReturns(h) PROVE Types'
    BY <1>6, <1>t, JobMoves DEF Refused, Verified, StripeReturns, Served
  <1>7. ASSUME NEW h \in Handlers, Forwarded(h) PROVE Types'
    <2>1. [step |-> "stripe"] \in Job
      BY DEF Job
    <2>2. QED
      BY <1>7, <1>t, <2>1, JobMoves DEF Forwarded
  <1>8. CASE Refill
    <2>1. tokens' \in [Limiters -> 0..IPBurst] /\ own' \in [Addresses -> Gone..IPBurst]
      BY <1>8, <1>t, RefilledIs DEF Refill, TypeOK
    <2>2. Entries' = Entries
      BY <1>8 DEF Refill, Entries
    <2>3. QED
      BY <1>8, <2>1, <2>2 DEF Refill, Types, TypeOK
  <1>9. CASE RefillGlobal
    <2>1. global' \in 0..GlobalBurst /\ Entries' = Entries
      BY <1>9, <1>t, Constants DEF RefillGlobal, Entries
    <2>2. QED
      BY <1>9, <2>1 DEF RefillGlobal, Types, TypeOK
  <1>10. CASE Signal \/ TimesOut \/ Exit
    <2>1. Entries' = Entries
      BY <1>10 DEF Signal, TimesOut, Exit, Entries
    <2>2. QED
      BY <1>10, <2>1 DEF Signal, TimesOut, Exit, Types, TypeOK
  <1>11. CASE UNCHANGED vars
    <2>1. Entries' = Entries
      BY <1>11 DEF vars, Entries
    <2>2. QED
      BY <1>11, <2>1 DEF vars, Types, TypeOK
  <1>12. QED
    BY <1>1, <1>2, <1>3, <1>4, <1>5, <1>6, <1>7, <1>8, <1>9, <1>10, <1>11 DEF Next, Step
-----------------------------------------------------------------------------
(* Limiters are kept apart.                                                *)

\* A handler that goes on leaves the others where they are.
LEMMA Elsewhere ==
    ASSUME TypeOK, NEW h \in Handlers, NEW j, Goes(h, j)
    PROVE  job'[h] = j /\ \A g \in Handlers \ {h} : job'[g] = job[g]
  BY DEF TypeOK, Goes

\* While no limiter is let go of, the buckets of the unused ones stay full.
LEMMA StaysReferenced ==
    ASSUME UnusedIsFull, UNCHANGED <<limiter, tokens>>,
           \A g \in Handlers : In(g, "allow") => In(g, "allow")' /\ job'[g].limiter = job[g].limiter
    PROVE  UnusedIsFull'
  <1>1. Referenced \subseteq Referenced'
    BY DEF Referenced
  <1>2. QED
    BY <1>1 DEF UnusedIsFull

\* Otherwise the collector sees to it.
LEMMA CollectedIsFull == ASSUME NEW t, Leaves(t) PROVE UnusedIsFull'
  BY DEF Leaves, UnusedIsFull

\* At first no limiter is used, and all are full.
LEMMA SeparateInit == Init => Separate
  BY Constants DEF Init, Separate, OneEach, UnusedIsFull

\* A new entry gets a limiter of its own under every action.
LEMMA SeparateStep == Types /\ Separate /\ [Next]_vars => Separate'
  <1> SUFFICES ASSUME Types, Separate, [Next]_vars PROVE Separate'
    OBVIOUS
  <1>t. TypeOK /\ OneEach /\ UnusedIsFull
    BY DEF Types, Separate
  <1>k. ASSUME UNCHANGED limiter PROVE OneEach'
    BY <1>k, <1>t DEF OneEach
  <1>1. ASSUME NEW h \in Handlers, NEW j, ~In(h, "allow"), Goes(h, j), UNCHANGED <<limiter, tokens>>
        PROVE  Separate'
    <2>1. \A g \in Handlers : In(g, "allow") => In(g, "allow")' /\ job'[g].limiter = job[g].limiter
      BY <1>1, <1>t, Elsewhere DEF In
    <2>2. QED
      BY <1>1, <1>k, <1>t, <2>1, StaysReferenced DEF Separate
  <1>2. ASSUME NEW h \in Handlers, NEW c \in Clients, Arrive(h, c) PROVE Separate'
    <2>1. ~In(h, "allow")
      BY <1>2 DEF Arrive, In
    <2>2. QED
      BY <1>1, <1>2, <2>1 DEF Arrive
  <1>3. ASSUME NEW h \in Handlers, Found(h) PROVE Separate'
    <2>1. ~In(h, "allow")
      BY <1>3 DEF Found, In
    <2>2. QED
      BY <1>1, <1>3, <2>1 DEF Found, Take
  <1>4. ASSUME NEW h \in Handlers, NEW out \in {{}} \cup {{k} : k \in Entries}, Created(h, out)
        PROVE  Separate'
    <2>1. Fresh # None /\ \A k \in Addresses : limiter[k] # Fresh
      BY <1>4, FreshExists, Constants DEF Created, Referenced
    <2>2. OneEach'
      BY <1>4, <1>t, <2>1 DEF Created, OneEach
    <2>3. UnusedIsFull'
      BY <1>4, CollectedIsFull DEF Created
    <2>4. QED
      BY <2>2, <2>3 DEF Separate
  <1>5. ASSUME NEW h \in Handlers, Allowed(h) \/ Denied(h) PROVE Separate'
    <2>1. UnusedIsFull'
      BY <1>5, CollectedIsFull DEF Allowed, Denied
    <2>2. QED
      BY <1>5, <1>k, <2>1 DEF Allowed, Denied, Separate
  <1>6. ASSUME NEW h \in Handlers,
               Refused(h) \/ Verified(h) \/ Forwarded(h) \/ StripeReturns(h)
        PROVE  Separate'
    <2>1. ~In(h, "allow")
      BY <1>6 DEF Refused, Verified, Forwarded, StripeReturns, In
    <2>2. QED
      BY <1>1, <1>6, <2>1 DEF Refused, Verified, Forwarded, StripeReturns, Served
  <1>7. CASE Refill
    <2>1. Referenced' = Referenced
      BY <1>7 DEF Refill, Referenced, In
    <2>2. UnusedIsFull'
      BY <1>7, <1>t, <2>1, RefilledIs DEF Refill, UnusedIsFull
    <2>3. QED
      BY <1>7, <1>k, <2>2 DEF Refill, Separate
  <1>8. CASE RefillGlobal \/ Signal \/ TimesOut \/ Exit \/ UNCHANGED vars
    <2>1. UNCHANGED <<limiter, tokens, job>>
      BY <1>8 DEF RefillGlobal, Signal, TimesOut, Exit, vars
    <2>2. UnusedIsFull'
      BY <1>t, <2>1, StaysReferenced DEF In
    <2>3. QED
      BY <1>k, <2>1, <2>2 DEF Separate
  <1>9. QED
    BY <1>2, <1>3, <1>4, <1>5, <1>6, <1>7, <1>8 DEF Next, Step
-----------------------------------------------------------------------------
(* Clients are kept apart.                                                 *)

\* No request is under way.
LEMMA ApartInit == Init => Apart
  BY Constants DEF Init, Apart, LooksUpOwn, HeldForOne, HeldOrGone, OwnBucket, In

\* Behind proxies, a request that is not about to take a token moves on without touching
\* a bucket.
LEMMA ApartMoves ==
    ASSUME TypeOK, Apart, Proxies # {}, NEW h \in Handlers, NEW j, Goes(h, j),
           UNCHANGED <<limiter, tokens, own>>,
           In(h, "lookup")' => job'[h].key = Client(h)',
           In(h, "allow")' =>
               /\ limiter[job'[h].client] = job'[h].limiter
               /\ \A k \in Addresses : limiter[k] = job'[h].limiter => k = job'[h].client
    PROVE  LooksUpOwn' /\ HeldForOne' /\ HeldOrGone' /\ OwnBucket'
  <1>1. \A g \in Handlers \ {h} : job'[g] = job[g]
    BY Elsewhere
  <1>2. LooksUpOwn'
    BY <1>1 DEF Apart, LooksUpOwn, In, Client
  <1>3. HeldForOne'
    BY <1>1 DEF Apart, HeldForOne, In, Client
  <1>4. HeldOrGone'
    BY <1>1 DEF Apart, HeldOrGone, In, Client
  <1>5. OwnBucket'
    BY DEF Apart, OwnBucket
  <1>6. QED
    BY <1>2, <1>3, <1>4, <1>5

\* Every action keeps the clients' buckets apart.
LEMMA ApartStep == IInv /\ [Next]_vars => Apart'
  <1> SUFFICES ASSUME IInv, [Next]_vars, Proxies # {}
               PROVE  LooksUpOwn' /\ HeldForOne' /\ HeldOrGone' /\ OwnBucket'
    BY DEF Apart
  <1> DEFINE Goal == LooksUpOwn' /\ HeldForOne' /\ HeldOrGone' /\ OwnBucket'
  <1>t. /\ Types /\ TypeOK /\ OneEach /\ UnusedIsFull
        /\ Apart /\ LooksUpOwn /\ HeldForOne /\ HeldOrGone /\ OwnBucket
    BY DEF IInv, Types, Separate, Apart
  <1>1. ASSUME NEW h \in Handlers, NEW c \in Clients, Arrive(h, c) PROVE Goal
    <2>1. Goes(h, [step |-> "lookup", client |-> c, key |-> c])
      BY <1>1, TakenForItself DEF Arrive
    <2>2. job'[h] = [step |-> "lookup", client |-> c, key |-> c]
      BY <1>t, <2>1, Elsewhere
    <2>3. QED
      BY <1>1, <1>t, <2>1, <2>2, ApartMoves DEF Arrive, In, Client
  <1>2. ASSUME NEW h \in Handlers, Found(h) PROVE Goal
    <2> DEFINE key == job[h].key
    <2>1. /\ key = Client(h) /\ key \in Addresses /\ limiter[key] # None
          /\ Goes(h, [step |-> "allow", client |-> key, limiter |-> limiter[key]])
      BY <1>2, <1>t, JobTypes DEF Found, LooksUpOwn, Take
    <2>2. job'[h] = [step |-> "allow", client |-> key, limiter |-> limiter[key]]
      BY <1>t, <2>1, Elsewhere
    <2>3. \A k \in Addresses : limiter[k] = limiter[key] => k = key
      BY <1>t, <2>1 DEF OneEach
    <2>4. UNCHANGED <<limiter, tokens, own>>
      BY <1>2 DEF Found
    <2> HIDE DEF key
    <2>5. QED
      BY <1>t, <2>1, <2>2, <2>3, <2>4, ApartMoves DEF In
  <1>3. ASSUME NEW h \in Handlers, NEW out \in {{}} \cup {{k} : k \in Entries}, Created(h, out)
        PROVE  Goal
    <2> DEFINE key == job[h].key
    <2>1. key = Client(h) /\ key \in Addresses /\ limiter[key] = None
      BY <1>3, <1>t, JobTypes DEF Created, LooksUpOwn
    <2>2. /\ Fresh \in Limiters /\ Fresh # None /\ tokens[Fresh] = IPBurst
          /\ \A k \in Addresses : limiter[k] # Fresh
          /\ \A g \in Handlers : In(g, "allow") => job[g].limiter # Fresh
      BY <1>3, <1>t, FreshExists, Constants DEF Created, Referenced, UnusedIsFull
    <2>3. /\ job'[h] = [step |-> "allow", client |-> key, limiter |-> Fresh]
          /\ \A g \in Handlers \ {h} : job'[g] = job[g]
      BY <1>3, <1>t, <2>1, Elsewhere DEF Created, Take
    <2>4. \A k \in Addresses :
             /\ limiter'[k] = IF k = key THEN Fresh ELSE IF k \in out THEN None ELSE limiter[k]
             /\ own'[k] = IF k \in out THEN Gone ELSE own[k]
      BY <1>3 DEF Created
    <2>5. \A g \in Handlers : In(g, "allow") =>
             job[g].limiter # None /\ Client(g) \in Addresses
      BY <1>t, JobTypes, Constants
    <2> HIDE DEF key
    <2>6. LooksUpOwn'
      BY <1>t, <2>3 DEF LooksUpOwn, In, Client
    <2>7. HeldForOne'
      <3> SUFFICES ASSUME NEW g \in Handlers, In(g, "allow")', NEW k \in Addresses,
                          limiter'[k] = job'[g].limiter
                   PROVE  k = Client(g)'
        BY DEF HeldForOne
      <3>1. CASE g = h
        BY <2>2, <2>3, <2>4, <3>1 DEF Client
      <3>2. CASE g # h
        <4>1. In(g, "allow") /\ Client(g)' = Client(g) /\ job'[g].limiter = job[g].limiter
          BY <2>3, <3>2 DEF In, Client
        <4>2. limiter[k] = job[g].limiter
          BY <2>2, <2>4, <2>5, <4>1
        <4>3. QED
          BY <1>t, <4>1, <4>2 DEF HeldForOne
      <3>3. QED
        BY <3>1, <3>2
    <2>8. HeldOrGone'
      <3> SUFFICES ASSUME NEW g \in Handlers, In(g, "allow")'
                   PROVE  own'[Client(g)'] = Gone \/ limiter'[Client(g)'] = job'[g].limiter
        BY DEF HeldOrGone
      <3>1. CASE g = h
        BY <2>1, <2>3, <2>4, <3>1 DEF Client
      <3>2. CASE g # h
        <4>1. In(g, "allow") /\ Client(g)' = Client(g) /\ job'[g].limiter = job[g].limiter
          BY <2>3, <3>2 DEF In, Client
        <4>2. CASE own[Client(g)] = Gone
          BY <2>4, <2>5, <4>1, <4>2
        <4>3. CASE limiter[Client(g)] = job[g].limiter
          <5>1. Client(g) # key
            BY <2>1, <2>5, <4>1, <4>3
          <5>2. QED
            BY <2>4, <2>5, <4>1, <4>3, <5>1
        <4>4. QED
          BY <1>t, <4>1, <4>2, <4>3 DEF HeldOrGone
      <3>3. QED
        BY <3>1, <3>2
    <2>9. OwnBucket'
      <3> SUFFICES ASSUME NEW c \in Clients, own'[c] # Gone
                   PROVE  own'[c] = IF limiter'[c] = None THEN IPBurst ELSE tokens'[limiter'[c]]
        BY DEF OwnBucket
      <3>1. c \in Addresses /\ own'[c] = own[c] /\ c \notin out
        BY <2>4, Constants
      <3>2. own[c] = IF limiter[c] = None THEN IPBurst ELSE tokens[limiter[c]]
        BY <1>t, <3>1 DEF OwnBucket
      <3>3. \A l \in Limiters :
               tokens'[l] = tokens[l] \/ (l \notin Referenced' /\ tokens'[l] = IPBurst)
        BY <1>3 DEF Created, Leaves
      <3>4. \A k \in Addresses : limiter'[k] \in Referenced'
        BY DEF Referenced
      <3>5. CASE c = key
        BY <2>1, <2>2, <2>4, <3>1, <3>2, <3>3, <3>5
      <3>6. CASE c # key
        <4>1. limiter'[c] = limiter[c] /\ limiter[c] \in Limiters \cup {None}
          BY <1>t, <2>4, <3>1, <3>6 DEF TypeOK
        <4>2. QED
          BY <3>1, <3>2, <3>3, <3>4, <4>1
      <3>7. QED
        BY <3>5, <3>6
    <2>10. QED
      BY <2>6, <2>7, <2>8, <2>9
  <1>4. ASSUME NEW h \in Handlers, Allowed(h) PROVE Goal
    <2> DEFINE c == Client(h)
               l == job[h].limiter
    <2>1. c \in Clients /\ c \in Addresses /\ l \in Limiters /\ l # None /\ tokens[l] > 0
      BY <1>4, <1>t, JobTypes, Constants DEF Allowed
    <2>2. /\ job'[h] = [step |-> "handle"] /\ \A g \in Handlers \ {h} : job'[g] = job[g]
          /\ UNCHANGED limiter
      BY <1>4, <1>t, Elsewhere DEF Allowed
    <2>3. \A k \in Addresses :
             own'[k] = IF k = c /\ own[k] > 0 THEN own[k] - 1 ELSE own[k]
      BY <1>4, <1>t DEF Allowed, TypeOK
    <2>4. \A m \in Limiters : m \in Referenced' =>
             tokens'[m] = IF m = l THEN tokens[m] - 1 ELSE tokens[m]
      BY <1>4, <1>t DEF Allowed, Leaves, TypeOK
    <2>5. \A k \in Clients : limiter[k] = l => k = c
      BY <1>4, <1>t, Constants DEF Allowed, HeldForOne
    <2>6. own[c] = Gone \/ limiter[c] = l
      BY <1>4, <1>t DEF Allowed, HeldOrGone
    <2> HIDE DEF c, l
    <2>7. LooksUpOwn'
      BY <1>t, <2>2 DEF LooksUpOwn, In, Client
    <2>8. HeldForOne'
      BY <1>t, <2>2 DEF HeldForOne, In, Client
    <2>9. HeldOrGone'
      <3> SUFFICES ASSUME NEW g \in Handlers, In(g, "allow")'
                   PROVE  own'[Client(g)'] = Gone \/ limiter'[Client(g)'] = job'[g].limiter
        BY DEF HeldOrGone
      <3>1. In(g, "allow") /\ Client(g)' = Client(g) /\ job'[g].limiter = job[g].limiter
        BY <2>2 DEF In, Client
      <3>2. Client(g) \in Addresses
        BY <1>t, <3>1, JobTypes, Constants
      <3>3. own[Client(g)] = Gone => own'[Client(g)] = Gone
        BY <2>3, <3>2 DEF Gone
      <3>4. QED
        BY <1>t, <2>2, <3>1, <3>3 DEF HeldOrGone
    <2>10. OwnBucket'
      <3> SUFFICES ASSUME NEW d \in Clients, own'[d] # Gone
                   PROVE  own'[d] = IF limiter'[d] = None THEN IPBurst ELSE tokens'[limiter'[d]]
        BY DEF OwnBucket
      <3>1. d \in Addresses /\ limiter[d] \in Limiters \cup {None} /\ own[d] \in Gone..IPBurst
        BY <1>t, Constants DEF TypeOK
      <3>2. own[d] # Gone
        BY <2>3, <3>1 DEF Gone
      <3>3. own[d] = IF limiter[d] = None THEN IPBurst ELSE tokens[limiter[d]]
        BY <1>t, <3>2 DEF OwnBucket
      <3>4. limiter[d] # None => limiter[d] \in Referenced'
        BY <2>2, <3>1 DEF Referenced
      <3>5. CASE d = c
        <4>1. limiter[d] = l /\ own[d] = tokens[l]
          BY <2>1, <2>6, <3>2, <3>3, <3>5
        <4>2. own'[d] = tokens[l] - 1
          BY <2>1, <2>3, <3>1, <3>5, <4>1
        <4>3. tokens'[l] = tokens[l] - 1
          BY <2>1, <2>4, <3>4, <4>1
        <4>4. QED
          BY <2>1, <2>2, <4>1, <4>2, <4>3
      <3>6. CASE d # c
        BY <2>2, <2>3, <2>4, <2>5, <3>1, <3>3, <3>4, <3>6
      <3>7. QED
        BY <3>5, <3>6
    <2>11. QED
      BY <2>7, <2>8, <2>9, <2>10
  <1>5. ASSUME NEW h \in Handlers, Denied(h) PROVE Goal
    <2>1. /\ job'[h] = None /\ \A g \in Handlers \ {h} : job'[g] = job[g]
          /\ UNCHANGED <<limiter, own>>
      BY <1>5, <1>t, Elsewhere DEF Denied
    <2>2. \A m \in Limiters : m \in Referenced' => tokens'[m] = tokens[m]
      BY <1>5 DEF Denied, Leaves
    <2>3. \A k \in Addresses : limiter[k] \in Referenced'
      BY <2>1 DEF Referenced
    <2>4. LooksUpOwn'
      BY <1>t, <2>1 DEF LooksUpOwn, In, Client
    <2>5. HeldForOne'
      BY <1>t, <2>1 DEF HeldForOne, In, Client
    <2>6. HeldOrGone'
      BY <1>t, <2>1 DEF HeldOrGone, In, Client
    <2>7. OwnBucket'
      <3> SUFFICES ASSUME NEW d \in Clients, own[d] # Gone
                   PROVE  own[d] = IF limiter[d] = None THEN IPBurst ELSE tokens'[limiter[d]]
        BY <2>1 DEF OwnBucket
      <3>1. own[d] = IF limiter[d] = None THEN IPBurst ELSE tokens[limiter[d]]
        BY <1>t DEF OwnBucket
      <3>2. d \in Addresses /\ limiter[d] \in Limiters \cup {None}
        BY <1>t, Constants DEF TypeOK
      <3>3. QED
        BY <2>2, <2>3, <3>1, <3>2
    <2>8. QED
      BY <2>4, <2>5, <2>6, <2>7
  <1>6. ASSUME NEW h \in Handlers,
               Refused(h) \/ Verified(h) \/ Forwarded(h) \/ StripeReturns(h)
        PROVE  Goal
    <2>1. UNCHANGED <<limiter, tokens, own>>
      BY <1>6 DEF Refused, Verified, Forwarded, StripeReturns, Served
    <2>2. CASE Goes(h, None)
      <3>1. ~In(h, "lookup")' /\ ~In(h, "allow")'
        BY <1>t, <2>2, Elsewhere DEF In
      <3>2. QED
        BY <1>t, <2>1, <2>2, <3>1, ApartMoves
    <2>3. CASE Goes(h, [step |-> "stripe"])
      <3>1. ~In(h, "lookup")' /\ ~In(h, "allow")'
        BY <1>t, <2>3, Elsewhere DEF In
      <3>2. QED
        BY <1>t, <2>1, <2>3, <3>1, ApartMoves
    <2>4. QED
      BY <1>6, <2>2, <2>3 DEF Refused, Verified, Forwarded, StripeReturns, Served
  <1>7. CASE Refill
    <2>1. UNCHANGED <<limiter, job>>
      BY <1>7 DEF Refill
    <2>2. /\ \A m \in Limiters : tokens'[m] = Refilled(tokens[m])
          /\ \A k \in Addresses : own'[k] = Refilled(own[k]) /\ (own'[k] = Gone <=> own[k] = Gone)
      BY <1>7, <1>t, RefilledIs DEF Refill, TypeOK
    <2>3. LooksUpOwn' /\ HeldForOne'
      BY <1>t, <2>1 DEF LooksUpOwn, HeldForOne, In, Client
    <2>4. HeldOrGone'
      <3> SUFFICES ASSUME NEW g \in Handlers, In(g, "allow")
                   PROVE  own'[Client(g)] = Gone \/ limiter[Client(g)] = job[g].limiter
        BY <2>1 DEF HeldOrGone, In, Client
      <3>1. Client(g) \in Addresses
        BY <1>t, JobTypes, Constants
      <3>2. QED
        BY <1>t, <2>2, <3>1 DEF HeldOrGone
    <2>5. OwnBucket'
      <3> SUFFICES ASSUME NEW d \in Clients, own'[d] # Gone
                   PROVE  own'[d] = IF limiter[d] = None THEN IPBurst ELSE tokens'[limiter[d]]
        BY <2>1 DEF OwnBucket
      <3>1. d \in Addresses /\ limiter[d] \in Limiters \cup {None}
        BY <1>t, Constants DEF TypeOK
      <3>2. own[d] = IF limiter[d] = None THEN IPBurst ELSE tokens[limiter[d]]
        BY <1>t, <2>2, <3>1 DEF OwnBucket
      <3>3. QED
        BY <2>2, <3>1, <3>2, RefilledIs
    <2>6. QED
      BY <2>3, <2>4, <2>5
  <1>8. CASE RefillGlobal \/ Signal \/ TimesOut \/ Exit \/ UNCHANGED vars
    <2>1. UNCHANGED <<limiter, tokens, job, own>>
      BY <1>8 DEF RefillGlobal, Signal, TimesOut, Exit, vars
    <2>2. LooksUpOwn' /\ HeldForOne' /\ HeldOrGone'
      BY <1>t, <2>1 DEF LooksUpOwn, HeldForOne, HeldOrGone, In, Client
    <2>3. OwnBucket'
      BY <1>t, <2>1 DEF OwnBucket
    <2>4. QED
      BY <2>2, <2>3
  <1>9. QED
    BY <1>1, <1>2, <1>3, <1>4, <1>5, <1>6, <1>7, <1>8 DEF Next, Step
-----------------------------------------------------------------------------
\* The invariant is inductive.
THEOREM Invariance == Spec => []IInv
  <1>1. Init => IInv
    BY TypesInit, SeparateInit, ApartInit DEF IInv
  <1>2. IInv /\ [Next]_vars => IInv'
    BY TypesStep, SeparateStep, ApartStep DEF IInv
  <1>3. QED
    BY <1>1, <1>2, PTL DEF Spec

\* However the requests interleave, the map never holds more entries than its bound, and every
\* variable has its type (ratelimit.go:95-113).
THEOREM MapStaysBounded == Spec => []TypeOK
  <1>1. IInv => TypeOK
    BY DEF IInv, Types
  <1>2. QED
    BY <1>1, Invariance, PTL

\* Behind configured proxies every client is held to a bucket of its own, whatever it claims
\* in the header, although a request uses its limiter after the unlock (ratelimit.go:115).
THEOREM ClientsKeepTheirBucket == Spec => []OwnBucket
  <1>1. IInv => OwnBucket
    BY DEF IInv, Apart, OwnBucket
  <1>2. QED
    BY <1>1, Invariance, PTL
=============================================================================

--------------------------- MODULE StripeFrontEnd ---------------------------
(***************************************************************************)
(* The payment, customer and webhook services: the shared rate limiter     *)
(* (shared/middleware/ratelimit.go) in front of handlers that call Stripe  *)
(* or check its signature, and the shutdown of the three mains. A token    *)
(* bucket is library code: it holds up to its burst, a request takes one   *)
(* token, and time refills the buckets of one rate together.               *)
(***************************************************************************)
EXTENDS Integers, Sequences, FiniteSets, FiniteSetsExt

CONSTANTS Handlers,
          Clients,        \* addresses requests come from
          Proxies,        \* TrustedProxies
          Blank,          \* an empty entry of X-Forwarded-For
          Limiters,       \* rate.Limiter objects
          MaxIPLimiters, IPBurst, GlobalBurst,
          MaxProxies,     \* bound: the proxies a request passes
          Waits,          \* does main wait for Shutdown? payment-service does not
          None

ASSUME FrontEndConstants ==
    /\ {MaxIPLimiters, IPBurst, GlobalBurst} \subseteq Nat \ {0}
    /\ MaxProxies \in Nat /\ Waits \in BOOLEAN
    /\ IsFiniteSet(Handlers)
    /\ \A S \in SUBSET Limiters :    \* a further limiter can always be allocated
           IsFiniteSet(S) /\ Cardinality(S) < MaxIPLimiters + Cardinality(Handlers) => S # Limiters
    /\ None \notin Limiters /\ Clients \cap (Proxies \cup {Blank}) = {} /\ Blank \notin Proxies

VARIABLES
    global,     \* tokens of globalLimiter
    limiter,    \* ipLimiters: of each address, None if it has no entry
    tokens,     \* of each limiter
    job,        \* what each handler is doing, None when idle
    phase,      \* serving, draining (server.Shutdown was called), exited
    late,       \* the shutdown timeout has passed
    own         \* history: tokens of a bucket that each address would have for itself, Gone
                \* once its entry has been removed

vars == <<global, limiter, tokens, job, phase, late, own>>
server == <<phase, late>>
Gone == -1

Addresses == Clients \cup Proxies

\* Fault: the left-most entry is believed whoever sent it.
ClientIPLeftmost(peer, hops) ==
    IF hops # <<>> /\ hops[1] # Blank THEN hops[1] ELSE peer

\* getClientIP: the right-most hop that is no trusted proxy if the peer is one; the left-most
\* if no proxy is configured.
ClientIP(peer, hops) ==
    LET real  == {i \in 1..Len(hops) : hops[i] \notin Proxies \cup {Blank}}
        first == IF hops # <<>> /\ hops[1] # Blank THEN hops[1] ELSE peer
    IN  IF hops = <<>> \/ (Proxies # {} /\ peer \notin Proxies) THEN peer
        ELSE IF Proxies # {} /\ real # {} THEN hops[Max(real)] ELSE first

\* What a client may put in the header.
Claims == {<<>>} \cup {<<ip>> : ip \in Addresses \cup {Blank}}

\* How a request can arrive: with what is in its header, through these proxies one after the
\* other. Each appends the address it was called from to the header.
Routes == [claim : Claims, through : UNION {[1..n -> Proxies] : n \in 0..MaxProxies}]
Peer(c, route) == IF route.through = <<>> THEN c ELSE route.through[Len(route.through)]
Hops(c, route) ==
    IF route.through = <<>> THEN route.claim
    ELSE route.claim \o <<c>> \o SubSeq(route.through, 1, Len(route.through) - 1)

\* The addresses a client can be taken for.
TakenFor == [c \in Clients |-> {ClientIP(Peer(c, route), Hops(c, route)) : route \in Routes}]

Job == [step : {"lookup"}, client : Clients, key : Addresses]
       \cup [step : {"allow"}, client : Clients, limiter : Limiters]
       \cup [step : {"handle", "stripe"}]

In(h, step) == job[h] # None /\ job[h].step = step
Client(h) == job[h].client
Goes(h, j) == job' = [job EXCEPT ![h] = j]

Init ==
    /\ global = GlobalBurst /\ limiter = [k \in Addresses |-> None]
    /\ tokens = [l \in Limiters |-> IPBurst] /\ job = [h \in Handlers |-> None]
    /\ phase = "serving" /\ late = FALSE
    /\ own = [k \in Addresses |-> IPBurst]
-----------------------------------------------------------------------------
(* RateLimiter.Middleware.                                                 *)

\* The global bucket lets the request pass; otherwise it is answered with 429 at once.
Arrive(h, c) ==
    /\ phase = "serving" /\ job[h] = None
    /\ global > 0 /\ global' = global - 1
    /\ \E ip \in TakenFor[c] : Goes(h, [step |-> "lookup", client |-> c, key |-> ip])
    /\ UNCHANGED <<limiter, tokens, server, own>>

\* A limiter nobody refers to is collected: the model keeps its bucket full, as a new one's.
Referenced ==
    {limiter[k] : k \in Addresses} \cup {job[h].limiter : h \in {g \in Handlers : In(g, "allow")}}
Fresh == CHOOSE l \in Limiters \ Referenced : TRUE
Leaves(t) == tokens' = [l \in Limiters |-> IF l \in Referenced' THEN t[l] ELSE IPBurst]

Take(h, l) == Goes(h, [step |-> "allow", client |-> Client(h), limiter |-> l])

Found(h) ==
    /\ In(h, "lookup") /\ limiter[job[h].key] # None /\ Take(h, limiter[job[h].key])
    /\ UNCHANGED <<global, limiter, tokens, server, own>>

Entries == {k \in Addresses : limiter[k] # None}

\* Fault: an entry is removed only while no other handler waits for the map.
CreatedUnbounded(h, out) ==
    /\ In(h, "lookup") /\ limiter[job[h].key] = None
    /\ out # {} <=> Cardinality(Entries) = MaxIPLimiters /\ \A g \in Handlers \ {h} : ~In(g, "lookup")
    /\ limiter' = [k \in Addresses |-> IF k = job[h].key THEN Fresh
                                       ELSE IF k \in out THEN None ELSE limiter[k]]
    /\ own' = [k \in Addresses |-> IF k \in out THEN Gone ELSE own[k]]
    /\ Take(h, Fresh) /\ Leaves(tokens)
    /\ UNCHANGED <<global, server>>

\* A new limiter is entered; if there are now too many, some other entry is removed.
Created(h, out) ==
    /\ In(h, "lookup") /\ limiter[job[h].key] = None
    /\ out # {} <=> Cardinality(Entries) = MaxIPLimiters
    /\ limiter' = [k \in Addresses |-> IF k = job[h].key THEN Fresh
                                       ELSE IF k \in out THEN None ELSE limiter[k]]
    /\ own' = [k \in Addresses |-> IF k \in out THEN Gone ELSE own[k]]
    /\ Take(h, Fresh) /\ Leaves(tokens)
    /\ UNCHANGED <<global, server>>

\* After the lock was released: the limiter may no longer be in the map.
Allowed(h) ==
    /\ In(h, "allow") /\ tokens[job[h].limiter] > 0
    /\ own' = [own EXCEPT ![Client(h)] = IF @ > 0 THEN @ - 1 ELSE @]
    /\ Goes(h, [step |-> "handle"])
    /\ UNCHANGED <<global, limiter, server>>
    /\ Leaves([tokens EXCEPT ![job[h].limiter] = @ - 1])

Denied(h) ==
    /\ In(h, "allow") /\ tokens[job[h].limiter] = 0 /\ Goes(h, None)
    /\ UNCHANGED <<global, limiter, server, own>> /\ Leaves(tokens)

Refilled(n) == IF n \in 0..(IPBurst - 1) THEN n + 1 ELSE n

\* Time passes: one token for every bucket of an address.
Refill ==
    /\ tokens' = [l \in Limiters |-> Refilled(tokens[l])]
    /\ own' = [k \in Addresses |-> Refilled(own[k])]
    /\ UNCHANGED <<global, limiter, job, server>>

RefillGlobal ==
    /\ global < GlobalBurst /\ global' = global + 1
    /\ UNCHANGED <<limiter, tokens, job, server, own>>
-----------------------------------------------------------------------------
(* The handlers and the mains.                                             *)

Served(h) == Goes(h, None) /\ UNCHANGED <<global, limiter, tokens, server, own>>

\* CreatePayment and CreateCustomer refuse a body, GetPayment and GetCustomer an empty id.
Refused(h) == In(h, "handle") /\ Served(h)

\* HandleWebhook calls nobody: the signature matches or it does not.
Verified(h) == In(h, "handle") /\ Served(h)

\* A valid request is handed on to Stripe.
Forwarded(h) ==
    /\ In(h, "handle") /\ Goes(h, [step |-> "stripe"])
    /\ UNCHANGED <<global, limiter, tokens, server, own>>

\* Stripe answers or fails, or RequestTimeout ends the call: the client gets its answer.
StripeReturns(h) == In(h, "stripe") /\ Served(h)

Signal ==
    /\ phase = "serving" /\ phase' = "draining"
    /\ UNCHANGED <<global, limiter, tokens, job, late, own>>

\* ShutdownTimeout.
TimesOut ==
    /\ phase = "draining" /\ ~late /\ late' = TRUE
    /\ UNCHANGED <<global, limiter, tokens, job, phase, own>>

\* Fault: main goes on as soon as it has told the server to shut down.
ExitAtOnce ==
    /\ phase = "draining" /\ phase' = "exited"
    /\ UNCHANGED <<global, limiter, tokens, job, late, own>>

\* Shutdown returns when no handler is busy or time is up. payment-service's run selects on
\* the context and does not wait for it.
Exit ==
    /\ phase = "draining" /\ phase' = "exited"
    /\ Waits => late \/ \A h \in Handlers : job[h] = None
    /\ UNCHANGED <<global, limiter, tokens, job, late, own>>

Step(h) ==
    \/ Found(h) \/ \E out \in {{}} \cup {{k} : k \in Entries} : Created(h, out)
    \/ Allowed(h) \/ Denied(h)
    \/ Refused(h) \/ Verified(h) \/ Forwarded(h) \/ StripeReturns(h)

Next ==
    /\ phase # "exited"
    /\ \/ \E h \in Handlers :
             Step(h) \/ \E c \in Clients : Arrive(h, c)
       \/ Refill \/ RefillGlobal
       \/ Signal \/ TimesOut \/ Exit

\* Handlers run, and what they call has a timeout.
Fairness == \A h \in Handlers : WF_vars(phase # "exited" /\ Step(h))

Spec == Init /\ [][Next]_vars /\ Fairness
-----------------------------------------------------------------------------
\* Every variable has its type, and the map stays within its bound.
TypeOK ==
    /\ global \in 0..GlobalBurst
    /\ limiter \in [Addresses -> Limiters \cup {None}]
    /\ Cardinality(Entries) <= MaxIPLimiters
    /\ tokens \in [Limiters -> 0..IPBurst]
    /\ job \in [Handlers -> Job \cup {None}]
    /\ phase \in {"serving", "draining", "exited"} /\ late \in BOOLEAN
    /\ own \in [Addresses -> Gone..IPBurst]

\* Behind configured proxies every client is held to a bucket of its own, whatever its requests
\* claim and however they interleave, unless the map's bound has cost it its entry
\* (ratelimit.go:95-113 looks the limiter up, ratelimit.go:115 uses it after the unlock).
OwnBucket ==
    Proxies # {} =>
        \A c \in Clients : own[c] # Gone =>
            own[c] = IF limiter[c] = None THEN IPBurst ELSE tokens[limiter[c]]

\* Where main waits for the shutdown, every admitted request is answered before the process
\* ends, unless the shutdown timeout passes first.
AdmittedAnswered ==
    Waits => \A h \in Handlers : In(h, "handle") ~> job[h] = None \/ late
=============================================================================

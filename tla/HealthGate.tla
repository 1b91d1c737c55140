----------------------------- MODULE HealthGate -----------------------------
(***************************************************************************)
(* services/gateway: the health checker's rounds of probes, the routes     *)
(* with their guards, the gate that lets a request through to an upstream  *)
(* only while its last probe succeeded, and main's shutdown. A handler is  *)
(* a goroutine of the HTTP server. Whatever may make an upstream fail, the *)
(* network included, is its status. The store of refresh tokens in the     *)
(* same process is RefreshTokens, which shares no state with this module.  *)
(***************************************************************************)
EXTENDS Integers

CONSTANTS Upstreams, Handlers,
          Absent    \* no valid token, no answer yet

ASSUME GateConstants == Absent \notin Upstreams

VARIABLES
    status,     \* of each upstream: up, down (refuses or fails), hung (does not answer)
    flag,       \* HealthChecker: Backend.Healthy
    loop,       \* its goroutine: idle (in its select), round (in checkAll), gone
    tick,       \* a tick waits in the ticker's channel, or the first round has not begun
    probe,      \* of each upstream in this round: none, asked, or what it said (yes, no)
    main,       \* serving, stopping (health stopped), draining (server.Shutdown), exited
    at,         \* the upstream a handler is proxying to, or the status it answered with last
    recent,     \* history: verdicts each upstream would have had since this round began
    previous    \* history: the same, for the round before and the time up to this one

gateVars == <<status, flag, loop, tick, probe, main, at, recent, previous>>
checker == <<flag, loop, tick, probe, previous>>
gateway == <<main, at>>

Running == main # "exited"
Healthy(s) == s = "up"

GateInit ==
    /\ status \in [Upstreams -> {"up", "down", "hung"}]
    /\ flag = [n \in Upstreams |-> FALSE] /\ loop = "idle" /\ tick = TRUE
    /\ probe = [n \in Upstreams |-> "none"]
    /\ main = "serving" /\ at = [h \in Handlers |-> Absent]
    /\ recent = [n \in Upstreams |-> {FALSE, Healthy(status[n])}]
    /\ previous = [n \in Upstreams |-> {FALSE}]

\* External: an upstream comes up, fails or hangs.
Becomes(n, s) ==
    /\ status[n] # s /\ status' = [status EXCEPT ![n] = s]
    /\ recent' = [recent EXCEPT ![n] = @ \cup {Healthy(s)}]
    /\ UNCHANGED <<checker, gateway>>
-----------------------------------------------------------------------------
(* HealthChecker.                                                          *)

Tick ==
    /\ ~tick /\ loop # "gone" /\ tick' = TRUE
    /\ UNCHANGED <<status, flag, loop, probe, gateway, recent, previous>>

\* checkAll starts a probe of every upstream. A stop that came meanwhile may lose the select.
RoundBegins ==
    /\ loop = "idle" /\ tick
    /\ loop' = "round" /\ tick' = FALSE
    /\ probe' = [n \in Upstreams |-> IF probe[n] = "none" THEN "asked" ELSE probe[n]]
    /\ previous' = recent /\ recent' = [n \in Upstreams |-> {Healthy(status[n])}]
    /\ UNCHANGED <<status, flag, gateway>>

\* Fault: neither the client nor the context has a timeout.
ProbeEndsUntimed(n) ==
    /\ probe[n] = "asked" /\ status[n] # "hung"
    /\ probe' = [probe EXCEPT ![n] = IF Healthy(status[n]) THEN "yes" ELSE "no"]
    /\ UNCHANGED <<status, flag, loop, tick, gateway, recent, previous>>

\* The upstream answers /health, or fails to, or 2 s go by.
ProbeEnds(n) ==
    /\ probe[n] = "asked"
    /\ probe' = [probe EXCEPT ![n] = IF Healthy(status[n]) THEN "yes" ELSE "no"]
    /\ UNCHANGED <<status, flag, loop, tick, gateway, recent, previous>>

\* Under the write lock.
Store(n) ==
    /\ probe[n] \in {"yes", "no"} /\ probe' = [probe EXCEPT ![n] = "none"]
    /\ flag' = [flag EXCEPT ![n] = (probe[n] = "yes")]
    /\ UNCHANGED <<status, loop, tick, gateway, recent, previous>>

\* Fault: checkAll does not wait for its probes.
RoundEndsUnwaited ==
    /\ loop = "round" /\ loop' = "idle"
    /\ UNCHANGED <<status, flag, tick, probe, gateway, recent, previous>>

\* wg.Wait
RoundEnds ==
    /\ loop = "round" /\ \A n \in Upstreams : probe[n] = "none"
    /\ loop' = "idle"
    /\ UNCHANGED <<status, flag, tick, probe, gateway, recent, previous>>

LoopLeaves ==
    /\ loop = "idle" /\ main # "serving" /\ loop' = "gone"
    /\ UNCHANGED <<status, flag, tick, probe, gateway, recent, previous>>
-----------------------------------------------------------------------------
(* Requests. A token is the set of its roles, Absent one that is not valid. *)

Accepting == main \in {"serving", "stopping"}
Free(h) == at[h] \notin Upstreams
Answer(h, code) == at' = [at EXCEPT ![h] = code]

\* RequireRole and RequireAnyRole: {} where every valid token will do.
Required(route) ==
    CASE route = "admin" -> {"admin"} [] route = "reports" -> {"admin", "reporter"} [] OTHER -> {}

\* What AuthMiddleware and the role guards make of a request for a route of the gateway's own.
Guarded(route, roles) ==
    IF route \in {"welcome", "elsewhere"} THEN (IF route = "welcome" THEN 200 ELSE 404)
    ELSE IF roles = Absent THEN 401
    ELSE IF Required(route) # {} /\ Required(route) \cap roles = {} THEN 403 ELSE 200

Serve(h, route, roles) ==
    /\ Accepting /\ Free(h) /\ Answer(h, Guarded(route, roles))
    /\ UNCHANGED <<status, checker, main, recent>>

\* A request for an upstream, with a token or without: the gate reads the flag.
Forward(h, n, roles) ==
    /\ Accepting /\ Free(h)
    /\ at' = [at EXCEPT ![h] = IF roles = Absent THEN 401 ELSE IF flag[n] THEN n ELSE 503]
    /\ UNCHANGED <<status, checker, main, recent>>

\* The upstream answers, or the proxy's ErrorHandler does.
Proxied(h) ==
    /\ ~Free(h) /\ status[at[h]] # "hung"
    /\ Answer(h, IF status[at[h]] = "up" THEN 200 ELSE 502)
    /\ UNCHANGED <<status, checker, main, recent>>

\* The client has gone: nothing is written. No other timeout ends a request to a hung upstream.
ClientGone(h) ==
    /\ ~Free(h) /\ Answer(h, Absent)
    /\ UNCHANGED <<status, checker, main, recent>>
-----------------------------------------------------------------------------
(* main.                                                                   *)

Moves(from, to) ==
    /\ main = from /\ main' = to
    /\ UNCHANGED <<status, checker, at, recent>>

Signal == Moves("serving", "stopping")           \* health.Stop()
CloseListener == Moves("stopping", "draining")   \* srv.Shutdown
\* No request is left, or 30 s have passed and log.Fatalf ends the process.
Exit == Moves("draining", "exited")

Handle(h) ==
    \/ \E route \in {"welcome", "profile", "admin", "reports", "elsewhere"},
          roles \in {Absent, {}, {"admin"}, {"reporter"}} : Serve(h, route, roles)
    \/ \E n \in Upstreams, roles \in {Absent, {}} : Forward(h, n, roles)
    \/ Proxied(h) \/ ClientGone(h)

GateNext ==
    /\ Running
    /\ \/ \E n \in Upstreams :
             ProbeEnds(n) \/ Store(n) \/ \E s \in {"up", "down", "hung"} : Becomes(n, s)
       \/ Tick \/ RoundBegins \/ RoundEnds \/ LoopLeaves
       \/ \E h \in Handlers : Handle(h)
       \/ Signal \/ CloseListener \/ Exit

\* The ticker goes on, the checker's goroutines run, and a probe ends within its timeout.
GateFairness ==
    /\ WF_gateVars(Running /\ Tick)
    /\ WF_gateVars(Running /\ RoundBegins) /\ WF_gateVars(Running /\ RoundEnds)
    /\ \A n \in Upstreams : WF_gateVars(Running /\ ProbeEnds(n)) /\ WF_gateVars(Running /\ Store(n))

GateSpec == GateInit /\ [][GateNext]_gateVars /\ GateFairness
-----------------------------------------------------------------------------
\* Every variable has its type, and a round's probes are over when the round is.
GateTypeOK ==
    /\ status \in [Upstreams -> {"up", "down", "hung"}]
    /\ flag \in [Upstreams -> BOOLEAN]
    /\ loop \in {"idle", "round", "gone"} /\ tick \in BOOLEAN
    /\ probe \in [Upstreams -> {"none", "asked", "yes", "no"}]
    /\ main \in {"serving", "stopping", "draining", "exited"}
    /\ at \in [Handlers -> Upstreams \cup {200, 401, 403, 404, 502, 503, Absent}]
    /\ recent \in [Upstreams -> SUBSET BOOLEAN] /\ previous \in [Upstreams -> SUBSET BOOLEAN]

\* The gate never decides on older news than the last round but one: what a flag says, its
\* upstream would have answered at some time since the previous round began
\* (healthcheck.go:79-100 waits for all probes; healthcheck.go:118 reads the flag).
FlagIsRecent == \A n \in Upstreams : flag[n] \in previous[n] \cup recent[n]

\* While the gateway serves, the flag of an upstream that stays up, or stays away, comes to
\* say so, even if other upstreams hang for ever.
FlagsSettle ==
    \A n \in Upstreams :
        /\ <>[](status[n] = "up") => <>(main # "serving") \/ <>[](flag[n])
        /\ <>[](status[n] # "up") => <>(main # "serving") \/ <>[](~flag[n])
=============================================================================

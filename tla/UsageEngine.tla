---------------------------- MODULE UsageEngine ----------------------------
(***************************************************************************)
(* The usage engine (services/usage-engine/main.go): one Redis hash per    *)
(* customer with a counter for every hour, the two commands with which     *)
(* POST /event adds to it, the hourly job that prunes and averages, and    *)
(* what Redis does when a key's time to live is over. Time is counted in   *)
(* hours.                                                                  *)
(***************************************************************************)
EXTENDS Integers, FiniteSets

CONSTANTS Handlers, Customers,
          Hours,          \* hours an event can be dated
          Window,         \* 7 days
          TTL,            \* usageKeyTTL
          MaxNow,         \* bound of the clock
          MaxEvents,      \* bound of the increments
          None

ASSUME EngineConstants ==
    /\ IsFiniteSet(Handlers) /\ Hours \subseteq Int /\ None \notin Int /\ None \notin Customers
    /\ Window \in Nat \ {0} /\ TTL \in Nat /\ Window < TTL /\ MaxNow \in Nat /\ MaxEvents \in Nat

VARIABLES
    now,
    count,      \* Redis: the fields of each customer's hash, 0 where there is none
    expires,    \* Redis: the hour in which the key goes, None without a time to live
    job,        \* the event each handler has counted, None when idle
    sweep,      \* the rolling average job, None between two rounds
    events,     \* increments so far
    accepted,   \* history: events answered with 202
    exposed     \* history: keys left without a time to live by a call that failed

vars == <<now, count, expires, job, sweep, events, accepted, exposed>>

Exists(c) == \E d \in Hours : count[c][d] > 0

\* `kept` is history: the key has not been evicted since the event was counted.
Event == [customer : Customers, hour : Hours, kept : BOOLEAN]
ASSUME NoneIsNoEvent == None \notin Event

Init ==
    /\ now = 0 /\ events = 0 /\ job = [h \in Handlers |-> None] /\ sweep = None
    /\ count = [c \in Customers |-> [d \in Hours |-> 0]] /\ accepted = count
    /\ expires = [c \in Customers |-> None] /\ exposed = {}
-----------------------------------------------------------------------------
(* POST /event, for an event that passes the checks: RedisUsageStore.Add.  *)

HIncrBy(c, d) ==
    /\ events < MaxEvents /\ events' = events + 1
    /\ count' = [count EXCEPT ![c][d] = @ + 1]

Counted(h, c, d) ==
    /\ job[h] = None /\ HIncrBy(c, d)
    /\ job' = [job EXCEPT ![h] = [customer |-> c, hour |-> d, kept |-> TRUE]]
    /\ UNCHANGED <<now, expires, sweep, accepted, exposed>>

\* A key that is left as it is: without a time to live if it had none.
Left(c) == exposed' = IF expires[c] = None THEN exposed \cup {c} ELSE exposed

\* The increment is applied and its reply lost: Add fails, or the Redis client sends it again.
CountedUnseen(c, d) ==
    /\ HIncrBy(c, d) /\ Left(c)
    /\ UNCHANGED <<now, expires, job, sweep, accepted>>

\* An event dated further ahead than this leaves with its key before it leaves the window.
InReach(d) == d <= now + TTL - Window

Answered(h) ==
    /\ accepted' = IF job[h].kept /\ InReach(job[h].hour)
                   THEN [accepted EXCEPT ![job[h].customer][job[h].hour] = @ + 1] ELSE accepted
    /\ job' = [job EXCEPT ![h] = None]

\* Fault: the time to live is set when a key has none, not refreshed.
RefreshedOnce(h) ==
    LET c == job[h].customer
        sets == Exists(c) /\ expires[c] = None
    IN  /\ job[h] # None /\ Answered(h)
        /\ expires' = [expires EXCEPT ![c] = IF sets THEN now + TTL ELSE @]
        /\ exposed' = IF sets THEN exposed \ {c} ELSE exposed
        /\ UNCHANGED <<now, count, sweep, events>>

\* Fault: the time to live is refreshed, not set when a key has none.
RefreshedOnly(h) ==
    LET c == job[h].customer
        sets == Exists(c) /\ expires[c] # None
    IN  /\ job[h] # None /\ Answered(h)
        /\ expires' = [expires EXCEPT ![c] = IF sets THEN now + TTL ELSE @]
        /\ exposed' = IF sets THEN exposed \ {c} ELSE exposed
        /\ UNCHANGED <<now, count, sweep, events>>

\* Expire reports no error for a key that is gone by now: the event is accepted all the same.
Refreshed(h) ==
    LET c == job[h].customer
    IN  /\ job[h] # None /\ Answered(h)
        /\ expires' = [expires EXCEPT ![c] = IF Exists(c) THEN now + TTL ELSE @]
        /\ exposed' = IF Exists(c) THEN exposed \ {c} ELSE exposed
        /\ UNCHANGED <<now, count, sweep, events>>

\* Expire fails: 500 for an event that has been counted.
RefreshFails(h) ==
    /\ job[h] # None /\ Left(job[h].customer)
    /\ job' = [job EXCEPT ![h] = None]
    /\ UNCHANGED <<now, count, expires, sweep, events, accepted>>

\* The process ends, by a crash or at the end of ShutdownTimeout, and starts again.
Restart ==
    /\ exposed' = exposed \cup {c \in Customers : expires[c] = None
                                   /\ \E h \in Handlers : job[h] # None /\ job[h].customer = c}
    /\ job' = [h \in Handlers |-> None] /\ sweep' = None
    /\ UNCHANGED <<now, count, expires, events, accepted>>
-----------------------------------------------------------------------------
(* startRollingAverageJob. One round uses the time at which it began.      *)

Sweep == [at : Int, todo : SUBSET Customers, customer : Customers \cup {None}, stale : SUBSET Hours]

RoundBegins ==
    /\ sweep = None
    /\ sweep' = [at |-> now, todo |-> {c \in Customers : Exists(c)}, customer |-> None, stale |-> {}]
    /\ sweep'.todo # {}
    /\ UNCHANGED <<now, count, expires, job, events, accepted, exposed>>

\* pruneOldHours' HGetAll.
PruneReads(c) ==
    /\ sweep # None /\ c \in sweep.todo /\ sweep.customer = None
    /\ sweep' = [sweep EXCEPT !.customer = c,
                              !.stale = {d \in Hours : count[c][d] > 0 /\ d <= sweep.at - TTL}]
    /\ UNCHANGED <<now, count, expires, job, events, accepted, exposed>>

\* The hours GetRollingAverage counts; what it returns is the mean of their counters.
InWindow(d, t) == t - Window < d /\ d <= t
Recent(c, t) == {d \in Hours : count[c][d] > 0 /\ InWindow(d, t)}

\* The average is logged, and the round goes on with the next key.
Reported ==
    LET rest == sweep.todo \ {sweep.customer}
    IN  sweep' = IF rest = {} THEN None
                 ELSE [sweep EXCEPT !.todo = rest, !.customer = None, !.stale = {}]

\* pruneOldHours' HDel. A hash without fields is gone, with its time to live.
Pruned ==
    LET c == sweep.customer
        kept == [d \in Hours |-> IF d \in sweep.stale THEN 0 ELSE count[c][d]]
        gone == \A d \in Hours : kept[d] = 0
    IN  /\ sweep # None /\ c # None /\ Reported
        /\ count' = [count EXCEPT ![c] = kept]
        /\ expires' = [expires EXCEPT ![c] = IF gone THEN None ELSE @]
        /\ exposed' = IF gone THEN exposed \ {c} ELSE exposed
        /\ UNCHANGED <<now, job, events, accepted>>

\* A Redis call fails: this key waits for the next round.
PruneFails ==
    /\ sweep # None /\ sweep.customer # None /\ Reported
    /\ UNCHANGED <<now, count, expires, job, events, accepted, exposed>>
-----------------------------------------------------------------------------
(* Redis and the clock.                                                    *)

Evicted(c) ==
    /\ expires[c] # None /\ expires[c] <= now
    /\ count' = [count EXCEPT ![c] = [d \in Hours |-> 0]]
    /\ expires' = [expires EXCEPT ![c] = None]
    /\ exposed' = exposed \ {c}
    /\ job' = [h \in Handlers |-> IF job[h] # None /\ job[h].customer = c
                                  THEN [job[h] EXCEPT !.kept = FALSE] ELSE job[h]]
    /\ UNCHANGED <<now, sweep, events, accepted>>

\* A key does not outlive the hour in which it expires.
Tick ==
    /\ now < MaxNow /\ now' = now + 1
    /\ \A c \in Customers : expires[c] # None => expires[c] > now
    /\ UNCHANGED <<count, expires, job, sweep, events, accepted, exposed>>

Next ==
    \/ \E c \in Customers, d \in Hours :
          CountedUnseen(c, d) \/ \E h \in Handlers : Counted(h, c, d)
    \/ \E h \in Handlers : Refreshed(h) \/ RefreshFails(h)
    \/ RoundBegins \/ Pruned \/ PruneFails
    \/ \E c \in Customers : PruneReads(c) \/ Evicted(c)
    \/ Restart \/ Tick

Spec == Init /\ [][Next]_vars
-----------------------------------------------------------------------------
\* Every variable has its type.
TypeOK ==
    /\ now \in Nat /\ events \in Nat
    /\ count \in [Customers -> [Hours -> Nat]] /\ accepted \in [Customers -> [Hours -> Nat]]
    /\ expires \in [Customers -> Int \cup {None}] /\ exposed \subseteq Customers
    /\ job \in [Handlers -> Event \cup {None}]
    /\ sweep \in Sweep \cup {None}

\* A rolling average taken at any moment counts every event of the last seven days that was
\* accepted, whatever other calls fail, however slowly the job deletes what it read, and
\* whenever the process ends (main.go:69, usageKeyTTL covers the window with a margin). An
\* event whose key runs out between the two commands of Add is not covered.
AcceptedCounted ==
    \A c \in Customers, d \in Hours :
        accepted[c][d] > 0 /\ InWindow(d, now) =>
            d \in Recent(c, now) /\ count[c][d] >= accepted[c][d]

\* A hash has a time to live (main.go:67, without one they grew without bound), but while the
\* call that created it goes on, or after one that failed between its two commands.
ExpiresUnlessCut ==
    \A c \in Customers \ exposed : Exists(c) /\ expires[c] = None =>
        \E h \in Handlers : job[h] # None /\ job[h].customer = c
=============================================================================

---------------------------- MODULE UsageService ----------------------------
(***************************************************************************)
(* services/usage-service: HTTP handlers submit usage events to a worker   *)
(* pool (internal/worker/pool.go), workers pass them to the metered        *)
(* billing client, and main() shuts the three down in a fixed order.       *)
(*                                                                         *)
(* Goroutines: one handler per request, the workers, and main. The channel *)
(* usageEvents is a set of at most QueueSize events: its order matters to  *)
(* no property. The alert channel has no producer in the program and is    *)
(* left out. The billing client is the moment its batch manager is stopped *)
(* and its context cancelled; BatchManager models what happens inside.     *)
(***************************************************************************)
EXTENDS Integers, FiniteSets

CONSTANTS Events,     \* the POST /usage requests of a behaviour
          Workers,    \* the WorkerPoolSize usage workers
          QueueSize,  \* MaxUsageQueueSize, the channel's capacity
          None        \* no event

ASSUME ServiceConstants ==
    /\ Workers # {} /\ IsFiniteSet(Workers)
    /\ QueueSize \in Nat \ {0}
    /\ None \notin Events

VARIABLES
    request,    \* what became of each request
    queue,      \* events in the usageEvents channel
    worker,     \* where each worker is in its loop
    job,        \* the event a worker is processing
    processed,  \* events TrackUsage accepted (processedCount)
    failed,     \* events TrackUsage returned an error for (errorCount)
    main,       \* where main() is in its shutdown sequence
    billing,    \* "open", "stopping" (batch manager stopped), "closed" (context cancelled)
    early       \* history: events accepted before the shutdown signal

vars == <<request, queue, worker, job, processed, failed, main, billing, early>>

Phases   == {"serving", "cancelled", "closing", "httpDown", "poolStopped",
             "billingStop", "exited"}
Running  == main # "exited"
Cancelled == main # "serving"            \* the pool's context is done
Accepted == {e \in Events : request[e] = "accepted"}
InJobs   == {job[w] : w \in Workers} \ {None}

Init ==
    /\ request = [e \in Events |-> "none"]
    /\ queue = {} /\ processed = {} /\ failed = {} /\ early = {}
    /\ worker = [w \in Workers |-> "select"]
    /\ job = [w \in Workers |-> None]
    /\ main = "serving" /\ billing = "open"
-----------------------------------------------------------------------------
(* The handler of POST /usage.                                             *)

\* The listener takes requests until server.Shutdown closes it, one step after cancel().
Arrive(e) ==
    /\ main \in {"serving", "cancelled"} /\ request[e] = "none"
    /\ request' = [request EXCEPT ![e] = "handling"]
    /\ UNCHANGED <<queue, worker, job, processed, failed, main, billing, early>>

\* Undecodable or invalid event (400), or the request timed out before Submit (408).
Reject(e) ==
    /\ Running /\ request[e] = "handling"
    /\ request' = [request EXCEPT ![e] = "rejected"]
    /\ UNCHANGED <<queue, worker, job, processed, failed, main, billing, early>>

\* Fault: the queue takes every event.
SubmitUnbounded(e) ==
    /\ Running /\ request[e] = "handling"
    /\ queue' = queue \cup {e}
    /\ request' = [request EXCEPT ![e] = "accepted"]
    /\ UNCHANGED <<worker, job, processed, failed, main, billing, early>>

\* Submit never looks at the pool's context: only a full channel refuses an event.
Submit(e) ==
    /\ Running /\ request[e] = "handling"
    /\ Cardinality(queue) < QueueSize
    /\ queue' = queue \cup {e}
    /\ request' = [request EXCEPT ![e] = "accepted"]
    /\ UNCHANGED <<worker, job, processed, failed, main, billing, early>>

Overloaded(e) ==
    /\ Running /\ request[e] = "handling"
    /\ Cardinality(queue) >= QueueSize
    /\ request' = [request EXCEPT ![e] = "overloaded"]
    /\ UNCHANGED <<queue, worker, job, processed, failed, main, billing, early>>
-----------------------------------------------------------------------------
(* usageWorker.                                                            *)

\* Fault: the event is read but stays available to the other workers.
TakePeeking(w) ==
    /\ Running /\ worker[w] \in {"select", "draining"} /\ job[w] = None
    /\ \E e \in queue : job' = [job EXCEPT ![w] = e]
    /\ UNCHANGED <<request, queue, worker, processed, failed, main, billing, early>>

Take(w) ==
    /\ Running /\ worker[w] \in {"select", "draining"} /\ job[w] = None
    /\ \E e \in queue : /\ job' = [job EXCEPT ![w] = e]
                        /\ queue' = queue \ {e}
    /\ UNCHANGED <<request, worker, processed, failed, main, billing, early>>

\* Fault: a worker whose context is done leaves at once, the queue undrained.
LeaveSelectUndrained(w) ==
    /\ Running /\ Cancelled /\ worker[w] = "select" /\ job[w] = None
    /\ worker' = [worker EXCEPT ![w] = "exited"]
    /\ UNCHANGED <<request, queue, job, processed, failed, main, billing, early>>

\* The ctx.Done case of the select, which may be chosen although events are queued.
LeaveSelect(w) ==
    /\ Running /\ Cancelled /\ worker[w] = "select" /\ job[w] = None
    /\ worker' = [worker EXCEPT ![w] = "draining"]
    /\ UNCHANGED <<request, queue, job, processed, failed, main, billing, early>>

\* The drain loop leaves when the channel is empty.
Drained(w) ==
    /\ Running /\ worker[w] = "draining" /\ job[w] = None /\ queue = {}
    /\ worker' = [worker EXCEPT ![w] = "exited"]
    /\ UNCHANGED <<request, queue, job, processed, failed, main, billing, early>>

\* Fault: once the shutdown began the event is processed with the pool's cancelled context.
ProcessCancelled(w) ==
    /\ Running /\ job[w] # None
    /\ IF billing = "closed" \/ Cancelled
       THEN failed' = failed \cup {job[w]} /\ UNCHANGED processed
       ELSE processed' = processed \cup {job[w]} /\ UNCHANGED failed
    /\ job' = [job EXCEPT ![w] = None]
    /\ UNCHANGED <<request, queue, worker, main, billing, early>>

\* processEvent: TrackUsage fails only when the billing client's context is done; a failed
\* event is counted and dropped.
Process(w) ==
    /\ Running /\ job[w] # None
    /\ IF billing = "closed"
       THEN failed' = failed \cup {job[w]} /\ UNCHANGED processed
       ELSE processed' = processed \cup {job[w]} /\ UNCHANGED failed
    /\ job' = [job EXCEPT ![w] = None]
    /\ UNCHANGED <<request, queue, worker, main, billing, early>>
-----------------------------------------------------------------------------
(* main(): SIGTERM, cancel(), server.Shutdown, pool.Stop, billing Shutdown.*)

Goto(from, to) == main = from /\ main' = to

Signal ==
    /\ Goto("serving", "cancelled")
    /\ early' = Accepted
    /\ UNCHANGED <<request, queue, worker, job, processed, failed, billing>>

CloseListener ==
    /\ Goto("cancelled", "closing")
    /\ UNCHANGED <<request, queue, worker, job, processed, failed, billing, early>>

\* Fault: Shutdown is given a context that never expires.
HandlersGoneUntimed ==
    /\ Goto("closing", "httpDown")
    /\ \A e \in Events : request[e] # "handling"
    /\ UNCHANGED <<request, queue, worker, job, processed, failed, billing, early>>

\* server.Shutdown returns once no handler runs, or when ShutdownTimeout expires.
HandlersGone ==
    /\ Goto("closing", "httpDown")
    /\ UNCHANGED <<request, queue, worker, job, processed, failed, billing, early>>

\* Fault: main goes on without waiting for the workers.
PoolStopsUnwaited ==
    /\ Goto("httpDown", "poolStopped")
    /\ UNCHANGED <<request, queue, worker, job, processed, failed, billing, early>>

PoolStops ==
    /\ Goto("httpDown", "poolStopped")
    /\ \A w \in Workers : worker[w] = "exited"
    /\ UNCHANGED <<request, queue, worker, job, processed, failed, billing, early>>

BillingStops ==
    /\ Goto("poolStopped", "billingStop")
    /\ billing' = "stopping"
    /\ UNCHANGED <<request, queue, worker, job, processed, failed, early>>

Exit ==
    /\ Goto("billingStop", "exited")
    /\ billing' = "closed"
    /\ UNCHANGED <<request, queue, worker, job, processed, failed, early>>
-----------------------------------------------------------------------------
Shutdown == Signal \/ CloseListener \/ HandlersGone \/ PoolStops \/ BillingStops \/ Exit

WorkerStep(w) == Take(w) \/ Process(w) \/ LeaveSelect(w) \/ Drained(w)

Next ==
    \/ \E e \in Events : Arrive(e) \/ Reject(e) \/ Submit(e) \/ Overloaded(e)
    \/ \E w \in Workers : WorkerStep(w)
    \/ Shutdown

Spec == Init /\ [][Next]_vars

\* Worker goroutines are scheduled, and once signalled main goes on; a handler may hang on
\* the request body for ever, and the signal need not come.
Fairness ==
    /\ \A w \in Workers : WF_vars(WorkerStep(w))
    /\ WF_vars(Shutdown /\ Cancelled)

FairSpec == Spec /\ Fairness
-----------------------------------------------------------------------------
TypeOK ==
    /\ request \in [Events -> {"none", "handling", "accepted", "overloaded", "rejected"}]
    /\ queue \subseteq Events /\ Cardinality(queue) <= QueueSize
    /\ worker \in [Workers -> {"select", "draining", "exited"}]
    /\ job \in [Workers -> Events \cup {None}]
    /\ processed \subseteq Events /\ failed \subseteq Events /\ early \subseteq Events
    /\ main \in Phases
    /\ billing \in {"open", "stopping", "closed"}

\* An accepted event is in exactly one place: the channel, one worker's hands, or counted
\* once as processed or failed. No two workers process the same event.
EachEventOnce ==
    /\ Accepted = queue \cup InJobs \cup processed \cup failed
    /\ queue \cap InJobs = {}
    /\ (queue \cup InJobs) \cap (processed \cup failed) = {}
    /\ processed \cap failed = {}
    /\ \A v, w \in Workers : v # w /\ job[v] # None => job[v] # job[w]

\* Every event accepted before the shutdown signal has reached the billing client by the
\* time pool.Stop returns: the drain loops of the workers leave none in the channel.
EarlyEventsProcessed ==
    main \in {"poolStopped", "billingStop", "exited"} => early \subseteq processed

\* The shutdown order keeps the billing client alive for the workers: from the moment its
\* batch manager is being stopped no worker runs, so no Add overlaps Stop, and no event is
\* ever turned down because the client was closed first.
BillingOutlivesWorkers ==
    /\ billing # "open" => \A w \in Workers : worker[w] = "exited" /\ job[w] = None
    /\ failed = {}

\* Once signalled the service exits, even if a handler hangs.
ShutdownCompletes == Cancelled ~> main = "exited"

\* An event accepted while the service is up reaches the billing client, whether or not the
\* shutdown starts before a worker takes it.
EarlyEventsReachBilling ==
    \A e \in Events : request[e] = "accepted" /\ main = "serving" ~> e \in processed

\* What the drain loop and the response "accepted" promise: when the process exits, every
\* event a client was told is accepted has been processed.
AcceptedEventsProcessed == main = "exited" => Accepted \subseteq processed
=============================================================================

---------------------------- MODULE BatchManager ----------------------------
(***************************************************************************)
(* shared/stripe-client/internal/batch/manager.go: the Manager that buffers *)
(* usage metrics per subscription item and hands full or overdue batches   *)
(* to a Processor (the metered billing client).                            *)
(*                                                                         *)
(* Goroutines: the callers of Add, one flush goroutine per batch that Add  *)
(* found full, the flush loop, one backoff goroutine per failed batch, and *)
(* the caller of Stop. An action is a critical section of m.mutex or the   *)
(* return of a ProcessBatch call. Time is abstracted: a ticker or a backoff*)
(* timer may fire at any moment. A metric is the identity of one Add call; *)
(* its quantity matters only to Stripe. m.buffer is kept as one set of     *)
(* metrics, its entry for an item being the metrics of that item.          *)
(***************************************************************************)
EXTENDS Integers, FiniteSets

CONSTANTS Metrics,      \* the Add calls of a behaviour
          Items,        \* subscription item ids, the keys of m.buffer
          Item,         \* the item each metric is recorded for
          Size,         \* m.size
          MaxAttempts,  \* maxBatchAttempts
          MaxFailures   \* bound: re-enqueued failures before the flush loop stops

ASSUME BatchConstants ==
    /\ Item \in [Metrics -> Items]
    /\ Size \in Nat \ {0}
    /\ MaxAttempts \in Nat \ {0}
    /\ MaxFailures \in Nat

VARIABLES
    fresh,      \* metrics not yet passed to Add
    refused,    \* metrics whose Add returned an error
    buffer,     \* the metrics in m.buffer
    pending,    \* FlushAll's batchesToProcess not yet handed to the processor
    batches,    \* batches inside (or, by = "caller", about to enter) processBatchWithRetry
    waiters,    \* number of backoff goroutines per <<item, next attempt>>
    loop,       \* where flushLoop is
    done,       \* m.done is closed: Stop was called
    stopped,    \* Stop returned
    ctxDone,    \* m.ctx is cancelled
    delivered,  \* metrics of a batch whose ProcessBatch returned nil
    dead,       \* metrics of a dead-lettered batch
    failures,   \* bound: re-enqueued failures so far, up to MaxFailures
    overlap     \* history: some Add was still running when, or began after, Stop was called

vars == <<fresh, refused, buffer, pending, batches, waiters, loop, done, stopped,
          ctxDone, delivered, dead, failures, overlap>>

Runners == {"caller", "async", "loop"}
Batch   == [item: Items, metrics: SUBSET Metrics, attempt: 1..MaxAttempts, by: Runners]
Retries == Items \X (2..MaxAttempts)

Of(i, S)   == {m \in S : Item[m] = i}
Processing == UNION {b.metrics : b \in batches}
Held       == buffer \cup pending \cup Processing
LeftSelect == loop \in {"final", "exited"}

Init ==
    /\ fresh = Metrics /\ refused = {}
    /\ buffer = {} /\ pending = {} /\ batches = {}
    /\ waiters = [r \in Retries |-> 0]
    /\ loop = "select"
    /\ done = FALSE /\ stopped = FALSE /\ ctxDone = FALSE
    /\ delivered = {} /\ dead = {}
    /\ failures = 0 /\ overlap = FALSE
-----------------------------------------------------------------------------
(* Add: the context is checked under the lock; the done channel is not.    *)

AddRefused(m) ==
    /\ m \in fresh /\ ctxDone
    /\ fresh' = fresh \ {m}
    /\ refused' = refused \cup {m}
    /\ UNCHANGED <<buffer, pending, batches, waiters, loop, done, stopped, ctxDone,
                   delivered, dead, failures, overlap>>

AddBuffered(m) ==
    /\ m \in fresh /\ ~ctxDone
    /\ Cardinality(Of(Item[m], buffer \cup {m})) < Size
    /\ fresh' = fresh \ {m}
    /\ buffer' = buffer \cup {m}
    /\ overlap' = (overlap \/ done)
    /\ UNCHANGED <<refused, pending, batches, waiters, loop, done, stopped, ctxDone,
                   delivered, dead, failures>>

AddFull(m) ==
    LET full == Of(Item[m], buffer \cup {m}) IN
    /\ m \in fresh /\ ~ctxDone
    /\ Cardinality(full) >= Size
    /\ fresh' = fresh \ {m}
    /\ buffer' = buffer \ full
    /\ batches' = batches \cup
         {[item |-> Item[m], metrics |-> full, attempt |-> 1, by |-> "caller"]}
    /\ overlap' = (overlap \/ done)
    /\ UNCHANGED <<refused, pending, waiters, loop, done, stopped, ctxDone,
                   delivered, dead, failures>>

\* wg.Add(1) and the go statement come after Unlock: until then Stop cannot see the batch.
Spawn(b) ==
    /\ b \in batches /\ b.by = "caller"
    /\ batches' = (batches \ {b}) \cup {[b EXCEPT !.by = "async"]}
    /\ UNCHANGED <<fresh, refused, buffer, pending, waiters, loop, done, stopped,
                   ctxDone, delivered, dead, failures, overlap>>
-----------------------------------------------------------------------------
(* The end of a ProcessBatch call, in processBatchWithRetry.               *)

Succeed(b) ==
    /\ b \in batches /\ b.by # "caller"
    /\ batches' = batches \ {b}
    /\ delivered' = delivered \cup b.metrics
    /\ UNCHANGED <<fresh, refused, buffer, pending, waiters, loop, done, stopped,
                   ctxDone, dead, failures, overlap>>

\* Fault: m.buffer[id] = metrics, forgetting what Add put there meanwhile.
RequeueOverwriting(b) ==
    /\ b \in batches /\ b.by # "caller"
    /\ b.attempt < MaxAttempts /\ ~ctxDone
    /\ LeftSelect \/ failures < MaxFailures
    /\ failures' = IF LeftSelect THEN failures ELSE failures + 1
    /\ batches' = batches \ {b}
    /\ buffer' = (buffer \ Of(b.item, buffer)) \cup b.metrics
    /\ waiters' = [waiters EXCEPT ![<<b.item, b.attempt + 1>>] = @ + 1]
    /\ UNCHANGED <<fresh, refused, pending, loop, done, stopped, ctxDone, delivered,
                   dead, overlap>>

\* Fault: no backoff goroutine; the metrics are left to the next tick of the loop.
RequeueForTick(b) ==
    /\ b \in batches /\ b.by # "caller"
    /\ b.attempt < MaxAttempts /\ ~ctxDone
    /\ LeftSelect \/ failures < MaxFailures
    /\ failures' = IF LeftSelect THEN failures ELSE failures + 1
    /\ batches' = batches \ {b}
    /\ buffer' = buffer \cup b.metrics
    /\ UNCHANGED <<fresh, refused, pending, waiters, loop, done, stopped, ctxDone,
                   delivered, dead, overlap>>

\* The backoff goroutine is counted by wg before the goroutine it replaces is done, so
\* the two are one step. Failures are unlimited once the loop has left its select.
Requeue(b) ==
    /\ b \in batches /\ b.by # "caller"
    /\ b.attempt < MaxAttempts /\ ~ctxDone
    /\ LeftSelect \/ failures < MaxFailures
    /\ failures' = IF LeftSelect THEN failures ELSE failures + 1
    /\ batches' = batches \ {b}
    /\ buffer' = buffer \cup b.metrics
    /\ waiters' = [waiters EXCEPT ![<<b.item, b.attempt + 1>>] = @ + 1]
    /\ UNCHANGED <<fresh, refused, pending, loop, done, stopped, ctxDone, delivered,
                   dead, overlap>>

DeadLetter(b) ==
    /\ b \in batches /\ b.by # "caller"
    /\ b.attempt >= MaxAttempts \/ ctxDone
    /\ batches' = batches \ {b}
    /\ dead' = dead \cup b.metrics
    /\ UNCHANGED <<fresh, refused, buffer, pending, waiters, loop, done, stopped,
                   ctxDone, delivered, failures, overlap>>
-----------------------------------------------------------------------------
(* A backoff goroutine wakes (timer, m.done or m.ctx) and calls flushOne.  *)

\* Fault: the snapshot is taken but the entry stays in the buffer.
RetryFlushKeeping(i, a) ==
    /\ waiters[<<i, a>>] > 0 /\ Of(i, buffer) # {}
    /\ waiters' = [waiters EXCEPT ![<<i, a>>] = @ - 1]
    /\ batches' = batches \cup
         {[item |-> i, metrics |-> Of(i, buffer), attempt |-> a, by |-> "async"]}
    /\ UNCHANGED <<fresh, refused, buffer, pending, loop, done, stopped, ctxDone,
                   delivered, dead, failures, overlap>>

RetryFlush(i, a) ==
    /\ waiters[<<i, a>>] > 0 /\ Of(i, buffer) # {}
    /\ waiters' = [waiters EXCEPT ![<<i, a>>] = @ - 1]
    /\ buffer' = buffer \ Of(i, buffer)
    /\ batches' = batches \cup
         {[item |-> i, metrics |-> Of(i, buffer), attempt |-> a, by |-> "async"]}
    /\ UNCHANGED <<fresh, refused, pending, loop, done, stopped, ctxDone, delivered,
                   dead, failures, overlap>>

RetryNothing(i, a) ==
    /\ waiters[<<i, a>>] > 0 /\ Of(i, buffer) = {}
    /\ waiters' = [waiters EXCEPT ![<<i, a>>] = @ - 1]
    /\ UNCHANGED <<fresh, refused, buffer, pending, batches, loop, done, stopped,
                   ctxDone, delivered, dead, failures, overlap>>
-----------------------------------------------------------------------------
(* flushLoop: FlushAll snapshots the whole buffer, then works through it   *)
(* one item at a time without the lock.                                    *)

Snapshot == pending' = buffer /\ buffer' = {}

Tick ==
    /\ loop = "select"
    /\ loop' = "flushing" /\ Snapshot
    /\ UNCHANGED <<fresh, refused, batches, waiters, done, stopped, ctxDone, delivered,
                   dead, failures, overlap>>

\* Fault: the loop leaves on m.done without the last FlushAll.
FinalFlushSkipped ==
    /\ loop = "select" /\ (done \/ ctxDone)
    /\ loop' = "exited"
    /\ UNCHANGED <<fresh, refused, buffer, pending, batches, waiters, done, stopped,
                   ctxDone, delivered, dead, failures, overlap>>

FinalFlush ==
    /\ loop = "select" /\ (done \/ ctxDone)
    /\ loop' = "final" /\ Snapshot
    /\ UNCHANGED <<fresh, refused, batches, waiters, done, stopped, ctxDone, delivered,
                   dead, failures, overlap>>

LoopIdle == \A b \in batches : b.by # "loop"

\* Fault: the first item processed is the only one; the rest of the snapshot is forgotten.
FlushFirstOnly(i) ==
    /\ LoopIdle /\ Of(i, pending) # {}
    /\ pending' = {}
    /\ batches' = batches \cup
         {[item |-> i, metrics |-> Of(i, pending), attempt |-> 1, by |-> "loop"]}
    /\ UNCHANGED <<fresh, refused, buffer, waiters, loop, done, stopped, ctxDone,
                   delivered, dead, failures, overlap>>

\* Fault: attempts are counted from 0, which allows one more than the limit.
FlushNextFromZero(i) ==
    /\ LoopIdle /\ Of(i, pending) # {}
    /\ pending' = pending \ Of(i, pending)
    /\ batches' = batches \cup
         {[item |-> i, metrics |-> Of(i, pending), attempt |-> 0, by |-> "loop"]}
    /\ UNCHANGED <<fresh, refused, buffer, waiters, loop, done, stopped, ctxDone,
                   delivered, dead, failures, overlap>>

FlushNext(i) ==
    /\ LoopIdle /\ Of(i, pending) # {}
    /\ pending' = pending \ Of(i, pending)
    /\ batches' = batches \cup
         {[item |-> i, metrics |-> Of(i, pending), attempt |-> 1, by |-> "loop"]}
    /\ UNCHANGED <<fresh, refused, buffer, waiters, loop, done, stopped, ctxDone,
                   delivered, dead, failures, overlap>>

\* Fault: break instead of return, which leaves the select and not the loop.
FlushAllReturnsBreaking ==
    /\ loop \in {"flushing", "final"} /\ LoopIdle /\ pending = {}
    /\ loop' = "select"
    /\ UNCHANGED <<fresh, refused, buffer, pending, batches, waiters, done, stopped,
                   ctxDone, delivered, dead, failures, overlap>>

FlushAllReturns ==
    /\ loop \in {"flushing", "final"} /\ LoopIdle /\ pending = {}
    /\ loop' = IF loop = "final" THEN "exited" ELSE "select"
    /\ UNCHANGED <<fresh, refused, buffer, pending, batches, waiters, done, stopped,
                   ctxDone, delivered, dead, failures, overlap>>
-----------------------------------------------------------------------------
(* Stop, and the cancellation of the context the Manager was given.        *)

Stop ==
    /\ ~done
    /\ done' = TRUE
    /\ overlap' = (overlap \/ \E b \in batches : b.by = "caller")
    /\ UNCHANGED <<fresh, refused, buffer, pending, batches, waiters, loop, stopped,
                   ctxDone, delivered, dead, failures>>

\* wg counts the loop, the spawned flush goroutines and the backoff goroutines.
WaitGroupZero ==
    /\ loop = "exited"
    /\ \A b \in batches : b.by = "caller"
    /\ \A r \in Retries : waiters[r] = 0

StopReturns ==
    /\ done /\ ~stopped /\ WaitGroupZero
    /\ stopped' = TRUE
    /\ UNCHANGED <<fresh, refused, buffer, pending, batches, waiters, loop, done,
                   ctxDone, delivered, dead, failures, overlap>>

Cancel ==
    /\ ~ctxDone
    /\ ctxDone' = TRUE
    /\ UNCHANGED <<fresh, refused, buffer, pending, batches, waiters, loop, done,
                   stopped, delivered, dead, failures, overlap>>
-----------------------------------------------------------------------------
Returns(b) == Succeed(b) \/ Requeue(b) \/ DeadLetter(b)
Wakes(i, a) == RetryFlush(i, a) \/ RetryNothing(i, a)

Next ==
    \/ \E m \in Metrics : AddRefused(m) \/ AddBuffered(m) \/ AddFull(m)
    \/ \E b \in batches : Spawn(b) \/ Returns(b)
    \/ \E i \in Items, a \in 2..MaxAttempts : Wakes(i, a)
    \/ Tick \/ FinalFlush \/ FlushAllReturns
    \/ \E i \in Items : FlushNext(i)
    \/ Stop \/ StopReturns \/ Cancel

Spec == Init /\ [][Next]_vars

\* Spawned goroutines run, ProcessBatch returns (retry.Do is bounded), timers fire, and a
\* select whose done case stays ready does not choose the ticker for ever. Nothing obliges
\* anyone to call Add or Stop or to cancel the context.
Fairness ==
    /\ WF_vars(\E b \in batches : Spawn(b))
    /\ WF_vars(\E b \in batches : Returns(b))
    /\ WF_vars(\E i \in Items, a \in 2..MaxAttempts : Wakes(i, a))
    /\ WF_vars(\E i \in Items : FlushNext(i))
    /\ WF_vars(Tick) /\ WF_vars(FlushAllReturns) /\ WF_vars(StopReturns)
    /\ SF_vars(FinalFlush)

FairSpec == Spec /\ Fairness
-----------------------------------------------------------------------------
TypeOK ==
    /\ fresh \subseteq Metrics /\ refused \subseteq Metrics
    /\ buffer \subseteq Metrics /\ pending \subseteq Metrics
    /\ batches \subseteq Batch
    /\ waiters \in [Retries -> Nat]
    /\ loop \in {"select", "flushing", "final", "exited"}
    /\ done \in BOOLEAN /\ stopped \in BOOLEAN /\ ctxDone \in BOOLEAN
    /\ delivered \subseteq Metrics /\ dead \subseteq Metrics
    /\ failures \in 0..MaxFailures /\ overlap \in BOOLEAN

\* No metric is lost and none is held twice: whatever Add, FlushAll, flushOne and the
\* re-enqueueing of a failed batch do to the buffer concurrently, every metric is in exactly
\* one place, and two batches being processed never share a metric.
Conservation ==
    /\ fresh \cup refused \cup Held \cup delivered \cup dead = Metrics
    /\ fresh \cap refused = {}
    /\ (fresh \cup refused) \cap buffer = {}
    /\ (fresh \cup refused \cup buffer) \cap pending = {}
    /\ (fresh \cup refused \cup buffer \cup pending) \cap Processing = {}
    /\ (fresh \cup refused \cup Held) \cap delivered = {}
    /\ (fresh \cup refused \cup Held \cup delivered) \cap dead = {}
    /\ \A b, c \in batches : b # c => b.metrics \cap c.metrics = {}

\* Once the flush loop has taken its last snapshot nothing flushes the buffer periodically
\* any more, so each metric still in it must have a backoff goroutine of its item on the
\* way (unless a caller went on adding after Stop was called).
NothingStranded ==
    LeftSelect /\ ~overlap =>
        \A m \in buffer : \E a \in 2..MaxAttempts : waiters[<<Item[m], a>>] > 0

\* When Stop returns, every metric whose Add had returned before Stop was called has been
\* delivered or dead-lettered: none is left in the buffer, in a snapshot or in a batch.
StopDrains == stopped /\ ~overlap => Held = {} /\ \A r \in Retries : waiters[r] = 0

Stage == [m \in Metrics |-> IF m \in fresh THEN "new"
                           ELSE IF m \in refused THEN "refused"
                           ELSE IF m \in Held THEN "held"
                           ELSE IF m \in delivered THEN "delivered"
                           ELSE IF m \in dead THEN "dropped" ELSE "lost"]

Ledger == INSTANCE UsageLedger WITH stage <- Stage, open <- ~ctxDone

\* The Manager implements the ledger: buffering, snapshots, re-enqueueing and stealing of
\* retried metrics never settle a metric twice, unsettle it, or refuse it before the
\* context is cancelled.
ImplementsLedger == Ledger!Spec

\* Stop always returns, however many batches are failing when it is called: the attempts
\* made after the loop's last flush are bounded and no backoff delays the shutdown for ever.
StopTerminates == done ~> stopped

\* Every metric the Manager took is eventually delivered or dead-lettered, whether or not
\* Stop is called meanwhile, provided outages before the stop are finite.
EventuallySettled ==
    \A m \in Metrics : m \in Held ~> m \in delivered \cup dead \/ overlap
=============================================================================

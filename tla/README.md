# Reverse-Proxy-Go: TLA+ models, model checking and proofs

This directory models the parts of the repository whose correctness depends on
interleavings, failures, retries, time and shutdown order: the path usage data takes from
`POST /api/v1/usage` to Stripe, the gateway's sessions and health gate, the two services
over the `users` table, the usage engine's counters in Redis, and the rate-limited front
ends of Stripe. TLC checks the models on small instances; TLAPS proves the main safety
properties for every value of the constants. All Go paths below are relative to
`src/go-backend/`.

## 1. The system and its components

The backend is a set of Go services behind a gateway.

| Component | Code | State it keeps | Operations | Modules |
|---|---|---|---|---|
| Usage batch manager | `shared/stripe-client/internal/batch/manager.go` | buffer per subscription item, `done`, `ctx`, WaitGroup | `Add`, `flushOne`, `FlushAll`, `flushLoop`, `processBatchWithRetry`, `Stop` | `BatchManager`, `UsageLedger` |
| Metered billing client | `shared/stripe-client/metered_billing.go`, `internal/retry/retry.go` | circuit-breaker state, context; `total_usage` at Stripe | `ProcessBatch`, `retry.Do`, `TrackUsage`, `Shutdown` | `MeteredBilling` |
| Usage service | `services/usage-service` | event channel, worker pool, counters | `POST /usage`, workers, drain, shutdown sequence of `main` | `UsageService` |
| Gateway sessions | `services/gateway/internal/auth` | in-memory token store, consumed hashes | login, refresh, logout, hourly sweep | `RefreshTokens` |
| Gateway routing and health | `services/gateway/main.go`, `healthcheck.go`, `internal/auth/middleware.go`, `rbac.go` | health flag per upstream | probe rounds, role checks, 503 gate, proxying, shutdown | `HealthGate` |
| User service | `services/user-service` | `users`, two token tables (PostgreSQL) | create, delete, verify, reset, roles; consent, anonymise | `UserAccounts` |
| Auth service | `services/auth-service` | `users` table | register, login, refresh, rename, change password | `Credentials`, `AuthAccounts` |
| Usage engine | `services/usage-engine/main.go` | hourly counters in Redis | add event, prune, rolling average | `UsageEngine` |
| Rate limiter | `shared/middleware/ratelimit.go` | global bucket, bucket per IP in a bounded map | `getClientIP`, `Middleware` | `StripeFrontEnd` |
| Payment, customer, webhook services | `services/payment-service`, `customer-service`, `webhook-service` | none (Stripe) | forward to Stripe, verify a signature; shutdown | `StripeFrontEnd` |
| Billing, template services; Stripe client; other middleware; helpers; `tools/causality`, infra | | none | placeholders, one call each, types, wiring | not modelled |

**How they interact.** The gateway authenticates a request and proxies it to a service.
The usage service validates an event and puts it into a bounded channel (or answers 503).
A worker takes it and calls `MeteredBillingClient.TrackUsage`, which calls
`batch.Manager.Add`. The manager groups metrics per subscription item and calls back
`MeteredBillingClient.ProcessBatch` from three kinds of goroutine: one per full batch, the
flush loop, and one per failed batch after a backoff. `ProcessBatch` reads `total_usage`
from Stripe, adds the batch and writes it back, with retries, behind a circuit breaker.
At SIGTERM, `main` cancels the pool's context, shuts the HTTP server down, waits for the
workers, and then shuts the billing client down, which stops the manager.

The auth service and the user service each own a `users` table; the usage engine keeps its
counters in Redis and knows the others only through `POST /event`. The payment, customer
and webhook services put the shared rate limiter in front of handlers that call Stripe.

**What is hard.** Batches are processed without the manager's lock while the buffer moves
on; failed batches come back into that buffer; stopping must wait for goroutines that
spawn goroutines; a reply from Stripe may be lost; the breaker's state may have moved
when a result is reported; events are accepted while workers drain; a refresh consists of
four separate critical sections. A registration, a change of password, a verification and
a write-back are two statements with other requests in between, and some of them hold no
lock; a reply from the database or from Redis may be lost after the write; keys run out by
themselves; a probe's verdict is stored long after it was asked for; a limiter is used after
the lock that found it. The list `hazards` of PROJECT.json gives each one its line
and the properties that watch it.

**What makes each component correct.**

- Batch manager: a metric is in one place at a time, settled at most once, never stranded,
  and `Stop` is a drain that terminates.
- Billing client: the total at Stripe is never more than what was applied, a nil result
  means applied, and the breaker opens in time and stays open until it has cooled.
- Usage service: each accepted event is processed once, the drain leaves nothing that was
  accepted in time, the billing client outlives the workers, and the shutdown completes.
- Sessions: rotation kills what it replaces, reuse stays detectable and ends the user's
  sessions, and nobody else's.
- Gateway health: a flag is never older than the previous round of probes, and flags
  settle although other upstreams hang.
- User service: no update by one request is undone by another, and a deleted row is final.
- Auth service: every request takes effect at one moment or not at all; an address belongs to
  one account, and a password is changed by someone who has shown one.
- Usage engine: the rolling average counts every accepted event of its window, and hashes
  do not stay for ever.
- Stripe's front ends: each client has a bucket of its own, the map stays within its bound,
  and admitted requests are answered before the process ends.

## 2. Modules

### UsageLedger (abstract) and BatchManager

`UsageLedger` states what the batching layer promises: a metric is new, then held or
refused, and a held metric is delivered or dropped, once. `BatchManager` is the code. Its
refinement mapping (`Stage`, `Ledger`) reads the stage of a metric off the place it is in;
`ImplementsLedger` says every step is a ledger step or a stutter.

| Model | Code |
|---|---|
| `buffer` (metrics; entry of an item = the metrics `Of` that item) | `m.buffer`, under `m.mutex` |
| `pending`, `loop` | `batchesToProcess` of `FlushAll`; where `flushLoop` is |
| `batches` | batches inside `processBatchWithRetry`, with attempt and goroutine (`by`) |
| `waiters` | backoff goroutines per item and next attempt |
| `AddRefused`, `AddBuffered`, `AddFull`, `Spawn` | `Add`; `Spawn` is the `wg.Add`/`go` after `Unlock` |
| `Succeed`, `Requeue`, `DeadLetter` | the end of `ProcessBatch` in `processBatchWithRetry` |
| `RetryFlush`, `RetryNothing` | a backoff goroutine waking up and calling `flushOne` |
| `Tick`, `FinalFlush`, `FlushNext`, `FlushAllReturns` | `flushLoop` and `FlushAll` |
| `Stop`, `StopReturns`, `Cancel` | `Stop` around `wg.Wait`; the cancellation in `Shutdown` |

An action is one critical section of `m.mutex` or one return of the processor. In
`Requeue` the test of the context and the re-enqueueing form one step; `Shutdown` cancels
the context only after `Stop` has returned, when no batch is left. Whether a batch fails
is a free choice; *which* reason it has is `MeteredBilling`'s subject. Timers fire at any
moment. `overlap` is a history variable: an `Add` was running when, or began after, `Stop`
was called. The manager gives no guarantee for such metrics. `NothingStranded`,
`StopDrains` and `EventuallySettled` say nothing of a behaviour from such an `Add` on, not
even of the earlier metrics that its full batch may sweep up;
`UsageService!BillingOutlivesWorkers` shows that the one client never does that.

The retry bound is one per *batch*: a re-enqueued metric that the ticker or a full batch
takes over starts again at attempt 1, so no property bounds the attempts of a metric.

### MeteredBilling

One `ProcessBatch` call walks through `pc`: the breaker's decision (`Admit`, `Reject`, under
`cbMutex`), `retry.Do`'s context check (`Begin`, `ContextDone`), Stripe's Retrieve (`Read`,
`ReadFails`), its Update (`Update`, `UpdateFails`), the cost lookup (`Cost`) and the
breaker's record (`Record`, under `cbMutex`, in the state the breaker is in *by then*).
`calls` counts the calls of a batch: batch and call number stand for the idempotency key,
which the manager makes anew for each attempt. Stripe is external: `total` is
`total_usage`, `applied` the keys whose update took effect. An update may take effect with
its reply lost (`lost`), and a key already used is refused, since a retry inside the
call carries another total and another time. `raced` records items written while another
batch held an older reading. `Units` counts what the applied keys stand for, as the elements
of one set with a member for each unit, so that it can be reasoned about without a recursive
sum. The module models the breaker enabled, which is the default,
and metadata that only this code writes: `total_usage` is always a number.

### UsageService

Requests, the channel (a set of at most `QueueSize` events: no property depends on its
order), workers in their select or drain loop, and `main`'s shutdown sequence, one action
per step. `CloseListener` comes one step after `cancel()`, as in the code: until then
requests still arrive. `HandlersGone` may happen while a handler runs, because
`server.Shutdown` gives up after `ShutdownTimeout`. The billing client is reduced to what
the workers can notice: open, being stopped, closed.

### RefreshTokens

Each login, refresh or logout is a request with a program counter over the store calls it
makes; each call is atomic. `stored`, `revoked`, `consumed` are the store; a token is
identified with its hash. `Expire` may happen at any moment. `DeleteExpired` removes
expired tokens and any consumed hashes *of expired tokens*: a hash is kept for 14 days
(`consumedRetention`) and a token lives for 7 (`REFRESH_DURATION`'s default), so a hash
that old belongs to a token that has expired. A deployment that sets REFRESH_DURATION above
14 days leaves this assumption. `condemned`, `spared` and `doubled` are histories used
only by properties.

### Credentials (abstract) and AuthAccounts

`Credentials` states what the auth service promises: each request takes effect at one moment
(`Open`, `Replace`, `Rename`) or leaves the accounts alone (`Register`, `LogIn`, `Prolong`,
`Change`), and says what answer allows which. `AuthAccounts` is the code, and
`ImplementsCredentials` the refinement; a request is `Finished` when it is answered.

| Model | Code |
|---|---|
| `email`, `password`, `profile` | the row of `users`; an account is named by the request that inserted it |
| `Reject` | `validate`, a missing or invalid token: 400, 401 (`handler.go`) |
| `Fail` | a statement, bcrypt or signing fails before anything is written: 500 |
| `UserExists`, `UserIsNew` | `userExists` in `Register` |
| `Insert`, `InsertFails`, `InsertedButFails` | the INSERT, which UNIQUE may refuse, and what follows it |
| `Login`, `LoginRefused` | one SELECT by address and a comparison |
| `RefreshToken`, `OwnerUnread` | token, `GetUserByID` and a new pair; every failure to read is "user not found" |
| `UpdateUser` | UPDATE of the names, its reply perhaps lost |
| `Mismatch`, `Compare`, `UpdatePassword`, `UpdateFails` | `ChangePassword`: compare, then overwrite |

A salted hash is compared with the one password it was made from, so the table holds
passwords. Signed tokens are stateless: `session` is the account a request's pair is for, and
any later request may show it. `stale` records changes of password that another overtook
between comparison and UPDATE: `ChangeReplacesProved` excludes them. Even those satisfy
`Credentials`, which asks for a password the account *has had*.

### UserAccounts

Two kinds of operation over `row` and `token`. One statement: `CreateUser`, `DeleteUser`,
`UpdatePassword`, `CreateEmailVerificationToken`, `DeletePasswordResetToken`. Several
statements, with a `job` in between: `ResetLookup`/`ResetUpsert`, `VerifySelect`/
`VerifyCommit`, `LockRoles`/`CommitRoles` (SELECT ... FOR UPDATE: `Unlocked` keeps other
writers of the row out), and `GetUserByID`/`UpdateUser`, the write-back of `UpdateConsent`
and `AnonymizeUser`, which holds no lock. `Abort` ends any of these: the context is done or a
statement fails. `outdated` records the write-backs whose copy was overtaken; for those
lost updates are real, and a finding. The address stands for all personal columns.
`UpdateUser` writes what the code's UPDATE lists: not the consents, the password or
`deleted_at`. Apart from consent and anonymisation no operation has a caller in the service
yet: they are modelled as an API that handlers may use concurrently.

### UsageEngine

`count` and `expires` are the Redis hash of each customer and the hour its key goes. `Add` is
two commands: `Counted` (HINCRBY) and `Refreshed` (EXPIRE); `CountedUnseen` is an increment
whose reply was lost, `RefreshFails` and `Restart` cut a call off in the middle. The hourly
job reads (`PruneReads`) and deletes later (`Pruned`) with the clock of its beginning.
`Evicted` and `Tick` are Redis and time: a key goes during the hour in which it expires.
`accepted` counts events answered with 202 that the code can keep: not those whose key went
between the two commands (`kept`), nor those dated so far ahead that the key goes first
(`InReach`). `exposed` records keys a failed call left without a time to live.

### HealthGate

The checker's loop (`Tick`, `RoundBegins`, `ProbeEnds`, `Store`, `RoundEnds`, `LoopLeaves`),
requests (`Handle`) for the gateway's own routes (`Serve` by `Guarded`) and for upstreams
(`Forward`, `Proxied`, `ClientGone`), and `main` (`Signal`, `CloseListener`, `Exit`). `Guarded` is
a function of the route and the token's roles. An upstream that hangs makes its probe time
out; nothing ends the proxied request to it but its client. `recent` and `previous` are
histories: the verdicts an upstream would have had in this round and in the one before.
It shares no state with `RefreshTokens`; its specification is called `GateSpec` so that one
module can hold the proofs of both halves of the gateway.

### StripeFrontEnd

`TakenFor` computes, by `ClientIP`, the addresses a client can be taken for over all its
`Routes`: what it may claim in `X-Forwarded-For`, and the proxies (at most `MaxProxies`) that
each append the address they were called from. A handler passes the
global bucket (`Arrive`), finds or creates a limiter under the map's lock (`Found`,
`Created`, which evicts in the same step), uses it after the unlock (`Allowed`, `Denied`), and
answers by itself or calls Stripe. `Limiters` are the limiter objects; one that nobody refers
to is as good as new, and there are more of them than entries and handlers can refer to (an
allocation always succeeds). `Waits` says whether `main` waits for `server.Shutdown`: the customer and
webhook services do, the payment service does not. `own` is a history: the bucket a
client would have if it were alone.

## 3. Runs

| Run | Instance | States (about) | What it shows |
|---|---|---|---|
| `batch_manager` | 3 metrics, 2 items, size 2, 3 attempts, 2 failures before the stop | 96,000 | `Conservation`, `NothingStranded`, `StopDrains`, the refinement of `UsageLedger`, `StopTerminates`, `EventuallySettled` |
| `usage_service` | 3 events, 2 workers, channel of 2 | 22,000 | `EachEventOnce`, `EarlyEventsProcessed`, `BillingOutlivesWorkers`, the shutdown completes, early events reach billing |
| `usage_service_late` | the same | violation | an event accepted after the signal is left in the channel |
| `metered_billing` | 2 batches of 1 item, 1 retry, threshold 2, 2 calls each | 134,000 | the bounds on the total, `NilMeansApplied`, `OnceUnlessReplyLost`, the breaker, `CallsReturn` |
| `billing_lost_update` | the same | violation | two batches read the same total and one is lost |
| `refresh_tokens` | 4 requests, 3 tokens, 2 users | 35,000 (symmetry) | `ReplacedIsDead`, `ReplacedOnceUnlessDoubled`, `ReuseDetectable`, `ReuseEndsSessions`, `RevokedForCause` |
| `refresh_rotation` | the same | violation | one token exchanged twice |
| `auth_accounts` | 4 requests, 2 addresses, 2 passwords | 27,000 (symmetry) | the refinement of `Credentials`, `ChangeReplacesProved` |
| `user_accounts` | 2 handlers, 2 users, 1 address, 2 roles, 1 token | 790,000 (symmetry) | `LosesNothing`, `FrozenOnceDeleted`, unique addresses (in `TypeOK`) |
| `usage_engine` | 2 handlers, 2 customers, window 2, TTL 3, 3 increments, clock to 4 | 1,940,000 (symmetry) | `AcceptedCounted`, `ExpiresUnlessCut` |
| `health_gate` | 2 upstreams, 1 handler | 511,000 | `FlagIsRecent`, `FlagsSettle` |
| `stripe_front_end` | 2 handlers, 3 clients, 1 proxy, room for 2, bursts of 1 | 436,000 | `OwnBucket`, the map's bound (in `TypeOK`), `AdmittedAnswered` |

Each run whose expectation is a violation has a finding in PROJECT.json that quotes the
comment or document it contradicts. The passing properties next to it say exactly how far
the code does keep the promise: `NoLostUnits` fails, but `ExactUnlessRaced` holds;
`ReplacedOnce` fails, but `ReplacedOnceUnlessDoubled` holds; `AcceptedEventsProcessed` fails,
but `EarlyEventsProcessed` holds. Likewise `LosesNothing`, `AcceptedCounted` and
`ChangeReplacesProved` each exclude, by a history variable, the one case in which the code
does not keep the promise; PROJECT.json lists that case as a finding or a hazard.

Five hazards have no property, since what they describe is what the code does: attempts
are not bounded per metric, a refresh with a token already logged out is treated as a
reuse, the payment service ends without waiting for its requests, a write-back may undo
another update, and an event is not counted when its key runs out inside `Add`. A sixth is
covered in part: `ImplementsCredentials` does not forbid that a change overwrites a password
newer than the one it compared. Their notes name the property next to each and the history
variable or constant (`outdated`, `Waits`, `kept`, `stale`) that leaves the case out.

Definitions marked `Fault:` are not part of any specification. Each is a plausible
bug in the definition that follows it, and PROJECT.json pairs it with the property it
breaks: evidence that the property can fail.

**Bounds and why they are enough.**

- `batch_manager`: a batch of two (full) and one of one (flushed by time), for two items,
  so that a snapshot has several entries and an item is re-enqueued while another one is
  processed. Three attempts make a backoff follow a backoff. `MaxFailures` bounds the
  failures *before* the loop leaves its select; afterwards failures are unlimited, so
  `StopTerminates` is not helped by it.
- `usage_service`: two workers race for the channel and for leaving it; three events fill
  it and overflow it.
- `metered_billing`: two batches are what a lost update needs; two calls with one retry
  each give a lost reply followed by a refused retry and a second call. A threshold of 2
  distinguishes counting from opening at once. Quantities 1 and 2 tell the batches apart in
  a total. `MaxCalls` stands for `maxBatchAttempts`.
- `refresh_tokens`: four requests allow a login, two concurrent uses of its token and a
  later reuse. Requests, tokens and users are interchangeable (symmetry; the run has no
  liveness property).

- `auth_accounts`: a race of two requests needs an account made by a third; the fourth
  sees the result. Two addresses and two passwords make a mismatch and a change visible.
- `user_accounts`: two jobs overlap, with the single statements as a third actor. Two
  users want one address. Two roles are granted or revoked at the same time. One token
  is drawn once, so a second draw of the same kind is the job's own stale copy.
- `usage_engine`: the window (2) and the time to live (3) keep the code's order (7 days, and
  8); events are dated from long past to beyond the clock; the clock reaches a moment when
  the first hours are stale. Three increments allow two for one counter and another key.
- `health_gate`: one upstream that hangs while the other one changes; handlers do not
  influence each other, so one is enough.
- `stripe_front_end`: one client more than the map has room for, two handlers between lookup
  and use, and as many limiter objects as can be referred to at once. A burst of 1 already
  separates a bucket of one's own from a shared one. `MaxProxies` = 2: behind one proxy and
  behind a chain of proxies, the proof covers longer ones.

CHECK_DEADLOCK is FALSE in every run: all these systems stop (the service exits; the calls,
requests, increments or the clock are used up).

**Fairness.** `BatchManager`: spawned goroutines run, `ProcessBatch` returns (shown by
`CallsReturn`), timers fire, and a `select` whose done case stays ready is not won by the
ticker for ever (strong fairness of `FinalFlush`; Go's select chooses at random among the
ready cases, and the loop comes back to it after every tick). Nobody is obliged to
call `Add`, `Stop` or to cancel. `UsageService`: workers are scheduled, and `main` goes on
once signalled; handlers may hang for ever, and the signal need not come.
`MeteredBilling`: a call in progress goes on, because Stripe's HTTP client has a timeout;
the reset timeout and new calls need not come. `HealthGate`: the ticker goes on, the
checker's goroutines run, and a probe ends within its 2 s timeout; upstreams and clients owe
nothing. `StripeFrontEnd`: handlers are scheduled, and what they call has a timeout
(`RequestTimeout`). `RefreshTokens`, `AuthAccounts`, `UserAccounts` and `UsageEngine` state no
liveness: a request that is never continued is a client or a database that has gone.

## 4. Proofs

Each proof module extends its component's module. `IInv` is the inductive invariant;
`Init => IInv`, `IInv /\ [Next]_vars => IInv'`, and the theorems follow.

- **BatchManagerProofs** (`TypeCorrect`, `NothingLostOrDuplicated`, `NoMetricStranded`,
  `StopIsADrain`, `ManagerImplementsLedger`, `StopWaitsForBoundedWork`), for all metrics,
  items, sizes, attempts and failure budgets. `Conservation` is not inductive by itself: a new snapshot must not
  overwrite an unfinished one, so `LoopLeaves` says the loop holds a snapshot only inside
  `FlushAll`, and why it left its select. `NothingStranded` needs `BatchItems` (a batch
  holds metrics of one item, so the backoff goroutine of a re-enqueued batch serves
  them all). `StopDrains` needs `StopShape`, what `wg.Wait` has waited for. The refinement
  is proved by showing, for each action, which metrics change stage.
  `StopWaitsForBoundedWork` is the safety half of `StopTerminates`: `wg.Wait` waits for
  goroutines that start goroutines, but `StepsLeft` weighs a batch by the attempts it has
  left, a backoff goroutine by those of the batch it may start, and a metric of the
  snapshot by those of a whole batch. Once the loop has left its select every step makes
  the sum less, except an `Add`, and wg is zero when the sum is. `StopNeverStuck`: until
  then a batch, a backoff goroutine or the loop has a step to take.
- **UsageServiceProofs** (`TypeCorrect`, `ProcessedOnce`, `EarlyProcessed`,
  `WorkersGoneFirst`, `ShutdownTakesBoundedSteps`), for all events, finite sets of workers
  and capacities. The key part is that
  once a worker has left its drain loop, no early event is in the channel; a worker leaves
  only on an empty channel, and only late events can enter it afterwards.
  `ShutdownTakesBoundedSteps` is the safety half of `ShutdownCompletes`: with the listener
  closed, each step of a handler, a worker or main uses up one of finitely many, so a
  drain loop cannot be kept busy for ever.
- **MeteredBillingProofs** (`TypeCorrect`, `BreakerOpensInTime`, `NilIsApplied`,
  `DoubledOnlyByLostReply`, `NeverBilledTwicePerCall`, `ExactWithoutRace`,
  `NothingLostWithoutRace`, `StaysOpenUntilCooled`, `CallsNeverStuck`,
  `CallsTakeBoundedSteps`), for all batches, items, quantities and limits. The invariant ties
  the label of a call to what is known of its key: a call past its update has its key applied,
  and an applied key of a call that saw an error is lost. The bounds on Stripe's total need
  what a batch is about to write: at most the units applied so far plus its own
  (`ReadingBounded`: the applied keys only grow, so an old reading is a low one), and, while
  its item is not `raced`, exactly the total plus its own (`ReadingCurrent`: an update that
  overtakes a reading makes the item raced). Lemma `UnitsAdd`: a new key adds the quantity of
  its batch, because an update takes effect only under a new key. `NothingLostWithoutRace`
  is the converse of the finding: the promise of the comment holds where nothing raced.
  `CallsTakeBoundedSteps` gives the variant behind `CallsReturn`, and `CallsNeverStuck` that
  the guard of a next step holds; only the step from there to "a call returns" is left to
  fairness and to TLC.
- **GatewayProofs**, for `RefreshTokens` (`TypeCorrect`, `RotationKills`, `ExchangedOnce`,
  `ReuseIsDetectable`, `ReuseIsTheEnd`, `NoRevocationWithoutCause`), for all requests,
  tokens and users, finite or not. A token's history hangs on the request that issued it
  and the token that request presented, which never change (`Presented`, lemma `Kept`).
  The rest says what a request has done to its token by the time it may issue another
  (`RevokedPast`, `MarkedPast`, `SparedPast`), that the sweep removes only expired tokens
  (`NotSwept`), and that one request per token gets past the lookup unless two lookups
  overlapped (`PastOnce`).

- **AuthAccountsProofs** (`TypeCorrect`, `ChangeReplacesWhatWasShown`,
  `ServiceImplementsCredentials`), for all requests, addresses and passwords. A registration
  takes effect at its INSERT and a change at its UPDATE. What they read before is still
  true then: `InHand` says that the password shown is one the account has had, `StillMatches`
  that it is still the stored one unless another change overtook it; `Opened` and `ForAccounts`
  that tokens are for accounts that exist. The refinement takes one case per answer.
- **UserAccountsProofs** (`TypeCorrect`, `NothingIsLost`, `DeletedIsFinal`), for all handlers,
  users, roles and tokens. `GoodCopies`: a copy that was not overtaken agrees with the row in
  all columns it will write. `GoodLocks` and `OneLock`: the roles read under FOR UPDATE
  are those of the row until they are written.
- **UsageEngineProofs** (`TypeCorrect`, `AverageCountsAccepted`, `HashesExpire`), for any handlers,
  customers, hours, and any window below the time to live. `CoversPending`: a counter of
  the window covers what was accepted *and* what a handler is about to accept.
  `LivesLongEnough`: its key stays until the hour has left the window. `SweepIsOld`:
  what a round deletes was stale when it began, however late it deletes.
- **GatewayProofs**, for `HealthGate` (`GateTypeCorrect`, `GateDecidesOnRecentNews`), for all
  upstreams and handlers. `FlagInTime` tells upstreams whose probe is over from those that
  wait for theirs, `SeenInTime` dates the verdicts, and `RoundsAreWhole` is `wg.Wait`.
- **StripeFrontEndProofs** (`TakenForItself`, `MapStaysBounded`, `ClientsKeepTheirBucket`), for
  all clients, proxies, chains of proxies, bursts and sizes of the map, and any finite number
  of handlers. `TakenForItself` is about `getClientIP` alone: whatever the claim and the
  chain, the right-most hop that is no proxy is the client (`RightMostHop`,
  `HopsThroughProxies`). `OwnBucket` is not inductive, since a request uses its limiter
  after the unlock. A limiter belongs to one address for good: no two entries share one
  (`OneEach`), one in use is in no entry but its client's (`HeldForOne`) and is in that one
  unless it was evicted (`HeldOrGone`). A new entry's limiter is nobody's and full
  (`UnusedIsFull`), and there is one: entries and busy handlers refer to fewer than
  `MaxIPLimiters` plus the handlers (`FreshExists`, by counting). The bound on the map is
  `EntriesBounded`: an insertion into a full map removes one entry in the same step.

The assumptions are those named in the modules: `BatchConstants`, `ServiceConstants` and
`BillingConstants` (positive sizes and thresholds, an item for every metric,
a finite, non-empty set of workers),
`EngineConstants` (a finite set of handlers, and `Window < TTL`: `usageKeyTTL` covers the
window with a margin), `UserConstants` (anonymous and mangled addresses are nobody's),
`FrontEndConstants` (finitely many handlers, positive bursts and bound, clients are no proxies,
and no finite set of limiters in use exhausts the allocator), and
`TokenConstants`, `AccountConstants`, `NoneIsNoRow`, `NoneIsNoEvent` (`None` is nothing
else). TLC evaluates them in every run.

**Only model-checked.** Liveness (`StopTerminates`, `EventuallySettled`,
`ShutdownCompletes`, `EarlyEventsReachBilling`, `CallsReturn`, `FlagsSettle`,
`AdmittedAnswered`): it depends on fairness and ENABLED, which are out of the prover's reach;
for `CallsReturn`, `StopTerminates` and `ShutdownCompletes` the safety half is proved (a
variant that every step makes less). Every safety property of a passing run is
a theorem. The three properties of the runs that expect a violation are false; next to each
stands a theorem that says how far the code keeps the promise (`EarlyProcessed`,
`ExactWithoutRace` and `NothingLostWithoutRace`, `ExchangedOnce`).

## 5. Plan

Order, most important behaviour first.

Done: the usage path (`UsageLedger`, `BatchManager`, `UsageService`, `MeteredBilling`), the
sessions (`RefreshTokens`), the services over the `users` table (`UserAccounts`,
`Credentials`, `AuthAccounts`), the counters (`UsageEngine`), the gateway (`HealthGate`) and
the front ends of Stripe (`StripeFrontEnd`), with the proofs of section 4.

Left:

1. Composition: the usage service with the batch manager in place of the reduced billing
   client, its `billing` variable being a mapping of `done`/`ctxDone`.
2. The safety halves of the remaining liveness properties (`EventuallySettled`,
   `EarlyEventsReachBilling`, `FlagsSettle`, `AdmittedAnswered`): a variant that every step
   makes less, as for `CallsReturn`.

## 6. Not modelled, and why

- **Library code and pure functions**: JWT signing and parsing, bcrypt, token buckets,
  gobreaker, validation of single values, configuration, migrations, mail.
- **Placeholders**: the billing service answers 501, the template service is a skeleton.
  `shared/httpserver` and the circuit-breaker middleware are used by no service.
- **Reads**: `GetUsageSummary`, statistics, health endpoints, `ListUsers`, `ExportUserData`,
  `GetCurrentUser`. They change nothing, and each is one statement or one locked read.
- **What Stripe does** with payment intents, refunds and customers: one call per request.
- **Expiry of tokens** in the auth and user services: an expired token is refused, which any
  request may be. Access-token revocation does not exist in the code: a revoked session's
  access token stays valid until it expires (15 minutes), outside the token store.
- **The value of the rolling average** and time zones: the model says what is counted.
- **Columns nothing else reads**: `last_login`, and the consent columns, which `UpdateUser`
  never writes.
- **The pool's alert channel**, which has no producer, and the breaker disabled by
  configuration.

Where the code as it stands would not run, the models take what it is written to do, and
PROJECT.json lists the disagreement as a finding: the usage service's default address has no
colon; the auth service uses `JWTService` from packages it does not import, and is modelled as
if it used `pkg/auth`; the migration of the user service declares neither the unique index on
`user_id` its upsert needs nor the JSON column its roles need, and `RunMigrations` looks
in a directory that does not exist. `UserAccounts` takes the tables as the queries take them:
one token per user, roles that can be stored.

No service sets `TrustedProxies`. Without it the left-most entry of `X-Forwarded-For` is used,
which the code's own comment calls forgeable; `OwnBucket` is about a limiter behind
configured proxies.

Other disagreements between code and comments that need no run: the half-open breaker
admits more than one call; `Shutdown` ignores its context; the idempotency key is new for
every attempt; retries are not bounded per metric; consent changes are answered with 204 and
not stored; anonymisation leaves the password hash, the last address and the user
agent; the write-backs lose concurrent updates; the payment service exits without waiting
for its requests; EXPIRE on a key that has gone is no error; the average's denominator skips
hours without calls.

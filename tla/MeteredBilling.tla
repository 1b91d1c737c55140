--------------------------- MODULE MeteredBilling ---------------------------
(***************************************************************************)
(* shared/stripe-client/metered_billing.go, the batch.Processor: a circuit *)
(* breaker around retry.Do (internal/retry/retry.go) around one Retrieve   *)
(* and one Update of the subscription item's total_usage at Stripe.        *)
(*                                                                         *)
(* A batch is a group of metrics of one item that the batch manager passes *)
(* to ProcessBatch, again after every error, with a fresh idempotency key  *)
(* each time: the key of a call is <<b, calls[b]>>. Several batches, of the *)
(* same item too, are processed at the same time. Stripe is external: it   *)
(* may fail, apply an update and lose the reply, and it refuses a key it   *)
(* has seen with other parameters. The retries of one call always carry    *)
(* other parameters, for last_usage_update is in seconds and the backoff   *)
(* is longer than one. Time is abstracted: the reset timeout may pass at   *)
(* any moment after the breaker opened. The breaker is enabled.            *)
(***************************************************************************)
EXTENDS Integers, FiniteSets

CONSTANTS Batches,     \* groups of metrics the batch manager processes
          Items,       \* subscription items
          Item,        \* the item of each batch
          Quantity,    \* the sum of the quantities of a batch
          MaxRetries,  \* config.MaxRetries, the retries of retry.Do
          Threshold,   \* config.CBFailureThreshold
          MaxCalls     \* bound: ProcessBatch calls per batch (maxBatchAttempts)

ASSUME BillingConstants ==
    /\ Item \in [Batches -> Items]
    /\ Quantity \in [Batches -> Nat \ {0}]
    /\ MaxRetries \in Nat
    /\ Threshold \in Nat \ {0}
    /\ MaxCalls \in Nat \ {0}

VARIABLES
    cb,          \* cbState
    cbFailures,  \* cbConsecutiveFailures
    cooled,      \* CBResetTimeout has passed since cbLastFailureTime
    pc,          \* where each batch is in ProcessBatch
    calls,       \* ProcessBatch calls of each batch so far
    tries,       \* retry.Do's attempt
    newTotal,    \* the total_usage about to be written
    result,      \* what the last finished step of the call gave
    ctxDone,     \* the manager's context is cancelled
    total,       \* Stripe: total_usage of each item
    applied,     \* Stripe: the idempotency keys whose update took effect
    lost,        \* history: keys whose update took effect though the caller saw an error
    raced        \* history: items written while another batch held an older reading

breaker == <<cb, cbFailures, cooled>>
stripe  == <<total, applied, lost, raced>>
vars    == <<cb, cbFailures, cooled, pc, calls, tries, newTotal, result, ctxDone,
             total, applied, lost, raced>>

Key(b)     == <<b, calls[b]>>
Keys       == Batches \X (1..MaxCalls)
AppliedTo(i) == {k \in applied : Item[k[1]] = i}
UnitsOf(k) == {k} \X (1..Quantity[k[1]])
Units(S)   == Cardinality(UNION {UnitsOf(k) : k \in S})
At(b, label) == pc[b] = label
Goto(b, label) == pc' = [pc EXCEPT ![b] = label]

Init ==
    /\ cb = "closed" /\ cbFailures = 0 /\ cooled = FALSE
    /\ pc = [b \in Batches |-> "idle"]
    /\ calls = [b \in Batches |-> 0]
    /\ tries = [b \in Batches |-> 0]
    /\ newTotal = [b \in Batches |-> 0]
    /\ result = [b \in Batches |-> "none"]
    /\ ctxDone = FALSE
    /\ total = [i \in Items |-> 0]
    /\ applied = {} /\ lost = {} /\ raced = {}
-----------------------------------------------------------------------------
(* ProcessBatch before the call: the breaker decides under cbMutex. A      *)
(* batch that was processed is not passed again.                           *)

Passed(b) == At(b, "idle") /\ result[b] # "nil" /\ calls[b] < MaxCalls

Admit(b) ==
    /\ Passed(b)
    /\ cb = "open" => cooled
    /\ IF cb = "open" THEN cb' = "half" /\ cbFailures' = 0
                      ELSE UNCHANGED <<cb, cbFailures>>
    /\ calls' = [calls EXCEPT ![b] = @ + 1]
    /\ tries' = [tries EXCEPT ![b] = 0]
    /\ Goto(b, "attempt")
    /\ UNCHANGED <<cooled, newTotal, result, ctxDone, stripe>>

Reject(b) ==
    /\ Passed(b) /\ cb = "open" /\ ~cooled
    /\ calls' = [calls EXCEPT ![b] = @ + 1]
    /\ result' = [result EXCEPT ![b] = "error"]
    /\ UNCHANGED <<breaker, pc, tries, newTotal, ctxDone, stripe>>
-----------------------------------------------------------------------------
(* retry.Do: the context is checked before each attempt and while backing  *)
(* off, which is where a call is when pc is "attempt".                     *)

\* Fault: lastErr, nil before the first attempt, is returned when the context is done.
ContextDoneNil(b) ==
    /\ At(b, "attempt") /\ ctxDone
    /\ result' = [result EXCEPT ![b] = IF tries[b] = 0 THEN "nil" ELSE "error"]
    /\ Goto(b, "record")
    /\ UNCHANGED <<breaker, calls, tries, newTotal, ctxDone, stripe>>

ContextDone(b) ==
    /\ At(b, "attempt") /\ ctxDone
    /\ result' = [result EXCEPT ![b] = "error"]
    /\ Goto(b, "record")
    /\ UNCHANGED <<breaker, calls, tries, newTotal, ctxDone, stripe>>

Begin(b) ==
    /\ At(b, "attempt") /\ ~ctxDone
    /\ Goto(b, "read")
    /\ UNCHANGED <<breaker, calls, tries, newTotal, result, ctxDone, stripe>>

\* Fault: the attempt is not counted.
FailUncounted(b) ==
    /\ IF tries[b] < MaxRetries
       THEN Goto(b, "attempt") /\ UNCHANGED result
       ELSE Goto(b, "record") /\ result' = [result EXCEPT ![b] = "error"]
    /\ UNCHANGED tries

\* Fault: one retry too many.
FailOnceMore(b) ==
    IF tries[b] <= MaxRetries
    THEN /\ tries' = [tries EXCEPT ![b] = @ + 1]
         /\ Goto(b, "attempt")
         /\ UNCHANGED result
    ELSE /\ result' = [result EXCEPT ![b] = "error"]
         /\ Goto(b, "record")
         /\ UNCHANGED tries

\* The attempt returns an error: another one follows, or Do gives up.
Fail(b) ==
    IF tries[b] < MaxRetries
    THEN /\ tries' = [tries EXCEPT ![b] = @ + 1]
         /\ Goto(b, "attempt")
         /\ UNCHANGED result
    ELSE /\ result' = [result EXCEPT ![b] = "error"]
         /\ Goto(b, "record")
         /\ UNCHANGED tries
-----------------------------------------------------------------------------
(* The attempt: processingFunc.                                            *)

\* Fault: the batch's own quantity is written as the total.
ReadNothing(b) ==
    /\ At(b, "read")
    /\ newTotal' = [newTotal EXCEPT ![b] = Quantity[b]]
    /\ Goto(b, "write")
    /\ UNCHANGED <<breaker, calls, tries, result, ctxDone, stripe>>

Read(b) ==
    /\ At(b, "read")
    /\ newTotal' = [newTotal EXCEPT ![b] = total[Item[b]] + Quantity[b]]
    /\ Goto(b, "write")
    /\ UNCHANGED <<breaker, calls, tries, result, ctxDone, stripe>>

ReadFails(b) ==
    /\ At(b, "read")
    /\ Fail(b)
    /\ UNCHANGED <<breaker, calls, newTotal, ctxDone, stripe>>

\* Another batch of the item has read the total this update replaces.
OthersReading(b) == \E c \in Batches \ {b} : Item[c] = Item[b] /\ At(c, "write")

\* Stripe takes the update: the key is new, or none was sent with the request.
TakeEffect(b) ==
    /\ total' = [total EXCEPT ![Item[b]] = newTotal[b]]
    /\ applied' = applied \cup {Key(b)}
    /\ raced' = IF OthersReading(b) THEN raced \cup {Item[b]} ELSE raced

\* Fault: the update is sent without an idempotency key.
UpdateUnkeyed(b) ==
    /\ At(b, "write")
    /\ TakeEffect(b)
    /\ \/ Goto(b, "cost") /\ result' = [result EXCEPT ![b] = "nil"]
          /\ UNCHANGED <<tries, lost>>
       \/ Fail(b) /\ lost' = lost \cup {Key(b)}
    /\ UNCHANGED <<breaker, calls, newTotal, ctxDone>>

\* The update is applied, and its reply arrives or is lost.
Update(b) ==
    /\ At(b, "write") /\ Key(b) \notin applied
    /\ TakeEffect(b)
    /\ \/ Goto(b, "cost") /\ result' = [result EXCEPT ![b] = "nil"]
          /\ UNCHANGED <<tries, lost>>
       \/ Fail(b) /\ lost' = lost \cup {Key(b)}
    /\ UNCHANGED <<breaker, calls, newTotal, ctxDone>>

\* The update never takes effect: a failure, or a key seen before with other parameters.
UpdateFails(b) ==
    /\ At(b, "write")
    /\ Fail(b)
    /\ UNCHANGED <<breaker, calls, newTotal, ctxDone, stripe>>

\* Fault: an error of the second Retrieve is returned.
CostReturned(b) ==
    /\ At(b, "cost")
    /\ \/ UNCHANGED result
       \/ result' = [result EXCEPT ![b] = "error"]
    /\ Goto(b, "record")
    /\ UNCHANGED <<breaker, calls, tries, newTotal, ctxDone, stripe>>

\* The second Retrieve only feeds a log line; its error is ignored.
Cost(b) ==
    /\ At(b, "cost")
    /\ Goto(b, "record")
    /\ UNCHANGED <<breaker, calls, tries, newTotal, result, ctxDone, stripe>>
-----------------------------------------------------------------------------
(* ProcessBatch after the call: the result is recorded under cbMutex, in   *)
(* the state the breaker is in by then.                                    *)

Open == cb' = "open" /\ cooled' = FALSE

\* Fault: a success closes the breaker from any state, open included.
RecordClosing(b) ==
    /\ At(b, "record")
    /\ \/ /\ result[b] = "nil"
          /\ cb' = "closed" /\ cbFailures' = 0 /\ UNCHANGED cooled
       \/ /\ result[b] = "error" /\ cb = "half"
          /\ Open /\ UNCHANGED cbFailures
       \/ /\ result[b] = "error" /\ cb = "closed"
          /\ cbFailures' = cbFailures + 1
          /\ IF cbFailures' >= Threshold THEN Open ELSE UNCHANGED <<cb, cooled>>
       \/ result[b] = "error" /\ cb = "open" /\ UNCHANGED breaker
    /\ Goto(b, "idle")
    /\ UNCHANGED <<calls, tries, newTotal, result, ctxDone, stripe>>

\* Fault: the breaker opens one failure late.
RecordLate(b) ==
    /\ At(b, "record")
    /\ \/ /\ result[b] = "nil" /\ cb # "open"
          /\ cb' = "closed" /\ cbFailures' = 0 /\ UNCHANGED cooled
       \/ /\ result[b] = "error" /\ cb = "half"
          /\ Open /\ UNCHANGED cbFailures
       \/ /\ result[b] = "error" /\ cb = "closed"
          /\ cbFailures' = cbFailures + 1
          /\ IF cbFailures' > Threshold THEN Open ELSE UNCHANGED <<cb, cooled>>
       \/ cb = "open" /\ UNCHANGED breaker
    /\ Goto(b, "idle")
    /\ UNCHANGED <<calls, tries, newTotal, result, ctxDone, stripe>>

\* A result that comes in while the breaker is open, from a call admitted before, is ignored.
Record(b) ==
    /\ At(b, "record")
    /\ \/ /\ result[b] = "nil" /\ cb # "open"
          /\ cb' = "closed" /\ cbFailures' = 0 /\ UNCHANGED cooled
       \/ /\ result[b] = "error" /\ cb = "half"
          /\ Open /\ UNCHANGED cbFailures
       \/ /\ result[b] = "error" /\ cb = "closed"
          /\ cbFailures' = cbFailures + 1
          /\ IF cbFailures' >= Threshold THEN Open ELSE UNCHANGED <<cb, cooled>>
       \/ cb = "open" /\ UNCHANGED breaker
    /\ Goto(b, "idle")
    /\ UNCHANGED <<calls, tries, newTotal, result, ctxDone, stripe>>
-----------------------------------------------------------------------------
(* The clock and the context.                                              *)

Cool ==
    /\ cb = "open" /\ ~cooled
    /\ cooled' = TRUE
    /\ UNCHANGED <<cb, cbFailures, pc, calls, tries, newTotal, result, ctxDone, stripe>>

Cancel ==
    /\ ~ctxDone
    /\ ctxDone' = TRUE
    /\ UNCHANGED <<breaker, pc, calls, tries, newTotal, result, stripe>>
-----------------------------------------------------------------------------
Step(b) ==
    \/ ContextDone(b) \/ Begin(b)
    \/ Read(b) \/ ReadFails(b)
    \/ Update(b) \/ UpdateFails(b)
    \/ Cost(b) \/ Record(b)

Next ==
    \/ \E b \in Batches : Admit(b) \/ Reject(b) \/ Step(b)
    \/ Cool \/ Cancel

Spec == Init /\ [][Next]_vars

\* A call in progress goes on: its goroutine is scheduled and Stripe's client times out.
Fairness == \A b \in Batches : WF_vars(Step(b))

FairSpec == Spec /\ Fairness
-----------------------------------------------------------------------------
TypeOK ==
    /\ cb \in {"closed", "open", "half"}
    /\ cbFailures \in 0..Threshold
    /\ cooled \in BOOLEAN /\ ctxDone \in BOOLEAN
    /\ pc \in [Batches -> {"idle", "attempt", "read", "write", "cost", "record"}]
    /\ calls \in [Batches -> 0..MaxCalls]
    /\ tries \in [Batches -> 0..MaxRetries]
    /\ newTotal \in [Batches -> Nat]
    /\ result \in [Batches -> {"none", "nil", "error"}]
    /\ total \in [Items -> Nat]
    /\ applied \subseteq Keys /\ lost \subseteq applied
    /\ raced \subseteq Items

\* Stripe's total never exceeds the units of the calls it applied, each counted once: the
\* retries inside one ProcessBatch call do not add the batch again, concurrently or not.
NeverOverstated == \A i \in Items : total[i] <= Units(AppliedTo(i))

\* Where no two batches of an item interleave between read and update, the total is exactly
\* the sum of all updates applied, earlier batches included.
ExactUnlessRaced == \A i \in Items \ raced : total[i] = Units(AppliedTo(i))

\* ProcessBatch returns nil only when Stripe applied this very call: metrics that the batch
\* manager forgets are never missing from Stripe for want of an update.
NilMeansApplied ==
    \A b \in Batches : At(b, "idle") /\ result[b] = "nil" => Key(b) \in applied

\* Unless a reply was lost a batch is applied by at most one of its calls, and never again
\* after an error: failures of the read, the breaker or the cost lookup cannot double it.
OnceUnlessReplyLost ==
    \A k, l \in applied : k[1] = l[1] /\ k # l => k \in lost \/ l \in lost

\* The breaker stays closed only below the threshold of consecutive failures, also when the
\* failures are reported by calls that were admitted before it last closed.
ClosedBelowThreshold ==
    /\ cb = "closed" => cbFailures < Threshold
    /\ cb = "half" => cbFailures = 0

\* Once open the breaker lets nothing through until the reset timeout has passed: a late
\* result of a call admitted earlier neither closes it nor half-opens it.
OpenUntilCooled == [][cb = "open" /\ cb' # "open" => cooled /\ cb' = "half"]_vars

\* Every ProcessBatch call returns, however often Stripe fails: what batch.Manager's Stop
\* relies on.
CallsReturn == \A b \in Batches : ~At(b, "idle") ~> At(b, "idle")

\* "Read current cumulative usage so we INCREMENT instead of overwriting": no unit of a
\* processed batch is missing from the total.
NoLostUnits ==
    \A i \in Items : total[i] >=
        Units({Key(b) : b \in {c \in Batches : Item[c] = i /\ At(c, "idle") /\ result[c] = "nil"}})
=============================================================================

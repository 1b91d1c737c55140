------------------------ MODULE MeteredBillingProofs ------------------------
(***************************************************************************)
(* What metered_billing.go guarantees for every number of batches, items,  *)
(* retries and calls, and every failure threshold of the breaker.          *)
(*                                                                         *)
(* NilMeansApplied is not inductive: NilApplied adds that a batch whose    *)
(* call returned nil is not passed again, so its key stays the same.       *)
(* OnceUnlessReplyLost rests on LostBefore: while a batch may still be     *)
(* tried, every update it ever made is one whose reply was lost.           *)
(*                                                                         *)
(* The bounds on Stripe's total are about what a batch has read: a reading *)
(* in use is at most what the updates applied so far add up to, and, where *)
(* nothing raced, it still is Stripe's total.                              *)
(***************************************************************************)
EXTENDS MeteredBilling, FiniteSetTheorems, TLAPS

USE BillingConstants DEF BillingConstants

\* A batch in ProcessBatch has been passed at least once.
InCall == \A b \in Batches : ~At(b, "idle") => calls[b] > 0

\* A nil result is of an applied call, and final.
NilApplied ==
    \A b \in Batches :
        /\ result[b] = "nil" => Key(b) \in applied /\ pc[b] \in {"cost", "record", "idle"}
        /\ At(b, "cost") => result[b] = "nil"

\* An update whose reply was not lost is that of a call that returns, or returned, nil.
LostBefore ==
    \A k \in applied : k \in lost \/ (k = Key(k[1]) /\ result[k[1]] = "nil")

\* What a batch is about to write was read earlier, and the updates applied only grow in number.
ReadingBounded ==
    \A b \in Batches : At(b, "write") => newTotal[b] <= Units(AppliedTo(Item[b])) + Quantity[b]

\* Unless it raced, what a batch has read is still the item's total.
ReadingCurrent ==
    \A b \in Batches : At(b, "write") /\ Item[b] \notin raced =>
                        newTotal[b] = total[Item[b]] + Quantity[b]

IInv == /\ TypeOK
        /\ InCall
        /\ ClosedBelowThreshold
        /\ NilApplied
        /\ LostBefore
        /\ IsFiniteSet(applied)
        /\ NeverOverstated /\ ReadingBounded
        /\ ExactUnlessRaced /\ ReadingCurrent
-----------------------------------------------------------------------------
(* Types and the breaker.                                                  *)

Shape == TypeOK /\ InCall /\ ClosedBelowThreshold

\* The breaker starts closed without failures, and no batch is being processed.
LEMMA ShapeInit == Init => Shape
  <1> SUFFICES ASSUME Init PROVE Shape
    OBVIOUS
  <1>1. /\ 0 \in 0..Threshold /\ 0 \in 0..MaxCalls /\ 0 \in 0..MaxRetries
        /\ 0 < Threshold
    BY DEF BillingConstants
  <1>2. ClosedBelowThreshold /\ InCall
    BY <1>1 DEF Init, ClosedBelowThreshold, InCall, At
  <1>3. TypeOK
    BY <1>1 DEF Init, TypeOK
  <1>4. QED
    BY <1>2, <1>3 DEF Shape

\* Whether it retries or gives up, a failed attempt keeps the batch inside its call.
LEMMA FailKeepsTypes ==
    ASSUME Shape, NEW b \in Batches, Fail(b)
    PROVE  /\ tries' \in [Batches -> 0..MaxRetries]
           /\ result' \in [Batches -> {"none", "nil", "error"}]
           /\ pc' \in [Batches -> {"idle", "attempt", "read", "write", "cost", "record"}]
           /\ \A c \in Batches : pc'[c] = IF c = b THEN pc'[b] ELSE pc[c]
           /\ pc'[b] \in {"attempt", "record"}
           /\ \A c \in Batches : result'[c] # result[c] => c = b /\ result'[c] = "error"
                                                           /\ pc'[b] = "record"
  BY DEF Fail, Shape, TypeOK, Goto

\* The count of failures passes the threshold only in the step that opens the breaker.
LEMMA ShapeStep == Shape /\ [Next]_vars => Shape'
  <1> SUFFICES ASSUME Shape, [Next]_vars PROVE Shape'
    OBVIOUS
  <1> USE DEF Shape, TypeOK, InCall, ClosedBelowThreshold, At, Goto, breaker, stripe
  <1>1. ASSUME NEW b \in Batches, Admit(b) PROVE Shape'
    BY <1>1 DEF Admit, Passed
  <1>2. ASSUME NEW b \in Batches, Reject(b) PROVE Shape'
    BY <1>2 DEF Reject, Passed
  <1>3. ASSUME NEW b \in Batches, ContextDone(b) \/ Begin(b) PROVE Shape'
    BY <1>3 DEF ContextDone, Begin
  <1>4. ASSUME NEW b \in Batches, Read(b) PROVE Shape'
    BY <1>4 DEF Read
  <1>5. ASSUME NEW b \in Batches, ReadFails(b) \/ UpdateFails(b) PROVE Shape'
    <2>1. Fail(b) /\ UNCHANGED <<breaker, calls, newTotal, ctxDone, stripe>> /\ pc[b] # "idle"
      BY <1>5 DEF ReadFails, UpdateFails
    <2>2. QED
      BY <2>1, FailKeepsTypes
  <1>6. ASSUME NEW b \in Batches, Update(b) PROVE Shape'
    <2>1. Key(b) \in Keys
      BY <1>6 DEF Update, Key, Keys
    <2>2. /\ total' \in [Items -> Nat] /\ applied' = applied \cup {Key(b)}
          /\ raced' \subseteq Items
      BY <1>6 DEF Update, TakeEffect
    <2>3. UNCHANGED <<cb, cbFailures, cooled, calls, newTotal, ctxDone>> /\ pc[b] # "idle"
      BY <1>6 DEF Update
    <2>4. CASE /\ Goto(b, "cost") /\ result' = [result EXCEPT ![b] = "nil"]
               /\ UNCHANGED <<tries, lost>>
      BY <2>1, <2>2, <2>3, <2>4
    <2>5. CASE Fail(b) /\ lost' = lost \cup {Key(b)}
      BY <2>1, <2>2, <2>3, <2>5, FailKeepsTypes
    <2>6. QED
      BY <1>6, <2>4, <2>5 DEF Update
  <1>7. ASSUME NEW b \in Batches, Cost(b) PROVE Shape'
    BY <1>7 DEF Cost
  <1>8. ASSUME NEW b \in Batches, Record(b) PROVE Shape'
    <2>1. UNCHANGED <<calls, tries, newTotal, result, ctxDone, stripe>> /\ Goto(b, "idle")
      BY <1>8 DEF Record
    <2>2. CASE cb' = "closed" /\ cbFailures' = 0 /\ UNCHANGED cooled
      BY <2>1, <2>2
    <2>3. CASE cb = "half" /\ Open /\ UNCHANGED cbFailures
      BY <2>1, <2>3 DEF Open
    <2>4. CASE /\ cb = "closed" /\ cbFailures' = cbFailures + 1
               /\ IF cbFailures' >= Threshold THEN Open ELSE UNCHANGED <<cb, cooled>>
      <3>1. cbFailures' \in 0..Threshold
        BY <2>4
      <3>2. \/ cb' = "open" /\ cooled' = FALSE
            \/ cb' = "closed" /\ cbFailures' < Threshold /\ cooled' = cooled
        BY <2>4, <3>1 DEF Open
      <3>3. QED
        BY <2>1, <3>1, <3>2
    <2>5. CASE UNCHANGED breaker
      BY <2>1, <2>5
    <2>6. QED
      BY <1>8, <2>2, <2>3, <2>4, <2>5 DEF Record
  <1>9. CASE Cool \/ Cancel
    BY <1>9 DEF Cool, Cancel
  <1>10. CASE UNCHANGED vars
    BY <1>10 DEF vars, Keys
  <1>11. QED
    BY <1>1, <1>2, <1>3, <1>4, <1>5, <1>6, <1>7, <1>8, <1>9, <1>10 DEF Next, Step

\* Every variable keeps its type; retry.Do's attempts and the failure count stay bounded.
THEOREM TypeCorrect == Spec => []TypeOK
  <1>1. Shape => TypeOK
    BY DEF Shape
  <1>2. QED
    BY <1>1, ShapeInit, ShapeStep, PTL DEF Spec
-----------------------------------------------------------------------------
(* Results and updates.                                                    *)

Results == NilApplied /\ LostBefore

\* No call was made yet.
LEMMA ResultsInit == Init => Results
  BY DEF Init, Results, NilApplied, LostBefore, At

\* A step that leaves Stripe and the calls alone, and turns results into errors at most,
\* of batches whose result was not nil, preserves both.
LEMMA ResultsKept ==
    ASSUME Shape, Results, UNCHANGED <<calls, applied, lost>>,
           \A c \in Batches :
             /\ result[c] = "nil" <=> result'[c] = "nil"
             /\ pc'[c] = "cost" => result'[c] = "nil"
             /\ result'[c] = "nil" => pc'[c] \in {"cost", "record", "idle"}
    PROVE  Results'
  <1>1. NilApplied'
    BY DEF Results, NilApplied, Key, At
  <1>2. LostBefore'
    <2>1. \A k \in applied : k[1] \in Batches
      BY DEF Shape, TypeOK, Keys
    <2>2. QED
      BY <2>1 DEF Results, LostBefore, Key
  <1>3. QED
    BY <1>1, <1>2 DEF Results

\* An update is the last one of its batch, or its reply is lost; a batch that is passed
\* again has only updates of the second kind.
LEMMA ResultsStep == Shape /\ Results /\ [Next]_vars => Results'
  <1> SUFFICES ASSUME Shape, Results, [Next]_vars PROVE Results'
    OBVIOUS
  <1>t. /\ pc \in [Batches -> {"idle", "attempt", "read", "write", "cost", "record"}]
        /\ result \in [Batches -> {"none", "nil", "error"}]
        /\ calls \in [Batches -> 0..MaxCalls]
        /\ applied \subseteq Keys
    BY DEF Shape, TypeOK
  <1>k. \A k \in applied : k[1] \in Batches
    BY <1>t DEF Keys
  <1>n. \A c \in Batches : /\ result[c] = "nil" => pc[c] \in {"cost", "record", "idle"}
                           /\ pc[c] = "cost" => result[c] = "nil"
    BY DEF Results, NilApplied, At
  <1>1. ASSUME NEW b \in Batches, Admit(b) \/ Reject(b) PROVE Results'
    <2>1. /\ result[b] # "nil" /\ result'[b] # "nil"
          /\ pc'[b] \in {"attempt", "idle"}
          /\ \A c \in Batches \ {b} : /\ calls'[c] = calls[c] /\ pc'[c] = pc[c]
                                      /\ result'[c] = result[c]
          /\ UNCHANGED <<applied, lost>>
      BY <1>1, <1>t DEF Admit, Reject, Passed, At, Goto, stripe
    <2>2. NilApplied'
      BY <2>1 DEF Results, NilApplied, Key, At
    <2>3. LostBefore'
      BY <2>1, <1>k DEF Results, LostBefore, Key
    <2>4. QED
      BY <2>2, <2>3 DEF Results
  <1>2. ASSUME NEW b \in Batches, ContextDone(b) \/ Begin(b) PROVE Results'
    <2>1. pc[b] = "attempt" /\ result[b] # "nil"
      BY <1>2, <1>n DEF ContextDone, Begin, At
    <2>2. QED
      BY <1>2, <1>t, <1>n, <2>1, ResultsKept DEF ContextDone, Begin, Goto, stripe
  <1>3. ASSUME NEW b \in Batches, Read(b) PROVE Results'
    <2>1. pc[b] = "read" /\ result[b] # "nil"
      BY <1>3, <1>n DEF Read, At
    <2>2. QED
      BY <1>3, <1>t, <1>n, <2>1, ResultsKept DEF Read, Goto, stripe
  <1>4. ASSUME NEW b \in Batches, ReadFails(b) \/ UpdateFails(b) PROVE Results'
    <2>1. Fail(b) /\ result[b] # "nil" /\ UNCHANGED <<calls, applied, lost>>
      BY <1>4, <1>n DEF ReadFails, UpdateFails, At, stripe
    <2>2. QED
      BY <1>n, <2>1, FailKeepsTypes, ResultsKept
  <1>5. ASSUME NEW b \in Batches, Update(b) PROVE Results'
    <2>1. /\ applied' = applied \cup {Key(b)} /\ UNCHANGED calls
          /\ pc[b] = "write" /\ result[b] # "nil"
      BY <1>5, <1>n DEF Update, TakeEffect, At
    <2>2. \A k \in applied : k[1] = b => k \in lost
      BY <2>1 DEF Results, LostBefore
    <2>k. \A c \in Batches : Key(c)' = Key(c) /\ Key(c)[1] = c
      BY <2>1 DEF Key
    <2>3. CASE /\ Goto(b, "cost") /\ result' = [result EXCEPT ![b] = "nil"]
               /\ UNCHANGED <<tries, lost>>
      <3>1. /\ result'[b] = "nil" /\ pc'[b] = "cost"
            /\ \A c \in Batches \ {b} : result'[c] = result[c] /\ pc'[c] = pc[c]
        BY <2>3, <1>t DEF Goto
      <3>2. NilApplied'
        BY <2>1, <2>k, <3>1 DEF Results, NilApplied, At
      <3>3. LostBefore'
        BY <1>k, <2>1, <2>2, <2>3, <2>k, <3>1 DEF Results, LostBefore
      <3>4. QED
        BY <3>2, <3>3 DEF Results
    <2>4. CASE Fail(b) /\ lost' = lost \cup {Key(b)}
      <3>1. /\ pc'[b] \in {"attempt", "record"} /\ result'[b] # "nil"
            /\ \A c \in Batches \ {b} : result'[c] = result[c] /\ pc'[c] = pc[c]
        BY <2>1, <2>4, FailKeepsTypes
      <3>2. NilApplied'
        BY <2>1, <2>k, <3>1 DEF Results, NilApplied, At
      <3>3. LostBefore'
        BY <1>k, <2>1, <2>2, <2>4, <2>k, <3>1 DEF Results, LostBefore
      <3>4. QED
        BY <3>2, <3>3 DEF Results
    <2>5. QED
      BY <1>5, <2>3, <2>4 DEF Update
  <1>6. ASSUME NEW b \in Batches, Cost(b) \/ Record(b) PROVE Results'
    BY <1>6, <1>t, <1>n, ResultsKept DEF Cost, Record, Goto, stripe, At
  <1>7. CASE Cool \/ Cancel
    BY <1>7, <1>n, ResultsKept DEF Cool, Cancel, stripe
  <1>8. CASE UNCHANGED vars
    BY <1>8, <1>n, ResultsKept DEF vars
  <1>9. QED
    BY <1>1, <1>2, <1>3, <1>4, <1>5, <1>6, <1>7, <1>8 DEF Next, Step
-----------------------------------------------------------------------------
(* Stripe's total.                                                         *)

\* A call stands for as many units as the quantity of its batch.
LEMMA UnitsOfKey ==
    ASSUME NEW k \in Keys
    PROVE  /\ Quantity[k[1]] \in Nat
           /\ IsFiniteSet(UnitsOf(k)) /\ Cardinality(UnitsOf(k)) = Quantity[k[1]]
  <1>1. PICK q \in Nat \ {0} : q = Quantity[k[1]]
    BY DEF Keys
  <1>2. IsFiniteSet(1..q) /\ Cardinality(1..q) = q
    <2>1. 1 \in Int /\ q \in Int /\ ~(1 > q) /\ q - 1 + 1 = q
      OBVIOUS
    <2>2. QED
      BY <2>1, FS_Interval
  <1>3. IsFiniteSet({k}) /\ Cardinality({k}) = 1
    BY FS_Singleton
  <1>4. IsFiniteSet({k} \X (1..q)) /\ Cardinality({k} \X (1..q)) = 1 * q
    BY <1>2, <1>3, FS_Product
  <1>5. QED
    BY <1>1, <1>4 DEF UnitsOf

\* The units of a finite set of keys are finitely many.
LEMMA UnitsFinite ==
    ASSUME NEW S \in SUBSET Keys, IsFiniteSet(S)
    PROVE  /\ IsFiniteSet(UNION {UnitsOf(k) : k \in S})
           /\ Units(S) \in Nat
  <1> DEFINE f == [k \in S |-> UnitsOf(k)]
             T == {UnitsOf(k) : k \in S}
  <1>1. f \in Surjection(S, T)
    BY DEF Surjection
  <1>2. IsFiniteSet(T)
    BY <1>1, FS_Surjection
  <1>3. \A k \in S : IsFiniteSet(UnitsOf(k))
    BY UnitsOfKey
  <1>4. IsFiniteSet(UNION T)
    BY <1>2, <1>3, FS_UNION
  <1>5. QED
    BY <1>4, FS_CardinalityType DEF Units

\* Fewer keys have fewer units.
LEMMA UnitsMonotone ==
    ASSUME NEW S \in SUBSET Keys, IsFiniteSet(S), NEW T \in SUBSET S
    PROVE  Units(T) <= Units(S)
  <1>1. UNION {UnitsOf(k) : k \in T} \subseteq UNION {UnitsOf(k) : k \in S}
    OBVIOUS
  <1>2. QED
    BY <1>1, UnitsFinite, FS_Subset DEF Units

\* A further update adds the quantity of its batch.
LEMMA UnitsAdd ==
    ASSUME NEW S \in SUBSET Keys, IsFiniteSet(S), NEW k \in Keys, k \notin S
    PROVE  Units(S \cup {k}) = Units(S) + Quantity[k[1]]
  <1> DEFINE U == UNION {UnitsOf(l) : l \in S}
  <1>1. IsFiniteSet(U) /\ Cardinality(U) \in Nat
    BY UnitsFinite, FS_CardinalityType
  <1>3. /\ Quantity[k[1]] \in Nat
        /\ IsFiniteSet(UnitsOf(k)) /\ Cardinality(UnitsOf(k)) = Quantity[k[1]]
    BY UnitsOfKey
  <1>4. U \cap UnitsOf(k) = {}
    BY DEF UnitsOf
  <1>5. UNION {UnitsOf(l) : l \in S \cup {k}} = U \cup UnitsOf(k)
    OBVIOUS
  <1>6. Cardinality(U \cap UnitsOf(k)) = 0
    BY <1>4, FS_EmptySet
  <1>7. QED
    BY <1>1, <1>3, <1>5, <1>6, FS_Union DEF Units

Totals == /\ IsFiniteSet(applied)
          /\ NeverOverstated /\ ReadingBounded
          /\ ExactUnlessRaced /\ ReadingCurrent

\* Nothing was read or written yet.
LEMMA TotalsInit == Init => Totals
  <1> SUFFICES ASSUME Init PROVE Totals
    OBVIOUS
  <1>1. IsFiniteSet(applied)
    BY FS_EmptySet DEF Init
  <1>2. \A i \in Items : Units(AppliedTo(i)) = 0
    <2> TAKE i \in Items
    <2>1. UNION {UnitsOf(k) : k \in AppliedTo(i)} = {}
      BY DEF Init, AppliedTo
    <2>2. QED
      BY <2>1, FS_EmptySet DEF Units
  <1>3. /\ \A i \in Items : total[i] = 0
        /\ \A b \in Batches : ~At(b, "write")
    BY DEF Init, At
  <1>4. QED
    BY <1>1, <1>2, <1>3 DEF Totals, NeverOverstated, ReadingBounded, ExactUnlessRaced,
                            ReadingCurrent

\* A step that leaves Stripe alone, and after which no other batch is about to write, or
\* about to write something else, preserves the totals.
LEMMA TotalsKept ==
    ASSUME Totals, UNCHANGED stripe,
           \A c \in Batches : pc'[c] = "write" => pc[c] = "write" /\ newTotal'[c] = newTotal[c]
    PROVE  Totals'
  <1>1. \A i : Units(AppliedTo(i))' = Units(AppliedTo(i))
    BY DEF stripe, Units, UnitsOf, AppliedTo
  <1>2. QED
    BY <1>1 DEF stripe, Totals, NeverOverstated, ReadingBounded, ExactUnlessRaced,
                ReadingCurrent, At

\* An update of b adds its quantity to the units of its item, and to those of no other.
LEMMA UpdateAdds ==
    ASSUME Shape, Totals, NEW b \in Batches, Update(b)
    PROVE  \A i \in Items :
             /\ Units(AppliedTo(i)) \in Nat
             /\ Units(AppliedTo(i))' = Units(AppliedTo(i)) + (IF i = Item[b] THEN Quantity[b] ELSE 0)
  <1> TAKE i \in Items
  <1>1. /\ Key(b) \in Keys /\ Key(b) \notin applied /\ Key(b)[1] = b
        /\ applied' = applied \cup {Key(b)}
    BY DEF Shape, TypeOK, InCall, At, Update, TakeEffect, Key, Keys
  <1>2. AppliedTo(i) \in SUBSET Keys /\ IsFiniteSet(AppliedTo(i)) /\ Key(b) \notin AppliedTo(i)
    BY <1>1, FS_Subset DEF Shape, TypeOK, Totals, AppliedTo
  <1>3. AppliedTo(i)' = IF i = Item[b] THEN AppliedTo(i) \cup {Key(b)} ELSE AppliedTo(i)
    BY <1>1 DEF AppliedTo
  <1>4. Units(AppliedTo(i))' = Units(AppliedTo(i)')
    BY DEF Units, UnitsOf
  <1>5. Units(AppliedTo(i)) \in Nat
    BY <1>2, UnitsFinite
  <1>6. Units(AppliedTo(i) \cup {Key(b)}) = Units(AppliedTo(i)) + Quantity[b]
    BY <1>1, <1>2, UnitsAdd
  <1>7. QED
    BY <1>3, <1>4, <1>5, <1>6

\* A batch writes what it read plus its quantity; its key counts from then on, once.
LEMMA TotalsStep == Shape /\ Totals /\ [Next]_vars => Totals'
  <1> SUFFICES ASSUME Shape, Totals, [Next]_vars PROVE Totals'
    OBVIOUS
  <1>t. /\ pc \in [Batches -> {"idle", "attempt", "read", "write", "cost", "record"}]
        /\ newTotal \in [Batches -> Nat] /\ total \in [Items -> Nat]
    BY DEF Shape, TypeOK
  <1>1. ASSUME NEW b \in Batches, Admit(b) \/ Reject(b) PROVE Totals'
    BY <1>1, <1>t, TotalsKept DEF Admit, Reject, Goto
  <1>2. ASSUME NEW b \in Batches, ContextDone(b) \/ Begin(b) \/ Cost(b) \/ Record(b)
        PROVE  Totals'
    BY <1>2, <1>t, TotalsKept DEF ContextDone, Begin, Cost, Record, Goto
  <1>3. ASSUME NEW b \in Batches, Read(b) PROVE Totals'
    <2>1. /\ UNCHANGED stripe /\ newTotal'[b] = total[Item[b]] + Quantity[b]
          /\ \A c \in Batches \ {b} : pc'[c] = pc[c] /\ newTotal'[c] = newTotal[c]
      BY <1>3, <1>t DEF Read, Goto
    <2>2. \A i : Units(AppliedTo(i))' = Units(AppliedTo(i))
      BY <2>1 DEF stripe, Units, UnitsOf, AppliedTo
    <2>3. IsFiniteSet(applied)' /\ NeverOverstated' /\ ExactUnlessRaced'
      BY <2>1, <2>2 DEF stripe, Totals, NeverOverstated, ExactUnlessRaced
    <2>4. Item[b] \in Items /\ Quantity[b] \in Nat /\ total[Item[b]] \in Nat
      BY <1>t
    <2>5. Units(AppliedTo(Item[b])) \in Nat
      <3>1. AppliedTo(Item[b]) \in SUBSET Keys /\ IsFiniteSet(AppliedTo(Item[b]))
        BY FS_Subset DEF Shape, TypeOK, Totals, AppliedTo
      <3>2. QED
        BY <3>1, UnitsFinite
    <2>6. newTotal'[b] <= Units(AppliedTo(Item[b])) + Quantity[b]
      BY <2>1, <2>4, <2>5 DEF Totals, NeverOverstated
    <2>7. ReadingBounded' /\ ReadingCurrent'
      BY <2>1, <2>2, <2>6 DEF stripe, Totals, ReadingBounded, ReadingCurrent, At
    <2>8. QED
      BY <2>3, <2>7 DEF Totals
  <1>4. ASSUME NEW b \in Batches, ReadFails(b) \/ UpdateFails(b) PROVE Totals'
    <2>1. Fail(b) /\ UNCHANGED <<newTotal, stripe>>
      BY <1>4 DEF ReadFails, UpdateFails
    <2>2. \A c \in Batches : pc'[c] = "write" => pc[c] = "write"
      BY <2>1, FailKeepsTypes
    <2>3. QED
      BY <2>1, <2>2, TotalsKept
  <1>5. ASSUME NEW b \in Batches, Update(b) PROVE Totals'
    <2>1. /\ pc[b] = "write" /\ UNCHANGED newTotal
          /\ total' = [total EXCEPT ![Item[b]] = newTotal[b]]
          /\ applied' = applied \cup {Key(b)}
          /\ raced' = IF OthersReading(b) THEN raced \cup {Item[b]} ELSE raced
      BY <1>5 DEF Update, TakeEffect, At
    <2>2. /\ pc'[b] # "write"
          /\ \A c \in Batches \ {b} : pc'[c] = pc[c]
      <3>1. CASE Goto(b, "cost")
        BY <1>t, <3>1 DEF Goto
      <3>2. CASE Fail(b)
        BY <3>2, FailKeepsTypes
      <3>3. QED
        BY <1>5, <3>1, <3>2 DEF Update
    <2>3. IsFiniteSet(applied)'
      BY <2>1, FS_AddElement DEF Totals
    <2>4. /\ Item[b] \in Items /\ Quantity[b] \in Nat
          /\ \A c \in Batches : Item[c] \in Items /\ newTotal[c] \in Nat /\ Quantity[c] \in Nat
      BY <1>t
    <2>5. \A i \in Items : total'[i] = IF i = Item[b] THEN newTotal[b] ELSE total[i]
      BY <1>t, <2>1
    <2>6. NeverOverstated'
      BY <1>5, <1>t, <2>1, <2>4, <2>5, UpdateAdds DEF Totals, NeverOverstated, ReadingBounded, At
    <2>7. ReadingBounded'
      BY <1>5, <2>1, <2>2, <2>4, UpdateAdds DEF Totals, ReadingBounded, At
    <2>8. ExactUnlessRaced'
      BY <1>5, <1>t, <2>1, <2>4, <2>5, UpdateAdds DEF Totals, ExactUnlessRaced, ReadingCurrent, At
    <2>9. ReadingCurrent'
      BY <1>t, <2>1, <2>2, <2>4, <2>5 DEF Totals, ReadingCurrent, OthersReading, At
    <2>10. QED
      BY <2>3, <2>6, <2>7, <2>8, <2>9 DEF Totals
  <1>6. CASE Cool \/ Cancel
    BY <1>6, TotalsKept DEF Cool, Cancel
  <1>7. CASE UNCHANGED vars
    BY <1>7, TotalsKept DEF vars, stripe
  <1>8. QED
    BY <1>1, <1>2, <1>3, <1>4, <1>5, <1>6, <1>7 DEF Next, Step
-----------------------------------------------------------------------------
\* The inductive invariant holds in every reachable state.
THEOREM Invariance == Spec => []IInv
  <1>1. Init => IInv
    BY ShapeInit, ResultsInit, TotalsInit DEF IInv, Shape, Results, Totals
  <1>2. IInv /\ [Next]_vars => IInv'
    BY ShapeStep, ResultsStep, TotalsStep DEF IInv, Shape, Results, Totals
  <1>3. QED
    BY <1>1, <1>2, PTL DEF Spec

\* The breaker is closed only below its threshold of failures.
THEOREM BreakerOpensInTime == Spec => []ClosedBelowThreshold
  <1>1. IInv => ClosedBelowThreshold
    BY DEF IInv
  <1>2. QED
    BY <1>1, Invariance, PTL

\* A call that returned nil has been applied by Stripe.
THEOREM NilIsApplied == Spec => []NilMeansApplied
  <1>1. IInv => NilMeansApplied
    BY DEF IInv, NilApplied, NilMeansApplied
  <1>2. QED
    BY <1>1, Invariance, PTL

\* Two updates of one batch: the reply to one of them was lost.
THEOREM DoubledOnlyByLostReply == Spec => []OnceUnlessReplyLost
  <1>1. IInv => OnceUnlessReplyLost
    BY DEF IInv, LostBefore, OnceUnlessReplyLost
  <1>2. QED
    BY <1>1, Invariance, PTL

\* Stripe never bills more than the updates it applied: retries inside a call do not add up.
THEOREM NeverBilledTwicePerCall == Spec => []NeverOverstated
  <1>1. IInv => NeverOverstated
    BY DEF IInv
  <1>2. QED
    BY <1>1, Invariance, PTL

\* An item whose batches never interleave between read and update is billed exactly.
THEOREM ExactWithoutRace == Spec => []ExactUnlessRaced
  <1>1. IInv => ExactUnlessRaced
    BY DEF IInv
  <1>2. QED
    BY <1>1, Invariance, PTL

\* The promise of the read before the write, which races break, is kept without them: no unit
\* of a processed batch is missing.
THEOREM NothingLostWithoutRace == Spec => [](raced = {} => NoLostUnits)
  <1>1. IInv /\ raced = {} => NoLostUnits
    <2> SUFFICES ASSUME IInv, raced = {}, NEW i \in Items
                 PROVE  total[i] >=
                          Units({Key(b) : b \in {c \in Batches : Item[c] = i /\ At(c, "idle")
                                                                 /\ result[c] = "nil"}})
      BY DEF NoLostUnits
    <2> DEFINE T == {Key(b) : b \in {c \in Batches : Item[c] = i /\ At(c, "idle")
                                                     /\ result[c] = "nil"}}
    <2>1. AppliedTo(i) \in SUBSET Keys /\ IsFiniteSet(AppliedTo(i))
      BY FS_Subset DEF IInv, TypeOK, AppliedTo
    <2>2. T \subseteq AppliedTo(i)
      BY DEF IInv, NilApplied, AppliedTo, Key
    <2>3. Units(T) <= Units(AppliedTo(i)) /\ total[i] = Units(AppliedTo(i))
      BY <2>1, <2>2, UnitsMonotone DEF IInv, ExactUnlessRaced
    <2>4. total[i] \in Nat /\ Units(T) \in Nat
      <3>1. T \in SUBSET Keys /\ IsFiniteSet(T)
        BY <2>1, <2>2, FS_Subset
      <3>2. QED
        BY <3>1, UnitsFinite DEF IInv, TypeOK
    <2>5. QED
      BY <2>3, <2>4
  <1>2. QED
    BY <1>1, Invariance, PTL

\* Only a batch passed after the reset timeout takes the breaker out of the open state.
THEOREM StaysOpenUntilCooled == Spec => OpenUntilCooled
  <1>1. [Next]_vars => [cb = "open" /\ cb' # "open" => cooled /\ cb' = "half"]_vars
    <2> SUFFICES ASSUME [Next]_vars, cb = "open", cb' # "open"
                 PROVE  cooled /\ cb' = "half"
      OBVIOUS
    <2>1. ASSUME NEW b \in Batches, Step(b) PROVE FALSE
      BY <2>1 DEF Step, ContextDone, Begin, Read, ReadFails, Update, UpdateFails, Cost,
                  Record, Open, breaker
    <2>2. ASSUME NEW b \in Batches, Reject(b) PROVE FALSE
      BY <2>2 DEF Reject, breaker
    <2>3. ASSUME NEW b \in Batches, Admit(b) PROVE cooled /\ cb' = "half"
      BY <2>3 DEF Admit
    <2>4. QED
      BY <2>1, <2>2, <2>3 DEF Next, Cool, Cancel, breaker, vars
  <1>2. QED
    BY <1>1, PTL DEF Spec, OpenUntilCooled
-----------------------------------------------------------------------------
(* Why a call returns. CallsReturn needs fairness; what it rests on does   *)
(* not: a call that has not returned has a step to take (NeverStuck), and  *)
(* each of its steps brings it nearer to its end (CallsShrink).            *)

\* The guards of Step(b): the read and the update can always fail, and the breaker's record
\* covers every result in every state.
NeverStuck ==
    \A b \in Batches :
        \/ pc[b] \in {"idle", "attempt", "read", "write", "cost"}
        \/ /\ At(b, "record")
           /\ \/ result[b] = "nil" /\ cb # "open"
              \/ result[b] = "error" /\ cb \in {"half", "closed"}
              \/ cb = "open"

\* The steps a call takes at most until it returns.
Distance == [idle |-> 0, record |-> 1, cost |-> 2, write |-> 3, read |-> 4, attempt |-> 5]
StepsLeft(b) ==
    Distance[pc[b]] + IF pc[b] \in {"attempt", "read", "write"} THEN 3 * (MaxRetries - tries[b])
                                                                ELSE 0

\* No step, of this batch or of another, prolongs a call.
Shrinks(b) == \/ pc'[b] = pc[b] /\ StepsLeft(b)' = StepsLeft(b)
              \/ StepsLeft(b)' < StepsLeft(b)
CallsShrink == [][\A b \in Batches : ~At(b, "idle") => Shrinks(b)]_vars

\* A call records a result only when it has one.
Recorded == \A b \in Batches : At(b, "record") => result[b] # "none"

\* A call comes to its record with an error, or with nil after the cost lookup.
LEMMA RecordedStep == IInv /\ Recorded /\ [Next]_vars => Recorded'
  <1> SUFFICES ASSUME IInv, Recorded, [Next]_vars PROVE Recorded'
    OBVIOUS
  <1> USE DEF Recorded, At, Goto
  <1>t. TypeOK /\ NilApplied
    BY DEF IInv
  <1>1. ASSUME NEW b \in Batches, Admit(b) \/ Reject(b) PROVE Recorded'
    BY <1>1, <1>t DEF Admit, Reject, Passed, TypeOK
  <1>2. ASSUME NEW b \in Batches, ContextDone(b) \/ Begin(b) \/ Read(b) PROVE Recorded'
    BY <1>2, <1>t DEF ContextDone, Begin, Read, TypeOK
  <1>3. ASSUME NEW b \in Batches, Fail(b) PROVE Recorded'
    BY <1>3, <1>t DEF Fail, TypeOK
  <1>4. ASSUME NEW b \in Batches, Update(b) PROVE Recorded'
    BY <1>3, <1>4, <1>t DEF Update, TypeOK
  <1>5. ASSUME NEW b \in Batches, ReadFails(b) \/ UpdateFails(b) PROVE Recorded'
    BY <1>3, <1>5 DEF ReadFails, UpdateFails
  <1>6. ASSUME NEW b \in Batches, Cost(b) \/ Record(b) PROVE Recorded'
    BY <1>6, <1>t DEF Cost, Record, TypeOK, NilApplied
  <1>7. CASE Cool \/ Cancel \/ UNCHANGED vars
    BY <1>7 DEF Cool, Cancel, vars
  <1>8. QED
    BY <1>1, <1>2, <1>4, <1>5, <1>6, <1>7 DEF Next, Step

\* However Stripe fails and whatever the other calls do to the breaker, a call that has not
\* returned can go on (retry.go:46-78, metered_billing.go:181-215).
THEOREM CallsNeverStuck == Spec => []NeverStuck
  <1>1. Init => Recorded
    BY DEF Init, Recorded, At
  <1>2. Spec => []Recorded
    BY <1>1, Invariance, RecordedStep, PTL DEF Spec
  <1>3. IInv /\ Recorded => NeverStuck
    BY DEF IInv, TypeOK, Recorded, NeverStuck, At
  <1>4. QED
    BY <1>2, <1>3, Invariance, PTL

\* A call that returns an error or tries again has fewer steps left.
LEMMA FailShrinks ==
    ASSUME TypeOK, NEW b \in Batches, pc[b] \in {"read", "write"}, Fail(b)
    PROVE  StepsLeft(b)' < StepsLeft(b)
  <1>1. MaxRetries \in Nat /\ tries[b] \in 0..MaxRetries
    BY DEF TypeOK
  <1>2. \/ StepsLeft(b) = 3 + 3 * (MaxRetries - tries[b])
        \/ StepsLeft(b) = 4 + 3 * (MaxRetries - tries[b])
    BY <1>1 DEF StepsLeft, Distance
  <1>3. CASE tries[b] < MaxRetries
    <2>1. pc'[b] = "attempt" /\ tries'[b] = tries[b] + 1
      BY <1>3 DEF Fail, Goto, TypeOK
    <2>2. StepsLeft(b)' = 5 + 3 * (MaxRetries - (tries[b] + 1))
      BY <1>1, <2>1 DEF StepsLeft, Distance
    <2>3. QED
      BY <1>1, <1>2, <2>2
  <1>4. CASE ~(tries[b] < MaxRetries)
    <2>1. pc'[b] = "record"
      BY <1>4 DEF Fail, Goto, TypeOK
    <2>2. StepsLeft(b)' = 1
      BY <1>1, <2>1 DEF StepsLeft, Distance
    <2>3. QED
      BY <1>1, <1>2, <2>2
  <1>5. QED
    BY <1>3, <1>4

\* Each step of a call is one of at most 3 * MaxRetries + 5, for every number of retries:
\* retry.Do counts every attempt, and neither the breaker nor another batch starts it anew.
THEOREM CallsTakeBoundedSteps ==
    Spec => /\ [](\A b \in Batches : StepsLeft(b) \in 0..(3 * MaxRetries + 5))
            /\ CallsShrink
  <1>1. TypeOK => \A b \in Batches : StepsLeft(b) \in 0..(3 * MaxRetries + 5)
    <2> SUFFICES ASSUME TypeOK, NEW b \in Batches
                 PROVE  StepsLeft(b) \in 0..(3 * MaxRetries + 5)
      OBVIOUS
    <2>1. /\ MaxRetries \in Nat /\ tries[b] \in 0..MaxRetries
          /\ pc[b] \in {"idle", "attempt", "read", "write", "cost", "record"}
      BY DEF TypeOK
    <2>2. Distance[pc[b]] \in 0..5
      BY <2>1 DEF Distance
    <2>3. 3 * (MaxRetries - tries[b]) \in 0..(3 * MaxRetries)
      BY <2>1
    <2>4. QED
      BY <2>1, <2>2, <2>3 DEF StepsLeft
  <1>2. ASSUME TypeOK, [Next]_vars, NEW b \in Batches, ~At(b, "idle") PROVE Shrinks(b)
    <2> USE DEF Shrinks
    <2>1. MaxRetries \in Nat /\ tries[b] \in 0..MaxRetries
      BY <1>2 DEF TypeOK
    <2>2. ASSUME pc'[b] = pc[b], tries'[b] = tries[b] PROVE Shrinks(b)
      BY <2>2 DEF StepsLeft
    <2>3. ASSUME NEW c \in Batches, Admit(c) \/ Reject(c) PROVE Shrinks(b)
      <3>1. c # b \/ UNCHANGED <<pc, tries>>
        BY <1>2, <2>3 DEF Admit, Reject, Passed, At
      <3>2. pc'[b] = pc[b] /\ tries'[b] = tries[b]
        BY <1>2, <2>3, <3>1 DEF Admit, Reject, Goto, TypeOK
      <3>3. QED
        BY <2>2, <3>2
    <2>4. ASSUME NEW c \in Batches, c # b, Step(c) PROVE Shrinks(b)
      <3>1. pc'[b] = pc[b] /\ tries'[b] = tries[b]
        BY <1>2, <2>4 DEF Step, ContextDone, Begin, Read, ReadFails, Update, UpdateFails, Cost,
                          Record, Fail, Goto, TypeOK
      <3>2. QED
        BY <2>2, <3>1
    <2>5. CASE Step(b)
      <3>1. CASE ContextDone(b)
        <4>1. pc[b] = "attempt" /\ pc'[b] = "record"
          BY <1>2, <3>1 DEF ContextDone, At, Goto, TypeOK
        <4>2. StepsLeft(b) = 5 + 3 * (MaxRetries - tries[b]) /\ StepsLeft(b)' = 1
          BY <2>1, <4>1 DEF StepsLeft, Distance
        <4>3. QED
          BY <2>1, <4>2
      <3>2. CASE Begin(b) \/ Read(b)
        <4>1. /\ tries' = tries
              /\ \/ pc[b] = "attempt" /\ pc'[b] = "read"
                 \/ pc[b] = "read" /\ pc'[b] = "write"
          BY <1>2, <3>2 DEF Begin, Read, At, Goto, TypeOK
        <4>2. QED
          BY <2>1, <4>1 DEF StepsLeft, Distance
      <3>3. CASE ReadFails(b) \/ UpdateFails(b)
        BY <1>2, <3>3, FailShrinks DEF ReadFails, UpdateFails, At
      <3>4. CASE Update(b)
        <4>1. CASE Fail(b)
          BY <1>2, <3>4, <4>1, FailShrinks DEF Update, At
        <4>2. CASE Goto(b, "cost")
          <5>1. pc[b] = "write" /\ pc'[b] = "cost"
            BY <1>2, <3>4, <4>2 DEF Update, At, Goto, TypeOK
          <5>2. StepsLeft(b) = 3 + 3 * (MaxRetries - tries[b]) /\ StepsLeft(b)' = 2
            BY <2>1, <5>1 DEF StepsLeft, Distance
          <5>3. QED
            BY <2>1, <5>2
        <4>3. QED
          BY <3>4, <4>1, <4>2 DEF Update
      <3>5. CASE Cost(b) \/ Record(b)
        <4>1. \/ pc[b] = "cost" /\ pc'[b] = "record"
              \/ pc[b] = "record" /\ pc'[b] = "idle"
          BY <1>2, <3>5 DEF Cost, Record, At, Goto, TypeOK
        <4>2. QED
          BY <4>1 DEF StepsLeft, Distance
      <3>6. QED
        BY <2>5, <3>1, <3>2, <3>3, <3>4, <3>5 DEF Step
    <2>6. CASE Cool \/ Cancel \/ UNCHANGED vars
      BY <2>2, <2>6 DEF Cool, Cancel, vars
    <2>7. QED
      BY <1>2, <2>3, <2>4, <2>5, <2>6 DEF Next
  <1>3. TypeOK /\ [Next]_vars => [\A b \in Batches : ~At(b, "idle") => Shrinks(b)]_vars
    BY <1>2
  <1>4. Spec => CallsShrink
    BY <1>3, TypeCorrect, PTL DEF Spec, CallsShrink
  <1>5. QED
    BY <1>1, <1>4, TypeCorrect, PTL
=============================================================================

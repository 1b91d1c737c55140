------------------------- MODULE BatchManagerProofs -------------------------
(***************************************************************************)
(* BatchManager's safety properties for every set of metrics and items,    *)
(* every batch size, every retry bound and every failure budget.           *)
(*                                                                         *)
(* The inductive invariant has one named part per idea. Conservation needs *)
(* to know that a snapshot never overwrites an unfinished one, and         *)
(* NothingStranded why the loop left its select (both LoopLeaves).         *)
(* NothingStranded also needs that a batch holds metrics of its own item   *)
(* (BatchItems: the backoff goroutine of a re-enqueued batch is one of     *)
(* that item). StopDrains needs what Stop has waited for (StopShape).      *)
(***************************************************************************)
EXTENDS BatchManager, FiniteSetTheorems, TLAPS

USE BatchConstants DEF BatchConstants

\* A batch holds metrics of one item only.
BatchItems == \A b \in batches : \A m \in b.metrics : Item[m] = b.item

\* The loop holds a snapshot or runs a batch only inside FlushAll, and leaves its select
\* for good only because of m.done or m.ctx.
LoopLeaves == /\ loop \in {"flushing", "final"} \/ (pending = {} /\ LoopIdle)
              /\ LeftSelect => done \/ ctxDone

\* What Stop has waited for, as long as no Add overlapped it.
StopShape ==
    /\ stopped => done /\ loop = "exited"
    /\ done /\ ~overlap => \A b \in batches : b.by # "caller"
    /\ stopped /\ ~overlap => batches = {} /\ \A r \in Retries : waiters[r] = 0

IInv == /\ TypeOK
        /\ Conservation
        /\ BatchItems
        /\ LoopLeaves
        /\ NothingStranded
        /\ StopShape
-----------------------------------------------------------------------------
(* What the set of batches holds after one enters or leaves it.            *)

\* A batch that enters adds its metrics to those held.
LEMMA HeldByMore ==
    ASSUME NEW B, NEW n
    PROVE  (UNION {c.metrics : c \in B \cup {n}}) = (UNION {c.metrics : c \in B}) \cup n.metrics
  OBVIOUS

\* A batch that leaves takes its metrics along, none of which another batch holds.
LEMMA HeldByFewer ==
    ASSUME NEW B, NEW b \in B,
           \A c, d \in B : c # d => c.metrics \cap d.metrics = {}
    PROVE  (UNION {c.metrics : c \in B \ {b}}) = (UNION {c.metrics : c \in B}) \ b.metrics
  OBVIOUS

\* The metrics of the items' entries in a set of metrics are metrics of that set.
LEMMA OfSubset == \A i, S : Of(i, S) \subseteq S /\ \A m \in Of(i, S) : Item[m] = i
  BY DEF Of
-----------------------------------------------------------------------------
\* The Manager starts empty, with its loop in the select.
LEMMA TypeInit == Init => TypeOK
  <1> SUFFICES ASSUME Init PROVE TypeOK
    OBVIOUS
  <1>1. failures \in 0..MaxFailures
    BY DEF Init, BatchConstants
  <1>2. waiters \in [Retries -> Nat]
    BY DEF Init
  <1>3. QED
    BY <1>1, <1>2 DEF Init, TypeOK

\* Each action keeps the types; an attempt number never passes maxBatchAttempts.
LEMMA TypeStep == TypeOK /\ [Next]_vars => TypeOK'
  <1> SUFFICES ASSUME TypeOK, [Next]_vars PROVE TypeOK'
    OBVIOUS
  <1> USE DEF TypeOK, Batch, Runners
  <1>1. ASSUME NEW m \in Metrics, AddRefused(m) PROVE TypeOK'
    BY <1>1 DEF AddRefused
  <1>2. ASSUME NEW m \in Metrics, AddBuffered(m) PROVE TypeOK'
    BY <1>2 DEF AddBuffered
  <1>3. ASSUME NEW m \in Metrics, AddFull(m) PROVE TypeOK'
    BY <1>3, OfSubset DEF AddFull
  <1>4. ASSUME NEW b \in batches, Spawn(b) PROVE TypeOK'
    BY <1>4 DEF Spawn
  <1>5. ASSUME NEW b \in batches, Succeed(b) PROVE TypeOK'
    BY <1>5 DEF Succeed
  <1>6. ASSUME NEW b \in batches, Requeue(b) PROVE TypeOK'
    BY <1>6 DEF Requeue, Retries
  <1>7. ASSUME NEW b \in batches, DeadLetter(b) PROVE TypeOK'
    BY <1>7 DEF DeadLetter
  <1>8. ASSUME NEW i \in Items, NEW a \in 2..MaxAttempts, RetryFlush(i, a) PROVE TypeOK'
    BY <1>8, OfSubset DEF RetryFlush, Retries
  <1>9. ASSUME NEW i \in Items, NEW a \in 2..MaxAttempts, RetryNothing(i, a) PROVE TypeOK'
    BY <1>9 DEF RetryNothing, Retries
  <1>10. CASE Tick
    BY <1>10 DEF Tick, Snapshot
  <1>11. CASE FinalFlush
    BY <1>11 DEF FinalFlush, Snapshot
  <1>12. CASE FlushAllReturns
    BY <1>12 DEF FlushAllReturns
  <1>13. ASSUME NEW i \in Items, FlushNext(i) PROVE TypeOK'
    BY <1>13, OfSubset DEF FlushNext
  <1>14. CASE Stop
    BY <1>14 DEF Stop
  <1>15. CASE StopReturns
    BY <1>15 DEF StopReturns
  <1>16. CASE Cancel
    BY <1>16 DEF Cancel
  <1>17. CASE UNCHANGED vars
    BY <1>17 DEF vars
  <1>18. QED
    BY <1>1, <1>2, <1>3, <1>4, <1>5, <1>6, <1>7, <1>8, <1>9, <1>10, <1>11, <1>12, <1>13,
       <1>14, <1>15, <1>16, <1>17 DEF Next, Returns, Wakes

\* Every variable of the Manager keeps its type.
THEOREM TypeCorrect == Spec => []TypeOK
  BY TypeInit, TypeStep, PTL DEF Spec
-----------------------------------------------------------------------------
Disjoint == \A b, c \in batches : b # c => b.metrics \cap c.metrics = {}

\* What every action that starts or ends the processing of a batch does to the metrics in
\* processing, provided the new batch takes metrics nobody is processing.
LEMMA BatchLeaves ==
    ASSUME Disjoint, NEW b \in batches, batches' = batches \ {b}
    PROVE  Processing' = Processing \ b.metrics /\ b.metrics \subseteq Processing /\ Disjoint'
  <1>1. Processing' = Processing \ b.metrics
    BY HeldByFewer DEF Disjoint, Processing
  <1>2. QED
    BY <1>1 DEF Disjoint, Processing

\* A batch enters with metrics nobody is processing.
LEMMA BatchEnters ==
    ASSUME Disjoint, NEW n, n.metrics \cap Processing = {}, batches' = batches \cup {n}
    PROVE  Processing' = Processing \cup n.metrics /\ Disjoint'
  <1>1. Processing' = Processing \cup n.metrics
    BY HeldByMore DEF Processing
  <1>2. \A c \in batches : c.metrics \subseteq Processing
    BY DEF Processing
  <1>3. QED
    BY <1>1, <1>2 DEF Disjoint

\* The goroutine of a full batch takes over the batch as it is.
LEMMA BatchSpawned ==
    ASSUME Disjoint, TypeOK, NEW b \in batches,
           batches' = (batches \ {b}) \cup {[b EXCEPT !.by = "async"]}
    PROVE  Processing' = Processing /\ Disjoint'
  <1> DEFINE n == [b EXCEPT !.by = "async"]
  <1>1. n.metrics = b.metrics
    BY DEF TypeOK, Batch
  <1>2. (UNION {c.metrics : c \in batches \ {b}}) = Processing \ b.metrics
    BY HeldByFewer DEF Disjoint, Processing
  <1>3. b.metrics \subseteq Processing
    BY DEF Processing
  <1>4. Processing' = Processing
    BY <1>1, <1>2, <1>3, HeldByMore DEF Processing
  <1>5. QED
    BY <1>1, <1>4 DEF Disjoint

\* At the start every metric is fresh.
LEMMA ConservationInit == Init => Conservation
  BY DEF Init, Conservation, Held, Processing

\* Each action moves metrics from one place to another; Snapshot never overwrites an
\* unfinished pending, for it is taken in the select only.
LEMMA ConservationStep == TypeOK /\ LoopLeaves /\ Conservation /\ [Next]_vars => Conservation'
  <1> SUFFICES ASSUME TypeOK, LoopLeaves, Conservation, [Next]_vars PROVE Conservation'
    OBVIOUS
  <1>0. Disjoint
    BY DEF Conservation, Disjoint
  <1>d. Conservation <=> /\ fresh \cup refused \cup Held \cup delivered \cup dead = Metrics
                         /\ fresh \cap refused = {}
                         /\ (fresh \cup refused) \cap buffer = {}
                         /\ (fresh \cup refused \cup buffer) \cap pending = {}
                         /\ (fresh \cup refused \cup buffer \cup pending) \cap Processing = {}
                         /\ (fresh \cup refused \cup Held) \cap delivered = {}
                         /\ (fresh \cup refused \cup Held \cup delivered) \cap dead = {}
                         /\ Disjoint
    BY DEF Conservation, Disjoint
  <1> USE DEF Conservation, Held
  <1>1. ASSUME NEW m \in Metrics, AddRefused(m) PROVE Conservation'
    <2>1. Processing' = Processing
      BY <1>1 DEF AddRefused, Processing
    <2>2. QED
      BY <1>1, <2>1 DEF AddRefused
  <1>2. ASSUME NEW m \in Metrics, AddBuffered(m) PROVE Conservation'
    <2>1. Processing' = Processing
      BY <1>2 DEF AddBuffered, Processing
    <2>2. QED
      BY <1>2, <2>1 DEF AddBuffered
  <1>3. ASSUME NEW m \in Metrics, AddFull(m) PROVE Conservation'
    <2> DEFINE full == Of(Item[m], buffer \cup {m})
               n == [item |-> Item[m], metrics |-> full, attempt |-> 1, by |-> "caller"]
    <2>1. full \subseteq buffer \cup {m} /\ m \in full
      BY <1>3 DEF Of
    <2>2. n.metrics = full /\ full \cap Processing = {}
      BY <1>3, <2>1 DEF AddFull
    <2>3. Processing' = Processing \cup full /\ Disjoint'
      BY <1>0, <1>3, <2>2, BatchEnters DEF AddFull
    <2>4. fresh' = fresh \ {m} /\ buffer' = buffer \ full
          /\ UNCHANGED <<refused, pending, delivered, dead>> /\ m \in fresh
      BY <1>3 DEF AddFull
    <2> HIDE DEF full
    <2>5. QED
      BY <2>1, <2>2, <2>3, <2>4 DEF Disjoint
  <1>4. ASSUME NEW b \in batches, Spawn(b) PROVE Conservation'
    <2>1. Processing' = Processing /\ Disjoint'
      BY <1>0, <1>4, BatchSpawned DEF Spawn
    <2>2. QED
      BY <1>4, <2>1 DEF Spawn, Disjoint
  <1>5. ASSUME NEW b \in batches, Succeed(b) PROVE Conservation'
    <2>1. Processing' = Processing \ b.metrics /\ b.metrics \subseteq Processing /\ Disjoint'
      BY <1>0, <1>5, BatchLeaves DEF Succeed
    <2>2. QED
      BY <1>5, <2>1 DEF Succeed, Disjoint
  <1>6. ASSUME NEW b \in batches, Requeue(b) PROVE Conservation'
    <2>1. Processing' = Processing \ b.metrics /\ b.metrics \subseteq Processing /\ Disjoint'
      BY <1>0, <1>6, BatchLeaves DEF Requeue
    <2>2. QED
      BY <1>6, <2>1 DEF Requeue, Disjoint
  <1>7. ASSUME NEW b \in batches, DeadLetter(b) PROVE Conservation'
    <2>1. Processing' = Processing \ b.metrics /\ b.metrics \subseteq Processing /\ Disjoint'
      BY <1>0, <1>7, BatchLeaves DEF DeadLetter
    <2>2. QED
      BY <1>7, <2>1 DEF DeadLetter, Disjoint
  <1>8. ASSUME NEW i \in Items, NEW a \in 2..MaxAttempts, RetryFlush(i, a) PROVE Conservation'
    <2> DEFINE n == [item |-> i, metrics |-> Of(i, buffer), attempt |-> a, by |-> "async"]
    <2>1. Of(i, buffer) \subseteq buffer /\ n.metrics = Of(i, buffer)
      BY OfSubset
    <2>2. Processing' = Processing \cup Of(i, buffer) /\ Disjoint'
      BY <1>0, <1>8, <2>1, BatchEnters DEF RetryFlush
    <2>3. QED
      BY <1>8, <2>1, <2>2 DEF RetryFlush, Disjoint
  <1>9. ASSUME NEW i \in Items, NEW a \in 2..MaxAttempts, RetryNothing(i, a) PROVE Conservation'
    BY <1>9 DEF RetryNothing, Processing
  <1>10. CASE Tick
    <2>1. Processing' = Processing
      BY <1>10 DEF Tick, Processing
    <2>2. pending = {}
      BY <1>10 DEF Tick, LoopLeaves
    <2>3. QED
      BY <1>10, <2>1, <2>2 DEF Tick, Snapshot
  <1>11. CASE FinalFlush
    <2>1. Processing' = Processing
      BY <1>11 DEF FinalFlush, Processing
    <2>2. pending = {}
      BY <1>11 DEF FinalFlush, LoopLeaves
    <2>3. QED
      BY <1>11, <2>1, <2>2 DEF FinalFlush, Snapshot
  <1>12. CASE FlushAllReturns
    BY <1>12 DEF FlushAllReturns, Processing
  <1>13. ASSUME NEW i \in Items, FlushNext(i) PROVE Conservation'
    <2> DEFINE n == [item |-> i, metrics |-> Of(i, pending), attempt |-> 1, by |-> "loop"]
    <2>1. Of(i, pending) \subseteq pending /\ n.metrics = Of(i, pending)
      BY OfSubset
    <2>2. Processing' = Processing \cup Of(i, pending) /\ Disjoint'
      BY <1>0, <1>13, <2>1, BatchEnters DEF FlushNext
    <2>3. QED
      BY <1>13, <2>1, <2>2 DEF FlushNext, Disjoint
  <1>14. CASE Stop
    BY <1>14 DEF Stop, Processing
  <1>15. CASE StopReturns
    BY <1>15 DEF StopReturns, Processing
  <1>16. CASE Cancel
    BY <1>16 DEF Cancel, Processing
  <1>17. CASE UNCHANGED vars
    BY <1>17 DEF vars, Processing
  <1>18. QED
    BY <1>1, <1>2, <1>3, <1>4, <1>5, <1>6, <1>7, <1>8, <1>9, <1>10, <1>11, <1>12, <1>13,
       <1>14, <1>15, <1>16, <1>17 DEF Next, Returns, Wakes
-----------------------------------------------------------------------------
\* The loop starts in its select, with no snapshot.
LEMMA LoopInit == Init => LoopLeaves
  BY DEF Init, LoopLeaves, LoopIdle, LeftSelect

\* FlushAll returns with its snapshot worked off; the select is left on m.done or m.ctx.
LEMMA LoopStep == TypeOK /\ LoopLeaves /\ [Next]_vars => LoopLeaves'
  <1> SUFFICES ASSUME TypeOK, LoopLeaves, [Next]_vars PROVE LoopLeaves'
    OBVIOUS
  <1> USE DEF LoopLeaves, LoopIdle, LeftSelect, TypeOK
  <1>1. ASSUME NEW m \in Metrics, AddRefused(m) \/ AddBuffered(m) \/ AddFull(m) PROVE LoopLeaves'
    BY <1>1 DEF AddRefused, AddBuffered, AddFull
  <1>2. ASSUME NEW b \in batches, Spawn(b) PROVE LoopLeaves'
    <2>1. [b EXCEPT !.by = "async"].by = "async"
      BY DEF Batch
    <2>2. QED
      BY <1>2, <2>1 DEF Spawn
  <1>3. ASSUME NEW b \in batches, Returns(b) PROVE LoopLeaves'
    BY <1>3 DEF Returns, Succeed, Requeue, DeadLetter
  <1>4. ASSUME NEW i \in Items, NEW a \in 2..MaxAttempts, Wakes(i, a) PROVE LoopLeaves'
    BY <1>4 DEF Wakes, RetryFlush, RetryNothing
  <1>5. CASE Tick \/ FinalFlush \/ FlushAllReturns
    BY <1>5 DEF Tick, FinalFlush, FlushAllReturns
  <1>6. ASSUME NEW i \in Items, FlushNext(i) PROVE LoopLeaves'
    BY <1>6 DEF FlushNext, Of
  <1>7. CASE Stop \/ StopReturns \/ Cancel
    BY <1>7 DEF Stop, StopReturns, Cancel
  <1>8. CASE UNCHANGED vars
    BY <1>8 DEF vars
  <1>9. QED
    BY <1>1, <1>2, <1>3, <1>4, <1>5, <1>6, <1>7, <1>8 DEF Next
-----------------------------------------------------------------------------
\* There is no batch at the start.
LEMMA ItemsInit == Init => BatchItems
  BY DEF Init, BatchItems

\* Add, FlushAll and flushOne form a batch from the buffer entry of one item.
LEMMA ItemsStep == TypeOK /\ BatchItems /\ [Next]_vars => BatchItems'
  <1> SUFFICES ASSUME TypeOK, BatchItems, [Next]_vars PROVE BatchItems'
    OBVIOUS
  <1> USE DEF BatchItems
  <1>1. ASSUME NEW m \in Metrics, AddRefused(m) \/ AddBuffered(m) \/ AddFull(m) PROVE BatchItems'
    BY <1>1, OfSubset DEF AddRefused, AddBuffered, AddFull
  <1>2. ASSUME NEW b \in batches, Spawn(b) PROVE BatchItems'
    <2>1. [b EXCEPT !.by = "async"].metrics = b.metrics /\ [b EXCEPT !.by = "async"].item = b.item
      BY DEF Batch, TypeOK
    <2>2. QED
      BY <1>2, <2>1 DEF Spawn
  <1>3. ASSUME NEW b \in batches, Returns(b) PROVE BatchItems'
    BY <1>3 DEF Returns, Succeed, Requeue, DeadLetter
  <1>4. ASSUME NEW i \in Items, NEW a \in 2..MaxAttempts, Wakes(i, a) PROVE BatchItems'
    BY <1>4, OfSubset DEF Wakes, RetryFlush, RetryNothing
  <1>5. CASE Tick \/ FinalFlush \/ FlushAllReturns
    BY <1>5 DEF Tick, FinalFlush, FlushAllReturns
  <1>6. ASSUME NEW i \in Items, FlushNext(i) PROVE BatchItems'
    BY <1>6, OfSubset DEF FlushNext
  <1>7. CASE Stop \/ StopReturns \/ Cancel
    BY <1>7 DEF Stop, StopReturns, Cancel
  <1>8. CASE UNCHANGED vars
    BY <1>8 DEF vars
  <1>9. QED
    BY <1>1, <1>2, <1>3, <1>4, <1>5, <1>6, <1>7, <1>8 DEF Next
-----------------------------------------------------------------------------
\* The loop is in its select at the start.
LEMMA StrandedInit == Init => NothingStranded
  BY DEF Init, NothingStranded

\* After the last snapshot only re-enqueueing fills the buffer, and it starts a backoff
\* goroutine; a backoff goroutine that ends has emptied the entry of its item.
LEMMA StrandedStep ==
    TypeOK /\ BatchItems /\ LoopLeaves /\ NothingStranded /\ [Next]_vars => NothingStranded'
  <1> SUFFICES ASSUME TypeOK, BatchItems, LoopLeaves, NothingStranded, [Next]_vars,
                      LeftSelect', ~overlap', NEW m \in buffer'
               PROVE  \E a \in 2..MaxAttempts : waiters'[<<Item[m], a>>] > 0
    BY DEF NothingStranded
  <1> DEFINE Goal == \E a \in 2..MaxAttempts : waiters'[<<Item[m], a>>] > 0
  <1>m. ASSUME LeftSelect, ~overlap, m \in buffer, waiters' = waiters PROVE Goal
    BY <1>m DEF NothingStranded
  <1>1. ASSUME NEW n \in Metrics, AddRefused(n) PROVE Goal
    BY <1>1, <1>m DEF AddRefused, LeftSelect
  <1>2. ASSUME NEW n \in Metrics, AddBuffered(n) \/ AddFull(n) PROVE FALSE
    BY <1>2 DEF AddBuffered, AddFull, LoopLeaves, LeftSelect, TypeOK
  <1>3. ASSUME NEW b \in batches, Spawn(b) \/ Succeed(b) \/ DeadLetter(b) PROVE Goal
    BY <1>3, <1>m DEF Spawn, Succeed, DeadLetter, LeftSelect
  <1>4. ASSUME NEW b \in batches, Requeue(b) PROVE Goal
    <2>1. b.item \in Items /\ b.attempt + 1 \in 2..MaxAttempts
      BY <1>4 DEF Requeue, TypeOK, Batch
    <2> DEFINE r == <<b.item, b.attempt + 1>>
    <2>2. r \in Retries /\ waiters[r] \in Nat
      BY <2>1 DEF Retries, TypeOK
    <2>3. waiters' = [waiters EXCEPT ![r] = @ + 1]
      BY <1>4 DEF Requeue
    <2>4. CASE m \in b.metrics
      <3>1. Item[m] = b.item
        BY <2>4 DEF BatchItems
      <3>2. waiters'[r] > 0
        BY <2>2, <2>3 DEF TypeOK
      <3>3. QED
        BY <2>1, <3>1, <3>2
    <2>5. CASE m \in buffer
      <3>1. PICK a \in 2..MaxAttempts : waiters[<<Item[m], a>>] > 0
        BY <1>4, <2>5 DEF Requeue, NothingStranded, LeftSelect
      <3>2. <<Item[m], a>> \in Retries
        BY <2>5 DEF TypeOK, Retries
      <3>3. waiters'[<<Item[m], a>>] >= waiters[<<Item[m], a>>]
        BY <2>2, <2>3, <3>2 DEF TypeOK
      <3>4. QED
        BY <2>2, <2>3, <3>1, <3>2, <3>3 DEF TypeOK
    <2>6. QED
      BY <1>4, <2>4, <2>5 DEF Requeue
  <1>5. ASSUME NEW i \in Items, NEW a \in 2..MaxAttempts, Wakes(i, a) PROVE Goal
    <2>1. m \in buffer /\ Item[m] # i
      BY <1>5 DEF Wakes, RetryFlush, RetryNothing, Of, TypeOK
    <2>2. PICK c \in 2..MaxAttempts : waiters[<<Item[m], c>>] > 0
      BY <1>5, <2>1 DEF Wakes, RetryFlush, RetryNothing, NothingStranded, LeftSelect
    <2>3. waiters'[<<Item[m], c>>] = waiters[<<Item[m], c>>]
      BY <1>5, <2>1 DEF Wakes, RetryFlush, RetryNothing, TypeOK, Retries
    <2>4. QED
      BY <2>2, <2>3
  <1>6. CASE Tick \/ FinalFlush
    BY <1>6 DEF Tick, FinalFlush, Snapshot
  <1>7. CASE FlushAllReturns
    BY <1>7, <1>m DEF FlushAllReturns, LeftSelect
  <1>8. ASSUME NEW i \in Items, FlushNext(i) PROVE Goal
    BY <1>8, <1>m DEF FlushNext, LeftSelect
  <1>9. CASE Stop
    BY <1>9, <1>m DEF Stop, LeftSelect, TypeOK
  <1>10. CASE StopReturns \/ Cancel
    BY <1>10, <1>m DEF StopReturns, Cancel, LeftSelect
  <1>11. CASE UNCHANGED vars
    BY <1>11, <1>m DEF vars, LeftSelect
  <1>12. QED
    BY <1>1, <1>2, <1>3, <1>4, <1>5, <1>6, <1>7, <1>8, <1>9, <1>10, <1>11
       DEF Next, Returns
-----------------------------------------------------------------------------
\* Stop was not called yet.
LEMMA ShapeInit == Init => StopShape
  BY DEF Init, StopShape

\* Once Stop was called no caller adds a batch unless overlap says so, and Stop returns
\* only with its wait group at zero, after which nothing starts again.
LEMMA ShapeStep == TypeOK /\ LoopLeaves /\ StopShape /\ [Next]_vars => StopShape'
  <1> SUFFICES ASSUME TypeOK, LoopLeaves, StopShape, [Next]_vars PROVE StopShape'
    OBVIOUS
  <1> USE DEF StopShape, TypeOK
  <1>1. ASSUME NEW m \in Metrics, AddRefused(m) PROVE StopShape'
    BY <1>1 DEF AddRefused
  <1>2. ASSUME NEW m \in Metrics, AddBuffered(m) \/ AddFull(m) PROVE StopShape'
    BY <1>2 DEF AddBuffered, AddFull
  <1>3. ASSUME NEW b \in batches, Spawn(b) PROVE StopShape'
    BY <1>3 DEF Spawn
  <1>4. ASSUME NEW b \in batches, Returns(b) PROVE StopShape'
    BY <1>4 DEF Returns, Succeed, Requeue, DeadLetter
  <1>5. ASSUME NEW i \in Items, NEW a \in 2..MaxAttempts, Wakes(i, a) PROVE StopShape'
    <2>1. <<i, a>> \in Retries
      BY DEF Retries
    <2>2. ~(stopped /\ ~overlap)
      BY <1>5, <2>1 DEF Wakes, RetryFlush, RetryNothing
    <2>3. QED
      BY <1>5, <2>2 DEF Wakes, RetryFlush, RetryNothing
  <1>6. CASE Tick \/ FinalFlush \/ FlushAllReturns
    BY <1>6 DEF Tick, FinalFlush, FlushAllReturns
  <1>7. ASSUME NEW i \in Items, FlushNext(i) PROVE StopShape'
    <2>1. loop # "exited"
      BY <1>7 DEF FlushNext, LoopLeaves, Of
    <2>2. QED
      BY <1>7, <2>1 DEF FlushNext
  <1>8. CASE Stop
    BY <1>8 DEF Stop
  <1>9. CASE StopReturns
    BY <1>9 DEF StopReturns, WaitGroupZero
  <1>10. CASE Cancel
    BY <1>10 DEF Cancel
  <1>11. CASE UNCHANGED vars
    BY <1>11 DEF vars
  <1>12. QED
    BY <1>1, <1>2, <1>3, <1>4, <1>5, <1>6, <1>7, <1>8, <1>9, <1>10, <1>11 DEF Next
-----------------------------------------------------------------------------
\* The inductive invariant holds in every reachable state.
THEOREM Invariance == Spec => []IInv
  <1>1. Init => IInv
    BY TypeInit, ConservationInit, ItemsInit, LoopInit, StrandedInit, ShapeInit DEF IInv
  <1>2. IInv /\ [Next]_vars => IInv'
    BY TypeStep, ConservationStep, ItemsStep, LoopStep, StrandedStep, ShapeStep DEF IInv
  <1>3. QED
    BY <1>1, <1>2, PTL DEF Spec

\* Every metric is always in exactly one place, and no two batches share one.
THEOREM NothingLostOrDuplicated == Spec => []Conservation
  <1>1. IInv => Conservation
    BY DEF IInv
  <1>2. QED
    BY <1>1, Invariance, PTL

\* After the loop's last snapshot every buffered metric has a backoff goroutine coming.
THEOREM NoMetricStranded == Spec => []NothingStranded
  <1>1. IInv => NothingStranded
    BY DEF IInv
  <1>2. QED
    BY <1>1, Invariance, PTL

\* Stop returns only when everything added before it was called has been settled.
THEOREM StopIsADrain == Spec => []StopDrains
  <1>1. IInv => StopDrains
    <2> SUFFICES ASSUME IInv, stopped, ~overlap
                 PROVE  Held = {} /\ \A r \in Retries : waiters[r] = 0
      BY DEF StopDrains
    <2>1. batches = {} /\ loop = "exited" /\ \A r \in Retries : waiters[r] = 0
      BY DEF IInv, StopShape
    <2>2. pending = {}
      BY <2>1 DEF IInv, LoopLeaves
    <2>3. buffer = {}
      <3> SUFFICES ASSUME NEW m \in buffer PROVE FALSE
        OBVIOUS
      <3>1. PICK a \in 2..MaxAttempts : waiters[<<Item[m], a>>] > 0
        BY <2>1 DEF IInv, NothingStranded, LeftSelect
      <3>2. <<Item[m], a>> \in Retries
        BY DEF IInv, TypeOK, Retries
      <3>3. QED
        BY <2>1, <3>1, <3>2
    <2>4. QED
      BY <2>1, <2>2, <2>3 DEF Held, Processing
  <1>2. QED
    BY <1>1, Invariance, PTL
-----------------------------------------------------------------------------
(* The Manager implements UsageLedger: Stage names the place Conservation  *)
(* says is unique, and each action moves the metrics it moves.             *)

\* Metrics that leave one stage for another make a move of the ledger.
LEMMA LedgerMove ==
    ASSUME Conservation, Conservation', NEW S, S # {}, S \subseteq Metrics,
           NEW from, NEW to,
           \A m \in S : Stage[m] = from /\ Stage'[m] = to,
           \A m \in Metrics \ S : Stage'[m] = Stage[m],
           ctxDone' = ctxDone
    PROVE  Ledger!Move(S, from, to)
  BY DEF Ledger!Move, Stage

\* A step that moves no metric leaves every stage as it was.
LEMMA StageKept ==
    ASSUME UNCHANGED <<fresh, refused, Held, delivered, dead>>
    PROVE  Stage' = Stage
  BY DEF Stage

\* Add is the ledger's Accept.
LEMMA LedgerAccept ==
    ASSUME Conservation, Conservation', NEW m \in fresh, ~ctxDone, ctxDone' = ctxDone,
           fresh' = fresh \ {m}, Held' = Held \cup {m}, UNCHANGED <<refused, delivered, dead>>
    PROVE  Ledger!Next
  <1>1. m \in Metrics
    BY DEF Conservation
  <1>2. Stage[m] = "new" /\ Stage'[m] = "held"
    BY <1>1 DEF Conservation, Stage
  <1>3. \A x \in Metrics \ {m} : Stage'[x] = Stage[x]
    BY DEF Stage
  <1>4. Ledger!Move({m}, "new", "held")
    <2>1. {m} # {} /\ {m} \subseteq Metrics
      BY <1>1
    <2>2. \A x \in {m} : Stage[x] = "new" /\ Stage'[x] = "held"
      BY <1>2
    <2> HIDE DEF BatchConstants
    <2>3. QED
      BY <1>3, <2>1, <2>2, LedgerMove
  <1>5. QED
    BY <1>1, <1>4 DEF Ledger!Accept, Ledger!Next

\* An Add that returns an error is the ledger's Refuse.
LEMMA LedgerRefuse ==
    ASSUME Conservation, Conservation', NEW m \in fresh, ctxDone, ctxDone' = ctxDone,
           fresh' = fresh \ {m}, refused' = refused \cup {m}, UNCHANGED <<Held, delivered, dead>>
    PROVE  Ledger!Next
  <1>1. m \in Metrics
    BY DEF Conservation
  <1>2. Stage[m] = "new" /\ Stage'[m] = "refused"
    BY <1>1 DEF Conservation, Stage
  <1>3. \A x \in Metrics \ {m} : Stage'[x] = Stage[x]
    BY DEF Stage
  <1>4. Ledger!Move({m}, "new", "refused")
    <2>1. {m} # {} /\ {m} \subseteq Metrics
      BY <1>1
    <2>2. \A x \in {m} : Stage[x] = "new" /\ Stage'[x] = "refused"
      BY <1>2
    <2> HIDE DEF BatchConstants
    <2>3. QED
      BY <1>3, <2>1, <2>2, LedgerMove
  <1>5. QED
    BY <1>1, <1>4 DEF Ledger!Refuse, Ledger!Next

\* A batch that leaves for good settles its metrics together.
LEMMA LedgerSettle ==
    ASSUME Conservation, Conservation', NEW S \in SUBSET Held, ctxDone' = ctxDone,
           Held' = Held \ S, UNCHANGED <<fresh, refused>>,
           \/ delivered' = delivered \cup S /\ UNCHANGED dead
           \/ dead' = dead \cup S /\ UNCHANGED delivered
    PROVE  Ledger!Next \/ Stage' = Stage
  <1>1. S \subseteq Metrics
    BY DEF Conservation
  <1>2. \A x \in S : Stage[x] = "held"
    BY <1>1 DEF Conservation, Stage, Held
  <1>3. \A x \in Metrics \ S : Stage'[x] = Stage[x]
    BY DEF Stage
  <1>4. CASE S = {}
    BY <1>3, <1>4 DEF Stage
  <1>5. CASE S # {} /\ delivered' = delivered \cup S /\ UNCHANGED dead
    <2>1. \A x \in S : Stage'[x] = "delivered"
      BY <1>1, <1>5 DEF Conservation, Stage
    <2>2. Ledger!Move(S, "held", "delivered")
      BY <1>1, <1>2, <1>3, <1>5, <2>1, LedgerMove
    <2>3. QED
      BY <1>1, <2>2 DEF Ledger!Deliver, Ledger!Next
  <1>6. CASE S # {} /\ dead' = dead \cup S /\ UNCHANGED delivered
    <2>1. \A x \in S : Stage'[x] = "dropped"
      BY <1>1, <1>6 DEF Conservation, Stage
    <2>2. Ledger!Move(S, "held", "dropped")
      BY <1>1, <1>2, <1>3, <1>6, <2>1, LedgerMove
    <2>3. QED
      BY <1>1, <2>2 DEF Ledger!Drop, Ledger!Next
  <1>7. QED
    BY <1>4, <1>5, <1>6

\* Each action of the Manager is an action of the ledger or leaves it alone.
LEMMA LedgerStep == IInv /\ IInv' /\ [Next]_vars => [Ledger!Next]_(Ledger!vars)
  <1> SUFFICES ASSUME IInv, IInv', [Next]_vars
               PROVE  Ledger!Next \/ UNCHANGED <<Stage, ctxDone>>
    BY DEF Ledger!vars
  <1> USE DEF IInv
  <1>0. Disjoint
    BY DEF Conservation, Disjoint
  <1>s. ASSUME UNCHANGED <<fresh, refused, Held, delivered, dead, ctxDone>>
        PROVE  UNCHANGED <<Stage, ctxDone>>
    BY <1>s, StageKept
  <1>b. ASSUME batches' = batches PROVE Processing' = Processing
    BY <1>b DEF Processing
  <1>1. ASSUME NEW m \in Metrics, AddRefused(m) PROVE Ledger!Next
    BY <1>1, <1>b, LedgerRefuse DEF AddRefused, Held
  <1>2. ASSUME NEW m \in Metrics, AddBuffered(m) PROVE Ledger!Next
    <2>1. Held' = Held \cup {m}
      BY <1>2, <1>b DEF AddBuffered, Held
    <2>2. QED
      BY <1>2, <2>1, LedgerAccept DEF AddBuffered
  <1>3. ASSUME NEW m \in Metrics, AddFull(m) PROVE Ledger!Next
    <2> DEFINE full == Of(Item[m], buffer \cup {m})
               n == [item |-> Item[m], metrics |-> full, attempt |-> 1, by |-> "caller"]
    <2>1. full \subseteq buffer \cup {m} /\ m \in full
      BY <1>3 DEF Of
    <2>2. n.metrics = full /\ full \cap Processing = {}
      BY <1>3, <2>1 DEF AddFull, Conservation
    <2>3. Processing' = Processing \cup full
      BY <1>0, <1>3, <2>2, BatchEnters DEF AddFull
    <2>4. Held' = Held \cup {m}
      <3>1. buffer' = buffer \ full /\ pending' = pending
        BY <1>3 DEF AddFull
      <3> HIDE DEF full
      <3>2. QED
        BY <2>1, <2>3, <3>1 DEF Held
    <2>5. QED
      BY <1>3, <2>4, LedgerAccept DEF AddFull
  <1>4. ASSUME NEW b \in batches, Spawn(b) PROVE UNCHANGED <<Stage, ctxDone>>
    BY <1>0, <1>4, <1>s, BatchSpawned DEF Spawn, Held
  <1>5. ASSUME NEW b \in batches, Succeed(b) \/ DeadLetter(b)
        PROVE  Ledger!Next \/ UNCHANGED <<Stage, ctxDone>>
    <2>1. Processing' = Processing \ b.metrics /\ b.metrics \subseteq Processing
      BY <1>0, <1>5, BatchLeaves DEF Succeed, DeadLetter
    <2>2. Held' = Held \ b.metrics
      BY <1>5, <2>1 DEF Succeed, DeadLetter, Held, Conservation
    <2>3. QED
      BY <1>5, <2>1, <2>2, LedgerSettle DEF Succeed, DeadLetter, Held
  <1>6. ASSUME NEW b \in batches, Requeue(b) PROVE UNCHANGED <<Stage, ctxDone>>
    <2>1. Processing' = Processing \ b.metrics /\ b.metrics \subseteq Processing
      BY <1>0, <1>6, BatchLeaves DEF Requeue
    <2>2. QED
      BY <1>6, <1>s, <2>1 DEF Requeue, Held
  <1>7. ASSUME NEW i \in Items, NEW a \in 2..MaxAttempts, Wakes(i, a)
        PROVE  UNCHANGED <<Stage, ctxDone>>
    <2>1. CASE RetryFlush(i, a)
      <3> DEFINE n == [item |-> i, metrics |-> Of(i, buffer), attempt |-> a, by |-> "async"]
      <3>1. Of(i, buffer) \subseteq buffer /\ n.metrics = Of(i, buffer)
        BY OfSubset
      <3>3. n.metrics \cap Processing = {}
        BY <3>1 DEF Conservation
      <3>2. Processing' = Processing \cup Of(i, buffer)
        BY <1>0, <2>1, <3>3, <3>1, BatchEnters DEF RetryFlush
      <3>4. QED
        BY <1>s, <2>1, <3>1, <3>2 DEF RetryFlush, Held
    <2>2. CASE RetryNothing(i, a)
      BY <1>b, <1>s, <2>2 DEF RetryNothing, Held
    <2>3. QED
      BY <1>7, <2>1, <2>2 DEF Wakes
  <1>8. CASE Tick \/ FinalFlush
    <2>1. pending = {}
      BY <1>8 DEF Tick, FinalFlush, LoopLeaves
    <2>2. QED
      BY <1>8, <1>b, <1>s, <2>1 DEF Tick, FinalFlush, Snapshot, Held
  <1>9. ASSUME NEW i \in Items, FlushNext(i) PROVE UNCHANGED <<Stage, ctxDone>>
    <2> DEFINE n == [item |-> i, metrics |-> Of(i, pending), attempt |-> 1, by |-> "loop"]
    <2>1. Of(i, pending) \subseteq pending /\ n.metrics = Of(i, pending)
      BY OfSubset
    <2>3. n.metrics \cap Processing = {}
      BY <2>1 DEF Conservation
    <2>2. Processing' = Processing \cup Of(i, pending)
      BY <1>0, <1>9, <2>3, <2>1, BatchEnters DEF FlushNext
    <2>4. QED
      BY <1>9, <1>s, <2>1, <2>2 DEF FlushNext, Held
  <1>10. CASE FlushAllReturns \/ Stop \/ StopReturns
    BY <1>10, <1>b, <1>s DEF FlushAllReturns, Stop, StopReturns, Held
  <1>11. CASE Cancel
    <2>1. Stage' = Stage
      BY <1>11, <1>b, StageKept DEF Cancel, Held
    <2>2. QED
      BY <1>11, <2>1 DEF Cancel, Ledger!Close, Ledger!Next
  <1>12. CASE UNCHANGED vars
    BY <1>12, <1>b, <1>s DEF vars, Held
  <1>13. QED
    BY <1>1, <1>2, <1>3, <1>4, <1>5, <1>6, <1>7, <1>8, <1>9, <1>10, <1>11, <1>12
       DEF Next, Returns

\* The Manager implements the ledger, for every instance.
THEOREM ManagerImplementsLedger == Spec => ImplementsLedger
  <1>1. Init => Ledger!Init
    <2> SUFFICES ASSUME Init PROVE Ledger!Init
      OBVIOUS
    <2>1. \A m \in Metrics : Stage[m] = "new"
      BY DEF Init, Stage
    <2>2. ~ctxDone
      BY DEF Init
    <2>3. Stage = [m \in Metrics |-> Stage[m]]
      BY DEF Stage
    <2>4. QED
      BY <2>1, <2>2, <2>3 DEF Ledger!Init
  <1>2. QED
    BY <1>1, LedgerStep, Invariance, PTL DEF Spec, ImplementsLedger, Ledger!Spec
-----------------------------------------------------------------------------
(* Why Stop returns. StopTerminates needs fairness; what it rests on does  *)
(* not. wg.Wait waits for goroutines that start goroutines, but once the   *)
(* loop has left its select the work they have left is bounded, every step *)
(* of theirs makes it less, and when none is left wg is zero. A batch may  *)
(* fail each time: the attempt number it hands on is what shrinks.         *)

\* The backoff goroutines, told apart by a number.
Waiting == UNION {{r} \X (1..waiters[r]) : r \in Retries}

\* The steps that may follow from a batch, from a backoff goroutine (it flushes a batch), and
\* from a metric of the snapshot (it is in a batch of its own at worst).
OfBatch   == [b \in Batch |-> 2 * (MaxAttempts - b.attempt) + IF b.by = "caller" THEN 2 ELSE 1]
OfWaiter  == [t \in Retries \X (Nat \ {0}) |-> 2 * (MaxAttempts - t[1][2]) + 2]
OfPending == [m \in Metrics |-> 2 * MaxAttempts]

\* The sum of w over S, as the number of the steps themselves.
Steps(S, w) == {p \in S \X (1..(2 * MaxAttempts)) : p[2] <= w[p[1]]}

LoopLeft == [select |-> 2, flushing |-> 2, final |-> 1, exited |-> 0]

StepsLeft ==
    Cardinality(Steps(batches, OfBatch)) + Cardinality(Steps(Waiting, OfWaiter))
    + Cardinality(Steps(pending, OfPending)) + LoopLeft[loop]

\* What the Manager's goroutines work on.
work == <<buffer, pending, batches, waiters, loop>>

\* Once the loop has left its select every step leaves less to do, but for an Add; Stop and
\* the cancellation do no work.
WorkShrinks ==
    [][LeftSelect => \/ StepsLeft' < StepsLeft
                     \/ fresh' # fresh
                     \/ UNCHANGED <<work, StepsLeft>>]_vars

\* As long as wg is not zero somebody has a step to take: a batch returns, a backoff goroutine
\* wakes, or the loop goes on with its snapshot.
SomebodyWorks ==
    LeftSelect /\ ~WaitGroupZero =>
        \/ \E b \in batches : b.by # "caller"
        \/ \E r \in Retries : waiters[r] > 0
        \/ LoopIdle /\ \E i \in Items : Of(i, pending) # {}
        \/ loop = "final" /\ LoopIdle /\ pending = {}

\* The steps of a finite set are finitely many.
LEMMA StepsFinite ==
    ASSUME NEW S, IsFiniteSet(S), NEW w
    PROVE  IsFiniteSet(Steps(S, w)) /\ Cardinality(Steps(S, w)) \in Nat
  <1> DEFINE top == 2 * MaxAttempts
  <1>1. 1 \in Int /\ top \in Int
    OBVIOUS
  <1> HIDE DEF top
  <1>2. IsFiniteSet(1..top)
    BY <1>1, FS_Interval
  <1>3. IsFiniteSet(S \X (1..top))
    BY <1>2, FS_Product
  <1>4. Steps(S, w) \subseteq S \X (1..top)
    BY DEF Steps, top
  <1>5. QED
    BY <1>3, <1>4, FS_Subset, FS_CardinalityType

\* The steps of one element are its own.
LEMMA StepsOf ==
    ASSUME NEW S, IsFiniteSet(S), NEW w, NEW x, w[x] \in 0..(2 * MaxAttempts)
    PROVE  /\ IsFiniteSet(Steps(S, w)) /\ Cardinality(Steps(S, w)) \in Nat
           /\ IsFiniteSet(Steps({x}, w)) /\ Cardinality(Steps({x}, w)) = w[x]
  <1>1. IsFiniteSet({x}) /\ Cardinality({x}) = 1
    BY FS_Singleton
  <1>2. PICK k \in Nat : k = w[x] /\ k <= 2 * MaxAttempts
    OBVIOUS
  <1>3. Steps({x}, w) = {x} \X (1..k)
    BY <1>2 DEF Steps
  <1>4. IsFiniteSet(1..k)
    BY FS_Interval
  <1>5. Cardinality(1..k) = k
    <2>1. Cardinality(1..k) = IF 1 > k THEN 0 ELSE k - 1 + 1
      BY FS_Interval
    <2>2. QED
      BY <2>1
  <1>6. Cardinality({x} \X (1..k)) = Cardinality({x}) * Cardinality(1..k)
    BY <1>1, <1>4, FS_Product
  <1>7. Cardinality(Steps({x}, w)) = 1 * k
    BY <1>1, <1>3, <1>5, <1>6
  <1>8. 1 * k = k
    OBVIOUS
  <1>9. QED
    BY <1>1, <1>2, <1>7, <1>8, StepsFinite

\* Something more to do.
LEMMA StepsMore ==
    ASSUME NEW S, IsFiniteSet(S), NEW w, NEW x, w[x] \in 0..(2 * MaxAttempts)
    PROVE  Cardinality(Steps(S \cup {x}, w)) <= Cardinality(Steps(S, w)) + w[x]
  <1> DEFINE A == Steps(S, w)
             B == Steps({x}, w)
  <1>1. Steps(S \cup {x}, w) = A \cup B
    BY DEF Steps
  <1>2. /\ IsFiniteSet(A) /\ Cardinality(A) \in Nat
        /\ IsFiniteSet(B) /\ Cardinality(B) = w[x]
    BY StepsOf
  <1>3. Cardinality(A \cup B) = Cardinality(A) + Cardinality(B) - Cardinality(A \cap B)
    BY <1>2, FS_Union
  <1>4. Cardinality(A \cap B) \in Nat
    BY <1>2, FS_Intersection, FS_CardinalityType
  <1>5. w[x] \in Nat
    OBVIOUS
  <1>6. SUFFICES Cardinality(A \cup B) <= Cardinality(A) + w[x]
    BY <1>1, Zenon
  <1> HIDE DEF A, B
  <1>7. QED
    BY <1>2, <1>3, <1>4, <1>5

\* Something done.
LEMMA StepsFewer ==
    ASSUME NEW S, IsFiniteSet(S), NEW w, NEW x \in S, w[x] \in 0..(2 * MaxAttempts)
    PROVE  Cardinality(Steps(S \ {x}, w)) = Cardinality(Steps(S, w)) - w[x]
  <1> DEFINE A == Steps(S \ {x}, w)
             B == Steps({x}, w)
  <1>1. Steps(S, w) = A \cup B /\ A \cap B = {}
    BY DEF Steps
  <1>2. IsFiniteSet(S \ {x})
    BY FS_Subset
  <1>3. /\ IsFiniteSet(A) /\ Cardinality(A) \in Nat
        /\ IsFiniteSet(B) /\ Cardinality(B) = w[x]
    BY <1>2, StepsOf
  <1>4. Cardinality(A \cup B) = Cardinality(A) + Cardinality(B) - Cardinality(A \cap B)
    BY <1>3, FS_Union
  <1>5. Cardinality(A \cap B) = 0
    BY <1>1, FS_EmptySet
  <1> HIDE DEF A, B
  <1>6. QED
    BY <1>1, <1>3, <1>4, <1>5 DEF A

\* The weights are in the range of Steps, and none is zero.
LEMMA Weights ==
    /\ MaxAttempts \in Nat \ {0}
    /\ \A b \in Batch : /\ OfBatch[b] \in 1..(2 * MaxAttempts)
                        /\ OfBatch[b] = 2 * (MaxAttempts - b.attempt)
                                          + IF b.by = "caller" THEN 2 ELSE 1
    /\ \A r \in Retries, k \in Nat \ {0} :
           /\ OfWaiter[<<r, k>>] \in 1..(2 * MaxAttempts)
           /\ OfWaiter[<<r, k>>] = 2 * (MaxAttempts - r[2]) + 2
    /\ \A m \in Metrics : OfPending[m] = 2 * MaxAttempts
  <1>1. ASSUME NEW b \in Batch
        PROVE  /\ OfBatch[b] \in 1..(2 * MaxAttempts)
               /\ OfBatch[b] = 2 * (MaxAttempts - b.attempt) + IF b.by = "caller" THEN 2 ELSE 1
    <2>1. b.attempt \in 1..MaxAttempts
      BY DEF Batch
    <2>2. OfBatch[b] = 2 * (MaxAttempts - b.attempt) + IF b.by = "caller" THEN 2 ELSE 1
      BY DEF OfBatch
    <2>3. QED
      BY <2>1, <2>2
  <1>2. ASSUME NEW r \in Retries, NEW k \in Nat \ {0}
        PROVE  /\ OfWaiter[<<r, k>>] \in 1..(2 * MaxAttempts)
               /\ OfWaiter[<<r, k>>] = 2 * (MaxAttempts - r[2]) + 2
    <2>1. r[2] \in 2..MaxAttempts
      BY DEF Retries
    <2>2. OfWaiter[<<r, k>>] = 2 * (MaxAttempts - r[2]) + 2
      BY DEF OfWaiter
    <2>3. QED
      BY <2>1, <2>2
  <1>3. QED
    BY <1>1, <1>2 DEF OfPending

\* A backoff goroutine is started.
LEMMA WaitingMore ==
    ASSUME TypeOK, NEW r \in Retries, waiters' = [waiters EXCEPT ![r] = @ + 1]
    PROVE  Waiting' = Waiting \cup {<<r, waiters[r] + 1>>}
  <1>1. \A q \in Retries : waiters[q] \in Nat /\ waiters'[q] = IF q = r THEN waiters[r] + 1
                                                              ELSE waiters[q]
    BY DEF TypeOK
  <1>2. 1..(waiters[r] + 1) = (1..waiters[r]) \cup {waiters[r] + 1}
    BY <1>1
  <1>3. QED
    BY <1>1, <1>2 DEF Waiting

\* A backoff goroutine has woken.
LEMMA WaitingFewer ==
    ASSUME TypeOK, NEW r \in Retries, waiters[r] > 0, waiters' = [waiters EXCEPT ![r] = @ - 1]
    PROVE  /\ <<r, waiters[r]>> \in Waiting /\ waiters[r] \in Nat \ {0}
           /\ Waiting' = Waiting \ {<<r, waiters[r]>>}
  <1>1. \A q \in Retries : waiters[q] \in Nat /\ waiters'[q] = IF q = r THEN waiters[r] - 1
                                                              ELSE waiters[q]
    BY DEF TypeOK
  <1>2. 1..(waiters[r] - 1) = (1..waiters[r]) \ {waiters[r]} /\ waiters[r] \in 1..waiters[r]
    BY <1>1
  <1>3. QED
    BY <1>1, <1>2 DEF Waiting
-----------------------------------------------------------------------------
\* Only finitely many metrics have been added, and they have finitely many goroutines.
Finitely == IsFiniteSet(Metrics \ fresh) /\ IsFiniteSet(batches) /\ IsFiniteSet(Waiting)

\* Nothing has been added.
LEMMA FinitelyInit == Init => Finitely
  <1> SUFFICES ASSUME Init PROVE Finitely
    OBVIOUS
  <1>1. Metrics \ fresh = {} /\ batches = {} /\ Waiting = {}
    BY DEF Init, Waiting
  <1>2. QED
    BY <1>1, FS_EmptySet DEF Finitely

\* A step adds one metric, one batch or one goroutine at most.
LEMMA FinitelyStep == TypeOK /\ Finitely /\ [Next]_vars => Finitely'
  <1> SUFFICES ASSUME TypeOK, Finitely, [Next]_vars PROVE Finitely'
    OBVIOUS
  <1>1. ASSUME NEW m, fresh' = fresh \/ fresh' = fresh \ {m}
        PROVE  IsFiniteSet(Metrics \ fresh)'
    <2>1. IsFiniteSet((Metrics \ fresh) \cup {m})
      BY FS_AddElement DEF Finitely
    <2>2. (Metrics \ fresh') \subseteq (Metrics \ fresh) \cup {m}
      BY <1>1
    <2>3. QED
      BY <2>1, <2>2, FS_Subset
  <1>2. ASSUME NEW n, batches' \subseteq batches \cup {n} PROVE IsFiniteSet(batches)'
    <2>1. IsFiniteSet(batches \cup {n})
      BY FS_AddElement DEF Finitely
    <2>2. QED
      BY <1>2, <2>1, FS_Subset
  <1>3. ASSUME waiters' = waiters PROVE IsFiniteSet(Waiting)'
    BY <1>3 DEF Waiting, Finitely
  <1>4. ASSUME NEW m \in Metrics, AddRefused(m) \/ AddBuffered(m) \/ AddFull(m) PROVE Finitely'
    <2>1. batches' \subseteq batches \cup
             {[item |-> Item[m], metrics |-> Of(Item[m], buffer \cup {m}), attempt |-> 1,
               by |-> "caller"]}
      BY <1>4 DEF AddRefused, AddBuffered, AddFull
    <2>2. fresh' = fresh \ {m} /\ waiters' = waiters
      BY <1>4 DEF AddRefused, AddBuffered, AddFull
    <2>3. QED
      BY <1>1, <1>2, <1>3, <2>1, <2>2 DEF Finitely
  <1>5. ASSUME NEW b \in batches, Spawn(b) \/ Succeed(b) \/ DeadLetter(b) PROVE Finitely'
    <2>1. batches' \subseteq batches \cup {[b EXCEPT !.by = "async"]}
      BY <1>5 DEF Spawn, Succeed, DeadLetter
    <2>2. fresh' = fresh /\ waiters' = waiters
      BY <1>5 DEF Spawn, Succeed, DeadLetter
    <2>3. QED
      BY <1>1, <1>2, <1>3, <2>1, <2>2 DEF Finitely
  <1>6. ASSUME NEW b \in batches, Requeue(b) PROVE Finitely'
    <2>1. <<b.item, b.attempt + 1>> \in Retries
      BY <1>6 DEF Requeue, TypeOK, Batch, Retries
    <2>2. Waiting' = Waiting \cup {<< <<b.item, b.attempt + 1>>,
                                     waiters[<<b.item, b.attempt + 1>>] + 1>>}
      BY <1>6, <2>1, WaitingMore DEF Requeue
    <2>3. IsFiniteSet(Waiting)'
      BY <2>2, FS_AddElement DEF Finitely
    <2>4. fresh' = fresh /\ batches' \subseteq batches \cup {b}
      BY <1>6 DEF Requeue
    <2>5. QED
      BY <1>1, <1>2, <2>3, <2>4 DEF Finitely
  <1>7. ASSUME NEW i \in Items, NEW a \in 2..MaxAttempts, Wakes(i, a) PROVE Finitely'
    <2>1. <<i, a>> \in Retries
      BY DEF Retries
    <2>2. Waiting' \subseteq Waiting
      BY <1>7, <2>1, WaitingFewer DEF Wakes, RetryFlush, RetryNothing
    <2>3. IsFiniteSet(Waiting)'
      BY <2>2, FS_Subset DEF Finitely
    <2>4. /\ fresh' = fresh
          /\ batches' \subseteq batches \cup
               {[item |-> i, metrics |-> Of(i, buffer), attempt |-> a, by |-> "async"]}
      BY <1>7 DEF Wakes, RetryFlush, RetryNothing
    <2>5. QED
      BY <1>1, <1>2, <2>3, <2>4 DEF Finitely
  <1>8. ASSUME NEW i \in Items, FlushNext(i) PROVE Finitely'
    <2>1. batches' \subseteq batches \cup
             {[item |-> i, metrics |-> Of(i, pending), attempt |-> 1, by |-> "loop"]}
      BY <1>8 DEF FlushNext
    <2>2. fresh' = fresh /\ waiters' = waiters
      BY <1>8 DEF FlushNext
    <2>3. QED
      BY <1>1, <1>2, <1>3, <2>1, <2>2 DEF Finitely
  <1>9. CASE \/ Tick \/ FinalFlush \/ FlushAllReturns \/ Stop \/ StopReturns \/ Cancel
             \/ UNCHANGED vars
    <2>1. fresh' = fresh /\ waiters' = waiters /\ batches' = batches
      BY <1>9 DEF Tick, FinalFlush, FlushAllReturns, Stop, StopReturns, Cancel, vars
    <2>2. QED
      BY <1>3, <2>1 DEF Finitely
  <1>10. QED
    BY <1>4, <1>5, <1>6, <1>7, <1>8, <1>9 DEF Next, Returns

Bounded == IInv /\ Finitely

\* The numbers StepsLeft adds up.
LEMMA Counts ==
    ASSUME Bounded
    PROVE  /\ IsFiniteSet(batches) /\ IsFiniteSet(Waiting) /\ IsFiniteSet(pending)
           /\ Cardinality(Steps(batches, OfBatch)) \in Nat
           /\ Cardinality(Steps(Waiting, OfWaiter)) \in Nat
           /\ Cardinality(Steps(pending, OfPending)) \in Nat
           /\ LoopLeft[loop] \in Nat
  <1>1. IsFiniteSet(pending)
    <2>1. pending \subseteq Metrics \ fresh
      BY DEF Bounded, IInv, TypeOK, Conservation
    <2>2. QED
      BY <2>1, FS_Subset DEF Bounded, Finitely
  <1>2. LoopLeft[loop] \in Nat
    BY DEF Bounded, IInv, TypeOK, LoopLeft
  <1>3. QED
    BY <1>1, <1>2, StepsFinite DEF Bounded, Finitely

\* A batch starts or ends.
LEMMA BatchShrinks ==
    ASSUME Bounded, NEW b \in batches, Spawn(b) \/ Returns(b)
    PROVE  StepsLeft' < StepsLeft
  <1> DEFINE N == Cardinality(Steps(batches, OfBatch))
             W == Cardinality(Steps(Waiting, OfWaiter))
  <1>t. TypeOK /\ b \in Batch /\ b.attempt \in 1..MaxAttempts
    BY DEF Bounded, IInv, TypeOK, Batch
  <1>1. /\ IsFiniteSet(batches \ {b})
        /\ Cardinality(Steps(batches \ {b}, OfBatch)) = N - OfBatch[b]
    <2>1. IsFiniteSet(batches) /\ b \in batches
      BY Counts
    <2>2. OfBatch[b] \in 1..(2 * MaxAttempts)
      BY <1>t, Weights
    <2>3. OfBatch[b] \in 0..(2 * MaxAttempts)
      BY <2>2
    <2>4. IsFiniteSet(batches \ {b})
      BY <2>1, FS_Subset
    <2>5. QED
      BY <2>1, <2>3, <2>4, StepsFewer
  <1>2. /\ OfBatch[b] \in Nat \ {0} /\ N \in Nat /\ W \in Nat /\ MaxAttempts \in Nat
        /\ b.by # "caller" => OfBatch[b] = 2 * (MaxAttempts - b.attempt) + 1
        /\ b.by = "caller" => OfBatch[b] = 2 * (MaxAttempts - b.attempt) + 2
    BY <1>t, Weights, Counts
  <1>3. UNCHANGED <<pending, loop>>
    BY DEF Spawn, Returns, Succeed, Requeue, DeadLetter
  <1> HIDE DEF N, W
  <1>4. CASE Spawn(b)
    <2> DEFINE n == [b EXCEPT !.by = "async"]
    <2>1. n \in Batch /\ n.attempt = b.attempt /\ n.by = "async"
      BY <1>t DEF Batch, Runners
    <2>2. OfBatch[n] = OfBatch[b] - 1 /\ OfBatch[n] \in 0..(2 * MaxAttempts)
      <3>1. OfBatch[n] \in 1..(2 * MaxAttempts)
        BY <2>1, Weights
      <3>2. OfBatch[n] = 2 * (MaxAttempts - b.attempt) + 1
        <4>1. OfBatch[n] = 2 * (MaxAttempts - n.attempt) + IF n.by = "caller" THEN 2 ELSE 1
          BY <2>1, Weights
        <4>2. n.by # "caller"
          BY <2>1
        <4>3. QED
          BY <2>1, <4>1, <4>2
      <3>3. OfBatch[b] = 2 * (MaxAttempts - b.attempt) + 2
        BY <1>2, <1>4 DEF Spawn
      <3>4. QED
        BY <1>2, <1>t, <3>1, <3>2, <3>3
    <2>3. batches' = (batches \ {b}) \cup {n} /\ waiters' = waiters
      BY <1>4 DEF Spawn
    <2> HIDE DEF n
    <2>4. Cardinality(Steps((batches \ {b}) \cup {n}, OfBatch)) <= (N - OfBatch[b]) + OfBatch[n]
      BY <1>1, <2>2, StepsMore
    <2>5. Cardinality(Steps(batches', OfBatch)) < N
      <3>1. Cardinality(Steps((batches \ {b}) \cup {n}, OfBatch)) \in Nat
        <4>1. IsFiniteSet((batches \ {b}) \cup {n})
          BY <1>1, FS_AddElement
        <4>2. QED
          BY <2>2, <4>1, StepsOf
      <3>2. QED
        BY <1>2, <2>2, <2>3, <2>4, <3>1
    <2>6. Cardinality(Steps(batches', OfBatch)) \in Nat
      <3>1. IsFiniteSet((batches \ {b}) \cup {n})
        BY <1>1, FS_AddElement
      <3>2. QED
        BY <2>2, <2>3, <3>1, StepsOf
    <2>7. Waiting' = Waiting
      BY <2>3 DEF Waiting
    <2>8. QED
      BY <1>2, <1>3, <2>5, <2>6, <2>7, Counts DEF StepsLeft, N
  <1>5. CASE Succeed(b) \/ DeadLetter(b)
    <2>1. batches' = batches \ {b} /\ Waiting' = Waiting
      BY <1>5 DEF Succeed, DeadLetter, Waiting
    <2>2. QED
      BY <1>1, <1>2, <1>3, <2>1, Counts DEF StepsLeft, N
  <1>6. CASE Requeue(b)
    <2> DEFINE r == <<b.item, b.attempt + 1>>
               t == <<r, waiters[r] + 1>>
    <2>1. r \in Retries /\ waiters[r] + 1 \in Nat \ {0} /\ r[2] = b.attempt + 1
      BY <1>6, <1>t DEF Requeue, TypeOK, Batch, Retries
    <2>2. OfWaiter[t] = OfBatch[b] - 1 /\ OfWaiter[t] \in 0..(2 * MaxAttempts)
      <3>1. OfWaiter[t] \in 1..(2 * MaxAttempts)
        BY <2>1, Weights
      <3>2. OfWaiter[t] = 2 * (MaxAttempts - (b.attempt + 1)) + 2
        BY <2>1, Weights
      <3>3. OfBatch[b] = 2 * (MaxAttempts - b.attempt) + 1
        BY <1>2, <1>6 DEF Requeue
      <3>4. QED
        BY <1>2, <1>t, <3>1, <3>2, <3>3
    <2>3. Waiting' = Waiting \cup {t}
      BY <1>6, <1>t, <2>1, WaitingMore DEF Requeue
    <2>4. batches' = batches \ {b}
      BY <1>6 DEF Requeue
    <2> HIDE DEF t
    <2>5. Cardinality(Steps(Waiting \cup {t}, OfWaiter)) <= W + OfWaiter[t]
      BY <2>2, Counts, StepsMore DEF W
    <2>6. Cardinality(Steps(Waiting \cup {t}, OfWaiter)) \in Nat
      <3>1. IsFiniteSet(Waiting \cup {t})
        BY Counts, FS_AddElement
      <3>2. QED
        BY <2>2, <3>1, StepsOf
    <2>7. QED
      BY <1>1, <1>2, <1>3, <2>2, <2>3, <2>4, <2>5, <2>6, Counts DEF StepsLeft, N, W
  <1>7. QED
    BY <1>4, <1>5, <1>6 DEF Returns

\* A backoff goroutine wakes.
LEMMA WaiterShrinks ==
    ASSUME Bounded, NEW i \in Items, NEW a \in 2..MaxAttempts, Wakes(i, a)
    PROVE  StepsLeft' < StepsLeft
  <1> DEFINE N == Cardinality(Steps(batches, OfBatch))
             W == Cardinality(Steps(Waiting, OfWaiter))
             r == <<i, a>>
             t == <<r, waiters[r]>>
  <1>t. TypeOK
    BY DEF Bounded, IInv
  <1>1. r \in Retries /\ r[2] = a
    BY DEF Retries
  <1>2. t \in Waiting /\ waiters[r] \in Nat \ {0} /\ Waiting' = Waiting \ {t}
    BY <1>1, <1>t, WaitingFewer DEF Wakes, RetryFlush, RetryNothing
  <1>3. OfWaiter[t] \in 1..(2 * MaxAttempts) /\ OfWaiter[t] = 2 * (MaxAttempts - a) + 2
    BY <1>1, <1>2, Weights
  <1> HIDE DEF t
  <1>4. Cardinality(Steps(Waiting', OfWaiter)) = W - OfWaiter[t]
    BY <1>2, <1>3, Counts, StepsFewer
  <1>5. N \in Nat /\ W \in Nat /\ MaxAttempts \in Nat /\ UNCHANGED <<pending, loop>>
    BY Counts, Weights DEF Wakes, RetryFlush, RetryNothing
  <1> HIDE DEF N, W
  <1>6. CASE RetryNothing(i, a)
    <2>1. batches' = batches
      BY <1>6 DEF RetryNothing
    <2>2. QED
      BY <1>3, <1>4, <1>5, <2>1, Counts DEF StepsLeft, W
  <1>7. CASE RetryFlush(i, a)
    <2> DEFINE n == [item |-> i, metrics |-> Of(i, buffer), attempt |-> a, by |-> "async"]
    <2>1. n \in Batch /\ n.attempt = a /\ n.by = "async"
      BY <1>t, OfSubset DEF TypeOK, Batch, Runners
    <2>2. OfBatch[n] = 2 * (MaxAttempts - a) + 1 /\ OfBatch[n] \in 0..(2 * MaxAttempts)
      BY <1>5, <2>1, Weights
    <2>3. batches' = batches \cup {n}
      BY <1>7 DEF RetryFlush
    <2> HIDE DEF n
    <2>4. Cardinality(Steps(batches \cup {n}, OfBatch)) <= N + OfBatch[n]
      BY <2>2, Counts, StepsMore DEF N
    <2>5. Cardinality(Steps(batches \cup {n}, OfBatch)) \in Nat
      <3>1. IsFiniteSet(batches \cup {n})
        BY Counts, FS_AddElement
      <3>2. QED
        BY <2>2, <3>1, StepsOf
    <2>6. QED
      BY <1>3, <1>4, <1>5, <2>2, <2>3, <2>4, <2>5, Counts DEF StepsLeft, N, W
  <1>8. QED
    BY <1>6, <1>7 DEF Wakes

\* The loop goes on with its snapshot.
LEMMA LoopShrinks ==
    ASSUME Bounded, NEW i \in Items, FlushNext(i)
    PROVE  StepsLeft' < StepsLeft
  <1> DEFINE N == Cardinality(Steps(batches, OfBatch))
             P == Cardinality(Steps(pending, OfPending))
             n == [item |-> i, metrics |-> Of(i, pending), attempt |-> 1, by |-> "loop"]
  <1>t. TypeOK
    BY DEF Bounded, IInv
  <1>1. PICK m \in Metrics : m \in pending /\ m \in Of(i, pending)
    BY <1>t, OfSubset DEF FlushNext, TypeOK
  <1>2. Cardinality(Steps(pending \ {m}, OfPending)) = P - 2 * MaxAttempts
    <2>1. OfPending[m] = 2 * MaxAttempts /\ 2 * MaxAttempts \in Nat
      BY <1>1, Weights
    <2>2. OfPending[m] \in 0..(2 * MaxAttempts)
      BY <2>1
    <2>3. IsFiniteSet(pending) /\ m \in pending
      BY <1>1, Counts
    <2>4. QED
      BY <2>1, <2>2, <2>3, StepsFewer
  <1>3. /\ Cardinality(Steps(pending', OfPending)) \in Nat
        /\ Cardinality(Steps(pending', OfPending)) <= P - 2 * MaxAttempts
    <2>1. Steps(pending', OfPending) \subseteq Steps(pending \ {m}, OfPending)
      BY <1>1 DEF FlushNext, Steps
    <2>2. IsFiniteSet(pending \ {m}) /\ OfPending[m] \in 0..(2 * MaxAttempts)
      BY Counts, Weights, FS_Subset
    <2>3. IsFiniteSet(Steps(pending \ {m}, OfPending))
      BY <2>2, StepsOf
    <2>4. QED
      BY <1>2, <2>1, <2>3, FS_Subset, FS_CardinalityType
  <1>4. n \in Batch /\ n.attempt = 1 /\ n.by = "loop"
    BY <1>t, OfSubset, Weights DEF TypeOK, Batch, Runners
  <1>5. OfBatch[n] = 2 * (MaxAttempts - 1) + 1 /\ OfBatch[n] \in 0..(2 * MaxAttempts)
    BY <1>4, Weights
  <1>6. batches' = batches \cup {n} /\ Waiting' = Waiting /\ loop' = loop
    BY DEF FlushNext, Waiting
  <1> HIDE DEF n
  <1>7. Cardinality(Steps(batches \cup {n}, OfBatch)) <= N + OfBatch[n]
    BY <1>5, Counts, StepsMore
  <1>8. Cardinality(Steps(batches \cup {n}, OfBatch)) \in Nat
    <2>1. IsFiniteSet(batches \cup {n})
      BY Counts, FS_AddElement
    <2>2. QED
      BY <1>5, <2>1, StepsOf
  <1>9. N \in Nat /\ P \in Nat /\ MaxAttempts \in Nat
    BY Counts, Weights
  <1> HIDE DEF N, P
  <1>10. QED
    BY <1>3, <1>5, <1>6, <1>7, <1>8, <1>9, Counts DEF StepsLeft, N, P

\* When nothing is left to do, wg is zero.
LEMMA NothingLeft == ASSUME Bounded, StepsLeft = 0 PROVE WaitGroupZero
  <1>1. /\ Cardinality(Steps(batches, OfBatch)) = 0
        /\ Cardinality(Steps(Waiting, OfWaiter)) = 0 /\ LoopLeft[loop] = 0
    BY Counts DEF StepsLeft
  <1>2. loop = "exited"
    BY <1>1 DEF Bounded, IInv, TypeOK, LoopLeft
  <1>3. Steps(batches, OfBatch) = {} /\ Steps(Waiting, OfWaiter) = {}
    <2>1. ASSUME NEW S, IsFiniteSet(S), NEW w, Cardinality(Steps(S, w)) = 0 PROVE Steps(S, w) = {}
      <3>1. IsFiniteSet(Steps(S, w))
        BY <2>1, StepsFinite
      <3>2. QED
        BY <2>1, <3>1, FS_EmptySet
    <2>2. QED
      BY <1>1, <2>1, Counts
  <1>4. ASSUME NEW b \in batches PROVE FALSE
    <2>1. 1 <= OfBatch[b] /\ 1 \in 1..(2 * MaxAttempts)
      BY Weights DEF Bounded, IInv, TypeOK
    <2>2. <<b, 1>> \in Steps(batches, OfBatch)
      BY <2>1 DEF Steps
    <2>3. QED
      BY <1>3, <2>2
  <1>5. ASSUME NEW r \in Retries PROVE waiters[r] = 0
    <2> SUFFICES ASSUME waiters[r] # 0 PROVE FALSE
      OBVIOUS
    <2>1. waiters[r] \in Nat \ {0}
      BY DEF Bounded, IInv, TypeOK
    <2>2. <<r, waiters[r]>> \in Waiting
      BY <2>1 DEF Waiting
    <2>3. 1 <= OfWaiter[<<r, waiters[r]>>] /\ 1 \in 1..(2 * MaxAttempts)
      BY <2>1, Weights
    <2>4. << <<r, waiters[r]>>, 1>> \in Steps(Waiting, OfWaiter)
      BY <2>2, <2>3 DEF Steps
    <2>5. QED
      BY <1>3, <2>4
  <1>6. QED
    BY <1>2, <1>4, <1>5 DEF WaitGroupZero

\* However often the batches fail, and however many there are: once the loop has left its
\* select, the goroutines Stop waits for take boundedly many steps between them (each failure
\* costs an attempt, manager.go:190), and wg is zero when these are used up. Add is the only
\* call that gives them more to do (manager.go:95).
THEOREM StopWaitsForBoundedWork ==
    Spec => /\ [](StepsLeft \in Nat /\ (StepsLeft = 0 => WaitGroupZero))
            /\ WorkShrinks
  <1>1. Spec => []Bounded
    <2>1. Init => Bounded
      BY TypeInit, ConservationInit, ItemsInit, LoopInit, StrandedInit, ShapeInit, FinitelyInit
         DEF IInv, Bounded
    <2>2. Bounded /\ [Next]_vars => Bounded'
      BY TypeStep, ConservationStep, ItemsStep, LoopStep, StrandedStep, ShapeStep, FinitelyStep
         DEF IInv, Bounded
    <2>3. QED
      BY <2>1, <2>2, PTL DEF Spec
  <1>2. Bounded => StepsLeft \in Nat /\ (StepsLeft = 0 => WaitGroupZero)
    BY Counts, NothingLeft DEF StepsLeft
  <1> DEFINE Less == \/ StepsLeft' < StepsLeft
                     \/ fresh' # fresh
                     \/ UNCHANGED <<work, StepsLeft>>
  <1>3. ASSUME Bounded, [Next]_vars, LeftSelect PROVE Less
    <2>1. ASSUME NEW m \in Metrics, AddRefused(m) \/ AddBuffered(m) \/ AddFull(m)
          PROVE  fresh' # fresh
      BY <2>1 DEF AddRefused, AddBuffered, AddFull
    <2>2. CASE FlushAllReturns
      <3>1. loop = "final" /\ loop' = "exited" /\ UNCHANGED <<batches, waiters, pending>>
        BY <1>3, <2>2 DEF FlushAllReturns, LeftSelect
      <3>2. LoopLeft[loop] = 1 /\ LoopLeft[loop'] = 0 /\ Waiting' = Waiting
        BY <3>1 DEF LoopLeft, Waiting
      <3>3. QED
        BY <1>3, <3>1, <3>2, Counts DEF StepsLeft
    <2>3. CASE Stop \/ StopReturns \/ Cancel \/ UNCHANGED vars
      <3>1. UNCHANGED work
        BY <2>3 DEF Stop, StopReturns, Cancel, vars, work
      <3>2. QED
        BY <3>1 DEF work, StepsLeft, Waiting
    <2>4. ~Tick /\ ~FinalFlush
      BY <1>3 DEF LeftSelect, Tick, FinalFlush
    <2>5. QED
      BY <1>3, <2>1, <2>2, <2>3, <2>4, BatchShrinks, WaiterShrinks, LoopShrinks DEF Next
  <1>4. Bounded /\ [Next]_vars => [LeftSelect => Less]_vars
    BY <1>3
  <1>5. QED
    BY <1>1, <1>2, <1>4, PTL DEF Spec, WorkShrinks

\* While Stop waits it is always for somebody who can go on.
THEOREM StopNeverStuck == Spec => []SomebodyWorks
  <1>1. IInv => SomebodyWorks
    <2> SUFFICES ASSUME IInv, LeftSelect, ~WaitGroupZero,
                        \A b \in batches : b.by = "caller",
                        \A r \in Retries : ~(waiters[r] > 0)
                 PROVE  \/ LoopIdle /\ \E i \in Items : Of(i, pending) # {}
                        \/ loop = "final" /\ LoopIdle /\ pending = {}
      BY DEF SomebodyWorks
    <2>1. LoopIdle
      BY DEF LoopIdle
    <2>2. \A r \in Retries : waiters[r] = 0
      BY DEF IInv, TypeOK
    <2>3. loop = "final"
      BY <2>2 DEF WaitGroupZero, LeftSelect
    <2>4. ASSUME NEW m \in pending PROVE m \in Of(Item[m], pending) /\ Item[m] \in Items
      BY DEF IInv, TypeOK, Of
    <2>5. QED
      BY <2>1, <2>3, <2>4
  <1>2. QED
    BY <1>1, Invariance, PTL
=============================================================================

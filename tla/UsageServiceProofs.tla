------------------------- MODULE UsageServiceProofs -------------------------
(***************************************************************************)
(* UsageService's safety properties for every set of events and workers    *)
(* and every queue capacity.                                               *)
(*                                                                         *)
(* The heart of the argument is DrainedOf: from the moment the first       *)
(* worker left its drain loop, the channel holds no early event, for it    *)
(* was empty then and what is submitted afterwards is late. The rest says  *)
(* how far main has come: when it passes pool.Stop every worker has left   *)
(* (Order), and a worker leaves with empty hands (EmptyHanded).            *)
(***************************************************************************)
EXTENDS UsageService, FiniteSetTheorems, TLAPS

USE ServiceConstants DEF ServiceConstants

\* A worker leaves select only after the signal, and leaves its loop with empty hands.
EmptyHanded ==
    \A w \in Workers : /\ worker[w] # "select" => Cancelled
                       /\ worker[w] = "exited" => job[w] = None

\* Early events were accepted, and there are none before the signal.
EarlyAccepted == early \subseteq Accepted /\ (main = "serving" => early = {})

\* Once a worker has left, no early event is in the channel.
DrainedOf == (\E w \in Workers : worker[w] = "exited") => queue \cap early = {}

\* pool.Stop waits for the workers, and the billing client is stopped after it.
Order ==
    /\ main \in {"poolStopped", "billingStop", "exited"} =>
           \A w \in Workers : worker[w] = "exited"
    /\ billing # "open" => main \in {"billingStop", "exited"}

\* TrackUsage has never refused an event.
NoneFailed == failed = {}

IInv == /\ TypeOK
        /\ IsFiniteSet(queue)
        /\ EachEventOnce
        /\ EmptyHanded
        /\ EarlyAccepted
        /\ DrainedOf
        /\ Order
        /\ NoneFailed
-----------------------------------------------------------------------------
(* Types. The capacity of the channel needs its content to be finite.      *)

\* The channel is empty, hence finite and below its capacity.
LEMMA TypeInit == Init => TypeOK /\ IsFiniteSet(queue)
  <1> SUFFICES ASSUME Init PROVE TypeOK /\ IsFiniteSet(queue)
    OBVIOUS
  <1>1. IsFiniteSet({}) /\ Cardinality({}) = 0
    BY FS_EmptySet
  <1>2. QED
    BY <1>1 DEF Init, TypeOK, Phases

\* Submit adds one event below the capacity, Take removes one.
LEMMA TypeStep ==
    TypeOK /\ IsFiniteSet(queue) /\ [Next]_vars => (TypeOK /\ IsFiniteSet(queue))'
  <1> SUFFICES ASSUME TypeOK, IsFiniteSet(queue), [Next]_vars
               PROVE  TypeOK' /\ IsFiniteSet(queue)'
    OBVIOUS
  <1> USE DEF TypeOK
  <1>0. Cardinality(queue) \in Nat
    BY FS_CardinalityType
  <1>1. ASSUME NEW e \in Events, Arrive(e) PROVE TypeOK' /\ IsFiniteSet(queue)'
    BY <1>1 DEF Arrive
  <1>2. ASSUME NEW e \in Events, Reject(e) PROVE TypeOK' /\ IsFiniteSet(queue)'
    BY <1>2 DEF Reject
  <1>3. ASSUME NEW e \in Events, Submit(e) PROVE TypeOK' /\ IsFiniteSet(queue)'
    <2>1. IsFiniteSet(queue \cup {e}) /\ Cardinality(queue \cup {e}) <= QueueSize
      <3>1. /\ IsFiniteSet(queue \cup {e})
            /\ Cardinality(queue \cup {e}) = IF e \in queue THEN Cardinality(queue)
                                             ELSE Cardinality(queue) + 1
        BY FS_AddElement
      <3>2. QED
        BY <1>0, <1>3, <3>1 DEF Submit
    <2>2. QED
      BY <1>3, <2>1 DEF Submit
  <1>4. ASSUME NEW e \in Events, Overloaded(e) PROVE TypeOK' /\ IsFiniteSet(queue)'
    BY <1>4 DEF Overloaded
  <1>5. ASSUME NEW w \in Workers, Take(w) PROVE TypeOK' /\ IsFiniteSet(queue)'
    <2>1. PICK e \in queue : job' = [job EXCEPT ![w] = e] /\ queue' = queue \ {e}
      BY <1>5 DEF Take
    <2>2. IsFiniteSet(queue \ {e}) /\ Cardinality(queue \ {e}) <= QueueSize
      <3>1. /\ IsFiniteSet(queue \ {e})
            /\ Cardinality(queue \ {e}) = IF e \in queue THEN Cardinality(queue) - 1
                                          ELSE Cardinality(queue)
        BY FS_RemoveElement
      <3>2. QED
        BY <1>0, <3>1
    <2>3. QED
      BY <1>5, <2>1, <2>2 DEF Take
  <1>6. ASSUME NEW w \in Workers, LeaveSelect(w) \/ Drained(w)
        PROVE  TypeOK' /\ IsFiniteSet(queue)'
    BY <1>6 DEF LeaveSelect, Drained
  <1>7. ASSUME NEW w \in Workers, Process(w) PROVE TypeOK' /\ IsFiniteSet(queue)'
    BY <1>7 DEF Process
  <1>8. CASE Shutdown
    BY <1>8 DEF Shutdown, Signal, CloseListener, HandlersGone, PoolStops, BillingStops,
                Exit, Goto, Phases, Accepted
  <1>9. CASE UNCHANGED vars
    BY <1>9 DEF vars
  <1>10. QED
    BY <1>1, <1>2, <1>3, <1>4, <1>5, <1>6, <1>7, <1>8, <1>9 DEF Next, WorkerStep

\* Every variable keeps its type, and the channel never exceeds its capacity.
THEOREM TypeCorrect == Spec => []TypeOK
  <1>1. QED
    BY TypeInit, TypeStep, PTL DEF Spec
-----------------------------------------------------------------------------
(* Where an event is.                                                      *)

\* Nothing is accepted, queued, held or counted at the start.
LEMMA OnceInit == Init => EachEventOnce
  BY DEF Init, EachEventOnce, Accepted, InJobs

\* What a worker's hands hold after it takes an event, and after it is done with it.
LEMMA HandsAfter ==
    ASSUME TypeOK, NEW w \in Workers, NEW j \in Events \cup {None},
           job' = [job EXCEPT ![w] = j],
           \A v, u \in Workers : v # u /\ job[v] # None => job[v] # job[u]
    PROVE  InJobs' = ((InJobs \ {job[w]}) \cup {j}) \ {None}
  <1>1. InJobs' = {job'[v] : v \in Workers} \ {None}
    BY DEF InJobs
  <1>2. \A v \in Workers : job'[v] = IF v = w THEN j ELSE job[v]
    BY DEF TypeOK
  <1>3. \A v \in Workers : v # w /\ job[v] # None => job[v] # job[w]
    OBVIOUS
  <1>4. QED
    BY <1>1, <1>2, <1>3 DEF InJobs

\* Every step moves an event from one place to the next: no two workers take the same one,
\* and one that is counted is not counted again.
LEMMA OnceStep == TypeOK /\ EachEventOnce /\ [Next]_vars => EachEventOnce'
  <1> SUFFICES ASSUME TypeOK, EachEventOnce, [Next]_vars PROVE EachEventOnce'
    OBVIOUS
  <1>1. ASSUME NEW e \in Events, Arrive(e) \/ Reject(e) \/ Overloaded(e) PROVE EachEventOnce'
    <2>1. Accepted' = Accepted
      BY <1>1 DEF Arrive, Reject, Overloaded, Accepted, TypeOK
    <2>2. UNCHANGED <<queue, job, processed, failed>>
      BY <1>1 DEF Arrive, Reject, Overloaded
    <2>3. QED
      BY <2>1, <2>2 DEF EachEventOnce, InJobs
  <1>2. ASSUME NEW e \in Events, Submit(e) PROVE EachEventOnce'
    <2>1. Accepted' = Accepted \cup {e} /\ e \notin Accepted
      BY <1>2 DEF Submit, Accepted, TypeOK
    <2>2. queue' = queue \cup {e} /\ UNCHANGED <<job, processed, failed>>
      BY <1>2 DEF Submit
    <2>3. QED
      BY <2>1, <2>2 DEF EachEventOnce, InJobs
  <1>3. ASSUME NEW w \in Workers, Take(w) PROVE EachEventOnce'
    <2>1. PICK e \in queue : job' = [job EXCEPT ![w] = e] /\ queue' = queue \ {e}
      BY <1>3 DEF Take
    <2>2. Accepted' = Accepted /\ UNCHANGED <<processed, failed>> /\ job[w] = None
      BY <1>3 DEF Take, Accepted
    <2>3. e \in Events /\ e # None /\ e \notin InJobs
      BY DEF TypeOK, EachEventOnce
    <2>4. InJobs' = InJobs \cup {e}
      <3>1. InJobs' = ((InJobs \ {job[w]}) \cup {e}) \ {None}
        BY <2>1, <2>3, HandsAfter DEF EachEventOnce
      <3>2. None \notin InJobs
        BY DEF InJobs
      <3>3. QED
        BY <2>2, <2>3, <3>1, <3>2
    <2>5. \A v, u \in Workers : v # u /\ job'[v] # None => job'[v] # job'[u]
      <3>1. \A v \in Workers : job[v] # e
        BY <2>3 DEF InJobs
      <3>2. QED
        BY <2>1, <3>1 DEF EachEventOnce, TypeOK
    <2>6. QED
      BY <2>1, <2>2, <2>3, <2>4, <2>5 DEF EachEventOnce
  <1>4. ASSUME NEW w \in Workers, LeaveSelect(w) \/ Drained(w) PROVE EachEventOnce'
    BY <1>4 DEF LeaveSelect, Drained, EachEventOnce, Accepted, InJobs
  <1>5. ASSUME NEW w \in Workers, Process(w) PROVE EachEventOnce'
    <2>1. job' = [job EXCEPT ![w] = None] /\ job[w] # None /\ UNCHANGED queue
      BY <1>5 DEF Process
    <2>2. Accepted' = Accepted
      BY <1>5 DEF Process, Accepted
    <2>3. InJobs' = InJobs \ {job[w]} /\ job[w] \in InJobs
      BY <2>1, HandsAfter DEF EachEventOnce, InJobs
    <2>4. \/ processed' = processed \cup {job[w]} /\ failed' = failed
          \/ failed' = failed \cup {job[w]} /\ processed' = processed
      BY <1>5 DEF Process
    <2>5. \A v, u \in Workers : v # u /\ job'[v] # None => job'[v] # job'[u]
      BY <2>1 DEF EachEventOnce, TypeOK
    <2>6. QED
      BY <2>1, <2>2, <2>3, <2>4, <2>5 DEF EachEventOnce
  <1>6. CASE Shutdown
    BY <1>6 DEF Shutdown, Signal, CloseListener, HandlersGone, PoolStops, BillingStops,
                Exit, EachEventOnce, Accepted, InJobs
  <1>7. CASE UNCHANGED vars
    BY <1>7 DEF vars, EachEventOnce, Accepted, InJobs
  <1>8. QED
    BY <1>1, <1>2, <1>3, <1>4, <1>5, <1>6, <1>7 DEF Next, WorkerStep
-----------------------------------------------------------------------------
(* The shutdown.                                                           *)

Progress == EmptyHanded /\ EarlyAccepted /\ DrainedOf /\ Order /\ NoneFailed

\* Before the signal nobody has left and nothing is early.
LEMMA ProgressInit == Init => Progress
  BY DEF Init, Progress, EmptyHanded, EarlyAccepted, DrainedOf, Order, NoneFailed

\* Only Drained lets a worker go, with the channel empty; only Signal makes events early,
\* and no worker has left by then; main passes pool.Stop when all workers have.
LEMMA ProgressStep == TypeOK /\ EachEventOnce /\ Progress /\ [Next]_vars => Progress'
  <1> SUFFICES ASSUME TypeOK, EachEventOnce, Progress, [Next]_vars PROVE Progress'
    OBVIOUS
  <1> USE DEF Progress, EmptyHanded, EarlyAccepted, DrainedOf, Order, NoneFailed, Cancelled
  <1>1. ASSUME NEW e \in Events, Arrive(e) \/ Reject(e) \/ Overloaded(e) PROVE Progress'
    <2>1. Accepted' = Accepted
      BY <1>1 DEF Arrive, Reject, Overloaded, Accepted, TypeOK
    <2>2. UNCHANGED <<queue, worker, job, failed, main, billing, early>>
      BY <1>1 DEF Arrive, Reject, Overloaded
    <2>3. QED
      BY <2>1, <2>2
  <1>2. ASSUME NEW e \in Events, Submit(e) PROVE Progress'
    <2>1. Accepted' = Accepted \cup {e} /\ e \notin Accepted
      BY <1>2 DEF Submit, Accepted, TypeOK
    <2>2. queue' \cap early' = queue \cap early
      BY <1>2, <2>1 DEF Submit
    <2>3. UNCHANGED <<worker, job, failed, main, billing, early>>
      BY <1>2 DEF Submit
    <2>4. QED
      BY <2>1, <2>2, <2>3
  <1>3. ASSUME NEW w \in Workers, Take(w) PROVE Progress'
    <2>1. worker[w] # "exited" /\ queue' \subseteq queue
      BY <1>3 DEF Take
    <2>2. \A v \in Workers : v # w => job'[v] = job[v]
      BY <1>3 DEF Take, TypeOK
    <2>3. UNCHANGED <<request, worker, failed, main, billing, early>>
      BY <1>3 DEF Take
    <2>4. Accepted' = Accepted
      BY <2>3 DEF Accepted
    <2>5. QED
      BY <2>1, <2>2, <2>3, <2>4
  <1>4. ASSUME NEW w \in Workers, LeaveSelect(w) PROVE Progress'
    <2>1. worker' = [worker EXCEPT ![w] = "draining"] /\ worker[w] = "select" /\ main # "serving"
      BY <1>4 DEF LeaveSelect
    <2>2. UNCHANGED <<request, queue, job, failed, main, billing, early>>
      BY <1>4 DEF LeaveSelect
    <2>3. Accepted' = Accepted
      BY <2>2 DEF Accepted
    <2>4. QED
      BY <2>1, <2>2, <2>3 DEF TypeOK
  <1>5. ASSUME NEW w \in Workers, Drained(w) PROVE Progress'
    <2>1. /\ worker' = [worker EXCEPT ![w] = "exited"] /\ worker[w] = "draining"
          /\ job[w] = None /\ queue = {}
      BY <1>5 DEF Drained
    <2>2. UNCHANGED <<request, queue, job, failed, main, billing, early>>
      BY <1>5 DEF Drained
    <2>3. Accepted' = Accepted
      BY <2>2 DEF Accepted
    <2>4. QED
      BY <2>1, <2>2, <2>3 DEF TypeOK
  <1>6. ASSUME NEW w \in Workers, Process(w) PROVE Progress'
    <2>1. job' = [job EXCEPT ![w] = None] /\ job[w] # None
      BY <1>6 DEF Process
    <2>2. UNCHANGED <<request, queue, worker, main, billing, early>>
      BY <1>6 DEF Process
    <2>3. billing # "closed"
      BY <2>1
    <2>4. UNCHANGED failed
      BY <1>6, <2>3 DEF Process
    <2>5. Accepted' = Accepted
      BY <2>2 DEF Accepted
    <2>6. QED
      BY <2>1, <2>2, <2>4, <2>5 DEF TypeOK
  <1>7. CASE Signal
    <2>1. main = "serving" /\ main' = "cancelled" /\ early' = Accepted
      BY <1>7 DEF Signal, Goto
    <2>2. UNCHANGED <<request, queue, worker, job, failed, billing>>
      BY <1>7 DEF Signal
    <2>3. Accepted' = Accepted
      BY <2>2 DEF Accepted
    <2>4. \A w \in Workers : worker[w] = "select"
      BY <2>1
    <2>5. QED
      BY <2>1, <2>2, <2>3, <2>4
  <1>8. CASE CloseListener \/ HandlersGone \/ PoolStops \/ BillingStops \/ Exit
    <2>1. UNCHANGED <<request, queue, worker, job, failed, early>> /\ main # "serving"
                    /\ main' # "serving"
      BY <1>8 DEF CloseListener, HandlersGone, PoolStops, BillingStops, Exit, Goto
    <2>2. Accepted' = Accepted
      BY <2>1 DEF Accepted
    <2>3. Order'
      BY <1>8 DEF CloseListener, HandlersGone, PoolStops, BillingStops, Exit, Goto
    <2>4. QED
      BY <2>1, <2>2, <2>3
  <1>9. CASE UNCHANGED vars
    BY <1>9 DEF vars, Accepted
  <1>10. QED
    BY <1>1, <1>2, <1>3, <1>4, <1>5, <1>6, <1>7, <1>8, <1>9 DEF Next, WorkerStep, Shutdown
-----------------------------------------------------------------------------
\* The inductive invariant holds in every reachable state.
THEOREM Invariance == Spec => []IInv
  <1>1. Init => IInv
    BY TypeInit, OnceInit, ProgressInit DEF IInv, Progress
  <1>2. IInv /\ [Next]_vars => IInv'
    BY TypeStep, OnceStep, ProgressStep DEF IInv, Progress
  <1>3. QED
    BY <1>1, <1>2, PTL DEF Spec

\* Each accepted event is in exactly one place, and no two workers process the same one.
THEOREM ProcessedOnce == Spec => []EachEventOnce
  <1>1. IInv => EachEventOnce
    BY DEF IInv
  <1>2. QED
    BY <1>1, Invariance, PTL

\* What was accepted before the signal has been processed when pool.Stop returns.
THEOREM EarlyProcessed == Spec => []EarlyEventsProcessed
  <1>1. IInv => EarlyEventsProcessed
    <2> SUFFICES ASSUME IInv, main \in {"poolStopped", "billingStop", "exited"}
                 PROVE  early \subseteq processed
      BY DEF EarlyEventsProcessed
    <2>1. \A w \in Workers : worker[w] = "exited" /\ job[w] = None
      BY DEF IInv, Order, EmptyHanded
    <2>2. InJobs = {} /\ queue \cap early = {} /\ failed = {}
      BY <2>1 DEF IInv, DrainedOf, InJobs, NoneFailed
    <2>3. QED
      BY <2>2 DEF IInv, EachEventOnce, EarlyAccepted
  <1>2. QED
    BY <1>1, Invariance, PTL

\* No worker runs once the batch manager is being stopped, and no event is refused by it.
THEOREM WorkersGoneFirst == Spec => []BillingOutlivesWorkers
  <1>1. IInv => BillingOutlivesWorkers
    BY DEF IInv, Order, EmptyHanded, NoneFailed, BillingOutlivesWorkers
  <1>2. QED
    BY <1>1, Invariance, PTL
-----------------------------------------------------------------------------
(* Why the shutdown completes. ShutdownCompletes needs fairness; what it   *)
(* rests on does not. Once the listener is closed, every step of anybody   *)
(* uses up one of finitely many: a handler submits once, an event is taken *)
(* once and processed once, a worker leaves once. A worker that has not    *)
(* left always has a step: it processes its event, takes another, finds    *)
(* its context done, or the channel empty.                                 *)

Handling == {e \in Events : request[e] = "handling"}
Busy     == {w \in Workers : job[w] # None}
Serving  == {w \in Workers : worker[w] = "select"}
Inside   == {w \in Workers : worker[w] # "exited"}

ListenerClosed == main \notin {"serving", "cancelled"}

\* The steps main has ahead of it.
MainLeft == [serving |-> 6, cancelled |-> 5, closing |-> 4, httpDown |-> 3, poolStopped |-> 2,
             billingStop |-> 1, exited |-> 0]

\* The steps left: a request in a handler may still become an event in the channel, which
\* may become one in a worker's hands.
StepsLeft ==
    3 * Cardinality(Handling) + 2 * Cardinality(queue) + Cardinality(Busy)
    + Cardinality(Serving) + Cardinality(Inside) + MainLeft[main]

\* Whatever is done once the listener is closed, there is less left to do.
ShutdownShrinks == [][ListenerClosed => StepsLeft' < StepsLeft]_vars

\* Only finitely many requests have come.
Finitely == TypeOK /\ IsFiniteSet(queue) /\ IsFiniteSet(Handling)

\* A request arrives by itself.
LEMMA FinitelyStep == Finitely /\ [Next]_vars => Finitely'
  <1> SUFFICES ASSUME Finitely, [Next]_vars PROVE Finitely'
    OBVIOUS
  <1>t. TypeOK /\ IsFiniteSet(queue) /\ IsFiniteSet(Handling)
    BY DEF Finitely
  <1>1. TypeOK' /\ IsFiniteSet(queue)'
    BY <1>t, TypeStep
  <1>2. ASSUME NEW e \in Events, Handling' \subseteq Handling \cup {e} PROVE IsFiniteSet(Handling)'
    <2>1. IsFiniteSet(Handling \cup {e})
      BY <1>t, FS_AddElement
    <2>2. QED
      BY <1>2, <2>1, FS_Subset
  <1>3. ASSUME NEW e \in Events, Arrive(e) \/ Reject(e) \/ Submit(e) \/ Overloaded(e)
        PROVE  IsFiniteSet(Handling)'
    <2>1. Handling' \subseteq Handling \cup {e}
      BY <1>t, <1>3 DEF Arrive, Reject, Submit, Overloaded, Handling, TypeOK
    <2>2. QED
      BY <1>2, <2>1
  <1>4. ASSUME NEW w \in Workers, WorkerStep(w) PROVE IsFiniteSet(Handling)'
    BY <1>t, <1>4 DEF WorkerStep, Take, Process, LeaveSelect, Drained, Handling
  <1>5. ASSUME Shutdown \/ UNCHANGED vars PROVE IsFiniteSet(Handling)'
    BY <1>t, <1>5 DEF Shutdown, Signal, CloseListener, HandlersGone, PoolStops, BillingStops,
                      Exit, Handling, vars
  <1>6. IsFiniteSet(Handling)'
    BY <1>3, <1>4, <1>5 DEF Next
  <1>7. QED
    BY <1>1, <1>6 DEF Finitely

\* The numbers the variant adds up.
LEMMA Counts ==
    ASSUME Finitely
    PROVE  /\ IsFiniteSet(Busy) /\ IsFiniteSet(Serving) /\ IsFiniteSet(Inside)
           /\ Cardinality(Handling) \in Nat /\ Cardinality(queue) \in Nat
           /\ Cardinality(Busy) \in Nat /\ Cardinality(Serving) \in Nat
           /\ Cardinality(Inside) \in Nat /\ MainLeft[main] \in Nat
  <1>1. IsFiniteSet(Busy) /\ IsFiniteSet(Serving) /\ IsFiniteSet(Inside)
    BY FS_Subset DEF Busy, Serving, Inside
  <1>2. MainLeft[main] \in Nat
    BY DEF Finitely, TypeOK, Phases, MainLeft
  <1>3. QED
    BY <1>1, <1>2, FS_CardinalityType DEF Finitely

\* A handler returns: what it leaves in the channel is less than it was itself.
LEMMA HandlerShrinks ==
    ASSUME Finitely, NEW e \in Events, Reject(e) \/ Submit(e) \/ Overloaded(e)
    PROVE  StepsLeft' < StepsLeft
  <1> DEFINE C == Cardinality(queue)
  <1>1. e \in Handling /\ Handling' = Handling \ {e}
    BY DEF Finitely, TypeOK, Reject, Submit, Overloaded, Handling
  <1>2. Cardinality(Handling') = Cardinality(Handling) - 1
    BY <1>1, FS_RemoveElement DEF Finitely
  <1>3. C \in Nat /\ (Cardinality(queue') = C \/ Cardinality(queue') = C + 1)
    <2>1. queue' = queue \/ queue' = queue \cup {e}
      BY DEF Reject, Submit, Overloaded
    <2>2. Cardinality(queue \cup {e}) = IF e \in queue THEN C ELSE C + 1
      BY FS_AddElement DEF Finitely
    <2>3. QED
      BY <2>1, <2>2, Counts
  <1>4. Busy' = Busy /\ Serving' = Serving /\ Inside' = Inside /\ main' = main
    BY DEF Reject, Submit, Overloaded, Busy, Serving, Inside
  <1>5. QED
    BY <1>2, <1>3, <1>4, Counts DEF StepsLeft

\* A worker takes an event, is done with one, or leaves.
LEMMA WorkerShrinks ==
    ASSUME Finitely, NEW w \in Workers, WorkerStep(w)
    PROVE  StepsLeft' < StepsLeft
  <1>t. TypeOK
    BY DEF Finitely
  <1>1. Handling' = Handling /\ main' = main
    BY DEF WorkerStep, Take, Process, LeaveSelect, Drained, Handling
  <1>2. CASE Take(w)
    <2>1. PICK e \in queue : job' = [job EXCEPT ![w] = e] /\ queue' = queue \ {e}
      BY <1>2 DEF Take
    <2>2. Cardinality(queue') = Cardinality(queue) - 1
      BY <2>1, FS_RemoveElement DEF Finitely
    <2>3. w \notin Busy /\ Busy' = Busy \cup {w}
      BY <1>2, <1>t, <2>1 DEF Take, Busy, TypeOK
    <2>4. Cardinality(Busy') = Cardinality(Busy) + 1
      BY <2>3, Counts, FS_AddElement
    <2>5. Serving' = Serving /\ Inside' = Inside
      BY <1>2 DEF Take, Serving, Inside
    <2>6. QED
      BY <1>1, <2>2, <2>4, <2>5, Counts DEF StepsLeft
  <1>3. CASE Process(w)
    <2>1. w \in Busy /\ Busy' = Busy \ {w}
      BY <1>3, <1>t DEF Process, Busy, TypeOK
    <2>2. Cardinality(Busy') = Cardinality(Busy) - 1
      BY <2>1, Counts, FS_RemoveElement
    <2>3. Serving' = Serving /\ Inside' = Inside /\ queue' = queue
      BY <1>3 DEF Process, Serving, Inside
    <2>4. QED
      BY <1>1, <2>2, <2>3, Counts DEF StepsLeft
  <1>4. CASE LeaveSelect(w)
    <2>1. w \in Serving /\ Serving' = Serving \ {w} /\ Inside' = Inside
      BY <1>4, <1>t DEF LeaveSelect, Serving, Inside, TypeOK
    <2>2. Cardinality(Serving') = Cardinality(Serving) - 1
      BY <2>1, Counts, FS_RemoveElement
    <2>3. Busy' = Busy /\ queue' = queue
      BY <1>4 DEF LeaveSelect, Busy
    <2>4. QED
      BY <1>1, <2>1, <2>2, <2>3, Counts DEF StepsLeft
  <1>5. CASE Drained(w)
    <2>1. w \in Inside /\ Inside' = Inside \ {w} /\ Serving' = Serving
      BY <1>5, <1>t DEF Drained, Serving, Inside, TypeOK
    <2>2. Cardinality(Inside') = Cardinality(Inside) - 1
      BY <2>1, Counts, FS_RemoveElement
    <2>3. Busy' = Busy /\ queue' = queue
      BY <1>5 DEF Drained, Busy
    <2>4. QED
      BY <1>1, <2>1, <2>2, <2>3, Counts DEF StepsLeft
  <1>6. QED
    BY <1>2, <1>3, <1>4, <1>5 DEF WorkerStep

\* main goes on.
LEMMA MainShrinks == ASSUME Finitely, Shutdown PROVE StepsLeft' < StepsLeft
  <1>1. MainLeft[main'] = MainLeft[main] - 1
    BY DEF Shutdown, Signal, CloseListener, HandlersGone, PoolStops, BillingStops, Exit, Goto,
           MainLeft
  <1>2. /\ Handling' = Handling /\ queue' = queue /\ Busy' = Busy
        /\ Serving' = Serving /\ Inside' = Inside
    BY DEF Shutdown, Signal, CloseListener, HandlersGone, PoolStops, BillingStops, Exit,
           Handling, Busy, Serving, Inside
  <1>3. QED
    BY <1>1, <1>2, Counts DEF StepsLeft

\* Once the listener is closed the service takes at most StepsLeft more steps, all its
\* goroutines together, for any number of requests that have come (main.go:134-160,
\* pool.go:60-86): what keeps the drain loops from going on for ever is that a handler
\* submits once and no request follows.
THEOREM ShutdownTakesBoundedSteps == Spec => [](StepsLeft \in Nat) /\ ShutdownShrinks
  <1>1. Init => Finitely
    <2> SUFFICES ASSUME Init PROVE Finitely
      OBVIOUS
    <2>1. Handling = {}
      BY DEF Init, Handling
    <2>2. QED
      BY <2>1, TypeInit, FS_EmptySet DEF Finitely
  <1>2. Spec => []Finitely
    BY <1>1, FinitelyStep, PTL DEF Spec
  <1>3. Finitely => StepsLeft \in Nat
    BY Counts DEF StepsLeft
  <1>4. Finitely /\ [Next]_vars => [ListenerClosed => StepsLeft' < StepsLeft]_vars
    <2> SUFFICES ASSUME Finitely, Next, ListenerClosed PROVE StepsLeft' < StepsLeft
      OBVIOUS
    <2>1. \A e \in Events : ~Arrive(e)
      BY DEF ListenerClosed, Arrive
    <2>2. QED
      BY <2>1, HandlerShrinks, WorkerShrinks, MainShrinks DEF Next
  <1>5. QED
    BY <1>2, <1>3, <1>4, PTL DEF Spec, ShutdownShrinks
=============================================================================

---------------------------- MODULE UsageLedger ----------------------------
(***************************************************************************)
(* What the batching layer promises for every usage metric, without saying *)
(* how: while the manager's context lives a metric handed over is held,    *)
(* afterwards it is refused, and a held metric is settled at most once,    *)
(* either delivered to Stripe or dropped into the dead-letter log.         *)
(* batch.Manager (module BatchManager) is shown to implement this.         *)
(***************************************************************************)
CONSTANT Metrics

VARIABLES stage,   \* what became of each metric
          open     \* FALSE once the manager's context is done

vars == <<stage, open>>

Stages == {"new", "held", "delivered", "dropped", "refused"}

Init == /\ stage = [m \in Metrics |-> "new"]
        /\ open = TRUE

\* The metrics of S, all in stage `from`, move to stage `to` together.
Move(S, from, to) ==
    /\ S # {}
    /\ \A m \in S : stage[m] = from
    /\ stage' = [m \in Metrics |-> IF m \in S THEN to ELSE stage[m]]
    /\ UNCHANGED open

Accept(m)  == open /\ Move({m}, "new", "held")
Refuse(m)  == ~open /\ Move({m}, "new", "refused")
Deliver(S) == Move(S, "held", "delivered")
Drop(S)    == Move(S, "held", "dropped")
Close      == open /\ open' = FALSE /\ UNCHANGED stage

Next == \/ \E m \in Metrics : Accept(m) \/ Refuse(m)
        \/ \E S \in SUBSET Metrics : Deliver(S) \/ Drop(S)
        \/ Close

Spec == Init /\ [][Next]_vars
=============================================================================

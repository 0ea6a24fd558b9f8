---------------------------- MODULE QueryDelivery ----------------------------
(***************************************************************************)
(* What the caller of ExecutionEngine::Execute sees of one query: result   *)
(* batches arrive at its consumer, each at most once and those of one      *)
(* segment in storage order; the call then returns, having delivered       *)
(* everything, or throws.                                                  *)
(***************************************************************************)
EXTENDS Integers

CONSTANT BatchesIn   \* BatchesIn[s]: result batches of the s-th segment

VARIABLES
    delivered,  \* batches the consumer has been given
    outcome     \* "running", "returned" or "threw"

Batches == UNION {{<<s, i>> : i \in 1..BatchesIn[s]} : s \in DOMAIN BatchesIn}

Init == delivered = {} /\ outcome = "running"

Deliver(b) ==
    /\ outcome = "running"
    /\ b \notin delivered
    /\ \A i \in 1..b[2] - 1 : <<b[1], i>> \in delivered
    /\ delivered' = delivered \cup {b}
    /\ UNCHANGED outcome

Return ==
    /\ outcome = "running"
    /\ delivered = Batches
    /\ outcome' = "returned"
    /\ UNCHANGED delivered

Throw ==
    /\ outcome = "running"
    /\ outcome' = "threw"
    /\ UNCHANGED delivered

Next == (\E b \in Batches : Deliver(b)) \/ Return \/ Throw

Spec == Init /\ [][Next]_<<delivered, outcome>>
=============================================================================

-------------------------- MODULE MCPaymentPlans --------------------------
(***************************************************************************)
(* PaymentPlans for TLC, with a history variable that tells whether         *)
(* requests have overlapped: two in flight at once, or a webhook that       *)
(* settled while one was.                                                   *)
(***************************************************************************)
EXTENDS PaymentPlans, TLC

VARIABLE overlapped

Symmetry == Permutations(Plans) \cup Permutations(Requests)

MCTotal == [i \in Invoices |-> IF i = 1 THEN 1 ELSE 2]

InFlight == {r \in Requests : req[r] # Idle}

MCInit == Init /\ overlapped = FALSE

MCNext ==
    /\ Next
    /\ overlapped' = \/ overlapped
                     \/ \E q, r \in InFlight' : q # r
                     \/ req' = req /\ InFlight # {}

MCSpec == MCInit /\ [][MCNext]_<<vars, overlapped>>

\* "Overpay rejected", "at most ONE ACTIVE plan per unit", "only ACTIVE plans
\* accept payments": requests that come one after the other, with any retries,
\* aborts and restarts between them, keep every promise of a plan, and what is
\* finished stays as it is.
ExactWhenAlone ==
    [][overlapped' \/
          /\ PlanIsExact' /\ SingleActivePlan' /\ NoOverpayment'
          /\ FinishedIsClosed]_<<vars, overlapped>>
=============================================================================

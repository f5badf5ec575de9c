----------------------------- MODULE MCJobRuns -----------------------------
(***************************************************************************)
(* JobRuns for TLC: the monthly crons, with a history variable that tells   *)
(* whether a firing has taken over the row of the replica it lost the       *)
(* create race to.                                                          *)
(***************************************************************************)
EXTENDS JobRuns, TLC

CONSTANTS recurring, invoices

VARIABLE tookOver

\* recurringGen at 05:00, invoiceRun at 06:00.
MonthlyDuties == {<<recurring>>, <<recurring, invoices>>}
MonthlyInput == recurring :> NoJob @@ invoices :> recurring

MCInit == Init /\ tookOver = FALSE
MCNext ==
    /\ Next
    /\ tookOver' = (tookOver \/ \E w \in Workers : worker'[w].step = "take")
MCSpec == MCInit /\ [][MCNext]_<<vars, tookOver>> /\ Fairness

\* "The existing unique JobRun key remains the idempotency guard": as long as
\* no run outlasts the stale limit and no failed winner of the create race is
\* taken over, replicas, retries and crashes never make two firings execute an
\* occurrence at once, and a recorded SUCCESS is never taken back or rerun.
ExclusiveUnlessSlow ==
    [][slow' > 0 \/ tookOver' \/ (OneRunAtATime' /\ SuccessIsKept)]_<<vars, tookOver>>
=============================================================================

----------------------------- MODULE MCBilling -----------------------------
(***************************************************************************)
(* Billing for TLC, with history variables: the periods that got an expense *)
(* after a run had read theirs, and whether two generate calls overlapped.  *)
(***************************************************************************)
EXTENDS Billing, TLC

CONSTANTS heating

VARIABLES late, overlapped

\* Millimes, and the floors of an elevator whose ground floor is exempt.
Millimes == <<500, 300, 200>>
Floor == <<0, 1, 2>>
MCStrategies == {Millimes, Floor}
MCCharge == heating :> [total |-> 3, weights |-> Millimes]

Symmetry == Permutations(Requests)

Generating == {q \in Requests : req[q].step = "generating"}

Read(p) ==
    \/ \E u \in Units : Committed(p, u)
    \/ \E q \in Requests :
          req[q].step \in {"preflight", "issuing"} /\ req[q].period = p

MCInit == Init /\ late = {} /\ overlapped = FALSE
MCNext ==
    /\ Next
    /\ late' = late \cup
         {p \in Periods : Read(p) /\ \E e \in expenses' \ expenses : e.period = p}
    /\ overlapped' = (overlapped \/ Cardinality(Generating') > 1)
MCSpec == MCInit /\ [][MCNext]_<<vars, late, overlapped>>

\* What the units are billed for a period is what its expenses came to.
EveryCentIsBilled(p) ==
    SumFunction([u \in Units |-> invoice[p][u].total]) =
    SumFunction([e \in Of(p) |-> e.total])

\* The invoices of a period bill all its expenses, unit by unit and to the last
\* cent of them, unless one was added once a run had read them: the issued
\* period refuses it ever after.
BilledInFullUnlessLate ==
    \A p \in Periods \ late :
        (\E u \in Units : Committed(p, u)) =>
            /\ \A u \in Units : invoice[p][u].total = Owed(Of(p))[u]
            /\ EveryCentIsBilled(p)

\* As long as no two generate calls overlap, a template is billed at most once
\* per period, in whatever order periods are generated and templates edited.
OnceUnlessOverlapped == overlapped \/ OncePerPeriod
=============================================================================

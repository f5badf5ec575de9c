---------------------------- MODULE MCJobAwards ----------------------------
(***************************************************************************)
(* JobAwards for TLC, with history variables: the bid as it was accepted,   *)
(* whether a request that had seen the job OPEN was about to write to that  *)
(* bid when the award committed, the providers two of whose submissions     *)
(* have been past their queues at once, and whether two requests were       *)
(* settling the commission at once.                                         *)
(*                                                                          *)
(* Constants and variables have names of their own, so that a module can    *)
(* extend this one beside the modules of other components.                  *)
(***************************************************************************)
EXTENDS Naturals, FiniteSets, TLC

CONSTANTS
    Callers,     \* the requests of JobAwards
    Providers, Replicas,
    Offers,      \* the amounts of JobAwards
    NoBid, MaxCrashes

VARIABLES
    job, bid,
    call,        \* req of JobAwards
    worklog, due, commission, crashes,
    award, rewritten, rivals, contested

J == INSTANCE JobAwards
     WITH Requests <- Callers, Amounts <- Offers, req <- call

ASSUME JobConstants == J!Assumptions

jobVars == <<J!vars, award, rewritten, rivals, contested>>

JobSymmetry ==
    Permutations(Callers) \cup Permutations(Providers)
        \cup Permutations(Replicas)

Awarding == job = "OPEN" /\ job' = "AWARDED"
CallsAt(step) == {q \in Callers : call[q].step = step}

Rewriting(b) ==
    \E q \in Callers :
        \/ call[q].step \in {"queued", "bidding"} /\ call[q].by = bid[b].provider
        \/ call[q].step = "rejecting" /\ call[q].target = b

JobsInit ==
    /\ J!Init
    /\ award = J!None /\ rewritten = FALSE /\ rivals = {} /\ contested = FALSE

JobsNext ==
    /\ J!Next
    /\ IF Awarding
       THEN \E q \in Callers :
              LET won == call[q].target IN
              /\ call[q].step = "accepting" /\ call'[q].step = "done"
              /\ award' = [bid[won] EXCEPT !.status = "ACCEPTED"]
              /\ rewritten' = Rewriting(won)
       ELSE UNCHANGED <<award, rewritten>>
    /\ rivals' = rivals \cup
         {call'[q].by : q \in {q \in CallsAt("bidding")' :
             \E o \in CallsAt("bidding")' \ {q} : call'[o].by = call'[q].by}}
    /\ contested' = (contested \/ Cardinality(CallsAt("settling")') > 1)

JobsSpec == JobsInit /\ [][JobsNext]_jobVars

\* Rows and requests have the shape the schema and the code give them, there is
\* one commission, and a bid that is being decided on is there (TypeOK).
JobTypesOK == J!TypeOK

\* "Two concurrent award requests cannot both leave an ACCEPTED bid behind"
\* (acceptBid); and the award stands: unless a request that saw the job OPEN
\* was still to write to the winning bid, that bid stays ACCEPTED, at the
\* amount it was accepted at. A provider has one bid, unless two replicas were
\* past its queue at once; nobody but the winner logs work.
AwardStands ==
    /\ Cardinality(J!Accepted) <= 1
    /\ job # "OPEN" /\ ~ rewritten => {bid[b] : b \in J!Accepted} = {award}
    /\ \A p \in Providers \ rivals : J!OneBid(p)
    /\ worklog \subseteq {award.provider}

\* Whatever the bid becomes while and after it is accepted, the commission is
\* charged to the provider who won, on the amount that was accepted.
CommissionIsOnAward ==
    \A c \in commission :
        award # J!None /\ c.provider = award.provider /\ c.base = award.amount

Rank(status) ==
    CASE status = "OPEN" -> 0 [] status = "AWARDED" -> 1
      [] status = "IN_PROGRESS" -> 2 [] status = "COMPLETED" -> 3

\* What is over stays over. The job goes forward only; the one way back is a
\* work log that saw it AWARDED and writes IN_PROGRESS over a completion
\* (addWorkLog, completeJob). "DUE -> PAID", "DUE -> WAIVED": a commission is
\* settled one way, and has a date of payment exactly when it is paid, unless
\* two requests that both saw it DUE settle it at once (markPaid, waive).
OnlyForward ==
    [][ /\ \/ Rank(job') >= Rank(job)
           \/ \E q \in Callers :
                 /\ call[q].step = "logged" /\ call[q].saw = "AWARDED"
                 /\ call'[q].step = "done"
        /\ \/ contested'
           \/ /\ \A c \in commission : c.status # "DUE" => c \in commission'
              /\ \A c \in commission' : c.paidAt <=> c.status = "PAID"
      ]_jobVars
=============================================================================

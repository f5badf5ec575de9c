----------------------------- MODULE MCWebhooks -----------------------------
(***************************************************************************)
(* An instance of Webhooks for TLC, with what happened remembered. Constants *)
(* and variables have names of their own, so that a module can extend this   *)
(* one beside the modules of other components.                               *)
(***************************************************************************)
EXTENDS Naturals, FiniteSets

CONSTANTS Endpoints, Events, Workers, MaxAttempts, MaxFaults,
          NoHook       \* None of Webhooks

VARIABLES
    endpoint, fired, delivery,
    turn,        \* worker of Webhooks
    faults,
    doubled,     \* deliveries that two workers have had before them at once
    owed,        \* one of each event to each endpoint there when it was fired
    cut          \* events whose dispatch an error has cut short

W == INSTANCE Webhooks WITH None <- NoHook, worker <- turn

ASSUME HookConstants == W!Assumptions

hookVars == <<W!vars, doubled, owed, cut>>

Has(w) == turn[w].todo \cup {turn[w].cur}

HooksNoted ==
    /\ doubled' = doubled \cup
         {d \in W!Deliveries : Cardinality({w \in Workers : d \in Has(w)'}) > 1}
    /\ owed' = owed \cup (fired' \ fired) \X W!Active
    /\ cut' = cut \cup
         {e \in Events : \E w \in Workers :
            turn[w].op = e /\ turn[w].todo # {} /\ turn'[w] = W!Idle}

HooksInit == W!Init /\ doubled = {} /\ owed = {} /\ cut = {}
HooksSpec ==
    HooksInit /\ [][W!Next /\ HooksNoted]_hookVars /\ W!Fairness
-----------------------------------------------------------------------------
\* Rows and workers have the shape the schema and the code give them; a worker
\* that is posting has a delivery to write to, and no row is counted past what
\* that many workers can add to the last attempt (TypeOK).
HookTypesOK == W!TypeOK

\* A delivery that one worker at a time has before it is not posted again once
\* it has succeeded or has failed as often as it may, and it is FAILED after
\* that many attempts and no others (attempt, retryLoop).
AttemptsCounted ==
    [][\A d \in W!Deliveries \ doubled' :
         LET old == delivery[d]
             new == delivery'[d] IN
         /\ new.status = "FAILED" <=>
               new.attempts = MaxAttempts /\ new.status # "SUCCESS"
         /\ new.attempts <= MaxAttempts
         /\ old.status = "SUCCESS" =>
               /\ new \in {old, W!NoRow}
               /\ \A w \in Workers : turn[w].cur # d
      ]_hookVars

\* Whatever fails or stops, every endpoint that is there when an event is fired
\* has it delivered, or as many attempts as there may be, unless an error cut
\* the dispatch short before its turn or it is removed (dispatch, retryLoop).
EveryDeliveryEnds ==
    \A d \in W!Deliveries :
        d \in owed ~> \/ delivery[d].status = "SUCCESS"
                      \/ delivery[d].attempts >= MaxAttempts
                      \/ endpoint[d[2]] = "REMOVED"
                      \/ d[1] \in cut /\ ~ W!Present(d)
=============================================================================

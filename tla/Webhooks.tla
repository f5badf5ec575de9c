------------------------------ MODULE Webhooks ------------------------------
(***************************************************************************)
(* Outgoing webhooks (apps/api/src/webhooks): an event is posted to every    *)
(* active endpoint subscribed to it, one endpoint after the other, and what  *)
(* fails is posted again by a job that runs every five minutes, in every     *)
(* replica. Nothing claims a delivery, and a post has no time limit, so a    *)
(* delivery may be attempted by several workers at once.                     *)
(*                                                                          *)
(* Time is the flag due of a delivery: nextRetryAt has passed. A worker is   *)
(* one call of dispatch or of retryLoop.                                     *)
(***************************************************************************)
EXTENDS Naturals, FiniteSets

CONSTANTS
    Endpoints,   \* subscribed ones, of now or later
    Events,
    Workers,
    MaxAttempts, \* MAX_ATTEMPTS
    MaxFaults,   \* bound on crashes and lost connections
    None

Deliveries == Events \X Endpoints

\* What is assumed of them, where they are given.
Assumptions ==
    /\ MaxAttempts \in Nat \ {0} /\ MaxFaults \in Nat
    /\ IsFiniteSet(Workers)
    /\ None \notin Events \cup Deliveries
    /\ "retry" \notin Events

VARIABLES
    endpoint,    \* WebhookEndpoint rows
    fired,       \* events dispatched so far
    delivery,    \* WebhookDelivery rows
    worker,      \* calls, between two awaits
    faults

vars == <<endpoint, fired, delivery, worker, faults>>
rows == <<endpoint, fired, delivery>>

NoRow == [status |-> "NONE", attempts |-> 0, due |-> FALSE]
Idle == [step |-> "idle", op |-> None, todo |-> {}, cur |-> None, next |-> 0]

Init ==
    /\ endpoint = [p \in Endpoints |-> "NONE"]
    /\ fired = {}
    /\ delivery = [d \in Deliveries |-> NoRow]
    /\ worker = [w \in Workers |-> Idle]
    /\ faults = 0

Active == {p \in Endpoints : endpoint[p] = "ACTIVE"}

Present(d) == delivery[d].status # "NONE"

Goto(w, step) == worker' = [worker EXCEPT ![w].step = step]

\* An error nobody catches. The job's framework logs it, and the loop is over;
\* dispatch is not awaited, and the rejection stops the process, whichever of
\* the other workers run in it.
Throws(w) ==
    IF worker[w].op = "retry"
    THEN worker' = [worker EXCEPT ![w] = Idle]
    ELSE \E S \in SUBSET Workers :
            /\ w \in S
            /\ worker' = [v \in Workers |-> IF v \in S THEN Idle ELSE worker[v]]
-----------------------------------------------------------------------------
(***************************************************************************)
(* dispatch                                                                 *)
(***************************************************************************)
DispatchReads(w, e) ==
    /\ worker[w] = Idle
    /\ e \notin fired
    /\ fired' = fired \cup {e}
    /\ worker' = [worker EXCEPT ![w] =
         [Idle EXCEPT !.step = "next", !.op = e, !.todo = {e} \X Active]]
    /\ UNCHANGED <<endpoint, delivery, faults>>

\* The row of the next endpoint; none can be created for one that is gone.
DispatchCreates(w, d) ==
    /\ worker[w].step = "next" /\ worker[w].op \in Events
    /\ d \in worker[w].todo
    /\ IF d[2] \in Active
       THEN /\ delivery' = [delivery EXCEPT ![d] = [NoRow EXCEPT !.status = "PENDING"]]
            /\ worker' = [worker EXCEPT ![w] =
                 [worker[w] EXCEPT !.step = "post", !.todo = worker[w].todo \ {d},
                                   !.cur = d]]
       ELSE Throws(w) /\ UNCHANGED delivery
    /\ UNCHANGED <<endpoint, fired, faults>>
-----------------------------------------------------------------------------
(***************************************************************************)
(* retryLoop                                                                *)
(***************************************************************************)
\* Mutant: rows that have used their attempts up are due, too.
DueRowsForever ==
    {d \in Deliveries : /\ delivery[d].status \in {"PENDING", "FAILED"}
                        /\ delivery[d].due}

\* Mutant: the last attempt is never made.
DueRowsShort ==
    {d \in Deliveries : /\ delivery[d].status \in {"PENDING", "FAILED"}
                        /\ delivery[d].attempts < MaxAttempts - 1
                        /\ delivery[d].due}

DueRows ==
    {d \in Deliveries : /\ delivery[d].status \in {"PENDING", "FAILED"}
                        /\ delivery[d].attempts < MaxAttempts
                        /\ delivery[d].due}

RetryReads(w) ==
    /\ worker[w] = Idle
    /\ DueRows # {}
    /\ worker' = [worker EXCEPT ![w] =
         [Idle EXCEPT !.step = "next", !.op = "retry", !.todo = DueRows]]
    /\ UNCHANGED <<rows, faults>>

\* The row is not read again, only its endpoint.
RetryNext(w, d) ==
    /\ worker[w].step = "next" /\ worker[w].op = "retry"
    /\ d \in worker[w].todo
    /\ worker' = [worker EXCEPT ![w] =
         IF d[2] \in Active
         THEN [worker[w] EXCEPT !.step = "post", !.todo = worker[w].todo \ {d},
                                !.cur = d]
         ELSE [worker[w] EXCEPT !.todo = worker[w].todo \ {d}]]
    /\ UNCHANGED <<rows, faults>>
-----------------------------------------------------------------------------
(***************************************************************************)
(* attempt                                                                  *)
(***************************************************************************)
\* The endpoint answers, with a success or not, or cannot be reached.
Posts(w) ==
    /\ worker[w].step = "post"
    /\ \E answer \in {"ok", "failed"} : Goto(w, answer)
    /\ UNCHANGED <<rows, faults>>

After(w) == [worker[w] EXCEPT !.step = "next", !.cur = None, !.next = 0]

Record(w, d, status) ==
    /\ delivery' = [delivery EXCEPT ![d] =
         [status |-> status, attempts |-> @.attempts + 1, due |-> FALSE]]
    /\ worker' = [worker EXCEPT ![w] = After(w)]

\* A success that cannot be written, because the row is gone or the database
\* is, is caught as a failure to deliver.
WriteSuccess(w) ==
    /\ worker[w].step = "ok"
    /\ \/ /\ Present(worker[w].cur)
          /\ Record(w, worker[w].cur, "SUCCESS")
          /\ UNCHANGED faults
       \/ /\ ~ Present(worker[w].cur)
          /\ Goto(w, "failed") /\ UNCHANGED <<delivery, faults>>
       \/ /\ faults < MaxFaults /\ faults' = faults + 1
          /\ Goto(w, "failed") /\ UNCHANGED delivery
    /\ UNCHANGED <<endpoint, fired>>

\* currentAttempt, of a row that is gone zero.
ReadAttempts(w) ==
    /\ worker[w].step = "failed"
    /\ worker' = [worker EXCEPT ![w].step = "write",
                                ![w].next = delivery[worker[w].cur].attempts + 1]
    /\ UNCHANGED <<rows, faults>>

\* Mutant: the last attempt leaves the delivery to be retried.
WriteFailurePending(w) ==
    LET d == worker[w].cur IN
    /\ worker[w].step = "write"
    /\ IF Present(d) /\ worker[w].next <= MaxAttempts
       THEN Record(w, d, "PENDING")
       ELSE Throws(w) /\ UNCHANGED delivery
    /\ UNCHANGED <<endpoint, fired, faults>>

\* Past the last delay there is no date to write: the update is refused, as it
\* is when the row is gone.
WriteFailure(w) ==
    LET d == worker[w].cur IN
    /\ worker[w].step = "write"
    /\ IF Present(d) /\ worker[w].next <= MaxAttempts
       THEN Record(w, d, IF worker[w].next >= MaxAttempts THEN "FAILED" ELSE "PENDING")
       ELSE Throws(w) /\ UNCHANGED delivery
    /\ UNCHANGED <<endpoint, fired, faults>>

\* What fails once the endpoint has answered with no success is caught as a
\* failure to deliver, and read and written once more.
Caught(w) ==
    /\ worker[w].step \in {"failed", "write"} /\ faults < MaxFaults
    /\ faults' = faults + 1
    /\ Goto(w, "failed")
    /\ UNCHANGED rows

Ends(w) ==
    /\ worker[w].step = "next" /\ worker[w].todo = {}
    /\ worker' = [worker EXCEPT ![w] = Idle]
    /\ UNCHANGED <<rows, faults>>

\* The database cannot be reached, or the process stops.
Stops(w) ==
    /\ worker[w].step # "idle" /\ faults < MaxFaults
    /\ faults' = faults + 1
    /\ Throws(w)
    /\ UNCHANGED rows

TimePasses(d) ==
    /\ delivery[d].status \in {"PENDING", "FAILED"} /\ ~ delivery[d].due
    /\ delivery' = [delivery EXCEPT ![d].due = TRUE]
    /\ UNCHANGED <<endpoint, fired, worker, faults>>

CreateEndpoint(p) ==
    /\ endpoint[p] = "NONE"
    /\ endpoint' = [endpoint EXCEPT ![p] = "ACTIVE"]
    /\ UNCHANGED <<fired, delivery, worker, faults>>

\* remove; the deliveries go with their endpoint.
RemoveEndpoint(p) ==
    /\ p \in Active
    /\ endpoint' = [endpoint EXCEPT ![p] = "REMOVED"]
    /\ delivery' = [d \in Deliveries |-> IF d[2] = p THEN NoRow ELSE delivery[d]]
    /\ UNCHANGED <<fired, worker, faults>>
-----------------------------------------------------------------------------
Proceeds(w) ==
    \/ \E d \in Deliveries : DispatchCreates(w, d) \/ RetryNext(w, d)
    \/ Posts(w)
    \/ WriteSuccess(w) \/ ReadAttempts(w) \/ WriteFailure(w)
    \/ Ends(w)

Next ==
    \/ \E w \in Workers :
          \/ \E e \in Events : DispatchReads(w, e)
          \/ RetryReads(w)
          \/ Proceeds(w)
          \/ Caught(w) \/ Stops(w)
    \/ \E d \in Deliveries : TimePasses(d)
    \/ \E p \in Endpoints : CreateEndpoint(p) \/ RemoveEndpoint(p)

\* A call that has begun goes on, the cron fires, and time passes; nobody has
\* to fire an event or remove an endpoint.
Fairness ==
    /\ \A w \in Workers : WF_vars(Proceeds(w))
    /\ WF_vars(\E w \in Workers : RetryReads(w))
    /\ \A d \in Deliveries : WF_vars(TimePasses(d))

Spec == Init /\ [][Next]_vars /\ Fairness
-----------------------------------------------------------------------------
(***************************************************************************)
(* Properties                                                               *)
(***************************************************************************)
Steps == {"idle", "next", "post", "ok", "failed", "write"}

\* Rows and workers have the shape the schema and the code give them; a worker
\* that is posting has a delivery to write to, and no row is counted past what
\* that many workers can add to the last attempt.
TypeOK ==
    /\ endpoint \in [Endpoints -> {"NONE", "ACTIVE", "REMOVED"}]
    /\ fired \subseteq Events
    /\ delivery \in [Deliveries ->
         [status : {"NONE", "PENDING", "SUCCESS", "FAILED"}, attempts : Nat,
          due : BOOLEAN]]
    /\ worker \in [Workers ->
         [step : Steps, op : Events \cup {None, "retry"}, todo : SUBSET Deliveries,
          cur : Deliveries \cup {None}, next : Nat]]
    /\ \A w \in Workers :
          /\ worker[w].step \in {"post", "ok", "failed", "write"} <=>
                worker[w].cur # None
          /\ worker[w].op \in Events => worker[w].todo \subseteq {worker[w].op} \X Endpoints
    /\ \A d \in Deliveries :
          delivery[d].attempts <= MaxAttempts - 1 + Cardinality(Workers)
    /\ faults \in 0..MaxFaults
=============================================================================

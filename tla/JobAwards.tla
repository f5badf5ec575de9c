----------------------------- MODULE JobAwards -----------------------------
(***************************************************************************)
(* One marketplace job (apps/api/src/jobs): providers bid, administrators   *)
(* accept or reject bids, the winner logs work, an administrator completes  *)
(* the job, and the platform's commission is charged after the award        *)
(* commits, then marked paid or waived (apps/api/src/marketplace).          *)
(*                                                                          *)
(* A request refused at its first check changes nothing and is not          *)
(* modelled. acceptBid's transaction is one step from its conditional       *)
(* update on: no other request reads or writes the job row's new status     *)
(* before it commits, and a write to a bid waits for the row lock.          *)
(***************************************************************************)
EXTENDS Naturals, FiniteSets

CONSTANTS
    Requests,    \* requests in flight; a bid row is named by its first writer
    Providers,
    Replicas,    \* API processes, each with its own bidQueues
    Amounts,
    NoBid,
    MaxCrashes   \* bound on replica restarts

\* What is assumed of them, where they are given.
Assumptions ==
    /\ Amounts \subseteq Nat \ {0}
    /\ NoBid \notin Requests \cup Providers
    /\ MaxCrashes \in Nat

VARIABLES
    job,         \* Job.status
    bid,         \* Bid rows
    req,         \* requests, between two awaits
    worklog,     \* providers who have logged work
    due,         \* commissions promised by awards, in a replica's memory
    commission,  \* JobCommission rows (unique on the job)
    crashes

vars == <<job, bid, req, worklog, due, commission, crashes>>

None == [provider |-> NoBid, amount |-> 0, status |-> "NONE"]
New == [step |-> "new", by |-> NoBid, at |-> NoBid, amount |-> 0,
        target |-> NoBid, saw |-> "NONE"]

Init ==
    /\ job = "OPEN"
    /\ bid = [q \in Requests |-> None]
    /\ req = [q \in Requests |-> New]
    /\ worklog = {}
    /\ due = {} /\ commission = {}
    /\ crashes = 0

Goto(q, step) == req' = [req EXCEPT ![q].step = step]

Finish(q) == req' = [req EXCEPT ![q] = [New EXCEPT !.step = "done"]]

Store(b, row) == bid' = [bid EXCEPT ![b] = row]

Accepted == {b \in Requests : bid[b].status = "ACCEPTED"}
-----------------------------------------------------------------------------
(***************************************************************************)
(* createBid: the job is read before the request waits its turn in the      *)
(* queue of its provider, which is this process's only.                     *)
(***************************************************************************)
BidArrives(q, r, p, a) ==
    /\ req[q] = New
    /\ job = "OPEN"
    /\ req' = [req EXCEPT ![q] =
         [New EXCEPT !.step = "queued", !.by = p, !.at = r, !.amount = a]]
    /\ UNCHANGED <<job, bid, worklog, due, commission, crashes>>

HasTurn(q) ==
    \A o \in Requests : req[o].step = "bidding" =>
        <<req[o].by, req[o].at>> # <<req[q].by, req[q].at>>

\* findFirst: the provider's bid, one of them if there are several.
BidReads(q) ==
    LET own == {b \in Requests : bid[b].provider = req[q].by} IN
    /\ req[q].step = "queued"
    /\ HasTurn(q)
    /\ \E b \in IF own = {} THEN {q} ELSE own :
          req' = [req EXCEPT ![q].step = "bidding", ![q].target = b]
    /\ UNCHANGED <<job, bid, worklog, due, commission, crashes>>

\* Update of the row found, or create; the job is not looked at again.
BidWrites(q) ==
    /\ req[q].step = "bidding"
    /\ Store(req[q].target, [provider |-> req[q].by, amount |-> req[q].amount,
                             status |-> "SUBMITTED"])
    /\ Finish(q)
    /\ UNCHANGED <<job, worklog, due, commission, crashes>>
-----------------------------------------------------------------------------
(***************************************************************************)
(* acceptBid and rejectBid                                                  *)
(***************************************************************************)
AcceptReads(q, r, b) ==
    /\ req[q] = New
    /\ bid[b].status = "SUBMITTED"
    /\ job = "OPEN"
    /\ Accepted = {}
    /\ req' = [req EXCEPT ![q] =
         [New EXCEPT !.step = "accepting", !.at = r, !.target = b,
                     !.amount = bid[b].amount]]
    /\ UNCHANGED <<job, bid, worklog, due, commission, crashes>>

\* Mutant: the winner is accepted first and rejected with its siblings.
AwardThenRejectAll(b) ==
    bid' = [o \in Requests |->
        IF o = b \/ bid[o].status = "SUBMITTED"
        THEN [bid[o] EXCEPT !.status = "REJECTED"] ELSE bid[o]]

\* The siblings still SUBMITTED are rejected, the bid is accepted as it is now.
Award(b) ==
    bid' = [o \in Requests |->
        IF o = b THEN [bid[o] EXCEPT !.status = "ACCEPTED"]
        ELSE IF bid[o].status = "SUBMITTED"
             THEN [bid[o] EXCEPT !.status = "REJECTED"] ELSE bid[o]]

Promise(q, amount) ==
    due' = due \cup {[provider |-> bid[req[q].target].provider,
                      base |-> amount, at |-> req[q].at]}

\* Mutant: the job is awarded whatever its status is by now.
AcceptClaimsBlind(q) ==
    /\ req[q].step = "accepting"
    /\ job' = "AWARDED"
    /\ Award(req[q].target)
    /\ Promise(q, bid[req[q].target].amount)
    /\ Finish(q)
    /\ UNCHANGED <<worklog, commission, crashes>>

\* Mutant: the commission is charged on the amount read before the claim.
AcceptClaimsAsRead(q) ==
    /\ req[q].step = "accepting"
    /\ job = "OPEN" /\ job' = "AWARDED"
    /\ Award(req[q].target)
    /\ Promise(q, req[q].amount)
    /\ Finish(q)
    /\ UNCHANGED <<worklog, commission, crashes>>

\* The conditional update of the OPEN job is the serialization point.
AcceptClaims(q) ==
    /\ req[q].step = "accepting"
    /\ job = "OPEN" /\ job' = "AWARDED"
    /\ Award(req[q].target)
    /\ Promise(q, bid[req[q].target].amount)
    /\ Finish(q)
    /\ UNCHANGED <<worklog, commission, crashes>>

\* "Job was already awarded": the transaction rolls back.
AcceptLoses(q) ==
    /\ req[q].step = "accepting"
    /\ job # "OPEN"
    /\ Finish(q)
    /\ UNCHANGED <<job, bid, worklog, due, commission, crashes>>

RejectReads(q, r, b) ==
    /\ req[q] = New
    /\ job = "OPEN"
    /\ bid[b].status = "SUBMITTED"
    /\ req' = [req EXCEPT ![q] =
         [New EXCEPT !.step = "rejecting", !.at = r, !.target = b]]
    /\ UNCHANGED <<job, bid, worklog, due, commission, crashes>>

\* Mutant: the rejected bid gets a status no reader knows.
RejectWritesDeclined(q) ==
    /\ req[q].step = "rejecting"
    /\ Store(req[q].target, [bid[req[q].target] EXCEPT !.status = "DECLINED"])
    /\ Finish(q)
    /\ UNCHANGED <<job, worklog, due, commission, crashes>>

RejectWrites(q) ==
    /\ req[q].step = "rejecting"
    /\ Store(req[q].target, [bid[req[q].target] EXCEPT !.status = "REJECTED"])
    /\ Finish(q)
    /\ UNCHANGED <<job, worklog, due, commission, crashes>>
-----------------------------------------------------------------------------
(***************************************************************************)
(* addWorkLog and completeJob                                               *)
(***************************************************************************)
LogReadsJob(q, r, p) ==
    /\ req[q] = New
    /\ req' = [req EXCEPT ![q] =
         [New EXCEPT !.step = "logging", !.at = r, !.by = p, !.saw = job]]
    /\ UNCHANGED <<job, bid, worklog, due, commission, crashes>>

LogChecks(q) ==
    /\ req[q].step = "logging"
    /\ \E b \in Accepted : bid[b].provider = req[q].by
    /\ req[q].saw \in {"AWARDED", "IN_PROGRESS"}
    /\ Goto(q, "logged")
    /\ UNCHANGED <<job, bid, worklog, due, commission, crashes>>

LogWrites(q) ==
    /\ req[q].step = "logged"
    /\ worklog' = worklog \cup {req[q].by}
    /\ job' = IF req[q].saw = "AWARDED" THEN "IN_PROGRESS" ELSE job
    /\ Finish(q)
    /\ UNCHANGED <<bid, due, commission, crashes>>

CompleteReads(q, r) ==
    /\ req[q] = New
    /\ job \in {"AWARDED", "IN_PROGRESS"}
    /\ req' = [req EXCEPT ![q] = [New EXCEPT !.step = "completing", !.at = r]]
    /\ UNCHANGED <<job, bid, worklog, due, commission, crashes>>

CompleteWrites(q) ==
    /\ req[q].step = "completing"
    /\ job' = "COMPLETED"
    /\ Finish(q)
    /\ UNCHANGED <<bid, worklog, due, commission, crashes>>
-----------------------------------------------------------------------------
\* createForAward, not awaited by the award. The job's unique key short-circuits
\* a second commission.
Charge(d) ==
    /\ due' = due \ {d}
    /\ commission' =
         IF commission # {} THEN commission
         ELSE {[provider |-> d.provider, base |-> d.base,
                status |-> "DUE", paidAt |-> FALSE]}
    /\ UNCHANGED <<job, bid, req, worklog, crashes>>

\* "Failures are logged, never fatal": the commission is not charged.
ChargeFails(d) ==
    /\ due' = due \ {d}
    /\ UNCHANGED <<job, bid, req, worklog, commission, crashes>>

\* Mutant: a settled commission may be settled otherwise.
SettleReadsAny(q, r, to) ==
    /\ req[q] = New
    /\ commission # {}
    /\ req' = [req EXCEPT ![q] =
         [New EXCEPT !.step = "settling", !.at = r, !.saw = to]]
    /\ UNCHANGED <<job, bid, worklog, due, commission, crashes>>

\* markPaid and waive: the row is looked at, and then written by its id.
SettleReads(q, r, to) ==
    /\ req[q] = New
    /\ \E c \in commission : c.status = "DUE"
    /\ req' = [req EXCEPT ![q] =
         [New EXCEPT !.step = "settling", !.at = r, !.saw = to]]
    /\ UNCHANGED <<job, bid, worklog, due, commission, crashes>>

SettleWrites(q) ==
    /\ req[q].step = "settling"
    /\ commission' =
         {[c EXCEPT !.status = req[q].saw,
                    !.paidAt = @ \/ req[q].saw = "PAID"] : c \in commission}
    /\ Finish(q)
    /\ UNCHANGED <<job, bid, worklog, due, crashes>>

InFlight(q) == req[q].step \notin {"new", "done"}

\* A replica stops: its requests end without an answer, its promises are gone.
Crash(r) ==
    /\ crashes < MaxCrashes
    /\ crashes' = crashes + 1
    /\ req' = [q \in Requests |->
         IF InFlight(q) /\ req[q].at = r THEN [New EXCEPT !.step = "done"]
         ELSE req[q]]
    /\ due' = {d \in due : d.at # r}
    /\ UNCHANGED <<job, bid, worklog, commission>>

Next ==
    \/ \E q \in Requests :
          \/ BidReads(q) \/ BidWrites(q)
          \/ AcceptClaims(q) \/ AcceptLoses(q)
          \/ RejectWrites(q)
          \/ LogChecks(q) \/ LogWrites(q)
          \/ CompleteWrites(q) \/ SettleWrites(q)
          \/ \E r \in Replicas :
                \/ \E p \in Providers, a \in Amounts : BidArrives(q, r, p, a)
                \/ \E b \in Requests : AcceptReads(q, r, b) \/ RejectReads(q, r, b)
                \/ \E p \in Providers : LogReadsJob(q, r, p)
                \/ CompleteReads(q, r)
                \/ \E to \in {"PAID", "WAIVED"} : SettleReads(q, r, to)
    \/ \E d \in due : Charge(d) \/ ChargeFails(d)
    \/ \E r \in Replicas : Crash(r)

Spec == Init /\ [][Next]_vars
-----------------------------------------------------------------------------
(***************************************************************************)
(* Properties                                                               *)
(***************************************************************************)
\* Rows and requests have the shape the schema and the code give them.
TypeOK ==
    /\ job \in {"OPEN", "AWARDED", "IN_PROGRESS", "COMPLETED"}
    /\ \A b \in Requests : bid[b] = None \/ bid[b] \in
          [provider : Providers, amount : Amounts,
           status : {"SUBMITTED", "ACCEPTED", "REJECTED"}]
    /\ \A q \in Requests :
          /\ req[q].step \in {"new", "queued", "bidding", "accepting",
                              "rejecting", "logging", "logged", "completing",
                              "settling", "done"}
          /\ req[q].step \in {"accepting", "rejecting"} =>
                bid[req[q].target] # None
    /\ worklog \subseteq Providers
    /\ due \subseteq [provider : Providers, base : Amounts, at : Replicas]
    /\ commission \subseteq
          [provider : Providers, base : Amounts, paidAt : BOOLEAN,
           status : {"DUE", "PAID", "WAIVED"}]
    /\ Cardinality(commission) <= 1
    /\ crashes \in 0..MaxCrashes

\* "The DB unique key is still required across replicas" and is not there: what
\* is promised of the bids of one provider, whichever replicas they reach.
OneBid(p) ==
    Cardinality({b \in Requests : bid[b].provider = p}) <= 1
=============================================================================

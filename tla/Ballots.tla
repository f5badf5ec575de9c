------------------------------ MODULE Ballots ------------------------------
(***************************************************************************)
(* One vote of a building: residents cast ballots while it is open, and an  *)
(* administrator or the scheduler closes it (apps/api/src/votes, with the   *)
(* eligible pool of apps/api/src/tenancy).                                  *)
(*                                                                          *)
(* Transactions run at READ COMMITTED: a statement sees what was committed  *)
(* when it started, an UPDATE waits for the row lock of another transaction *)
(* and then looks at the row again.  The ballots of a transaction appear    *)
(* all at once, when it commits.                                            *)
(***************************************************************************)
EXTENDS Naturals, FiniteSets, Functions

CONSTANTS
    Units,        \* units of the building
    Residents,    \* users who vote
    Owns,         \* the units of each resident
    Weight,       \* a unit's millimes
    Threshold,    \* Vote.thresholdType; HEADCOUNT when the building's rule
                  \* does not require millimes
    Pools,        \* eligible pools the tenancy rules can give
    Requests,     \* API requests in flight
    Scheduler,    \* the request of the auto-close cron job
    MaxRestarts,  \* bound on restarts of the API
    None

ASSUME UnitsAssumption == Weight \in [Units -> Nat] /\ IsFiniteSet(Units)
ASSUME OwnsAssumption == Owns \in [Residents -> SUBSET Units]
ASSUME PoolsAssumption == Pools \subseteq SUBSET Units
ASSUME ThresholdAssumption ==
    Threshold \in {"SIMPLE_MAJORITY", "MILLIMES_MAJORITY", "HEADCOUNT"}
ASSUME RestartsAssumption == MaxRestarts \in Nat

Choices == {"YES", "NO", "ABSTAIN"}

ASSUME NoneAssumption == None \notin Choices \cup Requests

VARIABLES
    clock,      \* the time, as opensAt and closesAt divide it
    eligible,   \* units whose occupants may vote, by the tenancy rules
    ballot,     \* committed Ballot rows, by unit
    result,     \* Vote.result
    lock,       \* the transaction that has updated the Vote row
    req,        \* requests, between two awaits
    reported,   \* history: tallies that close() answered
    announced,  \* history: "vote.closed" notifications
    restarts    \* restarts so far

vote == <<ballot, result>>
vars == <<clock, eligible, ballot, result, lock, req, reported, announced,
          restarts>>

Idle == [step |-> "idle"]

Init ==
    /\ clock \in {"scheduled", "open"}
    /\ eligible = Units
    /\ ballot = [u \in Units |-> None]
    /\ result = None
    /\ lock = None
    /\ req = [r \in Requests |-> Idle]
    /\ reported = {}
    /\ announced = 0
    /\ restarts = 0

(***************************************************************************)
(* tallyVote over the eligible pool.                                        *)
(***************************************************************************)
UnitWeight == IF Threshold = "HEADCOUNT" THEN [u \in Units |-> 1] ELSE Weight
Millimes(S) == SumFunctionOnSet(UnitWeight, S)

Outcome(yes, no, pool) ==
    IF Threshold = "MILLIMES_MAJORITY"
    THEN IF 2 * Millimes(yes) > Millimes(pool) THEN "PASSED" ELSE "REJECTED"
    ELSE IF Cardinality(yes) > Cardinality(no) THEN "PASSED" ELSE "REJECTED"

Tally(ballots, pool) ==
    LET side(c) == {u \in pool : ballots[u] = c}
        cast    == side("YES") \cup side("NO") \cup side("ABSTAIN")
    IN [yes |-> Cardinality(side("YES")), no |-> Cardinality(side("NO")),
        abstain |-> Cardinality(side("ABSTAIN")),
        yesMillimes |-> Millimes(side("YES")),
        noMillimes |-> Millimes(side("NO")), total |-> Millimes(pool),
        quorum |-> 2 * Millimes(cast) >= Millimes(pool),
        outcome |-> Outcome(side("YES"), side("NO"), pool)]

\* NULL is no tally.
ASSUME TallyAssumption ==
    \A pool \in SUBSET Units, ballots \in [Units -> Choices \cup {None}] :
        Tally(ballots, pool) # None

Goto(r, next) == req' = [req EXCEPT ![r] = next]

(***************************************************************************)
(* castBallot                                                               *)
(***************************************************************************)
VotingOpen == result = None /\ clock = "open"

CastStart(r, resident, choice) ==
    LET units == Owns[resident] \cap eligible IN
    /\ req[r] = Idle
    /\ r # Scheduler
    /\ VotingOpen
    /\ units # {}
    /\ Goto(r, [step |-> "begin", units |-> units, choice |-> choice])
    /\ UNCHANGED <<clock, eligible, vote, lock, reported, announced, restarts>>

\* The transaction reads the vote again and takes the time of its claim.
CastBegin(r) ==
    /\ req[r].step = "begin"
    /\ Goto(r, IF VotingOpen THEN [req[r] EXCEPT !.step = "claim"] ELSE Idle)
    /\ UNCHANGED <<clock, eligible, vote, lock, reported, announced, restarts>>

\* Mutant: the ballots are written without claiming the vote.
CastUnclaimed(r) ==
    /\ req[r].step = "claim"
    /\ Goto(r, [req[r] EXCEPT !.step = "ballots"])
    /\ UNCHANGED <<clock, eligible, vote, lock, reported, announced, restarts>>

\* updateMany ... where result is null: waits for the row, then looks again.
CastClaim(r) ==
    /\ req[r].step = "claim"
    /\ lock = None
    /\ IF result = None
       THEN /\ lock' = r
            /\ Goto(r, [req[r] EXCEPT !.step = "ballots"])
       ELSE /\ Goto(r, Idle)
            /\ UNCHANGED lock
    /\ UNCHANGED <<clock, eligible, vote, reported, announced, restarts>>

Unlock(r) == lock' = IF lock = r THEN None ELSE lock

\* Mutant: the row stays locked when the ballots are in.
CastCommitKeepsLock(r) ==
    /\ req[r].step = "ballots"
    /\ ballot' = [u \in Units |->
         IF u \in req[r].units THEN req[r].choice ELSE ballot[u]]
    /\ Goto(r, Idle)
    /\ UNCHANGED <<clock, eligible, result, lock, reported, announced, restarts>>

CastCommit(r) ==
    /\ req[r].step = "ballots"
    /\ ballot' = [u \in Units |->
         IF u \in req[r].units THEN req[r].choice ELSE ballot[u]]
    /\ Unlock(r)
    /\ Goto(r, Idle)
    /\ UNCHANGED <<clock, eligible, result, reported, announced, restarts>>

\* An upsert fails: the transaction is rolled back.
CastAborts(r) ==
    /\ req[r].step = "ballots"
    /\ Unlock(r)
    /\ Goto(r, Idle)
    /\ UNCHANGED <<clock, eligible, vote, reported, announced, restarts>>

(***************************************************************************)
(* close, by an administrator at any time or by the scheduler when overdue  *)
(***************************************************************************)
CloseStart(r) ==
    /\ req[r] = Idle
    /\ r = Scheduler => clock = "over" /\ result = None
    /\ Goto(r, [step |-> "read"])
    /\ UNCHANGED <<clock, eligible, vote, lock, reported, announced, restarts>>

\* The transaction reads the vote; a stored result is answered as it is.
CloseRead(r) ==
    /\ req[r].step = "read"
    /\ IF result # None
       THEN Goto(r, Idle) /\ reported' = reported \cup {result}
       ELSE Goto(r, [step |-> "tally"]) /\ UNCHANGED reported
    /\ UNCHANGED <<clock, eligible, vote, lock, announced, restarts>>

\* Mutant: the whole building is the pool.
CloseTallyAll(r) ==
    /\ req[r].step = "tally"
    /\ Goto(r, [step |-> "store", tally |-> Tally(ballot, Units)])
    /\ UNCHANGED <<clock, eligible, vote, lock, reported, announced, restarts>>

CloseTally(r) ==
    /\ req[r].step = "tally"
    /\ Goto(r, [step |-> "store", tally |-> Tally(ballot, eligible)])
    /\ UNCHANGED <<clock, eligible, vote, lock, reported, announced, restarts>>

\* Mutant: the result is stored whatever the row holds by now.
CloseStoreBlind(r) ==
    /\ req[r].step = "store"
    /\ lock = None
    /\ result' = req[r].tally
    /\ reported' = reported \cup {req[r].tally}
    /\ announced' = announced + 1
    /\ Goto(r, Idle)
    /\ UNCHANGED <<clock, eligible, ballot, lock, restarts>>

\* updateMany ... where result is null; the loser answers the winner's tally.
CloseStore(r) ==
    /\ req[r].step = "store"
    /\ lock = None
    /\ IF result = None
       THEN /\ result' = req[r].tally
            /\ reported' = reported \cup {req[r].tally}
            /\ announced' = announced + 1
       ELSE /\ reported' = reported \cup {result}
            /\ UNCHANGED <<result, announced>>
    /\ Goto(r, Idle)
    /\ UNCHANGED <<clock, eligible, ballot, lock, restarts>>

(***************************************************************************)
(* The rest of the world                                                    *)
(***************************************************************************)
\* An occupancy or an eligibility rule is changed by a request of its own.
ChangeEligibility(r, pool) ==
    /\ req[r] = Idle
    /\ r # Scheduler
    /\ eligible' = pool
    /\ UNCHANGED <<clock, vote, lock, req, reported, announced, restarts>>

Tick ==
    /\ clock # "over"
    /\ clock' = IF clock = "scheduled" THEN "open" ELSE "over"
    /\ UNCHANGED <<eligible, vote, lock, req, reported, announced, restarts>>

\* Requests in flight are gone; the database rolls their transactions back.
Restart ==
    /\ restarts < MaxRestarts
    /\ \E r \in Requests : req[r] # Idle
    /\ req' = [r \in Requests |-> Idle]
    /\ lock' = None
    /\ restarts' = restarts + 1
    /\ UNCHANGED <<clock, eligible, vote, reported, announced>>

Cast(r) ==
    \/ \E resident \in Residents, choice \in Choices :
          CastStart(r, resident, choice)
    \/ CastBegin(r)
    \/ CastClaim(r)
    \/ CastCommit(r)
    \/ CastAborts(r)

Close(r) == CloseStart(r) \/ CloseRead(r) \/ CloseTally(r) \/ CloseStore(r)

Next ==
    \/ \E r \in Requests :
          \/ Cast(r)
          \/ Close(r)
          \/ \E pool \in Pools : ChangeEligibility(r, pool)
    \/ Tick
    \/ Restart

Spec == Init /\ [][Next]_vars

\* Time passes; a request that has begun goes on; the cron job fires again
\* while the vote is overdue.
Fairness ==
    /\ WF_vars(Tick)
    /\ \A r \in Requests :
          WF_vars(CastBegin(r) \/ CastClaim(r) \/ CastCommit(r))
    /\ WF_vars(Close(Scheduler))
-----------------------------------------------------------------------------
(***************************************************************************)
(* Properties                                                               *)
(***************************************************************************)
TallyRow == [yes : Nat, no : Nat, abstain : Nat, yesMillimes : Nat,
             noMillimes : Nat, total : Nat, quorum : BOOLEAN,
             outcome : {"PASSED", "REJECTED"}]

\* Only a transaction that has claimed the vote holds its row.
TypeOK ==
    /\ clock \in {"scheduled", "open", "over"}
    /\ eligible \subseteq Units
    /\ ballot \in [Units -> Choices \cup {None}]
    /\ result \in TallyRow \cup {None}
    /\ \A r \in Requests :
          req[r].step \in {"idle", "begin", "claim", "ballots", "read",
                           "tally", "store"}
    /\ lock \in Requests \cup {None}
    /\ \A r \in Requests : lock = r <=> req[r].step = "ballots"

\* However many administrators and cron jobs close the vote at once, they all
\* answer the one stored tally, which is therefore never replaced, and the
\* owners are told once (close); and no ballot is stored once the vote has a
\* result, even by a request that began before (the claim in castBallot).
ClosedIsClosed ==
    [][/\ reported' \subseteq {result'}
       /\ announced' = IF result' = None THEN 0 ELSE 1
       /\ ballot' # ballot => result = None /\ clock # "scheduled"]_vars

\* An overdue vote gets its result, whatever crashes (scheduler voteClose).
OverdueIsClosed == clock = "over" ~> result # None
=============================================================================

-------------------------- MODULE CommunityProofs --------------------------
(***************************************************************************)
(* Proofs about what residents decide and what comes of it, for any         *)
(* constants.                                                               *)
(*                                                                          *)
(* Ballots: a vote is closed once, and nothing is cast in it afterwards.    *)
(* What a tally is plays no part in that, except that it is not NULL; what  *)
(* it is made of is the matter of the type invariant.                       *)
(*                                                                          *)
(* JobAwards, the instance J of MCJobAwards, Points with AuditLog, P of     *)
(* MCPoints, and Webhooks, W of MCWebhooks, stand beside it with constants  *)
(* and variables of their own.                                              *)
(***************************************************************************)
EXTENDS MCBallots, MCJobAwards, MCPoints, MCWebhooks, SumTheorems, Integers,
        Sequences

Casting == [step : {"begin", "claim", "ballots"}, units : SUBSET Units,
            choice : Choices]
Closing == [step : {"read", "tally"}]
Storing == {[step |-> "store", tally |-> Tally(ballots, pool)] :
              ballots \in [Units -> Choices \cup {None}], pool \in SUBSET Units}

\* A request has the variables its step has read.
ReqInv == req \in [Requests -> {Idle} \cup Casting \cup Closing \cup Storing]

RowsInv ==
    /\ eligible \in SUBSET Units
    /\ ballot \in [Units -> Choices \cup {None}]

\* The row of the vote is locked by the transaction that is to write ballots.
\* While it is, the vote has no result: whoever stores one waits for the row.
LockInv ==
    /\ lock \in Requests \cup {None}
    /\ \A r \in Requests : req[r].step = "ballots" <=> lock = r
    /\ lock # None => result = None
    /\ \A r \in Requests :
          req[r].step \in {"begin", "claim", "ballots"} => clock # "scheduled"

\* Every answer is the stored tally, announced when it was stored.
AnswerInv ==
    /\ result = None => reported = {} /\ announced = 0
    /\ result # None => reported \subseteq {result} /\ announced = 1

BallotsInv == ReqInv /\ RowsInv /\ LockInv /\ AnswerInv

LEMMA InitInv == Init => BallotsInv
<1> SUFFICES ASSUME Init PROVE BallotsInv
  OBVIOUS
<1>1. ReqInv /\ RowsInv
  BY DEF Init, ReqInv, RowsInv
<1>2. LockInv
  BY NoneAssumption DEF Init, LockInv, Idle
<1>3. AnswerInv
  BY DEF Init, AnswerInv
<1> QED
  BY <1>1, <1>2, <1>3 DEF BallotsInv

\* A request moves on outside its transaction: rows and lock are left alone.
LEMMA MoveStep ==
    ASSUME BallotsInv, NEW r \in Requests,
           NEW c \in {Idle} \cup Casting \cup Closing \cup Storing,
           Goto(r, c), req[r].step # "ballots", c.step # "ballots",
           c.step \in {"begin", "claim"} => clock # "scheduled",
           UNCHANGED <<clock, ballot, result, lock>>,
           eligible' \in SUBSET Units
    PROVE  ReqInv' /\ RowsInv' /\ LockInv'
<1>1. \A q \in Requests : req'[q] = IF q = r THEN c ELSE req[q]
  BY DEF BallotsInv, ReqInv, Goto
<1>2. ReqInv'
  BY DEF BallotsInv, ReqInv, Goto
<1>3. RowsInv'
  BY DEF BallotsInv, RowsInv
<1>4. LockInv'
  BY <1>1 DEF BallotsInv, LockInv
<1> QED
  BY <1>2, <1>3, <1>4

\* What a request at a step has read.
LEMMA ReqFacts ==
    ASSUME BallotsInv, NEW r \in Requests
    PROVE  /\ req[r].step \in {"begin", "claim", "ballots"} => req[r] \in Casting
           /\ req[r].step = "store" =>
                 /\ req[r] \in Storing
                 /\ req[r].tally # None
<1>1. req[r] \in {Idle} \cup Casting \cup Closing \cup Storing
  BY DEF BallotsInv, ReqInv
<1>2. ASSUME NEW c \in Storing PROVE c.step = "store" /\ c.tally # None
  BY TallyAssumption DEF Storing
<1> QED
  BY <1>1, <1>2 DEF Idle, Casting, Closing

\* The transaction ends: nobody holds the row.
LEMMA UnlockStep ==
    ASSUME BallotsInv, NEW r \in Requests, req[r].step = "ballots",
           Unlock(r), Goto(r, Idle), UNCHANGED <<clock, result>>
    PROVE  ReqInv' /\ LockInv'
<1>1. \A q \in Requests : req'[q] = IF q = r THEN Idle ELSE req[q]
  BY DEF BallotsInv, ReqInv, Goto
<1>2. ReqInv'
  BY DEF BallotsInv, ReqInv, Goto
<1>3. lock = r /\ lock' = None
  BY DEF BallotsInv, LockInv, Unlock
<1>4. LockInv'
  BY <1>1, <1>3, NoneAssumption DEF BallotsInv, LockInv, Idle
<1> QED
  BY <1>2, <1>4
-----------------------------------------------------------------------------
LEMMA CastInv ==
    ASSUME BallotsInv, NEW r \in Requests, Cast(r)
    PROVE  BallotsInv'
<1>1. UNCHANGED <<result, reported, announced>>
  BY DEF Cast, CastStart, CastBegin, CastClaim, CastCommit, CastAborts, vote
<1>2. AnswerInv'
  BY <1>1 DEF BallotsInv, AnswerInv
<1> SUFFICES ReqInv' /\ RowsInv' /\ LockInv'
  BY <1>2 DEF BallotsInv
<1>3. ASSUME NEW resident \in Residents, NEW choice \in Choices,
             CastStart(r, resident, choice)
      PROVE  ReqInv' /\ RowsInv' /\ LockInv'
  <2> DEFINE c == [step |-> "begin", units |-> Owns[resident] \cap eligible,
                   choice |-> choice]
  <2>1. c \in Casting /\ c.step = "begin"
    BY DEF Casting, BallotsInv, RowsInv
  <2>2. Goto(r, c) /\ req[r].step # "ballots" /\ clock = "open"
    BY <1>3 DEF CastStart, VotingOpen, Idle
  <2>3. UNCHANGED <<clock, ballot, result, lock, eligible>>
    BY <1>3 DEF CastStart, vote
  <2> QED
    BY <2>1, <2>2, <2>3, MoveStep DEF BallotsInv, RowsInv
<1>4. CASE CastBegin(r)
  <2> DEFINE c == IF VotingOpen THEN [req[r] EXCEPT !.step = "claim"] ELSE Idle
  <2>1. req[r] \in Casting
    BY <1>4, ReqFacts DEF CastBegin
  <2>2. c \in {Idle} \cup Casting /\ c.step \in {"claim", "idle"}
    BY <2>1 DEF Casting, Idle
  <2>3. c.step = "claim" => clock # "scheduled"
    BY DEF VotingOpen, Idle
  <2>4. Goto(r, c) /\ req[r].step # "ballots"
    BY <1>4 DEF CastBegin
  <2>5. UNCHANGED <<clock, ballot, result, lock, eligible>>
    BY <1>4 DEF CastBegin, vote
  <2> QED
    BY <2>2, <2>3, <2>4, <2>5, MoveStep DEF BallotsInv, RowsInv
<1>5. CASE CastClaim(r)
  <2>1. UNCHANGED <<clock, ballot, result, eligible>>
    BY <1>5 DEF CastClaim, vote
  <2>2. CASE result = None
    <3> DEFINE c == [req[r] EXCEPT !.step = "ballots"]
    <3>1. c \in Casting /\ c.step = "ballots"
      BY <1>5, ReqFacts DEF CastClaim, Casting
    <3>2. Goto(r, c) /\ lock = None /\ lock' = r
      BY <1>5, <2>2 DEF CastClaim
    <3>3. \A q \in Requests : req'[q] = IF q = r THEN c ELSE req[q]
      BY <3>2 DEF BallotsInv, ReqInv, Goto
    <3>4. ReqInv' /\ RowsInv'
      BY <2>1, <3>1, <3>2 DEF BallotsInv, ReqInv, RowsInv, Goto
    <3>5. clock # "scheduled"
      BY <1>5 DEF CastClaim, BallotsInv, LockInv
    <3>6. LockInv'
      BY <2>1, <2>2, <3>1, <3>2, <3>3, <3>5, NoneAssumption
         DEF BallotsInv, LockInv
    <3> QED
      BY <3>4, <3>6
  <2>3. CASE result # None
    <3>1. Goto(r, Idle) /\ UNCHANGED lock /\ req[r].step # "ballots"
      BY <1>5, <2>3 DEF CastClaim
    <3> QED
      BY <2>1, <3>1, MoveStep DEF Idle, BallotsInv, RowsInv
  <2> QED
    BY <2>2, <2>3
<1>6. CASE CastCommit(r)
  <2>1. ReqInv' /\ LockInv'
    BY <1>6, UnlockStep DEF CastCommit
  <2>2. req[r] \in Casting
    BY <1>6, ReqFacts DEF CastCommit
  <2>3. RowsInv'
    BY <1>6, <2>2 DEF CastCommit, BallotsInv, RowsInv, Casting
  <2> QED
    BY <2>1, <2>3
<1>7. CASE CastAborts(r)
  <2>1. ReqInv' /\ LockInv'
    BY <1>7, UnlockStep DEF CastAborts, vote
  <2>2. RowsInv'
    BY <1>7 DEF CastAborts, vote, BallotsInv, RowsInv
  <2> QED
    BY <2>1, <2>2
<1> QED
  BY <1>3, <1>4, <1>5, <1>6, <1>7 DEF Cast

LEMMA CloseInv ==
    ASSUME BallotsInv, NEW r \in Requests, Close(r)
    PROVE  BallotsInv'
<1>1. CASE CloseStart(r)
  <2> DEFINE c == [step |-> "read"]
  <2>1. c \in Closing /\ Goto(r, c) /\ req[r].step # "ballots"
    BY <1>1 DEF CloseStart, Closing, Idle
  <2>2. ReqInv' /\ RowsInv' /\ LockInv'
    BY <1>1, <2>1, MoveStep DEF CloseStart, vote, BallotsInv, RowsInv
  <2>3. AnswerInv'
    BY <1>1 DEF CloseStart, vote, BallotsInv, AnswerInv
  <2> QED
    BY <2>2, <2>3 DEF BallotsInv
<1>2. CASE CloseRead(r)
  <2> DEFINE c == IF result # None THEN Idle ELSE [step |-> "tally"]
  <2>1. c \in {Idle} \cup Closing /\ c.step \in {"idle", "tally"}
    BY DEF Closing, Idle
  <2>2. Goto(r, c) /\ req[r].step # "ballots"
    BY <1>2 DEF CloseRead
  <2>3. ReqInv' /\ RowsInv' /\ LockInv'
    BY <1>2, <2>1, <2>2, MoveStep DEF CloseRead, vote, BallotsInv, RowsInv
  <2>4. AnswerInv'
    BY <1>2 DEF CloseRead, vote, BallotsInv, AnswerInv
  <2> QED
    BY <2>3, <2>4 DEF BallotsInv
<1>3. CASE CloseTally(r)
  <2> DEFINE c == [step |-> "store", tally |-> Tally(ballot, eligible)]
  <2>1. c \in Storing /\ c.step = "store"
    BY DEF Storing, BallotsInv, RowsInv
  <2>2. Goto(r, c) /\ req[r].step # "ballots"
    BY <1>3 DEF CloseTally
  <2> HIDE DEF c
  <2>3. UNCHANGED <<clock, ballot, result, lock, eligible, reported, announced>>
    BY <1>3 DEF CloseTally, vote
  <2>4. ReqInv' /\ RowsInv' /\ LockInv'
    BY <2>1, <2>2, <2>3, MoveStep DEF BallotsInv, RowsInv
  <2>5. AnswerInv'
    BY <2>3 DEF BallotsInv, AnswerInv
  <2> QED
    BY <2>4, <2>5 DEF BallotsInv
<1>4. CASE CloseStore(r)
  <2>1. req[r].step = "store" /\ req[r].tally # None /\ lock = None
    BY <1>4, ReqFacts DEF CloseStore
  <2>2. Goto(r, Idle) /\ UNCHANGED <<clock, eligible, ballot, lock>>
    BY <1>4 DEF CloseStore
  <2>3. \A q \in Requests : req'[q] = IF q = r THEN Idle ELSE req[q]
    BY <2>2 DEF BallotsInv, ReqInv, Goto
  <2>4. ReqInv' /\ RowsInv'
    BY <2>2 DEF BallotsInv, ReqInv, RowsInv, Goto
  <2>5. LockInv'
    BY <2>1, <2>2, <2>3 DEF BallotsInv, LockInv, Idle
  <2>6. AnswerInv'
    <3>1. CASE result = None
      BY <1>4, <2>1, <3>1 DEF CloseStore, BallotsInv, AnswerInv
    <3>2. CASE result # None
      BY <1>4, <3>2 DEF CloseStore, BallotsInv, AnswerInv
    <3> QED
      BY <3>1, <3>2
  <2> QED
    BY <2>4, <2>5, <2>6 DEF BallotsInv
<1> QED
  BY <1>1, <1>2, <1>3, <1>4 DEF Close

LEMMA WorldInv ==
    ASSUME BallotsInv,
           \/ \E r \in Requests, pool \in Pools : ChangeEligibility(r, pool)
           \/ Tick \/ Restart \/ UNCHANGED vars
    PROVE  BallotsInv'
<1>1. ASSUME NEW r \in Requests, NEW pool \in Pools, ChangeEligibility(r, pool)
      PROVE  BallotsInv'
  BY <1>1, PoolsAssumption DEF ChangeEligibility, vote, BallotsInv, ReqInv, RowsInv,
                               LockInv, AnswerInv
<1>2. CASE Tick
  BY <1>2 DEF Tick, vote, BallotsInv, ReqInv, RowsInv, LockInv, AnswerInv
<1>3. CASE Restart
  <2>1. ReqInv' /\ RowsInv' /\ AnswerInv'
    BY <1>3 DEF Restart, vote, BallotsInv, ReqInv, RowsInv, AnswerInv
  <2>2. \A r \in Requests : req'[r].step = "idle"
    BY <1>3 DEF Restart, Idle
  <2>3. LockInv'
    BY <1>3, <2>2, NoneAssumption DEF Restart, LockInv
  <2> QED
    BY <2>1, <2>3 DEF BallotsInv
<1>4. CASE UNCHANGED vars
  BY <1>4 DEF vars, vote, BallotsInv, ReqInv, RowsInv, LockInv, AnswerInv
<1> QED
  BY <1>1, <1>2, <1>3, <1>4

LEMMA NextInv == BallotsInv /\ [Next]_vars => BallotsInv'
  BY CastInv, CloseInv, WorldInv DEF Next

\* The inductive invariant: who holds the row of the vote, and what was answered.
THEOREM Invariance == Spec => []BallotsInv
  BY InitInv, NextInv, PTL DEF Spec
-----------------------------------------------------------------------------
\* Ballots are written by the transaction that holds the row, and no others.
LEMMA WritesHold ==
    ASSUME BallotsInv, [Next]_vars, ballot' # ballot
    PROVE  result = None /\ clock # "scheduled"
<1>1. ASSUME NEW r \in Requests, CastCommit(r)
      PROVE  result = None /\ clock # "scheduled"
  BY <1>1, NoneAssumption DEF CastCommit, BallotsInv, LockInv
<1>2. \E r \in Requests : CastCommit(r)
  BY DEF Next, vars, vote, Cast, CastStart, CastBegin, CastClaim, CastAborts, Close,
         CloseStart, CloseRead, CloseTally, CloseStore, ChangeEligibility, Tick, Restart
<1> QED
  BY <1>1, <1>2

\* However many requests and cron jobs close a vote at once, one tally is stored,
\* answered and announced, and no ballot is stored after it (castBallot, close).
THEOREM ClosedForGood == Spec => ClosedIsClosed
<1>1. BallotsInv /\ BallotsInv' /\ [Next]_vars =>
        [/\ reported' \subseteq {result'}
         /\ announced' = IF result' = None THEN 0 ELSE 1
         /\ ballot' # ballot => result = None /\ clock # "scheduled"]_vars
  BY WritesHold DEF BallotsInv, AnswerInv
<1> QED
  BY <1>1, Invariance, PTL DEF Spec, ClosedIsClosed
-----------------------------------------------------------------------------
\* tallyVote counts units and adds up millimes of finitely many of them.
LEMMA TallyTyped ==
    ASSUME NEW ballots \in [Units -> Choices \cup {None}], NEW pool \in SUBSET Units
    PROVE  Tally(ballots, pool) \in TallyRow
<1> DEFINE side(c) == {u \in pool : ballots[u] = c}
           cast == side("YES") \cup side("NO") \cup side("ABSTAIN")
<1>1. \A u \in Units : UnitWeight[u] \in Nat
  BY UnitsAssumption DEF UnitWeight
<1>2. ASSUME NEW S \in SUBSET Units
      PROVE  Millimes(S) \in Nat /\ Cardinality(S) \in Nat
  <2>1. IsFiniteSet(S)
    BY UnitsAssumption, FS_Subset
  <2>2. \A u \in S : UnitWeight[u] \in Nat
    BY <1>1
  <2>3. Millimes(S) \in Nat
    BY <2>1, <2>2, SumNat DEF Millimes
  <2> QED
    BY <2>1, <2>3, FS_CardinalityType
<1>3. \A c : side(c) \in SUBSET Units
  OBVIOUS
<1>4. Outcome(side("YES"), side("NO"), pool) \in {"PASSED", "REJECTED"}
  BY DEF Outcome
<1> DEFINE sum == [yes |-> Cardinality(side("YES")), no |-> Cardinality(side("NO")),
                   abstain |-> Cardinality(side("ABSTAIN")),
                   yesMillimes |-> Millimes(side("YES")),
                   noMillimes |-> Millimes(side("NO")), total |-> Millimes(pool),
                   quorum |-> 2 * Millimes(cast) >= Millimes(pool),
                   outcome |-> Outcome(side("YES"), side("NO"), pool)]
<1>5. Tally(ballots, pool) = sum
  BY DEF Tally
<1>6. /\ Cardinality(side("YES")) \in Nat /\ Cardinality(side("NO")) \in Nat
      /\ Cardinality(side("ABSTAIN")) \in Nat
      /\ Millimes(side("YES")) \in Nat /\ Millimes(side("NO")) \in Nat
      /\ Millimes(pool) \in Nat
  BY <1>2, <1>3
<1>7. (2 * Millimes(cast) >= Millimes(pool)) \in BOOLEAN
  OBVIOUS
<1> HIDE DEF side, cast
<1>8. sum \in TallyRow
  BY <1>4, <1>6, <1>7 DEF TallyRow
<1> QED
  BY <1>5, <1>8

\* What is stored is a tally that a request has made.
ResultInv == result \in TallyRow \cup {None}

LEMMA ResultStep ==
    ASSUME BallotsInv, ResultInv, [Next]_vars
    PROVE  ResultInv'
<1>1. CASE result' = result
  BY <1>1 DEF ResultInv
<1>2. CASE result' # result
  <2>1. PICK r \in Requests : req[r].step = "store" /\ result' = req[r].tally
    BY <1>2 DEF Next, vars, vote, Cast, CastStart, CastBegin, CastClaim,
       CastCommit, CastAborts, Close, CloseStart, CloseRead, CloseTally,
       CloseStore, ChangeEligibility, Tick, Restart
  <2>2. req[r] \in Storing
    BY <2>1, ReqFacts
  <2>3. PICK ballots \in [Units -> Choices \cup {None}], pool \in SUBSET Units :
           req[r] = [step |-> "store", tally |-> Tally(ballots, pool)]
    BY <2>2 DEF Storing
  <2>4. result' = Tally(ballots, pool)
    BY <2>1, <2>3
  <2> QED
    BY <2>4, TallyTyped DEF ResultInv
<1> QED
  BY <1>1, <1>2

LEMMA ClockStep ==
    ASSUME clock \in {"scheduled", "open", "over"}, [Next]_vars
    PROVE  clock' \in {"scheduled", "open", "over"}
  BY DEF Next, vars, vote, Cast, CastStart, CastBegin, CastClaim,
     CastCommit, CastAborts, Close, CloseStart, CloseRead, CloseTally,
     CloseStore, ChangeEligibility, Tick, Restart

\* Rows have the shape of the schema, and only a transaction that has claimed the
\* vote holds its row (castBallot, close, tallyVote).
THEOREM TypeCorrect == Spec => []TypeOK
<1> DEFINE ClockInv == clock \in {"scheduled", "open", "over"}
<1>1. Init => ResultInv /\ ClockInv
  BY DEF Init, ResultInv
<1>2. BallotsInv /\ ResultInv /\ ClockInv /\ [Next]_vars => ResultInv' /\ ClockInv'
  BY ResultStep, ClockStep
<1>3. BallotsInv /\ ResultInv /\ ClockInv => TypeOK
  <2> SUFFICES ASSUME BallotsInv, ResultInv, ClockInv PROVE TypeOK
    OBVIOUS
  <2>1. \A r \in Requests :
          req[r].step \in {"idle", "begin", "claim", "ballots", "read",
                           "tally", "store"}
    BY DEF BallotsInv, ReqInv, Idle, Casting, Closing, Storing
  <2> QED
    BY <2>1 DEF BallotsInv, RowsInv, LockInv, ResultInv, TypeOK
<1> QED
  BY <1>1, <1>2, <1>3, Invariance, PTL DEF Spec
-----------------------------------------------------------------------------
\* As long as no two requests have been in flight at once, what close() is to
\* store is the tally of the ballots and the pool of this moment.
CountedInv ==
    ~overlapped =>
        /\ \A q, r \in InFlight : q = r
        /\ \A r \in Requests : req[r].step = "store" =>
                                  req[r].tally = Tally(ballot, eligible)

\* Who writes ballots, moves on to storing a tally, or stores one.
LEMMA WhoWrites ==
    ASSUME [Next]_vars
    PROVE  /\ ballot' # ballot => \E r \in Requests : CastCommit(r)
           /\ result' # result => \E r \in Requests :
                 req[r].step = "store" /\ result' = req[r].tally
  BY DEF Next, vars, vote, Cast, CastStart, CastBegin, CastClaim, CastCommit, CastAborts,
         Close, CloseStart, CloseRead, CloseTally, CloseStore, ChangeEligibility, Tick,
         Restart

LEMMA WhoTallies ==
    ASSUME BallotsInv, [Next]_vars, NEW r \in Requests, req'[r].step = "store",
           req'[r] # req[r]
    PROVE  /\ req'[r].tally = Tally(ballot, eligible)
           /\ UNCHANGED <<ballot, eligible>>
<1> SUFFICES CloseTally(r)
  BY DEF CloseTally, Goto, BallotsInv, ReqInv, vote
<1>1. \A q \in Requests : \A c : Goto(q, c) =>
         \A p \in Requests : req'[p] = IF p = q THEN c ELSE req[p]
  BY DEF BallotsInv, ReqInv, Goto
<1>2. Idle.step # "store"
  BY DEF Idle
<1>3. ASSUME NEW q \in Requests, Cast(q)
      PROVE  FALSE
  <2>1. CASE CastBegin(q)
    <3>1. req[q] \in Casting
      BY <2>1, ReqFacts DEF CastBegin
    <3> QED
      BY <1>1, <1>2, <2>1, <3>1 DEF CastBegin, Casting
  <2>2. CASE CastClaim(q)
    <3>1. req[q] \in Casting
      BY <2>2, ReqFacts DEF CastClaim
    <3> QED
      BY <1>1, <1>2, <2>2, <3>1 DEF CastClaim, Casting
  <2>3. ASSUME NEW resident \in Residents, NEW choice \in Choices,
               CastStart(q, resident, choice)
        PROVE  FALSE
    <3> DEFINE c == [step |-> "begin", units |-> Owns[resident] \cap eligible,
                     choice |-> choice]
    <3>1. Goto(q, c) /\ c.step = "begin"
      BY <2>3 DEF CastStart
    <3> QED
      BY <1>1, <3>1
  <2>4. CASE CastCommit(q) \/ CastAborts(q)
    BY <1>1, <1>2, <2>4 DEF CastCommit, CastAborts
  <2> QED
    BY <1>3, <2>1, <2>2, <2>3, <2>4 DEF Cast
<1>4. ASSUME NEW q \in Requests, Close(q)
      PROVE  q = r /\ CloseTally(q)
  BY <1>1, <1>2, <1>4 DEF Close, CloseStart, CloseRead, CloseTally, CloseStore
<1> QED
  BY <1>2, <1>3, <1>4 DEF Next, vars, vote, ChangeEligibility, Tick, Restart

LEMMA CountedStep ==
    ASSUME BallotsInv, CountedInv, MCNext
    PROVE  CountedInv'
<1> SUFFICES ASSUME ~overlapped' PROVE CountedInv'
  BY DEF CountedInv
<1>1. /\ Next /\ ~overlapped
      /\ ~ \E q, r \in InFlight' : q # r
      /\ eligible' # eligible => InFlight = {}
  BY DEF MCNext
<1>2. ASSUME NEW r \in Requests, req'[r].step = "store"
      PROVE  req'[r].tally = Tally(ballot', eligible')
  <2>1. CASE req'[r] # req[r]
    <3>1. req'[r].tally = Tally(ballot, eligible) /\ UNCHANGED <<ballot, eligible>>
      BY <1>1, <1>2, <2>1, WhoTallies
    <3> QED
      BY <3>1
  <2>2. CASE req'[r] = req[r]
    <3>1. r \in InFlight
      BY <1>2, <2>2 DEF InFlight, Idle
    <3>2. req[r].tally = Tally(ballot, eligible)
      BY <1>1, <1>2, <2>2 DEF CountedInv
    <3>3. eligible' = eligible
      BY <1>1, <3>1
    <3>4. ASSUME NEW q \in Requests, CastCommit(q)
          PROVE  FALSE
      <4>1. q \in InFlight /\ q # r
        BY <1>2, <2>2, <3>4 DEF CastCommit, InFlight, Idle
      <4> QED
        BY <1>1, <3>1, <4>1 DEF CountedInv
    <3>5. ballot' = ballot
      BY <1>1, <3>4, WhoWrites
    <3> QED
      BY <2>2, <3>2, <3>3, <3>5
  <2> QED
    BY <2>1, <2>2
<1> QED
  BY <1>1, <1>2 DEF CountedInv

\* "This write serializes ballot writes with close()" (castBallot): unless two
\* requests were in flight at once, the result that close() stores is the tally of
\* the ballots cast by then.
THEOREM CountedAlone == MCSpec => CountedWhenAlone
<1>1. MCInit => BallotsInv /\ CountedInv
  <2> SUFFICES ASSUME MCInit PROVE CountedInv
    BY InitInv DEF MCInit
  <2>1. \A r \in Requests : req[r] = Idle
    BY DEF MCInit, Init
  <2> QED
    BY <2>1 DEF CountedInv, InFlight, Idle
<1>2. [MCNext]_<<vars, overlapped>> => [Next]_vars
  BY DEF MCNext
<1>3. BallotsInv /\ CountedInv /\ [MCNext]_<<vars, overlapped>> => CountedInv'
  <2>1. ASSUME CountedInv, UNCHANGED <<vars, overlapped>>
        PROVE  CountedInv'
    BY <2>1 DEF CountedInv, InFlight, vars, vote
  <2> QED
    BY <2>1, CountedStep
<1>4. BallotsInv /\ CountedInv /\ [MCNext]_<<vars, overlapped>>
        => [overlapped' \/ result' = Tally(ballot, eligible)]_result
  <2> SUFFICES ASSUME BallotsInv, CountedInv, [MCNext]_<<vars, overlapped>>,
                      result' # result, ~overlapped'
               PROVE  result' = Tally(ballot, eligible)
    OBVIOUS
  <2>1. ~overlapped
    BY DEF MCNext, vars, vote
  <2>2. PICK r \in Requests : req[r].step = "store" /\ result' = req[r].tally
    BY <1>2, WhoWrites
  <2> QED
    BY <2>1, <2>2 DEF CountedInv
<1> QED
  BY <1>1, <1>2, <1>3, <1>4, NextInv, PTL DEF MCSpec, CountedWhenAlone
-----------------------------------------------------------------------------
(***************************************************************************)
(* JobAwards, for any submissions, providers, replicas and amounts          *)
(***************************************************************************)
LEMMA JobGiven ==
    /\ Offers \subseteq Nat \ {0}
    /\ NoBid \notin Callers \cup Providers
    /\ MaxCrashes \in Nat
BY JobConstants DEF J!Assumptions

Jobs == {"OPEN", "AWARDED", "IN_PROGRESS", "COMPLETED"}
Bids == [provider : Providers, amount : Offers,
         status : {"SUBMITTED", "ACCEPTED", "REJECTED"}]
Calls == [step : {"new", "queued", "bidding", "accepting", "rejecting",
                  "logging", "logged", "completing", "settling", "done"},
          by : Providers \cup {NoBid}, at : Replicas \cup {NoBid},
          amount : Offers \cup {0}, target : Callers \cup {NoBid},
          saw : Jobs \cup {"NONE", "PAID", "WAIVED"}]

JobShape ==
    /\ job \in Jobs
    /\ bid \in [Callers -> {J!None} \cup Bids]
    /\ call \in [Callers -> Calls]
    /\ worklog \subseteq Providers
    /\ due \subseteq [provider : Providers, base : Offers, at : Replicas]
    /\ commission \subseteq
          [provider : Providers, base : Offers, paidAt : BOOLEAN,
           status : {"DUE", "PAID", "WAIVED"}]
    /\ \A c, d \in commission : c = d
    /\ crashes \in 0..MaxCrashes

\* What a call relies on of what it has read: a call q whose variables are c.
Relies(q, c) ==
    /\ c.step \in {"queued", "bidding"} => c.by \in Providers /\ c.amount \in Offers
    /\ c.step = "bidding" =>
          /\ c.target \in Callers
          /\ IF bid[c.target] = J!None THEN c.target = q
             ELSE bid[c.target].provider = c.by
    /\ c.step \in {"accepting", "rejecting"} =>
          c.at \in Replicas /\ c.target \in Callers /\ bid[c.target] # J!None
    /\ c.step \in {"logging", "logged"} =>
          c.by \in Providers /\ (c.saw = "AWARDED" => job # "OPEN")
    /\ c.step = "logged" => job # "OPEN" /\ c.by = award.provider
    /\ c.step = "completing" => job # "OPEN"
    /\ c.step = "settling" => c.saw \in {"PAID", "WAIVED"}

CallsInv ==
    /\ \A q \in Callers : Relies(q, call[q])
    /\ \A b \in Callers : bid[b] # J!None => call[b].step = "done"

\* The award: one bid, whose provider the row keeps whatever is written to it.
AwardInv ==
    /\ \A a, b \in J!Accepted : a = b
    /\ \A b \in J!Accepted : bid[b].provider = award.provider
    /\ job = "OPEN" => /\ award = J!None /\ J!Accepted = {}
                       /\ due = {} /\ commission = {} /\ worklog = {}
    /\ job # "OPEN" => award \in Bids
    /\ \A d \in due : d.provider = award.provider /\ d.base = award.amount
    /\ \A c \in commission : c.provider = award.provider /\ c.base = award.amount
    /\ worklog \subseteq {award.provider}

\* Nobody is to write to the winning bid, and nobody can be any more.
QuietInv ==
    job # "OPEN" /\ ~ rewritten =>
        \E w \in Callers :
            /\ bid[w] = award /\ bid[w].status = "ACCEPTED"
            /\ \A q \in Callers :
                  /\ call[q].step \in {"queued", "bidding"} =>
                        call[q].by # award.provider
                  /\ call[q].step = "rejecting" => call[q].target # w

\* One submission of a provider at a time is past its queue, and it writes to
\* the provider's row if there is one.
RivalsInv ==
    \A p \in Providers \ rivals :
        /\ \A a, b \in Callers :
              bid[a].provider = p /\ bid[b].provider = p => a = b
        /\ \A q \in Callers :
              call[q].step = "bidding" /\ call[q].by = p =>
                 /\ \A b \in Callers : bid[b].provider = p => b = call[q].target
                 /\ \A o \in Callers :
                       call[o].step = "bidding" /\ call[o].by = p => o = q

\* One call at a time settles the commission, and finds it DUE still.
Settling == {q \in Callers : call[q].step = "settling"}
SettledInv ==
    /\ IsFiniteSet(Settling)
    /\ \/ contested
       \/ /\ \A q, o \in Settling : q = o
          /\ \A q \in Settling : \A c \in commission : c.status = "DUE"
          /\ \A c \in commission : c.paidAt <=> c.status = "PAID"

JobInv ==
    JobShape /\ CallsInv /\ AwardInv /\ QuietInv /\ RivalsInv /\ SettledInv
-----------------------------------------------------------------------------
LEMMA Cards == \A S : J!Cardinality(S) = Cardinality(S)
  BY DEF J!Cardinality, Cardinality

Done == [J!New EXCEPT !.step = "done"]

\* What the history variables say of a step, whoever takes it.
Remembered ==
    /\ rivals \subseteq rivals'
    /\ \A q, o \in Callers :
          /\ q # o /\ call'[q].step = "bidding" /\ call'[o].step = "bidding"
          /\ call'[q].by = call'[o].by
          => call'[q].by \in rivals'
    /\ ~ contested' => ~ contested /\ ~ (Cardinality(Settling') > 1)

LEMMA DoneFact == Done \in Calls /\ Done.step = "done"
  BY DEF Done, J!New, Calls, Jobs

LEMMA RememberedFact == JobsNext => Remembered
<1> SUFFICES ASSUME JobsNext PROVE Remembered
  OBVIOUS
<1>1. Settling = CallsAt("settling") /\ Settling' = CallsAt("settling")'
  BY DEF Settling, CallsAt
<1>2. rivals \subseteq rivals'
  BY DEF JobsNext
<1>3. ASSUME NEW q \in Callers, NEW o \in Callers, q # o,
             call'[q].step = "bidding", call'[o].step = "bidding",
             call'[q].by = call'[o].by
      PROVE  call'[q].by \in rivals'
  <2>1. q \in CallsAt("bidding")' /\ o \in CallsAt("bidding")' \ {q}
    BY <1>3 DEF CallsAt
  <2> QED
    BY <1>3, <2>1 DEF JobsNext
<1>4. ASSUME ~ contested' PROVE ~ contested /\ ~ (Cardinality(Settling') > 1)
  <2>1. ~ (contested \/ Cardinality(CallsAt("settling")') > 1)
    BY <1>4, Cards DEF JobsNext
  <2> QED
    BY <1>1, <2>1
<1> QED
  BY <1>2, <1>3, <1>4 DEF Remembered

\* Nothing but a claim of the OPEN job is an award.
LEMMA KeepsAward ==
    ASSUME JobsNext, job' = job \/ job # "OPEN"
    PROVE  UNCHANGED <<award, rewritten>>
  BY DEF JobsNext, Awarding

LEMMA AtMostOneIn ==
    ASSUME NEW S, IsFiniteSet(S), ~ (Cardinality(S) > 1)
    PROVE  \A q, r \in S : q = r
<1>1. Cardinality(S) \in Nat
  BY FS_CardinalityType
<1>2. Cardinality(S) = 0 \/ Cardinality(S) = 1
  BY <1>1
<1>3. S = {} \/ \E x : S = {x}
  BY <1>2, FS_EmptySet, FS_Singleton
<1> QED
  BY <1>3

LEMMA SettlingStep ==
    ASSUME SettledInv, Remembered, NEW q, Settling' \subseteq Settling \cup {q}
    PROVE  /\ IsFiniteSet(Settling')
           /\ ~ contested' =>
                 ~ contested /\ (\A r, o \in Settling' : r = o)
<1>1. IsFiniteSet(Settling \cup {q})
  BY FS_AddElement DEF SettledInv
<1>2. IsFiniteSet(Settling')
  BY <1>1, FS_Subset
<1>3. ASSUME ~ (Cardinality(Settling') > 1) PROVE \A r, o \in Settling' : r = o
  BY <1>2, <1>3, AtMostOneIn
<1> QED
  BY <1>2, <1>3 DEF Remembered

\* A call moves on and nothing is written.
LEMMA CallMoves ==
    ASSUME JobInv, Remembered, NEW q \in Callers, NEW c \in Calls,
           call[q].step # "done", call' = [call EXCEPT ![q] = c],
           UNCHANGED <<job, bid, worklog, due, commission, crashes, award, rewritten>>,
           Relies(q, c),
           c.step \in {"queued", "bidding"} =>
              job = "OPEN" \/ (call[q].step = "queued" /\ call[q].by = c.by),
           c.step = "rejecting" => job = "OPEN",
           c.step = "bidding" =>
              \A b \in Callers :
                 bid[b].provider = c.by => bid[c.target].provider = c.by,
           c.step = "settling" => \E x \in commission : x.status = "DUE"
    PROVE  JobInv'
<1>1. call \in [Callers -> Calls]
  BY DEF JobInv, JobShape
<1>2. \A r \in Callers : call'[r] = IF r = q THEN c ELSE call[r]
  BY <1>1
<1>3. JobShape'
  BY <1>1 DEF JobInv, JobShape
<1>4. CallsInv'
  <2>1. \A r \in Callers : Relies(r, call[r])
    BY DEF JobInv, CallsInv
  <2>2. \A r, x : Relies(r, x)' <=> Relies(r, x)'
    OBVIOUS
  <2>3. ASSUME NEW r \in Callers PROVE Relies(r, call[r])' <=> Relies(r, call'[r])
    BY DEF Relies
  <2>4. bid[q] = J!None
    BY DEF JobInv, CallsInv
  <2> QED
    BY <1>2, <2>1, <2>3, <2>4 DEF JobInv, CallsInv
<1>5. AwardInv'
  BY DEF JobInv, AwardInv, J!Accepted
<1>6. QuietInv'
  <2> SUFFICES ASSUME job # "OPEN", ~ rewritten
               PROVE  \E w \in Callers :
                         /\ bid[w] = award /\ bid[w].status = "ACCEPTED"
                         /\ \A r \in Callers :
                               /\ call'[r].step \in {"queued", "bidding"} =>
                                     call'[r].by # award.provider
                               /\ call'[r].step = "rejecting" => call'[r].target # w
    BY DEF QuietInv
  <2>1. PICK w \in Callers :
           /\ bid[w] = award /\ bid[w].status = "ACCEPTED"
           /\ \A r \in Callers :
                 /\ call[r].step \in {"queued", "bidding"} =>
                       call[r].by # award.provider
                 /\ call[r].step = "rejecting" => call[r].target # w
    BY DEF JobInv, QuietInv
  <2> QED
    BY <1>2, <2>1
<1>7. RivalsInv'
  <2> SUFFICES ASSUME NEW p \in Providers, p \notin rivals'
               PROVE  /\ \A a, b \in Callers :
                            bid[a].provider = p /\ bid[b].provider = p => a = b
                      /\ \A r \in Callers :
                            call'[r].step = "bidding" /\ call'[r].by = p =>
                               /\ \A b \in Callers :
                                     bid[b].provider = p => b = call'[r].target
                               /\ \A o \in Callers :
                                     call'[o].step = "bidding" /\ call'[o].by = p
                                        => o = r
    BY DEF RivalsInv
  <2>1. p \notin rivals
    BY DEF Remembered
  <2>2. \A a, b \in Callers : bid[a].provider = p /\ bid[b].provider = p => a = b
    BY <2>1 DEF JobInv, RivalsInv
  <2>3. ASSUME NEW r \in Callers, call'[r].step = "bidding", call'[r].by = p,
               NEW b \in Callers, bid[b].provider = p
        PROVE  b = call'[r].target
    <3>1. CASE r = q
      <4>1. bid[c.target].provider = p /\ c.target \in Callers
        BY <1>2, <2>3, <3>1 DEF Relies
      <4> QED
        BY <1>2, <2>2, <2>3, <3>1, <4>1
    <3>2. CASE r # q
      BY <1>2, <2>1, <2>3, <3>2 DEF JobInv, RivalsInv
    <3> QED
      BY <3>1, <3>2
  <2>4. ASSUME NEW r \in Callers, call'[r].step = "bidding", call'[r].by = p,
               NEW o \in Callers, call'[o].step = "bidding", call'[o].by = p
        PROVE  o = r
    BY <2>4 DEF Remembered
  <2> QED
    BY <2>2, <2>3, <2>4
<1>8. SettledInv'
  <2>1. Settling' \subseteq Settling \cup {q}
    BY <1>2 DEF Settling
  <2>2. /\ IsFiniteSet(Settling')
        /\ ~ contested' =>
                 ~ contested /\ \A r, o \in Settling' : r = o
    BY <2>1, SettlingStep DEF JobInv
  <2>3. ASSUME NEW r \in Settling', NEW x \in commission, ~ contested
        PROVE  x.status = "DUE"
    <3>1. CASE r = q
      <4>1. \A y, z \in commission : y = z
        BY DEF JobInv, JobShape
      <4> QED
        BY <1>2, <2>3, <3>1, <4>1 DEF Settling
    <3>2. CASE r # q
      <4>1. r \in Settling
        BY <2>1, <2>3, <3>2
      <4> QED
        BY <2>3, <4>1 DEF JobInv, SettledInv
    <3> QED
      BY <3>1, <3>2
  <2>4. ASSUME ~ contested
        PROVE  \A x \in commission : x.paidAt <=> x.status = "PAID"
    BY <2>4 DEF JobInv, SettledInv
  <2> QED
    BY <2>2, <2>3, <2>4 DEF SettledInv
<1> QED
  BY <1>3, <1>4, <1>5, <1>6, <1>7, <1>8 DEF JobInv
-----------------------------------------------------------------------------
(* Calls that have read, and those that end without a write.                *)

LEMMA BidArrivesInv ==
    ASSUME JobInv, JobsNext, NEW q \in Callers, NEW r \in Replicas,
           NEW p \in Providers, NEW a \in Offers, J!BidArrives(q, r, p, a)
    PROVE  JobInv'
<1> DEFINE c == [J!New EXCEPT !.step = "queued", !.by = p, !.at = r, !.amount = a]
<1>1. /\ c \in Calls
      /\ c.step = "queued" /\ c.by = p /\ c.amount = a
  BY DEF J!New, Calls, Jobs, Bids
<1>2. call' = [call EXCEPT ![q] = c] /\ call[q].step # "done" /\ job = "OPEN"
  BY DEF J!BidArrives, J!New
<1>3. UNCHANGED <<job, bid, worklog, due, commission, crashes, award, rewritten>>
  BY KeepsAward DEF J!BidArrives
<1> HIDE DEF c
<1>4. Relies(q, c)
  BY <1>1 DEF Relies
<1> QED
  BY <1>1, <1>2, <1>3, <1>4, CallMoves, RememberedFact

LEMMA BidReadsInv ==
    ASSUME JobInv, JobsNext, NEW q \in Callers, J!BidReads(q)
    PROVE  JobInv'
<1> DEFINE own == {b \in Callers : bid[b].provider = call[q].by}
<1>1. PICK b \in IF own = {} THEN {q} ELSE own :
         call' = [call EXCEPT ![q].step = "bidding", ![q].target = b]
  BY DEF J!BidReads
<1> DEFINE c == [call[q] EXCEPT !.step = "bidding", !.target = b]
<1>2. call[q] \in Calls /\ call \in [Callers -> Calls] /\ b \in Callers
  BY DEF JobInv, JobShape
<1>3. /\ c \in Calls /\ c.step = "bidding" /\ c.target = b /\ c.by = call[q].by
      /\ c.amount = call[q].amount
  BY <1>2 DEF Calls
<1>4. call' = [call EXCEPT ![q] = c] /\ call[q].step = "queued"
  BY <1>1, <1>2 DEF J!BidReads, Calls
<1>5. UNCHANGED <<job, bid, worklog, due, commission, crashes, award, rewritten>>
  BY KeepsAward DEF J!BidReads
<1>6. /\ call[q].by \in Providers /\ call[q].amount \in Offers
      /\ bid[q] = J!None
  BY <1>4 DEF JobInv, CallsInv, Relies
<1> HIDE DEF c
<1>7. IF bid[b] = J!None THEN b = q ELSE bid[b].provider = c.by
  <2>1. \A x \in own : bid[x] # J!None
    BY <1>6, JobGiven DEF J!None
  <2> QED
    BY <1>2, <1>3, <1>6, <2>1
<1>8. Relies(q, c)
  BY <1>2, <1>3, <1>6, <1>7 DEF Relies
<1>9. \A x \in Callers : bid[x].provider = c.by => bid[c.target].provider = c.by
  BY <1>2, <1>3
<1> QED
  BY <1>3, <1>4, <1>5, <1>8, <1>9, CallMoves, RememberedFact

LEMMA AcceptReadsInv ==
    ASSUME JobInv, JobsNext, NEW q \in Callers, NEW r \in Replicas,
           NEW b \in Callers, J!AcceptReads(q, r, b)
    PROVE  JobInv'
<1> DEFINE c == [J!New EXCEPT !.step = "accepting", !.at = r, !.target = b,
                         !.amount = bid[b].amount]
<1>1. bid[b] # J!None /\ bid[b] \in Bids
  BY DEF J!AcceptReads, JobInv, JobShape, J!None
<1>2. /\ c \in Calls
      /\ c.step = "accepting" /\ c.at = r /\ c.target = b
  BY <1>1 DEF J!New, Calls, Jobs, Bids
<1>3. call' = [call EXCEPT ![q] = c] /\ call[q].step # "done"
  BY DEF J!AcceptReads, J!New
<1>4. UNCHANGED <<job, bid, worklog, due, commission, crashes, award, rewritten>>
  BY KeepsAward DEF J!AcceptReads
<1> HIDE DEF c
<1>5. Relies(q, c)
  BY <1>1, <1>2 DEF Relies
<1> QED
  BY <1>2, <1>3, <1>4, <1>5, CallMoves, RememberedFact

LEMMA RejectReadsInv ==
    ASSUME JobInv, JobsNext, NEW q \in Callers, NEW r \in Replicas,
           NEW b \in Callers, J!RejectReads(q, r, b)
    PROVE  JobInv'
<1> DEFINE c == [J!New EXCEPT !.step = "rejecting", !.at = r, !.target = b]
<1>1. bid[b] # J!None
  BY DEF J!RejectReads, J!None
<1>2. /\ c \in Calls
      /\ c.step = "rejecting" /\ c.at = r /\ c.target = b
  BY <1>1 DEF J!New, Calls, Jobs, Bids
<1>3. call' = [call EXCEPT ![q] = c] /\ call[q].step # "done" /\ job = "OPEN"
  BY DEF J!RejectReads, J!New
<1>4. UNCHANGED <<job, bid, worklog, due, commission, crashes, award, rewritten>>
  BY KeepsAward DEF J!RejectReads
<1> HIDE DEF c
<1>5. Relies(q, c)
  BY <1>1, <1>2 DEF Relies
<1> QED
  BY <1>2, <1>3, <1>4, <1>5, CallMoves, RememberedFact

LEMMA LogReadsJobInv ==
    ASSUME JobInv, JobsNext, NEW q \in Callers, NEW r \in Replicas,
           NEW p \in Providers, J!LogReadsJob(q, r, p)
    PROVE  JobInv'
<1> DEFINE c == [J!New EXCEPT !.step = "logging", !.at = r, !.by = p, !.saw = job]
<1>1. job \in Jobs
  BY DEF JobInv, JobShape
<1>2. /\ c \in Calls
      /\ c.step = "logging" /\ c.by = p /\ c.saw = job
  BY <1>1 DEF J!New, Calls, Jobs, Bids
<1>3. call' = [call EXCEPT ![q] = c] /\ call[q].step # "done"
  BY DEF J!LogReadsJob, J!New
<1>4. UNCHANGED <<job, bid, worklog, due, commission, crashes, award, rewritten>>
  BY KeepsAward DEF J!LogReadsJob
<1> HIDE DEF c
<1>5. Relies(q, c)
  BY <1>2 DEF Relies
<1> QED
  BY <1>2, <1>3, <1>4, <1>5, CallMoves, RememberedFact

LEMMA LogChecksInv ==
    ASSUME JobInv, JobsNext, NEW q \in Callers, J!LogChecks(q)
    PROVE  JobInv'
<1> DEFINE c == [call[q] EXCEPT !.step = "logged"]
<1>1. call[q] \in Calls /\ call \in [Callers -> Calls]
  BY DEF JobInv, JobShape
<1>2. /\ c \in Calls /\ c.step = "logged" /\ c.by = call[q].by
      /\ c.saw = call[q].saw
  BY <1>1 DEF Calls
<1>3. call' = [call EXCEPT ![q] = c] /\ call[q].step = "logging"
  BY <1>1 DEF J!LogChecks, J!Goto, Calls
<1>4. UNCHANGED <<job, bid, worklog, due, commission, crashes, award, rewritten>>
  BY KeepsAward DEF J!LogChecks
<1>5. /\ call[q].by \in Providers /\ job # "OPEN"
      /\ call[q].by = award.provider
  <2>1. Relies(q, call[q])
    BY DEF JobInv, CallsInv
  <2>2. PICK b \in J!Accepted : bid[b].provider = call[q].by
    BY DEF J!LogChecks
  <2>3. bid[b].provider = award.provider /\ job # "OPEN"
    BY <2>2 DEF JobInv, AwardInv
  <2> QED
    BY <1>3, <2>1, <2>2, <2>3 DEF Relies
<1> HIDE DEF c
<1>6. Relies(q, c)
  BY <1>2, <1>5 DEF Relies
<1> QED
  BY <1>2, <1>3, <1>4, <1>6, CallMoves, RememberedFact

LEMMA CompleteReadsInv ==
    ASSUME JobInv, JobsNext, NEW q \in Callers, NEW r \in Replicas,
           J!CompleteReads(q, r)
    PROVE  JobInv'
<1> DEFINE c == [J!New EXCEPT !.step = "completing", !.at = r]
<1>1. /\ c \in Calls
      /\ c.step = "completing"
  BY DEF J!New, Calls, Jobs, Bids
<1>2. call' = [call EXCEPT ![q] = c] /\ call[q].step # "done"
  BY DEF J!CompleteReads, J!New
<1>3. UNCHANGED <<job, bid, worklog, due, commission, crashes, award, rewritten>>
  BY KeepsAward DEF J!CompleteReads
<1> HIDE DEF c
<1>4. Relies(q, c)
  BY <1>1 DEF Relies, J!CompleteReads
<1> QED
  BY <1>1, <1>2, <1>3, <1>4, CallMoves, RememberedFact

LEMMA SettleReadsInv ==
    ASSUME JobInv, JobsNext, NEW q \in Callers, NEW r \in Replicas,
           NEW to \in {"PAID", "WAIVED"}, J!SettleReads(q, r, to)
    PROVE  JobInv'
<1> DEFINE c == [J!New EXCEPT !.step = "settling", !.at = r, !.saw = to]
<1>1. /\ c \in Calls
      /\ c.step = "settling" /\ c.saw = to
  BY DEF J!New, Calls, Jobs, Bids
<1>2. call' = [call EXCEPT ![q] = c] /\ call[q].step # "done"
  BY DEF J!SettleReads, J!New
<1>3. UNCHANGED <<job, bid, worklog, due, commission, crashes, award, rewritten>>
  BY KeepsAward DEF J!SettleReads
<1> HIDE DEF c
<1>4. Relies(q, c)
  BY <1>1 DEF Relies
<1>5. \E x \in commission : x.status = "DUE"
  BY DEF J!SettleReads
<1> QED
  BY <1>1, <1>2, <1>3, <1>4, <1>5, CallMoves, RememberedFact

LEMMA AcceptLosesInv ==
    ASSUME JobInv, JobsNext, NEW q \in Callers, J!AcceptLoses(q)
    PROVE  JobInv'
<1>1. call' = [call EXCEPT ![q] = Done] /\ call[q].step # "done"
  BY DEF J!AcceptLoses, J!Finish, Done
<1>2. UNCHANGED <<job, bid, worklog, due, commission, crashes, award, rewritten>>
  BY KeepsAward DEF J!AcceptLoses
<1>3. Relies(q, Done)
  BY DoneFact DEF Relies
<1> QED
  BY <1>1, <1>2, <1>3, CallMoves, RememberedFact, DoneFact
-----------------------------------------------------------------------------
(* Calls that write and end.                                                *)

Ends ==
    /\ call' \in [Callers -> Calls]
    /\ \A r \in Callers : call'[r] = call[r] \/ call'[r] = Done

LEMMA FinishEnds ==
    ASSUME JobInv, NEW q \in Callers, J!Finish(q)
    PROVE  Ends /\ call'[q] = Done /\ \A r \in Callers \ {q} : call'[r] = call[r]
<1>1. call \in [Callers -> Calls] /\ call' = [call EXCEPT ![q] = Done]
  BY DEF JobInv, JobShape, J!Finish, Done
<1> QED
  BY <1>1, DoneFact DEF Ends

\* Rows keep their provider, and the job does not open again.
LEMMA CallsKeep ==
    ASSUME JobInv, Ends,
           \A b \in Callers : /\ bid'[b].provider = bid[b].provider
                              /\ bid'[b] = J!None <=> bid[b] = J!None,
           job # "OPEN" => job' # "OPEN" /\ award' = award
    PROVE  CallsInv'
<1>1. ASSUME NEW r \in Callers PROVE Relies(r, call[r])'
  <2>1. CASE call'[r] = Done
    BY <2>1, DoneFact DEF Relies
  <2>2. CASE call'[r] = call[r]
    <3>1. Relies(r, call[r])
      BY DEF JobInv, CallsInv
    <3>2. PICK c : c = call[r]
      OBVIOUS
    <3> QED
      BY <2>2, <3>1, <3>2 DEF Relies
  <2> QED
    BY <2>1, <2>2 DEF Ends
<1>2. ASSUME NEW b \in Callers, bid'[b] # J!None PROVE call'[b].step = "done"
  BY <1>2, DoneFact DEF JobInv, CallsInv, Ends
<1> QED
  BY <1>1, <1>2 DEF CallsInv

LEMMA RivalsKeep ==
    ASSUME JobInv, Remembered, Ends,
           \A b \in Callers : bid'[b].provider = bid[b].provider
    PROVE  RivalsInv'
<1> SUFFICES ASSUME NEW p \in Providers, p \notin rivals'
             PROVE  /\ \A a, b \in Callers :
                          bid'[a].provider = p /\ bid'[b].provider = p => a = b
                    /\ \A q \in Callers :
                          call'[q].step = "bidding" /\ call'[q].by = p =>
                             /\ \A b \in Callers :
                                   bid'[b].provider = p => b = call'[q].target
                             /\ \A o \in Callers :
                                   call'[o].step = "bidding" /\ call'[o].by = p
                                      => o = q
  BY DEF RivalsInv
<1>1. p \in Providers \ rivals
  BY DEF Remembered
<1>2. \A q \in Callers : call'[q].step = "bidding" => call'[q] = call[q]
  BY DoneFact DEF Ends
<1> QED
  BY <1>1, <1>2 DEF JobInv, RivalsInv

LEMMA SettledKeeps ==
    ASSUME JobInv, Remembered, Ends, commission' = commission
    PROVE  SettledInv'
<1>1. Settling' \subseteq Settling
  BY DoneFact DEF Ends, Settling
<1>2. /\ IsFiniteSet(Settling')
      /\ ~ contested' => ~ contested /\ (\A r, o \in Settling' : r = o)
  BY <1>1, SettlingStep DEF JobInv
<1> QED
  BY <1>1, <1>2 DEF JobInv, SettledInv

LEMMA QuietKeeps ==
    ASSUME JobInv, Ends, UNCHANGED <<award, rewritten>>,
           job' # "OPEN" => job # "OPEN",
           \A w \in Callers :
              /\ bid[w] = award /\ bid[w].status = "ACCEPTED"
              /\ \A q \in Callers :
                    /\ call[q].step \in {"queued", "bidding"} =>
                          call[q].by # award.provider
                    /\ call[q].step = "rejecting" => call[q].target # w
              => bid'[w] = bid[w]
    PROVE  QuietInv'
<1> SUFFICES ASSUME job # "OPEN", ~ rewritten
             PROVE  \E w \in Callers :
                       /\ bid'[w] = award /\ bid'[w].status = "ACCEPTED"
                       /\ \A q \in Callers :
                             /\ call'[q].step \in {"queued", "bidding"} =>
                                   call'[q].by # award.provider
                             /\ call'[q].step = "rejecting" => call'[q].target # w
  BY DEF QuietInv
<1>1. PICK w \in Callers :
         /\ bid[w] = award /\ bid[w].status = "ACCEPTED"
         /\ \A q \in Callers :
               /\ call[q].step \in {"queued", "bidding"} =>
                     call[q].by # award.provider
               /\ call[q].step = "rejecting" => call[q].target # w
  BY DEF JobInv, QuietInv
<1>2. bid'[w] = bid[w]
  BY <1>1
<1>3. \A q \in Callers :
         call'[q].step \in {"queued", "bidding", "rejecting"} => call'[q] = call[q]
  BY DoneFact DEF Ends
<1> QED
  BY <1>1, <1>2, <1>3

LEMMA BidWritesInv ==
    ASSUME JobInv, JobsNext, NEW q \in Callers, J!BidWrites(q)
    PROVE  JobInv'
<1> DEFINE t == call[q].target
           p == call[q].by
           row == [provider |-> p, amount |-> call[q].amount, status |-> "SUBMITTED"]
<1>1. /\ call[q].step = "bidding" /\ J!Finish(q)
      /\ bid' = [bid EXCEPT ![t] = row]
      /\ UNCHANGED <<job, worklog, due, commission, crashes, award, rewritten>>
  BY KeepsAward DEF J!BidWrites, J!Store
<1>2. /\ t \in Callers /\ p \in Providers /\ call[q].amount \in Offers
      /\ IF bid[t] = J!None THEN t = q ELSE bid[t].provider = p
  BY <1>1 DEF JobInv, CallsInv, Relies
<1>3. row \in Bids /\ row # J!None /\ row.provider = p /\ row.status = "SUBMITTED"
  BY <1>2 DEF Bids, J!None
<1>4. /\ Ends /\ call'[q] = Done /\ Remembered
      /\ \A r \in Callers \ {q} : call'[r] = call[r]
  BY <1>1, FinishEnds, RememberedFact
<1>5. bid \in [Callers -> {J!None} \cup Bids] /\ J!None.provider = NoBid
  BY DEF JobInv, JobShape, J!None
<1>6. J!None.provider \notin Providers
  BY <1>5, JobGiven
<1> HIDE DEF t, p, row
<1>7. \A b \in Callers : bid'[b] = IF b = t THEN row ELSE bid[b]
  BY <1>1, <1>2, <1>5
<1>8. JobShape'
  BY <1>1, <1>2, <1>3, <1>4, <1>5 DEF JobInv, JobShape, Ends
<1>9. CallsInv'
  <2>1. ASSUME NEW r \in Callers PROVE Relies(r, call[r])'
    <3>1. CASE r = q
      BY <1>4, <3>1, DoneFact DEF Relies
    <3>2. CASE r # q
      <4>1. Relies(r, call[r])
        BY DEF JobInv, CallsInv
      <4>2. call'[r] = call[r]
        BY <1>4, <3>2
      <4>3. PICK c : c = call[r]
        OBVIOUS
      <4>4. ASSUME c.step = "bidding"
            PROVE  /\ c.target \in Callers
                   /\ IF bid'[c.target] = J!None THEN c.target = r
                      ELSE bid'[c.target].provider = c.by
        BY <1>2, <1>3, <1>7, <3>2, <4>1, <4>3, <4>4 DEF Relies
      <4>5. \A b \in Callers : bid[b] # J!None => bid'[b] # J!None
        BY <1>3, <1>7
      <4> QED
        BY <1>1, <4>1, <4>2, <4>3, <4>4, <4>5 DEF Relies
    <3> QED
      BY <3>1, <3>2
  <2>2. ASSUME NEW b \in Callers, bid'[b] # J!None PROVE call'[b].step = "done"
    <3>1. CASE b = q
      BY <1>4, <3>1, DoneFact
    <3>2. CASE b # q
      BY <1>2, <1>4, <1>7, <2>2, <3>2 DEF JobInv, CallsInv
    <3> QED
      BY <3>1, <3>2
  <2> QED
    BY <2>1, <2>2 DEF CallsInv
<1>10. AwardInv'
  <2>1. J!Accepted' \subseteq J!Accepted
    BY <1>3, <1>7 DEF J!Accepted
  <2>2. \A b \in J!Accepted' : bid'[b] = bid[b]
    BY <1>3, <1>7 DEF J!Accepted
  <2> QED
    BY <1>1, <2>1, <2>2 DEF JobInv, AwardInv
<1>11. QuietInv'
  <2>1. ASSUME NEW w \in Callers, bid[w] = award, bid[w].status = "ACCEPTED",
               \A r \in Callers : call[r].step \in {"queued", "bidding"} =>
                                     call[r].by # award.provider
        PROVE  bid'[w] = bid[w]
    <3>1. bid[w] # J!None
      BY <2>1 DEF J!None
    <3>2. p # award.provider
      BY <1>1, <2>1 DEF p
    <3> QED
      BY <1>2, <1>7, <2>1, <3>1, <3>2
  <2> QED
    BY <1>1, <1>4, <2>1, QuietKeeps
<1>12. RivalsInv'
  <2> SUFFICES ASSUME NEW x \in Providers, x \notin rivals'
               PROVE  /\ \A a, b \in Callers :
                            bid'[a].provider = x /\ bid'[b].provider = x => a = b
                      /\ \A r \in Callers :
                            call'[r].step = "bidding" /\ call'[r].by = x =>
                               /\ \A b \in Callers :
                                     bid'[b].provider = x => b = call'[r].target
                               /\ \A o \in Callers :
                                     call'[o].step = "bidding" /\ call'[o].by = x
                                        => o = r
    BY DEF RivalsInv
  <2>1. x \in Providers \ rivals
    BY <1>4 DEF Remembered
  <2>2. \A r \in Callers : call'[r].step = "bidding" => r # q /\ call'[r] = call[r]
    BY <1>4, DoneFact
  <2>3. CASE p = x
    <3>1. \A b \in Callers : bid[b].provider = x => b = t
      BY <1>1, <2>1, <2>3 DEF JobInv, RivalsInv, t, p
    <3>2. \A r \in Callers : call'[r].step = "bidding" => call'[r].by # x
      BY <1>1, <2>1, <2>2, <2>3 DEF JobInv, RivalsInv, p
    <3> QED
      BY <1>7, <3>1, <3>2
  <2>4. CASE p # x
    <3>1. \A b \in Callers : bid'[b].provider = x => b # t /\ bid[b].provider = x
      BY <1>3, <1>7, <2>4
    <3> QED
      BY <2>1, <2>2, <3>1 DEF JobInv, RivalsInv
  <2> QED
    BY <2>3, <2>4
<1>13. SettledInv'
  BY <1>1, <1>4, SettledKeeps
<1> QED
  BY <1>8, <1>9, <1>10, <1>11, <1>12, <1>13 DEF JobInv

LEMMA RejectWritesInv ==
    ASSUME JobInv, JobsNext, NEW q \in Callers, J!RejectWrites(q)
    PROVE  JobInv'
<1> DEFINE t == call[q].target
           row == [bid[t] EXCEPT !.status = "REJECTED"]
<1>1. /\ call[q].step = "rejecting" /\ J!Finish(q)
      /\ bid' = [bid EXCEPT ![t] = row]
      /\ UNCHANGED <<job, worklog, due, commission, crashes, award, rewritten>>
  BY KeepsAward DEF J!RejectWrites, J!Store
<1>2. t \in Callers /\ bid[t] # J!None
  BY <1>1 DEF JobInv, CallsInv, Relies
<1>3. bid \in [Callers -> {J!None} \cup Bids]
  BY DEF JobInv, JobShape
<1>4. bid[t] \in Bids
  BY <1>2, <1>3
<1>5. /\ row \in Bids /\ row.provider = bid[t].provider /\ row.status = "REJECTED"
      /\ row # J!None
  BY <1>4 DEF Bids, J!None
<1>6. Ends /\ Remembered
  BY <1>1, FinishEnds, RememberedFact
<1>7. \A b \in Callers : bid'[b] = IF b = t THEN row ELSE bid[b]
  BY <1>1, <1>2, <1>3
<1> HIDE DEF row
<1>8. JobShape'
  BY <1>1, <1>2, <1>3, <1>5, <1>6 DEF JobInv, JobShape, Ends
<1>9. CallsInv' /\ RivalsInv'
  BY <1>1, <1>2, <1>5, <1>6, <1>7, CallsKeep, RivalsKeep
<1>10. AwardInv'
  <2>1. J!Accepted' \subseteq J!Accepted
    BY <1>5, <1>7 DEF J!Accepted
  <2>2. \A b \in J!Accepted' : bid'[b] = bid[b]
    BY <1>5, <1>7 DEF J!Accepted
  <2> QED
    BY <1>1, <2>1, <2>2 DEF JobInv, AwardInv
<1>11. QuietInv'
  BY <1>1, <1>6, <1>7, QuietKeeps
<1>12. SettledInv'
  BY <1>1, <1>6, SettledKeeps
<1> QED
  BY <1>8, <1>9, <1>10, <1>11, <1>12 DEF JobInv
LEMMA AcceptClaimsInv ==
    ASSUME JobInv, JobsNext, NEW q \in Callers, J!AcceptClaims(q)
    PROVE  JobInv'
<1> DEFINE t == call[q].target
<1>1. /\ call[q].step = "accepting" /\ J!Finish(q)
      /\ job = "OPEN" /\ job' = "AWARDED"
      /\ J!Award(t) /\ J!Promise(q, bid[t].amount)
      /\ UNCHANGED <<worklog, commission, crashes>>
  BY DEF J!AcceptClaims
<1>2. t \in Callers /\ bid[t] # J!None /\ call[q].at \in Replicas
  BY <1>1 DEF JobInv, CallsInv, Relies
<1>3. bid \in [Callers -> {J!None} \cup Bids] /\ call \in [Callers -> Calls]
  BY DEF JobInv, JobShape
<1>4. bid[t] \in Bids
  BY <1>2, <1>3
<1>5. /\ Ends /\ Remembered /\ call'[q] = Done
      /\ \A r \in Callers \ {q} : call'[r] = call[r]
  BY <1>1, FinishEnds, RememberedFact
<1>6. J!Accepted = {} /\ due = {} /\ commission = {} /\ worklog = {}
  BY <1>1 DEF JobInv, AwardInv
<1> DEFINE won == [bid[t] EXCEPT !.status = "ACCEPTED"]
<1>7. /\ won \in Bids /\ won.provider = bid[t].provider
      /\ won.amount = bid[t].amount /\ won.status = "ACCEPTED"
  BY <1>4 DEF Bids
<1>8. award' = won /\ rewritten' = Rewriting(t)
  <2>1. PICK x \in Callers :
           /\ call[x].step = "accepting" /\ call'[x].step = "done"
           /\ award' = [bid[call[x].target] EXCEPT !.status = "ACCEPTED"]
           /\ rewritten' = Rewriting(call[x].target)
    BY <1>1 DEF JobsNext, Awarding
  <2>2. x = q
    BY <1>5, <2>1
  <2> QED
    BY <2>1, <2>2
<1>9. /\ bid' \in [Callers -> {J!None} \cup Bids]
      /\ \A o \in Callers :
            /\ bid'[o].provider = bid[o].provider
            /\ bid'[o] = J!None <=> bid[o] = J!None
            /\ bid'[o].status = "ACCEPTED" <=> o = t
      /\ bid'[t] = won
  <2>1. bid' = [o \in Callers |->
           IF o = t THEN won
           ELSE IF bid[o].status = "SUBMITTED"
                THEN [bid[o] EXCEPT !.status = "REJECTED"] ELSE bid[o]]
    BY <1>1 DEF J!Award
  <2>2. ASSUME NEW o \in Callers, o # t
        PROVE  /\ bid'[o] \in {J!None} \cup Bids
               /\ bid'[o].provider = bid[o].provider
               /\ bid'[o] = J!None <=> bid[o] = J!None
               /\ bid'[o].status # "ACCEPTED"
    <3>1. bid[o].status # "ACCEPTED"
      BY <1>6 DEF J!Accepted
    <3>2. CASE bid[o].status = "SUBMITTED"
      <4>1. bid[o] \in Bids /\ bid[o] # J!None
        BY <1>3, <3>2 DEF J!None
      <4> DEFINE row == [bid[o] EXCEPT !.status = "REJECTED"]
      <4>2. /\ row \in Bids /\ row.provider = bid[o].provider
            /\ row.status = "REJECTED" /\ row # J!None
        BY <4>1 DEF Bids, J!None
      <4>3. bid'[o] = row
        BY <2>1, <2>2, <3>2
      <4> HIDE DEF row
      <4> QED
        BY <4>1, <4>2, <4>3
    <3>3. CASE bid[o].status # "SUBMITTED"
      BY <1>3, <2>1, <2>2, <3>1, <3>3
    <3> QED
      BY <3>2, <3>3
  <2>3. bid'[t] = won
    BY <1>2, <2>1
  <2>4. won # J!None
    BY <1>7 DEF J!None
  <2>5. DOMAIN bid' = Callers /\ bid' = [o \in Callers |-> bid'[o]]
    BY <2>1
  <2> HIDE DEF won
  <2>6. \A o \in Callers : bid'[o] \in {J!None} \cup Bids
    BY <1>7, <2>2, <2>3
  <2>7. bid' \in [Callers -> {J!None} \cup Bids]
    BY <2>5, <2>6
  <2> QED
    BY <1>2, <1>7, <2>2, <2>3, <2>4, <2>7
<1> HIDE DEF won
<1>10. due' = {[provider |-> won.provider, base |-> won.amount, at |-> call[q].at]}
  BY <1>1, <1>6, <1>7 DEF J!Promise
<1>11. JobShape'
  <2>1. due' \subseteq [provider : Providers, base : Offers, at : Replicas]
    BY <1>2, <1>7, <1>10 DEF Bids
  <2> QED
    BY <1>1, <1>5, <1>9, <2>1 DEF JobInv, JobShape, Jobs, Ends
<1>12. CallsInv' /\ RivalsInv' /\ SettledInv'
  BY <1>1, <1>5, <1>9, CallsKeep, RivalsKeep, SettledKeeps
<1>13. AwardInv'
  <2>1. J!Accepted' = {t}
    BY <1>2, <1>9 DEF J!Accepted
  <2>2. /\ \A d \in due' : d.provider = won.provider /\ d.base = won.amount
        /\ commission' = {} /\ worklog' = {} /\ job' # "OPEN"
    BY <1>1, <1>6, <1>10
  <2> QED
    BY <1>7, <1>8, <1>9, <2>1, <2>2 DEF AwardInv
<1>14. QuietInv'
  <2> SUFFICES ASSUME ~ rewritten'
               PROVE  \E w \in Callers :
                         /\ bid'[w] = award' /\ bid'[w].status = "ACCEPTED"
                         /\ \A r \in Callers :
                               /\ call'[r].step \in {"queued", "bidding"} =>
                                     call'[r].by # award'.provider
                               /\ call'[r].step = "rejecting" => call'[r].target # w
    BY DEF QuietInv
  <2>1. \A r \in Callers :
           /\ call[r].step \in {"queued", "bidding"} => call[r].by # bid[t].provider
           /\ call[r].step = "rejecting" => call[r].target # t
    BY <1>8 DEF Rewriting
  <2>2. \A r \in Callers :
           call'[r].step \in {"queued", "bidding", "rejecting"} => call'[r] = call[r]
    BY <1>5, DoneFact
  <2>3. \A r \in Callers :
           /\ call'[r].step \in {"queued", "bidding"} =>
                 call'[r].by # award'.provider
           /\ call'[r].step = "rejecting" => call'[r].target # t
    BY <1>7, <1>8, <2>1, <2>2
  <2> QED
    BY <1>2, <1>7, <1>8, <1>9, <2>3
<1> QED
  BY <1>11, <1>12, <1>13, <1>14 DEF JobInv

LEMMA LogWritesInv ==
    ASSUME JobInv, JobsNext, NEW q \in Callers, J!LogWrites(q)
    PROVE  JobInv'
<1>1. /\ call[q].step = "logged" /\ J!Finish(q)
      /\ worklog' = worklog \cup {call[q].by}
      /\ job' = IF call[q].saw = "AWARDED" THEN "IN_PROGRESS" ELSE job
      /\ UNCHANGED <<bid, due, commission, crashes>>
  BY DEF J!LogWrites
<1>2. /\ job # "OPEN" /\ call[q].by = award.provider
      /\ call[q].by \in Providers /\ job \in Jobs
  BY <1>1 DEF JobInv, JobShape, CallsInv, Relies
<1>3. job' # "OPEN" /\ job' \in Jobs
  BY <1>1, <1>2 DEF Jobs
<1>4. UNCHANGED <<award, rewritten>>
  BY <1>2, KeepsAward
<1>5. Ends /\ Remembered
  BY <1>1, FinishEnds, RememberedFact
<1>6. JobShape'
  BY <1>1, <1>2, <1>3, <1>5 DEF JobInv, JobShape, Ends
<1>7. AwardInv'
  BY <1>1, <1>2, <1>3, <1>4 DEF JobInv, AwardInv, J!Accepted
<1>8. CallsInv' /\ RivalsInv' /\ SettledInv' /\ QuietInv'
  BY <1>1, <1>2, <1>3, <1>4, <1>5, CallsKeep, RivalsKeep, SettledKeeps, QuietKeeps
<1> QED
  BY <1>6, <1>7, <1>8 DEF JobInv

LEMMA CompleteWritesInv ==
    ASSUME JobInv, JobsNext, NEW q \in Callers, J!CompleteWrites(q)
    PROVE  JobInv'
<1>1. /\ call[q].step = "completing" /\ J!Finish(q) /\ job' = "COMPLETED"
      /\ UNCHANGED <<bid, worklog, due, commission, crashes>>
  BY DEF J!CompleteWrites
<1>2. job # "OPEN"
  BY <1>1 DEF JobInv, CallsInv, Relies
<1>3. UNCHANGED <<award, rewritten>>
  BY <1>2, KeepsAward
<1>4. Ends /\ Remembered
  BY <1>1, FinishEnds, RememberedFact
<1>5. JobShape'
  BY <1>1, <1>4 DEF JobInv, JobShape, Ends, Jobs
<1>6. AwardInv'
  BY <1>1, <1>2, <1>3 DEF JobInv, AwardInv, J!Accepted
<1>7. CallsInv' /\ RivalsInv' /\ SettledInv' /\ QuietInv'
  BY <1>1, <1>2, <1>3, <1>4, CallsKeep, RivalsKeep, SettledKeeps, QuietKeeps
<1> QED
  BY <1>5, <1>6, <1>7 DEF JobInv
LEMMA SettleWritesInv ==
    ASSUME JobInv, JobsNext, NEW q \in Callers, J!SettleWrites(q)
    PROVE  JobInv'
<1> DEFINE saw == call[q].saw
           row(c) == [c EXCEPT !.status = saw, !.paidAt = @ \/ saw = "PAID"]
           Rows == [provider : Providers, base : Offers, paidAt : BOOLEAN,
                    status : {"DUE", "PAID", "WAIVED"}]
<1>1. /\ call[q].step = "settling" /\ J!Finish(q)
      /\ commission' = {row(c) : c \in commission}
      /\ UNCHANGED <<job, bid, worklog, due, crashes, award, rewritten>>
  BY KeepsAward DEF J!SettleWrites
<1>2. saw \in {"PAID", "WAIVED"}
  BY <1>1 DEF JobInv, CallsInv, Relies
<1>3. /\ Ends /\ Remembered /\ call'[q] = Done
      /\ \A r \in Callers \ {q} : call'[r] = call[r]
  BY <1>1, FinishEnds, RememberedFact
<1>4. commission \subseteq Rows /\ \A c, d \in commission : c = d
  BY DEF JobInv, JobShape
<1>5. ASSUME NEW c \in commission
      PROVE  /\ row(c) \in Rows /\ row(c).provider = c.provider
             /\ row(c).base = c.base /\ row(c).status = saw
             /\ row(c).paidAt <=> c.paidAt \/ saw = "PAID"
  <2>1. c \in Rows
    BY <1>4
  <2> QED
    BY <1>2, <2>1
<1> HIDE DEF row
<1>6. \A d \in commission' : \E c \in commission : d = row(c)
  BY <1>1
<1>7. JobShape'
  <2>1. commission' \subseteq Rows /\ \A c, d \in commission' : c = d
    BY <1>4, <1>5, <1>6
  <2> QED
    BY <1>1, <1>3, <2>1 DEF JobInv, JobShape, Ends
<1>8. AwardInv'
  <2>1. commission = {} => commission' = {}
    BY <1>1
  <2>2. \A d \in commission' : d.provider = award.provider /\ d.base = award.amount
    BY <1>5, <1>6 DEF JobInv, AwardInv
  <2> QED
    BY <1>1, <2>1, <2>2 DEF JobInv, AwardInv, J!Accepted
<1>9. CallsInv' /\ RivalsInv' /\ QuietInv'
  BY <1>1, <1>3, CallsKeep, RivalsKeep, QuietKeeps
<1>10. SettledInv'
  <2>1. Settling' \subseteq Settling /\ q \in Settling /\ q \notin Settling'
    BY <1>1, <1>3, DoneFact DEF Ends, Settling
  <2>2. /\ IsFiniteSet(Settling')
        /\ ~ contested' => ~ contested /\ (\A r, o \in Settling' : r = o)
    BY <1>3, <2>1, SettlingStep DEF JobInv
  <2>3. ASSUME ~ contested
        PROVE  /\ Settling' = {}
               /\ \A d \in commission' : d.paidAt <=> d.status = "PAID"
    <3>1. \A o \in Settling : o = q
      BY <2>1, <2>3 DEF JobInv, SettledInv
    <3>2. \A c \in commission : c.status = "DUE" /\ (c.paidAt <=> c.status = "PAID")
      BY <2>1, <2>3 DEF JobInv, SettledInv
    <3>3. ASSUME NEW c \in commission
          PROVE  row(c).paidAt <=> row(c).status = "PAID"
      <4>1. c.status # "PAID" /\ ~ c.paidAt
        BY <3>2
      <4> QED
        BY <1>5, <4>1
    <3> QED
      BY <1>6, <2>1, <3>1, <3>3
  <2> QED
    BY <2>2, <2>3 DEF SettledInv
<1> QED
  BY <1>7, <1>8, <1>9, <1>10 DEF JobInv

\* The commission of an award that has been promised is charged, once, or lost.
LEMMA ChargeInv ==
    ASSUME JobInv, JobsNext, NEW d \in due, J!Charge(d)
    PROVE  JobInv'
<1> DEFINE new == [provider |-> d.provider, base |-> d.base,
                   status |-> "DUE", paidAt |-> FALSE]
<1>1. /\ due' = due \ {d}
      /\ commission' = IF commission # {} THEN commission ELSE {new}
      /\ UNCHANGED <<job, bid, call, worklog, crashes, award, rewritten>>
  BY KeepsAward DEF J!Charge
<1>2. Ends /\ Remembered
  BY <1>1, RememberedFact DEF JobInv, JobShape, Ends
<1>3. d.provider \in Providers /\ d.base \in Offers
  BY DEF JobInv, JobShape
<1>4. /\ new \in [provider : Providers, base : Offers, paidAt : BOOLEAN,
                  status : {"DUE", "PAID", "WAIVED"}]
      /\ new.provider = d.provider /\ new.base = d.base
      /\ new.status = "DUE" /\ ~ new.paidAt
  BY <1>3
<1> HIDE DEF new
<1>5. JobShape'
  BY <1>1, <1>4 DEF JobInv, JobShape
<1>6. AwardInv'
  BY <1>1, <1>4 DEF JobInv, AwardInv, J!Accepted
<1>7. CallsInv' /\ RivalsInv' /\ QuietInv'
  BY <1>1, <1>2, CallsKeep, RivalsKeep, QuietKeeps
<1>8. SettledInv'
  <2>1. CASE commission # {}
    BY <1>1, <1>2, <2>1, SettledKeeps
  <2>2. CASE commission = {}
    <3>1. Settling' = Settling
      BY <1>1 DEF Settling
    <3>2. /\ IsFiniteSet(Settling')
          /\ ~ contested' => ~ contested /\ (\A r, o \in Settling' : r = o)
      BY <1>2, <3>1, SettlingStep DEF JobInv
    <3>3. \A c \in commission' : c.status = "DUE" /\ (c.paidAt <=> c.status = "PAID")
      BY <1>1, <1>4, <2>2
    <3> QED
      BY <3>2, <3>3 DEF SettledInv
  <2> QED
    BY <2>1, <2>2
<1> QED
  BY <1>5, <1>6, <1>7, <1>8 DEF JobInv

\* A replica stops, or a promise is dropped, or nothing happens.
LEMMA DropsInv ==
    ASSUME JobInv, Remembered, Ends, due' \subseteq due, crashes' \in 0..MaxCrashes,
           UNCHANGED <<job, bid, worklog, commission, award, rewritten>>
    PROVE  JobInv'
<1>1. JobShape'
  BY DEF JobInv, JobShape, Ends
<1>2. AwardInv'
  BY DEF JobInv, AwardInv, J!Accepted
<1>3. CallsInv' /\ RivalsInv' /\ QuietInv' /\ SettledInv'
  BY CallsKeep, RivalsKeep, QuietKeeps, SettledKeeps
<1> QED
  BY <1>1, <1>2, <1>3 DEF JobInv

LEMMA ChargeFailsInv ==
    ASSUME JobInv, JobsNext, NEW d \in due, J!ChargeFails(d)
    PROVE  JobInv'
<1>1. /\ due' \subseteq due
      /\ UNCHANGED <<job, bid, call, worklog, commission, crashes, award, rewritten>>
  BY KeepsAward DEF J!ChargeFails
<1>2. Ends /\ Remembered /\ crashes' \in 0..MaxCrashes
  BY <1>1, RememberedFact DEF JobInv, JobShape, Ends
<1> QED
  BY <1>1, <1>2, DropsInv

LEMMA CrashInv ==
    ASSUME JobInv, JobsNext, NEW r \in Replicas, J!Crash(r)
    PROVE  JobInv'
<1>1. /\ crashes < MaxCrashes /\ crashes' = crashes + 1 /\ due' \subseteq due
      /\ UNCHANGED <<job, bid, worklog, commission, award, rewritten>>
      /\ call' = [q \in Callers |->
            IF J!InFlight(q) /\ call[q].at = r THEN Done ELSE call[q]]
  BY KeepsAward DEF J!Crash, Done
<1>2. call \in [Callers -> Calls] /\ crashes \in 0..MaxCrashes
  BY DEF JobInv, JobShape
<1>3. Ends
  BY <1>1, <1>2, DoneFact DEF Ends
<1>4. crashes' \in 0..MaxCrashes
  BY <1>1, <1>2, JobGiven
<1> QED
  BY <1>1, <1>3, <1>4, RememberedFact, DropsInv
-----------------------------------------------------------------------------
LEMMA JobInit == ASSUME JobsInit PROVE JobInv
<1>1. /\ job = "OPEN" /\ \A b \in Callers : bid[b] = J!None /\ call[b] = J!New
      /\ worklog = {} /\ due = {} /\ commission = {} /\ award = J!None
  BY DEF JobsInit, J!Init
<1>2. J!New \in Calls /\ J!New.step = "new"
  BY DEF J!New, Calls, Jobs
<1>3. JobShape
  <2>1. crashes \in 0..MaxCrashes
    BY JobGiven DEF JobsInit, J!Init
  <2> QED
    BY <1>1, <1>2, <2>1 DEF JobsInit, J!Init, JobShape, Jobs
<1>4. CallsInv
  BY <1>1, <1>2 DEF CallsInv, Relies
<1>5. J!Accepted = {} /\ Settling = {}
  BY <1>1, <1>2 DEF J!Accepted, Settling, J!None
<1>6. AwardInv /\ QuietInv
  BY <1>1, <1>5 DEF AwardInv, QuietInv
<1>7. RivalsInv
  BY <1>1, <1>2, JobGiven DEF RivalsInv, J!None
<1>8. SettledInv
  BY <1>1, <1>5, FS_EmptySet DEF SettledInv
<1> QED
  BY <1>3, <1>4, <1>6, <1>7, <1>8 DEF JobInv

LEMMA JobNext == ASSUME JobInv, [JobsNext]_jobVars PROVE JobInv'
<1>1. CASE UNCHANGED jobVars
  BY <1>1 DEF jobVars, J!vars, JobInv, JobShape, CallsInv, Relies, AwardInv,
     QuietInv, RivalsInv, SettledInv, Settling, J!Accepted
<1>2. CASE JobsNext
  <2>1. J!Next
    BY <1>2 DEF JobsNext
  <2> QED
    BY <1>2, <2>1, BidArrivesInv, BidReadsInv, BidWritesInv, AcceptReadsInv,
       AcceptClaimsInv, AcceptLosesInv, RejectReadsInv, RejectWritesInv,
       LogReadsJobInv, LogChecksInv, LogWritesInv, CompleteReadsInv,
       CompleteWritesInv, SettleReadsInv, SettleWritesInv, ChargeInv,
       ChargeFailsInv, CrashInv DEF J!Next
<1> QED
  BY <1>1, <1>2

LEMMA JobInvariance == JobsSpec => []JobInv
  BY JobInit, JobNext, PTL DEF JobsSpec, jobVars

LEMMA FewAre ==
    ASSUME NEW S, \A a, b \in S : a = b
    PROVE  J!Cardinality(S) <= 1
<1>1. CASE S = {}
  <2>1. Cardinality(S) = 0
    BY <1>1, FS_EmptySet
  <2> QED
    BY <2>1, Cards
<1>2. ASSUME NEW x \in S PROVE J!Cardinality(S) <= 1
  <2>1. S = {x}
    OBVIOUS
  <2>2. Cardinality(S) = 1
    BY <2>1, FS_Singleton
  <2> QED
    BY <2>2, Cards
<1> QED
  BY <1>1, <1>2

\* Rows and requests have the shape the schema and the code give them; the job
\* has one commission (createBid, acceptBid, createForAward).
THEOREM JobTypes == JobsSpec => []JobTypesOK
<1>1. ASSUME JobInv PROVE JobTypesOK
  <2>1. J!Cardinality(commission) <= 1
    BY <1>1, FewAre DEF JobInv, JobShape
  <2>2. \A b \in Callers : bid[b] = J!None \/ bid[b] \in Bids
    BY <1>1 DEF JobInv, JobShape
  <2>3. ASSUME NEW q \in Callers
        PROVE  /\ call[q].step \in {"new", "queued", "bidding", "accepting",
                                    "rejecting", "logging", "logged",
                                    "completing", "settling", "done"}
               /\ call[q].step \in {"accepting", "rejecting"} =>
                     bid[call[q].target] # J!None
    <3>1. call[q] \in Calls /\ Relies(q, call[q])
      BY <1>1 DEF JobInv, JobShape, CallsInv
    <3> QED
      BY <3>1 DEF Calls, Relies
  <2>4. /\ job \in Jobs /\ worklog \subseteq Providers
        /\ due \subseteq [provider : Providers, base : Offers, at : Replicas]
        /\ commission \subseteq
              [provider : Providers, base : Offers, paidAt : BOOLEAN,
               status : {"DUE", "PAID", "WAIVED"}]
        /\ crashes \in 0..MaxCrashes
    BY <1>1 DEF JobInv, JobShape
  <2> QED
    BY <2>1, <2>2, <2>3, <2>4 DEF JobTypesOK, J!TypeOK, Jobs, Bids
<1> QED
  BY <1>1, JobInvariance, PTL

\* Two concurrent award requests leave one ACCEPTED bid, which stays as it was
\* accepted unless a request that saw the job OPEN was to write to it; a
\* provider has one bid unless two replicas were past its queue at once; nobody
\* but the winner logs work (createBid, acceptBid, rejectBid, addWorkLog).
THEOREM OneAward == JobsSpec => []AwardStands
<1>1. ASSUME JobInv PROVE AwardStands
  <2>1. Cardinality(J!Accepted) <= 1
    BY <1>1, FewAre, Cards DEF JobInv, AwardInv
  <2>2. ASSUME job # "OPEN", ~ rewritten
        PROVE  {bid[b] : b \in J!Accepted} = {award}
    <3>1. PICK w \in Callers : bid[w] = award /\ bid[w].status = "ACCEPTED"
      BY <1>1, <2>2 DEF JobInv, QuietInv
    <3>2. w \in J!Accepted /\ \A b \in J!Accepted : b = w
      BY <1>1, <3>1 DEF JobInv, AwardInv, J!Accepted
    <3> QED
      BY <3>1, <3>2
  <2>3. ASSUME NEW p \in Providers \ rivals PROVE J!OneBid(p)
    <3>1. \A a, b \in {x \in Callers : bid[x].provider = p} : a = b
      BY <1>1 DEF JobInv, RivalsInv
    <3> QED
      BY <3>1, FewAre DEF J!OneBid
  <2>4. worklog \subseteq {award.provider}
    BY <1>1 DEF JobInv, AwardInv
  <2> QED
    BY <2>1, <2>2, <2>3, <2>4 DEF AwardStands
<1> QED
  BY <1>1, JobInvariance, PTL

\* The commission is charged to the provider who won, on the amount that was
\* accepted, whatever the bid becomes meanwhile (acceptBid, createForAward).
THEOREM ChargedOnAward ==
    JobsSpec => []CommissionIsOnAward
<1>1. ASSUME JobInv PROVE CommissionIsOnAward
  <2> SUFFICES ASSUME NEW c \in commission
               PROVE  /\ award # J!None /\ c.provider = award.provider
                      /\ c.base = award.amount
    BY DEF CommissionIsOnAward
  <2>1. job # "OPEN" /\ award \in Bids
    BY <1>1 DEF JobInv, AwardInv
  <2>2. award # J!None
    BY <2>1 DEF Bids, J!None
  <2> QED
    BY <1>1, <2>2 DEF JobInv, AwardInv
<1> QED
  BY <1>1, JobInvariance, PTL

\* What a step does to the commission and to the status of the job.
LEMMA CommissionStep ==
    ASSUME JobInv, [JobsNext]_jobVars, ~ contested',
           NEW c \in commission, c.status # "DUE"
    PROVE  c \in commission'
<1>1. CASE commission' = commission
  BY <1>1
<1>2. ASSUME NEW d \in due, J!Charge(d) PROVE c \in commission'
  BY <1>2 DEF J!Charge
<1>3. ASSUME NEW q \in Callers, J!SettleWrites(q), JobsNext PROVE c \in commission'
  <2>1. q \in Settling
    BY <1>3 DEF J!SettleWrites, Settling
  <2>2. ~ contested
    BY <1>3, RememberedFact DEF Remembered
  <2> QED
    BY <2>1, <2>2 DEF JobInv, SettledInv
<1>4. CASE UNCHANGED jobVars
  BY <1>1, <1>4 DEF jobVars, J!vars
<1>5. CASE JobsNext
  <2>1. J!Next
    BY <1>5 DEF JobsNext
  <2> QED
    BY <1>1, <1>2, <1>3, <1>5, <2>1 DEF J!Next, J!BidArrives, J!BidReads,
       J!BidWrites, J!AcceptReads, J!AcceptClaims, J!AcceptLoses, J!RejectReads,
       J!RejectWrites, J!LogReadsJob, J!LogChecks, J!LogWrites, J!CompleteReads,
       J!CompleteWrites, J!SettleReads, J!ChargeFails, J!Crash
<1> QED
  BY <1>4, <1>5

LEMMA StatusStep ==
    ASSUME JobInv, [JobsNext]_jobVars
    PROVE  \/ Rank(job') >= Rank(job)
           \/ \E q \in Callers :
                 /\ call[q].step = "logged" /\ call[q].saw = "AWARDED"
                 /\ call'[q].step = "done"
<1>1. job \in Jobs
  BY DEF JobInv, JobShape
<1>2. /\ Rank("OPEN") = 0 /\ Rank("AWARDED") = 1
      /\ Rank("IN_PROGRESS") = 2 /\ Rank("COMPLETED") = 3
  BY DEF Rank
<1>3. Rank(job) \in 0..3
  BY <1>1, <1>2 DEF Jobs
<1>4. CASE job' = job
  BY <1>3, <1>4
<1>5. CASE job' = "COMPLETED"
  BY <1>2, <1>3, <1>5
<1>6. CASE job = "OPEN" /\ job' = "AWARDED"
  BY <1>2, <1>6
<1>7. ASSUME NEW q \in Callers, J!LogWrites(q), job' # job
      PROVE  /\ call[q].step = "logged" /\ call[q].saw = "AWARDED"
             /\ call'[q].step = "done"
  <2>1. call'[q] = Done
    BY <1>7, FinishEnds DEF J!LogWrites
  <2> QED
    BY <1>7, <2>1, DoneFact DEF J!LogWrites
<1>8. CASE UNCHANGED jobVars
  BY <1>4, <1>8 DEF jobVars, J!vars
<1>9. CASE JobsNext
  <2>1. J!Next
    BY <1>9 DEF JobsNext
  <2> QED
    BY <1>4, <1>5, <1>6, <1>7, <2>1 DEF J!Next, J!BidArrives, J!BidReads,
       J!BidWrites, J!AcceptReads, J!AcceptClaims, J!AcceptLoses, J!RejectReads,
       J!RejectWrites, J!LogReadsJob, J!LogChecks, J!CompleteReads,
       J!CompleteWrites, J!SettleReads, J!SettleWrites, J!Charge, J!ChargeFails,
       J!Crash
<1> QED
  BY <1>8, <1>9

\* What is over stays over: the job goes forward, except that a work log which
\* saw it AWARDED writes IN_PROGRESS over a completion; a settled commission
\* stays as it was settled, and has a date of payment exactly when it is paid,
\* unless two requests settle it at once (addWorkLog, markPaid, waive).
THEOREM ForwardOnly == JobsSpec => OnlyForward
<1>1. JobInv /\ JobInv' /\ [JobsNext]_jobVars =>
         /\ \/ Rank(job') >= Rank(job)
            \/ \E q \in Callers :
                  /\ call[q].step = "logged" /\ call[q].saw = "AWARDED"
                  /\ call'[q].step = "done"
         /\ \/ contested'
            \/ /\ \A c \in commission : c.status # "DUE" => c \in commission'
               /\ \A c \in commission' : c.paidAt <=> c.status = "PAID"
  <2> SUFFICES ASSUME JobInv, JobInv', [JobsNext]_jobVars, ~ contested'
               PROVE  /\ \A c \in commission : c.status # "DUE" => c \in commission'
                      /\ \A c \in commission' : c.paidAt <=> c.status = "PAID"
    BY StatusStep
  <2>1. \A c \in commission' : c.paidAt <=> c.status = "PAID"
    BY DEF JobInv, SettledInv
  <2> QED
    BY <2>1, CommissionStep
<1> QED
  BY <1>1, JobInvariance, PTL DEF JobsSpec, OnlyForward, jobVars
-----------------------------------------------------------------------------
(***************************************************************************)
(* Points and AuditLog, for any calls, amounts, references, entries and     *)
(* processes                                                                *)
(***************************************************************************)
LEMMA PointsGiven ==
    /\ Deltas \subseteq Int
    /\ MaxRows \in Nat
    /\ Shuffled \subseteq Entries
    /\ NoEntry \notin Entries
BY PointConstants, NoEntryAssumption DEF P!PointAssumptions, P!AuditAssumptions

Reasons == {"ONTIME_PAYMENT", "MANUAL_ADJ", "REDEEM"}
Transactions ==
    [reason : Reasons, ref : Refs \cup {NoRef}, delta : Int, after : Int]
Asks == [step : {"idle", "read", "commit", "audit", "redeem", "enter"},
         reason : Reasons \cup {"none"}, ref : Refs \cup {NoRef},
         delta : Int, seen : Int]

\* Nobody is to write a balance below zero, and a redeem refers to nothing.
PointsShape ==
    /\ balance \in Nat
    /\ ledger \in Seq(Transactions)
    /\ asked \in [Askers -> Asks]
    /\ \A q \in Askers :
          /\ asked[q].step \in {"commit", "redeem", "enter"} =>
                asked[q].seen + asked[q].delta >= 0
          /\ asked[q].step # "idle" => asked[q].reason \in Reasons
          /\ asked[q].step \in {"redeem", "enter"} => asked[q].ref = NoRef

OnceInv ==
    \A j, k \in DOMAIN ledger :
        j # k /\ ledger[j].ref # NoRef =>
           ~ (ledger[j].reason = ledger[k].reason /\ ledger[j].ref = ledger[k].ref)

\* The balance after the last row.
Reached == IF ledger = <<>> THEN 0 ELSE ledger[Len(ledger)].after

Total(rows) ==
    SumFunctionOnSet([k \in DOMAIN rows |-> rows[k].delta], DOMAIN rows)

\* One call at a time: what it has read is the balance still, which is the last
\* row's but between the two writes of a redeem.
AloneInv ==
    ~ muddled =>
        /\ \A q, r \in OnUser : q = r
        /\ \A q \in Askers :
              /\ asked[q].step \in {"commit", "redeem"} => asked[q].seen = balance
              /\ asked[q].step = "enter" =>
                    /\ asked[q].seen = Reached
                    /\ balance = asked[q].seen + asked[q].delta
        /\ (\A q \in Askers : asked[q].step # "enter") => balance = Reached
        /\ \A k \in DOMAIN ledger :
              ledger[k].after =
                 ledger[k].delta + IF k = 1 THEN 0 ELSE ledger[k - 1].after
        /\ Reached = Total(ledger)

PointsInv == PointsShape /\ OnceInv /\ AloneInv

TailHash == IF log = <<>> THEN NoHash ELSE log[Len(log)].hash

AuditShape ==
    /\ \E R : log \in Seq(R)
    /\ \A k \in DOMAIN log :
          log[k].hash = P!Hash(P!AsPassed(log[k].entry), log[k].prev)
    /\ cache = [p \in Processes |-> cache[p]]
    /\ write = [e \in Entries |-> [step |-> write[e].step, by |-> write[e].by,
                                   prev |-> write[e].prev]]
    /\ \A e \in Entries : write[e].step # "none" => write[e].by \in Processes

\* Two writes that go on beside each other are known to, and beside the last
\* one, unless that has overlapped another, there is none.
BesideInv ==
    /\ \A e, f \in Writing : e # f => e \in beside
    /\ latest \in Entries \cup {NoEntry}
    /\ beside \subseteq Entries
    /\ latest \notin beside => Writing \subseteq {latest}
    /\ latest = NoEntry => \A p \in Processes : cache[p] = NoHash

\* A write that overlaps none and is in step is chained to the last row.
ChainedInv ==
    /\ \A e \in Entries \ (beside \cup unhinged) :
          write[e].step = "create" => write[e].prev = TailHash
    /\ latest \in Entries \ beside =>
          LET passed == P!Hash(P!AsPassed(latest), write[latest].prev)
              by == write[latest].by IN
          /\ write[latest].step \in {"create", "done"} => cache[by] \in {NoHash, passed}
          /\ write[latest].step = "done" => log # <<>> /\ TailHash = passed
    /\ \A k \in DOMAIN log :
          log[k].entry \notin beside \cup unhinged =>
             log[k].prev = IF k = 1 THEN NoHash ELSE log[k - 1].hash

AuditInv == AuditShape /\ BesideInv /\ ChainedInv
-----------------------------------------------------------------------------
\* A sequence with one element more.
LEMMA Appended ==
    ASSUME NEW R, NEW s \in Seq(R), NEW x
    PROVE  /\ Append(s, x) \in Seq(R \cup {x})
           /\ Len(s) \in Nat /\ DOMAIN s = 1..Len(s)
           /\ Len(Append(s, x)) = Len(s) + 1
           /\ DOMAIN Append(s, x) = 1..(Len(s) + 1)
           /\ \A k \in 1..Len(s) : Append(s, x)[k] = s[k]
           /\ Append(s, x)[Len(s) + 1] = x
           /\ Append(s, x) # <<>>
           /\ s = <<>> <=> Len(s) = 0
<1>1. s \in Seq(R \cup {x})
  OBVIOUS
<1> QED
  BY <1>1

\* A row more is its points more.
LEMMA TotalGrows ==
    ASSUME NEW s \in Seq(Transactions), NEW x \in Transactions
    PROVE  /\ Total(s) \in Int
           /\ Total(Append(s, x)) = Total(s) + x.delta
<1> DEFINE t == Append(s, x)
           n == Len(s) + 1
           f == [k \in DOMAIN s |-> s[k].delta]
           g == [k \in DOMAIN t |-> t[k].delta]
<1>1. /\ Len(s) \in Nat /\ n \in Nat
      /\ DOMAIN s = 1..Len(s) /\ DOMAIN t = 1..n
      /\ \A k \in 1..Len(s) : s[k] \in Transactions /\ t[k] = s[k]
      /\ t[n] = x
  BY Appended
<1>2. /\ IsFiniteSet(1..Len(s)) /\ IsFiniteSet(1..n)
      /\ (1..n) \ {n} = 1..Len(s)
      /\ n \in 1..n
  <2>1. (1..n) \ {n} = 1..Len(s) /\ n \in 1..n
    BY <1>1
  <2>2. IsFiniteSet(1..Len(s)) /\ IsFiniteSet(1..n)
    BY <1>1, FS_Interval
  <2> QED
    BY <2>1, <2>2
<1>n. \A k \in 1..n : k = n \/ k \in 1..Len(s)
  BY <1>1
<1> HIDE DEF t, n
<1>3. /\ \A k \in 1..Len(s) : f[k] \in Int /\ g[k] = f[k]
      /\ g[n] = x.delta /\ x.delta \in Int
  BY <1>1, <1>2 DEF Transactions
<1>4. \A k \in 1..n : g[k] \in Int
  BY <1>3, <1>n
<1> HIDE DEF f, g
<1>5. SumFunctionOnSet(g, 1..n) = g[n] + SumFunctionOnSet(g, (1..n) \ {n})
  BY <1>2, <1>4, SumRemove
<1>6. SumFunctionOnSet(g, 1..Len(s)) = SumFunctionOnSet(f, 1..Len(s))
  BY <1>2, <1>3, SumSame
<1>7. SumFunctionOnSet(f, 1..Len(s)) \in Int
  BY <1>2, <1>3, SumRemove
<1>8. /\ Total(s) = SumFunctionOnSet(f, 1..Len(s))
      /\ Total(t) = SumFunctionOnSet(g, 1..n)
  BY <1>1 DEF Total, f, g
<1> QED
  <2>1. Total(t) = x.delta + Total(s) /\ Total(s) \in Int
    BY <1>2, <1>3, <1>5, <1>6, <1>7, <1>8
  <2> QED
    BY <1>3, <2>1 DEF t

LEMMA TotalsAgree ==
    ASSUME NEW s
    PROVE  SumFunction([k \in DOMAIN s |-> s[k].delta]) = Total(s)
BY DEF SumFunction, Total
-----------------------------------------------------------------------------
\* What Record notes of a step on the points.
Noted ==
    ~ muddled' =>
        /\ ~ muddled
        /\ \A q, r \in Askers :
              /\ asked'[q].step \in {"read", "commit", "redeem", "enter"}
              /\ asked'[r].step \in {"read", "commit", "redeem", "enter"}
              => q = r
        /\ \A q \in Askers :
              asked[q].step = "enter" /\ asked'[q] = P!Idle =>
                 Len(ledger') # Len(ledger)

LEMMA NotedFact == PointsNoted => Noted
BY DEF PointsNoted, OnUser, Noted

LEMMA PointsStart == ASSUME PointsInit PROVE PointsInv
<1>1. asked = [q \in Askers |-> P!Idle] /\ balance = 0 /\ ledger = <<>>
  BY DEF PointsInit, P!Init, P!PointsInit
<1>2. /\ P!Idle \in Asks /\ P!Idle.step = "idle"
  BY DEF P!Idle, Asks
<1>3. PointsShape
  BY <1>1, <1>2 DEF PointsShape
<1>4. OnceInv
  BY <1>1 DEF OnceInv
<1>5. Total(ledger) = 0
  BY <1>1, SumEmpty DEF Total
<1>6. AloneInv
  BY <1>1, <1>2, <1>5 DEF AloneInv, OnUser, Reached
<1> QED
  BY <1>3, <1>4, <1>6 DEF PointsInv

\* A call that leaves the balance and the ledger alone.
LEMMA AskMoves ==
    ASSUME PointsInv, Noted, NEW q \in Askers, NEW c \in Asks,
           asked' = [asked EXCEPT ![q] = c], UNCHANGED <<balance, ledger>>,
           c.step \in {"commit", "redeem"} =>
              c.seen = balance /\ c.seen + c.delta >= 0,
           c.step = "redeem" => c.ref = NoRef,
           c.step # "enter",
           c.step # "idle" => c.reason \in Reasons,
           asked[q].step = "enter" => c = P!Idle
    PROVE  PointsInv'
<1>1. /\ asked[q] \in Asks
      /\ \A r \in Askers : asked'[r] = IF r = q THEN c ELSE asked[r]
      /\ asked' \in [Askers -> Asks]
  BY DEF PointsInv, PointsShape
<1>2. PointsShape'
  <2>1. \A r \in Askers :
          /\ asked'[r].step \in {"commit", "redeem", "enter"} =>
                asked'[r].seen + asked'[r].delta >= 0
          /\ asked'[r].step # "idle" => asked'[r].reason \in Reasons
          /\ asked'[r].step \in {"redeem", "enter"} => asked'[r].ref = NoRef
    BY <1>1 DEF PointsInv, PointsShape
  <2> QED
    BY <1>1, <2>1 DEF PointsInv, PointsShape
<1>3. OnceInv'
  BY DEF PointsInv, OnceInv
<1>4. ASSUME ~ muddled' PROVE AloneInv'
  <2>1. /\ ~ muddled
        /\ \A r, o \in OnUser' : r = o
        /\ asked[q].step # "enter"
    BY <1>1, <1>4 DEF Noted, OnUser
  <2>2. Reached' = Reached /\ Total(ledger)' = Total(ledger)
    BY DEF Reached, Total
  <2>3. \A r \in Askers :
          /\ asked'[r].step \in {"commit", "redeem"} => asked'[r].seen = balance'
          /\ asked'[r].step = "enter" =>
                /\ asked'[r].seen = Reached'
                /\ balance' = asked'[r].seen + asked'[r].delta
    BY <1>1, <2>1, <2>2 DEF PointsInv, AloneInv
  <2>4. (\A r \in Askers : asked'[r].step # "enter") => balance' = Reached'
    BY <1>1, <2>1, <2>2 DEF PointsInv, AloneInv
  <2>5. /\ \A k \in DOMAIN ledger' :
              ledger'[k].after =
                 ledger'[k].delta + IF k = 1 THEN 0 ELSE ledger'[k - 1].after
        /\ Reached' = Total(ledger)'
    BY <2>1, <2>2 DEF PointsInv, AloneInv
  <2> QED
    BY <2>1, <2>3, <2>4, <2>5 DEF AloneInv
<1>5. AloneInv'
  BY <1>4 DEF AloneInv
<1> QED
  BY <1>2, <1>3, <1>5 DEF PointsInv

\* A row more that the ledger does not refuse.
LEMMA RowEnters ==
    ASSUME PointsInv, NEW x \in Transactions, ledger' = Append(ledger, x),
           x.ref # NoRef => ~ P!InLedger(x.reason, x.ref)
    PROVE  /\ ledger' \in Seq(Transactions)
           /\ OnceInv'
           /\ Len(ledger') # Len(ledger)
           /\ Reached' = x.after
           /\ Total(ledger)' = Total(ledger) + x.delta
           /\ Total(ledger) \in Int
           /\ Reached \in Int
           /\ ~ muddled /\ x.after = x.delta + Reached =>
                 \A k \in DOMAIN ledger' :
                    ledger'[k].after =
                       ledger'[k].delta + IF k = 1 THEN 0 ELSE ledger'[k - 1].after
<1>1. /\ Len(ledger) \in Nat /\ DOMAIN ledger = 1..Len(ledger)
      /\ Len(ledger') = Len(ledger) + 1
      /\ DOMAIN ledger' = 1..(Len(ledger) + 1)
      /\ \A k \in 1..Len(ledger) :
            ledger[k] \in Transactions /\ ledger'[k] = ledger[k]
      /\ ledger'[Len(ledger) + 1] = x
      /\ ledger' # <<>>
      /\ ledger = <<>> <=> Len(ledger) = 0
      /\ ledger' \in Seq(Transactions)
  BY Appended DEF PointsInv, PointsShape
<1>2. \A k \in DOMAIN ledger' : k \in DOMAIN ledger \/ k = Len(ledger) + 1
  BY <1>1
<1>3. OnceInv'
  <2> SUFFICES ASSUME NEW j \in DOMAIN ledger', NEW k \in DOMAIN ledger',
                      j # k, ledger'[j].ref # NoRef
               PROVE  ~ (/\ ledger'[j].reason = ledger'[k].reason
                         /\ ledger'[j].ref = ledger'[k].ref)
    BY DEF OnceInv
  <2>1. CASE j \in DOMAIN ledger /\ k \in DOMAIN ledger
    BY <1>1, <2>1 DEF PointsInv, OnceInv
  <2>2. CASE j = Len(ledger) + 1 /\ k \in DOMAIN ledger
    BY <1>1, <2>2 DEF P!InLedger
  <2>3. CASE j \in DOMAIN ledger /\ k = Len(ledger) + 1
    BY <1>1, <2>3 DEF P!InLedger
  <2> QED
    BY <1>2, <2>1, <2>2, <2>3
<1>4. Len(ledger') # Len(ledger) /\ Reached' = x.after
  <2>1. Len(ledger') # Len(ledger)
    <3>1. Len(ledger) \in Nat /\ Len(ledger') = Len(ledger) + 1
      BY <1>1
    <3> QED
      BY <3>1
  <2>2. Reached' = ledger'[Len(ledger')].after
    BY <1>1 DEF Reached
  <2> QED
    BY <1>1, <2>1, <2>2
<1>5. Total(ledger)' = Total(ledger) + x.delta /\ Total(ledger) \in Int
  BY TotalGrows DEF PointsInv, PointsShape, Total
<1>6. Reached \in Int
  BY <1>1 DEF Reached, Transactions
<1>7. ASSUME ~ muddled, x.after = x.delta + Reached, NEW k \in DOMAIN ledger'
      PROVE  ledger'[k].after =
                ledger'[k].delta + IF k = 1 THEN 0 ELSE ledger'[k - 1].after
  <2>1. CASE k \in DOMAIN ledger
    <3>1. k \in 1..Len(ledger) /\ (k # 1 => k - 1 \in 1..Len(ledger))
      BY <1>1, <2>1
    <3> QED
      BY <1>1, <1>7, <3>1 DEF PointsInv, AloneInv
  <2>2. CASE k = Len(ledger) + 1
    <3>1. CASE ledger = <<>>
      BY <1>1, <1>7, <2>2, <3>1 DEF Reached
    <3>2. CASE ledger # <<>>
      <4>1. k # 1 /\ k - 1 = Len(ledger) /\ k - 1 \in 1..Len(ledger)
        BY <1>1, <2>2, <3>2
      <4> QED
        BY <1>1, <1>7, <2>2, <3>2, <4>1 DEF Reached
    <3> QED
      BY <3>1, <3>2
  <2> QED
    BY <1>2, <2>1, <2>2
<1> QED
  BY <1>1, <1>3, <1>4, <1>5, <1>6, <1>7

\* The end of a call: its row is entered, and the balance is the one on it.
LEMMA RowStep ==
    ASSUME PointsInv, Noted, NEW q \in Askers, NEW c \in Asks,
           asked' = [asked EXCEPT ![q] = c],
           c.step \in {"idle", "audit"},
           c.step # "idle" => c.reason \in Reasons,
           asked[q].step \in {"commit", "enter"},
           asked[q].step = "enter" => balance' = balance,
           asked[q].step = "commit" => balance' = P!After(q),
           asked[q].ref # NoRef => ~ P!InLedger(asked[q].reason, asked[q].ref),
           P!Enter(q)
    PROVE  PointsInv'
<1> DEFINE x == [reason |-> asked[q].reason, ref |-> asked[q].ref,
                 delta |-> asked[q].delta, after |-> P!After(q)]
<1>1. /\ asked[q] \in Asks
      /\ asked[q].reason \in Reasons
      /\ asked[q].seen + asked[q].delta \in Nat
      /\ balance \in Nat
      /\ \A r \in Askers : asked'[r] = IF r = q THEN c ELSE asked[r]
      /\ asked' \in [Askers -> Asks]
  BY DEF PointsInv, PointsShape, Asks
<1>2. /\ x \in Transactions /\ ledger' = Append(ledger, x)
      /\ x.ref = asked[q].ref /\ x.reason = asked[q].reason
      /\ x.delta = asked[q].delta
      /\ x.after = asked[q].seen + asked[q].delta
  BY <1>1 DEF P!Enter, P!After, Transactions, Asks
<1> HIDE DEF x
<1>3. /\ ledger' \in Seq(Transactions)
      /\ OnceInv'
      /\ Reached' = x.after
      /\ Total(ledger)' = Total(ledger) + x.delta
      /\ Total(ledger) \in Int
      /\ Reached \in Int
      /\ ~ muddled /\ x.after = x.delta + Reached =>
            \A k \in DOMAIN ledger' :
               ledger'[k].after =
                  ledger'[k].delta + IF k = 1 THEN 0 ELSE ledger'[k - 1].after
  BY <1>2, RowEnters
<1>4. PointsShape'
  <2>1. balance' \in Nat
    BY <1>1 DEF P!After
  <2>2. \A r \in Askers :
          /\ asked'[r].step \in {"commit", "redeem", "enter"} =>
                asked'[r].seen + asked'[r].delta >= 0
          /\ asked'[r].step # "idle" => asked'[r].reason \in Reasons
          /\ asked'[r].step \in {"redeem", "enter"} => asked'[r].ref = NoRef
    BY <1>1 DEF PointsInv, PointsShape
  <2> QED
    BY <1>1, <1>3, <2>1, <2>2 DEF PointsShape
<1>5. ASSUME ~ muddled' PROVE AloneInv'
  <2>1. /\ ~ muddled
        /\ \A r \in Askers :
              asked[r].step \in {"read", "commit", "redeem", "enter"} => r = q
    BY <1>1, <1>5 DEF Noted, PointsInv, AloneInv, OnUser
  <2>3. \A r \in Askers :
           ~ asked'[r].step \in {"read", "commit", "redeem", "enter"}
    BY <1>1, <2>1
  <2>4. x.after = x.delta + Reached /\ balance' = x.after
    <3>1. asked[q].delta \in Int /\ asked[q].seen \in Int
      BY <1>1 DEF Asks
    <3>2. CASE asked[q].step = "enter"
      <4>1. asked[q].seen = Reached /\ balance = asked[q].seen + asked[q].delta
        BY <2>1, <3>2 DEF PointsInv, AloneInv
      <4> QED
        BY <1>2, <1>3, <3>1, <3>2, <4>1
    <3>3. CASE asked[q].step = "commit"
      <4>1. asked[q].seen = balance
        BY <2>1, <3>3 DEF PointsInv, AloneInv
      <4>2. balance = Reached
        <5>1. \A r \in Askers : asked[r].step # "enter"
          BY <2>1, <3>3
        <5> QED
          BY <2>1, <5>1 DEF PointsInv, AloneInv
      <4> QED
        BY <1>2, <1>3, <3>1, <3>3, <4>1, <4>2 DEF P!After
    <3> QED
      BY <3>2, <3>3
  <2>5. Reached' = Total(ledger)'
    <3>1. Reached = Total(ledger)
      BY <2>1 DEF PointsInv, AloneInv
    <3> QED
      BY <1>1, <1>2, <1>3, <2>4, <3>1 DEF Asks
  <2> QED
    BY <1>3, <2>1, <2>3, <2>4, <2>5 DEF AloneInv, OnUser
<1>6. AloneInv'
  BY <1>5 DEF AloneInv
<1> QED
  BY <1>3, <1>4, <1>6 DEF PointsInv

LEMMA RedeemStep ==
    ASSUME PointsInv, Noted, NEW q \in Askers, P!RedeemWrites(q)
    PROVE  PointsInv'
<1> DEFINE c == [asked[q] EXCEPT !.step = "enter"]
<1>1. /\ asked[q] \in Asks /\ asked[q].step = "redeem"
      /\ asked[q].seen \in Int /\ asked[q].delta \in Int
      /\ asked[q].seen + asked[q].delta \in Nat
      /\ asked[q].reason \in Reasons
      /\ asked[q].ref = NoRef
      /\ balance' = asked[q].seen + asked[q].delta
      /\ UNCHANGED ledger
  BY DEF PointsInv, PointsShape, Asks, P!RedeemWrites, P!After
<1>2. /\ c \in Asks /\ c.step = "enter" /\ c.reason = asked[q].reason
      /\ c.ref = asked[q].ref /\ c.delta = asked[q].delta /\ c.seen = asked[q].seen
      /\ asked' = [asked EXCEPT ![q] = c]
  BY <1>1 DEF P!RedeemWrites, P!Goto, Asks, PointsInv, PointsShape
<1> HIDE DEF c
<1>3. /\ \A r \in Askers : asked'[r] = IF r = q THEN c ELSE asked[r]
      /\ asked' \in [Askers -> Asks]
  BY <1>2 DEF PointsInv, PointsShape
<1>4. PointsShape'
  <2>1. \A r \in Askers :
          /\ asked'[r].step \in {"commit", "redeem", "enter"} =>
                asked'[r].seen + asked'[r].delta >= 0
          /\ asked'[r].step # "idle" => asked'[r].reason \in Reasons
          /\ asked'[r].step \in {"redeem", "enter"} => asked'[r].ref = NoRef
    BY <1>1, <1>2, <1>3 DEF PointsInv, PointsShape
  <2> QED
    BY <1>1, <1>3, <2>1 DEF PointsInv, PointsShape
<1>5. OnceInv'
  BY <1>1 DEF PointsInv, OnceInv
<1>6. ASSUME ~ muddled' PROVE AloneInv'
  <2>1. /\ ~ muddled
        /\ \A r \in Askers :
              asked[r].step \in {"read", "commit", "redeem", "enter"} => r = q
    BY <1>1, <1>6 DEF Noted, PointsInv, AloneInv, OnUser
  <2>2. \A r, o \in OnUser' : r = o
    BY <1>6 DEF Noted, OnUser
  <2>3. Reached' = Reached /\ Total(ledger)' = Total(ledger)
    BY <1>1 DEF Reached, Total
  <2>4. asked[q].seen = Reached
    <3>1. \A r \in Askers : asked[r].step # "enter"
      BY <1>1, <2>1
    <3> QED
      BY <1>1, <2>1, <3>1 DEF PointsInv, AloneInv
  <2>5. \A r \in Askers :
          /\ asked'[r].step \in {"commit", "redeem"} => asked'[r].seen = balance'
          /\ asked'[r].step = "enter" =>
                /\ asked'[r].seen = Reached'
                /\ balance' = asked'[r].seen + asked'[r].delta
    BY <1>1, <1>2, <1>3, <2>1, <2>3, <2>4
  <2>6. asked'[q].step = "enter"
    BY <1>2, <1>3
  <2>7. /\ \A k \in DOMAIN ledger' :
              ledger'[k].after =
                 ledger'[k].delta + IF k = 1 THEN 0 ELSE ledger'[k - 1].after
        /\ Reached' = Total(ledger)'
    BY <1>1, <2>1, <2>3 DEF PointsInv, AloneInv
  <2> QED
    BY <2>2, <2>5, <2>6, <2>7 DEF AloneInv
<1>7. AloneInv'
  BY <1>6 DEF AloneInv
<1> QED
  BY <1>4, <1>5, <1>7 DEF PointsInv
-----------------------------------------------------------------------------
LEMMA IdleFact == P!Idle \in Asks /\ P!Idle.step = "idle"
BY DEF P!Idle, Asks

\* The call is over, with no row.
LEMMA CallEnds ==
    ASSUME PointsInv, Noted, NEW q \in Askers, P!Finish(q),
           UNCHANGED <<balance, ledger>>
    PROVE  PointsInv'
<1>1. asked' = [asked EXCEPT ![q] = P!Idle]
  BY DEF P!Finish
<1> QED
  BY <1>1, IdleFact, AskMoves

\* A call on the points begins.
LEMMA CallBegins ==
    ASSUME PointsInv, Noted, NEW q \in Askers,
           NEW step \in {"read", "redeem"}, NEW reason \in Reasons,
           NEW ref \in Refs \cup {NoRef}, NEW delta \in Int, NEW seen \in Int,
           P!Call(q, step, reason, ref, delta, seen),
           step = "redeem" =>
              seen = balance /\ seen + delta >= 0 /\ ref = NoRef,
           UNCHANGED <<balance, ledger>>
    PROVE  PointsInv'
<1> DEFINE c == [step |-> step, reason |-> reason, ref |-> ref,
                 delta |-> delta, seen |-> seen]
<1>1. /\ c \in Asks /\ c.step = step /\ c.reason = reason /\ c.ref = ref
      /\ c.delta = delta /\ c.seen = seen
  BY DEF Asks, Reasons
<1>2. asked' = [asked EXCEPT ![q] = c] /\ asked[q] = P!Idle
  BY DEF P!Call
<1> HIDE DEF c
<1>3. c.step \in {"commit", "redeem"} => c.seen = balance /\ c.seen + c.delta >= 0
  BY <1>1
<1>4. c.step = "redeem" => c.ref = NoRef
  BY <1>1
<1> QED
  BY <1>1, <1>2, <1>3, <1>4, IdleFact, AskMoves

LEMMA AskStep ==
    ASSUME PointsInv, Noted, NEW q \in Askers,
           NEW delta \in Deltas,
           \/ \E ref \in Refs \cup {NoRef} :
                 \/ P!EarnStarts(q, "ONTIME_PAYMENT", ref, delta)
                 \/ P!AdjustStarts(q, ref, delta)
           \/ P!RedeemReads(q, delta)
    PROVE  PointsInv'
<1>1. delta \in Int /\ -delta \in Int /\ balance \in Int
  BY PointsGiven DEF PointsInv, PointsShape
<1>2. CASE \E ref \in Refs \cup {NoRef} :
              \/ P!EarnStarts(q, "ONTIME_PAYMENT", ref, delta)
              \/ P!AdjustStarts(q, ref, delta)
  <2>1. PICK ref \in Refs \cup {NoRef} :
              \/ P!EarnStarts(q, "ONTIME_PAYMENT", ref, delta)
              \/ P!AdjustStarts(q, ref, delta)
    BY <1>2
  <2>2. PICK reason \in Reasons : P!Call(q, "read", reason, ref, delta, 0)
    BY <2>1 DEF P!EarnStarts, P!AdjustStarts, Reasons
  <2>3. UNCHANGED <<balance, ledger>>
    BY <2>1 DEF P!EarnStarts, P!AdjustStarts
  <2> QED
    BY <1>1, <2>2, <2>3, CallBegins
<1>3. CASE P!RedeemReads(q, delta)
  <2>1. /\ P!Call(q, "redeem", "REDEEM", NoRef, -delta, balance)
        /\ balance >= delta
        /\ UNCHANGED <<balance, ledger>>
    BY <1>3 DEF P!RedeemReads
  <2>2. balance + (-delta) >= 0
    BY <1>1, <2>1
  <2> QED
    BY <1>1, <2>1, <2>2, CallBegins DEF Reasons
<1> QED
  BY <1>2, <1>3

LEMMA ReadStep ==
    ASSUME PointsInv, Noted, NEW q \in Askers, P!TxReads(q)
    PROVE  PointsInv'
<1>1. asked[q].step = "read" /\ UNCHANGED <<balance, ledger>>
  BY DEF P!TxReads
<1>2. CASE P!Finish(q)
  BY <1>1, <1>2, CallEnds
<1>3. CASE ~ P!Finish(q)
  <2> DEFINE c == [asked[q] EXCEPT !.step = "commit", !.seen = balance]
  <2>1. /\ asked[q] \in Asks /\ balance \in Int
        /\ balance + asked[q].delta >= 0
        /\ asked[q].reason \in Reasons
        /\ asked' = [asked EXCEPT ![q] = c]
    <3>1. /\ asked[q] \in Asks /\ asked[q].reason \in Reasons
          /\ balance \in Int /\ DOMAIN asked = Askers
      BY <1>1 DEF PointsInv, PointsShape
    <3>2. /\ balance + asked[q].delta >= 0
          /\ asked' = [asked EXCEPT ![q].step = "commit", ![q].seen = balance]
      BY <1>3 DEF P!TxReads
    <3>3. asked' = [asked EXCEPT ![q] = c]
      BY <3>1, <3>2
    <3> QED
      BY <3>1, <3>2, <3>3
  <2>2. /\ c \in Asks /\ c.step = "commit" /\ c.seen = balance
        /\ c.delta = asked[q].delta /\ c.reason = asked[q].reason
    BY <2>1 DEF Asks
  <2> HIDE DEF c
  <2> QED
    BY <1>1, <2>1, <2>2, AskMoves
<1> QED
  BY <1>2, <1>3

LEMMA CommitStep ==
    ASSUME PointsInv, Noted, NEW q \in Askers, P!TxCommits(q)
    PROVE  PointsInv'
<1>1. /\ asked[q].step = "commit" /\ asked[q] \in Asks
      /\ asked[q].reason \in Reasons
      /\ balance' = P!After(q) /\ P!Enter(q)
      /\ asked[q].ref # NoRef => ~ P!InLedger(asked[q].reason, asked[q].ref)
  BY DEF P!TxCommits, P!Unique, PointsInv, PointsShape
<1> DEFINE c == [asked[q] EXCEPT !.step = "audit"]
<1>2. c \in Asks /\ c.step = "audit" /\ c.reason = asked[q].reason
  BY <1>1 DEF Asks
<1>3. \/ asked' = [asked EXCEPT ![q] = c]
      \/ asked' = [asked EXCEPT ![q] = P!Idle]
  BY DEF P!TxCommits, P!Goto, P!Finish, PointsInv, PointsShape
<1> HIDE DEF c
<1>4. CASE asked' = [asked EXCEPT ![q] = c]
  BY <1>1, <1>2, <1>4, RowStep
<1>5. CASE asked' = [asked EXCEPT ![q] = P!Idle]
  BY <1>1, <1>5, IdleFact, RowStep
<1> QED
  BY <1>3, <1>4, <1>5

LEMMA RedeemEntersStep ==
    ASSUME PointsInv, Noted, NEW q \in Askers, P!RedeemEnters(q)
    PROVE  PointsInv'
<1>1. /\ asked[q].step = "enter" /\ asked[q].ref = NoRef
      /\ balance' = balance /\ P!Enter(q)
      /\ asked' = [asked EXCEPT ![q] = P!Idle]
  BY DEF P!RedeemEnters, P!Finish, PointsInv, PointsShape
<1> QED
  BY <1>1, IdleFact, RowStep

\* An audit entry, or a process that stops.
LEMMA PointsStay ==
    ASSUME PointsInv, Noted \/ muddled' = muddled, UNCHANGED P!pointVars
    PROVE  PointsInv'
<1>1. UNCHANGED <<balance, ledger, asked>>
  BY DEF P!pointVars
<1>2. PointsShape' /\ OnceInv'
  BY <1>1 DEF PointsInv, PointsShape, OnceInv
<1>3. ~ muddled' => ~ muddled
  BY DEF Noted
<1>4. /\ OnUser' = OnUser /\ Reached' = Reached
      /\ Total(ledger)' = Total(ledger)
  BY <1>1 DEF OnUser, Reached, Total
<1>5. AloneInv'
  BY <1>1, <1>3, <1>4 DEF PointsInv, AloneInv
<1> QED
  BY <1>2, <1>5 DEF PointsInv

LEMMA PointsNext ==
    ASSUME PointsInv, P!Next, Noted
    PROVE  PointsInv'
<1>1. ASSUME NEW q \in Askers,
             \E delta \in Deltas :
                \/ \E ref \in Refs \cup {NoRef} :
                      \/ P!EarnStarts(q, "ONTIME_PAYMENT", ref, delta)
                      \/ P!AdjustStarts(q, ref, delta)
                \/ P!RedeemReads(q, delta)
      PROVE  PointsInv'
  BY <1>1, AskStep
<1>2. ASSUME NEW q \in Askers, P!TxReads(q) PROVE PointsInv'
  BY <1>2, ReadStep
<1>3. ASSUME NEW q \in Askers, P!TxCommits(q) PROVE PointsInv'
  BY <1>3, CommitStep
<1>4. ASSUME NEW q \in Askers, P!TxRollsBack(q) \/ P!AdjustStops(q) \/ P!RedeemFails(q)
      PROVE  PointsInv'
  BY <1>4, CallEnds DEF P!TxRollsBack, P!AdjustStops, P!RedeemFails
<1>5. ASSUME NEW q \in Askers, NEW e \in Shuffled, NEW p \in Processes,
             P!AdjustAudits(q, e, p)
      PROVE  PointsInv'
  BY <1>5, CallEnds DEF P!AdjustAudits
<1>6. ASSUME NEW q \in Askers, P!RedeemWrites(q) PROVE PointsInv'
  BY <1>6, RedeemStep
<1>7. ASSUME NEW q \in Askers, P!RedeemEnters(q) PROVE PointsInv'
  BY <1>7, RedeemEntersStep
<1>8. ASSUME UNCHANGED P!pointVars PROVE PointsInv'
  BY <1>8, PointsStay
<1> QED
  BY <1>1, <1>2, <1>3, <1>4, <1>5, <1>6, <1>7, <1>8
  DEF P!Next, P!OthersRecord, P!AuditGoesOn, P!Restarts

\* A step of the specification: one of Next, noted, or none.
LEMMA PointsMoves ==
    ASSUME [P!Next /\ InScope /\ PointsNoted]_pointVars
    PROVE  (P!Next /\ PointsNoted) \/ UNCHANGED pointVars
OBVIOUS

LEMMA PointsKept ==
    ASSUME PointsInv,
           [P!Next /\ InScope /\ PointsNoted]_pointVars
    PROVE  PointsInv'
<1>1. CASE P!Next /\ PointsNoted
  BY <1>1, NotedFact, PointsNext
<1>2. CASE UNCHANGED pointVars
  BY <1>2, PointsStay DEF pointVars, P!vars, P!pointVars
<1> QED
  BY <1>1, <1>2, PointsMoves

LEMMA LedgerBalances == ASSUME PointsInv PROVE BalanceIsLedger
<1>1. balance \in Nat
  BY DEF PointsInv, PointsShape
<1>2. \A j, k \in DOMAIN ledger :
          j # k /\ ledger[j].ref # NoRef =>
             <<ledger[j].reason, ledger[j].ref>> # <<ledger[k].reason, ledger[k].ref>>
  BY DEF PointsInv, OnceInv
<1>3. ~ muddled =>
        /\ \A k \in DOMAIN ledger :
              ledger[k].after =
                 ledger[k].delta + IF k = 1 THEN 0 ELSE ledger[k - 1].after
        /\ (\A q \in Askers : asked[q].step # "enter") => balance = Total(ledger)
  BY DEF PointsInv, AloneInv
<1> QED
  BY <1>1, <1>2, <1>3, TotalsAgree DEF BalanceIsLedger

\* What earns is entered once and the balance is never negative, for any calls,
\* amounts and references; and unless two calls overlapped or a redeem was cut
\* short, the balance is what the rows of the ledger add up to, and each row
\* carries the balance after it (earn, adjust, redeem).
THEOREM LedgerIsBalance ==
    PointsSpec => []BalanceIsLedger
<1>1. PointsInit => PointsInv
  BY PointsStart
<1>2. PointsInv /\ [P!Next /\ InScope /\ PointsNoted]_pointVars
         => PointsInv'
  BY PointsKept
<1>3. PointsInv => BalanceIsLedger
  BY LedgerBalances
<1> QED
  BY <1>1, <1>2, <1>3, PTL DEF PointsSpec
-----------------------------------------------------------------------------
Goes == {"read", "create"}

\* What Record notes of a step on the audit log.
Told ==
    /\ beside \subseteq beside' /\ unhinged \subseteq unhinged'
    /\ beside \subseteq Entries => beside' \subseteq Entries
    /\ \A e, f \in Entries :
          e # f /\ write'[e].step \in Goes /\ write'[f].step \in Goes => e \in beside'
    /\ \A e \in Entries \ unhinged' :
          /\ write[e].step = "none" /\ write'[e].step # "none"
             => \/ cache[write'[e].by] = NoHash
                \/ /\ latest \notin beside
                   /\ write[latest].step = "done"
                   /\ write[latest].by = write'[e].by
          /\ write[e].step = "read" /\ write'[e].step = "create" =>
                log = <<>> \/ write'[e].prev # NoHash
    /\ (\A e \in Entries : write[e].step = "none" => write'[e].step = "none")
          => latest' = latest
    /\ \A e \in Entries :
          /\ write[e].step = "none" /\ write'[e].step # "none"
          /\ \A f \in Entries \ {e} : write'[f] = write[f]
          => latest' = e

LEMMA ToldFact == PointsNoted => Told
<1> SUFFICES ASSUME PointsNoted PROVE Told
  OBVIOUS
<1>1. /\ beside \subseteq beside' /\ unhinged \subseteq unhinged'
      /\ beside \subseteq Entries => beside' \subseteq Entries
  BY DEF PointsNoted, Writing, Called
<1>2. \A e, f \in Entries :
          e # f /\ write'[e].step \in Goes /\ write'[f].step \in Goes => e \in beside'
  <2>1. \A e, f \in Writing' : e # f => e \in beside'
    BY DEF PointsNoted
  <2> QED
    BY <2>1 DEF Writing, Goes
<1>3. ASSUME NEW e \in Entries \ unhinged'
      PROVE  /\ write[e].step = "none" /\ write'[e].step # "none"
                => \/ cache[write'[e].by] = NoHash
                   \/ /\ latest \notin beside
                      /\ write[latest].step = "done"
                      /\ write[latest].by = write'[e].by
             /\ write[e].step = "read" /\ write'[e].step = "create" =>
                   log = <<>> \/ write'[e].prev # NoHash
  <2>1. /\ e \in Called => InStep(e)
        /\ ~ (/\ e \in Writing /\ write[e].step = "read"
              /\ write'[e].step = "create"
              /\ log # <<>> /\ write'[e].prev = NoHash)
    BY <1>3 DEF PointsNoted
  <2> QED
    BY <2>1 DEF Called, InStep, Writing
<1>4. latest' = IF Called = {} THEN latest ELSE CHOOSE e \in Called : TRUE
  BY DEF PointsNoted
<1>5. (\A e \in Entries : write[e].step = "none" => write'[e].step = "none")
          => latest' = latest
  BY <1>4 DEF Called
<1>6. ASSUME NEW e \in Entries,
             write[e].step = "none" /\ write'[e].step # "none",
             \A f \in Entries \ {e} : write'[f] = write[f]
      PROVE  latest' = e
  <2>1. Called = {e}
    BY <1>6 DEF Called
  <2> QED
    BY <1>4, <2>1
<1> QED
  BY <1>1, <1>2, <1>3, <1>5, <1>6 DEF Told

LEMMA AuditStart == ASSUME PointsInit PROVE AuditInv
<1>1. /\ log = <<>> /\ cache = [p \in Processes |-> NoHash]
      /\ write = [e \in Entries |-> P!NoWrite]
      /\ beside = {} /\ unhinged = {} /\ latest = NoEntry
  BY DEF PointsInit, P!Init, P!AuditInit
<1>2. AuditShape
  <2>1. log \in Seq({})
    BY <1>1
  <2>2. write = [e \in Entries |-> [step |-> write[e].step, by |-> write[e].by,
                                    prev |-> write[e].prev]]
    BY <1>1 DEF P!NoWrite
  <2> QED
    BY <1>1, <2>1, <2>2 DEF AuditShape, P!NoWrite
<1>3. BesideInv
  BY <1>1 DEF BesideInv, Writing, P!NoWrite
<1>4. ChainedInv
  BY <1>1, PointsGiven DEF ChainedInv, P!NoWrite
<1> QED
  BY <1>2, <1>3, <1>4 DEF AuditInv

\* The write of one entry, and the cache of one process, have changed.
Writes(e, p, step, prev, hash) ==
    /\ write' = [write EXCEPT ![e] = [step |-> step, by |-> p, prev |-> prev]]
    /\ cache' = [cache EXCEPT ![p] = hash]

LEMMA WritesFact ==
    ASSUME AuditInv, NEW e \in Entries, NEW p \in Processes, NEW step, NEW prev,
           NEW hash, Writes(e, p, step, prev, hash)
    PROVE  /\ \A f \in Entries \ {e} : write'[f] = write[f]
           /\ write'[e] = [step |-> step, by |-> p, prev |-> prev]
           /\ \A o \in Processes : cache'[o] = IF o = p THEN hash ELSE cache[o]
           /\ cache' = [o \in Processes |-> cache'[o]]
           /\ write' = [f \in Entries |->
                 [step |-> write'[f].step, by |-> write'[f].by,
                  prev |-> write'[f].prev]]
           /\ \A f \in Entries : write'[f].step # "none" => write'[f].by \in Processes
<1>1. /\ DOMAIN write = Entries /\ DOMAIN cache = Processes
      /\ \A f \in Entries : write[f].step # "none" => write[f].by \in Processes
      /\ \A f \in Entries : write[f] = [step |-> write[f].step,
            by |-> write[f].by, prev |-> write[f].prev]
  BY DEF AuditInv, AuditShape
<1>2. /\ \A f \in Entries \ {e} : write'[f] = write[f]
      /\ write'[e] = [step |-> step, by |-> p, prev |-> prev]
      /\ \A o \in Processes : cache'[o] = IF o = p THEN hash ELSE cache[o]
      /\ cache' = [o \in Processes |-> cache'[o]]
  BY <1>1 DEF Writes
<1>3. \A f \in Entries : write'[f] = [step |-> write'[f].step,
         by |-> write'[f].by, prev |-> write'[f].prev]
  BY <1>1, <1>2
<1>4. write' = [f \in Entries |-> write'[f]]
  BY <1>1 DEF Writes
<1>5. write' = [f \in Entries |-> [step |-> write'[f].step,
         by |-> write'[f].by, prev |-> write'[f].prev]]
  BY <1>3, <1>4
<1> QED
  BY <1>1, <1>2, <1>5

\* A write goes on: none is called.
LEMMA BesideStep ==
    ASSUME AuditInv, Told,
           \A e \in Entries : write'[e].step \in Goes => write[e].step \in Goes,
           \A e \in Entries : write[e].step = "none" => write'[e].step = "none",
           (\A e \in Entries : write[e].step \notin Goes) =>
              \A p \in Processes : cache'[p] \in {cache[p], NoHash}
    PROVE  BesideInv' /\ latest' = latest
<1>1. latest' = latest /\ beside \subseteq beside' /\ beside' \subseteq Entries
  BY DEF Told, AuditInv, BesideInv
<1>2. Writing' \subseteq Writing
  BY DEF Writing, Goes
<1>3. \A e, f \in Writing' : e # f => e \in beside'
  BY DEF Told, Writing, Goes
<1>4. latest' \notin beside' => Writing' \subseteq {latest'}
  BY <1>1, <1>2 DEF AuditInv, BesideInv
<1>5. ASSUME latest' = NoEntry PROVE \A p \in Processes : cache'[p] = NoHash
  <2>1. Writing \subseteq {NoEntry} /\ NoEntry \notin Entries
    BY <1>1, <1>5, PointsGiven DEF AuditInv, BesideInv
  <2>2. \A e \in Entries : write[e].step \notin Goes
    BY <2>1 DEF Writing, Goes
  <2> QED
    BY <1>1, <1>5, <2>2 DEF AuditInv, BesideInv
<1> QED
  BY <1>1, <1>3, <1>4, <1>5 DEF BesideInv, AuditInv

\* record(), up to its first await.
LEMMA RecordStep ==
    ASSUME AuditInv, Told, NEW e \in Entries, NEW p \in Processes,
           P!RecordEntry(e, p)
    PROVE  AuditInv'
<1>1. write[e].step = "none" /\ log' = log /\ DOMAIN cache = Processes
  BY DEF P!RecordEntry, AuditInv, AuditShape
<1>0. PICK step \in Goes : \E prev, hash :
         /\ Writes(e, p, step, prev, hash)
         /\ step = "create" => /\ cache[p] # NoHash
                               /\ prev = cache[p]
                               /\ hash = P!Hash(P!AsPassed(e), prev)
  <2>1. CASE cache[p] # NoHash
    BY <2>1 DEF P!RecordEntry, P!Chains, Writes, Goes
  <2>2. CASE cache[p] = NoHash
    <3>1. write' = [write EXCEPT ![e] =
                      [step |-> "read", by |-> p, prev |-> NoHash]]
          /\ cache' = cache
      BY <2>2 DEF P!RecordEntry
    <3>2. cache' = [cache EXCEPT ![p] = cache[p]]
      BY <1>1, <3>1 DEF AuditInv, AuditShape
    <3> QED
      BY <3>1, <3>2 DEF Writes, Goes
  <2> QED
    BY <2>1, <2>2
<1>2. PICK prev, hash :
         /\ Writes(e, p, step, prev, hash)
         /\ step = "create" => /\ cache[p] # NoHash
                               /\ prev = cache[p]
                               /\ hash = P!Hash(P!AsPassed(e), prev)
  BY <1>0
<1>3. /\ \A f \in Entries \ {e} : write'[f] = write[f]
      /\ write'[e] = [step |-> step, by |-> p, prev |-> prev]
      /\ \A o \in Processes : cache'[o] = IF o = p THEN hash ELSE cache[o]
      /\ cache' = [o \in Processes |-> cache'[o]]
      /\ write' = [f \in Entries |->
            [step |-> write'[f].step, by |-> write'[f].by, prev |-> write'[f].prev]]
      /\ \A f \in Entries : write'[f].step # "none" => write'[f].by \in Processes
  BY <1>2, WritesFact
<1>4. /\ write'[e].step = step /\ write'[e].by = p /\ write'[e].prev = prev
      /\ step # "none" /\ step # "done"
      /\ latest' = e
  <2>1. /\ write'[e].step = step /\ write'[e].by = p /\ write'[e].prev = prev
        /\ step # "none" /\ step # "done"
    BY <1>2, <1>3 DEF Goes
  <2> QED
    BY <1>1, <1>3, <2>1 DEF Told
<1>5. AuditShape'
  BY <1>1, <1>3 DEF AuditInv, AuditShape
<1>6. BesideInv'
  <2>1. \A a, b \in Writing' : a # b => a \in beside'
    BY DEF Told, Writing, Goes
  <2>2. e \in Writing'
    BY <1>2, <1>4 DEF Writing, Goes
  <2>3. beside' \subseteq Entries /\ e # NoEntry
    BY PointsGiven DEF Told, AuditInv, BesideInv
  <2> QED
    BY <1>4, <2>1, <2>2, <2>3 DEF BesideInv
<1>7. ChainedInv'
  <2>1. TailHash' = TailHash
    BY <1>1 DEF TailHash
  <2>2. ASSUME NEW f \in Entries \ (beside' \cup unhinged'),
               write'[f].step = "create"
        PROVE  write'[f].prev = TailHash'
    <3>1. CASE f # e
      BY <1>3, <2>1, <2>2, <3>1 DEF Told, AuditInv, ChainedInv
    <3>2. CASE f = e
      <4>1. step = "create" /\ cache[p] # NoHash /\ prev = cache[p]
        BY <1>2, <1>4, <2>2, <3>2
      <4>2. /\ latest \notin beside /\ write[latest].step = "done"
            /\ write[latest].by = p
        BY <1>1, <1>4, <2>2, <3>2, <4>1 DEF Told
      <4>3. latest \in Entries \ beside
        BY <4>1, <4>2 DEF AuditInv, BesideInv
      <4>4. cache[p] = TailHash
        BY <4>1, <4>2, <4>3 DEF AuditInv, ChainedInv
      <4> QED
        BY <1>4, <2>1, <3>2, <4>1, <4>4
    <3> QED
      BY <3>1, <3>2
  <2>3. write'[e].step = "create" =>
           cache'[p] = P!Hash(P!AsPassed(e), write'[e].prev)
    BY <1>2, <1>3, <1>4
  <2>4. \A k \in DOMAIN log' :
           log'[k].entry \notin beside' \cup unhinged' =>
              log'[k].prev = IF k = 1 THEN NoHash ELSE log'[k - 1].hash
    BY <1>1 DEF Told, AuditInv, ChainedInv
  <2>5. latest' \in Entries \ beside' =>
          /\ write'[latest'].step \in {"create", "done"} =>
                cache'[write'[latest'].by] =
                   P!Hash(P!AsPassed(latest'), write'[latest'].prev)
          /\ write'[latest'].step # "done"
    BY <1>4, <2>3
  <2> QED
    BY <2>2, <2>4, <2>5 DEF ChainedInv
<1> QED
  BY <1>5, <1>6, <1>7 DEF AuditInv

\* The last row has been read, or the read has failed.
LEMMA ChainStep ==
    ASSUME AuditInv, Told, NEW e \in Entries,
           P!ReadLast(e) \/ P!ReadFails(e)
    PROVE  AuditInv'
<1> DEFINE p == write[e].by
<1>1. write[e].step = "read" /\ log' = log /\ p \in Processes
  BY DEF P!ReadLast, P!ReadFails, AuditInv, AuditShape
<1>2. PICK prev : /\ Writes(e, p, "create", prev, P!Hash(P!AsPassed(e), prev))
                  /\ prev = TailHash \/ prev = NoHash
  BY DEF P!ReadLast, P!ReadFails, P!Chains, Writes, TailHash
<1> HIDE DEF p
<1>3. /\ \A f \in Entries \ {e} : write'[f] = write[f]
      /\ write'[e] = [step |-> "create", by |-> p, prev |-> prev]
      /\ \A o \in Processes :
            cache'[o] = IF o = p THEN P!Hash(P!AsPassed(e), prev) ELSE cache[o]
      /\ cache' = [o \in Processes |-> cache'[o]]
      /\ write' = [f \in Entries |->
            [step |-> write'[f].step, by |-> write'[f].by, prev |-> write'[f].prev]]
      /\ \A f \in Entries : write'[f].step # "none" => write'[f].by \in Processes
  BY <1>1, <1>2, WritesFact
<1>4. write'[e].step = "create" /\ write'[e].by = p /\ write'[e].prev = prev
  BY <1>3
<1>5. AuditShape'
  BY <1>1, <1>3 DEF AuditInv, AuditShape
<1>6. BesideInv' /\ latest' = latest
  <2>1. \A f \in Entries : write'[f].step \in Goes => write[f].step \in Goes
    BY <1>1, <1>3 DEF Goes
  <2>2. \A f \in Entries : write[f].step = "none" => write'[f].step = "none"
    BY <1>1, <1>3
  <2>3. write[e].step \in Goes
    BY <1>1 DEF Goes
  <2> QED
    BY <2>1, <2>2, <2>3, BesideStep
<1>7. ChainedInv'
  <2>1. TailHash' = TailHash
    BY <1>1 DEF TailHash
  <2>2. ASSUME NEW f \in Entries \ (beside' \cup unhinged'),
               write'[f].step = "create"
        PROVE  write'[f].prev = TailHash'
    <3>1. CASE f # e
      BY <1>3, <2>1, <2>2, <3>1 DEF Told, AuditInv, ChainedInv
    <3>2. CASE f = e
      <4>1. log = <<>> \/ prev # NoHash
        BY <1>1, <1>4, <2>2, <3>2 DEF Told
      <4>2. prev = TailHash
        BY <1>2, <4>1 DEF TailHash
      <4> QED
        BY <1>4, <2>1, <3>2, <4>2
    <3> QED
      BY <3>1, <3>2
  <2>3. \A k \in DOMAIN log' :
           log'[k].entry \notin beside' \cup unhinged' =>
              log'[k].prev = IF k = 1 THEN NoHash ELSE log'[k - 1].hash
    BY <1>1 DEF Told, AuditInv, ChainedInv
  <2>4. ASSUME latest' \in Entries \ beside'
        PROVE  /\ latest' = e
               /\ cache'[p] = P!Hash(P!AsPassed(e), prev)
    <3>1. latest \in Entries \ beside
      BY <1>6, <2>4 DEF Told
    <3>2. e \in Writing
      BY <1>1 DEF Writing
    <3> QED
      BY <1>1, <1>3, <1>6, <3>1, <3>2 DEF AuditInv, BesideInv
  <2>5. latest' \in Entries \ beside' =>
          /\ cache'[write'[latest'].by] =
                P!Hash(P!AsPassed(latest'), write'[latest'].prev)
          /\ write'[latest'].step # "done"
    BY <1>4, <2>4
  <2> QED
    BY <2>2, <2>3, <2>5 DEF ChainedInv
<1> QED
  BY <1>5, <1>6, <1>7 DEF AuditInv

\* The row is written.
LEMMA CreateStep ==
    ASSUME AuditInv, Told, NEW e \in Entries, P!CreateRow(e)
    PROVE  AuditInv'
<1> DEFINE x == [entry |-> e, prev |-> write[e].prev,
                 hash |-> P!Hash(P!AsPassed(e), write[e].prev)]
<1>1. /\ write[e].step = "create" /\ write[e].by \in Processes
      /\ log' = Append(log, x) /\ cache' = cache
      /\ x.entry = e /\ x.prev = write[e].prev
      /\ x.hash = P!Hash(P!AsPassed(e), write[e].prev)
  BY DEF P!CreateRow, AuditInv, AuditShape
<1> HIDE DEF x
<1>2. PICK R : log \in Seq(R)
  BY DEF AuditInv, AuditShape
<1>3. /\ log' \in Seq(R \cup {x})
      /\ Len(log) \in Nat /\ DOMAIN log = 1..Len(log)
      /\ Len(log') = Len(log) + 1
      /\ DOMAIN log' = 1..(Len(log) + 1)
      /\ \A k \in 1..Len(log) : log'[k] = log[k]
      /\ log'[Len(log) + 1] = x
      /\ log' # <<>>
      /\ log = <<>> <=> Len(log) = 0
  BY <1>1, <1>2, Appended
<1>4. \A k \in DOMAIN log' : k \in DOMAIN log \/ k = Len(log) + 1
  BY <1>3
<1>5. /\ \A f \in Entries \ {e} : write'[f] = write[f]
      /\ write'[e] = [step |-> "done", by |-> write[e].by, prev |-> write[e].prev]
      /\ write' = [f \in Entries |->
            [step |-> write'[f].step, by |-> write'[f].by, prev |-> write'[f].prev]]
      /\ \A f \in Entries : write'[f].step # "none" => write'[f].by \in Processes
  <2>1. write' = [write EXCEPT ![e].step = "done"]
    BY DEF P!CreateRow
  <2>2. /\ DOMAIN write = Entries
        /\ write[e] = [step |-> write[e].step, by |-> write[e].by,
                       prev |-> write[e].prev]
    BY DEF AuditInv, AuditShape
  <2>3. [write[e] EXCEPT !.step = "done"] =
           [step |-> "done", by |-> write[e].by, prev |-> write[e].prev]
    BY <2>2
  <2>4. write' = [write EXCEPT ![e] =
                    [step |-> "done", by |-> write[e].by, prev |-> write[e].prev]]
    BY <2>1, <2>2, <2>3
  <2>5. cache' = [cache EXCEPT ![write[e].by] = cache[write[e].by]]
    BY <1>1 DEF AuditInv, AuditShape
  <2>6. Writes(e, write[e].by, "done", write[e].prev, cache[write[e].by])
    BY <2>4, <2>5 DEF Writes
  <2> QED
    BY <1>1, <2>6, WritesFact
<1>6. write'[e].step = "done" /\ write'[e].by = write[e].by
      /\ write'[e].prev = write[e].prev
  BY <1>5
<1>7. AuditShape'
  <2>1. \A k \in DOMAIN log' :
           log'[k].hash = P!Hash(P!AsPassed(log'[k].entry), log'[k].prev)
    BY <1>1, <1>3, <1>4 DEF AuditInv, AuditShape
  <2>2. \E S : log' \in Seq(S)
    BY <1>3
  <2> QED
    BY <1>1, <1>5, <2>1, <2>2 DEF AuditInv, AuditShape
<1>8. BesideInv' /\ latest' = latest
  <2>1. \A f \in Entries : write'[f].step \in Goes => write[f].step \in Goes
    BY <1>1, <1>5, <1>6 DEF Goes
  <2>2. \A f \in Entries : write[f].step = "none" => write'[f].step = "none"
    BY <1>1, <1>5
  <2>3. write[e].step \in Goes
    BY <1>1 DEF Goes
  <2> QED
    BY <2>1, <2>2, <2>3, BesideStep
<1>9. ChainedInv'
  <2>1. TailHash' = x.hash
    BY <1>3 DEF TailHash
  <2>2. e \in Writing
    BY <1>1 DEF Writing
  <2>3. ASSUME NEW f \in Entries \ (beside' \cup unhinged'),
               write'[f].step = "create"
        PROVE  FALSE
    <3>1. f # e /\ write[f].step = "create"
      BY <1>5, <1>6, <2>3
    <3>2. f \in Writing
      BY <3>1 DEF Writing
    <3> QED
      BY <2>2, <2>3, <3>1, <3>2 DEF Told, AuditInv, BesideInv
  <2>4. ASSUME NEW k \in DOMAIN log', log'[k].entry \notin beside' \cup unhinged'
        PROVE  log'[k].prev = IF k = 1 THEN NoHash ELSE log'[k - 1].hash
    <3>1. CASE k \in DOMAIN log
      <4>1. k \in 1..Len(log) /\ (k # 1 => k - 1 \in 1..Len(log))
        BY <1>3, <3>1
      <4>2. log[k].entry \notin beside \cup unhinged
        BY <1>3, <2>4, <4>1 DEF Told
      <4> QED
        BY <1>3, <3>1, <4>1, <4>2 DEF AuditInv, ChainedInv
    <3>2. CASE k = Len(log) + 1
      <4>1. log'[k].prev = TailHash
        <5>1. e \in Entries \ (beside \cup unhinged)
          BY <1>1, <1>3, <2>4, <3>2 DEF Told
        <5> QED
          BY <1>1, <1>3, <3>2, <5>1 DEF AuditInv, ChainedInv
      <4>2. TailHash = IF k = 1 THEN NoHash ELSE log'[k - 1].hash
        <5>1. CASE log = <<>>
          BY <1>3, <3>2, <5>1 DEF TailHash
        <5>2. CASE log # <<>>
          <6>1. k # 1 /\ k - 1 = Len(log) /\ k - 1 \in 1..Len(log)
            BY <1>3, <3>2, <5>2
          <6> QED
            BY <1>3, <5>2, <6>1 DEF TailHash
        <5> QED
          BY <5>1, <5>2
      <4> QED
        BY <4>1, <4>2
    <3> QED
      BY <1>4, <3>1, <3>2
  <2>5. ASSUME latest' \in Entries \ beside'
        PROVE  /\ latest' = e
               /\ cache'[write[e].by] \in
                     {NoHash, P!Hash(P!AsPassed(e), write[e].prev)}
    <3>1. latest \in Entries \ beside
      BY <1>8, <2>5 DEF Told
    <3>2. latest = e
      BY <2>2, <3>1 DEF AuditInv, BesideInv
    <3> QED
      BY <1>1, <1>8, <3>1, <3>2 DEF AuditInv, ChainedInv
  <2>6. latest' \in Entries \ beside' =>
          /\ cache'[write'[latest'].by] \in
                {NoHash, P!Hash(P!AsPassed(latest'), write'[latest'].prev)}
          /\ log' # <<>>
          /\ TailHash' = P!Hash(P!AsPassed(latest'), write'[latest'].prev)
    BY <1>1, <1>3, <1>6, <2>1, <2>5
  <2> QED
    BY <2>3, <2>4, <2>6 DEF ChainedInv
<1> QED
  BY <1>7, <1>8, <1>9 DEF AuditInv

\* Writes are lost, and no other is called: with their process, which starts
\* with nothing cached, or alone. Or nothing has happened.
LEMMA LostStep ==
    ASSUME AuditInv, Told, log' = log,
           NEW lost \in SUBSET Entries, lost \subseteq Writing,
           write' = [e \in Entries |->
              IF e \in lost THEN [write[e] EXCEPT !.step = "lost"] ELSE write[e]],
           NEW S \in SUBSET Processes,
           cache' = [p \in Processes |-> IF p \in S THEN NoHash ELSE cache[p]]
    PROVE  AuditInv'
<1>1. \A e \in Entries :
         /\ write[e] = [step |-> write[e].step, by |-> write[e].by,
                        prev |-> write[e].prev]
         /\ e \in lost => write[e].step \in Goes
  BY DEF AuditInv, AuditShape, Writing, Goes
<1>2. \A e \in Entries :
         /\ write'[e].step = IF e \in lost THEN "lost" ELSE write[e].step
         /\ write'[e].by = write[e].by
         /\ write'[e].prev = write[e].prev
         /\ write'[e] = [step |-> write'[e].step, by |-> write'[e].by,
                         prev |-> write'[e].prev]
  <2> TAKE e \in Entries
  <2>1. CASE e \notin lost
    BY <1>1, <2>1
  <2>2. CASE e \in lost
    <3>1. write'[e] = [write[e] EXCEPT !.step = "lost"]
      BY <2>2
    <3>2. write[e] = [step |-> write[e].step, by |-> write[e].by,
                      prev |-> write[e].prev]
      BY <1>1
    <3>3. [write[e] EXCEPT !.step = "lost"] =
             [step |-> "lost", by |-> write[e].by, prev |-> write[e].prev]
      BY <3>2
    <3> QED
      BY <2>2, <3>1, <3>3
  <2> QED
    BY <2>1, <2>2
<1>3. AuditShape'
  <2>1. write' = [e \in Entries |-> [step |-> write'[e].step, by |-> write'[e].by,
                                     prev |-> write'[e].prev]]
    <3>1. write' = [e \in Entries |-> write'[e]]
      OBVIOUS
    <3> QED
      BY <1>2, <3>1
  <2>2. \A e \in Entries : write'[e].step # "none" => write'[e].by \in Processes
    BY <1>1, <1>2 DEF AuditInv, AuditShape, Goes
  <2>3. cache' = [p \in Processes |-> cache'[p]]
    OBVIOUS
  <2> QED
    BY <2>1, <2>2, <2>3 DEF AuditInv, AuditShape
<1>4. BesideInv' /\ latest' = latest
  <2>1. \A e \in Entries : write'[e].step \in Goes => write[e].step \in Goes
    BY <1>1, <1>2
  <2>2. \A e \in Entries : write[e].step = "none" => write'[e].step = "none"
    BY <1>1, <1>2 DEF Goes
  <2>3. \A p \in Processes : cache'[p] \in {cache[p], NoHash}
    OBVIOUS
  <2> QED
    BY <2>1, <2>2, <2>3, BesideStep
<1>5. ChainedInv'
  <2>1. TailHash' = TailHash
    BY DEF TailHash
  <2>2. \A e \in Entries \ (beside' \cup unhinged') :
           write'[e].step = "create" => write'[e].prev = TailHash'
    BY <1>2, <2>1 DEF Told, AuditInv, ChainedInv
  <2>3. \A k \in DOMAIN log' :
           log'[k].entry \notin beside' \cup unhinged' =>
              log'[k].prev = IF k = 1 THEN NoHash ELSE log'[k - 1].hash
    BY DEF Told, AuditInv, ChainedInv
  <2>4. ASSUME latest' \in Entries \ beside',
               write'[latest'].step \in {"create", "done"}
        PROVE  /\ cache'[write'[latest'].by] \in
                     {NoHash, P!Hash(P!AsPassed(latest'), write'[latest'].prev)}
               /\ write'[latest'].step = "done" =>
                     /\ log' # <<>>
                     /\ TailHash' = P!Hash(P!AsPassed(latest'), write'[latest'].prev)
    <3>1. latest \in Entries \ beside
      BY <1>4, <2>4 DEF Told
    <3>2. /\ write[latest].step = write'[latest].step
          /\ write[latest].by = write'[latest].by
          /\ write[latest].prev = write'[latest].prev
          /\ write[latest].by \in Processes
      BY <1>2, <1>4, <2>4, <3>1 DEF AuditInv, AuditShape
    <3>3. /\ cache[write[latest].by] \in
                {NoHash, P!Hash(P!AsPassed(latest), write[latest].prev)}
          /\ write[latest].step = "done" =>
                /\ log # <<>>
                /\ TailHash = P!Hash(P!AsPassed(latest), write[latest].prev)
      BY <1>4, <2>4, <3>1, <3>2 DEF AuditInv, ChainedInv
    <3>4. cache'[write[latest].by] \in {cache[write[latest].by], NoHash}
      BY <3>2
    <3> QED
      BY <1>4, <2>1, <3>2, <3>3, <3>4
  <2> QED
    BY <2>2, <2>3, <2>4 DEF ChainedInv
<1> QED
  BY <1>3, <1>4, <1>5 DEF AuditInv

LEMMA FailsStep ==
    ASSUME AuditInv, Told, NEW e \in Entries, P!CreateFails(e)
    PROVE  AuditInv'
<1>1. /\ {e} \in SUBSET Entries /\ {e} \subseteq Writing
      /\ log' = log /\ cache' = cache
      /\ write' = [write EXCEPT ![e].step = "lost"]
  BY DEF P!CreateFails, Writing
<1>2. write' = [f \in Entries |->
         IF f \in {e} THEN [write[f] EXCEPT !.step = "lost"] ELSE write[f]]
  BY <1>1 DEF AuditInv, AuditShape
<1>3. cache' = [p \in Processes |-> IF p \in {} THEN NoHash ELSE cache[p]]
  BY <1>1 DEF AuditInv, AuditShape
<1>4. {} \in SUBSET Processes
  OBVIOUS
<1> QED
  BY <1>1, <1>2, <1>3, <1>4, LostStep

LEMMA ForgetsStep ==
    ASSUME AuditInv, Told, NEW p \in Processes, P!Forgets(p)
    PROVE  AuditInv'
<1> DEFINE lost == {e \in Entries : write[e].by = p /\ write[e].step \in Goes}
<1>1. lost \in SUBSET Entries /\ lost \subseteq Writing /\ log' = log
  BY DEF P!Forgets, Writing, Goes
<1>2. write' = [e \in Entries |->
         IF e \in lost THEN [write[e] EXCEPT !.step = "lost"] ELSE write[e]]
  BY DEF P!Forgets, Goes
<1>3. cache' = [o \in Processes |-> IF o \in {p} THEN NoHash ELSE cache[o]]
  BY DEF P!Forgets, AuditInv, AuditShape
<1>4. {p} \in SUBSET Processes
  OBVIOUS
<1> HIDE DEF lost
<1> QED
  BY <1>1, <1>2, <1>3, <1>4, LostStep

LEMMA AuditStays ==
    ASSUME AuditInv, UNCHANGED P!auditVars,
           Told \/ UNCHANGED <<beside, unhinged, latest>>
    PROVE  AuditInv'
<1>1. log' = log /\ cache' = cache /\ write' = write
  BY DEF P!auditVars
<1>2. CASE Told
  <2>1. {} \in SUBSET Entries /\ {} \subseteq Writing /\ {} \in SUBSET Processes
    OBVIOUS
  <2>2. write' = [e \in Entries |->
           IF e \in {} THEN [write[e] EXCEPT !.step = "lost"] ELSE write[e]]
    BY <1>1 DEF AuditInv, AuditShape
  <2>3. cache' = [p \in Processes |-> IF p \in {} THEN NoHash ELSE cache[p]]
    BY <1>1 DEF AuditInv, AuditShape
  <2> QED
    BY <1>1, <1>2, <2>1, <2>2, <2>3, LostStep
<1>3. CASE UNCHANGED <<beside, unhinged, latest>>
  BY <1>1, <1>3 DEF AuditInv, AuditShape, BesideInv, ChainedInv, TailHash, Writing
<1> QED
  BY <1>2, <1>3

LEMMA AuditNext ==
    ASSUME AuditInv, P!Next, Told
    PROVE  AuditInv'
<1>1. CASE UNCHANGED P!auditVars
  BY <1>1, AuditStays
<1>2. ASSUME NEW e \in Entries, NEW p \in Processes, P!RecordEntry(e, p)
      PROVE  AuditInv'
  BY <1>2, RecordStep
<1>3. ASSUME NEW e \in Entries, P!ReadLast(e) \/ P!ReadFails(e) PROVE AuditInv'
  BY <1>3, ChainStep
<1>4. ASSUME NEW e \in Entries, P!CreateRow(e) PROVE AuditInv'
  BY <1>4, CreateStep
<1>5. ASSUME NEW e \in Entries, P!CreateFails(e) PROVE AuditInv'
  BY <1>5, FailsStep
<1>6. ASSUME NEW p \in Processes, P!Forgets(p) PROVE AuditInv'
  BY <1>6, ForgetsStep
<1>7. CASE P!AuditGoesOn
  BY <1>3, <1>4, <1>5, <1>7 DEF P!AuditGoesOn, P!AuditStep
<1>8. ASSUME NEW q \in Askers,
             \/ \E delta \in Deltas :
                   \/ \E ref \in Refs \cup {NoRef} :
                         \/ P!EarnStarts(q, "ONTIME_PAYMENT", ref, delta)
                         \/ P!AdjustStarts(q, ref, delta)
                   \/ P!RedeemReads(q, delta)
             \/ P!TxReads(q) \/ P!TxCommits(q) \/ P!TxRollsBack(q)
             \/ P!AdjustStops(q)
             \/ P!RedeemWrites(q) \/ P!RedeemEnters(q) \/ P!RedeemFails(q)
      PROVE  UNCHANGED P!auditVars
  BY <1>8 DEF P!EarnStarts, P!AdjustStarts, P!RedeemReads, P!TxReads, P!TxCommits,
     P!TxRollsBack, P!AdjustStops, P!RedeemWrites, P!RedeemEnters, P!RedeemFails
<1>9. ASSUME NEW q \in Askers, NEW e \in Shuffled, NEW p \in Processes,
             P!AdjustAudits(q, e, p)
      PROVE  AuditInv'
  BY <1>2, <1>9, PointsGiven DEF P!AdjustAudits
<1> QED
  BY <1>1, <1>2, <1>6, <1>7, <1>8, <1>9
  DEF P!Next, P!OthersRecord, P!Restarts

LEMMA AuditKept ==
    ASSUME AuditInv,
           [P!Next /\ InScope /\ PointsNoted]_pointVars
    PROVE  AuditInv'
<1>1. CASE P!Next /\ PointsNoted
  BY <1>1, ToldFact, AuditNext
<1>2. CASE UNCHANGED pointVars
  BY <1>2, AuditStays DEF pointVars, P!vars, P!auditVars
<1> QED
  BY <1>1, <1>2, PointsMoves

\* verifyChain takes no row for tampering, of any entries and processes, but one
\* whose metadata keys JSONB reorders, whose write overlapped another, that
\* follows a row of another process, a lost write or one that overlapped, or
\* that could not read the last row (record).
THEOREM NoFalseAlarm ==
    PointsSpec => []NoOtherAlarm
<1>1. PointsInit => AuditInv
  BY AuditStart
<1>2. AuditInv /\ [P!Next /\ InScope /\ PointsNoted]_pointVars
         => AuditInv'
  BY AuditKept
<1>3. AuditInv => NoOtherAlarm
  BY DEF AuditInv, AuditShape, ChainedInv, NoOtherAlarm, P!Breaks,
         P!AsStored, P!AsPassed
<1> QED
  BY <1>1, <1>2, <1>3, PTL DEF PointsSpec
-----------------------------------------------------------------------------
(***************************************************************************)
(* Webhooks, for any endpoints, events, workers, attempts and faults        *)
(***************************************************************************)
Deliveries == Events \X Endpoints

LEMMA HooksGiven ==
    /\ MaxAttempts \in Nat \ {0} /\ MaxFaults \in Nat
    /\ IsFiniteSet(Workers)
    /\ NoHook \notin Events \cup Deliveries
    /\ "retry" \notin Events
<1>1. W!IsFiniteSet(Workers) => IsFiniteSet(Workers)
  BY DEF W!IsFiniteSet, IsFiniteSet
<1> QED
  BY <1>1, HookConstants DEF W!Assumptions, W!Deliveries, Deliveries

Deliverings == [status : {"NONE", "PENDING", "SUCCESS", "FAILED"}, attempts : Nat,
                due : BOOLEAN]
Attempting == {"post", "ok", "failed", "write"}
Turns == [step : {"idle", "next"} \cup Attempting, op : Events \cup {NoHook, "retry"},
          todo : SUBSET Deliveries, cur : Deliveries \cup {NoHook}, next : Nat]

\* A delivery is posted out of the list, and what is dispatched has been fired.
TurnInv(c) ==
    /\ c.step \in Attempting <=> c.cur # NoHook
    /\ c.cur \notin c.todo
    /\ c.op \in Events => c.todo \subseteq {c.op} \X Endpoints /\ c.op \in fired

HooksShape ==
    /\ endpoint \in [Endpoints -> {"NONE", "ACTIVE", "REMOVED"}]
    /\ fired \subseteq Events
    /\ delivery \in [Deliveries -> Deliverings]
    /\ turn \in [Workers -> Turns]
    /\ \A w \in Workers : TurnInv(turn[w])
    /\ \A d \in Deliveries :
          IF delivery[d].status = "NONE" THEN delivery[d].attempts = 0
                                         ELSE d[1] \in fired
    /\ faults \in 0..MaxFaults

Before(d) == {w \in Workers : d \in turn[w].todo \cup {turn[w].cur}}

\* Whoever has the delivery before him counts it once more at most, and nobody
\* takes it up once it has been counted often enough.
CountInv ==
    \A d \in Deliveries :
        delivery[d].attempts <= MaxAttempts - 1 \/
        delivery[d].attempts + Cardinality(Before(d)) <=
           MaxAttempts - 1 + Cardinality(Workers)

\* A delivery that one worker at a time has before it.
SingleInv ==
    \A d \in Deliveries \ doubled :
        /\ \A v, w \in Before(d) : v = w
        /\ delivery[d].status = "FAILED" <=>
              delivery[d].attempts = MaxAttempts /\ delivery[d].status # "SUCCESS"
        /\ delivery[d].attempts <= MaxAttempts
        /\ \A w \in Before(d) :
              /\ delivery[d].status # "SUCCESS" /\ delivery[d].attempts < MaxAttempts
              /\ turn[w].step = "write" /\ turn[w].cur = d =>
                    delivery[d].status = "NONE"
                    \/ turn[w].next = delivery[d].attempts + 1

HooksInv == HooksShape /\ CountInv /\ SingleInv
-----------------------------------------------------------------------------
LEMMA HookFacts ==
    /\ \A S : W!Cardinality(S) = Cardinality(S)
    /\ W!Deliveries = Deliveries
BY DEF W!Cardinality, Cardinality, W!Deliveries, Deliveries

\* Two elements are more than one.
LEMMA TwoAtLeast ==
    ASSUME NEW S, IsFiniteSet(S), NEW a \in S, NEW b \in S, a # b
    PROVE  Cardinality(S) > 1
<1>1. Cardinality({a}) = 1
  BY FS_Singleton
<1>2. /\ Cardinality({a}) <= Cardinality(S)
      /\ Cardinality({a}) = Cardinality(S) => S = {a}
      /\ Cardinality(S) \in Nat
  BY FS_Subset, FS_CardinalityType
<1> QED
  BY <1>1, <1>2

\* What History notes.
Alone ==
    \A d \in Deliveries \ doubled' :
        d \notin doubled /\ \A v, w \in Before(d)' : v = w

LEMMA AloneFact == ASSUME HooksNoted PROVE Alone
<1> SUFFICES ASSUME NEW d \in Deliveries \ doubled',
                    NEW v \in Before(d)', NEW w \in Before(d)', v # w
             PROVE  FALSE
  BY HookFacts DEF HooksNoted, Alone
<1>1. Before(d)' = {o \in Workers : d \in Has(o)'}
  BY DEF Before, Has
<1>2. IsFiniteSet(Before(d)')
  BY FS_Subset, HooksGiven DEF Before
<1>3. Cardinality(Before(d)') > 1
  BY <1>2, TwoAtLeast
<1>4. Cardinality({o \in Workers : d \in Has(o)'}) > 1
  BY <1>1, <1>3
<1>5. d \in {e \in W!Deliveries :
               Cardinality({o \in Workers : e \in Has(o)'}) > 1}
  BY <1>4, HookFacts
<1> QED
  BY <1>5 DEF HooksNoted

LEMMA HooksStart == ASSUME HooksInit PROVE HooksInv
<1>1. /\ endpoint = [p \in Endpoints |-> "NONE"] /\ fired = {}
      /\ delivery = [d \in Deliveries |-> W!NoRow]
      /\ turn = [w \in Workers |-> W!Idle] /\ faults = 0
  BY HookFacts DEF HooksInit, W!Init
<1>2. HooksShape
  BY <1>1, HooksGiven DEF HooksShape, W!NoRow, W!Idle, Deliverings, Turns,
     TurnInv, Attempting
<1>3. \A d \in Deliveries : delivery[d].attempts = 0 /\ delivery[d].status = "NONE"
  BY <1>1 DEF W!NoRow
<1>4. \A d \in Deliveries : Before(d) = {}
  BY <1>1, HooksGiven DEF Before, W!Idle
<1>5. CountInv
  BY <1>3, HooksGiven DEF CountInv
<1>6. SingleInv
  BY <1>3, <1>4, HooksGiven DEF SingleInv
<1> QED
  BY <1>2, <1>5, <1>6 DEF HooksInv

\* Nobody takes the delivery up, and its row is counted no further.
LEMMA CountKept ==
    ASSUME HooksInv, NEW d \in Deliveries,
           delivery'[d].attempts \in Nat,
           delivery'[d].attempts <= delivery[d].attempts,
           Before(d)' \subseteq Before(d)
    PROVE  delivery'[d].attempts <= MaxAttempts - 1 \/
           delivery'[d].attempts + Cardinality(Before(d)') <=
              MaxAttempts - 1 + Cardinality(Workers)
<1>1. IsFiniteSet(Before(d))
  BY FS_Subset, HooksGiven DEF Before
<1>2. /\ Cardinality(Before(d)') <= Cardinality(Before(d))
      /\ Cardinality(Before(d)') \in Nat /\ Cardinality(Before(d)) \in Nat
      /\ Cardinality(Workers) \in Nat
  BY <1>1, FS_Subset, FS_CardinalityType, HooksGiven
<1>3. delivery[d].attempts \in Nat /\ MaxAttempts \in Nat
  BY HooksGiven DEF HooksInv, HooksShape, Deliverings
<1>4. delivery[d].attempts <= MaxAttempts - 1 \/
      delivery[d].attempts + Cardinality(Before(d)) <=
         MaxAttempts - 1 + Cardinality(Workers)
  BY DEF HooksInv, CountInv
<1> QED
  BY <1>2, <1>3, <1>4

\* What SingleInv says of a delivery, and of who has it before him.
Counted(d) ==
    /\ delivery[d].status = "FAILED" <=>
          delivery[d].attempts = MaxAttempts /\ delivery[d].status # "SUCCESS"
    /\ delivery[d].attempts <= MaxAttempts

Open(d) == delivery[d].status # "SUCCESS" /\ delivery[d].attempts < MaxAttempts

Fresh(d, c) ==
    c.step = "write" /\ c.cur = d =>
       delivery[d].status = "NONE" \/ c.next = delivery[d].attempts + 1

LEMMA SingleFact ==
    SingleInv <=>
       \A d \in Deliveries \ doubled :
          /\ \A v, w \in Before(d) : v = w
          /\ Counted(d)
          /\ \A w \in Before(d) : Open(d) /\ Fresh(d, turn[w])
BY DEF SingleInv, Counted, Open, Fresh

\* Calls that have fewer deliveries before them than they had.
LEMMA CallsGoOn ==
    ASSUME HooksInv, Alone, delivery' = delivery,
           \A d \in Deliveries : Before(d)' \subseteq Before(d),
           \A w \in Workers : \A d \in Deliveries :
              Fresh(d, turn[w]) => Fresh(d, turn'[w])
    PROVE  CountInv' /\ SingleInv'
<1>1. CountInv'
  <2>1. \A d \in Deliveries : delivery[d].attempts \in Nat
    BY DEF HooksInv, HooksShape, Deliverings
  <2>2. \A d \in Deliveries : delivery'[d].attempts \in Nat
           /\ delivery'[d].attempts <= delivery[d].attempts
    BY <2>1
  <2> QED
    BY <2>2, CountKept DEF CountInv
<1>2. SingleInv'
  <2> SUFFICES ASSUME NEW d \in Deliveries \ doubled'
               PROVE  /\ \A v, w \in Before(d)' : v = w
                      /\ Counted(d)'
                      /\ \A w \in Before(d)' : Open(d)' /\ Fresh(d, turn[w])'
    BY DEF SingleInv, Counted, Open, Fresh
  <2>1. d \in Deliveries \ doubled /\ \A v, w \in Before(d)' : v = w
    BY DEF Alone
  <2>2. Counted(d) /\ \A w \in Before(d) : Open(d) /\ Fresh(d, turn[w])
    BY <2>1, SingleFact DEF HooksInv
  <2>3. Counted(d)' /\ (Open(d) => Open(d)')
    BY <2>2 DEF Counted, Open
  <2>4. \A w \in Before(d)' : Fresh(d, turn'[w])
    BY <2>2 DEF Before
  <2>5. \A w : Fresh(d, turn'[w]) => Fresh(d, turn[w])'
    BY DEF Fresh
  <2> QED
    BY <2>1, <2>2, <2>3, <2>4, <2>5
<1> QED
  BY <1>1, <1>2

LEMMA IdleTurn ==
    /\ W!Idle \in Turns /\ TurnInv(W!Idle)
           /\ W!Idle.step = "idle" /\ W!Idle.todo = {} /\ W!Idle.cur = NoHook
           /\ \A d \in Deliveries : d # NoHook
BY HooksGiven DEF W!Idle, Turns, TurnInv, Attempting

\* A call goes on to c, and has no delivery before it that it had not.
LEMMA GoesOn ==
    ASSUME HooksInv, Alone, NEW w \in Workers, NEW c \in Turns,
           TurnInv(c), turn' = [turn EXCEPT ![w] = c],
           UNCHANGED <<endpoint, fired, delivery>>, faults' \in 0..MaxFaults,
           c.todo \cup {c.cur} \subseteq turn[w].todo \cup {turn[w].cur, NoHook},
           \A d \in Deliveries : Fresh(d, c)
    PROVE  HooksInv'
<1>1. /\ turn' \in [Workers -> Turns]
      /\ \A v \in Workers : turn'[v] = IF v = w THEN c ELSE turn[v]
  BY DEF HooksInv, HooksShape
<1>2. HooksShape'
  <2>1. \A v \in Workers : TurnInv(turn'[v])
    BY <1>1 DEF HooksInv, HooksShape
  <2>2. \A v \in Workers : TurnInv(turn[v])'
    BY <2>1 DEF TurnInv
  <2> QED
    BY <1>1, <2>2 DEF HooksInv, HooksShape
<1>3. \A d \in Deliveries : Before(d)' \subseteq Before(d)
  BY <1>1, IdleTurn DEF Before
<1>4. \A v \in Workers : \A d \in Deliveries :
         Fresh(d, turn[v]) => Fresh(d, turn'[v])
  BY <1>1
<1> QED
  BY <1>2, <1>3, <1>4, CallsGoOn DEF HooksInv

\* Calls are over.
LEMMA CallsStop ==
    ASSUME HooksInv, Alone, NEW S \in SUBSET Workers,
           turn' = [v \in Workers |-> IF v \in S THEN W!Idle ELSE turn[v]],
           UNCHANGED <<endpoint, fired, delivery>>, faults' \in 0..MaxFaults
    PROVE  HooksInv'
<1>1. /\ turn' \in [Workers -> Turns]
      /\ \A v \in Workers : turn'[v] = IF v \in S THEN W!Idle ELSE turn[v]
  BY IdleTurn DEF HooksInv, HooksShape
<1>2. HooksShape'
  <2>1. \A v \in Workers : TurnInv(turn'[v])
    BY <1>1, IdleTurn DEF HooksInv, HooksShape
  <2>2. \A v \in Workers : TurnInv(turn[v])'
    BY <2>1 DEF TurnInv
  <2> QED
    BY <1>1, <2>2 DEF HooksInv, HooksShape
<1>3. \A d \in Deliveries : Before(d)' \subseteq Before(d)
  BY <1>1, IdleTurn DEF Before
<1>4. \A v \in Workers : \A d \in Deliveries :
         Fresh(d, turn[v]) => Fresh(d, turn'[v])
  BY <1>1, IdleTurn DEF Fresh
<1> QED
  BY <1>2, <1>3, <1>4, CallsGoOn DEF HooksInv

LEMMA ThrowStep ==
    ASSUME HooksInv, Alone, NEW w \in Workers, W!Throws(w),
           UNCHANGED <<endpoint, fired, delivery>>, faults' \in 0..MaxFaults
    PROVE  HooksInv'
<1>1. PICK S \in SUBSET Workers :
         turn' = [v \in Workers |-> IF v \in S THEN W!Idle ELSE turn[v]]
  <2>1. CASE turn[w].op = "retry"
    <3>1. turn' = [turn EXCEPT ![w] = W!Idle]
      BY <2>1 DEF W!Throws
    <3>2. turn' = [v \in Workers |-> IF v \in {w} THEN W!Idle ELSE turn[v]]
      BY <3>1 DEF HooksInv, HooksShape
    <3> QED
      BY <3>2
  <2>2. CASE turn[w].op # "retry"
    BY <2>2 DEF W!Throws
  <2> QED
    BY <2>1, <2>2
<1> QED
  BY <1>1, CallsStop

\* An idle call takes up deliveries that are open.
LEMMA TakesUp ==
    ASSUME HooksInv, Alone, NEW w \in Workers, NEW c \in Turns,
           turn[w] = W!Idle, turn' = [turn EXCEPT ![w] = c],
           c.step = "next", c.cur = NoHook, TurnInv(c)',
           \A d \in c.todo : Open(d),
           UNCHANGED <<endpoint, delivery, faults>>,
           fired \subseteq fired', fired' \subseteq Events
    PROVE  HooksInv'
<1>1. /\ turn' \in [Workers -> Turns]
      /\ \A v \in Workers : turn'[v] = IF v = w THEN c ELSE turn[v]
  BY DEF HooksInv, HooksShape
<1>2. HooksShape'
  <2>1. \A v \in Workers : TurnInv(turn[v])'
    BY <1>1 DEF HooksInv, HooksShape, TurnInv
  <2> QED
    BY <1>1, <2>1 DEF HooksInv, HooksShape
<1>3. \A d \in Deliveries : delivery[d].attempts \in Nat
  BY DEF HooksInv, HooksShape, Deliverings
<1>4. \A d \in Deliveries : d \notin c.todo => Before(d)' \subseteq Before(d)
  BY <1>1, IdleTurn DEF Before
<1>5. CountInv'
  <2> SUFFICES ASSUME NEW d \in Deliveries
               PROVE  delivery'[d].attempts <= MaxAttempts - 1 \/
                      delivery'[d].attempts + Cardinality(Before(d)') <=
                         MaxAttempts - 1 + Cardinality(Workers)
    BY DEF CountInv
  <2>1. CASE d \in c.todo
    <3>1. delivery'[d].attempts < MaxAttempts /\ delivery'[d].attempts \in Nat
      BY <1>3, <2>1 DEF Open
    <3> QED
      BY <3>1, HooksGiven
  <2>2. CASE d \notin c.todo
    <3>1. delivery'[d].attempts \in Nat
          /\ delivery'[d].attempts <= delivery[d].attempts
      BY <1>3
    <3> QED
      BY <1>4, <2>2, <3>1, CountKept
  <2> QED
    BY <2>1, <2>2
<1>6. SingleInv'
  <2> SUFFICES ASSUME NEW d \in Deliveries \ doubled'
               PROVE  /\ \A v, o \in Before(d)' : v = o
                      /\ Counted(d)'
                      /\ \A v \in Before(d)' : Open(d)' /\ Fresh(d, turn[v])'
    BY DEF SingleInv, Counted, Open, Fresh
  <2>1. d \in Deliveries \ doubled /\ \A v, o \in Before(d)' : v = o
    BY DEF Alone
  <2>2. Counted(d) /\ \A v \in Before(d) : Open(d) /\ Fresh(d, turn[v])
    BY <2>1, SingleFact DEF HooksInv
  <2>3. Counted(d)' /\ (Open(d) => Open(d)')
    BY <2>2 DEF Counted, Open
  <2>4. ASSUME NEW v \in Before(d)' PROVE Open(d) /\ Fresh(d, turn'[v])
    <3>1. CASE v = w
      <4>1. d \in c.todo
        BY <1>1, <2>4, <3>1, IdleTurn DEF Before
      <4>2. Fresh(d, turn'[v])
        BY <1>1, <3>1, <2>4 DEF Fresh, Before
      <4> QED
        BY <4>1, <4>2
    <3>2. CASE v # w
      BY <1>1, <2>2, <2>4, <3>2 DEF Before
    <3> QED
      BY <3>1, <3>2
  <2>5. \A v : Fresh(d, turn'[v]) => Fresh(d, turn[v])'
    BY DEF Fresh
  <2> QED
    BY <2>1, <2>3, <2>4, <2>5
<1> QED
  BY <1>2, <1>5, <1>6 DEF HooksInv

LEMMA DispatchStep ==
    ASSUME HooksInv, Alone, NEW w \in Workers, NEW e \in Events,
           W!DispatchReads(w, e)
    PROVE  HooksInv'
<1> DEFINE k == [W!Idle EXCEPT !.step = "next", !.op = e, !.todo = {e} \X W!Active]
<1>1. /\ turn[w] = W!Idle /\ e \notin fired /\ fired' = fired \cup {e}
      /\ turn' = [turn EXCEPT ![w] = k]
      /\ UNCHANGED <<endpoint, delivery, faults>>
  BY DEF W!DispatchReads
<1>2. {e} \X W!Active \subseteq Deliveries
  BY DEF W!Active, Deliveries
<1>c. /\ k.step = "next" /\ k.op = e /\ k.todo = {e} \X W!Active
      /\ k.cur = NoHook /\ k \in Turns
  BY <1>2 DEF W!Idle, Turns
<1> HIDE DEF k
<1>3. PICK c \in Turns :
         /\ turn' = [turn EXCEPT ![w] = c]
         /\ c.step = "next" /\ c.op = e /\ c.cur = NoHook
         /\ c.todo = {e} \X W!Active
  BY <1>1, <1>c
<1>4. TurnInv(c)'
  <2>1. c.step \notin Attempting
    BY <1>3 DEF Attempting
  <2>2. c.cur \notin c.todo
    BY <1>2, <1>3, IdleTurn
  <2>3. c.todo \subseteq {c.op} \X Endpoints /\ c.op \in fired'
    BY <1>1, <1>3 DEF W!Active
  <2> QED
    BY <1>3, <2>1, <2>2, <2>3 DEF TurnInv
<1>5. \A d \in c.todo : Open(d)
  <2> SUFFICES ASSUME NEW d \in c.todo PROVE Open(d)
    OBVIOUS
  <2>1. d \in Deliveries /\ d[1] = e
    BY <1>2, <1>3
  <2>2. delivery[d].status = "NONE" /\ delivery[d].attempts = 0
    BY <1>1, <2>1 DEF HooksInv, HooksShape
  <2> QED
    BY <2>2, HooksGiven DEF Open
<1>6. fired \subseteq fired' /\ fired' \subseteq Events
  BY <1>1 DEF HooksInv, HooksShape
<1> QED
  BY <1>1, <1>3, <1>4, <1>5, <1>6, TakesUp

LEMMA RetryStep ==
    ASSUME HooksInv, Alone, NEW w \in Workers, W!RetryReads(w)
    PROVE  HooksInv'
<1> DEFINE k == [W!Idle EXCEPT !.step = "next", !.op = "retry", !.todo = W!DueRows]
<1>1. /\ turn[w] = W!Idle
      /\ turn' = [turn EXCEPT ![w] = k]
      /\ UNCHANGED <<endpoint, fired, delivery, faults>>
  BY DEF W!RetryReads, W!rows
<1>2. W!DueRows \subseteq Deliveries
  BY HookFacts DEF W!DueRows
<1>c. /\ k.step = "next" /\ k.op = "retry" /\ k.todo = W!DueRows
      /\ k.cur = NoHook /\ k \in Turns
  BY <1>2 DEF W!Idle, Turns
<1> HIDE DEF k
<1>3. PICK c \in Turns :
         /\ turn' = [turn EXCEPT ![w] = c]
         /\ c.step = "next" /\ c.op = "retry" /\ c.cur = NoHook
         /\ c.todo = W!DueRows
  BY <1>1, <1>c
<1>4. TurnInv(c)'
  <2>1. c.step \notin Attempting
    BY <1>3 DEF Attempting
  <2>2. c.cur \notin c.todo
    BY <1>2, <1>3, IdleTurn
  <2>3. c.op \notin Events
    BY <1>3, HooksGiven
  <2> QED
    BY <1>3, <2>1, <2>2, <2>3 DEF TurnInv
<1>5. \A d \in c.todo : Open(d)
  BY <1>3 DEF W!DueRows, Open
<1>6. fired \subseteq fired' /\ fired' \subseteq Events
  BY <1>1 DEF HooksInv, HooksShape
<1> QED
  BY <1>1, <1>3, <1>4, <1>5, <1>6, TakesUp

\* A step of the attempt that writes nothing.
LEMMA GotoStep ==
    ASSUME HooksInv, Alone, NEW w \in Workers,
           turn[w].step \in Attempting, NEW step \in Attempting, step # "write",
           W!Goto(w, step),
           UNCHANGED <<endpoint, fired, delivery>>, faults' \in 0..MaxFaults
    PROVE  HooksInv'
<1> DEFINE c == [turn[w] EXCEPT !.step = step]
<1>1. turn[w] \in Turns /\ TurnInv(turn[w]) /\ DOMAIN turn = Workers
  BY DEF HooksInv, HooksShape
<1>2. /\ c \in Turns /\ c.step = step /\ c.op = turn[w].op
      /\ c.todo = turn[w].todo /\ c.cur = turn[w].cur
      /\ turn' = [turn EXCEPT ![w] = c]
  BY <1>1 DEF Turns, W!Goto
<1> HIDE DEF c
<1>3. TurnInv(c)
  BY <1>1, <1>2 DEF TurnInv
<1>4. \A d \in Deliveries : Fresh(d, c)
  BY <1>2 DEF Fresh
<1> QED
  BY <1>2, <1>3, <1>4, GoesOn

LEMMA PostStep ==
    ASSUME HooksInv, Alone, NEW w \in Workers, W!Posts(w)
    PROVE  HooksInv'
<1>1. PICK answer \in {"ok", "failed"} : W!Goto(w, answer)
  BY DEF W!Posts
<1>2. /\ turn[w].step \in Attempting /\ answer \in Attempting /\ answer # "write"
      /\ UNCHANGED <<endpoint, fired, delivery>> /\ faults' \in 0..MaxFaults
  BY <1>1 DEF W!Posts, W!rows, Attempting, HooksInv, HooksShape
<1> QED
  BY <1>1, <1>2, GotoStep

LEMMA CaughtStep ==
    ASSUME HooksInv, Alone, NEW w \in Workers, W!Caught(w)
    PROVE  HooksInv'
<1>1. /\ turn[w].step \in Attempting /\ "failed" \in Attempting
      /\ W!Goto(w, "failed")
      /\ UNCHANGED <<endpoint, fired, delivery>>
  BY DEF W!Caught, W!rows, Attempting
<1>2. faults' \in 0..MaxFaults
  BY HooksGiven DEF W!Caught, HooksInv, HooksShape
<1> QED
  BY <1>1, <1>2, GotoStep

LEMMA ReadAttemptsStep ==
    ASSUME HooksInv, Alone, NEW w \in Workers, W!ReadAttempts(w)
    PROVE  HooksInv'
<1> DEFINE n == delivery[turn[w].cur].attempts + 1
           c == [turn[w] EXCEPT !.step = "write", !.next = n]
<1>1. /\ turn[w] \in Turns /\ TurnInv(turn[w]) /\ DOMAIN turn = Workers
      /\ turn[w].step = "failed"
      /\ UNCHANGED <<endpoint, fired, delivery>> /\ faults' \in 0..MaxFaults
  BY DEF HooksInv, HooksShape, W!ReadAttempts, W!rows
<1>2. turn[w].cur \in Deliveries
  BY <1>1 DEF TurnInv, Attempting, Turns
<1>3. n \in Nat
  BY <1>2 DEF HooksInv, HooksShape, Deliverings
<1>4. turn' = [turn EXCEPT ![w] = c]
  <2>1. turn' = [turn EXCEPT ![w].step = "write", ![w].next = n]
    BY DEF W!ReadAttempts
  <2> HIDE DEF n
  <2> QED
    BY <1>1, <2>1
<1> HIDE DEF n
<1>5. /\ c \in Turns /\ c.step = "write" /\ c.op = turn[w].op
      /\ c.todo = turn[w].todo /\ c.cur = turn[w].cur /\ c.next = n
  BY <1>1, <1>3 DEF Turns, Attempting
<1> HIDE DEF c
<1>6. TurnInv(c)
  BY <1>1, <1>5 DEF TurnInv, Attempting
<1>7. \A d \in Deliveries : Fresh(d, c)
  BY <1>5 DEF Fresh, n
<1> QED
  BY <1>1, <1>4, <1>5, <1>6, <1>7, GoesOn

LEMMA RetryNextStep ==
    ASSUME HooksInv, Alone, NEW w \in Workers, NEW d,
           W!RetryNext(w, d)
    PROVE  HooksInv'
<1> DEFINE a == [turn[w] EXCEPT !.step = "post", !.todo = turn[w].todo \ {d},
                                !.cur = d]
           b == [turn[w] EXCEPT !.todo = turn[w].todo \ {d}]
<1>1. /\ turn[w] \in Turns /\ TurnInv(turn[w])
      /\ turn[w].step = "next" /\ turn[w].op = "retry" /\ d \in turn[w].todo
      /\ turn[w].op \notin Events
      /\ UNCHANGED <<endpoint, fired, delivery>> /\ faults' \in 0..MaxFaults
      /\ turn' = [turn EXCEPT ![w] = a] \/ turn' = [turn EXCEPT ![w] = b]
  BY HooksGiven DEF HooksInv, HooksShape, W!RetryNext, W!rows
<1>2. d \in Deliveries /\ d # NoHook /\ turn[w].cur = NoHook
  BY <1>1, IdleTurn DEF Turns, TurnInv, Attempting
<1>3. /\ a \in Turns /\ a.step = "post" /\ a.op = turn[w].op
      /\ a.todo = turn[w].todo \ {d} /\ a.cur = d
  BY <1>1, <1>2 DEF Turns, Attempting
<1>4. /\ b \in Turns /\ b.step = "next" /\ b.op = turn[w].op
      /\ b.todo = turn[w].todo \ {d} /\ b.cur = NoHook
  BY <1>1, <1>2 DEF Turns
<1> HIDE DEF a, b
<1>5. TurnInv(a) /\ TurnInv(b)
  BY <1>1, <1>2, <1>3, <1>4 DEF TurnInv, Attempting
<1>6. \A e \in Deliveries : Fresh(e, a) /\ Fresh(e, b)
  BY <1>3, <1>4 DEF Fresh
<1>7. CASE turn' = [turn EXCEPT ![w] = a]
  <2>1. a.todo \cup {a.cur} \subseteq turn[w].todo \cup {turn[w].cur, NoHook}
    BY <1>1, <1>3
  <2> QED
    BY <1>1, <1>3, <1>5, <1>6, <1>7, <2>1, GoesOn
<1>8. CASE turn' = [turn EXCEPT ![w] = b]
  <2>1. b.todo \cup {b.cur} \subseteq turn[w].todo \cup {turn[w].cur, NoHook}
    BY <1>1, <1>4
  <2> QED
    BY <1>1, <1>4, <1>5, <1>6, <1>8, <2>1, GoesOn
<1> QED
  BY <1>1, <1>7, <1>8

LEMMA EndsStep ==
    ASSUME HooksInv, Alone, NEW w \in Workers, W!Ends(w)
    PROVE  HooksInv'
<1>1. /\ turn' = [v \in Workers |-> IF v \in {w} THEN W!Idle ELSE turn[v]]
      /\ UNCHANGED <<endpoint, fired, delivery>> /\ faults' \in 0..MaxFaults
  BY DEF W!Ends, W!rows, HooksInv, HooksShape
<1> QED
  BY <1>1, CallsStop

LEMMA StopsStep ==
    ASSUME HooksInv, Alone, NEW w \in Workers, W!Stops(w)
    PROVE  HooksInv'
<1>1. W!Throws(w) /\ UNCHANGED <<endpoint, fired, delivery>>
  BY DEF W!Stops, W!rows
<1>2. faults' \in 0..MaxFaults
  BY HooksGiven DEF W!Stops, HooksInv, HooksShape
<1> QED
  BY <1>1, <1>2, ThrowStep

\* The attempt is written to its row and is over.
LEMMA AttemptRecorded ==
    ASSUME HooksInv, Alone, NEW w \in Workers, NEW d,
           turn[w].step \in Attempting, d = turn[w].cur, W!Present(d),
           NEW status \in {"PENDING", "SUCCESS", "FAILED"}, W!Record(w, d, status),
           d \notin doubled =>
              (status = "FAILED" <=>
                 delivery[d].attempts + 1 = MaxAttempts /\ status # "SUCCESS"),
           UNCHANGED <<endpoint, fired, faults>>
    PROVE  HooksInv'
<1> DEFINE c == W!After(w)
           r == [status |-> status, attempts |-> delivery[d].attempts + 1,
                 due |-> FALSE]
<1>1. /\ turn[w] \in Turns /\ TurnInv(turn[w]) /\ d \in Deliveries /\ d # NoHook
      /\ d \notin turn[w].todo
  BY IdleTurn DEF HooksInv, HooksShape, TurnInv, Turns
<1>2. /\ c \in Turns /\ c.step = "next" /\ c.op = turn[w].op
      /\ c.todo = turn[w].todo /\ c.cur = NoHook
      /\ turn' = [turn EXCEPT ![w] = c]
  BY <1>1 DEF Turns, W!After, W!Record
<1>3. /\ delivery[d].attempts \in Nat /\ delivery[d].status # "NONE"
      /\ DOMAIN delivery = Deliveries
      /\ \A e \in Deliveries : delivery[e] \in Deliverings
  BY <1>1 DEF W!Present, HooksInv, HooksShape, Deliverings
<1>4. /\ r \in Deliverings /\ r.status = status
      /\ r.attempts = delivery[d].attempts + 1
      /\ delivery' = [delivery EXCEPT ![d] = r]
  BY <1>1, <1>3 DEF Deliverings, W!Record
<1> HIDE DEF c, r
<1>5. /\ \A v \in Workers : turn'[v] = IF v = w THEN c ELSE turn[v]
      /\ turn' \in [Workers -> Turns]
      /\ \A e \in Deliveries : delivery'[e] = IF e = d THEN r ELSE delivery[e]
      /\ delivery' \in [Deliveries -> Deliverings]
  BY <1>2, <1>3, <1>4 DEF HooksInv, HooksShape
<1>6. TurnInv(c)
  BY <1>1, <1>2, IdleTurn DEF TurnInv, Attempting, Turns
<1>7. HooksShape'
  <2>1. \A v \in Workers : TurnInv(turn[v])'
    BY <1>5, <1>6 DEF HooksInv, HooksShape, TurnInv
  <2>2. \A e \in Deliveries :
           IF delivery'[e].status = "NONE" THEN delivery'[e].attempts = 0
                                           ELSE e[1] \in fired'
    BY <1>1, <1>3, <1>4, <1>5 DEF HooksInv, HooksShape
  <2> QED
    BY <1>5, <2>1, <2>2 DEF HooksInv, HooksShape
<1>8. /\ \A e \in Deliveries : e # d => Before(e)' = Before(e)
      /\ w \in Before(d) /\ Before(d)' = Before(d) \ {w}
  <2>1. \A e \in Deliveries : e # NoHook
    BY IdleTurn
  <2> QED
    BY <1>1, <1>2, <1>5, <2>1 DEF Before
<1>9. CountInv'
  <2> SUFFICES ASSUME NEW e \in Deliveries
               PROVE  delivery'[e].attempts <= MaxAttempts - 1 \/
                      delivery'[e].attempts + Cardinality(Before(e)') <=
                         MaxAttempts - 1 + Cardinality(Workers)
    BY DEF CountInv
  <2>1. CASE e # d
    <3>1. delivery'[e].attempts \in Nat
          /\ delivery'[e].attempts <= delivery[e].attempts
      BY <1>3, <1>5, <2>1 DEF Deliverings
    <3> QED
      BY <1>8, <2>1, <3>1, CountKept
  <2>2. CASE e = d
    <3>1. IsFiniteSet(Before(d)) /\ Before(d) \subseteq Workers
      BY FS_Subset, HooksGiven DEF Before
    <3>2. /\ Cardinality(Before(d)') = Cardinality(Before(d)) - 1
          /\ Cardinality(Before(d)) \in Nat
          /\ Cardinality(Before(d)) <= Cardinality(Workers)
          /\ Cardinality(Workers) \in Nat
      BY <1>8, <3>1, FS_RemoveElement, FS_Subset, FS_CardinalityType, HooksGiven
    <3>3. delivery[d].attempts <= MaxAttempts - 1 \/
          delivery[d].attempts + Cardinality(Before(d)) <=
             MaxAttempts - 1 + Cardinality(Workers)
      BY <1>1 DEF HooksInv, CountInv
    <3>4. delivery'[e].attempts = delivery[d].attempts + 1
      BY <1>1, <1>4, <1>5, <2>2
    <3>5. MaxAttempts \in Nat
      BY HooksGiven
    <3> QED
      BY <1>3, <2>2, <3>2, <3>3, <3>4, <3>5
  <2> QED
    BY <2>1, <2>2
<1>10. SingleInv'
  <2> SUFFICES ASSUME NEW e \in Deliveries \ doubled'
               PROVE  /\ \A v, o \in Before(e)' : v = o
                      /\ Counted(e)'
                      /\ \A v \in Before(e)' : Open(e)' /\ Fresh(e, turn[v])'
    BY DEF SingleInv, Counted, Open, Fresh
  <2>1. e \in Deliveries \ doubled /\ \A v, o \in Before(e)' : v = o
    BY DEF Alone
  <2>2. /\ Counted(e) /\ \A v \in Before(e) : Open(e) /\ Fresh(e, turn[v])
        /\ \A v, o \in Before(e) : v = o
    BY <2>1, SingleFact DEF HooksInv
  <2>3. CASE e # d
    <3>1. delivery'[e] = delivery[e]
      BY <1>5, <2>3
    <3>2. Counted(e)' /\ (Open(e) => Open(e)')
      BY <2>2, <3>1 DEF Counted, Open
    <3>3. ASSUME NEW v \in Before(e)' PROVE Open(e) /\ Fresh(e, turn[v])'
      <4>1. v \in Before(e)
        BY <1>8, <2>3, <3>3
      <4>2. CASE v = w
        BY <1>2, <1>5, <2>2, <4>1, <4>2 DEF Fresh, Before
      <4>3. CASE v # w
        BY <1>5, <2>2, <3>1, <4>1, <4>3 DEF Fresh, Before
      <4> QED
        BY <4>2, <4>3
    <3> QED
      BY <2>1, <3>2, <3>3
  <2>4. CASE e = d
    <3>1. Before(e)' = {}
      BY <1>8, <2>2, <2>4
    <3>2. delivery[d].attempts < MaxAttempts
      BY <1>8, <2>2, <2>4 DEF Open
    <3>3. Counted(e)'
      <4>1. delivery'[e].status = status
            /\ delivery'[e].attempts = delivery[d].attempts + 1
        BY <1>1, <1>4, <1>5, <2>4
      <4>2. delivery'[e].attempts <= MaxAttempts
        BY <1>3, <3>2, <4>1, HooksGiven
      <4> QED
        BY <2>1, <2>4, <4>1, <4>2 DEF Counted
    <3> QED
      BY <3>1, <3>3
  <2> QED
    BY <2>3, <2>4
<1> QED
  BY <1>7, <1>9, <1>10 DEF HooksInv

LEMMA SuccessStep ==
    ASSUME HooksInv, Alone, NEW w \in Workers, W!WriteSuccess(w)
    PROVE  HooksInv'
<1>1. /\ turn[w].step \in Attempting /\ "failed" \in Attempting
      /\ UNCHANGED <<endpoint, fired>>
  BY DEF W!WriteSuccess, Attempting
<1>2. CASE /\ W!Present(turn[w].cur) /\ UNCHANGED faults
           /\ W!Record(w, turn[w].cur, "SUCCESS")
  BY <1>1, <1>2, AttemptRecorded
<1>3. CASE /\ W!Goto(w, "failed") /\ UNCHANGED delivery
           /\ faults' \in 0..MaxFaults
  BY <1>1, <1>3, GotoStep
<1>4. faults \in 0..MaxFaults /\ MaxFaults \in Nat
  BY HooksGiven DEF HooksInv, HooksShape
<1>5. faults < MaxFaults => faults + 1 \in 0..MaxFaults
  BY <1>4
<1> QED
  BY <1>2, <1>3, <1>4, <1>5 DEF W!WriteSuccess

LEMMA FailureStep ==
    ASSUME HooksInv, Alone, NEW w \in Workers, W!WriteFailure(w)
    PROVE  HooksInv'
<1> DEFINE d == turn[w].cur
           status == IF turn[w].next >= MaxAttempts THEN "FAILED" ELSE "PENDING"
<1>1. /\ turn[w].step = "write" /\ turn[w].step \in Attempting
      /\ UNCHANGED <<endpoint, fired, faults>>
  BY DEF W!WriteFailure, Attempting
<1>2. CASE W!Throws(w) /\ UNCHANGED delivery
  BY <1>1, <1>2, ThrowStep DEF HooksInv, HooksShape
<1>3. CASE /\ W!Present(d) /\ turn[w].next <= MaxAttempts
           /\ W!Record(w, d, status)
  <2>1. d \in Deliveries /\ w \in Before(d) /\ turn[w].next \in Nat
    BY <1>1 DEF Before, HooksInv, HooksShape, TurnInv, Turns
  <2>2. d \notin doubled => turn[w].next = delivery[d].attempts + 1
    BY <1>1, <1>3, <2>1 DEF HooksInv, SingleInv, W!Present
  <2>3. status \in {"PENDING", "SUCCESS", "FAILED"} /\ status # "SUCCESS"
        /\ (status = "FAILED" <=> turn[w].next = MaxAttempts)
    BY <1>3, <2>1, HooksGiven
  <2> HIDE DEF status
  <2>4. d \notin doubled =>
           (status = "FAILED" <=>
              delivery[d].attempts + 1 = MaxAttempts /\ status # "SUCCESS")
    BY <2>2, <2>3
  <2> QED
    BY <1>1, <1>3, <2>3, <2>4, AttemptRecorded
<1> QED
  BY <1>2, <1>3 DEF W!WriteFailure

\* The row of a delivery is created, and posted next.
LEMMA CreatesStep ==
    ASSUME HooksInv, Alone, NEW w \in Workers, NEW d,
           W!DispatchCreates(w, d)
    PROVE  HooksInv'
<1> DEFINE c == [turn[w] EXCEPT !.step = "post", !.todo = turn[w].todo \ {d},
                                !.cur = d]
           r == [W!NoRow EXCEPT !.status = "PENDING"]
<1>1. /\ turn[w] \in Turns /\ TurnInv(turn[w])
      /\ turn[w].step = "next" /\ turn[w].op \in Events /\ d \in turn[w].todo
      /\ UNCHANGED <<endpoint, fired, faults>>
      /\ faults' \in 0..MaxFaults
  BY DEF HooksInv, HooksShape, W!DispatchCreates
<1>2. CASE W!Throws(w) /\ UNCHANGED delivery
  BY <1>1, <1>2, ThrowStep
<1>3. CASE /\ delivery' = [delivery EXCEPT ![d] = r]
           /\ turn' = [turn EXCEPT ![w] = c]
  <2>1. /\ d \in Deliveries /\ d # NoHook /\ turn[w].cur = NoHook
        /\ d[1] \in fired
    BY <1>1, IdleTurn DEF Turns, TurnInv, Attempting
  <2>2. /\ c \in Turns /\ c.step = "post" /\ c.op = turn[w].op
        /\ c.todo = turn[w].todo \ {d} /\ c.cur = d
    BY <1>1, <2>1 DEF Turns, Attempting
  <2>3. /\ r \in Deliverings /\ r.status = "PENDING" /\ r.attempts = 0
    BY DEF W!NoRow, Deliverings
  <2> HIDE DEF c, r
  <2>4. /\ \A v \in Workers : turn'[v] = IF v = w THEN c ELSE turn[v]
        /\ turn' \in [Workers -> Turns]
        /\ \A e \in Deliveries : delivery'[e] = IF e = d THEN r ELSE delivery[e]
        /\ delivery' \in [Deliveries -> Deliverings]
    BY <1>3, <2>2, <2>3 DEF HooksInv, HooksShape
  <2>5. TurnInv(c)
    BY <1>1, <2>1, <2>2 DEF TurnInv, Attempting
  <2>6. HooksShape'
    <3>1. \A v \in Workers : TurnInv(turn[v])'
      BY <1>1, <2>4, <2>5 DEF HooksInv, HooksShape, TurnInv
    <3>2. \A e \in Deliveries :
             IF delivery'[e].status = "NONE" THEN delivery'[e].attempts = 0
                                             ELSE e[1] \in fired'
      BY <1>1, <2>1, <2>3, <2>4 DEF HooksInv, HooksShape
    <3> QED
      BY <1>1, <2>4, <3>1, <3>2 DEF HooksInv, HooksShape
  <2>7. \A e \in Deliveries : Before(e)' = Before(e)
    BY <1>1, <2>1, <2>2, <2>4, IdleTurn DEF Before
  <2>8. CountInv'
    <3>1. \A e \in Deliveries : delivery[e].attempts \in Nat
      BY DEF HooksInv, HooksShape, Deliverings
    <3>2. \A e \in Deliveries : delivery'[e].attempts \in Nat
             /\ delivery'[e].attempts <= delivery[e].attempts
      BY <2>3, <2>4, <3>1
    <3> QED
      BY <2>7, <3>2, CountKept DEF CountInv
  <2>9. SingleInv'
    <3> SUFFICES ASSUME NEW e \in Deliveries \ doubled'
                 PROVE  /\ \A v, o \in Before(e)' : v = o
                        /\ Counted(e)'
                        /\ \A v \in Before(e)' : Open(e)' /\ Fresh(e, turn[v])'
      BY DEF SingleInv, Counted, Open, Fresh
    <3>1. e \in Deliveries \ doubled /\ \A v, o \in Before(e)' : v = o
      BY DEF Alone
    <3>2. Counted(e) /\ \A v \in Before(e) : Open(e) /\ Fresh(e, turn[v])
      BY <3>1, SingleFact DEF HooksInv
    <3>3. CASE e # d
      <4>1. delivery'[e] = delivery[e]
        BY <2>4, <3>3
      <4>2. Counted(e)' /\ (Open(e) => Open(e)')
        BY <3>2, <4>1 DEF Counted, Open
      <4>3. ASSUME NEW v \in Before(e)' PROVE Open(e) /\ Fresh(e, turn[v])'
        BY <2>2, <2>4, <2>7, <3>2, <4>1, <4>3 DEF Fresh, Before
      <4> QED
        BY <3>1, <4>2, <4>3
    <3>4. CASE e = d
      <4>1. delivery'[e] = r
        BY <2>4, <3>4
      <4>2. Counted(e)' /\ Open(e)'
        BY <2>3, <4>1, HooksGiven DEF Counted, Open
      <4>3. w \in Before(e)'
        BY <1>1, <2>7, <3>4 DEF Before
      <4>4. ASSUME NEW v \in Before(e)' PROVE Fresh(e, turn[v])'
        BY <2>2, <2>4, <3>1, <4>3, <4>4 DEF Fresh
      <4> QED
        BY <3>1, <4>2, <4>4
    <3> QED
      BY <3>3, <3>4
  <2> QED
    BY <2>6, <2>8, <2>9 DEF HooksInv
<1> QED
  BY <1>2, <1>3 DEF W!DispatchCreates

\* Rows that stay as they are counted, or go.
LEMMA RowsStay ==
    ASSUME HooksInv, Alone, UNCHANGED <<fired, turn, faults>>,
           endpoint' \in [Endpoints -> {"NONE", "ACTIVE", "REMOVED"}],
           delivery' \in [Deliveries -> Deliverings],
           \A d \in Deliveries :
              \/ /\ delivery'[d].status = delivery[d].status
                 /\ delivery'[d].attempts = delivery[d].attempts
              \/ delivery'[d].status = "NONE" /\ delivery'[d].attempts = 0
    PROVE  HooksInv'
<1>1. HooksShape'
  <2>1. \A v \in Workers : TurnInv(turn[v])'
    BY DEF HooksInv, HooksShape, TurnInv
  <2>2. \A e \in Deliveries :
           IF delivery'[e].status = "NONE" THEN delivery'[e].attempts = 0
                                           ELSE e[1] \in fired'
    BY DEF HooksInv, HooksShape
  <2> QED
    BY <2>1, <2>2 DEF HooksInv, HooksShape
<1>2. \A e \in Deliveries : Before(e)' = Before(e)
  BY DEF Before
<1>3. \A e \in Deliveries : delivery[e].attempts \in Nat
         /\ delivery'[e].attempts \in Nat
         /\ delivery'[e].attempts <= delivery[e].attempts
  BY DEF HooksInv, HooksShape, Deliverings
<1>4. CountInv'
  BY <1>2, <1>3, CountKept DEF CountInv
<1>5. SingleInv'
  <2> SUFFICES ASSUME NEW e \in Deliveries \ doubled'
               PROVE  /\ \A v, o \in Before(e)' : v = o
                      /\ Counted(e)'
                      /\ \A v \in Before(e)' : Open(e)' /\ Fresh(e, turn[v])'
    BY DEF SingleInv, Counted, Open, Fresh
  <2>1. e \in Deliveries \ doubled /\ \A v, o \in Before(e)' : v = o
    BY DEF Alone
  <2>2. Counted(e) /\ \A v \in Before(e) : Open(e) /\ Fresh(e, turn[v])
    BY <2>1, SingleFact DEF HooksInv
  <2>3. CASE /\ delivery'[e].status = delivery[e].status
             /\ delivery'[e].attempts = delivery[e].attempts
    <3>1. Counted(e)' /\ (Open(e) => Open(e)')
      BY <2>2, <2>3 DEF Counted, Open
    <3>2. \A v \in Before(e)' : Open(e) /\ Fresh(e, turn[v])'
      BY <1>2, <2>2, <2>3 DEF Fresh
    <3> QED
      BY <2>1, <3>1, <3>2
  <2>4. CASE delivery'[e].status = "NONE" /\ delivery'[e].attempts = 0
    BY <2>1, <2>4, HooksGiven DEF Counted, Open, Fresh
  <2> QED
    BY <2>3, <2>4
<1> QED
  BY <1>1, <1>4, <1>5 DEF HooksInv

LEMMA TimeStep ==
    ASSUME HooksInv, Alone, NEW d \in Deliveries, W!TimePasses(d)
    PROVE  HooksInv'
<1> DEFINE r == [delivery[d] EXCEPT !.due = TRUE]
<1>1. /\ delivery[d] \in Deliverings /\ DOMAIN delivery = Deliveries
      /\ delivery' = [delivery EXCEPT ![d].due = TRUE]
      /\ UNCHANGED <<endpoint, fired, turn, faults>>
  BY DEF HooksInv, HooksShape, W!TimePasses
<1>2. /\ r \in Deliverings /\ r.status = delivery[d].status
      /\ r.attempts = delivery[d].attempts
      /\ delivery' = [delivery EXCEPT ![d] = r]
  BY <1>1 DEF Deliverings
<1> HIDE DEF r
<1>3. /\ \A e \in Deliveries : delivery'[e] = IF e = d THEN r ELSE delivery[e]
      /\ delivery' \in [Deliveries -> Deliverings]
  BY <1>1, <1>2 DEF HooksInv, HooksShape
<1>4. \A e \in Deliveries : /\ delivery'[e].status = delivery[e].status
                            /\ delivery'[e].attempts = delivery[e].attempts
  BY <1>2, <1>3
<1>5. endpoint' \in [Endpoints -> {"NONE", "ACTIVE", "REMOVED"}]
  BY <1>1 DEF HooksInv, HooksShape
<1> QED
  BY <1>1, <1>3, <1>4, <1>5, RowsStay

LEMMA EndpointStep ==
    ASSUME HooksInv, Alone, NEW p \in Endpoints,
           W!CreateEndpoint(p) \/ W!RemoveEndpoint(p)
    PROVE  HooksInv'
<1>1. /\ endpoint' \in [Endpoints -> {"NONE", "ACTIVE", "REMOVED"}]
      /\ UNCHANGED <<fired, turn, faults>>
  BY DEF HooksInv, HooksShape, W!CreateEndpoint, W!RemoveEndpoint
<1>2. /\ W!NoRow \in Deliverings /\ W!NoRow.status = "NONE"
      /\ W!NoRow.attempts = 0
  BY DEF W!NoRow, Deliverings
<1>3. /\ delivery \in [Deliveries -> Deliverings]
      /\ \/ delivery' = delivery
         \/ delivery' = [d \in Deliveries |->
               IF d[2] = p THEN W!NoRow ELSE delivery[d]]
  BY HookFacts DEF HooksInv, HooksShape, W!CreateEndpoint, W!RemoveEndpoint
<1>4. /\ delivery' \in [Deliveries -> Deliverings]
      /\ \A d \in Deliveries : delivery'[d] \in {delivery[d], W!NoRow}
  BY <1>2, <1>3
<1> QED
  BY <1>1, <1>2, <1>4, RowsStay

LEMMA HooksNext ==
    ASSUME HooksInv, W!Next, Alone
    PROVE  HooksInv'
<1>1. ASSUME NEW w \in Workers, NEW e \in Events, W!DispatchReads(w, e)
      PROVE  HooksInv'
  BY <1>1, DispatchStep
<1>2. ASSUME NEW w \in Workers, W!RetryReads(w) PROVE HooksInv'
  BY <1>2, RetryStep
<1>3. ASSUME NEW w \in Workers, W!Proceeds(w) PROVE HooksInv'
  <2>1. ASSUME NEW d, W!DispatchCreates(w, d) \/ W!RetryNext(w, d) PROVE HooksInv'
    BY <2>1, CreatesStep, RetryNextStep
  <2>2. CASE W!Posts(w) \/ W!WriteSuccess(w) \/ W!ReadAttempts(w)
             \/ W!WriteFailure(w) \/ W!Ends(w)
    BY <2>2, PostStep, SuccessStep, ReadAttemptsStep, FailureStep, EndsStep
  <2> QED
    BY <1>3, <2>1, <2>2 DEF W!Proceeds
<1>4. ASSUME NEW w \in Workers, W!Caught(w) \/ W!Stops(w) PROVE HooksInv'
  BY <1>4, CaughtStep, StopsStep
<1>5. ASSUME NEW d \in Deliveries, W!TimePasses(d) PROVE HooksInv'
  BY <1>5, TimeStep
<1>6. ASSUME NEW p \in Endpoints, W!CreateEndpoint(p) \/ W!RemoveEndpoint(p)
      PROVE  HooksInv'
  BY <1>6, EndpointStep
<1> QED
  BY <1>1, <1>2, <1>3, <1>4, <1>5, <1>6, HookFacts DEF W!Next

LEMMA HooksKept ==
    ASSUME HooksInv,
           [W!Next /\ HooksNoted]_hookVars
    PROVE  HooksInv'
<1>1. CASE W!Next /\ HooksNoted
  BY <1>1, AloneFact, HooksNext
<1>2. CASE UNCHANGED hookVars
  <2>1. UNCHANGED <<endpoint, fired, delivery, turn, faults, doubled>>
    BY <1>2 DEF hookVars, W!vars
  <2> QED
    BY <2>1 DEF HooksInv, HooksShape, TurnInv, CountInv, SingleInv, Before
<1> QED
  BY <1>1, <1>2

LEMMA HooksTyped == ASSUME HooksInv PROVE HookTypesOK
<1>1. /\ endpoint \in [Endpoints -> {"NONE", "ACTIVE", "REMOVED"}]
      /\ fired \subseteq Events /\ faults \in 0..MaxFaults
      /\ delivery \in [Deliveries ->
           [status : {"NONE", "PENDING", "SUCCESS", "FAILED"}, attempts : Nat,
            due : BOOLEAN]]
  BY DEF HooksInv, HooksShape, Deliverings
<1>2. turn \in [Workers ->
         [step : W!Steps, op : Events \cup {NoHook, "retry"},
          todo : SUBSET Deliveries, cur : Deliveries \cup {NoHook}, next : Nat]]
  BY DEF HooksInv, HooksShape, Turns, Attempting, W!Steps
<1>3. \A w \in Workers :
         /\ turn[w].step \in {"post", "ok", "failed", "write"} <=>
               turn[w].cur # NoHook
         /\ turn[w].op \in Events => turn[w].todo \subseteq {turn[w].op} \X Endpoints
  BY DEF HooksInv, HooksShape, TurnInv, Attempting
<1>4. ASSUME NEW d \in Deliveries
      PROVE  delivery[d].attempts <= MaxAttempts - 1 + Cardinality(Workers)
  <2>1. IsFiniteSet(Before(d))
    BY FS_Subset, HooksGiven DEF Before
  <2>2. /\ Cardinality(Workers) \in Nat /\ Cardinality(Before(d)) \in Nat
        /\ delivery[d].attempts \in Nat /\ MaxAttempts \in Nat
    BY <2>1, FS_CardinalityType, HooksGiven DEF HooksInv, HooksShape, Deliverings
  <2>3. delivery[d].attempts <= MaxAttempts - 1 \/
        delivery[d].attempts + Cardinality(Before(d)) <=
           MaxAttempts - 1 + Cardinality(Workers)
    BY DEF HooksInv, CountInv
  <2> QED
    BY <2>2, <2>3
<1> QED
  BY <1>1, <1>2, <1>3, <1>4, HookFacts DEF HookTypesOK, W!TypeOK

\* Rows and workers keep their shape, for any endpoints, events, workers and
\* faults, and no row is counted past what that many workers can add to the last
\* attempt (dispatch, retryLoop, attempt).
THEOREM HookTypes == HooksSpec => []HookTypesOK
<1>1. HooksInit => HooksInv
  BY HooksStart
<1>2. HooksInv /\ [W!Next /\ HooksNoted]_hookVars => HooksInv'
  BY HooksKept
<1>3. HooksInv => HookTypesOK
  BY HooksTyped
<1> QED
  BY <1>1, <1>2, <1>3, PTL DEF HooksSpec

\* What has succeeded and is before nobody stays, or goes with its endpoint.
LEMMA RemovedRow ==
    ASSUME HooksInv, NEW d \in Deliveries, W!Next, delivery[d].status = "SUCCESS",
           \A w \in Workers : w \notin Before(d)
    PROVE  delivery'[d] \in {delivery[d], W!NoRow}
<1>1. /\ \A w \in Workers : d # turn[w].cur /\ d \notin turn[w].todo
      /\ DOMAIN delivery = Deliveries
  BY DEF Before, HooksInv, HooksShape
<1>2. ASSUME NEW w \in Workers, NEW e, W!DispatchCreates(w, e)
      PROVE  delivery'[d] = delivery[d]
  BY <1>1, <1>2 DEF W!DispatchCreates
<1>3. ASSUME NEW w \in Workers, W!WriteSuccess(w) \/ W!WriteFailure(w)
      PROVE  delivery'[d] = delivery[d]
  BY <1>1, <1>3 DEF W!WriteSuccess, W!WriteFailure, W!Record
<1>4. ASSUME NEW w \in Workers, NEW e,
             W!DispatchReads(w, e) \/ W!RetryReads(w) \/ W!RetryNext(w, e)
             \/ W!Posts(w) \/ W!ReadAttempts(w) \/ W!Ends(w) \/ W!Caught(w)
             \/ W!Stops(w)
      PROVE  delivery' = delivery
  BY <1>4 DEF W!DispatchReads, W!RetryReads, W!RetryNext, W!Posts, W!ReadAttempts,
     W!Ends, W!Caught, W!Stops, W!rows
<1>5. ASSUME NEW e \in Deliveries, W!TimePasses(e) PROVE delivery'[d] = delivery[d]
  BY <1>5 DEF W!TimePasses
<1>6. ASSUME NEW p \in Endpoints, W!CreateEndpoint(p) \/ W!RemoveEndpoint(p)
      PROVE  delivery'[d] \in {delivery[d], W!NoRow}
  BY <1>6, HookFacts DEF W!CreateEndpoint, W!RemoveEndpoint
<1> QED
  BY <1>2, <1>3, <1>4, <1>5, <1>6, HookFacts DEF W!Next, W!Proceeds

\* A delivery that one worker at a time has before it is not posted again once
\* it has succeeded or has failed as often as it may, and it is FAILED after
\* that many attempts and no others, for any endpoints, events, workers and
\* faults (attempt, retryLoop).
THEOREM DeliveryCounted == HooksSpec => AttemptsCounted
<1>1. HooksInit => HooksInv
  BY HooksStart
<1>2. HooksInv /\ [W!Next /\ HooksNoted]_hookVars => HooksInv'
  BY HooksKept
<1>3. ASSUME HooksInv, W!Next, HooksNoted, HooksInv',
             NEW d \in Deliveries \ doubled'
      PROVE  /\ delivery'[d].status = "FAILED" <=>
                   /\ delivery'[d].attempts = MaxAttempts
                   /\ delivery'[d].status # "SUCCESS"
             /\ delivery'[d].attempts <= MaxAttempts
             /\ delivery[d].status = "SUCCESS" =>
                   /\ delivery'[d] \in {delivery[d], W!NoRow}
                   /\ \A w \in Workers : turn[w].cur # d
  <2>1. d \notin doubled
    BY <1>3, AloneFact DEF Alone
  <2>2. Counted(d)'
    BY <1>3 DEF HooksInv, SingleInv, Counted
  <2>3. ASSUME delivery[d].status = "SUCCESS" PROVE Before(d) = {}
    BY <1>3, <2>1, <2>3 DEF HooksInv, SingleInv
  <2>4. ASSUME delivery[d].status = "SUCCESS"
        PROVE  /\ delivery'[d] \in {delivery[d], W!NoRow}
               /\ \A w \in Workers : turn[w].cur # d
    <3>1. \A w \in Workers : w \notin Before(d)
      BY <2>3, <2>4
    <3>2. \A w \in Workers : turn[w].cur # d
      BY <3>1 DEF Before
    <3> QED
      BY <1>3, <2>4, <3>1, <3>2, RemovedRow
  <2> QED
    BY <2>2, <2>4 DEF Counted
<1>4. ASSUME HooksInv, W!Next, HooksNoted, HooksInv'
      PROVE  \A d \in W!Deliveries \ doubled' :
               LET old == delivery[d]
                   new == delivery'[d] IN
               /\ new.status = "FAILED" <=>
                     new.attempts = MaxAttempts /\ new.status # "SUCCESS"
               /\ new.attempts <= MaxAttempts
               /\ old.status = "SUCCESS" =>
                     /\ new \in {old, W!NoRow}
                     /\ \A w \in Workers : turn[w].cur # d
  BY <1>3, <1>4, HookFacts
<1>5. HooksInv /\ HooksInv' /\ [W!Next /\ HooksNoted]_hookVars =>
        [\A d \in W!Deliveries \ doubled' :
           LET old == delivery[d]
               new == delivery'[d] IN
           /\ new.status = "FAILED" <=>
                 new.attempts = MaxAttempts /\ new.status # "SUCCESS"
           /\ new.attempts <= MaxAttempts
           /\ old.status = "SUCCESS" =>
                 /\ new \in {old, W!NoRow}
                 /\ \A w \in Workers : turn[w].cur # d
        ]_hookVars
  BY <1>4
<1> QED
  BY <1>1, <1>2, <1>5, PTL DEF HooksSpec, AttemptsCounted
=============================================================================

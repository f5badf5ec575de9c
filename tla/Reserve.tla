------------------------------ MODULE Reserve ------------------------------
(***************************************************************************)
(* The reserve fund of a building and its extraordinary levies              *)
(* (apps/api/src/reserve). A levy is split over the units when it is        *)
(* created; issued, it is collected by administrators at once, each in a    *)
(* READ COMMITTED transaction that updates one share after the other.       *)
(*                                                                          *)
(* The fund's row is the last one every transaction writes, and no          *)
(* transaction waits while it holds it: the fund's update, the row of the   *)
(* contribution or drawdown and the commit are one step. The rows of        *)
(* contributions and drawdowns are kept as their sums, by source.           *)
(***************************************************************************)
EXTENDS Naturals, LargestRemainder

CONSTANTS
    N,            \* number of units
    Levies,
    Terms,        \* total and weights of each levy
    Requests,     \* calls in flight
    Amounts,      \* of deposits, collections and draws
    MaxCash,      \* bound on the deposits
    NoOne

Units == 1..N
All == 0          \* a collection of the whole levy, not of one unit

ASSUME UnitsAssumption == N \in Nat \ {0}
ASSUME TermsAssumption ==
    Terms \in [Levies -> [total : Nat \ {0}, weights : [Units -> Nat]]]
ASSUME WeightsAssumption ==
    \A l \in Levies : SumFunction(Terms[l].weights) \in Nat \ {0}
ASSUME AmountsAssumption == Amounts \subseteq Nat \ {0} /\ MaxCash \in Nat
ASSUME NoOneAssumption == NoOne \notin Requests

VARIABLES
    fund,         \* the ReserveFund row
    cash,         \* contributions that are not levies, and drawdowns
    collected,    \* contributions by levy
    levy,         \* ExtraordinaryLevy.status
    share, paid,  \* LevyShare rows: amountCents, and paidCents as committed
    hold,         \* the increment of a share its transaction has not committed
    req           \* calls, between two awaits

vars == <<fund, cash, collected, levy, share, paid, hold, req>>
books == <<fund, cash, collected, levy, share, paid>>

NoShares == [u \in Units |-> 0]
Free == [by |-> NoOne, take |-> 0]
Idle == [step |-> "idle", op |-> "none", levy |-> NoOne, unit |-> All,
         amount |-> 0, left |-> 0, todo |-> NoShares, at |-> 0, take |-> 0]

Init ==
    /\ fund = [present |-> FALSE, balance |-> 0]
    /\ cash = [deposited |-> 0, drawn |-> 0]
    /\ collected = [l \in Levies |-> 0]
    /\ levy = [l \in Levies |-> "NONE"]
    /\ share = [l \in Levies |-> NoShares]
    /\ paid = [l \in Levies |-> NoShares]
    /\ hold = [l \in Levies |-> [u \in Units |-> Free]]
    /\ req = [q \in Requests |-> Idle]

Goto(q, step) == req' = [req EXCEPT ![q].step = step]

Finish(q) == req' = [req EXCEPT ![q] = Idle]
-----------------------------------------------------------------------------
(***************************************************************************)
(* getOrCreateFund, with which every call on the fund begins. A draw looks  *)
(* at the balance of the row it is given.                                   *)
(***************************************************************************)
Covered(op, cents) == op = "draw" => fund.balance >= cents

Start(q, op, l, u, cents) ==
    /\ req[q] = Idle
    /\ fund.present => Covered(op, cents)
    /\ req' = [req EXCEPT ![q] =
         [Idle EXCEPT !.step = IF fund.present THEN "ready" ELSE "create",
                      !.op = op, !.levy = l, !.unit = u, !.amount = cents]]
    /\ UNCHANGED <<books, hold>>

\* The fund is unique on the building: who comes second finds the first's.
CreateFund(q) ==
    /\ req[q].step = "create"
    /\ fund' = [fund EXCEPT !.present = TRUE]
    /\ IF Covered(req[q].op, req[q].amount) THEN Goto(q, "ready") ELSE Finish(q)
    /\ UNCHANGED <<cash, collected, levy, share, paid, hold>>

Ready(q, op) == req[q].step = "ready" /\ req[q].op = op

\* contribute
DepositCommits(q) ==
    /\ Ready(q, "deposit")
    /\ fund' = [fund EXCEPT !.balance = @ + req[q].amount]
    /\ cash' = [cash EXCEPT !.deposited = @ + req[q].amount]
    /\ Finish(q)
    /\ UNCHANGED <<collected, levy, share, paid, hold>>

\* drawdown: the decrement is conditional on the balance.
DrawCommits(q) ==
    /\ Ready(q, "draw")
    /\ fund.balance >= req[q].amount
    /\ fund' = [fund EXCEPT !.balance = @ - req[q].amount]
    /\ cash' = [cash EXCEPT !.drawn = @ + req[q].amount]
    /\ Finish(q)
    /\ UNCHANGED <<collected, levy, share, paid, hold>>

\* "Insufficient reserve balance": the check of the first read was out of date.
DrawRefused(q) ==
    /\ Ready(q, "draw")
    /\ fund.balance < req[q].amount
    /\ Finish(q)
    /\ UNCHANGED <<books, hold>>
-----------------------------------------------------------------------------
(***************************************************************************)
(* collectLevy                                                              *)
(***************************************************************************)
\* The shares to visit, and what was outstanding of each when it was read.
CollectReads(q) ==
    LET l == req[q].levy IN
    /\ Ready(q, "collect")
    /\ levy[l] = "ISSUED"
    /\ req' = [req EXCEPT ![q] =
         [req[q] EXCEPT !.step = "share", !.left = req[q].amount,
                   !.todo = [u \in Units |->
                               IF req[q].unit \in {All, u}
                               THEN share[l][u] - paid[l][u] ELSE 0]]]
    /\ UNCHANGED <<books, hold>>

\* The levy is not there, a draft, or closed by now.
CollectRefused(q) ==
    /\ Ready(q, "collect")
    /\ levy[req[q].levy] # "ISSUED"
    /\ Finish(q)
    /\ UNCHANGED <<books, hold>>

ToVisit(q) == {u \in Units : req[q].todo[u] > 0}

\* Mutant: the shares are not sorted, and are visited in any order.
NextSharesUnsorted(q) == ToVisit(q)

\* Shares are visited by unit, so that two collectors lock them in one order.
NextShares(q) ==
    {u \in ToVisit(q) : \A v \in ToVisit(q) : u <= v}

Smaller(m, n) == IF m <= n THEN m ELSE n

\* The share's row is locked: the update waits for the other transaction.
Locked(q, u) == hold[req[q].levy][u].by \notin {q, NoOne}

\* The predicate of updateMany, evaluated on the row as committed.
StillFits(q, u, take) ==
    paid[req[q].levy][u] + take <= share[req[q].levy][u]

Take(q, u, take) ==
    /\ hold' = [hold EXCEPT ![req[q].levy][u] = [by |-> q, take |-> take]]
    /\ req' = [req EXCEPT ![q] =
         [req[q] EXCEPT !.step = "share", !.left = req[q].left - take, !.todo[u] = 0,
                   !.at = 0, !.take = 0]]

\* Mutant: the increment has no predicate.
CollectShareBlind(q) ==
    /\ req[q].step = "share" /\ req[q].left > 0
    /\ \E u \in NextShares(q) :
          /\ ~ Locked(q, u)
          /\ Take(q, u, Smaller(req[q].left, req[q].todo[u]))
    /\ UNCHANGED books

\* The first update, by the outstanding amount of the share as it was read.
CollectShare(q) ==
    /\ req[q].step = "share" /\ req[q].left > 0
    /\ \E u \in NextShares(q) :
          LET take == Smaller(req[q].left, req[q].todo[u]) IN
          /\ ~ Locked(q, u)
          /\ IF StillFits(q, u, take)
             THEN Take(q, u, take)
             ELSE /\ req' = [req EXCEPT ![q] =
                       [req[q] EXCEPT !.step = "fresh", !.at = u]]
                  /\ UNCHANGED hold
    /\ UNCHANGED books

\* The row is read again: paid up by now, or retried with what is left of it.
CollectFresh(q) ==
    LET l == req[q].levy
        u == req[q].at
        open == share[l][u] - paid[l][u] IN
    /\ req[q].step = "fresh"
    /\ req' = [req EXCEPT ![q] =
         IF open = 0
         THEN [req[q] EXCEPT !.step = "share", !.todo[u] = 0, !.at = 0]
         ELSE [req[q] EXCEPT !.step = "retry", !.take = Smaller(req[q].left, open)]]
    /\ UNCHANGED <<books, hold>>

CollectRetry(q) ==
    /\ req[q].step = "retry"
    /\ ~ Locked(q, req[q].at)
    /\ StillFits(q, req[q].at, req[q].take)
    /\ Take(q, req[q].at, req[q].take)
    /\ UNCHANGED books

Release(q) ==
    hold' = [l \in Levies |-> [u \in Units |->
                IF hold[l][u].by = q THEN Free ELSE hold[l][u]]]

\* Mutant: what failed keeps its row locks.
RollbackKeepsLocks(q) ==
    /\ Finish(q)
    /\ UNCHANGED <<books, hold>>

Rollback(q) ==
    /\ Finish(q)
    /\ Release(q)
    /\ UNCHANGED books

\* "Levy share changed; retry collection", for the second time.
CollectConflict(q) ==
    /\ req[q].step = "retry"
    /\ ~ Locked(q, req[q].at)
    /\ ~ StillFits(q, req[q].at, req[q].take)
    /\ Rollback(q)

\* Mutant: what exceeds the shares goes to the fund all the same.
CollectCommitsSurplus(q) ==
    /\ req[q].step = "share"
    /\ req[q].left = 0 \/ ToVisit(q) = {}
    /\ paid' = [l \in Levies |-> [u \in Units |->
                  IF hold[l][u].by = q THEN paid[l][u] + hold[l][u].take
                  ELSE paid[l][u]]]
    /\ collected' = [collected EXCEPT ![req[q].levy] = @ + req[q].amount]
    /\ fund' = [fund EXCEPT !.balance = @ + req[q].amount]
    /\ Finish(q) /\ Release(q)
    /\ UNCHANGED <<cash, levy, share>>

\* All of the amount is allocated: the contribution, the fund, the commit.
CollectCommits(q) ==
    /\ req[q].step = "share" /\ req[q].left = 0
    /\ paid' = [l \in Levies |-> [u \in Units |->
                  IF hold[l][u].by = q THEN paid[l][u] + hold[l][u].take
                  ELSE paid[l][u]]]
    /\ collected' = [collected EXCEPT ![req[q].levy] = @ + req[q].amount]
    /\ fund' = [fund EXCEPT !.balance = @ + req[q].amount]
    /\ Finish(q) /\ Release(q)
    /\ UNCHANGED <<cash, levy, share>>

\* "Collection exceeds the outstanding amount".
CollectExceeds(q) ==
    /\ req[q].step = "share" /\ req[q].left > 0 /\ ToVisit(q) = {}
    /\ Rollback(q)

\* The connection is lost, the time limit is over, or the process stops.
Aborts(q) ==
    /\ req[q].step # "idle"
    /\ Rollback(q)
-----------------------------------------------------------------------------
(***************************************************************************)
(* createLevy, issueLevy, closeLevy                                         *)
(***************************************************************************)
CreateLevy(l) ==
    /\ levy[l] = "NONE"
    /\ levy' = [levy EXCEPT ![l] = "DRAFT"]
    /\ share' = [share EXCEPT ![l] = Split(Terms[l].weights, Terms[l].total)]
    /\ UNCHANGED <<fund, cash, collected, paid, hold, req>>

IssueReads(q, l) ==
    /\ req[q] = Idle
    /\ levy[l] = "DRAFT"
    /\ req' = [req EXCEPT ![q] =
         [Idle EXCEPT !.step = "issue", !.op = "issue", !.levy = l]]
    /\ UNCHANGED <<books, hold>>

\* The claim is conditional on DRAFT; a repeated issue is a no-op.
IssueClaims(q) ==
    LET l == req[q].levy IN
    /\ req[q].step = "issue"
    /\ levy' = [levy EXCEPT ![l] = IF @ = "DRAFT" THEN "ISSUED" ELSE @]
    /\ Finish(q)
    /\ UNCHANGED <<fund, cash, collected, share, paid, hold>>

\* The levy and its shares are read in the transaction: nothing outstanding.
CloseReads(q, l) ==
    /\ req[q] = Idle
    /\ levy[l] = "ISSUED"
    /\ \A u \in Units : paid[l][u] >= share[l][u]
    /\ req' = [req EXCEPT ![q] =
         [Idle EXCEPT !.step = "close", !.op = "close", !.levy = l]]
    /\ UNCHANGED <<books, hold>>

CloseClaims(q) ==
    LET l == req[q].levy IN
    /\ req[q].step = "close"
    /\ levy' = [levy EXCEPT ![l] = IF @ = "ISSUED" THEN "CLOSED" ELSE @]
    /\ Finish(q)
    /\ UNCHANGED <<fund, cash, collected, share, paid, hold>>
-----------------------------------------------------------------------------
Next ==
    \/ \E q \in Requests :
          \/ CreateFund(q)
          \/ DepositCommits(q)
          \/ DrawCommits(q) \/ DrawRefused(q)
          \/ CollectReads(q) \/ CollectRefused(q)
          \/ CollectShare(q) \/ CollectFresh(q) \/ CollectRetry(q)
          \/ CollectConflict(q) \/ CollectCommits(q) \/ CollectExceeds(q)
          \/ Aborts(q)
          \/ IssueClaims(q) \/ CloseClaims(q)
          \/ \E l \in Levies : IssueReads(q, l) \/ CloseReads(q, l)
          \/ \E cents \in Amounts :
                \/ /\ cash.deposited + cents <= MaxCash
                   /\ Start(q, "deposit", NoOne, All, cents)
                \/ Start(q, "draw", NoOne, All, cents)
                \/ \E l \in Levies, u \in Units \cup {All} :
                      Start(q, "collect", l, u, cents)
    \/ \E l \in Levies : CreateLevy(l)

Spec == Init /\ [][Next]_vars
-----------------------------------------------------------------------------
(***************************************************************************)
(* Properties                                                               *)
(***************************************************************************)
Steps == {"idle", "create", "ready", "share", "fresh", "retry", "issue", "close"}
Call == [step : Steps, op : {"none", "deposit", "draw", "collect", "issue", "close"},
         levy : Levies \cup {NoOne}, unit : Units \cup {All}, amount : Nat,
         left : Nat, todo : [Units -> Nat], at : 0..N, take : Nat]

\* Rows and calls have the shape the schema and the code give them, and a row
\* lock belongs to the collection of that levy that has passed the share.
TypeOK ==
    /\ fund \in [present : BOOLEAN, balance : Nat]
    /\ cash \in [deposited : Nat, drawn : Nat]
    /\ collected \in [Levies -> Nat]
    /\ levy \in [Levies -> {"NONE", "DRAFT", "ISSUED", "CLOSED"}]
    /\ share \in [Levies -> [Units -> Nat]]
    /\ paid \in [Levies -> [Units -> Nat]]
    /\ hold \in [Levies -> [Units -> [by : Requests \cup {NoOne}, take : Nat]]]
    /\ req \in [Requests -> Call]
    /\ \A l \in Levies, u \in Units : hold[l][u].by \in Requests =>
          /\ req[hold[l][u].by].step \in {"share", "fresh", "retry"}
          /\ req[hold[l][u].by].levy = l
          /\ req[hold[l][u].by].todo[u] = 0

\* "Concurrent collections cannot over-collect a unit or the levy as a whole",
\* not even by increments that are still to commit, and a levy is CLOSED only
\* when nothing of it is outstanding (collectLevy, closeLevy).
NeverOverCollected ==
    \A l \in Levies : \A u \in Units :
        /\ paid[l][u] + hold[l][u].take <= share[l][u]
        /\ levy[l] = "CLOSED" => paid[l][u] = share[l][u]

\* The call q waits for the row of a share that the call r has updated.
WaitsFor(q, r) ==
    \E u \in Units :
        /\ \/ req[q].step = "share" /\ req[q].left > 0 /\ u \in NextShares(q)
           \/ req[q].step = "retry" /\ u = req[q].at
        /\ hold[req[q].levy][u].by = r /\ r # q

\* Collectors never wait for each other in a circle, whatever shares each of
\* them is after (the sort by unit in collectLevy).
NoCircularWait ==
    \A S \in (SUBSET Requests) \ {{}} :
        \E q \in S : \A r \in S : ~ WaitsFor(q, r)

\* The transactions, share by share, implement the abstract fund, in which a
\* collection is one step and what it adds to the fund is what it takes off the
\* shares ("can only increase the fund by the amount successfully allocated"), and
\* in which every change of the balance has its row.
Ledger == INSTANCE LevyLedger WITH balance <- fund.balance
LedgerSpec == Ledger!Spec
=============================================================================

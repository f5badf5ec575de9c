--------------------------- MODULE ReserveProofs ---------------------------
(***************************************************************************)
(* Proofs about Reserve for any number of units, levies and collectors:     *)
(* no unit and no levy is ever over-collected, a closed levy has been       *)
(* collected in full, the row locks of collectors never form a circle, and  *)
(* the transactions implement the abstract fund of LevyLedger.              *)
(***************************************************************************)
EXTENDS Reserve, SumTheorems

Collecting == {"share", "fresh", "retry"}

\* What a call carries across an await, true of the rows it was read from.
CallFacts(c) ==
    /\ c.op = "collect" => c.levy \in Levies
    /\ c.step \in Collecting \cup {"issue"} =>
          c.levy \in Levies /\ levy[c.levy] # "NONE"
    /\ c.step \in {"fresh", "retry"} => c.at \in Units /\ c.todo[c.at] > 0
    /\ c.step = "retry" => c.take <= c.left
    /\ c.step = "close" =>
          /\ c.levy \in Levies
          /\ levy[c.levy] \in {"ISSUED", "CLOSED"}
          /\ \A u \in Units : paid[c.levy][u] = share[c.levy][u]

CallInv == \A q \in Requests : CallFacts(req[q])

\* A row nobody holds has no uncommitted cents, and a levy that is not there
\* has no cents at all.
RowInv ==
    \A l \in Levies : \A u \in Units :
        /\ hold[l][u].by = NoOne => hold[l][u].take = 0
        /\ levy[l] = "NONE" => paid[l][u] = 0 /\ hold[l][u].take = 0

ReserveInv == TypeOK /\ NeverOverCollected /\ CallInv /\ RowInv
-----------------------------------------------------------------------------
LEMMA UnitsFact == N \in Nat /\ N >= 1 /\ Units = 1..N /\ Units \subseteq Nat
  BY UnitsAssumption DEF Units

LEMMA IdleFact == Idle \in Call /\ Idle.step = "idle" /\ Idle.op = "none"
  BY UnitsFact DEF Idle, Call, Steps, All, NoShares

LEMMA InitInv == Init => ReserveInv
<1> SUFFICES ASSUME Init PROVE ReserveInv
  OBVIOUS
<1>1. \A l \in Levies : \A u \in Units :
        paid[l][u] = 0 /\ share[l][u] = 0 /\ hold[l][u] = Free
  BY DEF Init, NoShares
<1>2. \A l \in Levies : levy[l] = "NONE"
  BY DEF Init
<1>3. \A q \in Requests : req[q] = Idle
  BY DEF Init
<1>4. TypeOK
  BY <1>1, <1>3, IdleFact, NoOneAssumption
     DEF Init, TypeOK, NoShares, Free
<1>5. NeverOverCollected /\ RowInv
  BY <1>1, <1>2 DEF NeverOverCollected, RowInv, Free
<1>6. CallInv
  BY <1>3, IdleFact DEF CallInv, CallFacts, Collecting
<1> QED
  BY <1>4, <1>5, <1>6 DEF ReserveInv

LEMMA UnitsFinite == IsFiniteSet(Units)
  BY UnitsFact, FS_Interval

\* The split of a levy owes all of it, and a unit no more than all.
LEMMA SplitOwes ==
    ASSUME NEW l \in Levies
    PROVE  LET owed == Split(Terms[l].weights, Terms[l].total) IN
           /\ owed \in [Units -> 0..Terms[l].total]
           /\ SumFunction(owed) = Terms[l].total
<1> DEFINE w == Terms[l].weights
           total == Terms[l].total
           owed == Split(w, total)
<1>1. w \in [Units -> Nat] /\ total \in Nat /\ SumFunction(w) > 0
  BY TermsAssumption, WeightsAssumption
<1>2. Weighted(w)
  BY <1>1, UnitsFact, UnitsFinite DEF Weighted
<1>3. owed \in [Units -> Nat] /\ SumFunction(owed) = total
  BY <1>1, <1>2, SplitIsExact
<1> HIDE DEF owed
<1>4. \A u \in Units : owed[u] \in Int
  BY <1>3
<1>5. ASSUME NEW u \in Units PROVE owed[u] \in 0..total
  <2>1. SumFunctionOnSet(owed, Units) = total
    BY <1>3 DEF SumFunction
  <2>2. SumFunctionOnSet(owed, Units) = owed[u] + SumFunctionOnSet(owed, Units \ {u})
    BY <1>4, UnitsFinite, SumOf
  <2>3. SumFunctionOnSet(owed, Units \ {u}) \in Nat
    <3>1. IsFiniteSet(Units \ {u}) /\ \A v \in Units \ {u} : owed[v] \in Nat
      BY <1>3, UnitsFinite, FS_Subset
    <3> QED
      BY <3>1, SumNat
  <2>4. owed[u] \in Nat
    BY <1>3
  <2> QED
    BY <1>1, <2>1, <2>2, <2>3, <2>4
<1> QED
  BY <1>3, <1>5 DEF owed

LEMMA SmallerFact ==
    ASSUME NEW m \in Nat, NEW n \in Nat
    PROVE  Smaller(m, n) \in Nat /\ Smaller(m, n) <= m /\ Smaller(m, n) <= n
  BY DEF Smaller

\* A call moves on; the rows of levies and shares are as they were.
LEMMA CallStep ==
    ASSUME ReserveInv, NEW q \in Requests, NEW c \in Call,
           req' = [req EXCEPT ![q] = c], CallFacts(c),
           \A l \in Levies : \A u \in Units : hold[l][u].by = q =>
              c.step \in Collecting /\ c.levy = l /\ c.todo[u] = 0,
           UNCHANGED <<levy, share, paid, hold>>,
           fund' \in [present : BOOLEAN, balance : Nat],
           cash' \in [deposited : Nat, drawn : Nat],
           collected' \in [Levies -> Nat]
    PROVE  ReserveInv'
<1>1. \A r \in Requests : req'[r] = IF r = q THEN c ELSE req[r]
  BY DEF ReserveInv, TypeOK
<1>2. req' \in [Requests -> Call]
  BY DEF ReserveInv, TypeOK
<1>3. \A l \in Levies, u \in Units : hold'[l][u].by \in Requests =>
         /\ req'[hold'[l][u].by].step \in {"share", "fresh", "retry"}
         /\ req'[hold'[l][u].by].levy = l
         /\ req'[hold'[l][u].by].todo[u] = 0
  BY <1>1 DEF ReserveInv, TypeOK, Collecting
<1>4. TypeOK'
  BY <1>2, <1>3 DEF ReserveInv, TypeOK
<1>5. NeverOverCollected' /\ RowInv'
  BY DEF ReserveInv, NeverOverCollected, RowInv
<1>6. CallInv'
  BY <1>1 DEF ReserveInv, CallInv, CallFacts
<1> QED
  BY <1>4, <1>5, <1>6 DEF ReserveInv

\* A call outside a collection holds no row.
LEMMA HoldsNothing ==
    ASSUME ReserveInv, NEW q \in Requests, req[q].step \notin Collecting,
           NEW l \in Levies, NEW u \in Units
    PROVE  hold[l][u].by # q
  BY DEF ReserveInv, TypeOK, Collecting

\* A call that ends outside a collection.
LEMMA FinishStep ==
    ASSUME ReserveInv, NEW q \in Requests, req[q].step \notin Collecting,
           Finish(q), UNCHANGED <<levy, share, paid, hold>>,
           fund' \in [present : BOOLEAN, balance : Nat],
           cash' \in [deposited : Nat, drawn : Nat],
           collected' \in [Levies -> Nat]
    PROVE  ReserveInv'
<1>1. CallFacts(Idle)
  BY IdleFact DEF CallFacts, Collecting
<1>2. req' = [req EXCEPT ![q] = Idle]
  BY DEF Finish
<1>3. \A l \in Levies : \A u \in Units : hold[l][u].by # q
  BY HoldsNothing
<1> QED
  BY <1>1, <1>2, <1>3, IdleFact, CallStep
-----------------------------------------------------------------------------
\* A step that leaves the books alone leaves them well typed.
LEMMA BooksFact ==
    ASSUME ReserveInv, UNCHANGED books
    PROVE  /\ UNCHANGED <<levy, share, paid>>
           /\ fund' \in [present : BOOLEAN, balance : Nat]
           /\ cash' \in [deposited : Nat, drawn : Nat]
           /\ collected' \in [Levies -> Nat]
  BY DEF books, ReserveInv, TypeOK

LEMMA StartInv ==
    ASSUME ReserveInv, NEW q \in Requests,
           NEW op \in {"deposit", "draw", "collect"},
           NEW l \in Levies \cup {NoOne}, op = "collect" => l \in Levies,
           NEW u \in Units \cup {All}, NEW cents \in Nat,
           Start(q, op, l, u, cents)
    PROVE  ReserveInv'
<1> DEFINE c == [Idle EXCEPT !.step = IF fund.present THEN "ready" ELSE "create",
                             !.op = op, !.levy = l, !.unit = u, !.amount = cents]
<1>1. /\ c \in Call /\ c.step \in {"ready", "create"}
      /\ c.op = op /\ c.levy = l
  <2>1. (IF fund.present THEN "ready" ELSE "create") \in {"ready", "create"}
    OBVIOUS
  <2> QED
    BY <2>1, IdleFact DEF Call, Steps
<1>2. CallFacts(c)
  BY <1>1 DEF CallFacts, Collecting
<1>3. req[q].step = "idle"
  BY IdleFact DEF Start
<1>4. \A m \in Levies : \A v \in Units : hold[m][v].by # q
  BY <1>3, HoldsNothing DEF Collecting
<1>5. req' = [req EXCEPT ![q] = c] /\ UNCHANGED <<books, hold>>
  BY DEF Start
<1> HIDE DEF c
<1> QED
  BY <1>1, <1>2, <1>4, <1>5, BooksFact, CallStep

LEMMA CreateFundInv ==
    ASSUME ReserveInv, NEW q \in Requests, CreateFund(q)
    PROVE  ReserveInv'
<1> DEFINE c == [req[q] EXCEPT !.step = "ready"]
<1>1. req[q].step \notin Collecting
  BY DEF CreateFund, Collecting
<1>2. /\ UNCHANGED <<levy, share, paid, hold, cash, collected>>
      /\ fund' \in [present : BOOLEAN, balance : Nat]
  BY DEF CreateFund, ReserveInv, TypeOK
<1>3. cash' \in [deposited : Nat, drawn : Nat] /\ collected' \in [Levies -> Nat]
  BY <1>2 DEF ReserveInv, TypeOK
<1>4. CASE Finish(q)
  BY <1>1, <1>2, <1>3, <1>4, FinishStep
<1>5. CASE Goto(q, "ready")
  <2>1. req[q] \in Call
    BY DEF ReserveInv, TypeOK
  <2>2. c \in Call
    BY <2>1 DEF Call, Steps
  <2>3. req' = [req EXCEPT ![q] = c]
    BY <1>5 DEF Goto
  <2>4. c.step = "ready" /\ c.op = req[q].op /\ c.levy = req[q].levy
    BY DEF ReserveInv, TypeOK, Call
  <2>5. CallFacts(c)
    BY <2>4 DEF ReserveInv, CallInv, CallFacts, Collecting
  <2>6. \A m \in Levies : \A v \in Units : hold[m][v].by # q
    BY <1>1, HoldsNothing
  <2> HIDE DEF c
  <2> QED
    BY <1>2, <1>3, <2>2, <2>3, <2>5, <2>6, CallStep
<1> QED
  BY <1>4, <1>5 DEF CreateFund

LEMMA MoneyInv ==
    ASSUME ReserveInv, NEW q \in Requests,
           \/ DepositCommits(q) \/ DrawCommits(q) \/ DrawRefused(q)
           \/ CollectRefused(q)
    PROVE  ReserveInv'
<1>1. req[q].step = "ready" /\ Finish(q) /\ req[q].amount \in Nat
  BY DEF DepositCommits, DrawCommits, DrawRefused, CollectRefused, Ready,
         ReserveInv, TypeOK, Call
<1>2. req[q].step \notin Collecting
  BY <1>1 DEF Collecting
<1>3. UNCHANGED <<levy, share, paid, hold, collected>>
  BY DEF DepositCommits, DrawCommits, DrawRefused, CollectRefused, books
<1>4. /\ fund' \in [present : BOOLEAN, balance : Nat]
      /\ cash' \in [deposited : Nat, drawn : Nat]
  BY <1>1 DEF DepositCommits, DrawCommits, DrawRefused, CollectRefused, books,
              ReserveInv, TypeOK
<1>5. collected' \in [Levies -> Nat]
  BY <1>3 DEF ReserveInv, TypeOK
<1> QED
  BY <1>1, <1>2, <1>3, <1>4, <1>5, FinishStep
-----------------------------------------------------------------------------
\* The shares are read: none of them is over-collected, so what is outstanding
\* of each is a natural number.
LEMMA CollectReadsInv ==
    ASSUME ReserveInv, NEW q \in Requests, CollectReads(q)
    PROVE  ReserveInv'
<1> DEFINE l == req[q].levy
           c == [req[q] EXCEPT !.step = "share", !.left = req[q].amount,
                   !.todo = [u \in Units |->
                               IF req[q].unit \in {All, u}
                               THEN share[l][u] - paid[l][u] ELSE 0]]
<1>1. req[q] \in Call /\ l \in Levies /\ levy[l] = "ISSUED"
  BY DEF CollectReads, Ready, ReserveInv, TypeOK, CallInv, CallFacts
<1>2. \A u \in Units : share[l][u] - paid[l][u] \in Nat
  BY <1>1 DEF ReserveInv, NeverOverCollected, TypeOK
<1>3. c \in Call /\ c.step = "share" /\ c.levy = l
  BY <1>1, <1>2 DEF Call, Steps
<1>4. CallFacts(c)
  BY <1>1, <1>3 DEF CallFacts, Collecting
<1>5. req' = [req EXCEPT ![q] = c] /\ UNCHANGED <<books, hold>>
  BY DEF CollectReads
<1>6. req[q].step \notin Collecting
  BY DEF CollectReads, Ready, Collecting
<1>7. \A m \in Levies : \A v \in Units : hold[m][v].by # q
  BY <1>6, HoldsNothing
<1> HIDE DEF c
<1> QED
  BY <1>3, <1>4, <1>5, <1>7, BooksFact, CallStep

\* A collection moves on within its levy and takes up no share it has passed.
LEMMA CollectMoves ==
    ASSUME ReserveInv, NEW q \in Requests, NEW c \in Call,
           req[q].step \in Collecting, c.step \in Collecting,
           c.levy = req[q].levy, CallFacts(c),
           \A u \in Units : req[q].todo[u] = 0 => c.todo[u] = 0,
           req' = [req EXCEPT ![q] = c], UNCHANGED <<books, hold>>
    PROVE  ReserveInv'
<1>1. \A m \in Levies : \A v \in Units : hold[m][v].by = q =>
         c.step \in Collecting /\ c.levy = m /\ c.todo[v] = 0
  <2> SUFFICES ASSUME NEW m \in Levies, NEW v \in Units, hold[m][v].by = q
               PROVE  c.levy = m /\ c.todo[v] = 0
    OBVIOUS
  <2>1. req[q].levy = m /\ req[q].todo[v] = 0
    BY DEF ReserveInv, TypeOK
  <2> QED
    BY <2>1
<1> QED
  BY <1>1, BooksFact, CallStep

\* The update of a share that is free and still has room for it.
LEMMA TakeInv ==
    ASSUME ReserveInv, NEW q \in Requests, NEW u \in Units, NEW take \in Nat,
           req[q].step \in Collecting, req[q].todo[u] > 0,
           take <= req[q].left, ~ Locked(q, u), StillFits(q, u, take),
           Take(q, u, take), UNCHANGED books
    PROVE  ReserveInv'
<1> DEFINE l == req[q].levy
           c == [req[q] EXCEPT !.step = "share", !.left = req[q].left - take,
                               !.todo[u] = 0, !.at = 0, !.take = 0]
<1>1. req[q] \in Call /\ l \in Levies /\ levy[l] # "NONE"
  BY DEF ReserveInv, TypeOK, CallInv, CallFacts
<1>2. hold[l][u].by = NoOne
  <2>1. hold[l][u].by \in {q, NoOne}
    BY DEF Locked
  <2>2. hold[l][u].by # q
    BY <1>1 DEF ReserveInv, TypeOK
  <2> QED
    BY <2>1, <2>2
<1>3. /\ c \in Call /\ c.step = "share" /\ c.levy = l
      /\ c.todo = [req[q].todo EXCEPT ![u] = 0] /\ c.op = req[q].op
  <2>1. req[q].left - take \in Nat
    BY <1>1 DEF Call
  <2>2. [req[q].todo EXCEPT ![u] = 0] \in [Units -> Nat]
    BY <1>1 DEF Call
  <2>3. 0 \in 0..N
    BY UnitsFact
  <2> QED
    BY <1>1, <2>1, <2>2, <2>3 DEF Call, Steps
<1>4. \A r \in Requests : req'[r] = IF r = q THEN c ELSE req[r]
  BY <1>1 DEF Take, ReserveInv, TypeOK
<1>5. req' = [req EXCEPT ![q] = c]
  BY DEF Take
<1>6. \A m \in Levies : \A v \in Units :
         hold'[m][v] = IF m = l /\ v = u THEN [by |-> q, take |-> take]
                       ELSE hold[m][v]
  BY <1>1 DEF Take, ReserveInv, TypeOK
<1>7. hold' \in [Levies -> [Units -> [by : Requests \cup {NoOne}, take : Nat]]]
  BY <1>1 DEF Take, ReserveInv, TypeOK
<1> HIDE DEF c
<1>8. ASSUME NEW m \in Levies, NEW v \in Units, hold'[m][v].by \in Requests
      PROVE  /\ req'[hold'[m][v].by].step \in {"share", "fresh", "retry"}
             /\ req'[hold'[m][v].by].levy = m
             /\ req'[hold'[m][v].by].todo[v] = 0
  <2>1. CASE m = l /\ v = u
    <3>1. hold'[m][v].by = q
      BY <1>6, <2>1
    <3>2. c.todo[v] = 0
      BY <1>1, <1>3, <2>1 DEF Call
    <3> QED
      BY <1>3, <1>4, <2>1, <3>1, <3>2
  <2>2. CASE ~ (m = l /\ v = u)
    <3>1. hold'[m][v] = hold[m][v]
      BY <1>6, <2>2
    <3>2. CASE hold[m][v].by = q
      <4>1. m = l /\ req[q].todo[v] = 0
        BY <3>2 DEF ReserveInv, TypeOK
      <4>2. c.todo[v] = 0
        BY <1>1, <1>3, <4>1 DEF Call
      <4> QED
        BY <1>3, <1>4, <3>1, <3>2, <4>1, <4>2
    <3>3. CASE hold[m][v].by # q
      BY <1>4, <1>8, <3>1, <3>3 DEF ReserveInv, TypeOK
    <3> QED
      BY <3>2, <3>3
  <2> QED
    BY <2>1, <2>2
<1>9. TypeOK'
  <2>1. req' \in [Requests -> Call]
    BY <1>3, <1>5 DEF ReserveInv, TypeOK
  <2> QED
    BY <1>7, <1>8, <2>1 DEF books, ReserveInv, TypeOK
<1>10. NeverOverCollected' /\ RowInv'
  <2>1. ASSUME NEW m \in Levies, NEW v \in Units
        PROVE  /\ paid[m][v] + hold'[m][v].take <= share[m][v]
               /\ hold'[m][v].by = NoOne => hold'[m][v].take = 0
               /\ levy[m] = "NONE" => paid[m][v] = 0 /\ hold'[m][v].take = 0
    <3>1. CASE m = l /\ v = u
      BY <1>1, <1>6, <3>1, NoOneAssumption DEF StillFits
    <3>2. CASE ~ (m = l /\ v = u)
      BY <1>6, <3>2 DEF ReserveInv, NeverOverCollected, RowInv
    <3> QED
      BY <3>1, <3>2
  <2> QED
    BY <2>1 DEF books, ReserveInv, NeverOverCollected, RowInv
<1>11. CallInv'
  <2>1. CallFacts(c)
    BY <1>1, <1>3 DEF CallFacts, Collecting
  <2> QED
    BY <1>4, <2>1 DEF books, ReserveInv, CallInv, CallFacts
<1> QED
  BY <1>9, <1>10, <1>11 DEF ReserveInv
-----------------------------------------------------------------------------
\* The steps from one share to the next.
LEMMA CollectShareInv ==
    ASSUME ReserveInv, NEW q \in Requests, CollectShare(q)
    PROVE  ReserveInv'
<1>1. req[q].step = "share" /\ req[q].left > 0 /\ UNCHANGED books
  BY DEF CollectShare
<1>2. req[q] \in Call /\ req[q].levy \in Levies /\ levy[req[q].levy] # "NONE"
  BY <1>1 DEF ReserveInv, TypeOK, CallInv, CallFacts, Collecting
<1>3. PICK u \in NextShares(q) :
        LET take == Smaller(req[q].left, req[q].todo[u]) IN
        /\ ~ Locked(q, u)
        /\ IF StillFits(q, u, take)
           THEN Take(q, u, take)
           ELSE /\ req' = [req EXCEPT ![q] =
                     [req[q] EXCEPT !.step = "fresh", !.at = u]]
                /\ UNCHANGED hold
  BY DEF CollectShare
<1> DEFINE take == Smaller(req[q].left, req[q].todo[u])
           c == [req[q] EXCEPT !.step = "fresh", !.at = u]
<1>4. u \in Units /\ req[q].todo[u] > 0
  BY DEF NextShares, ToVisit
<1>5. take \in Nat /\ take <= req[q].left
  BY <1>2, <1>4, SmallerFact DEF Call
<1>6. req[q].step \in Collecting
  BY <1>1 DEF Collecting
<1>7. CASE StillFits(q, u, take)
  <2>1. ~ Locked(q, u) /\ Take(q, u, take)
    BY <1>3, <1>7
  <2> HIDE DEF take
  <2> QED
    BY <1>1, <1>4, <1>5, <1>6, <1>7, <2>1, TakeInv
<1>8. CASE ~ StillFits(q, u, take)
  <2>1. req' = [req EXCEPT ![q] = c] /\ UNCHANGED <<books, hold>>
    BY <1>1, <1>3, <1>8
  <2>2. /\ c \in Call /\ c.step = "fresh" /\ c.levy = req[q].levy
        /\ c.at = u /\ c.todo = req[q].todo /\ c.op = req[q].op
    <3>1. u \in 0..N
      BY <1>4, UnitsFact
    <3> QED
      BY <1>2, <3>1 DEF Call, Steps
  <2>3. CallFacts(c)
    BY <1>2, <1>4, <2>2 DEF CallFacts, Collecting
  <2>4. c.step \in Collecting /\ \A v \in Units : req[q].todo[v] = 0 => c.todo[v] = 0
    BY <2>2 DEF Collecting
  <2> HIDE DEF c
  <2> QED
    BY <1>6, <2>1, <2>2, <2>3, <2>4, CollectMoves
<1> QED
  BY <1>7, <1>8

LEMMA CollectFreshInv ==
    ASSUME ReserveInv, NEW q \in Requests, CollectFresh(q)
    PROVE  ReserveInv'
<1> DEFINE l == req[q].levy
           u == req[q].at
           open == share[l][u] - paid[l][u]
           c == [req[q] EXCEPT !.step = "share", !.todo[u] = 0, !.at = 0]
           d == [req[q] EXCEPT !.step = "retry",
                               !.take = Smaller(req[q].left, open)]
<1>1. /\ req[q].step = "fresh" /\ UNCHANGED <<books, hold>>
      /\ req' = [req EXCEPT ![q] = IF open = 0 THEN c ELSE d]
  BY DEF CollectFresh
<1>2. /\ req[q] \in Call /\ l \in Levies /\ levy[l] # "NONE"
      /\ u \in Units /\ req[q].todo[u] > 0
  BY <1>1 DEF ReserveInv, TypeOK, CallInv, CallFacts, Collecting
<1>3. req[q].step \in Collecting
  BY <1>1 DEF Collecting
<1>4. CASE open = 0
  <2>1. /\ c \in Call /\ c.step = "share" /\ c.levy = l /\ c.op = req[q].op
        /\ c.todo = [req[q].todo EXCEPT ![u] = 0]
    <3>1. [req[q].todo EXCEPT ![u] = 0] \in [Units -> Nat] /\ 0 \in 0..N
      BY <1>2, UnitsFact DEF Call
    <3> QED
      BY <1>2, <3>1 DEF Call, Steps
  <2>2. CallFacts(c)
    BY <1>2, <2>1 DEF CallFacts, Collecting
  <2>3. c.step \in Collecting /\ \A v \in Units : req[q].todo[v] = 0 => c.todo[v] = 0
    BY <1>2, <2>1 DEF Collecting, Call
  <2>4. req' = [req EXCEPT ![q] = c]
    BY <1>1, <1>4
  <2> HIDE DEF c
  <2> QED
    BY <1>1, <1>3, <2>1, <2>2, <2>3, <2>4, CollectMoves
<1>5. CASE open # 0
  <2>1. open \in Nat /\ req[q].left \in Nat
    BY <1>2 DEF ReserveInv, NeverOverCollected, TypeOK, Call
  <2>2. Smaller(req[q].left, open) \in Nat /\ Smaller(req[q].left, open) <= req[q].left
    BY <2>1, SmallerFact
  <2>3. /\ d \in Call /\ d.step = "retry" /\ d.levy = l /\ d.op = req[q].op
        /\ d.todo = req[q].todo /\ d.at = u /\ d.left = req[q].left
        /\ d.take = Smaller(req[q].left, open)
    BY <1>2, <2>2 DEF Call, Steps
  <2>4. CallFacts(d)
    BY <1>2, <2>2, <2>3 DEF CallFacts, Collecting
  <2>5. d.step \in Collecting /\ \A v \in Units : req[q].todo[v] = 0 => d.todo[v] = 0
    BY <2>3 DEF Collecting
  <2>6. req' = [req EXCEPT ![q] = d]
    BY <1>1, <1>5
  <2> HIDE DEF d
  <2> QED
    BY <1>1, <1>3, <2>3, <2>4, <2>5, <2>6, CollectMoves
<1> QED
  BY <1>4, <1>5

LEMMA CollectRetryInv ==
    ASSUME ReserveInv, NEW q \in Requests, CollectRetry(q)
    PROVE  ReserveInv'
<1>1. req[q].step = "retry" /\ UNCHANGED books
  BY DEF CollectRetry
<1>2. /\ req[q].at \in Units /\ req[q].todo[req[q].at] > 0
      /\ req[q].take \in Nat /\ req[q].take <= req[q].left
      /\ req[q].step \in Collecting
  BY <1>1 DEF ReserveInv, TypeOK, Call, CallInv, CallFacts, Collecting
<1>3. /\ ~ Locked(q, req[q].at) /\ StillFits(q, req[q].at, req[q].take)
      /\ Take(q, req[q].at, req[q].take)
  BY DEF CollectRetry
<1> QED
  BY <1>1, <1>2, <1>3, TakeInv

\* A collection ends and gives back its rows, with what it took added to the
\* shares or not.
LEMMA ReleaseInv ==
    ASSUME ReserveInv, NEW q \in Requests, Finish(q), Release(q),
           UNCHANGED <<levy, share>>,
           fund' \in [present : BOOLEAN, balance : Nat],
           cash' \in [deposited : Nat, drawn : Nat],
           collected' \in [Levies -> Nat],
           \/ paid' = paid
           \/ paid' = [l \in Levies |-> [u \in Units |->
                         IF hold[l][u].by = q THEN paid[l][u] + hold[l][u].take
                         ELSE paid[l][u]]]
    PROVE  ReserveInv'
<1>1. \A l \in Levies : \A u \in Units :
        hold'[l][u] = IF hold[l][u].by = q THEN Free ELSE hold[l][u]
  BY DEF Release
<1>2. ASSUME NEW l \in Levies, NEW u \in Units
      PROVE  /\ paid[l][u] \in Nat /\ hold[l][u].take \in Nat /\ share[l][u] \in Nat
             /\ paid[l][u] + hold[l][u].take <= share[l][u]
             /\ levy[l] = "CLOSED" => paid[l][u] = share[l][u]
             /\ levy[l] = "NONE" => paid[l][u] = 0 /\ hold[l][u].take = 0
             /\ hold[l][u].by = NoOne => hold[l][u].take = 0
  BY DEF ReserveInv, TypeOK, NeverOverCollected, RowInv
<1>3. ASSUME NEW l \in Levies, NEW u \in Units
      PROVE  /\ paid'[l][u] \in Nat
             /\ paid[l][u] = share[l][u] => paid'[l][u] = paid[l][u]
             /\ paid'[l][u] + hold'[l][u].take <= share[l][u]
             /\ levy[l] = "NONE" => paid'[l][u] = 0 /\ hold'[l][u].take = 0
             /\ hold'[l][u].by = NoOne => hold'[l][u].take = 0
  BY <1>1, <1>2 DEF Free
<1>4. paid' \in [Levies -> [Units -> Nat]]
  BY <1>3 DEF ReserveInv, TypeOK
<1>5. hold' \in [Levies -> [Units -> [by : Requests \cup {NoOne}, take : Nat]]]
  BY DEF Release, Free, ReserveInv, TypeOK
<1>6. \A r \in Requests : req'[r] = IF r = q THEN Idle ELSE req[r]
  BY DEF Finish, ReserveInv, TypeOK
<1>7. req' \in [Requests -> Call]
  BY IdleFact DEF Finish, ReserveInv, TypeOK
<1>8. ASSUME NEW l \in Levies, NEW u \in Units, hold'[l][u].by \in Requests
      PROVE  /\ req'[hold'[l][u].by].step \in {"share", "fresh", "retry"}
             /\ req'[hold'[l][u].by].levy = l
             /\ req'[hold'[l][u].by].todo[u] = 0
  <2>1. hold[l][u].by # q /\ hold'[l][u] = hold[l][u]
    BY <1>1, <1>8, NoOneAssumption DEF Free
  <2> QED
    BY <1>6, <1>8, <2>1 DEF ReserveInv, TypeOK
<1>9. TypeOK'
  BY <1>4, <1>5, <1>7, <1>8 DEF ReserveInv, TypeOK
<1>10. NeverOverCollected' /\ RowInv'
  BY <1>2, <1>3 DEF NeverOverCollected, RowInv
<1>11. CallInv'
  <2>1. ASSUME NEW r \in Requests PROVE CallFacts(req[r])'
    <3>1. CASE r = q
      BY <1>6, <3>1, IdleFact DEF CallFacts, Collecting
    <3>2. CASE r # q
      <4>1. req'[r] = req[r] /\ CallFacts(req[r])
        BY <1>6, <3>2 DEF ReserveInv, CallInv
      <4> QED
        BY <1>3, <4>1 DEF CallFacts
    <3> QED
      BY <3>1, <3>2
  <2> QED
    BY <2>1 DEF CallInv
<1> QED
  BY <1>9, <1>10, <1>11 DEF ReserveInv

LEMMA RollbackInv ==
    ASSUME ReserveInv, NEW q \in Requests, Rollback(q)
    PROVE  ReserveInv'
<1>1. Finish(q) /\ Release(q) /\ UNCHANGED books
  BY DEF Rollback
<1>2. paid' = paid
  BY <1>1 DEF books
<1> QED
  BY <1>1, <1>2, BooksFact, ReleaseInv

LEMMA CollectCommitsInv ==
    ASSUME ReserveInv, NEW q \in Requests, CollectCommits(q)
    PROVE  ReserveInv'
<1>1. req[q].amount \in Nat /\ req[q].levy \in Levies
  BY DEF CollectCommits, ReserveInv, TypeOK, Call, CallInv, CallFacts, Collecting
<1>2. /\ fund' \in [present : BOOLEAN, balance : Nat]
      /\ cash' \in [deposited : Nat, drawn : Nat]
      /\ collected' \in [Levies -> Nat]
  <2>1. /\ fund' = [fund EXCEPT !.balance = @ + req[q].amount]
        /\ collected' = [collected EXCEPT ![req[q].levy] = @ + req[q].amount]
        /\ cash' = cash
    BY DEF CollectCommits
  <2>2. /\ fund \in [present : BOOLEAN, balance : Nat]
        /\ cash \in [deposited : Nat, drawn : Nat]
        /\ collected \in [Levies -> Nat]
    BY DEF ReserveInv, TypeOK
  <2> QED
    BY <1>1, <2>1, <2>2
<1> QED
  BY <1>2, ReleaseInv DEF CollectCommits
-----------------------------------------------------------------------------
\* The life of a levy.
LEMMA CreateLevyInv ==
    ASSUME ReserveInv, NEW l \in Levies, CreateLevy(l)
    PROVE  ReserveInv'
<1>1. /\ levy[l] = "NONE" /\ levy' = [levy EXCEPT ![l] = "DRAFT"]
      /\ UNCHANGED <<fund, cash, collected, paid, hold, req>>
      /\ share' = [share EXCEPT ![l] = Split(Terms[l].weights, Terms[l].total)]
  BY DEF CreateLevy
<1>2. TypeOK'
  <2>1. Split(Terms[l].weights, Terms[l].total) \in [Units -> Nat]
    BY SplitOwes, TermsAssumption
  <2> QED
    BY <1>1, <2>1 DEF ReserveInv, TypeOK
<1>3. ASSUME NEW m \in Levies
      PROVE  /\ levy'[m] = IF m = l THEN "DRAFT" ELSE levy[m]
             /\ m # l => share'[m] = share[m]
  BY <1>1 DEF ReserveInv, TypeOK
<1>4. \A u \in Units : /\ paid[l][u] = 0 /\ hold[l][u].take = 0
                       /\ share'[l][u] \in Nat
  BY <1>1, <1>2 DEF ReserveInv, RowInv, TypeOK
<1>5. NeverOverCollected'
  <2>1. ASSUME NEW m \in Levies, NEW u \in Units
        PROVE  /\ paid[m][u] + hold[m][u].take <= share'[m][u]
               /\ levy'[m] = "CLOSED" => paid[m][u] = share'[m][u]
    <3>1. CASE m = l
      BY <1>3, <1>4, <3>1
    <3>2. CASE m # l
      BY <1>3, <3>2 DEF ReserveInv, NeverOverCollected
    <3> QED
      BY <3>1, <3>2
  <2> QED
    BY <1>1, <2>1 DEF NeverOverCollected
<1>6. RowInv'
  BY <1>1, <1>3 DEF ReserveInv, RowInv
<1>7. CallInv'
  <2>1. ASSUME NEW r \in Requests PROVE CallFacts(req[r])'
    <3>1. CallFacts(req[r])
      BY DEF ReserveInv, CallInv
    <3> QED
      BY <1>1, <1>3, <3>1 DEF CallFacts
  <2> QED
    BY <2>1 DEF CallInv
<1> QED
  BY <1>2, <1>5, <1>6, <1>7 DEF ReserveInv

LEMMA LevyReadsInv ==
    ASSUME ReserveInv, NEW q \in Requests, NEW l \in Levies,
           IssueReads(q, l) \/ CloseReads(q, l)
    PROVE  ReserveInv'
<1>1. req[q].step \notin Collecting
  BY IdleFact DEF IssueReads, CloseReads, Collecting
<1>2. \A m \in Levies : \A v \in Units : hold[m][v].by # q
  BY <1>1, HoldsNothing
<1>3. UNCHANGED <<books, hold>>
  BY DEF IssueReads, CloseReads
<1>4. ASSUME NEW step \in {"issue", "close"},
             levy[l] # "NONE",
             step = "close" => /\ levy[l] = "ISSUED"
                               /\ \A u \in Units : paid[l][u] = share[l][u],
             req' = [req EXCEPT ![q] =
                       [Idle EXCEPT !.step = step, !.op = step, !.levy = l]]
      PROVE  ReserveInv'
  <2> DEFINE c == [Idle EXCEPT !.step = step, !.op = step, !.levy = l]
  <2>1. c \in Call /\ c.step = step /\ c.op = step /\ c.levy = l
    BY IdleFact DEF Call, Steps
  <2>2. CallFacts(c)
    BY <1>4, <2>1 DEF CallFacts, Collecting
  <2>3. req' = [req EXCEPT ![q] = c]
    BY <1>4
  <2> HIDE DEF c
  <2> QED
    BY <1>2, <1>3, <2>1, <2>2, <2>3, BooksFact, CallStep
<1>5. CASE IssueReads(q, l)
  BY <1>4, <1>5 DEF IssueReads
<1>6. CASE CloseReads(q, l)
  <2>1. \A u \in Units : paid[l][u] = share[l][u]
    <3>1. ASSUME NEW u \in Units PROVE paid[l][u] = share[l][u]
      <4>1. paid[l][u] >= share[l][u]
        BY <1>6 DEF CloseReads
      <4>2. /\ paid[l][u] \in Nat /\ share[l][u] \in Nat
            /\ hold[l][u].take \in Nat
            /\ paid[l][u] + hold[l][u].take <= share[l][u]
        BY DEF ReserveInv, NeverOverCollected, TypeOK
      <4> QED
        BY <4>1, <4>2
    <3> QED
      BY <3>1
  <2> QED
    BY <1>4, <1>6, <2>1 DEF CloseReads
<1> QED
  BY <1>5, <1>6

\* The claims of issueLevy and closeLevy. A close finds the shares as it read
\* them, for what is paid up stays so.
LEMMA LevyClaimsInv ==
    ASSUME ReserveInv, NEW q \in Requests, IssueClaims(q) \/ CloseClaims(q)
    PROVE  ReserveInv'
<1> DEFINE l == req[q].levy
<1>1. /\ l \in Levies /\ req[q].step \in {"issue", "close"} /\ Finish(q)
      /\ UNCHANGED <<fund, cash, collected, share, paid, hold>>
  BY DEF IssueClaims, CloseClaims, ReserveInv, CallInv, CallFacts, Collecting
<1>2. /\ levy' \in [Levies -> {"NONE", "DRAFT", "ISSUED", "CLOSED"}]
      /\ \A m \in Levies : m # l => levy'[m] = levy[m]
      /\ levy[l] = "NONE" <=> levy'[l] = "NONE"
      /\ levy[l] \in {"ISSUED", "CLOSED"} => levy'[l] \in {"ISSUED", "CLOSED"}
      /\ levy'[l] = "CLOSED" =>
            levy[l] = "CLOSED" \/ \A u \in Units : paid[l][u] = share[l][u]
  <2>1. CASE IssueClaims(q)
    BY <1>1, <2>1 DEF IssueClaims, ReserveInv, TypeOK
  <2>2. CASE CloseClaims(q)
    BY <1>1, <2>2 DEF CloseClaims, ReserveInv, TypeOK, CallInv, CallFacts
  <2> QED
    BY <2>1, <2>2
<1> HIDE DEF l
<1>3. \A r \in Requests : req'[r] = IF r = q THEN Idle ELSE req[r]
  BY <1>1 DEF Finish, ReserveInv, TypeOK
<1>4. req' \in [Requests -> Call]
  BY <1>1, IdleFact DEF Finish, ReserveInv, TypeOK
<1>5. req[q].step \notin Collecting
  BY <1>1 DEF Collecting
<1>6. \A m \in Levies : \A u \in Units : hold[m][u].by # q
  BY <1>5, HoldsNothing
<1>7. TypeOK'
  BY <1>1, <1>2, <1>3, <1>4, <1>6 DEF ReserveInv, TypeOK
<1>8. NeverOverCollected' /\ RowInv'
  BY <1>1, <1>2 DEF ReserveInv, NeverOverCollected, RowInv
<1>9. CallInv'
  <2>1. ASSUME NEW r \in Requests PROVE CallFacts(req[r])'
    <3>1. CASE r = q
      BY <1>3, <3>1, IdleFact DEF CallFacts, Collecting
    <3>2. CASE r # q
      <4>1. req'[r] = req[r] /\ CallFacts(req[r])
        BY <1>3, <3>2 DEF ReserveInv, CallInv
      <4> QED
        BY <1>1, <1>2, <4>1 DEF CallFacts
    <3> QED
      BY <3>1, <3>2
  <2> QED
    BY <2>1 DEF CallInv
<1> QED
  BY <1>7, <1>8, <1>9 DEF ReserveInv
-----------------------------------------------------------------------------
LEMMA NextInv == ReserveInv /\ [Next]_vars => ReserveInv'
<1> SUFFICES ASSUME ReserveInv, [Next]_vars PROVE ReserveInv'
  OBVIOUS
<1>1. CASE UNCHANGED vars
  BY <1>1 DEF vars, ReserveInv, TypeOK, NeverOverCollected, CallInv, CallFacts, RowInv
<1>2. ASSUME NEW q \in Requests,
             \/ CreateFund(q)
             \/ DepositCommits(q) \/ DrawCommits(q) \/ DrawRefused(q)
             \/ CollectReads(q) \/ CollectRefused(q)
             \/ CollectShare(q) \/ CollectFresh(q) \/ CollectRetry(q)
             \/ CollectConflict(q) \/ CollectCommits(q) \/ CollectExceeds(q)
             \/ Aborts(q)
             \/ IssueClaims(q) \/ CloseClaims(q)
      PROVE  ReserveInv'
  <2>1. CASE CollectConflict(q) \/ CollectExceeds(q) \/ Aborts(q)
    BY <2>1, RollbackInv DEF CollectConflict, CollectExceeds, Aborts
  <2> QED
    BY <1>2, <2>1, CreateFundInv, MoneyInv, CollectReadsInv, CollectShareInv,
       CollectFreshInv, CollectRetryInv, CollectCommitsInv, LevyClaimsInv
<1>3. ASSUME NEW q \in Requests, NEW l \in Levies,
             IssueReads(q, l) \/ CloseReads(q, l)
      PROVE  ReserveInv'
  BY <1>3, LevyReadsInv
<1>4. ASSUME NEW q \in Requests, NEW cents \in Amounts,
             \/ Start(q, "deposit", NoOne, All, cents)
             \/ Start(q, "draw", NoOne, All, cents)
             \/ \E l \in Levies, u \in Units \cup {All} :
                   Start(q, "collect", l, u, cents)
      PROVE  ReserveInv'
  <2>1. cents \in Nat
    BY AmountsAssumption
  <2>2. CASE Start(q, "deposit", NoOne, All, cents)
    BY <2>1, <2>2, StartInv
  <2>3. CASE Start(q, "draw", NoOne, All, cents)
    BY <2>1, <2>3, StartInv
  <2>4. ASSUME NEW l \in Levies, NEW u \in Units \cup {All},
               Start(q, "collect", l, u, cents)
        PROVE  ReserveInv'
    BY <2>1, <2>4, StartInv
  <2> QED
    BY <1>4, <2>2, <2>3, <2>4
<1>5. ASSUME NEW l \in Levies, CreateLevy(l) PROVE ReserveInv'
  BY <1>5, CreateLevyInv
<1> QED
  BY <1>1, <1>2, <1>3, <1>4, <1>5 DEF Next

\* The inductive invariant: nobody takes more than there is room for, and what
\* a call carries over an await fits the rows it came from.
THEOREM Invariance == Spec => []ReserveInv
  BY InitInv, NextInv, PTL DEF Spec

\* Rows, calls and row locks keep their shape (schema.prisma, collectLevy).
THEOREM TypeCorrect == Spec => []TypeOK
<1>1. ReserveInv => TypeOK
  BY DEF ReserveInv
<1> QED
  BY <1>1, Invariance, PTL

\* However many administrators collect at once, whatever fails half way: no
\* unit pays more than its share and a closed levy is paid in full
\* (collectLevy, closeLevy).
THEOREM NobodyOverpays == Spec => []NeverOverCollected
<1>1. ReserveInv => NeverOverCollected
  BY DEF ReserveInv
<1> QED
  BY <1>1, Invariance, PTL
-----------------------------------------------------------------------------
(***************************************************************************)
(* Locks are taken in the order of the units: what a collector holds comes  *)
(* before what it is still to visit, and what it is at comes first of that. *)
(***************************************************************************)
OrderInv ==
    /\ \A l \in Levies, u \in Units : hold[l][u].by \in Requests =>
          \A v \in Units : req[hold[l][u].by].todo[v] > 0 => u < v
    /\ \A q \in Requests :
          req[q].step \in {"fresh", "retry"} => req[q].at \in NextShares(q)

LEMMA InitOrder == Init => OrderInv
  BY NoOneAssumption DEF Init, OrderInv, Idle, Free

LEMMA OrderMoves ==
    ASSUME ReserveInv, OrderInv, NEW q \in Requests, NEW c,
           req' = [req EXCEPT ![q] = c], UNCHANGED hold,
           \A l \in Levies, u \in Units : hold[l][u].by = q =>
              \A v \in Units : c.todo[v] > 0 => req[q].todo[v] > 0,
           c.step \in {"fresh", "retry"} =>
              /\ c.at \in Units /\ c.todo[c.at] > 0
              /\ \A v \in Units : c.todo[v] > 0 => c.at <= v
    PROVE  OrderInv'
<1>1. \A r \in Requests : req'[r] = IF r = q THEN c ELSE req[r]
  BY DEF ReserveInv, TypeOK
<1>2. ASSUME NEW l \in Levies, NEW u \in Units, hold[l][u].by \in Requests,
             NEW v \in Units, req'[hold[l][u].by].todo[v] > 0
      PROVE  u < v
  <2>1. CASE hold[l][u].by = q
    BY <1>1, <1>2, <2>1 DEF OrderInv
  <2>2. CASE hold[l][u].by # q
    BY <1>1, <1>2, <2>2 DEF OrderInv
  <2> QED
    BY <2>1, <2>2
<1>3. ASSUME NEW r \in Requests, req'[r].step \in {"fresh", "retry"}
      PROVE  req'[r].at \in NextShares(r)'
  <2>1. CASE r = q
    BY <1>1, <1>3, <2>1 DEF NextShares, ToVisit
  <2>2. CASE r # q
    BY <1>1, <1>3, <2>2 DEF OrderInv, NextShares, ToVisit
  <2> QED
    BY <2>1, <2>2
<1> QED
  BY <1>2, <1>3 DEF OrderInv

\* A call that holds nothing and gets to no share in this step.
LEMMA OrderOutside ==
    ASSUME ReserveInv, OrderInv, NEW q \in Requests, NEW c,
           req' = [req EXCEPT ![q] = c], UNCHANGED hold,
           req[q].step \notin Collecting, c.step \notin {"fresh", "retry"}
    PROVE  OrderInv'
<1>1. \A l \in Levies, u \in Units : hold[l][u].by # q
  BY HoldsNothing
<1>2. \A l \in Levies, u \in Units : hold[l][u].by = q =>
         \A v \in Units : c.todo[v] > 0 => req[q].todo[v] > 0
  BY <1>1
<1> QED
  BY <1>2, OrderMoves

LEMMA OrderTake ==
    ASSUME ReserveInv, OrderInv, NEW q \in Requests, NEW u \in NextShares(q),
           NEW take, req[q].levy \in Levies, Take(q, u, take)
    PROVE  OrderInv'
<1> DEFINE c == [req[q] EXCEPT !.step = "share", !.left = req[q].left - take,
                               !.todo[u] = 0, !.at = 0, !.take = 0]
<1>1. req[q] \in Call /\ u \in Units
  BY DEF ReserveInv, TypeOK, NextShares, ToVisit
<1>2. req' = [req EXCEPT ![q] = c]
  BY DEF Take
<1>3. c.step = "share" /\ c.todo = [req[q].todo EXCEPT ![u] = 0]
  BY <1>1 DEF Call
<1> HIDE DEF c
<1>4. \A r \in Requests : req'[r] = IF r = q THEN c ELSE req[r]
  BY <1>2 DEF ReserveInv, TypeOK
<1>5. \A v \in Units : c.todo[v] > 0 => v # u /\ req[q].todo[v] > 0 /\ u <= v
  BY <1>1, <1>3 DEF Call, NextShares, ToVisit
<1>6. \A m \in Levies : \A v \in Units :
         hold'[m][v] = IF m = req[q].levy /\ v = u
                       THEN [by |-> q, take |-> take] ELSE hold[m][v]
  BY <1>1 DEF Take, ReserveInv, TypeOK
<1>7. ASSUME NEW m \in Levies, NEW v \in Units, hold'[m][v].by \in Requests,
             NEW w \in Units, req'[hold'[m][v].by].todo[w] > 0
      PROVE  v < w
  <2>1. CASE m = req[q].levy /\ v = u
    <3>1. hold'[m][v].by = q
      BY <1>6, <2>1
    <3>2. u <= w /\ u # w
      BY <1>4, <1>5, <1>7, <3>1
    <3> QED
      BY <1>1, <2>1, <3>2, UnitsFact
  <2>2. CASE ~ (m = req[q].levy /\ v = u)
    <3>1. hold'[m][v] = hold[m][v]
      BY <1>6, <2>2
    <3>2. req[hold[m][v].by].todo[w] > 0
      BY <1>4, <1>5, <1>7, <3>1
    <3> QED
      BY <1>7, <3>1, <3>2 DEF OrderInv
  <2> QED
    BY <2>1, <2>2
<1>8. ASSUME NEW r \in Requests, req'[r].step \in {"fresh", "retry"}
      PROVE  req'[r].at \in NextShares(r)'
  BY <1>3, <1>4, <1>8 DEF OrderInv, NextShares, ToVisit
<1> QED
  BY <1>7, <1>8 DEF OrderInv

LEMMA OrderRelease ==
    ASSUME ReserveInv, OrderInv, NEW q \in Requests, Finish(q), Release(q)
    PROVE  OrderInv'
<1>1. \A r \in Requests : req'[r] = IF r = q THEN Idle ELSE req[r]
  BY DEF Finish, ReserveInv, TypeOK
<1>2. \A l \in Levies : \A u \in Units :
        hold'[l][u] = IF hold[l][u].by = q THEN Free ELSE hold[l][u]
  BY DEF Release
<1>3. ASSUME NEW l \in Levies, NEW u \in Units, hold'[l][u].by \in Requests,
             NEW v \in Units, req'[hold'[l][u].by].todo[v] > 0
      PROVE  u < v
  <2>1. hold[l][u].by # q /\ hold'[l][u] = hold[l][u]
    BY <1>2, <1>3, NoOneAssumption DEF Free
  <2> QED
    BY <1>1, <1>3, <2>1 DEF OrderInv
<1>4. ASSUME NEW r \in Requests, req'[r].step \in {"fresh", "retry"}
      PROVE  req'[r].at \in NextShares(r)'
  BY <1>1, <1>4, IdleFact DEF OrderInv, NextShares, ToVisit
<1> QED
  BY <1>3, <1>4 DEF OrderInv

\* From one share to the next, within a collection.
LEMMA OrderCollect ==
    ASSUME ReserveInv, OrderInv, NEW q \in Requests,
           CollectShare(q) \/ CollectFresh(q) \/ CollectRetry(q)
    PROVE  OrderInv'
<1>1. /\ req[q].step \in Collecting
      /\ req[q].step \in {"fresh", "retry"} => req[q].at \in NextShares(q)
  BY DEF CollectShare, CollectFresh, CollectRetry, Collecting, OrderInv
<1>2. req[q].levy \in Levies /\ req[q] \in Call
  BY <1>1 DEF ReserveInv, TypeOK, CallInv, CallFacts
<1>3. CASE CollectShare(q)
  <2>1. PICK u \in NextShares(q) :
          LET take == Smaller(req[q].left, req[q].todo[u]) IN
          IF StillFits(q, u, take)
          THEN Take(q, u, take)
          ELSE /\ req' = [req EXCEPT ![q] =
                    [req[q] EXCEPT !.step = "fresh", !.at = u]]
               /\ UNCHANGED hold
    BY <1>3 DEF CollectShare
  <2> DEFINE take == Smaller(req[q].left, req[q].todo[u])
             c == [req[q] EXCEPT !.step = "fresh", !.at = u]
  <2>2. CASE Take(q, u, take)
    BY <1>2, <2>2, OrderTake
  <2>3. CASE req' = [req EXCEPT ![q] = c] /\ UNCHANGED hold
    <3>1. c.at = u /\ c.todo = req[q].todo
      BY <1>2 DEF Call
    <3>2. /\ u \in Units /\ c.todo[u] > 0
          /\ \A v \in Units : c.todo[v] > 0 => u <= v
      BY <3>1 DEF NextShares, ToVisit
    <3> HIDE DEF c
    <3> QED
      BY <2>3, <3>1, <3>2, OrderMoves
  <2> QED
    BY <2>1, <2>2, <2>3
<1>4. CASE CollectFresh(q)
  <2> DEFINE l == req[q].levy
             u == req[q].at
             open == share[l][u] - paid[l][u]
             c == [req[q] EXCEPT !.step = "share", !.todo[u] = 0, !.at = 0]
             d == [req[q] EXCEPT !.step = "retry",
                                 !.take = Smaller(req[q].left, open)]
  <2>1. UNCHANGED hold /\ req' = [req EXCEPT ![q] = IF open = 0 THEN c ELSE d]
    BY <1>4 DEF CollectFresh
  <2>2. u \in NextShares(q)
    BY <1>1, <1>4 DEF CollectFresh
  <2>3. CASE open = 0
    <3>1. c.step = "share" /\ c.todo = [req[q].todo EXCEPT ![u] = 0]
      BY <1>2 DEF Call
    <3>2. \A v \in Units : c.todo[v] > 0 => req[q].todo[v] > 0
      BY <1>2, <3>1 DEF Call
    <3>3. req' = [req EXCEPT ![q] = c]
      BY <2>1, <2>3
    <3> HIDE DEF c
    <3> QED
      BY <2>1, <3>1, <3>2, <3>3, OrderMoves
  <2>4. CASE open # 0
    <3>1. d.at = u /\ d.todo = req[q].todo
      BY <1>2 DEF Call
    <3>2. /\ u \in Units /\ d.todo[u] > 0
          /\ \A v \in Units : d.todo[v] > 0 => u <= v
      BY <2>2, <3>1 DEF NextShares, ToVisit
    <3>3. req' = [req EXCEPT ![q] = d]
      BY <2>1, <2>4
    <3> HIDE DEF d
    <3> QED
      BY <2>1, <3>1, <3>2, <3>3, OrderMoves
  <2> QED
    BY <2>3, <2>4
<1>5. CASE CollectRetry(q)
  BY <1>1, <1>2, <1>5, OrderTake DEF CollectRetry
<1> QED
  BY <1>3, <1>4, <1>5

\* The calls outside a collection.
LEMMA OrderOthers ==
    ASSUME ReserveInv, OrderInv, NEW q \in Requests,
           \/ CreateFund(q)
           \/ DepositCommits(q) \/ DrawCommits(q) \/ DrawRefused(q)
           \/ CollectReads(q) \/ CollectRefused(q)
           \/ IssueClaims(q) \/ CloseClaims(q)
    PROVE  OrderInv'
<1>1. req[q].step \notin Collecting /\ UNCHANGED hold
  BY DEF CreateFund, DepositCommits, DrawCommits, DrawRefused, CollectReads,
         CollectRefused, IssueClaims, CloseClaims, Ready, Collecting, books
<1>2. req[q] \in Call
  BY DEF ReserveInv, TypeOK
<1>3. CASE Finish(q)
  <2>1. req' = [req EXCEPT ![q] = Idle]
    BY <1>3 DEF Finish
  <2>2. Idle.step \notin {"fresh", "retry"}
    BY IdleFact
  <2> QED
    BY <1>1, <2>1, <2>2, OrderOutside
<1>4. CASE Goto(q, "ready")
  <2> DEFINE c == [req[q] EXCEPT !.step = "ready"]
  <2>1. req' = [req EXCEPT ![q] = c] /\ c.step = "ready"
    BY <1>2, <1>4 DEF Goto, Call
  <2> HIDE DEF c
  <2> QED
    BY <1>1, <2>1, OrderOutside
<1>5. CASE CollectReads(q)
  <2> DEFINE l == req[q].levy
             c == [req[q] EXCEPT !.step = "share", !.left = req[q].amount,
                     !.todo = [u \in Units |->
                                 IF req[q].unit \in {All, u}
                                 THEN share[l][u] - paid[l][u] ELSE 0]]
  <2>1. req' = [req EXCEPT ![q] = c] /\ c.step = "share"
    BY <1>2, <1>5 DEF CollectReads, Call
  <2> HIDE DEF c
  <2> QED
    BY <1>1, <2>1, OrderOutside
<1> QED
  BY <1>3, <1>4, <1>5 DEF CreateFund, DepositCommits, DrawCommits, DrawRefused,
                          CollectRefused, IssueClaims, CloseClaims

\* The calls that begin.
LEMMA OrderBegins ==
    ASSUME ReserveInv, OrderInv, NEW q \in Requests, NEW c,
           req[q] = Idle, req' = [req EXCEPT ![q] = c], UNCHANGED hold,
           c.step \in {"ready", "create", "issue", "close"}
    PROVE  OrderInv'
  BY IdleFact, OrderOutside DEF Collecting

LEMMA NextOrder == ReserveInv /\ OrderInv /\ [Next]_vars => OrderInv'
<1> SUFFICES ASSUME ReserveInv, OrderInv, [Next]_vars PROVE OrderInv'
  OBVIOUS
<1>1. ASSUME UNCHANGED <<hold, req>> PROVE OrderInv'
  BY <1>1 DEF OrderInv, NextShares, ToVisit
<1>2. CASE UNCHANGED vars
  BY <1>1, <1>2 DEF vars
<1>3. ASSUME NEW l \in Levies, CreateLevy(l) PROVE OrderInv'
  BY <1>1, <1>3 DEF CreateLevy
<1>4. ASSUME NEW q \in Requests,
             CollectConflict(q) \/ CollectCommits(q) \/ CollectExceeds(q) \/ Aborts(q)
      PROVE  OrderInv'
  BY <1>4, OrderRelease DEF CollectConflict, CollectCommits, CollectExceeds,
                            Aborts, Rollback
<1>5. ASSUME NEW q \in Requests, NEW l \in Levies,
             IssueReads(q, l) \/ CloseReads(q, l)
      PROVE  OrderInv'
  <2>1. CASE IssueReads(q, l)
    <3> DEFINE c == [Idle EXCEPT !.step = "issue", !.op = "issue", !.levy = l]
    <3>1. c.step = "issue"
      BY DEF Idle
    <3>2. req[q] = Idle /\ req' = [req EXCEPT ![q] = c] /\ UNCHANGED hold
      BY <2>1 DEF IssueReads
    <3> HIDE DEF c
    <3> QED
      BY <3>1, <3>2, OrderBegins
  <2>2. CASE CloseReads(q, l)
    <3> DEFINE c == [Idle EXCEPT !.step = "close", !.op = "close", !.levy = l]
    <3>1. c.step = "close"
      BY DEF Idle
    <3>2. req[q] = Idle /\ req' = [req EXCEPT ![q] = c] /\ UNCHANGED hold
      BY <2>2 DEF CloseReads
    <3> HIDE DEF c
    <3> QED
      BY <3>1, <3>2, OrderBegins
  <2> QED
    BY <1>5, <2>1, <2>2
<1>6. ASSUME NEW q \in Requests, NEW op, NEW l, NEW u, NEW cents,
             Start(q, op, l, u, cents)
      PROVE  OrderInv'
  <2> DEFINE c == [Idle EXCEPT
                     !.step = IF fund.present THEN "ready" ELSE "create",
                     !.op = op, !.levy = l, !.unit = u, !.amount = cents]
  <2>1. c.step \in {"ready", "create"}
    BY DEF Idle
  <2>2. req[q] = Idle /\ req' = [req EXCEPT ![q] = c] /\ UNCHANGED hold
    BY <1>6 DEF Start
  <2> HIDE DEF c
  <2> QED
    BY <2>1, <2>2, OrderBegins
<1> QED
  BY <1>2, <1>3, <1>4, <1>5, <1>6, OrderCollect, OrderOthers DEF Next

\* Who waits for a share waits for the first of those it is still to visit.
At(q, u) ==
    /\ req[q].step \in Collecting
    /\ u \in NextShares(q)

\* If every collector of a set waited for another of them, the one that waits
\* for the last unit would be waited for by nobody but one further on.
LEMMA NoCircle == ReserveInv /\ OrderInv => NoCircularWait
<1> SUFFICES ASSUME ReserveInv, OrderInv,
                    NEW S \in SUBSET Requests, S # {},
                    \A q \in S : \E r \in S : WaitsFor(q, r)
             PROVE  FALSE
  BY DEF NoCircularWait
<1>1. ASSUME NEW q \in S, NEW r \in S, WaitsFor(q, r)
      PROVE  \E u \in Units : At(q, u) /\ hold[req[q].levy][u].by = r
  <2>1. PICK u \in Units :
          /\ \/ req[q].step = "share" /\ u \in NextShares(q)
             \/ req[q].step = "retry" /\ u = req[q].at
          /\ hold[req[q].levy][u].by = r
    BY <1>1 DEF WaitsFor
  <2> QED
    BY <2>1 DEF At, Collecting, OrderInv
<1> DEFINE T == {N - u : u \in {v \in Units : \E q \in S : At(q, v)}}
<1>2. T \in SUBSET Nat
  BY UnitsFact
<1>3. T # {}
  <2>1. PICK q \in S : TRUE
    OBVIOUS
  <2>2. PICK r \in S : WaitsFor(q, r)
    BY <2>1
  <2> QED
    BY <1>1, <2>2
<1> HIDE DEF T
<1>4. PICK x \in T : \A y \in T : x <= y
  BY <1>2, <1>3, LeastOf
<1>5. PICK u \in Units, q \in S : At(q, u) /\ x = N - u
  BY DEF T
<1>6. PICK r \in S : WaitsFor(q, r)
  OBVIOUS
<1>7. PICK w \in Units : At(q, w) /\ hold[req[q].levy][w].by = r
  BY <1>1, <1>6
<1>8. w = u
  BY <1>5, <1>7, UnitsFact DEF At, NextShares, ToVisit
<1>9. PICK s \in S : WaitsFor(r, s)
  OBVIOUS
<1>10. PICK v \in Units : At(r, v)
  BY <1>1, <1>9
<1>11. u < v
  <2>1. req[q].levy \in Levies
    BY <1>5 DEF At, ReserveInv, CallInv, CallFacts
  <2>2. req[r].todo[v] > 0
    BY <1>10 DEF At, NextShares, ToVisit
  <2> QED
    BY <1>7, <1>8, <2>1, <2>2 DEF OrderInv
<1>12. N - v \in T
  BY <1>10 DEF T
<1>13. x <= N - v
  BY <1>4, <1>12
<1> QED
  BY <1>5, <1>11, <1>13, UnitsFact

\* Collectors never wait for each other in a circle: whatever units they are
\* after, they lock them in one order (the sort in collectLevy).
THEOREM NoDeadlock == Spec => []NoCircularWait
<1>1. Spec => []OrderInv
  BY InitOrder, NextOrder, Invariance, PTL DEF Spec
<1> QED
  BY <1>1, NoCircle, Invariance, PTL
-----------------------------------------------------------------------------
(***************************************************************************)
(* The abstract fund. What a collector has taken of the shares, and has not *)
(* committed, is what it has allocated of its amount.                       *)
(***************************************************************************)
Taken(q, l) == [u \in Units |-> IF hold[l][u].by = q THEN hold[l][u].take ELSE 0]

Allocated(q, c) ==
    /\ c.op \in {"deposit", "draw", "collect"} => c.amount \in Amounts
    /\ c.step \in Collecting =>
          /\ c.op = "collect"
          /\ levy[c.levy] \in {"ISSUED", "CLOSED"}
          /\ SumFunction(Taken(q, c.levy)) + c.left = c.amount

FlowInv ==
    /\ \A q \in Requests : Allocated(q, req[q])
    /\ \A l \in Levies : \A u \in Units : share[l][u] <= Terms[l].total

LEMMA TakenFact ==
    ASSUME ReserveInv, NEW q, NEW l \in Levies
    PROVE  /\ Taken(q, l) \in [Units -> Nat]
           /\ SumFunction(Taken(q, l)) = SumFunctionOnSet(Taken(q, l), Units)
           /\ SumFunction(Taken(q, l)) \in Nat
<1>1. Taken(q, l) \in [Units -> Nat]
  BY DEF Taken, ReserveInv, TypeOK
<1>2. SumFunction(Taken(q, l)) = SumFunctionOnSet(Taken(q, l), Units)
  BY <1>1 DEF SumFunction
<1>3. \A u \in Units : Taken(q, l)[u] \in Nat
  BY <1>1
<1> QED
  BY <1>1, <1>2, <1>3, UnitsFinite, SumNat

\* Who holds no cent of a levy has taken none of it.
LEMMA TakenNothing ==
    ASSUME NEW q, NEW l \in Levies,
           \A u \in Units : hold[l][u].by = q => hold[l][u].take = 0
    PROVE  SumFunction(Taken(q, l)) = 0
<1> DEFINE f == Taken(q, l)
<1>1. DOMAIN f = Units /\ \A u \in Units : f[u] = 0
  BY DEF Taken
<1> HIDE DEF f
<1>2. \A u \in Units : f[u] \in Int /\ f[u] = 0 * f[u]
  BY <1>1
<1>3. 0 \in Int
  OBVIOUS
<1>4. SumFunctionOnSet(f, Units) = 0 * SumFunctionOnSet(f, Units)
  BY <1>2, <1>3, UnitsFinite, SumTimes
<1>5. \A u \in Units : f[u] \in Nat
  BY <1>1
<1>6. SumFunctionOnSet(f, Units) \in Nat
  BY <1>5, UnitsFinite, SumNat
<1> QED
  BY <1>1, <1>4, <1>6 DEF SumFunction, f

\* One call moves; of the others, no row that counts is touched.
LEMMA FlowStep ==
    ASSUME ReserveInv, FlowInv, NEW q \in Requests, NEW c,
           req' = [req EXCEPT ![q] = c], Allocated(q, c)',
           \A r \in Requests \ {q} : \A l \in Levies : Taken(r, l)' = Taken(r, l),
           \A l \in Levies : levy[l] \in {"ISSUED", "CLOSED"} =>
                                levy'[l] \in {"ISSUED", "CLOSED"},
           UNCHANGED share
    PROVE  FlowInv'
<1>1. \A r \in Requests : req'[r] = IF r = q THEN c ELSE req[r]
  BY DEF ReserveInv, TypeOK
<1>2. ASSUME NEW r \in Requests PROVE Allocated(r, req[r])'
  <2>1. CASE r = q
    BY <1>1, <2>1 DEF Allocated
  <2>2. CASE r # q
    <3>1. req'[r] = req[r] /\ Allocated(r, req[r])
      BY <1>1, <2>2 DEF FlowInv
    <3>2. req[r].step \in Collecting =>
            /\ req[r].levy \in Levies
            /\ Taken(r, req[r].levy)' = Taken(r, req[r].levy)
      BY <2>2 DEF ReserveInv, CallInv, CallFacts
    <3> QED
      BY <3>1, <3>2 DEF Allocated
  <2> QED
    BY <2>1, <2>2
<1>3. \A l \in Levies : \A u \in Units : share'[l][u] <= Terms[l].total
  BY DEF FlowInv
<1> QED
  BY <1>2, <1>3 DEF FlowInv

\* A call outside a collection, before and after.
LEMMA FlowOutside ==
    ASSUME ReserveInv, FlowInv, NEW q \in Requests, NEW c,
           req' = [req EXCEPT ![q] = c],
           c.step \notin Collecting,
           c.op \in {"deposit", "draw", "collect"} => c.amount \in Amounts,
           \A l \in Levies : levy[l] \in {"ISSUED", "CLOSED"} =>
                                levy'[l] \in {"ISSUED", "CLOSED"},
           UNCHANGED <<share, hold>>
    PROVE  FlowInv'
<1>1. Allocated(q, c)'
  BY DEF Allocated
<1>2. \A r \in Requests \ {q} : \A l \in Levies : Taken(r, l)' = Taken(r, l)
  BY DEF Taken
<1> QED
  BY <1>1, <1>2, FlowStep

LEMMA FlowFinish ==
    ASSUME ReserveInv, FlowInv, NEW q \in Requests, Finish(q),
           \A l \in Levies : levy[l] \in {"ISSUED", "CLOSED"} =>
                                levy'[l] \in {"ISSUED", "CLOSED"},
           UNCHANGED <<share, hold>>
    PROVE  FlowInv'
<1>1. req' = [req EXCEPT ![q] = Idle]
  BY DEF Finish
<1> QED
  BY <1>1, IdleFact, FlowOutside DEF Collecting

LEMMA FlowRelease ==
    ASSUME ReserveInv, FlowInv, NEW q \in Requests, Finish(q), Release(q),
           UNCHANGED <<levy, share>>
    PROVE  FlowInv'
<1>1. req' = [req EXCEPT ![q] = Idle]
  BY DEF Finish
<1>2. Allocated(q, Idle)'
  BY IdleFact DEF Allocated, Collecting
<1>3. ASSUME NEW r \in Requests \ {q}, NEW l \in Levies
      PROVE  Taken(r, l)' = Taken(r, l)
  <2>1. \A u \in Units :
          hold'[l][u] = IF hold[l][u].by = q THEN Free ELSE hold[l][u]
    BY DEF Release
  <2>2. ASSUME NEW u \in Units
        PROVE  (IF hold'[l][u].by = r THEN hold'[l][u].take ELSE 0)
                 = (IF hold[l][u].by = r THEN hold[l][u].take ELSE 0)
    BY <2>1, NoOneAssumption DEF Free
  <2> QED
    BY <2>2 DEF Taken
<1> QED
  BY <1>1, <1>2, <1>3, FlowStep

\* The shares are read: nothing of them is taken yet.
LEMMA FlowReads ==
    ASSUME ReserveInv, FlowInv, NEW q \in Requests, CollectReads(q)
    PROVE  FlowInv'
<1>1. PICK l, c :
        /\ l = req[q].levy
        /\ c = [req[q] EXCEPT !.step = "share", !.left = req[q].amount,
                   !.todo = [u \in Units |->
                               IF req[q].unit \in {All, u}
                               THEN share[l][u] - paid[l][u] ELSE 0]]
  OBVIOUS
<1>2. /\ req[q] \in Call /\ l \in Levies /\ levy[l] = "ISSUED"
      /\ req[q].op = "collect" /\ req[q].step \notin Collecting
  BY <1>1 DEF CollectReads, Ready, ReserveInv, TypeOK, CallInv, CallFacts, Collecting
<1>3. /\ c.op = "collect" /\ c.levy = l /\ c.amount = req[q].amount
      /\ c.left = req[q].amount
  BY <1>1, <1>2 DEF Call
<1>4. /\ req' = [req EXCEPT ![q] = c]
      /\ UNCHANGED <<levy, share, hold>>
  BY <1>1 DEF CollectReads, books
<1>5. req[q].amount \in Nat /\ req[q].amount \in Amounts
  BY <1>2 DEF Call, FlowInv, Allocated
<1>6. \A m \in Levies : \A u \in Units : hold[m][u].by # q
  BY <1>2, HoldsNothing
<1>7. SumFunction(Taken(q, l)) = 0
  BY <1>2, <1>6, TakenNothing
<1>8. \A r, m : Taken(r, m)' = Taken(r, m)
  BY <1>4 DEF Taken
<1>9. SumFunction(Taken(q, l)) + c.left = c.amount
  BY <1>3, <1>5, <1>7
<1>10. Allocated(q, c)'
  BY <1>2, <1>3, <1>4, <1>5, <1>8, <1>9 DEF Allocated
<1>11. \A r \in Requests \ {q} : \A m \in Levies : Taken(r, m)' = Taken(r, m)
  BY <1>8
<1> QED
  BY <1>4, <1>10, <1>11, FlowStep

\* From one share to the next without an increment.
LEMMA FlowMoves ==
    ASSUME ReserveInv, FlowInv, NEW q \in Requests, NEW c,
           req' = [req EXCEPT ![q] = c],
           req[q].step \in Collecting, c.op = req[q].op, c.levy = req[q].levy,
           c.amount = req[q].amount, c.left = req[q].left,
           UNCHANGED <<levy, share, hold>>
    PROVE  FlowInv'
<1>1. \A r, m : Taken(r, m)' = Taken(r, m)
  BY DEF Taken
<1>2. Allocated(q, req[q])
  BY DEF FlowInv
<1>3. Allocated(q, c)'
  BY <1>1, <1>2 DEF Allocated
<1> QED
  BY <1>1, <1>3, FlowStep

\* An increment of a share: what is taken grows by what is left shrinks.
LEMMA FlowTake ==
    ASSUME ReserveInv, FlowInv, NEW q \in Requests, NEW u \in Units,
           NEW take \in Nat, req[q].step \in Collecting, req[q].todo[u] > 0,
           ~ Locked(q, u), Take(q, u, take), UNCHANGED <<levy, share>>
    PROVE  FlowInv'
<1>1. PICK l, c :
        /\ l = req[q].levy
        /\ c = [req[q] EXCEPT !.step = "share", !.left = req[q].left - take,
                              !.todo[u] = 0, !.at = 0, !.take = 0]
  OBVIOUS
<1>2. /\ req[q] \in Call /\ l \in Levies /\ req[q].op = "collect"
      /\ req[q].amount \in Amounts
      /\ levy[l] \in {"ISSUED", "CLOSED"}
      /\ SumFunction(Taken(q, l)) + req[q].left = req[q].amount
  <2>1. Allocated(q, req[q])
    BY DEF FlowInv
  <2> QED
    BY <1>1, <2>1 DEF Allocated, ReserveInv, TypeOK, CallInv, CallFacts
<1>3. hold[l][u].by = NoOne
  <2>1. hold[l][u].by \in {q, NoOne}
    BY <1>1 DEF Locked
  <2>2. hold[l][u].by # q
    BY <1>1, <1>2 DEF ReserveInv, TypeOK
  <2> QED
    BY <2>1, <2>2
<1>4. /\ c.op = "collect" /\ c.levy = l /\ c.amount = req[q].amount
      /\ c.left = req[q].left - take
  BY <1>1, <1>2 DEF Call
<1>5. req' = [req EXCEPT ![q] = c]
  BY <1>1 DEF Take
<1>6. \A m \in Levies : \A v \in Units :
         hold'[m][v] = IF m = l /\ v = u THEN [by |-> q, take |-> take]
                       ELSE hold[m][v]
  BY <1>1, <1>2 DEF Take, ReserveInv, TypeOK
<1>7. ASSUME NEW r \in Requests \ {q}, NEW m \in Levies
      PROVE  Taken(r, m)' = Taken(r, m)
  <2>1. ASSUME NEW v \in Units
        PROVE  (IF hold'[m][v].by = r THEN hold'[m][v].take ELSE 0)
                 = (IF hold[m][v].by = r THEN hold[m][v].take ELSE 0)
    BY <1>3, <1>6, NoOneAssumption
  <2> QED
    BY <2>1 DEF Taken
<1>8. SumFunction(Taken(q, l))' = take + SumFunction(Taken(q, l))
  <2> DEFINE f == Taken(q, l)
             g == [v \in Units |-> IF v = u THEN take ELSE f[v]]
             others == Units \ {u}
  <2>1. f \in [Units -> Nat] /\ f[u] = 0
    BY <1>2, <1>3, TakenFact, NoOneAssumption DEF Taken
  <2>2. Taken(q, l)' = g
    <3>1. ASSUME NEW v \in Units
          PROVE  (IF hold'[l][v].by = q THEN hold'[l][v].take ELSE 0) = g[v]
      BY <1>2, <1>6 DEF Taken
    <3> QED
      BY <3>1 DEF Taken
  <2> HIDE DEF f
  <2>3. DOMAIN g = Units /\ \A v \in Units : g[v] \in Int
    BY <2>1
  <2>4. SumFunction(g) = take + SumFunctionOnSet(g, others)
    <3>1. SumFunctionOnSet(g, Units) = g[u] + SumFunctionOnSet(g, others)
      BY <2>3, UnitsFinite, SumOf
    <3> QED
      BY <2>3, <3>1 DEF SumFunction
  <2>5. \A v \in Units : f[v] \in Int
    BY <2>1
  <2>6. /\ SumFunction(f) = f[u] + SumFunctionOnSet(f, others)
        /\ SumFunctionOnSet(f, others) \in Int
    <3>1. /\ SumFunctionOnSet(f, Units) = f[u] + SumFunctionOnSet(f, others)
          /\ SumFunctionOnSet(f, others) \in Int
      BY <2>5, UnitsFinite, SumOf
    <3>2. DOMAIN f = Units
      BY <2>1
    <3> QED
      BY <3>1, <3>2 DEF SumFunction
  <2>7. SumFunctionOnSet(g, others) = SumFunctionOnSet(f, others)
    <3>1. \A v \in others : f[v] \in Int /\ g[v] = f[v]
      BY <2>5
    <3>2. IsFiniteSet(others)
      BY UnitsFinite, FS_Subset
    <3> HIDE DEF g, others
    <3> QED
      BY <3>1, <3>2, SumSame
  <2>8. SumFunction(g) = take + SumFunction(f)
    BY <2>1, <2>4, <2>6, <2>7
  <2>9. SumFunction(Taken(q, l))' = SumFunction(g)
    BY <2>2
  <2> QED
    BY <2>8, <2>9 DEF f
<1>9. SumFunction(Taken(q, l))' + c.left = c.amount
  <2>1. /\ SumFunction(Taken(q, l)) \in Nat /\ req[q].left \in Nat
        /\ req[q].amount \in Nat
    BY <1>2, TakenFact DEF Call
  <2> QED
    BY <1>2, <1>4, <1>8, <2>1
<1>10. Allocated(q, c)'
  BY <1>2, <1>4, <1>9 DEF Allocated
<1> QED
  BY <1>5, <1>7, <1>10, FlowStep

LEMMA FlowCollect ==
    ASSUME ReserveInv, FlowInv, NEW q \in Requests,
           CollectShare(q) \/ CollectFresh(q) \/ CollectRetry(q)
    PROVE  FlowInv'
<1>1. req[q] \in Call /\ req[q].step \in Collecting /\ UNCHANGED <<levy, share>>
  BY DEF CollectShare, CollectFresh, CollectRetry, Collecting, books,
         ReserveInv, TypeOK
<1>2. CASE CollectShare(q)
  <2>1. PICK u \in NextShares(q) :
          LET take == Smaller(req[q].left, req[q].todo[u]) IN
          /\ ~ Locked(q, u)
          /\ IF StillFits(q, u, take)
             THEN Take(q, u, take)
             ELSE /\ req' = [req EXCEPT ![q] =
                       [req[q] EXCEPT !.step = "fresh", !.at = u]]
                  /\ UNCHANGED hold
    BY <1>2 DEF CollectShare
  <2>2. PICK take : take = Smaller(req[q].left, req[q].todo[u])
    OBVIOUS
  <2>3. u \in Units /\ req[q].todo[u] > 0
    BY DEF NextShares, ToVisit
  <2>4. take \in Nat
    BY <1>1, <2>2, <2>3, SmallerFact DEF Call
  <2>5. CASE Take(q, u, take)
    BY <1>1, <2>1, <2>3, <2>4, <2>5, FlowTake
  <2>6. CASE /\ req' = [req EXCEPT ![q] = [req[q] EXCEPT !.step = "fresh", !.at = u]]
             /\ UNCHANGED hold
    <3>1. PICK c : c = [req[q] EXCEPT !.step = "fresh", !.at = u]
      OBVIOUS
    <3>2. /\ c.op = req[q].op /\ c.levy = req[q].levy
          /\ c.amount = req[q].amount /\ c.left = req[q].left
      BY <1>1, <3>1 DEF Call
    <3> QED
      BY <1>1, <2>6, <3>1, <3>2, FlowMoves
  <2> QED
    BY <2>1, <2>2, <2>5, <2>6
<1>3. CASE CollectFresh(q)
  <2>1. PICK c, d, open :
          /\ c = [req[q] EXCEPT !.step = "share", !.todo[req[q].at] = 0, !.at = 0]
          /\ d = [req[q] EXCEPT !.step = "retry",
                                !.take = Smaller(req[q].left, open)]
          /\ req' = [req EXCEPT ![q] = IF open = 0 THEN c ELSE d]
          /\ UNCHANGED hold
    BY <1>3 DEF CollectFresh
  <2>2. /\ c.op = req[q].op /\ c.levy = req[q].levy
        /\ c.amount = req[q].amount /\ c.left = req[q].left
    BY <1>1, <2>1 DEF Call
  <2>3. /\ d.op = req[q].op /\ d.levy = req[q].levy
        /\ d.amount = req[q].amount /\ d.left = req[q].left
    BY <1>1, <2>1 DEF Call
  <2>4. CASE open = 0
    BY <1>1, <2>1, <2>2, <2>4, FlowMoves
  <2>5. CASE open # 0
    BY <1>1, <2>1, <2>3, <2>5, FlowMoves
  <2> QED
    BY <2>4, <2>5
<1>4. CASE CollectRetry(q)
  <2>1. PICK u, take : /\ u = req[q].at /\ take = req[q].take
                       /\ ~ Locked(q, u) /\ Take(q, u, take)
    BY <1>4 DEF CollectRetry
  <2>2. u \in Units /\ req[q].todo[u] > 0 /\ take \in Nat
    BY <1>1, <1>4, <2>1
       DEF CollectRetry, ReserveInv, CallInv, CallFacts, Call
  <2> QED
    BY <1>1, <2>1, <2>2, FlowTake
<1> QED
  BY <1>2, <1>3, <1>4

LEMMA InitFlow == Init => FlowInv
<1> SUFFICES ASSUME Init PROVE FlowInv
  OBVIOUS
<1>1. \A q \in Requests : Allocated(q, req[q])
  BY IdleFact DEF Init, Allocated, Collecting
<1>2. \A l \in Levies : \A u \in Units : share[l][u] <= Terms[l].total
  BY TermsAssumption DEF Init, NoShares
<1> QED
  BY <1>1, <1>2 DEF FlowInv

LEMMA NextFlow == ReserveInv /\ FlowInv /\ [Next]_vars => FlowInv'
<1> SUFFICES ASSUME ReserveInv, FlowInv, [Next]_vars PROVE FlowInv'
  OBVIOUS
<1>1. CASE UNCHANGED vars
  BY <1>1 DEF vars, FlowInv, Allocated, Taken
<1>2. ASSUME NEW q \in Requests,
             \/ DepositCommits(q) \/ DrawCommits(q) \/ DrawRefused(q)
             \/ CollectRefused(q) \/ IssueClaims(q) \/ CloseClaims(q)
      PROVE  FlowInv'
  <2>1. /\ Finish(q) /\ UNCHANGED <<share, hold>>
        /\ \A l \in Levies : levy[l] \in {"ISSUED", "CLOSED"} =>
                                levy'[l] \in {"ISSUED", "CLOSED"}
    BY <1>2 DEF DepositCommits, DrawCommits, DrawRefused, CollectRefused,
                IssueClaims, CloseClaims, books, ReserveInv, TypeOK
  <2> QED
    BY <2>1, FlowFinish
<1>3. ASSUME NEW q \in Requests,
             CollectConflict(q) \/ CollectCommits(q) \/ CollectExceeds(q) \/ Aborts(q)
      PROVE  FlowInv'
  <2>1. Finish(q) /\ Release(q) /\ UNCHANGED <<levy, share>>
    BY <1>3 DEF CollectConflict, CollectCommits, CollectExceeds, Aborts, Rollback,
                books
  <2> QED
    BY <2>1, FlowRelease
<1>4. ASSUME NEW q \in Requests, CreateFund(q) PROVE FlowInv'
  <2>1. UNCHANGED <<levy, share, hold>>
    BY <1>4 DEF CreateFund
  <2>2. CASE Finish(q)
    BY <2>1, <2>2, FlowFinish
  <2>3. CASE Goto(q, "ready")
    <3>1. PICK c : c = [req[q] EXCEPT !.step = "ready"]
      OBVIOUS
    <3>2. req[q] \in Call
      BY DEF ReserveInv, TypeOK
    <3>3. c.step = "ready" /\ c.op = req[q].op /\ c.amount = req[q].amount
      BY <3>1, <3>2 DEF Call
    <3>4. c.op \in {"deposit", "draw", "collect"} => c.amount \in Amounts
      BY <3>3 DEF FlowInv, Allocated
    <3>5. req' = [req EXCEPT ![q] = c]
      BY <2>3, <3>1 DEF Goto
    <3> QED
      BY <2>1, <3>3, <3>4, <3>5, FlowOutside DEF Collecting
  <2> QED
    BY <1>4, <2>2, <2>3 DEF CreateFund
<1>5. ASSUME NEW q \in Requests, NEW l \in Levies,
             IssueReads(q, l) \/ CloseReads(q, l)
      PROVE  FlowInv'
  <2>1. PICK c : /\ \/ c = [Idle EXCEPT !.step = "issue", !.op = "issue", !.levy = l]
                    \/ c = [Idle EXCEPT !.step = "close", !.op = "close", !.levy = l]
                 /\ req' = [req EXCEPT ![q] = c]
                 /\ UNCHANGED <<levy, share, hold>>
    BY <1>5 DEF IssueReads, CloseReads, books
  <2>2. c.step \in {"issue", "close"} /\ c.op \in {"issue", "close"}
    BY <2>1 DEF Idle
  <2> QED
    BY <2>1, <2>2, FlowOutside DEF Collecting
<1>6. ASSUME NEW q \in Requests, NEW op, NEW l, NEW u, NEW cents \in Amounts,
             Start(q, op, l, u, cents)
      PROVE  FlowInv'
  <2> DEFINE c == [Idle EXCEPT !.step = IF fund.present THEN "ready" ELSE "create",
                               !.op = op, !.levy = l, !.unit = u, !.amount = cents]
  <2>1. req' = [req EXCEPT ![q] = c] /\ UNCHANGED <<levy, share, hold>>
    BY <1>6 DEF Start, books
  <2>2. c.step \in {"ready", "create"} /\ c.amount = cents
    BY DEF Idle
  <2> HIDE DEF c
  <2> QED
    BY <2>1, <2>2, FlowOutside DEF Collecting
<1>7. ASSUME NEW l \in Levies, CreateLevy(l) PROVE FlowInv'
  <2>1. /\ levy[l] = "NONE" /\ levy' = [levy EXCEPT ![l] = "DRAFT"]
        /\ UNCHANGED <<hold, req>>
        /\ share' = [share EXCEPT ![l] = Split(Terms[l].weights, Terms[l].total)]
    BY <1>7 DEF CreateLevy
  <2>2. ASSUME NEW q \in Requests PROVE Allocated(q, req[q])'
    <3>1. \A m : Taken(q, m)' = Taken(q, m)
      BY <2>1 DEF Taken
    <3>2. \A m \in Levies : levy[m] \in {"ISSUED", "CLOSED"} => levy'[m] = levy[m]
      BY <2>1 DEF ReserveInv, TypeOK
    <3>3. req[q].step \in Collecting => req[q].levy \in Levies
      BY DEF ReserveInv, CallInv, CallFacts
    <3>4. Allocated(q, req[q])
      BY DEF FlowInv
    <3>5. PICK c : c = req[q]
      OBVIOUS
    <3>6. Allocated(q, c)'
      BY <3>1, <3>2, <3>3, <3>4, <3>5 DEF Allocated
    <3>7. c = req'[q]
      BY <2>1, <3>5
    <3> QED
      BY <3>6, <3>7 DEF Allocated
  <2>3. ASSUME NEW m \in Levies, NEW u \in Units
        PROVE  share'[m][u] <= Terms[m].total
    <3>1. CASE m = l
      <4>1. share'[m] = Split(Terms[l].weights, Terms[l].total)
        BY <2>1, <3>1 DEF ReserveInv, TypeOK
      <4>2. Split(Terms[l].weights, Terms[l].total) \in [Units -> 0..Terms[l].total]
        BY SplitOwes
      <4>3. Terms[l].total \in Nat
        BY TermsAssumption
      <4> QED
        BY <3>1, <4>1, <4>2, <4>3
    <3>2. CASE m # l
      BY <2>1, <3>2 DEF ReserveInv, TypeOK, FlowInv
    <3> QED
      BY <3>1, <3>2
  <2> QED
    BY <2>2, <2>3 DEF FlowInv
<1> QED
  BY <1>1, <1>2, <1>3, <1>4, <1>5, <1>6, <1>7, FlowReads, FlowCollect DEF Next
-----------------------------------------------------------------------------
\* The sums of the abstract fund are the sums of this module.
LEMMA SameSum == ASSUME NEW f PROVE Ledger!SumFunction(f) = SumFunction(f)
  BY DEF SumFunction, SumFunctionOnSet, FoldFunctionOnSet, MapThenFoldSet,
         Ledger!SumFunction, Ledger!SumFunctionOnSet, Ledger!FoldFunctionOnSet,
         Ledger!MapThenFoldSet

\* What the commit of a collection adds to the fund it takes off the shares.
LEMMA CollectIsCollect ==
    ASSUME ReserveInv, FlowInv, NEW q \in Requests, CollectCommits(q)
    PROVE  \E l \in Levies : Ledger!Collect(l)
<1>1. PICK l : l = req[q].levy
  OBVIOUS
<1>2. PICK pays : pays = Taken(q, l)
  OBVIOUS
<1>3. /\ req[q] \in Call /\ req[q].step = "share" /\ req[q].left = 0
      /\ req[q].amount \in Nat \ {0} /\ l \in Levies
      /\ levy[l] \in {"ISSUED", "CLOSED"}
      /\ SumFunction(Taken(q, l)) + req[q].left = req[q].amount
  <2>1. req[q] \in Call /\ req[q].step = "share" /\ req[q].left = 0
    BY DEF CollectCommits, ReserveInv, TypeOK
  <2>2. Allocated(q, req[q]) /\ CallFacts(req[q])
    BY DEF FlowInv, ReserveInv, CallInv
  <2> QED
    BY <1>1, <2>1, <2>2, AmountsAssumption DEF Allocated, CallFacts, Collecting
<1>4. pays \in [Units -> Nat] /\ SumFunction(pays) = req[q].amount
  <2>1. /\ Taken(q, l) \in [Units -> Nat]
        /\ SumFunction(Taken(q, l)) \in Nat
    BY <1>3, TakenFact
  <2> QED
    BY <1>2, <1>3, <2>1
<1>5. ASSUME NEW u \in Units
      PROVE  /\ paid[l][u] \in Nat /\ share[l][u] \in Nat
             /\ hold[l][u].take \in Nat
             /\ pays[u] = IF hold[l][u].by = q THEN hold[l][u].take ELSE 0
             /\ paid[l][u] + pays[u] <= share[l][u]
             /\ share[l][u] <= Terms[l].total
             /\ levy[l] = "CLOSED" => hold[l][u].take = 0
  <2>1. /\ paid[l][u] \in Nat /\ share[l][u] \in Nat /\ hold[l][u].take \in Nat
        /\ paid[l][u] + hold[l][u].take <= share[l][u]
        /\ levy[l] = "CLOSED" => paid[l][u] = share[l][u]
        /\ share[l][u] <= Terms[l].total
    BY <1>3 DEF ReserveInv, TypeOK, NeverOverCollected, FlowInv
  <2>2. pays[u] = IF hold[l][u].by = q THEN hold[l][u].take ELSE 0
    BY <1>2 DEF Taken
  <2> QED
    BY <2>1, <2>2
<1>6. levy[l] = "ISSUED"
  <2>1. ASSUME levy[l] = "CLOSED" PROVE FALSE
    <3>1. \A u \in Units : hold[l][u].by = q => hold[l][u].take = 0
      BY <1>5, <2>1
    <3>2. SumFunction(Taken(q, l)) = 0
      BY <1>3, <3>1, TakenNothing
    <3> QED
      BY <1>2, <1>3, <1>4, <3>2
  <2> QED
    BY <1>3, <2>1
<1>7. pays \in [Units -> 0..Terms[l].total]
  <2>1. ASSUME NEW u \in Units PROVE pays[u] \in 0..Terms[l].total
    <3>1. Terms[l].total \in Nat /\ pays[u] \in Nat
      BY <1>3, <1>4, TermsAssumption
    <3> QED
      BY <1>5, <3>1
  <2> QED
    BY <1>4, <2>1
<1>8. paid' = [paid EXCEPT ![l] = [u \in Units |-> @[u] + pays[u]]]
  <2>1. ASSUME NEW m \in Levies, m # l, NEW u \in Units
        PROVE  hold[m][u].by # q
    BY <1>1, <2>1 DEF ReserveInv, TypeOK
  <2>2. paid' = [m \in Levies |-> [u \in Units |->
                  IF hold[m][u].by = q THEN paid[m][u] + hold[m][u].take
                  ELSE paid[m][u]]]
    BY DEF CollectCommits
  <2>3. paid \in [Levies -> [Units -> Nat]]
    BY DEF ReserveInv, TypeOK
  <2>4. PICK then : then = [u \in Units |-> paid[l][u] + pays[u]]
    OBVIOUS
  <2>5. ASSUME NEW m \in Levies PROVE paid'[m] = IF m = l THEN then ELSE paid[m]
    <3>1. CASE m = l
      <4>1. \A u \in Units :
              (IF hold[l][u].by = q THEN paid[l][u] + hold[l][u].take
               ELSE paid[l][u]) = paid[l][u] + pays[u]
        BY <1>5
      <4> QED
        BY <2>2, <2>4, <3>1, <4>1
    <3>2. CASE m # l
      <4>1. paid'[m] = [u \in Units |-> paid[m][u]]
        BY <2>1, <2>2, <3>2
      <4> QED
        BY <2>3, <3>2, <4>1
    <3> QED
      BY <3>1, <3>2
  <2>6. paid' = [paid EXCEPT ![l] = then]
    BY <2>2, <2>3, <2>5
  <2> QED
    BY <2>4, <2>6
<1>9. /\ fund'.balance = fund.balance + SumFunction(pays)
      /\ collected' = [collected EXCEPT ![l] = @ + SumFunction(pays)]
      /\ UNCHANGED <<cash, levy, share>>
  <2>1. fund \in [present : BOOLEAN, balance : Nat]
    BY DEF ReserveInv, TypeOK
  <2>2. /\ fund' = [fund EXCEPT !.balance = @ + req[q].amount]
        /\ collected' = [collected EXCEPT ![l] = @ + req[q].amount]
        /\ UNCHANGED <<cash, levy, share>>
    BY <1>1 DEF CollectCommits
  <2> QED
    BY <1>4, <2>1, <2>2
<1>10. \A u \in Units : paid[l][u] + pays[u] <= share[l][u]
  BY <1>5
<1> QED
  BY <1>3, <1>6, <1>7, <1>8, <1>9, <1>10, SameSum DEF Ledger!Collect

LedgerVars == <<fund.balance, cash, collected, levy, share, paid>>

\* Every other step is one of the abstract fund, or none of its business.
LEMMA StepIsStep ==
    ASSUME ReserveInv, FlowInv, Next
    PROVE  Ledger!Next \/ UNCHANGED LedgerVars
<1>1. fund \in [present : BOOLEAN, balance : Nat]
  BY DEF ReserveInv, TypeOK
<1>2. ASSUME NEW q \in Requests, DepositCommits(q) PROVE Ledger!Next
  <2>1. PICK cents \in Amounts : cents = req[q].amount
    BY <1>2 DEF DepositCommits, Ready, FlowInv, Allocated
  <2>2. Ledger!Deposit(cents)
    BY <1>1, <1>2, <2>1 DEF DepositCommits, Ledger!Deposit
  <2> QED
    BY <2>2 DEF Ledger!Next
<1>3. ASSUME NEW q \in Requests, DrawCommits(q) PROVE Ledger!Next
  <2>1. PICK cents \in Amounts : cents = req[q].amount
    BY <1>3 DEF DrawCommits, Ready, FlowInv, Allocated
  <2>2. cents <= fund.balance
    BY <1>1, <1>3, <2>1, AmountsAssumption DEF DrawCommits
  <2>3. Ledger!Draw(cents)
    BY <1>1, <1>3, <2>1, <2>2 DEF DrawCommits, Ledger!Draw
  <2> QED
    BY <2>3 DEF Ledger!Next
<1>4. ASSUME NEW q \in Requests, IssueClaims(q) \/ CloseClaims(q)
      PROVE  Ledger!Next \/ UNCHANGED LedgerVars
  <2>1. PICK l : l = req[q].levy
    OBVIOUS
  <2>2. /\ l \in Levies
        /\ levy \in [Levies -> {"NONE", "DRAFT", "ISSUED", "CLOSED"}]
        /\ paid \in [Levies -> [Units -> Nat]] /\ share \in [Levies -> [Units -> Nat]]
        /\ UNCHANGED <<fund, cash, collected, share, paid>>
    BY <1>4, <2>1 DEF IssueClaims, CloseClaims, ReserveInv, TypeOK, CallInv,
                      CallFacts, Collecting
  <2>3. CASE IssueClaims(q)
    <3>1. levy' = [levy EXCEPT ![l] = IF @ = "DRAFT" THEN "ISSUED" ELSE @]
      BY <2>1, <2>3 DEF IssueClaims
    <3>2. CASE levy[l] = "DRAFT"
      BY <2>2, <3>1, <3>2 DEF Ledger!Next, Ledger!Issue
    <3>3. CASE levy[l] # "DRAFT"
      BY <2>2, <3>1, <3>3 DEF LedgerVars
    <3> QED
      BY <3>2, <3>3
  <2>4. CASE CloseClaims(q)
    <3>1. /\ levy' = [levy EXCEPT ![l] = IF @ = "ISSUED" THEN "CLOSED" ELSE @]
          /\ \A u \in Units : paid[l][u] = share[l][u]
      BY <2>1, <2>4 DEF CloseClaims, ReserveInv, CallInv, CallFacts
    <3>2. paid[l] = share[l]
      BY <2>2, <3>1
    <3>3. CASE levy[l] = "ISSUED"
      BY <2>2, <3>1, <3>2, <3>3 DEF Ledger!Next, Ledger!Close
    <3>4. CASE levy[l] # "ISSUED"
      BY <2>2, <3>1, <3>4 DEF LedgerVars
    <3> QED
      BY <3>3, <3>4
  <2> QED
    BY <1>4, <2>3, <2>4
<1>5. ASSUME NEW l \in Levies, CreateLevy(l) PROVE Ledger!Next
  <2>1. PICK owed : owed = Split(Terms[l].weights, Terms[l].total)
    OBVIOUS
  <2>2. owed \in [Units -> 0..Terms[l].total] /\ SumFunction(owed) = Terms[l].total
    BY <2>1, SplitOwes
  <2>3. Ledger!Create(l)
    BY <1>5, <2>1, <2>2, SameSum DEF CreateLevy, Ledger!Create
  <2> QED
    BY <2>3 DEF Ledger!Next
<1>6. ASSUME NEW q \in Requests, CollectCommits(q) PROVE Ledger!Next
  BY <1>6, CollectIsCollect DEF Ledger!Next
<1>7. ASSUME NEW q \in Requests, CreateFund(q) PROVE UNCHANGED LedgerVars
  BY <1>1, <1>7 DEF CreateFund, LedgerVars
<1>8. ASSUME UNCHANGED books PROVE UNCHANGED LedgerVars
  BY <1>8 DEF books, LedgerVars
<1>9. ASSUME NEW q \in Requests,
             \/ DrawRefused(q)
             \/ CollectReads(q) \/ CollectRefused(q)
             \/ CollectShare(q) \/ CollectFresh(q) \/ CollectRetry(q)
             \/ CollectConflict(q) \/ CollectExceeds(q) \/ Aborts(q)
             \/ \E l \in Levies : IssueReads(q, l) \/ CloseReads(q, l)
             \/ \E op, l, u, cents : Start(q, op, l, u, cents)
      PROVE  UNCHANGED books
  BY <1>9 DEF DrawRefused, CollectReads, CollectRefused, CollectShare,
              CollectFresh, CollectRetry, CollectConflict, CollectExceeds, Aborts,
              Rollback, IssueReads, CloseReads, Start
<1> QED
  BY <1>2, <1>3, <1>4, <1>5, <1>6, <1>7, <1>8, <1>9 DEF Next

\* The transactions, share by share, implement the abstract fund: a collection
\* is one step that adds to the fund what it takes off the shares, every change of
\* the balance has its row, and a levy is closed with all of it paid (collectLevy,
\* contribute, drawdown, createLevy, issueLevy, closeLevy).
THEOREM ImplementsLedger == Spec => LedgerSpec
<1>1. Init => Ledger!Init
  BY DEF Init, Ledger!Init, NoShares
<1>2. ReserveInv /\ FlowInv /\ [Next]_vars
        => [Ledger!Next]_<<fund.balance, cash, collected, levy, share, paid>>
  <2>1. UNCHANGED vars => UNCHANGED LedgerVars
    BY DEF vars, LedgerVars
  <2> QED
    BY <2>1, StepIsStep DEF LedgerVars
<1>3. Spec => []FlowInv
  BY InitFlow, NextFlow, Invariance, PTL DEF Spec
<1> QED
  BY <1>1, <1>2, <1>3, Invariance, PTL DEF Spec, LedgerSpec, Ledger!Spec
=============================================================================

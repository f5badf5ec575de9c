------------------------- MODULE PaymentPlansProofs -------------------------
(***************************************************************************)
(* Proofs about PaymentPlans for any invoices, plans, amounts and requests: *)
(* rows keep their shape, a request answered with success has its payment,  *)
(* and the ledgers agree. The last rests on a high-water mark: a request    *)
(* that has read an installment before others were recorded may set it      *)
(* back, but what an installment has ever shown, summed over the plan, is   *)
(* covered by the plan's payments.                                          *)
(***************************************************************************)
EXTENDS MCPaymentPlans, SumTheorems

LEMMA SeqsFact == Count \in Nat /\ Count >= 1 /\ Seqs \in SUBSET Nat /\ IsFiniteSet(Seqs)
  BY CountAssumption, FS_Interval DEF Seqs

LEMMA LeastFact ==
    \A a, b \in Nat : /\ Least(a, b) \in Nat /\ Least(a, b) <= a /\ Least(a, b) <= b
                      /\ Least(a, b) \in {a, b} /\ Over(a, b) \in Nat
                      /\ (b <= a => Over(a, b) = a - b) /\ (a <= b => Over(a, b) = 0)
  BY DEF Least, Over

Before(D, n) == {j \in D : j < n}

\* Oldest first, no need gets more than it is, and together they get all of the
\* amount that they need.
LEMMA OldestFirstSum ==
    ASSUME NEW need, NEW D \in SUBSET Nat, IsFiniteSet(D), need \in [D -> Nat],
           NEW amount \in Nat
    PROVE  /\ OldestFirst(need, amount) \in [D -> Nat]
           /\ \A k \in D : OldestFirst(need, amount)[k] <= need[k]
           /\ SumFunction(OldestFirst(need, amount))
                = Least(amount, SumFunction(need))
<1> DEFINE s(n) == SumFunctionOnSet(need, Before(D, n))
           given == OldestFirst(need, amount)
           t(n) == SumFunctionOnSet(given, Before(D, n))
           Ns == {n \in Nat : t(n) = Least(amount, s(n))}
<1>1. \A k \in D : k \in Nat /\ need[k] \in Nat
  OBVIOUS
<1>2. \A n : Before(D, n) \in SUBSET D /\ IsFiniteSet(Before(D, n))
  BY FS_Subset DEF Before
<1>3. ASSUME NEW n PROVE s(n) \in Nat
  <2>1. \A k \in Before(D, n) : need[k] \in Nat
    BY DEF Before
  <2> QED
    BY <1>2, <2>1, SumNat
<1>4. \A k \in D : given[k] = Least(need[k], Over(amount, s(k)))
  BY DEF OldestFirst, Before
<1>5. DOMAIN given = D /\ given = [k \in D |-> given[k]]
  BY DEF OldestFirst
<1> HIDE DEF given, s
<1>6. \A k \in D : given[k] \in Nat /\ given[k] <= need[k]
  <2> SUFFICES ASSUME NEW k \in D PROVE given[k] \in Nat /\ given[k] <= need[k]
    OBVIOUS
  <2>1. need[k] \in Nat /\ Over(amount, s(k)) \in Nat
    BY <1>1, <1>3, LeastFact
  <2> QED
    BY <1>4, <2>1, LeastFact
<1>7. given \in [D -> Nat]
  BY <1>5, <1>6
<1>8. (\A k \in D : given[k] \in Int) /\ (\A k \in D : need[k] \in Int)
  BY <1>6
<1>9. 0 \in Ns
  <2>1. Before(D, 0) = {}
    <3>1. ASSUME NEW k \in D PROVE ~ (k < 0)
      BY <1>1
    <3> QED
      BY <3>1 DEF Before
  <2>2. s(0) = 0 /\ t(0) = 0
    BY <2>1, SumEmpty DEF s
  <2> QED
    BY <2>2 DEF Least
<1>10. ASSUME NEW n \in Ns PROVE n + 1 \in Ns
  <2>1. n \in Nat /\ ~ (n < n) /\ n < n + 1 /\ t(n) = Least(amount, s(n))
    OBVIOUS
  <2>2. CASE n \notin D
    <3>1. Before(D, n + 1) = Before(D, n)
      <4>1. ASSUME NEW k \in D PROVE k < n + 1 <=> k < n
        BY <1>1, <2>2
      <4> QED
        BY <4>1 DEF Before
    <3> QED
      BY <3>1 DEF s
  <2>3. CASE n \in D
    <3>1. /\ n \in Before(D, n + 1) /\ Before(D, n + 1) \in SUBSET D
          /\ Before(D, n + 1) \ {n} = Before(D, n)
      <4>1. ASSUME NEW k \in D PROVE k < n + 1 <=> k < n \/ k = n
        BY <1>1
      <4> QED
        BY <2>1, <2>3, <4>1 DEF Before
    <3>2. s(n + 1) = need[n] + s(n)
      <4>1. PICK E, B, y : E = D /\ B = Before(D, n + 1) /\ y = n
        OBVIOUS
      <4>2. /\ IsFiniteSet(E) /\ B \in SUBSET E /\ y \in B
            /\ \A k \in E : need[k] \in Int
        BY <1>8, <3>1, <4>1
      <4>3. SumFunctionOnSet(need, B) = need[y] + SumFunctionOnSet(need, B \ {y})
        BY <4>2, SumOf
      <4> QED
        BY <3>1, <4>1, <4>3 DEF s
    <3>3. t(n + 1) = given[n] + t(n)
      <4>1. PICK E, B, y : E = D /\ B = Before(D, n + 1) /\ y = n
        OBVIOUS
      <4>2. /\ IsFiniteSet(E) /\ B \in SUBSET E /\ y \in B
            /\ \A k \in E : given[k] \in Int
        BY <1>8, <3>1, <4>1
      <4>3. SumFunctionOnSet(given, B) = given[y] + SumFunctionOnSet(given, B \ {y})
        BY <4>2, SumOf
      <4> QED
        BY <3>1, <4>1, <4>3
    <3>4. given[n] = Least(need[n], Over(amount, s(n))) /\ t(n) = Least(amount, s(n))
      BY <1>4, <2>1, <2>3
    <3>5. need[n] \in Nat /\ s(n) \in Nat
      BY <1>3, <2>3
    <3>6. \A a, b, c \in Nat :
            Least(b, Over(a, c)) + Least(a, c) = Least(a, b + c)
      BY DEF Least, Over
    <3>7. t(n + 1) = Least(amount, s(n + 1))
      <4> HIDE DEF t
      <4>1. t(n + 1) = Least(need[n], Over(amount, s(n))) + Least(amount, s(n))
        BY <3>3, <3>4
      <4>2. Least(need[n], Over(amount, s(n))) + Least(amount, s(n))
              = Least(amount, need[n] + s(n))
        BY <3>5, <3>6
      <4> QED
        BY <3>2, <4>1, <4>2
    <3> QED
      BY <3>7
  <2> QED
    BY <2>2, <2>3
<1>11. PICK n \in Nat : \A k \in D : k < n
  BY Bounded
<1>12. n \in Ns
  <2> HIDE DEF Ns
  <2>1. Ns \in SUBSET Nat
    BY DEF Ns
  <2> QED
    BY <1>9, <1>10, <2>1, EveryNumber
<1>13. Before(D, n) = D
  BY <1>11 DEF Before
<1>14. SumFunction(given) = Least(amount, SumFunction(need))
  <2>1. SumFunctionOnSet(given, D) = Least(amount, SumFunctionOnSet(need, D))
    BY <1>12, <1>13 DEF s
  <2> QED
    BY <1>5, <2>1 DEF SumFunction
<1> QED
  BY <1>6, <1>7, <1>14 DEF given
-----------------------------------------------------------------------------
(***************************************************************************)
(* The invariant                                                            *)
(***************************************************************************)
Statuses == {"NONE", "ACTIVE", "COMPLETED", "CANCELLED"}

CreateCall == [step : {"create"}, plan : Plans, total : Nat]
CheckCall == [step : {"check"}, plan : Plans, amount : Amounts, ref : PlanRefs,
              status : Statuses, got : [Seqs -> Nat]]
CommitCall == [step : {"commit"}, plan : Plans, ref : PlanRefs,
               share : [Invoices -> Nat], settles : SUBSET Invoices,
               got : UNION {[S -> Nat] : S \in SUBSET Seqs}, completes : BOOLEAN]
CancelCall == [step : {"cancel"}, plan : Plans]
Calls == {Idle} \cup CreateCall \cup CheckCall \cup CommitCall \cup CancelCall

RowsInv ==
    /\ paid \in [Invoices -> Nat]
    /\ invStatus \in [Invoices -> {"PENDING", "PAID"}]
    /\ DOMAIN payment \in SUBSET PaymentRefs /\ IsFiniteSet(DOMAIN payment)
    /\ \A ref \in DOMAIN payment :
          payment[ref] \in [invoice : Invoices, amount : Nat \ {0}]
    /\ plan \in [Plans -> PlanRow]
    /\ req \in [Requests -> Calls]
    /\ answered \in SUBSET PlanRefs

\* What a request carries: the reference is of its plan, and what it is about to
\* write gives some invoice some of the amount.
CallFacts(q) ==
    /\ q.step \in {"check", "commit"} => q.ref[1] = q.plan
    /\ q.step = "commit" => \E i \in Invoices : q.share[i] > 0

Of(i) == {ref \in DOMAIN payment : payment[ref].invoice = i}

PaidInv == \A i \in Invoices : paid[i] = SumOfPayments(Of(i))

\* The installments to be written exceed those of a mark by no more than what
\* the invoices are given.
Within(q, mark) ==
    \E fill \in [Seqs -> Nat] :
        /\ SumFunction(fill) <= SumFunction(q.share)
        /\ \A k \in DOMAIN q.got : q.got[k] <= mark[k] + fill[k]

\* What an installment has ever shown, and what a request has read of it, is at
\* most its high-water mark, and the payments of a plan cover its marks.
HighWater(high) ==
    /\ high \in [Plans -> [Seqs -> Nat]]
    /\ \A p \in Plans :
          /\ SumFunction(high[p]) <= SumOfPayments(PaymentsOf(p))
          /\ \A k \in Seqs : plan[p].got[k] <= high[p][k]
    /\ \A r \in Requests :
          /\ req[r].step = "check" =>
                \A k \in Seqs : req[r].got[k] <= high[req[r].plan][k]
          /\ req[r].step = "commit" => Within(req[r], high[req[r].plan])

PlansInv ==
    /\ RowsInv
    /\ \A r \in Requests : CallFacts(req[r])
    /\ AnsweredIsRecorded
    /\ PaidInv
    /\ \E high : HighWater(high)

\* The sum of the payments of a table.
LEMMA AmountsSum ==
    ASSUME NEW table, NEW f, NEW R, IsFiniteSet(R),
           \A ref \in R : f[ref] = table[ref].amount /\ f[ref] \in Int
    PROVE  SumFunction([ref \in R |-> table[ref].amount]) = SumFunctionOnSet(f, R)
<1> DEFINE g == [ref \in R |-> table[ref].amount]
<1>1. \A ref \in R : f[ref] \in Int /\ g[ref] = f[ref]
  OBVIOUS
<1>2. SumFunction(g) = SumFunctionOnSet(g, R)
  BY DEF SumFunction
<1> HIDE DEF g
<1>3. SumFunctionOnSet(g, R) = SumFunctionOnSet(f, R)
  BY <1>1, SumSame
<1> QED
  BY <1>2, <1>3 DEF g

LEMMA SumZero ==
    ASSUME NEW S, IsFiniteSet(S), NEW f, \A x \in S : f[x] = 0
    PROVE  SumFunctionOnSet(f, S) = 0
<1>1. \A x \in S : f[x] \in Nat /\ f[x] \in Int /\ f[x] = 0 * f[x]
  OBVIOUS
<1>2. SumFunctionOnSet(f, S) \in Nat
  BY <1>1, SumNat
<1>3. 0 \in Int
  OBVIOUS
<1>4. SumFunctionOnSet(f, S) = 0 * SumFunctionOnSet(f, S)
  BY <1>1, <1>3, SumTimes
<1> QED
  BY <1>2, <1>4

LEMMA SumOne ==
    ASSUME NEW f, NEW x, f[x] \in Int
    PROVE  SumFunctionOnSet(f, {x}) = f[x]
<1>1. IsFiniteSet({x}) /\ {x} \ {x} = {} /\ \A y \in {x} : f[y] \in Int
  BY FS_Singleton
<1>2. SumFunctionOnSet(f, {x}) = f[x] + SumFunctionOnSet(f, {x} \ {x})
  BY <1>1, SumRemove
<1> QED
  BY <1>1, <1>2, SumEmpty

LEMMA MarksSum ==
    ASSUME NEW mark \in [Seqs -> Nat]
    PROVE  SumFunction(mark) \in Nat
<1>1. IsFiniteSet(Seqs) /\ DOMAIN mark = Seqs /\ \A k \in Seqs : mark[k] \in Nat
  BY SeqsFact
<1> QED
  BY <1>1, SumNat DEF SumFunction

LEMMA MarksPlus ==
    ASSUME NEW f \in [Seqs -> Nat], NEW g \in [Seqs -> Nat], NEW h, DOMAIN h = Seqs,
           \A k \in Seqs : h[k] = f[k] + g[k]
    PROVE  SumFunction(h) = SumFunction(f) + SumFunction(g)
<1>1. PICK D : D = Seqs
  OBVIOUS
<1>2. /\ IsFiniteSet(D)
      /\ \A k \in D : f[k] \in Int /\ g[k] \in Int /\ h[k] = f[k] + g[k]
  BY <1>1, SeqsFact
<1>3. SumFunctionOnSet(h, D) = SumFunctionOnSet(f, D) + SumFunctionOnSet(g, D)
  BY <1>2, SumPlus
<1> QED
  BY <1>1, <1>3 DEF SumFunction

LEMMA PaymentsSum ==
    ASSUME RowsInv, NEW p
    PROVE  SumOfPayments(PaymentsOf(p)) \in Nat
<1>1. PICK R : R = PaymentsOf(p)
  OBVIOUS
<1>2. R \in SUBSET DOMAIN payment /\ IsFiniteSet(R)
  BY <1>1, FS_Subset DEF PaymentsOf, RowsInv
<1>3. PICK f : f = [ref \in R |-> payment[ref].amount]
  OBVIOUS
<1>4. DOMAIN f = R /\ \A ref \in R : f[ref] \in Nat
  BY <1>2, <1>3 DEF RowsInv
<1>5. SumFunctionOnSet(f, R) \in Nat
  BY <1>2, <1>4, SumNat
<1> QED
  BY <1>1, <1>3, <1>4, <1>5 DEF SumOfPayments, SumFunction

LEMMA InitInv == Init => PlansInv
<1> SUFFICES ASSUME Init PROVE PlansInv
  OBVIOUS
<1>1. DOMAIN payment = {} /\ IsFiniteSet(DOMAIN payment)
  BY FS_EmptySet DEF Init
<1>2. \A r \in Requests : req[r] = Idle /\ req[r].step = "idle"
  BY DEF Init, Idle
<1>3. plan \in [Plans -> PlanRow] /\ \A p \in Plans, k \in Seqs : plan[p].got[k] = 0
  BY DEF Init, NoPlan, PlanRow
<1>4. RowsInv
  BY <1>1, <1>3 DEF Init, RowsInv, Calls
<1>5. \A r \in Requests : CallFacts(req[r])
  BY <1>2 DEF CallFacts
<1>6. \A R \in SUBSET DOMAIN payment : SumOfPayments(R) = 0
  <2>1. SumOfPayments({}) = 0
    BY SumEmpty DEF SumOfPayments, SumFunction
  <2> QED
    BY <1>1, <2>1
<1>7. PaidInv
  BY <1>6 DEF Init, PaidInv, Of
<1>8. HighWater([p \in Plans |-> [k \in Seqs |-> 0]])
  <2> DEFINE zero == [k \in Seqs |-> 0]
             high == [p \in Plans |-> zero]
  <2>1. SumFunction(zero) = 0
    <3>1. SumFunctionOnSet(zero, Seqs) = 0
      BY SeqsFact, SumZero
    <3> QED
      BY <3>1 DEF SumFunction
  <2>2. \A p \in Plans : SumOfPayments(PaymentsOf(p)) = 0
    BY <1>6 DEF PaymentsOf
  <2>3. /\ high \in [Plans -> [Seqs -> Nat]]
        /\ \A p \in Plans : high[p] = zero
        /\ \A p \in Plans, k \in Seqs : high[p][k] = 0
    OBVIOUS
  <2> HIDE DEF high, zero
  <2>4. HighWater(high)
    BY <1>2, <1>3, <2>1, <2>2, <2>3 DEF HighWater
  <2> QED
    BY <2>4 DEF high, zero
<1> QED
  BY <1>4, <1>5, <1>7, <1>8 DEF PlansInv, Init, AnsweredIsRecorded
-----------------------------------------------------------------------------
\* Requests have the shape their step says.
LEMMA CallShape ==
    ASSUME RowsInv, NEW r \in Requests
    PROVE  /\ req[r] \in Calls
           /\ req[r].step = "create" => req[r] \in CreateCall
           /\ req[r].step = "check" => req[r] \in CheckCall
           /\ req[r].step = "commit" => req[r] \in CommitCall
           /\ req[r].step = "cancel" => req[r] \in CancelCall
           /\ req[r].step \in {"idle", "create", "check", "commit", "cancel"}
  BY DEF RowsInv, Calls, CreateCall, CheckCall, CommitCall, CancelCall, Idle

\* A step of one request that records no payment and sets no installment
\* forward.
LEMMA QuietStep ==
    ASSUME PlansInv, NEW r \in Requests, NEW c \in Calls,
           req' = [req EXCEPT ![r] = c], CallFacts(c),
           UNCHANGED <<paid, invStatus, payment>>,
           plan' \in [Plans -> PlanRow],
           \A p \in Plans, k \in Seqs : plan'[p].got[k] <= plan[p].got[k],
           answered' \in SUBSET PlanRefs, \A ref \in answered' : Recorded(ref),
           c.step = "check" => \A k \in Seqs : c.got[k] <= plan[c.plan].got[k],
           c.step = "check" => c \in CheckCall,
           c.step = "commit" =>
              /\ req[r].step = "check" /\ req[r].plan = c.plan
              /\ Within(c, req[r].got)
    PROVE  PlansInv'
<1>1. \A q \in Requests : req'[q] = IF q = r THEN c ELSE req[q]
  BY DEF PlansInv, RowsInv
<1>2. RowsInv'
  <2>1. req' \in [Requests -> Calls]
    BY DEF PlansInv, RowsInv
  <2> QED
    BY <2>1 DEF PlansInv, RowsInv
<1>3. \A q \in Requests : CallFacts(req[q])'
  BY <1>1 DEF PlansInv, CallFacts
<1>4. AnsweredIsRecorded' /\ PaidInv'
  BY DEF PlansInv, AnsweredIsRecorded, Recorded, PaidInv, Of, SumOfPayments
<1>5. PICK high : HighWater(high)
  BY DEF PlansInv
<1>6. /\ high \in [Plans -> [Seqs -> Nat]]
      /\ \A p \in Plans : SumFunction(high[p]) <= SumOfPayments(PaymentsOf(p))
      /\ \A p \in Plans, k \in Seqs : plan[p].got[k] <= high[p][k]
  BY <1>5 DEF HighWater
<1>7. ASSUME NEW p \in Plans, NEW k \in Seqs
      PROVE  plan'[p].got[k] <= high[p][k]
  <2>1. plan'[p].got[k] \in Nat /\ plan[p].got[k] \in Nat /\ high[p][k] \in Nat
    BY <1>6 DEF PlansInv, RowsInv, PlanRow
  <2>2. plan'[p].got[k] <= plan[p].got[k] /\ plan[p].got[k] <= high[p][k]
    BY <1>6
  <2> QED
    BY <2>1, <2>2
<1>8. ASSUME NEW k \in Seqs, c.step = "check"
      PROVE  c.got[k] <= high[c.plan][k]
  <2>1. c.plan \in Plans /\ c.got[k] \in Nat
    BY <1>8 DEF CheckCall
  <2>2. plan[c.plan].got[k] \in Nat /\ high[c.plan][k] \in Nat
    BY <1>6, <2>1 DEF PlansInv, RowsInv, PlanRow
  <2>3. c.got[k] <= plan[c.plan].got[k] /\ plan[c.plan].got[k] <= high[c.plan][k]
    BY <1>6, <1>8, <2>1
  <2> QED
    BY <2>1, <2>2, <2>3
<1>9. ASSUME c.step = "commit" PROVE Within(c, high[c.plan])
  <2>1. /\ req[r] \in CheckCall /\ req[r].plan = c.plan
        /\ c \in CommitCall /\ Within(c, req[r].got)
        /\ \A k \in Seqs : req[r].got[k] <= high[c.plan][k]
    BY <1>5, <1>9, CallShape
       DEF PlansInv, HighWater, Calls, CreateCall, CheckCall, CommitCall, CancelCall,
           Idle
  <2>2. PICK fill \in [Seqs -> Nat] :
          /\ SumFunction(fill) <= SumFunction(c.share)
          /\ \A k \in DOMAIN c.got : c.got[k] <= req[r].got[k] + fill[k]
    BY <2>1 DEF Within
  <2>3. ASSUME NEW k \in DOMAIN c.got
        PROVE  c.got[k] <= high[c.plan][k] + fill[k]
    <3>1. k \in Seqs /\ c.got[k] \in Nat
      BY <2>1 DEF CommitCall
    <3>2. /\ high[c.plan][k] \in Nat /\ req[r].got[k] \in Nat /\ fill[k] \in Nat
          /\ req[r].got[k] <= high[c.plan][k]
      BY <1>6, <2>1, <3>1 DEF CheckCall
    <3>3. c.got[k] <= req[r].got[k] + fill[k]
      BY <2>2
    <3> QED
      BY <3>1, <3>2, <3>3
  <2> QED
    BY <2>2, <2>3 DEF Within
<1>10. ASSUME NEW p \in Plans
       PROVE  SumFunction(high[p]) <= SumOfPayments(PaymentsOf(p))'
  BY <1>6 DEF SumOfPayments, PaymentsOf
<1>11. ASSUME NEW q \in Requests
       PROVE  /\ req'[q].step = "check" =>
                    \A k \in Seqs : req'[q].got[k] <= high[req'[q].plan][k]
              /\ req'[q].step = "commit" => Within(req'[q], high[req'[q].plan])
  <2>1. CASE q = r
    BY <1>1, <1>8, <1>9, <2>1
  <2>2. CASE q # r
    BY <1>1, <1>5, <2>2 DEF HighWater
  <2> QED
    BY <2>1, <2>2
<1>12. HighWater(high)'
  BY <1>6, <1>7, <1>10, <1>11 DEF HighWater, Within
<1> QED
  BY <1>2, <1>3, <1>4, <1>12 DEF PlansInv

\* A request that ends without a payment.
LEMMA EndStep ==
    ASSUME PlansInv, NEW r \in Requests, Goto(r, Idle),
           UNCHANGED <<paid, invStatus, payment>>,
           plan' \in [Plans -> PlanRow],
           \A p \in Plans, k \in Seqs : plan'[p].got[k] <= plan[p].got[k],
           answered' \in SUBSET PlanRefs, \A ref \in answered' : Recorded(ref)
    PROVE  PlansInv'
<1>1. Idle \in Calls /\ Idle.step = "idle"
  BY DEF Calls, Idle
<1>2. CallFacts(Idle)
  BY <1>1 DEF CallFacts
<1>3. req' = [req EXCEPT ![r] = Idle]
  BY DEF Goto
<1> QED
  BY <1>1, <1>2, <1>3, QuietStep

\* A step that leaves plans and payments as they are.
LEMMA RowsKept ==
    ASSUME PlansInv, UNCHANGED rows
    PROVE  /\ UNCHANGED <<paid, invStatus, payment>>
           /\ plan' \in [Plans -> PlanRow]
           /\ \A p \in Plans, k \in Seqs : plan'[p].got[k] <= plan[p].got[k]
<1>1. UNCHANGED <<paid, invStatus, payment, plan>>
  BY DEF rows
<1>2. plan \in [Plans -> PlanRow]
  BY DEF PlansInv, RowsInv
<1>3. \A p \in Plans, k \in Seqs : plan[p].got[k] \in Nat
  BY <1>2 DEF PlanRow
<1> QED
  BY <1>1, <1>2, <1>3

LEMMA AnsweredFact ==
    PlansInv => answered \in SUBSET PlanRefs /\ \A ref \in answered : Recorded(ref)
  BY DEF PlansInv, RowsInv, AnsweredIsRecorded
-----------------------------------------------------------------------------
LEMMA SplitIntoInstallmentsType ==
    ASSUME NEW total \in Nat
    PROVE  SplitIntoInstallments(total) \in [Seqs -> Nat]
<1>1. total \div Count \in Nat /\ (total % Count) \in Nat
  BY SeqsFact, CountAssumption
<1> QED
  BY <1>1 DEF SplitIntoInstallments

LEMMA ArrearsType == PlansInv => Arrears \in Nat
<1> SUFFICES ASSUME PlansInv PROVE Arrears \in Nat
  OBVIOUS
<1> DEFINE f == [i \in Invoices |-> Over(Total[i], paid[i])]
<1>1. \A i \in Invoices : f[i] \in Nat
  BY InvoicesAssumption, LeastFact DEF PlansInv, RowsInv
<1>2. Arrears = SumFunctionOnSet(f, Invoices)
  BY DEF Arrears, SumFunction
<1> HIDE DEF f
<1> QED
  BY <1>1, <1>2, InvoicesAssumption, SumNat

LEMMA CreateInv ==
    ASSUME PlansInv, NEW r \in Requests, Create(r)
    PROVE  PlansInv'
<1>1. ASSUME NEW p \in Plans, NEW total \in PlanTotals \cup {Arrears},
             CreateRead(r, p, total)
      PROVE  PlansInv'
  <2>1. PICK c : c = [step |-> "create", plan |-> p, total |-> total]
    OBVIOUS
  <2>2. total \in Nat
    BY ArrearsType, MoneyAssumption
  <2>3. c \in Calls /\ c.step = "create"
    BY <2>1, <2>2 DEF Calls, CreateCall
  <2>4. /\ req' = [req EXCEPT ![r] = c] /\ UNCHANGED rows /\ answered' = answered
    BY <1>1, <2>1 DEF CreateRead, Goto
  <2>5. CallFacts(c)
    BY <2>3 DEF CallFacts
  <2>6. answered' \in SUBSET PlanRefs /\ \A ref \in answered' : Recorded(ref)
    BY <2>4, AnsweredFact
  <2> QED
    BY <2>3, <2>4, <2>5, <2>6, RowsKept, QuietStep
<1>2. CASE CreateInsert(r)
  <2>1. PICK p, row :
          /\ p = req[r].plan
          /\ row = [status |-> "ACTIVE", due |-> SplitIntoInstallments(req[r].total),
                    got |-> [k \in Seqs |-> 0]]
    OBVIOUS
  <2>2. req[r] \in CreateCall
    BY <1>2, CallShape DEF CreateInsert, PlansInv
  <2>3. row \in PlanRow /\ p \in Plans
    BY <2>1, <2>2, SplitIntoInstallmentsType DEF CreateCall, PlanRow
  <2>4. /\ plan' = [plan EXCEPT ![p] = row] /\ Goto(r, Idle)
        /\ UNCHANGED <<paid, invStatus, payment, answered>>
    BY <1>2, <2>1 DEF CreateInsert
  <2>5. plan \in [Plans -> PlanRow]
    BY DEF PlansInv, RowsInv
  <2>6. plan' \in [Plans -> PlanRow]
    BY <2>3, <2>4, <2>5
  <2>7. \A o \in Plans, k \in Seqs : plan'[o].got[k] <= plan[o].got[k]
    <3> SUFFICES ASSUME NEW o \in Plans, NEW k \in Seqs
                 PROVE  plan'[o].got[k] <= plan[o].got[k]
      OBVIOUS
    <3>1. plan[o].got[k] \in Nat /\ row.got[k] = 0
      BY <2>1, <2>5 DEF PlanRow
    <3>2. plan'[o] = IF o = p THEN row ELSE plan[o]
      BY <2>4, <2>5
    <3> QED
      BY <3>1, <3>2
  <2>8. answered' \in SUBSET PlanRefs /\ \A ref \in answered' : Recorded(ref)
    BY <2>4, AnsweredFact
  <2> QED
    BY <2>4, <2>6, <2>7, <2>8, EndStep
<1> QED
  BY <1>1, <1>2 DEF Create

LEMMA CancelInv ==
    ASSUME PlansInv, NEW r \in Requests, Cancel(r)
    PROVE  PlansInv'
<1>1. ASSUME NEW p \in Plans, CancelRead(r, p) PROVE PlansInv'
  <2>1. PICK c : c = [step |-> "cancel", plan |-> p]
    OBVIOUS
  <2>2. c \in Calls /\ c.step = "cancel"
    BY <2>1 DEF Calls, CancelCall
  <2>3. req' = [req EXCEPT ![r] = c] /\ UNCHANGED rows /\ answered' = answered
    BY <1>1, <2>1 DEF CancelRead, Goto
  <2>4. CallFacts(c)
    BY <2>2 DEF CallFacts
  <2>5. answered' \in SUBSET PlanRefs /\ \A ref \in answered' : Recorded(ref)
    BY <2>3, AnsweredFact
  <2> QED
    BY <2>2, <2>3, <2>4, <2>5, RowsKept, QuietStep
<1>2. CASE CancelWrite(r)
  <2>1. PICK p : p = req[r].plan
    OBVIOUS
  <2>2. /\ plan' = [plan EXCEPT ![p].status = "CANCELLED"] /\ Goto(r, Idle)
        /\ UNCHANGED <<paid, invStatus, payment, answered>>
    BY <1>2, <2>1 DEF CancelWrite
  <2>3. plan \in [Plans -> PlanRow]
    BY DEF PlansInv, RowsInv
  <2>4. plan' \in [Plans -> PlanRow]
    BY <2>2, <2>3 DEF PlanRow
  <2>5. \A o \in Plans, k \in Seqs : plan'[o].got[k] <= plan[o].got[k]
    <3> SUFFICES ASSUME NEW o \in Plans, NEW k \in Seqs
                 PROVE  plan'[o].got[k] <= plan[o].got[k]
      OBVIOUS
    <3>1. plan[o].got[k] \in Nat /\ plan'[o].got = plan[o].got
      BY <2>2, <2>3 DEF PlanRow
    <3> QED
      BY <3>1
  <2>6. answered' \in SUBSET PlanRefs /\ \A ref \in answered' : Recorded(ref)
    BY <2>2, AnsweredFact
  <2> QED
    BY <2>2, <2>4, <2>5, <2>6, EndStep
<1> QED
  BY <1>1, <1>2 DEF Cancel
-----------------------------------------------------------------------------
LEMMA RecordReadInv ==
    ASSUME PlansInv, NEW r \in Requests, NEW p \in Plans, NEW amount \in Amounts,
           NEW key \in Keys \cup {NoKey}, RecordRead(r, p, amount, key)
    PROVE  PlansInv'
<1>1. PICK ref : ref = Reference(p, amount, key)
  OBVIOUS
<1>2. ref \in PlanRefs /\ ref[1] = p
  BY <1>1, NoKeyAssumption DEF Reference, PlanRefs
<1>3. PICK c : c = [step |-> "check", plan |-> p, amount |-> amount, ref |-> ref,
                    status |-> plan[p].status, got |-> plan[p].got]
  OBVIOUS
<1>4. plan[p] \in PlanRow
  BY DEF PlansInv, RowsInv
<1>5. c \in CheckCall
  BY <1>2, <1>3, <1>4 DEF CheckCall, PlanRow, Statuses
<1>6. c \in Calls /\ c.step = "check" /\ CallFacts(c)
  BY <1>2, <1>3, <1>5 DEF Calls, CallFacts
<1>7. req' = [req EXCEPT ![r] = c] /\ UNCHANGED rows /\ answered' = answered
  BY <1>1, <1>3 DEF RecordRead, Goto
<1>8. \A k \in Seqs : c.got[k] <= plan[c.plan].got[k]
  <2>1. c.got = plan[p].got /\ c.plan = p
    BY <1>3
  <2>2. \A k \in Seqs : plan[p].got[k] \in Nat
    BY <1>4 DEF PlanRow
  <2> QED
    BY <2>1, <2>2
<1>9. answered' \in SUBSET PlanRefs /\ \A other \in answered' : Recorded(other)
  BY <1>7, AnsweredFact
<1> QED
  BY <1>5, <1>6, <1>7, <1>8, <1>9, RowsKept, QuietStep

LEMMA RecordEndsInv ==
    ASSUME PlansInv, NEW r \in Requests,
           \/ RecordReplay(r) \/ RecordRefused(r)
           \/ RecordDuplicate(r) \/ RecordAborts(r)
    PROVE  PlansInv'
<1>1. Goto(r, Idle) /\ UNCHANGED rows
  BY DEF RecordReplay, RecordRefused, RecordDuplicate, RecordAborts
<1>2. /\ req[r].step \in {"check", "commit"}
      /\ answered' = answered \/ /\ answered' = answered \cup {req[r].ref}
                                 /\ Recorded(req[r].ref)
  BY DEF RecordReplay, RecordRefused, RecordDuplicate, RecordAborts
<1>3. req[r].ref \in PlanRefs
  BY <1>2, CallShape DEF PlansInv, CheckCall, CommitCall
<1>4. answered' \in SUBSET PlanRefs /\ \A ref \in answered' : Recorded(ref)
  BY <1>2, <1>3, AnsweredFact
<1> QED
  BY <1>1, <1>4, RowsKept, EndStep

\* What a payment is split into: over the invoices and over the installments it
\* is the same amount, though the two are read at different times.
LEMMA RecordPrepareInv ==
    ASSUME PlansInv, NEW r \in Requests, RecordPrepare(r)
    PROVE  PlansInv'
<1>1. PICK q : q = req[r]
  OBVIOUS
<1>2. /\ q \in CheckCall /\ q.step = "check" /\ Payable(q) /\ CallFacts(q)
  BY <1>1, CallShape DEF RecordPrepare, PlansInv
<1>3. /\ q.plan \in Plans /\ q.amount \in Nat \ {0} /\ q.ref \in PlanRefs
      /\ q.got \in [Seqs -> Nat] /\ q.ref[1] = q.plan
  BY <1>2, MoneyAssumption DEF CheckCall, CallFacts
<1>4. PICK open, due, share, fill :
        /\ open = OpenBalance /\ due = Remaining(q.plan, q.got)
        /\ share = OldestFirst(open, q.amount) /\ fill = OldestFirst(due, q.amount)
  OBVIOUS
<1>5. open \in [Invoices -> Nat]
  <2>1. \A i \in Invoices : (IF invStatus[i] = "PAID" THEN 0
                             ELSE Over(Total[i], paid[i])) \in Nat
    BY InvoicesAssumption, LeastFact DEF PlansInv, RowsInv
  <2> QED
    BY <1>4, <2>1 DEF OpenBalance
<1>6. due \in [Seqs -> Nat]
  <2>1. plan[q.plan].due \in [Seqs -> Nat]
    BY <1>3 DEF PlansInv, RowsInv, PlanRow
  <2>2. \A k \in Seqs : Over(plan[q.plan].due[k], q.got[k]) \in Nat
    BY <1>3, <2>1, LeastFact
  <2> QED
    BY <1>4, <2>2 DEF Remaining
<1>7. q.amount <= SumFunction(open) /\ q.amount <= SumFunction(due)
  BY <1>2, <1>4 DEF Payable
<1>8. /\ SumFunction(open) \in Nat /\ SumFunction(due) \in Nat
  <2>1. /\ IsFiniteSet(Invoices) /\ \A i \in Invoices : open[i] \in Nat
        /\ DOMAIN open = Invoices
    BY <1>5, InvoicesAssumption
  <2>2. /\ IsFiniteSet(Seqs) /\ \A k \in Seqs : due[k] \in Nat
        /\ DOMAIN due = Seqs
    BY <1>6, SeqsFact
  <2> QED
    BY <2>1, <2>2, SumNat DEF SumFunction
<1>9. /\ share \in [Invoices -> Nat] /\ SumFunction(share) = q.amount
      /\ fill \in [Seqs -> Nat] /\ SumFunction(fill) = q.amount
  <2>1. /\ share \in [Invoices -> Nat]
        /\ SumFunction(share) = Least(q.amount, SumFunction(open))
    BY <1>3, <1>4, <1>5, InvoicesAssumption, OldestFirstSum
  <2>2. /\ fill \in [Seqs -> Nat]
        /\ SumFunction(fill) = Least(q.amount, SumFunction(due))
    BY <1>3, <1>4, <1>6, SeqsFact, OldestFirstSum
  <2> QED
    BY <1>3, <1>7, <1>8, <2>1, <2>2 DEF Least
<1>10. PICK c :
         /\ req' = [req EXCEPT ![r] = c]
         /\ c = [step |-> "commit", plan |-> q.plan, ref |-> q.ref, share |-> share,
                 settles |-> {i \in Invoices : share[i] = OpenBalance[i]},
                 got |-> [k \in {s \in Seqs : fill[s] > 0} |-> q.got[k] + fill[k]],
                 completes |-> \A k \in Seqs :
                                  q.got[k] + fill[k] >= plan[q.plan].due[k]]
  <2> DEFINE next == [k \in Seqs |-> q.got[k] + fill[k]]
  <2>1. [k \in {s \in Seqs : fill[s] > 0} |-> next[k]]
          = [k \in {s \in Seqs : fill[s] > 0} |-> q.got[k] + fill[k]]
    OBVIOUS
  <2>2. (\A k \in Seqs : next[k] >= plan[q.plan].due[k])
          = (\A k \in Seqs : q.got[k] + fill[k] >= plan[q.plan].due[k])
    OBVIOUS
  <2> QED
    BY <1>1, <1>4, <2>1, <2>2 DEF RecordPrepare, Goto
<1>11. /\ c \in CommitCall /\ c.step = "commit" /\ c.plan = q.plan
       /\ c.share = share /\ c.ref = q.ref
       /\ c.got = [k \in {s \in Seqs : fill[s] > 0} |-> q.got[k] + fill[k]]
  <2>1. [k \in {s \in Seqs : fill[s] > 0} |-> q.got[k] + fill[k]]
          \in [{s \in Seqs : fill[s] > 0} -> Nat]
    BY <1>3, <1>9
  <2> QED
    BY <1>3, <1>9, <1>10, <2>1 DEF CommitCall
<1>12. Within(c, q.got)
  <2>1. ASSUME NEW k \in DOMAIN c.got PROVE c.got[k] <= q.got[k] + fill[k]
    BY <1>3, <1>9, <1>11
  <2>2. SumFunction(fill) <= SumFunction(c.share)
    BY <1>3, <1>9, <1>11
  <2> QED
    BY <1>9, <2>1, <2>2 DEF Within
<1>13. CallFacts(c)
  <2>1. \E i \in Invoices : share[i] > 0
    <3> SUFFICES ASSUME \A i \in Invoices : ~ (share[i] > 0) PROVE FALSE
      OBVIOUS
    <3>1. DOMAIN share = Invoices /\ \A i \in Invoices : share[i] = 0
      BY <1>9
    <3>2. SumFunctionOnSet(share, Invoices) = 0
      BY <3>1, InvoicesAssumption, SumZero
    <3> QED
      BY <1>3, <1>9, <3>1, <3>2 DEF SumFunction
  <2> QED
    BY <1>3, <1>11, <2>1 DEF CallFacts
<1>14. UNCHANGED rows /\ answered' = answered
  BY DEF RecordPrepare
<1>15. answered' \in SUBSET PlanRefs /\ \A ref \in answered' : Recorded(ref)
  BY <1>14, AnsweredFact
<1>16. c \in Calls
  BY <1>11 DEF Calls
<1> QED
  BY <1>1, <1>2, <1>10, <1>11, <1>12, <1>13, <1>14, <1>15, <1>16, RowsKept, QuietStep

\* A restart forgets requests, not rows.
LEMMA RestartInv ==
    ASSUME PlansInv, Restart
    PROVE  PlansInv'
<1>1. \A r \in Requests : req'[r] = Idle /\ req'[r].step = "idle"
  BY DEF Restart, Idle
<1>2. UNCHANGED <<paid, invStatus, payment, plan, answered>>
  BY DEF Restart, rows
<1>3. req' \in [Requests -> Calls]
  BY DEF Restart, Calls
<1>4. RowsInv'
  BY <1>2, <1>3 DEF PlansInv, RowsInv
<1>5. \A r \in Requests : CallFacts(req[r])'
  BY <1>1 DEF CallFacts
<1>6. AnsweredIsRecorded' /\ PaidInv'
  BY <1>2 DEF PlansInv, AnsweredIsRecorded, Recorded, PaidInv, Of, SumOfPayments
<1>7. PICK high : HighWater(high)
  BY DEF PlansInv
<1>8. HighWater(high)'
  <2>1. \A p \in Plans : SumOfPayments(PaymentsOf(p))' = SumOfPayments(PaymentsOf(p))
    BY <1>2 DEF SumOfPayments, PaymentsOf
  <2> QED
    BY <1>1, <1>2, <1>7, <2>1 DEF HighWater
<1> QED
  BY <1>4, <1>5, <1>6, <1>8 DEF PlansInv
-----------------------------------------------------------------------------
\* Payments are added, under references nobody has: a sum of payments that takes
\* some of them in grows by their amounts.
LEMMA PaymentsGrow ==
    ASSUME RowsInv, NEW added, IsFiniteSet(added), added \cap DOMAIN payment = {},
           DOMAIN payment' = DOMAIN payment \cup added,
           \A ref \in DOMAIN payment : payment'[ref] = payment[ref],
           NEW g, \A ref \in added : g[ref] = payment'[ref].amount /\ g[ref] \in Nat,
           NEW R \in SUBSET DOMAIN payment, NEW A \in SUBSET added
    PROVE  /\ SumOfPayments(R \cup A)' = SumOfPayments(R) + SumFunctionOnSet(g, A)
           /\ SumOfPayments(R) \in Nat /\ SumFunctionOnSet(g, A) \in Nat
<1>1. IsFiniteSet(R) /\ IsFiniteSet(A) /\ R \cap A = {} /\ IsFiniteSet(R \cup A)
  BY FS_Subset, FS_Union DEF RowsInv
<1>2. PICK old, new : old = payment /\ new = payment'
  OBVIOUS
<1>3. PICK f : f = [ref \in R \cup A |-> new[ref].amount]
  OBVIOUS
<1>4. \A ref \in R : /\ f[ref] = old[ref].amount /\ f[ref] = new[ref].amount
                     /\ f[ref] \in Nat
  BY <1>2, <1>3 DEF RowsInv
<1>5. \A ref \in A : /\ f[ref] = g[ref] /\ f[ref] = new[ref].amount
                     /\ f[ref] \in Nat
  BY <1>2, <1>3
<1>6. SumOfPayments(R \cup A)' = SumFunctionOnSet(f, R \cup A)
  <2>1. \A ref \in R \cup A : f[ref] = new[ref].amount /\ f[ref] \in Int
    BY <1>4, <1>5
  <2>2. SumFunction([ref \in R \cup A |-> new[ref].amount])
          = SumFunctionOnSet(f, R \cup A)
    BY <1>1, <2>1, AmountsSum
  <2> QED
    BY <1>2, <2>2 DEF SumOfPayments
<1>7. SumOfPayments(R) = SumFunctionOnSet(f, R)
  <2>1. \A ref \in R : f[ref] = old[ref].amount /\ f[ref] \in Int
    BY <1>4
  <2>2. SumFunction([ref \in R |-> old[ref].amount]) = SumFunctionOnSet(f, R)
    BY <1>1, <2>1, AmountsSum
  <2> QED
    BY <1>2, <2>2 DEF SumOfPayments
<1>8. SumFunctionOnSet(g, A) = SumFunctionOnSet(f, A)
  <2>1. \A ref \in A : f[ref] \in Int /\ g[ref] = f[ref]
    BY <1>5
  <2> QED
    BY <1>1, <2>1, SumSame
<1>9. SumFunctionOnSet(f, R \cup A) = SumFunctionOnSet(f, R) + SumFunctionOnSet(f, A)
  <2>1. \A ref \in R \cup A : f[ref] \in Int
    BY <1>4, <1>5
  <2> QED
    BY <1>1, <2>1, SumUnion
<1>10. SumFunctionOnSet(f, R) \in Nat /\ SumFunctionOnSet(f, A) \in Nat
  BY <1>1, <1>4, <1>5, SumNat
<1> QED
  BY <1>6, <1>7, <1>8, <1>9, <1>10

\* Marks may rise with the payments; requests in flight stay below them.
LEMMA HighWaterKept ==
    ASSUME PlansInv, NEW high, HighWater(high),
           NEW higher \in [Plans -> [Seqs -> Nat]],
           \A p \in Plans, k \in Seqs : high[p][k] <= higher[p][k],
           \A q \in Requests : req'[q] = req[q] \/ req'[q] = Idle,
           \A p \in Plans, k \in Seqs : plan'[p].got[k] <= higher[p][k],
           \A p \in Plans : SumFunction(higher[p]) <= SumOfPayments(PaymentsOf(p))'
    PROVE  HighWater(higher)'
<1>1. ASSUME NEW q \in Requests
      PROVE  /\ req'[q].step = "check" =>
                   \A k \in Seqs : req'[q].got[k] <= higher[req'[q].plan][k]
             /\ req'[q].step = "commit" => Within(req'[q], higher[req'[q].plan])
  <2>1. CASE req'[q] = Idle
    BY <2>1 DEF Idle
  <2>2. CASE req'[q] = req[q]
    <3>1. ASSUME req[q].step = "check", NEW k \in Seqs
          PROVE  req[q].got[k] <= higher[req[q].plan][k]
      <4>1. req[q].plan \in Plans /\ req[q].got[k] \in Nat
        BY <3>1, CallShape DEF PlansInv, CheckCall
      <4>2. high[req[q].plan][k] \in Nat /\ higher[req[q].plan][k] \in Nat
        BY <4>1 DEF HighWater
      <4>3. /\ req[q].got[k] <= high[req[q].plan][k]
            /\ high[req[q].plan][k] <= higher[req[q].plan][k]
        BY <3>1, <4>1 DEF HighWater
      <4> QED
        BY <4>1, <4>2, <4>3
    <3>2. ASSUME req[q].step = "commit"
          PROVE  Within(req[q], higher[req[q].plan])
      <4>1. req[q] \in CommitCall
        BY <3>2, CallShape DEF PlansInv
      <4>2. PICK fill \in [Seqs -> Nat] :
              /\ SumFunction(fill) <= SumFunction(req[q].share)
              /\ \A k \in DOMAIN req[q].got :
                    req[q].got[k] <= high[req[q].plan][k] + fill[k]
        BY <3>2 DEF HighWater, Within
      <4>3. ASSUME NEW k \in DOMAIN req[q].got
            PROVE  req[q].got[k] <= higher[req[q].plan][k] + fill[k]
        <5>1. req[q].plan \in Plans /\ k \in Seqs /\ req[q].got[k] \in Nat
          BY <4>1 DEF CommitCall
        <5>2. /\ high[req[q].plan][k] \in Nat /\ higher[req[q].plan][k] \in Nat
              /\ fill[k] \in Nat
              /\ high[req[q].plan][k] <= higher[req[q].plan][k]
          BY <5>1 DEF HighWater
        <5>3. req[q].got[k] <= high[req[q].plan][k] + fill[k]
          BY <4>2
        <5> QED
          BY <5>1, <5>2, <5>3
      <4> QED
        BY <4>2, <4>3 DEF Within
    <3> QED
      BY <2>2, <3>1, <3>2
  <2> QED
    BY <2>1, <2>2
<1>2. \A q \in Requests : req'[q].step = "commit" =>
         Within(req[q], higher[req[q].plan])'
  BY <1>1 DEF Within
<1> QED
  BY <1>1, <1>2 DEF HighWater

Adds(added) ==
    /\ IsFiniteSet(added) /\ added \cap DOMAIN payment = {}
    /\ added \in SUBSET PaymentRefs
    /\ DOMAIN payment' = DOMAIN payment \cup added
    /\ \A ref \in DOMAIN payment : payment'[ref] = payment[ref]
    /\ \A ref \in added : payment'[ref] \in [invoice : Invoices, amount : Nat \ {0}]

AddedOf(added, i) == {ref \in added : payment'[ref].invoice = i}
AddedTo(added, p) == {ref \in added : ref[1] \in PlanRefs /\ ref[1][1] = p}

\* The sums of an invoice and of a plan grow by what is added of them.
LEMMA LedgersGrow ==
    ASSUME RowsInv, NEW added, Adds(added),
           NEW g, \A ref \in added : g[ref] = payment'[ref].amount
    PROVE  /\ \A i : /\ SumOfPayments(Of(i))'
                          = SumOfPayments(Of(i))
                              + SumFunctionOnSet(g, AddedOf(added, i))
                     /\ SumOfPayments(Of(i)) \in Nat
                     /\ SumFunctionOnSet(g, AddedOf(added, i)) \in Nat
           /\ \A p : /\ SumOfPayments(PaymentsOf(p))'
                          = SumOfPayments(PaymentsOf(p))
                              + SumFunctionOnSet(g, AddedTo(added, p))
                     /\ SumOfPayments(PaymentsOf(p)) \in Nat
                     /\ SumFunctionOnSet(g, AddedTo(added, p)) \in Nat
<1>1. \A ref \in added : g[ref] = payment'[ref].amount /\ g[ref] \in Nat
  BY DEF Adds
<1>2. /\ IsFiniteSet(added) /\ added \cap DOMAIN payment = {}
      /\ DOMAIN payment' = DOMAIN payment \cup added
      /\ \A ref \in DOMAIN payment : payment'[ref] = payment[ref]
  BY DEF Adds
<1>3. \A R \in SUBSET DOMAIN payment, A \in SUBSET added :
         /\ SumOfPayments(R \cup A)' = SumOfPayments(R) + SumFunctionOnSet(g, A)
         /\ SumOfPayments(R) \in Nat /\ SumFunctionOnSet(g, A) \in Nat
  BY <1>1, <1>2, PaymentsGrow
<1>4. ASSUME NEW i
      PROVE  /\ Of(i) \in SUBSET DOMAIN payment
             /\ AddedOf(added, i) \in SUBSET added
             /\ Of(i)' = Of(i) \cup AddedOf(added, i)
  BY <1>2 DEF Of, AddedOf
<1>5. ASSUME NEW p
      PROVE  /\ PaymentsOf(p) \in SUBSET DOMAIN payment
             /\ AddedTo(added, p) \in SUBSET added
             /\ PaymentsOf(p)' = PaymentsOf(p) \cup AddedTo(added, p)
  BY <1>2 DEF PaymentsOf, AddedTo
<1>6. ASSUME NEW i
      PROVE  /\ SumOfPayments(Of(i))' = SumOfPayments(Of(i))
                                          + SumFunctionOnSet(g, AddedOf(added, i))
             /\ SumOfPayments(Of(i)) \in Nat
             /\ SumFunctionOnSet(g, AddedOf(added, i)) \in Nat
  <2>1. PICK R, A : R = Of(i) /\ A = AddedOf(added, i)
    OBVIOUS
  <2>2. SumOfPayments(Of(i))' = SumOfPayments(R \cup A)'
    BY <1>4, <2>1 DEF SumOfPayments
  <2> QED
    BY <1>3, <1>4, <2>1, <2>2
<1>7. ASSUME NEW p
      PROVE  /\ SumOfPayments(PaymentsOf(p))'
                  = SumOfPayments(PaymentsOf(p))
                      + SumFunctionOnSet(g, AddedTo(added, p))
             /\ SumOfPayments(PaymentsOf(p)) \in Nat
             /\ SumFunctionOnSet(g, AddedTo(added, p)) \in Nat
  <2>1. PICK R, A : R = PaymentsOf(p) /\ A = AddedTo(added, p)
    OBVIOUS
  <2>2. SumOfPayments(PaymentsOf(p))' = SumOfPayments(R \cup A)'
    BY <1>5, <2>1 DEF SumOfPayments
  <2> QED
    BY <1>3, <1>5, <2>1, <2>2
<1> QED
  BY <1>6, <1>7

\* Rows with more payments are rows.
LEMMA RowsGrow ==
    ASSUME RowsInv, NEW added, Adds(added), paid' \in [Invoices -> Nat],
           invStatus' \in [Invoices -> {"PENDING", "PAID"}],
           plan' \in [Plans -> PlanRow], req' \in [Requests -> Calls],
           answered' \in SUBSET PlanRefs
    PROVE  RowsInv'
<1>1. /\ DOMAIN payment' = DOMAIN payment \cup added
      /\ DOMAIN payment \in SUBSET PaymentRefs /\ added \in SUBSET PaymentRefs
      /\ IsFiniteSet(DOMAIN payment) /\ IsFiniteSet(added)
  BY DEF Adds, RowsInv
<1>2. IsFiniteSet(DOMAIN payment') /\ DOMAIN payment' \in SUBSET PaymentRefs
  <2>1. IsFiniteSet(DOMAIN payment \cup added)
    BY <1>1, FS_Union
  <2>2. DOMAIN payment \cup added \in SUBSET PaymentRefs
    BY <1>1
  <2> QED
    BY <1>1, <2>1, <2>2
<1>3. \A ref \in DOMAIN payment' :
         payment'[ref] \in [invoice : Invoices, amount : Nat \ {0}]
  BY <1>1 DEF Adds, RowsInv
<1> QED
  BY <1>2, <1>3 DEF RowsInv

\* A webhook's payment is of one invoice, and of no plan that would mind.
LEMMA OnlineInv ==
    ASSUME PlansInv, NEW o \in OnlineOrders, NEW i \in Invoices,
           NEW amount \in 1..Total[i], OnlineSettle(o, i, amount)
    PROVE  PlansInv'
<1>1. PICK ref : ref = <<o>>
  OBVIOUS
<1>2. /\ ref \notin DOMAIN payment /\ paid' = [paid EXCEPT ![i] = @ + amount]
      /\ InsertPayments([k \in {ref} |-> [invoice |-> i, amount |-> amount]])
      /\ UNCHANGED <<plan, req, answered>>
      /\ invStatus' \in [Invoices -> {"PENDING", "PAID"}]
  BY <1>1 DEF OnlineSettle, PlansInv, RowsInv
<1>3. amount \in Nat \ {0} /\ ref \in PaymentRefs
  <2>1. Total[i] \in Nat
    BY InvoicesAssumption
  <2> QED
    BY <1>1, <2>1 DEF PaymentRefs
<1>4. /\ DOMAIN payment' = DOMAIN payment \cup {ref}
      /\ payment'[ref] = [invoice |-> i, amount |-> amount]
      /\ \A other \in DOMAIN payment : payment'[other] = payment[other]
  BY <1>2 DEF InsertPayments
<1>5. Adds({ref})
  <2>1. IsFiniteSet({ref})
    BY FS_Singleton
  <2>2. payment'[ref] \in [invoice : Invoices, amount : Nat \ {0}]
    BY <1>3, <1>4
  <2> QED
    BY <1>2, <1>3, <1>4, <2>1, <2>2 DEF Adds
<1>6. PICK g : g = [k \in {ref} |-> amount]
  OBVIOUS
<1>7. RowsInv /\ \A k \in {ref} : g[k] = payment'[k].amount
  BY <1>4, <1>6 DEF PlansInv
<1>8. RowsInv'
  <2>1. /\ paid' \in [Invoices -> Nat] /\ plan' \in [Plans -> PlanRow]
        /\ req' \in [Requests -> Calls] /\ answered' \in SUBSET PlanRefs
    BY <1>2, <1>3, <1>7 DEF RowsInv
  <2> QED
    BY <1>2, <1>5, <1>7, <2>1, RowsGrow
<1>9. PaidInv'
  <2> SUFFICES ASSUME NEW m \in Invoices PROVE paid'[m] = SumOfPayments(Of(m))'
    BY DEF PaidInv
  <2>1. /\ SumOfPayments(Of(m))'
             = SumOfPayments(Of(m)) + SumFunctionOnSet(g, AddedOf({ref}, m))
        /\ SumOfPayments(Of(m)) \in Nat /\ paid[m] = SumOfPayments(Of(m))
    BY <1>5, <1>7, LedgersGrow DEF PlansInv, PaidInv
  <2>2. CASE m = i
    <3>1. AddedOf({ref}, m) = {ref}
      BY <1>4, <2>2 DEF AddedOf
    <3>2. SumFunctionOnSet(g, {ref}) = amount
      BY <1>3, <1>6, SumOne
    <3>3. paid'[m] = paid[m] + amount
      BY <1>2, <2>2 DEF PlansInv, RowsInv
    <3> QED
      BY <1>3, <2>1, <3>1, <3>2, <3>3
  <2>3. CASE m # i
    <3>1. AddedOf({ref}, m) = {}
      BY <1>4, <2>3 DEF AddedOf
    <3>2. paid'[m] = paid[m] /\ SumFunctionOnSet(g, {}) = 0
      BY <1>2, <2>3, SumEmpty DEF PlansInv, RowsInv
    <3> QED
      BY <2>1, <3>1, <3>2
  <2> QED
    BY <2>2, <2>3
<1>10. AnsweredIsRecorded'
  BY <1>2, <1>4 DEF PlansInv, AnsweredIsRecorded, Recorded
<1>11. \A r \in Requests : CallFacts(req[r])'
  BY <1>2 DEF PlansInv, CallFacts
<1>12. PICK high : HighWater(high)
  BY DEF PlansInv
<1>13. HighWater(high)'
  <2>1. /\ high \in [Plans -> [Seqs -> Nat]]
        /\ \A p \in Plans, k \in Seqs : plan'[p].got[k] <= high[p][k]
    BY <1>2, <1>12 DEF HighWater
  <2>2. \A p \in Plans, k \in Seqs : high[p][k] <= high[p][k]
    <3>1. \A p \in Plans, k \in Seqs : high[p][k] \in Nat
      BY <2>1
    <3> QED
      BY <3>1
  <2>3. \A q \in Requests : req'[q] = req[q]
    BY <1>2
  <2>4. ASSUME NEW p \in Plans
        PROVE  SumFunction(high[p]) <= SumOfPayments(PaymentsOf(p))'
    <3>1. /\ SumOfPayments(PaymentsOf(p))'
               = SumOfPayments(PaymentsOf(p)) + SumFunctionOnSet(g, AddedTo({ref}, p))
          /\ SumOfPayments(PaymentsOf(p)) \in Nat
          /\ SumFunctionOnSet(g, AddedTo({ref}, p)) \in Nat
      BY <1>5, <1>7, LedgersGrow
    <3>2. SumFunction(high[p]) <= SumOfPayments(PaymentsOf(p))
      BY <1>12 DEF HighWater
    <3>3. SumFunction(high[p]) \in Nat
      BY <2>1, MarksSum
    <3> QED
      BY <3>1, <3>2, <3>3
  <2> QED
    BY <1>12, <2>1, <2>2, <2>3, <2>4, HighWaterKept
<1> QED
  BY <1>8, <1>9, <1>10, <1>11, <1>13 DEF PlansInv

\* The references of one request's payments tell its invoices apart, the oldest
\* one's being the bare reference.
LEMMA NewPaymentsFact ==
    ASSUME NEW q \in CommitCall, CallFacts(q)
    PROVE  \E to :
             /\ \A i \in Shared(q) : to[i] = PspRef(q, i)
             /\ \A i, j \in Shared(q) : to[i] = to[j] => i = j
             /\ \A i \in Shared(q) : to[i][1] = q.ref /\ to[i] \in PaymentRefs
             /\ \E i \in Shared(q) : to[i] = <<q.ref>>
             /\ DOMAIN NewPayments(q) = {to[i] : i \in Shared(q)}
             /\ \A i \in Shared(q) :
                   NewPayments(q)[to[i]] = [invoice |-> i, amount |-> q.share[i]]
<1>1. PICK S, to : S = Shared(q) /\ to = [i \in S |-> PspRef(q, i)]
  OBVIOUS
<1>2. S \in SUBSET Nat /\ S \in SUBSET Invoices /\ S # {}
  BY <1>1, InvoicesAssumption DEF Shared, CallFacts, CommitCall
<1>3. PICK oldest \in S : \A other \in S : oldest <= other
  BY <1>2, LeastOf
<1>4. \A i \in S : to[i] = IF i = oldest THEN <<q.ref>> ELSE <<q.ref, i>>
  <2> SUFFICES ASSUME NEW i \in S
               PROVE  to[i] = IF i = oldest THEN <<q.ref>> ELSE <<q.ref, i>>
    OBVIOUS
  <2>1. (\A other \in S : i <= other) <=> i = oldest
    <3>1. CASE i = oldest
      BY <1>3, <3>1
    <3>2. CASE i # oldest
      <4>1. i \in Nat /\ oldest \in Nat /\ oldest <= i
        BY <1>2, <1>3
      <4>2. ~ (i <= oldest)
        BY <3>2, <4>1
      <4> QED
        BY <3>2, <4>2
    <3> QED
      BY <3>1, <3>2
  <2> QED
    BY <1>1, <2>1 DEF PspRef
<1>5. \A i : <<q.ref>> # <<q.ref, i>>
  OBVIOUS
<1>6. \A i, j \in S : to[i] = to[j] => i = j
  <2> SUFFICES ASSUME NEW i \in S, NEW j \in S, to[i] = to[j], i # j PROVE FALSE
    OBVIOUS
  <2>1. CASE i = oldest
    <3>1. to[i] = <<q.ref>> /\ to[j] = <<q.ref, j>>
      BY <1>4, <2>1
    <3> QED
      BY <1>5, <3>1
  <2>2. CASE j = oldest
    <3>1. to[j] = <<q.ref>> /\ to[i] = <<q.ref, i>>
      BY <1>4, <2>2
    <3> QED
      BY <1>5, <3>1
  <2>3. CASE i # oldest /\ j # oldest
    <3>1. to[i] = <<q.ref, i>> /\ to[j] = <<q.ref, j>>
      BY <1>4, <2>3
    <3>2. <<q.ref, i>>[2] = i /\ <<q.ref, j>>[2] = j
      OBVIOUS
    <3> QED
      BY <3>1, <3>2
  <2> QED
    BY <2>1, <2>2, <2>3
<1>7. q.ref \in PlanRefs
  BY DEF CommitCall
<1>8. \A i \in S : to[i][1] = q.ref /\ to[i] \in PaymentRefs
  <2> SUFFICES ASSUME NEW i \in S PROVE to[i][1] = q.ref /\ to[i] \in PaymentRefs
    OBVIOUS
  <2>1. CASE i = oldest
    <3>1. to[i] = <<q.ref>>
      BY <1>4, <2>1
    <3> QED
      BY <1>7, <3>1 DEF PaymentRefs
  <2>2. CASE i # oldest
    <3>1. to[i] = <<q.ref, i>> /\ i \in Invoices
      BY <1>2, <1>4, <2>2
    <3> QED
      BY <1>7, <3>1 DEF PaymentRefs
  <2> QED
    BY <2>1, <2>2
<1>9. to[oldest] = <<q.ref>>
  BY <1>4
<1>10. {PspRef(q, i) : i \in S} = {to[i] : i \in S}
  BY <1>1
<1>11. DOMAIN NewPayments(q) = {to[i] : i \in S}
  BY <1>1, <1>10 DEF NewPayments
<1>12. ASSUME NEW i \in S
       PROVE  NewPayments(q)[to[i]] = [invoice |-> i, amount |-> q.share[i]]
  <2>1. (CHOOSE inv \in S : PspRef(q, inv) = to[i]) = i
    <3>1. \A inv \in S : PspRef(q, inv) = to[i] <=> inv = i
      BY <1>1, <1>6
    <3> QED
      BY <3>1
  <2>2. to[i] \in {PspRef(q, inv) : inv \in S}
    BY <1>1
  <2> QED
    BY <1>1, <2>1, <2>2 DEF NewPayments
<1> QED
  BY <1>1, <1>3, <1>6, <1>8, <1>9, <1>11, <1>12

\* The sum of what a request records is what it shares out.
LEMMA RecordedSum ==
    ASSUME NEW q \in CommitCall, NEW to, NEW g,
           \A i \in Shared(q) : g[to[i]] = q.share[i],
           \A i, j \in Shared(q) : to[i] = to[j] => i = j
    PROVE  /\ SumFunctionOnSet(g, {to[i] : i \in Shared(q)}) = SumFunction(q.share)
           /\ SumFunction(q.share) \in Nat
<1>1. PICK S, rest : S = Shared(q) /\ rest = Invoices \ S
  OBVIOUS
<1>2. /\ q.share \in [Invoices -> Nat] /\ DOMAIN q.share = Invoices
      /\ S \in SUBSET Invoices /\ IsFiniteSet(Invoices)
      /\ S \cup rest = Invoices /\ S \cap rest = {}
  BY <1>1, InvoicesAssumption DEF CommitCall, Shared
<1>3. IsFiniteSet(S) /\ IsFiniteSet(rest)
  BY <1>2, FS_Subset
<1>4. PICK h : h = q.share
  OBVIOUS
<1>5. \A i \in Invoices : h[i] \in Nat /\ h[i] \in Int
  BY <1>2, <1>4
<1>6. \A i \in rest : h[i] = 0
  BY <1>1, <1>2, <1>4 DEF Shared
<1>7. SumFunctionOnSet(g, {to[i] : i \in S}) = SumFunctionOnSet(h, S)
  <2>1. \A i \in S : h[i] \in Int /\ g[to[i]] = h[i]
    BY <1>1, <1>2, <1>4, <1>5
  <2> QED
    BY <1>1, <1>3, <2>1, SumRenamed
<1>8. SumFunctionOnSet(h, rest) = 0
  BY <1>3, <1>6, SumZero
<1>9. SumFunctionOnSet(h, S \cup rest)
        = SumFunctionOnSet(h, S) + SumFunctionOnSet(h, rest)
  BY <1>2, <1>3, <1>5, SumUnion
<1>10. SumFunctionOnSet(h, S) \in Nat
  BY <1>2, <1>3, <1>5, SumNat
<1>11. SumFunction(q.share) = SumFunctionOnSet(h, S)
  BY <1>2, <1>4, <1>8, <1>9, <1>10 DEF SumFunction
<1> QED
  BY <1>1, <1>7, <1>10, <1>11

LEMMA FiniteImage ==
    ASSUME NEW S, IsFiniteSet(S), NEW to
    PROVE  IsFiniteSet({to[x] : x \in S})
<1>1. PICK f : f = [x \in S |-> to[x]]
  OBVIOUS
<1>2. f \in Surjection(S, {to[x] : x \in S})
  BY <1>1 DEF Surjection
<1> QED
  BY <1>2, FS_Surjection

\* What the request writes over the plan's row is a row, below the raised marks.
LEMMA WrittenFact ==
    ASSUME RowsInv, NEW q \in CommitCall
    PROVE  /\ Written(q.plan, q) \in PlanRow
           /\ \A k \in Seqs : Written(q.plan, q).got[k] =
                 IF k \in DOMAIN q.got THEN q.got[k] ELSE plan[q.plan].got[k]
<1>1. PICK row : row = plan[q.plan]
  OBVIOUS
<1>2. row \in PlanRow
  BY <1>1 DEF RowsInv, CommitCall
<1>3. PICK got : got = [k \in Seqs |-> IF k \in DOMAIN q.got THEN q.got[k]
                                        ELSE row.got[k]]
  OBVIOUS
<1>4. got \in [Seqs -> Nat]
  <2>1. \A k \in DOMAIN q.got : q.got[k] \in Nat
    BY DEF CommitCall
  <2>2. \A k \in Seqs : row.got[k] \in Nat
    BY <1>2 DEF PlanRow
  <2> QED
    BY <1>3, <2>1, <2>2
<1>5. Written(q.plan, q) = [row EXCEPT !.status = IF q.completes THEN "COMPLETED"
                                                  ELSE row.status,
                                       !.got = got]
  BY <1>1, <1>2, <1>3 DEF Written, PlanRow
<1>6. Written(q.plan, q) \in PlanRow /\ Written(q.plan, q).got = got
  BY <1>2, <1>4, <1>5 DEF PlanRow
<1> QED
  BY <1>1, <1>3, <1>6

\* The rows that a request adds: one for each invoice that gets a share.
AddsFor(q, added, to, g) ==
    /\ added = {to[i] : i \in Shared(q)} /\ Adds(added) /\ <<q.ref>> \in added
    /\ \A i, j \in Shared(q) : to[i] = to[j] => i = j
    /\ \A i \in Shared(q) : /\ to[i][1] = q.ref /\ g[to[i]] = q.share[i]
                            /\ payment'[to[i]].invoice = i
    /\ \A ref \in added : g[ref] = payment'[ref].amount

LEMMA CommitAdds ==
    ASSUME PlansInv, NEW r \in Requests, RecordCommit(r), NEW q, q = req[r]
    PROVE  \E added, to, g : AddsFor(q, added, to, g)
<1>1. q \in CommitCall /\ q.step = "commit" /\ CallFacts(q) /\ RowsInv
  BY CallShape DEF RecordCommit, PlansInv
<1>2. /\ q.plan \in Plans /\ q.ref \in PlanRefs /\ q.ref[1] = q.plan
      /\ q.share \in [Invoices -> Nat]
  BY <1>1 DEF CommitCall, CallFacts
<1>3. PICK to :
        /\ \A i \in Shared(q) : to[i] = PspRef(q, i)
        /\ \A i, j \in Shared(q) : to[i] = to[j] => i = j
        /\ \A i \in Shared(q) : to[i][1] = q.ref /\ to[i] \in PaymentRefs
        /\ \E i \in Shared(q) : to[i] = <<q.ref>>
        /\ DOMAIN NewPayments(q) = {to[i] : i \in Shared(q)}
        /\ \A i \in Shared(q) :
              NewPayments(q)[to[i]] = [invoice |-> i, amount |-> q.share[i]]
  BY <1>1, NewPaymentsFact
<1>4. PICK S, added : S = Shared(q) /\ added = {to[i] : i \in S}
  OBVIOUS
<1>5. S \in SUBSET Invoices /\ IsFiniteSet(S) /\ \A i \in S : q.share[i] \in Nat \ {0}
  <2>1. S \in SUBSET Invoices /\ \A i \in S : q.share[i] \in Nat \ {0}
    BY <1>2, <1>4 DEF Shared
  <2> QED
    BY <2>1, InvoicesAssumption, FS_Subset
<1>6. /\ \A i \in S : RefIsFree(to[i])
      /\ InsertPayments(NewPayments(q))
  BY <1>3, <1>4 DEF RecordCommit
<1>7. PICK new : new = NewPayments(q)
  OBVIOUS
<1>8. /\ DOMAIN new = added
      /\ \A i \in S : new[to[i]] = [invoice |-> i, amount |-> q.share[i]]
      /\ \A i, j \in S : to[i] = to[j] => i = j
      /\ \A i \in S : to[i][1] = q.ref /\ to[i] \in PaymentRefs
  BY <1>3, <1>4, <1>7
<1>9. /\ DOMAIN payment' = DOMAIN payment \cup added
      /\ \A ref \in added : payment'[ref] = new[ref]
      /\ \A ref \in DOMAIN payment : ref \notin added => payment'[ref] = payment[ref]
  BY <1>6, <1>7, <1>8 DEF InsertPayments
<1>10. added \cap DOMAIN payment = {}
  BY <1>4, <1>6 DEF RefIsFree
<1>11. Adds(added)
  <2>1. IsFiniteSet(added)
    BY <1>4, <1>5, FiniteImage
  <2>2. added \in SUBSET PaymentRefs
    BY <1>4, <1>8
  <2>3. \A ref \in added : payment'[ref] \in [invoice : Invoices, amount : Nat \ {0}]
    <3>1. ASSUME NEW i \in S
          PROVE  new[to[i]] \in [invoice : Invoices, amount : Nat \ {0}]
      <4>1. new[to[i]] = [invoice |-> i, amount |-> q.share[i]]
        BY <1>8
      <4>2. i \in Invoices /\ q.share[i] \in Nat \ {0}
        BY <1>5
      <4> QED
        BY <4>1, <4>2
    <3> QED
      BY <1>4, <1>9, <3>1
  <2> QED
    BY <1>9, <1>10, <2>1, <2>2, <2>3 DEF Adds
<1>12. PICK g : g = [ref \in added |-> new[ref].amount]
  OBVIOUS
<1>13. \A ref \in added : g[ref] = payment'[ref].amount
  BY <1>9, <1>12
<1>14. \A i \in S : /\ to[i] \in added /\ g[to[i]] = q.share[i]
                    /\ payment'[to[i]].invoice = i
  <2> SUFFICES ASSUME NEW i \in S
               PROVE  /\ to[i] \in added /\ g[to[i]] = q.share[i]
                      /\ payment'[to[i]].invoice = i
    OBVIOUS
  <2>1. to[i] \in added
    BY <1>4
  <2>2. new[to[i]] = [invoice |-> i, amount |-> q.share[i]]
    BY <1>8
  <2> QED
    BY <1>9, <1>12, <2>1, <2>2
<1> QED
  BY <1>3, <1>4, <1>8, <1>11, <1>13, <1>14 DEF AddsFor

\* The invoices' sums grow by the shares, the plan's by all of them.
LEMMA CommitSums ==
    ASSUME PlansInv, NEW r \in Requests, RecordCommit(r), NEW q, q = req[r]
    PROVE  /\ q \in CommitCall /\ CallFacts(q) /\ q.plan \in Plans
           /\ \A i \in Invoices : q.share[i] \in Nat /\ q.ref \in PlanRefs
           /\ SumFunction(q.share) \in Nat
           /\ \A i \in Invoices : /\ SumOfPayments(Of(i)) \in Nat
                                  /\ SumOfPayments(Of(i))'
                                       = SumOfPayments(Of(i)) + q.share[i]
           /\ \A p \in Plans : /\ SumOfPayments(PaymentsOf(p)) \in Nat
                               /\ SumOfPayments(PaymentsOf(p))' =
                                    SumOfPayments(PaymentsOf(p))
                                      + IF p = q.plan THEN SumFunction(q.share) ELSE 0
<1>1. q \in CommitCall /\ CallFacts(q) /\ RowsInv
  BY CallShape DEF RecordCommit, PlansInv
<1>2. /\ q.plan \in Plans /\ q.ref \in PlanRefs /\ q.share \in [Invoices -> Nat]
      /\ q.ref[1] = q.plan
  BY <1>1, CallShape DEF RecordCommit, PlansInv, CommitCall, CallFacts
<1>3. PICK added, to, g : AddsFor(q, added, to, g)
  BY CommitAdds
<1>4. /\ \A i : /\ SumOfPayments(Of(i))'
                     = SumOfPayments(Of(i)) + SumFunctionOnSet(g, AddedOf(added, i))
                /\ SumOfPayments(Of(i)) \in Nat
      /\ \A p : /\ SumOfPayments(PaymentsOf(p))'
                     = SumOfPayments(PaymentsOf(p))
                         + SumFunctionOnSet(g, AddedTo(added, p))
                /\ SumOfPayments(PaymentsOf(p)) \in Nat
  BY <1>1, <1>3, LedgersGrow DEF AddsFor
<1>5. ASSUME NEW i \in Invoices
      PROVE  SumFunctionOnSet(g, AddedOf(added, i)) = q.share[i]
  <2>1. CASE i \in Shared(q)
    <3>1. AddedOf(added, i) = {to[i]}
      BY <1>3, <2>1 DEF AddsFor, AddedOf
    <3>2. g[to[i]] = q.share[i] /\ g[to[i]] \in Int
      BY <1>2, <1>3, <2>1 DEF AddsFor
    <3>3. SumFunctionOnSet(g, {to[i]}) = g[to[i]]
      BY <3>2, SumOne
    <3> QED
      BY <3>1, <3>2, <3>3
  <2>2. CASE i \notin Shared(q)
    <3>1. AddedOf(added, i) = {}
      BY <1>3, <2>2 DEF AddsFor, AddedOf
    <3>2. q.share[i] \in Nat /\ ~ (q.share[i] > 0)
      BY <1>2, <2>2 DEF Shared
    <3>3. q.share[i] = 0
      BY <3>2
    <3> QED
      BY <3>1, <3>3, SumEmpty
  <2> QED
    BY <2>1, <2>2
<1>6. SumFunctionOnSet(g, added) = SumFunction(q.share) /\ SumFunction(q.share) \in Nat
  BY <1>1, <1>3, RecordedSum DEF AddsFor
<1>7. ASSUME NEW p \in Plans
      PROVE  SumFunctionOnSet(g, AddedTo(added, p))
                = IF p = q.plan THEN SumFunction(q.share) ELSE 0
  <2>1. CASE p = q.plan
    <3>1. AddedTo(added, p) = added
      BY <1>2, <1>3, <2>1 DEF AddsFor, AddedTo
    <3> QED
      BY <1>6, <2>1, <3>1
  <2>2. CASE p # q.plan
    <3>1. AddedTo(added, p) = {}
      BY <1>2, <1>3, <2>2 DEF AddsFor, AddedTo
    <3> QED
      BY <2>2, <3>1, SumEmpty
  <2> QED
    BY <2>1, <2>2
<1> QED
  BY <1>1, <1>2, <1>4, <1>5, <1>6, <1>7

\* A request records what it shares out, over the invoices and over the
\* installments alike.
LEMMA RecordCommitInv ==
    ASSUME PlansInv, NEW r \in Requests, RecordCommit(r)
    PROVE  PlansInv'
<1>1. PICK q : q = req[r]
  OBVIOUS
<1>2. /\ q \in CommitCall /\ q.step = "commit" /\ CallFacts(q) /\ RowsInv
      /\ q.plan \in Plans
  BY <1>1, CallShape, CommitSums DEF RecordCommit, PlansInv
<1>3. q.share \in [Invoices -> Nat] /\ q.ref \in PlanRefs
  BY <1>2 DEF CommitCall
<1>4. PICK added : Adds(added) /\ <<q.ref>> \in added
  BY <1>1, CommitAdds DEF AddsFor
<1>5. /\ DOMAIN payment' = DOMAIN payment \cup added
      /\ paid' = [i \in Invoices |-> paid[i] + q.share[i]]
      /\ invStatus' = [i \in Invoices |->
           IF i \notin Shared(q) THEN invStatus[i]
           ELSE IF i \in q.settles THEN "PAID" ELSE "PENDING"]
      /\ plan' = [plan EXCEPT ![q.plan] = Written(q.plan, q)]
      /\ answered' = answered \cup {q.ref}
      /\ req' = [req EXCEPT ![r] = Idle]
  BY <1>1, <1>4 DEF RecordCommit, Goto, Adds
<1>6. RowsInv'
  <2>1. paid' \in [Invoices -> Nat]
    BY <1>2, <1>3, <1>5 DEF RowsInv
  <2>2. invStatus' \in [Invoices -> {"PENDING", "PAID"}]
    BY <1>2, <1>5 DEF RowsInv
  <2>3. plan' \in [Plans -> PlanRow]
    BY <1>2, <1>5, WrittenFact DEF RowsInv
  <2>4. req' \in [Requests -> Calls] /\ answered' \in SUBSET PlanRefs
    BY <1>2, <1>3, <1>5 DEF RowsInv, Calls
  <2> QED
    BY <1>2, <1>4, <2>1, <2>2, <2>3, <2>4, RowsGrow
<1>7. PaidInv'
  <2> SUFFICES ASSUME NEW m \in Invoices PROVE paid'[m] = SumOfPayments(Of(m))'
    BY DEF PaidInv
  <2>1. SumOfPayments(Of(m))' = SumOfPayments(Of(m)) + q.share[m]
    BY <1>1, CommitSums
  <2> QED
    BY <1>5, <2>1 DEF PlansInv, PaidInv
<1>8. AnsweredIsRecorded'
  BY <1>4, <1>5 DEF PlansInv, AnsweredIsRecorded, Recorded
<1>9. \A o \in Requests : req'[o] = req[o] \/ req'[o] = Idle
  BY <1>2, <1>5 DEF RowsInv
<1>10. \A o \in Requests : CallFacts(req[o])'
  BY <1>9 DEF PlansInv, CallFacts, Idle
<1>11. PICK high : HighWater(high)
  BY DEF PlansInv
<1>12. high \in [Plans -> [Seqs -> Nat]]
  BY <1>11 DEF HighWater
<1>13. PICK fill \in [Seqs -> Nat] :
         /\ SumFunction(fill) <= SumFunction(q.share)
         /\ \A k \in DOMAIN q.got : q.got[k] <= high[q.plan][k] + fill[k]
  BY <1>1, <1>2, <1>11 DEF HighWater, Within
<1>14. PICK raised : raised = [k \in Seqs |-> high[q.plan][k] + fill[k]]
  OBVIOUS
<1>15. raised \in [Seqs -> Nat] /\ high[q.plan] \in [Seqs -> Nat]
  BY <1>2, <1>12, <1>13, <1>14
<1>16. SumFunction(raised) = SumFunction(high[q.plan]) + SumFunction(fill)
  <2>1. DOMAIN raised = Seqs /\ \A k \in Seqs : raised[k] = high[q.plan][k] + fill[k]
    BY <1>14
  <2> QED
    BY <1>15, <2>1, MarksPlus
<1>17. PICK higher : higher = [high EXCEPT ![q.plan] = raised]
  OBVIOUS
<1>18. higher \in [Plans -> [Seqs -> Nat]]
  BY <1>12, <1>15, <1>17
<1>19. \A p \in Plans : higher[p] = IF p = q.plan THEN raised ELSE high[p]
  BY <1>12, <1>17
<1>20. \A p \in Plans, k \in Seqs : high[p][k] <= higher[p][k]
  <2> SUFFICES ASSUME NEW p \in Plans, NEW k \in Seqs
               PROVE  high[p][k] <= higher[p][k]
    OBVIOUS
  <2>1. high[p][k] \in Nat /\ fill[k] \in Nat
    BY <1>12
  <2>2. p = q.plan => higher[p][k] = high[p][k] + fill[k]
    BY <1>14, <1>19
  <2> QED
    BY <1>19, <2>1, <2>2
<1>21. \A p \in Plans, k \in Seqs : plan'[p].got[k] <= higher[p][k]
  <2> SUFFICES ASSUME NEW p \in Plans, NEW k \in Seqs
               PROVE  plan'[p].got[k] <= higher[p][k]
    OBVIOUS
  <2>1. /\ plan[p].got[k] \in Nat /\ plan[p].got[k] <= high[p][k]
        /\ high[p][k] \in Nat /\ higher[p][k] \in Nat /\ high[p][k] <= higher[p][k]
    BY <1>2, <1>11, <1>12, <1>18, <1>20 DEF RowsInv, PlanRow, HighWater
  <2>2. plan[p].got[k] <= higher[p][k]
    BY <2>1
  <2>3. CASE p = q.plan
    <3>1. plan'[p] = Written(q.plan, q)
      BY <1>2, <1>3, <1>5, <2>3 DEF RowsInv
    <3>2. plan'[p].got[k] = IF k \in DOMAIN q.got THEN q.got[k] ELSE plan[p].got[k]
      BY <1>2, <2>3, <3>1, WrittenFact
    <3>3. k \in DOMAIN q.got => q.got[k] <= higher[p][k]
      BY <1>13, <1>14, <1>19, <2>3
    <3> QED
      BY <2>2, <3>2, <3>3
  <2>4. CASE p # q.plan
    <3>1. plan'[p] = plan[p]
      BY <1>2, <1>5, <2>4 DEF RowsInv
    <3> QED
      BY <2>2, <3>1
  <2> QED
    BY <2>3, <2>4
<1>22. ASSUME NEW p \in Plans
       PROVE  SumFunction(higher[p]) <= SumOfPayments(PaymentsOf(p))'
  <2>1. /\ SumOfPayments(PaymentsOf(p))' = SumOfPayments(PaymentsOf(p))
              + IF p = q.plan THEN SumFunction(q.share) ELSE 0
        /\ SumOfPayments(PaymentsOf(p)) \in Nat /\ SumFunction(q.share) \in Nat
    BY <1>1, CommitSums
  <2>2. SumFunction(high[p]) <= SumOfPayments(PaymentsOf(p))
    BY <1>11 DEF HighWater
  <2>3. SumFunction(high[p]) \in Nat /\ SumFunction(fill) \in Nat
    BY <1>12, MarksSum
  <2>4. CASE p = q.plan
    <3>1. SumFunction(higher[p]) = SumFunction(high[p]) + SumFunction(fill)
      BY <1>16, <1>19, <2>4
    <3> QED
      BY <1>13, <2>1, <2>2, <2>3, <2>4, <3>1
  <2>5. CASE p # q.plan
    <3>1. higher[p] = high[p]
      BY <1>19, <2>5
    <3> QED
      BY <2>1, <2>2, <2>3, <2>5, <3>1
  <2> QED
    BY <2>4, <2>5
<1>23. HighWater(higher)'
  BY <1>9, <1>11, <1>18, <1>20, <1>21, <1>22, HighWaterKept
<1> QED
  BY <1>6, <1>7, <1>8, <1>10, <1>23 DEF PlansInv
-----------------------------------------------------------------------------
LEMMA NextInv == PlansInv /\ [Next]_vars => PlansInv'
<1> SUFFICES ASSUME PlansInv, [Next]_vars PROVE PlansInv'
  OBVIOUS
<1>1. ASSUME NEW r \in Requests, Create(r) PROVE PlansInv'
  BY <1>1, CreateInv
<1>2. ASSUME NEW r \in Requests, Record(r) PROVE PlansInv'
  <2>1. ASSUME NEW p \in Plans, NEW amount \in Amounts, NEW key \in Keys \cup {NoKey},
               RecordRead(r, p, amount, key)
        PROVE  PlansInv'
    BY <2>1, RecordReadInv
  <2>2. CASE RecordPrepare(r)
    BY <2>2, RecordPrepareInv
  <2>3. CASE RecordCommit(r)
    BY <2>3, RecordCommitInv
  <2>4. CASE \/ RecordReplay(r) \/ RecordRefused(r)
             \/ RecordDuplicate(r) \/ RecordAborts(r)
    BY <2>4, RecordEndsInv
  <2> QED
    BY <1>2, <2>1, <2>2, <2>3, <2>4 DEF Record
<1>3. ASSUME NEW r \in Requests, Cancel(r) PROVE PlansInv'
  BY <1>3, CancelInv
<1>4. ASSUME NEW o \in OnlineOrders, NEW i \in Invoices, NEW amount \in 1..Total[i],
             OnlineSettle(o, i, amount)
      PROVE  PlansInv'
  BY <1>4, OnlineInv
<1>5. CASE Restart
  BY <1>5, RestartInv
<1>6. CASE UNCHANGED vars
  <2>1. UNCHANGED <<paid, invStatus, payment, plan, req, answered>>
    BY <1>6 DEF vars
  <2>2. RowsInv' /\ AnsweredIsRecorded' /\ PaidInv'
    BY <2>1 DEF PlansInv, RowsInv, AnsweredIsRecorded, Recorded, PaidInv, Of,
                SumOfPayments
  <2>3. \A r \in Requests : CallFacts(req[r])'
    BY <2>1 DEF PlansInv, CallFacts
  <2>4. PICK high : HighWater(high)
    BY DEF PlansInv
  <2>5. HighWater(high)'
    <3>1. \A p : SumOfPayments(PaymentsOf(p))' = SumOfPayments(PaymentsOf(p))
      BY <2>1 DEF SumOfPayments, PaymentsOf
    <3>2. \A r \in Requests : Within(req[r], high[req[r].plan])'
                                = Within(req[r], high[req[r].plan])
      BY <2>1 DEF Within
    <3> QED
      BY <2>1, <2>4, <3>1, <3>2 DEF HighWater
  <2> QED
    BY <2>2, <2>3, <2>5 DEF PlansInv
<1> QED
  BY <1>1, <1>2, <1>3, <1>4, <1>5, <1>6 DEF Next

\* The inductive invariant: rows, payments and answers agree, and the payments of
\* a plan cover every mark its installments have reached, even those that a
\* request in flight still carries (recordPayment).
THEOREM Invariance == Spec => []PlansInv
<1>1. Init => PlansInv
  BY InitInv
<1>2. PlansInv /\ [Next]_vars => PlansInv'
  BY NextInv
<1> QED
  BY <1>1, <1>2, PTL DEF Spec

\* Invoices, Payment rows, plans and requests keep the shape the schema gives
\* them, whatever the API and the webhooks write (payment-plans.service.ts).
THEOREM TypeCorrect == Spec => []TypeOK
<1>1. PlansInv => TypeOK
  <2> SUFFICES ASSUME PlansInv PROVE TypeOK
    OBVIOUS
  <2>1. \A r \in Requests :
           req[r].step \in {"idle", "create", "check", "commit", "cancel"}
    BY CallShape DEF PlansInv
  <2> QED
    BY <2>1 DEF PlansInv, RowsInv, TypeOK
<1> QED
  BY <1>1, Invariance, PTL

\* A request answered with success, at once, as a replay or after a duplicate
\* reference, has its payment (findExistingPayment, the P2002 branch).
THEOREM AnswersRecorded == Spec => []AnsweredIsRecorded
<1>1. PlansInv => AnsweredIsRecorded
  BY DEF PlansInv
<1> QED
  BY <1>1, Invariance, PTL

\* An invoice's paidCents is the sum of its payments, and the installments of a
\* plan never show more than was collected under the plan, though recordPayment
\* writes installments that other requests have moved since it read them.
THEOREM LedgersAlwaysAgree == Spec => []LedgersAgree
<1>1. PlansInv => LedgersAgree
  <2> SUFFICES ASSUME PlansInv PROVE LedgersAgree
    OBVIOUS
  <2>1. \A i \in Invoices :
           paid[i] = SumOfPayments({ref \in DOMAIN payment : payment[ref].invoice = i})
    BY DEF PlansInv, PaidInv, Of
  <2>2. PICK high : HighWater(high)
    BY DEF PlansInv
  <2>3. ASSUME NEW p \in Plans
        PROVE  SumFunction(plan[p].got) <= SumOfPayments(PaymentsOf(p))
    <3>1. PICK got, mark : got = plan[p].got /\ mark = high[p]
      OBVIOUS
    <3>2. got \in [Seqs -> Nat] /\ mark \in [Seqs -> Nat]
      BY <2>2, <3>1 DEF PlansInv, RowsInv, PlanRow, HighWater
    <3>3. \A k \in Seqs : got[k] <= mark[k]
      BY <2>2, <3>1 DEF HighWater
    <3>4. SumFunctionOnSet(got, Seqs) <= SumFunctionOnSet(mark, Seqs)
      <4>1. \A k \in Seqs : got[k] \in Int /\ mark[k] \in Int /\ got[k] <= mark[k]
        BY <3>2, <3>3
      <4> QED
        BY <4>1, SeqsFact, SumAtMost
    <3>5. SumFunction(got) <= SumFunction(mark)
      BY <3>2, <3>4 DEF SumFunction
    <3>6. SumFunction(mark) <= SumOfPayments(PaymentsOf(p))
      BY <2>2, <3>1 DEF HighWater
    <3>7. SumFunction(got) \in Nat /\ SumFunction(mark) \in Nat
      BY <3>2, MarksSum
    <3>8. SumOfPayments(PaymentsOf(p)) \in Nat
      BY PaymentsSum DEF PlansInv
    <3> QED
      BY <3>1, <3>5, <3>6, <3>7, <3>8
  <2> QED
    BY <2>1, <2>3 DEF LedgersAgree
<1> QED
  BY <1>1, Invariance, PTL
-----------------------------------------------------------------------------
(***************************************************************************)
(* Requests that come one after the other                                   *)
(***************************************************************************)
\* The rows of plans and invoices tell one story.
Settled ==
    /\ PlanIsExact /\ SingleActivePlan /\ NoOverpayment
    /\ \A p \in Plans, k \in Seqs :
          /\ plan[p].got[k] <= plan[p].due[k]
          /\ plan[p].status = "NONE" => plan[p].got[k] = 0

\* What is to be written was computed from the rows as they are.
Computed(q) ==
    \E amount \in Nat, fill \in [Seqs -> Nat] :
        /\ q.share = OldestFirst(OpenBalance, amount)
        /\ amount <= SumFunction(OpenBalance)
        /\ q.settles = {i \in Invoices : q.share[i] = OpenBalance[i]}
        /\ fill = OldestFirst(Remaining(q.plan, plan[q.plan].got), amount)
        /\ amount <= SumFunction(Remaining(q.plan, plan[q.plan].got))
        /\ q.got = [k \in {s \in Seqs : fill[s] > 0} |-> plan[q.plan].got[k] + fill[k]]
        /\ q.completes <=>
              \A k \in Seqs : plan[q.plan].got[k] + fill[k] >= plan[q.plan].due[k]

\* What a request has read is what the rows are.
UpToDate(q) ==
    /\ q.step = "create" =>
          /\ plan[q.plan].status = "NONE" /\ q.total > 0
          /\ \A p \in Plans : plan[p].status # "ACTIVE"
    /\ q.step = "check" =>
          /\ plan[q.plan].got = q.got /\ plan[q.plan].status = q.status
          /\ q.status # "NONE"
    /\ q.step = "commit" => plan[q.plan].status = "ACTIVE" /\ Computed(q)
    /\ q.step = "cancel" => plan[q.plan].status = "ACTIVE"

AloneInv ==
    overlapped \/ /\ \A q, r \in Requests : req[q] # Idle /\ req[r] # Idle => q = r
                  /\ Settled
                  /\ \A r \in Requests : UpToDate(req[r])

avars == <<vars, overlapped>>

\* Rows that stay, and what requests have read of them.
LEMMA RowsStay ==
    ASSUME UNCHANGED rows
    PROVE  /\ Settled' = Settled
           /\ \A p \in Plans : plan'[p] = plan[p]
  BY DEF rows, Settled, PlanIsExact, SingleActivePlan, NoOverpayment, SumOfPayments,
         PaymentsOf

LEMMA InitAlone == MCInit => AloneInv
<1> SUFFICES ASSUME MCInit PROVE AloneInv
  OBVIOUS
<1>1. /\ \A r \in Requests : req[r] = Idle /\ req[r].step = "idle"
      /\ \A p \in Plans : plan[p] = NoPlan
      /\ DOMAIN payment = {}
      /\ \A i \in Invoices : paid[i] = 0 /\ invStatus[i] = "PENDING"
  BY DEF MCInit, Init, Idle
<1>2. \A r \in Requests : UpToDate(req[r])
  BY <1>1 DEF UpToDate
<1>3. PlanIsExact
  <2> SUFFICES ASSUME NEW p \in Plans
               PROVE  /\ SumFunction(plan[p].got) = SumOfPayments(PaymentsOf(p))
                      /\ \A j, k \in Seqs : j < k /\ plan[p].got[k] > 0 =>
                            plan[p].got[j] = plan[p].due[j]
                      /\ plan[p].status = "ACTIVE" => plan[p].got # plan[p].due
                      /\ plan[p].status = "COMPLETED" => plan[p].got = plan[p].due
    BY DEF PlanIsExact
  <2>1. PICK zero : zero = [k \in Seqs |-> 0]
    OBVIOUS
  <2>2. plan[p].got = zero /\ plan[p].status = "NONE"
    BY <1>1, <2>1 DEF NoPlan
  <2>3. SumFunction(zero) = 0
    BY <2>1, SeqsFact, SumZero DEF SumFunction
  <2>4. SumOfPayments(PaymentsOf(p)) = 0
    <3>1. PaymentsOf(p) = {}
      BY <1>1 DEF PaymentsOf
    <3> QED
      BY <3>1, SumEmpty DEF SumOfPayments, SumFunction
  <2> QED
    BY <2>1, <2>2, <2>3, <2>4
<1>4. SingleActivePlan
  BY <1>1 DEF SingleActivePlan, NoPlan
<1>5. \A p \in Plans, k \in Seqs :
         /\ plan[p].got[k] <= plan[p].due[k]
         /\ plan[p].status = "NONE" => plan[p].got[k] = 0
  BY <1>1 DEF NoPlan
<1>6. NoOverpayment
  BY <1>1, InvoicesAssumption DEF NoOverpayment
<1> QED
  BY <1>1, <1>2, <1>3, <1>4, <1>5, <1>6 DEF AloneInv, Settled

\* An installment is filled only after the earlier ones are full.
LEMMA OldestFirstOrder ==
    ASSUME NEW need, NEW D \in SUBSET Nat, IsFiniteSet(D), need \in [D -> Nat],
           NEW amount \in Nat, NEW j \in D, NEW k \in D, j < k,
           OldestFirst(need, amount)[k] > 0
    PROVE  OldestFirst(need, amount)[j] = need[j]
<1> DEFINE s(n) == SumFunctionOnSet(need, Before(D, n))
<1>1. \A n \in D : OldestFirst(need, amount)[n] = Least(need[n], Over(amount, s(n)))
  BY DEF OldestFirst, Before
<1>2. \A n \in D : need[n] \in Nat /\ need[n] \in Int /\ n \in Nat
  OBVIOUS
<1>3. \A n : Before(D, n) \in SUBSET D /\ IsFiniteSet(Before(D, n))
  BY FS_Subset DEF Before
<1>4. \A n : s(n) \in Nat
  <2> SUFFICES ASSUME NEW n PROVE s(n) \in Nat
    OBVIOUS
  <2>1. \A i \in Before(D, n) : need[i] \in Nat
    BY <1>2, <1>3
  <2> QED
    BY <1>3, <2>1, SumNat
<1>5. s(j) + need[j] <= s(k)
  <2>1. PICK T, U : T = Before(D, j) \cup {j} /\ U = Before(D, k) \ T
    OBVIOUS
  <2>2. j \in T /\ T \ {j} = Before(D, j) /\ T \in SUBSET D
    BY <1>2, <1>3, <2>1 DEF Before
  <2>3. T \in SUBSET Before(D, k)
    <3>1. \A i \in Before(D, j) : i < k
      BY <1>2 DEF Before
    <3> QED
      BY <2>1, <3>1 DEF Before
  <2>4. T \cup U = Before(D, k) /\ T \cap U = {} /\ IsFiniteSet(T) /\ IsFiniteSet(U)
    BY <1>3, <2>1, <2>3, FS_Subset
  <2>5. \A i \in T \cup U : need[i] \in Int
    BY <1>2, <1>3, <2>4
  <2>6. SumFunctionOnSet(need, T \cup U)
          = SumFunctionOnSet(need, T) + SumFunctionOnSet(need, U)
    BY <2>4, <2>5, SumUnion
  <2>7. SumFunctionOnSet(need, T) = need[j] + SumFunctionOnSet(need, T \ {j})
    <3>1. PICK x : x = j
      OBVIOUS
    <3>2. x \in T /\ \A i \in T : need[i] \in Int
      BY <2>2, <2>5, <3>1
    <3>3. SumFunctionOnSet(need, T) = need[x] + SumFunctionOnSet(need, T \ {x})
      BY <2>4, <3>2, SumRemove
    <3> QED
      BY <3>1, <3>3
  <2>8. SumFunctionOnSet(need, U) \in Nat
    <3>1. \A i \in U : need[i] \in Nat
      BY <1>2, <1>3, <2>1
    <3> QED
      BY <2>4, <3>1, SumNat
  <2>9. s(k) = need[j] + s(j) + SumFunctionOnSet(need, U)
    BY <2>2, <2>4, <2>6, <2>7
  <2> QED
    BY <1>2, <1>4, <2>8, <2>9
<1> HIDE DEF s
<1>6. \A a, b, c, d, e \in Nat :
         Least(b, Over(a, c)) > 0 /\ d + e <= c => Least(e, Over(a, d)) = e
  BY DEF Least, Over
<1>7. need[k] \in Nat /\ need[j] \in Nat /\ s(j) \in Nat /\ s(k) \in Nat
  BY <1>2, <1>4
<1> QED
  BY <1>1, <1>5, <1>6, <1>7

LEMMA SplitPositive ==
    ASSUME NEW total \in Nat \ {0}
    PROVE  1 \in Seqs /\ SplitIntoInstallments(total)[1] > 0
<1>1. /\ total \div Count \in Nat /\ total % Count \in Nat
      /\ total = Count * (total \div Count) + (total % Count)
  BY CountAssumption, DivMod
<1>2. 1 \in Seqs
  BY CountAssumption DEF Seqs
<1>3. SplitIntoInstallments(total)[1]
        = total \div Count + IF 1 <= total % Count THEN 1 ELSE 0
  BY <1>2 DEF SplitIntoInstallments
<1>4. CASE total \div Count = 0
  <2>1. Count * (total \div Count) = 0
    BY <1>4, CountAssumption
  <2> QED
    BY <1>1, <1>2, <1>3, <1>4, <2>1
<1>5. CASE total \div Count # 0
  BY <1>1, <1>2, <1>3, <1>5
<1> QED
  BY <1>4, <1>5

\* One request at most is in flight.
OneInFlight == \A q, r \in Requests : req[q] # Idle /\ req[r] # Idle => q = r

Alone == PlansInv /\ OneInFlight /\ Settled /\ \A r \in Requests : UpToDate(req[r])

\* What has to hold after a step of a request that is alone.
StaysAlone == Settled' /\ (\A r \in Requests : UpToDate(req[r])') /\ FinishedIsClosed

LEMMA AllIdle ==
    ASSUME \A r \in Requests : req'[r] = Idle
    PROVE  \A r \in Requests : UpToDate(req[r])'
  BY DEF UpToDate, Idle

LEMMA EndsAlone ==
    ASSUME Alone, NEW r \in Requests, req[r].step # "idle", Goto(r, Idle)
    PROVE  \A q \in Requests : UpToDate(req[q])'
<1>1. req[r] # Idle /\ req \in [Requests -> Calls]
  BY DEF Idle, Alone, PlansInv, RowsInv
<1>2. \A q \in Requests : req'[q] = Idle
  BY <1>1 DEF Goto, Alone, OneInFlight
<1> QED
  BY <1>2, AllIdle

LEMMA ReadsAlone ==
    ASSUME Alone, OneInFlight', NEW r \in Requests, NEW c, c.step # "idle",
           req' = [req EXCEPT ![r] = c], UpToDate(req[r])', UNCHANGED rows
    PROVE  StaysAlone
<1>1. \A q \in Requests : req'[q] = IF q = r THEN c ELSE req[q]
  BY DEF Alone, PlansInv, RowsInv
<1>2. \A q \in Requests : q # r => req'[q] = Idle
  <2>1. req'[r] # Idle
    BY <1>1 DEF Idle
  <2> QED
    BY <2>1 DEF OneInFlight
<1>3. ASSUME NEW q \in Requests PROVE UpToDate(req[q])'
  <2>1. CASE q = r
    BY <2>1
  <2>2. CASE q # r
    BY <1>2, <2>2 DEF UpToDate, Idle
  <2> QED
    BY <2>1, <2>2
<1>4. Settled' /\ FinishedIsClosed
  BY RowsStay DEF Alone, FinishedIsClosed
<1> QED
  BY <1>3, <1>4 DEF StaysAlone

LEMMA QuietAlone ==
    ASSUME Alone, NEW r \in Requests, req[r].step # "idle", Goto(r, Idle),
           UNCHANGED rows
    PROVE  StaysAlone
  BY EndsAlone, RowsStay DEF Alone, StaysAlone, FinishedIsClosed

\* The plans but one stay; that one's row is exact.
LEMMA PlanStep ==
    ASSUME Alone, UNCHANGED <<paid, invStatus, payment>>, NEW p \in Plans, NEW row,
           plan' = [plan EXCEPT ![p] = row], row \in PlanRow,
           SumFunction(row.got) = SumFunction(plan[p].got),
           \A j, k \in Seqs : j < k /\ row.got[k] > 0 => row.got[j] = row.due[j],
           \A k \in Seqs : row.got[k] <= row.due[k],
           row.status = "ACTIVE" =>
              /\ row.got # row.due /\ \A o \in Plans : plan[o].status # "ACTIVE",
           row.status \notin {"COMPLETED", "NONE"}
    PROVE  Settled'
<1>1. \A o \in Plans : plan'[o] = IF o = p THEN row ELSE plan[o]
  BY DEF Alone, PlansInv, RowsInv
<1>2. \A o \in Plans : SumOfPayments(PaymentsOf(o))' = SumOfPayments(PaymentsOf(o))
  BY DEF SumOfPayments, PaymentsOf
<1>3. PlanIsExact'
  <2> SUFFICES ASSUME NEW o \in Plans
               PROVE  /\ SumFunction(plan'[o].got) = SumOfPayments(PaymentsOf(o))'
                      /\ \A j, k \in Seqs : j < k /\ plan'[o].got[k] > 0 =>
                            plan'[o].got[j] = plan'[o].due[j]
                      /\ plan'[o].status = "ACTIVE" => plan'[o].got # plan'[o].due
                      /\ plan'[o].status = "COMPLETED" => plan'[o].got = plan'[o].due
    BY DEF PlanIsExact
  <2>1. SumFunction(plan[o].got) = SumOfPayments(PaymentsOf(o))
    BY DEF Alone, Settled, PlanIsExact
  <2>2. CASE o = p
    BY <1>1, <1>2, <2>1, <2>2
  <2>3. CASE o # p
    BY <1>1, <1>2, <2>1, <2>3 DEF Alone, Settled, PlanIsExact
  <2> QED
    BY <2>2, <2>3
<1>4. SingleActivePlan'
  BY <1>1 DEF Alone, Settled, SingleActivePlan
<1>5. NoOverpayment'
  BY DEF Alone, Settled, NoOverpayment
<1>6. \A o \in Plans, k \in Seqs :
         /\ plan'[o].got[k] <= plan'[o].due[k]
         /\ plan'[o].status = "NONE" => plan'[o].got[k] = 0
  BY <1>1 DEF Alone, Settled
<1> QED
  BY <1>3, <1>4, <1>5, <1>6 DEF Settled

LEMMA CreateAlone ==
    ASSUME Alone, OneInFlight', NEW r \in Requests, Create(r)
    PROVE  StaysAlone
<1>1. ASSUME NEW p \in Plans, NEW total, CreateRead(r, p, total) PROVE StaysAlone
  <2>1. PICK c : c = [step |-> "create", plan |-> p, total |-> total]
    OBVIOUS
  <2>2. /\ req' = [req EXCEPT ![r] = c] /\ UNCHANGED rows /\ UNCHANGED plan
        /\ plan[p].status = "NONE" /\ total > 0
        /\ \A other \in Plans : plan[other].status # "ACTIVE"
    BY <1>1, <2>1 DEF CreateRead, Goto, rows
  <2>3. req'[r] = c
    BY <2>2 DEF Alone, PlansInv, RowsInv
  <2>4. UpToDate(req[r])'
    BY <2>1, <2>2, <2>3 DEF UpToDate
  <2> QED
    BY <2>1, <2>2, <2>4, ReadsAlone
<1>2. CASE CreateInsert(r)
  <2>1. PICK p, total, zero : /\ p = req[r].plan /\ total = req[r].total
                              /\ zero = [k \in Seqs |-> 0]
    OBVIOUS
  <2>2. PICK row : row = [status |-> "ACTIVE", due |-> SplitIntoInstallments(total),
                          got |-> zero]
    OBVIOUS
  <2>3. /\ req[r].step = "create" /\ plan' = [plan EXCEPT ![p] = row]
        /\ Goto(r, Idle) /\ UNCHANGED <<paid, invStatus, payment>>
    BY <1>2, <2>1, <2>2 DEF CreateInsert
  <2>4. p \in Plans /\ total \in Nat
    BY <2>1, <2>3, CallShape DEF Alone, PlansInv, CreateCall
  <2>5. /\ plan[p].status = "NONE" /\ total > 0
        /\ \A o \in Plans : plan[o].status # "ACTIVE"
    BY <2>1, <2>3 DEF Alone, UpToDate
  <2>6. SplitIntoInstallments(total) \in [Seqs -> Nat]
    BY <2>4, SplitIntoInstallmentsType
  <2>7. row \in PlanRow
    BY <2>1, <2>2, <2>6 DEF PlanRow
  <2>8. SumFunction(zero) = SumFunction(plan[p].got)
    <3>1. SumFunction(zero) = 0
      BY <2>1, SeqsFact, SumZero DEF SumFunction
    <3>2. PICK got : got = plan[p].got
      OBVIOUS
    <3>3. DOMAIN got = Seqs /\ \A k \in Seqs : got[k] = 0
      BY <2>4, <2>5, <3>2 DEF Alone, Settled, PlansInv, RowsInv, PlanRow
    <3>4. SumFunction(got) = 0
      BY <3>3, SeqsFact, SumZero DEF SumFunction
    <3> QED
      BY <3>1, <3>2, <3>4
  <2>9. \A k \in Seqs : row.got[k] = 0 /\ row.due[k] \in Nat
    BY <2>1, <2>2, <2>6
  <2>10. row.got # row.due
    <3>1. 1 \in Seqs /\ row.due[1] > 0
      BY <2>2, <2>4, <2>5, SplitPositive
    <3> QED
      BY <2>9, <3>1
  <2>11. Settled'
    <3>1. \A k \in Seqs : row.got[k] <= row.due[k]
      BY <2>9
    <3>2. \A j, k \in Seqs : j < k /\ row.got[k] > 0 => row.got[j] = row.due[j]
      BY <2>9
    <3>3. row.status = "ACTIVE" /\ row.got = zero
      BY <2>2
    <3> QED
      BY <2>3, <2>4, <2>5, <2>7, <2>8, <2>10, <3>1, <3>2, <3>3, PlanStep
  <2>12. \A q \in Requests : UpToDate(req[q])'
    BY <2>3, EndsAlone
  <2>13. FinishedIsClosed
    BY <2>3, <2>5 DEF FinishedIsClosed, Alone, PlansInv, RowsInv
  <2> QED
    BY <2>11, <2>12, <2>13 DEF StaysAlone
<1> QED
  BY <1>1, <1>2 DEF Create

LEMMA CancelAlone ==
    ASSUME Alone, OneInFlight', NEW r \in Requests, Cancel(r)
    PROVE  StaysAlone
<1>1. ASSUME NEW p \in Plans, CancelRead(r, p) PROVE StaysAlone
  <2>1. PICK c : c = [step |-> "cancel", plan |-> p]
    OBVIOUS
  <2>2. /\ req' = [req EXCEPT ![r] = c] /\ UNCHANGED rows /\ UNCHANGED plan
        /\ plan[p].status = "ACTIVE"
    BY <1>1, <2>1 DEF CancelRead, Goto, rows
  <2>3. req'[r] = c
    BY <2>2 DEF Alone, PlansInv, RowsInv
  <2>4. UpToDate(req[r])'
    BY <2>1, <2>2, <2>3 DEF UpToDate
  <2> QED
    BY <2>1, <2>2, <2>4, ReadsAlone
<1>2. CASE CancelWrite(r)
  <2>1. PICK p, row : p = req[r].plan /\ row = [plan[p] EXCEPT !.status = "CANCELLED"]
    OBVIOUS
  <2>2. /\ req[r].step = "cancel" /\ plan' = [plan EXCEPT ![p].status = "CANCELLED"]
        /\ Goto(r, Idle) /\ UNCHANGED <<paid, invStatus, payment>>
    BY <1>2, <2>1 DEF CancelWrite
  <2>3. p \in Plans
    BY <2>1, <2>2, CallShape DEF Alone, PlansInv, CancelCall
  <2>4. plan[p].status = "ACTIVE"
    BY <2>1, <2>2 DEF Alone, UpToDate
  <2>5. plan \in [Plans -> PlanRow] /\ plan[p] \in PlanRow
    BY <2>3 DEF Alone, PlansInv, RowsInv
  <2>6. plan' = [plan EXCEPT ![p] = row]
    BY <2>1, <2>2, <2>5
  <2>7. /\ row \in PlanRow /\ row.got = plan[p].got /\ row.due = plan[p].due
        /\ row.status = "CANCELLED"
    BY <2>1, <2>5 DEF PlanRow
  <2>8. Settled'
    <3>1. /\ \A j, k \in Seqs : j < k /\ row.got[k] > 0 => row.got[j] = row.due[j]
          /\ \A k \in Seqs : row.got[k] <= row.due[k]
      BY <2>3, <2>7 DEF Alone, Settled, PlanIsExact
    <3> QED
      BY <2>2, <2>3, <2>6, <2>7, <3>1, PlanStep
  <2>9. \A q \in Requests : UpToDate(req[q])'
    BY <2>2, EndsAlone
  <2>10. FinishedIsClosed
    BY <2>2, <2>4, <2>5 DEF FinishedIsClosed
  <2> QED
    BY <2>8, <2>9, <2>10 DEF StaysAlone
<1> QED
  BY <1>1, <1>2 DEF Cancel

LEMMA BalancesFact ==
    ASSUME RowsInv
    PROVE  /\ OpenBalance \in [Invoices -> Nat] /\ SumFunction(OpenBalance) \in Nat
           /\ \A p \in Plans : Remaining(p, plan[p].got) \in [Seqs -> Nat]
<1>1. \A i \in Invoices : (IF invStatus[i] = "PAID" THEN 0
                           ELSE Over(Total[i], paid[i])) \in Nat
  BY InvoicesAssumption, LeastFact DEF RowsInv
<1>2. PICK open : open = OpenBalance
  OBVIOUS
<1>3. open \in [Invoices -> Nat]
  BY <1>1, <1>2 DEF OpenBalance
<1>4. /\ DOMAIN open = Invoices /\ IsFiniteSet(Invoices)
      /\ \A i \in Invoices : open[i] \in Nat
  BY <1>3, InvoicesAssumption
<1>5. SumFunction(open) \in Nat
  BY <1>4, SumNat DEF SumFunction
<1>6. ASSUME NEW p \in Plans PROVE Remaining(p, plan[p].got) \in [Seqs -> Nat]
  <2>1. plan[p].due \in [Seqs -> Nat] /\ plan[p].got \in [Seqs -> Nat]
    BY DEF RowsInv, PlanRow
  <2>2. \A k \in Seqs : Over(plan[p].due[k], plan[p].got[k]) \in Nat
    BY <2>1, LeastFact
  <2> QED
    BY <2>2 DEF Remaining
<1> QED
  BY <1>2, <1>3, <1>5, <1>6

\* Installments are filled one after the other.
InOrder(got, due) ==
    \A j, k \in Seqs : j < k /\ got[k] > 0 => got[j] = due[j]

LEMMA Filled ==
    ASSUME NEW due \in [Seqs -> Nat], NEW got \in [Seqs -> Nat], InOrder(got, due),
           \A k \in Seqs : got[k] <= due[k],
           NEW need \in [Seqs -> Nat], \A k \in Seqs : need[k] = Over(due[k], got[k]),
           NEW amount \in Nat, amount <= SumFunction(need),
           NEW fill, fill = OldestFirst(need, amount),
           NEW next, next = [k \in Seqs |-> got[k] + fill[k]]
    PROVE  /\ fill \in [Seqs -> Nat] /\ next \in [Seqs -> Nat] /\ InOrder(next, due)
           /\ SumFunction(next) = SumFunction(got) + amount
           /\ \A k \in Seqs : next[k] <= due[k]
<1>1. /\ fill \in [Seqs -> Nat] /\ \A k \in Seqs : fill[k] <= need[k]
      /\ SumFunction(fill) = Least(amount, SumFunction(need))
  BY SeqsFact, OldestFirstSum
<1>2. SumFunction(need) \in Nat
  BY MarksSum
<1>3. SumFunction(fill) = amount
  BY <1>1, <1>2 DEF Least
<1>4. next \in [Seqs -> Nat] /\ \A k \in Seqs : next[k] = got[k] + fill[k]
  BY <1>1
<1>5. SumFunction(next) = SumFunction(got) + amount
  BY <1>1, <1>3, <1>4, MarksPlus
<1>6. \A k \in Seqs : need[k] = due[k] - got[k]
  <2> SUFFICES ASSUME NEW k \in Seqs PROVE need[k] = due[k] - got[k]
    OBVIOUS
  <2>1. due[k] \in Nat /\ got[k] \in Nat /\ got[k] <= due[k]
    OBVIOUS
  <2> QED
    BY <2>1, LeastFact
<1>7. ASSUME NEW k \in Seqs PROVE next[k] <= due[k]
  <2>1. due[k] \in Nat /\ got[k] \in Nat /\ fill[k] \in Nat /\ fill[k] <= need[k]
    BY <1>1
  <2> QED
    BY <1>4, <1>6, <2>1
<1>8. InOrder(next, due)
  <2> SUFFICES ASSUME NEW j \in Seqs, NEW k \in Seqs, j < k, next[k] > 0
               PROVE  next[j] = due[j]
    BY DEF InOrder
  <2>1. /\ due[j] \in Nat /\ got[j] \in Nat /\ fill[j] \in Nat /\ fill[j] <= need[j]
        /\ got[k] \in Nat /\ fill[k] \in Nat
    BY <1>1
  <2>2. CASE got[k] > 0
    <3>1. got[j] = due[j]
      BY <2>2 DEF InOrder
    <3> QED
      BY <1>4, <1>6, <2>1, <3>1
  <2>3. CASE fill[k] > 0
    <3>1. fill[j] = need[j]
      BY <2>3, SeqsFact, OldestFirstOrder
    <3> QED
      BY <1>4, <1>6, <2>1, <3>1
  <2> QED
    BY <1>4, <2>1, <2>2, <2>3
<1> QED
  BY <1>1, <1>4, <1>5, <1>7, <1>8

LEMMA RecordReadAlone ==
    ASSUME Alone, OneInFlight', NEW r \in Requests, NEW p \in Plans, NEW amount, NEW key,
           RecordRead(r, p, amount, key)
    PROVE  StaysAlone
<1>1. PICK c : c = [step |-> "check", plan |-> p, amount |-> amount,
                    ref |-> Reference(p, amount, key),
                    status |-> plan[p].status, got |-> plan[p].got]
  OBVIOUS
<1>2. /\ req' = [req EXCEPT ![r] = c] /\ UNCHANGED rows /\ UNCHANGED plan
      /\ plan[p].status # "NONE"
  BY <1>1 DEF RecordRead, Goto, rows
<1>3. req'[r] = c
  BY <1>2 DEF Alone, PlansInv, RowsInv
<1>4. UpToDate(req[r])'
  BY <1>1, <1>2, <1>3 DEF UpToDate
<1> QED
  BY <1>1, <1>2, <1>4, ReadsAlone

LEMMA RecordEndsAlone ==
    ASSUME Alone, NEW r \in Requests,
           \/ RecordReplay(r) \/ RecordRefused(r)
           \/ RecordDuplicate(r) \/ RecordAborts(r)
    PROVE  StaysAlone
<1>1. Goto(r, Idle) /\ UNCHANGED rows /\ req[r].step \in {"check", "commit"}
  BY DEF RecordReplay, RecordRefused, RecordDuplicate, RecordAborts
<1> QED
  BY <1>1, QuietAlone

LEMMA RecordPrepareAlone ==
    ASSUME Alone, OneInFlight', NEW r \in Requests, RecordPrepare(r)
    PROVE  StaysAlone
<1>1. PICK q : q = req[r]
  OBVIOUS
<1>2. q \in CheckCall /\ q.step = "check" /\ Payable(q) /\ RowsInv
  BY <1>1, CallShape DEF RecordPrepare, Alone, PlansInv
<1>3. /\ q.plan \in Plans /\ q.amount \in Nat
      /\ q.got = plan[q.plan].got /\ q.status = plan[q.plan].status
  BY <1>1, <1>2, MoneyAssumption DEF CheckCall, Alone, UpToDate
<1>4. /\ plan[q.plan].status = "ACTIVE" /\ q.amount <= SumFunction(OpenBalance)
      /\ q.amount <= SumFunction(Remaining(q.plan, q.got))
  BY <1>2, <1>3 DEF Payable
<1>5. PICK share, fill :
        /\ share = OldestFirst(OpenBalance, q.amount)
        /\ fill = OldestFirst(Remaining(q.plan, q.got), q.amount)
  OBVIOUS
<1>6. fill \in [Seqs -> Nat]
  <2>1. Remaining(q.plan, q.got) \in [Seqs -> Nat]
    BY <1>2, <1>3, BalancesFact
  <2> QED
    BY <1>3, <1>5, <2>1, SeqsFact, OldestFirstSum
<1>7. PICK c :
        /\ req' = [req EXCEPT ![r] = c]
        /\ c = [step |-> "commit", plan |-> q.plan, ref |-> q.ref, share |-> share,
                settles |-> {i \in Invoices : share[i] = OpenBalance[i]},
                got |-> [k \in {s \in Seqs : fill[s] > 0} |-> q.got[k] + fill[k]],
                completes |-> \A k \in Seqs :
                                 q.got[k] + fill[k] >= plan[q.plan].due[k]]
  <2> DEFINE next == [k \in Seqs |-> q.got[k] + fill[k]]
  <2>1. [k \in {s \in Seqs : fill[s] > 0} |-> next[k]]
          = [k \in {s \in Seqs : fill[s] > 0} |-> q.got[k] + fill[k]]
    OBVIOUS
  <2>2. (\A k \in Seqs : next[k] >= plan[q.plan].due[k])
          = (\A k \in Seqs : q.got[k] + fill[k] >= plan[q.plan].due[k])
    OBVIOUS
  <2> QED
    BY <1>1, <1>5, <2>1, <2>2 DEF RecordPrepare, Goto
<1>8. UNCHANGED <<paid, invStatus, plan>> /\ UNCHANGED rows
  BY DEF RecordPrepare, rows
<1>9. /\ OpenBalance' = OpenBalance
      /\ \A p, got : Remaining(p, got)' = Remaining(p, got)
  BY <1>8 DEF OpenBalance, Remaining
<1>10. /\ c.step = "commit" /\ c.plan = q.plan /\ c.share = share
       /\ c.settles = {i \in Invoices : share[i] = OpenBalance[i]}
       /\ c.got = [k \in {s \in Seqs : fill[s] > 0} |-> q.got[k] + fill[k]]
       /\ c.completes <=> \A k \in Seqs : q.got[k] + fill[k] >= plan[q.plan].due[k]
  BY <1>7
<1>11. Computed(c)
  BY <1>3, <1>4, <1>5, <1>6, <1>10 DEF Computed
<1>12. req'[r] = c
  BY <1>7 DEF Alone, PlansInv, RowsInv
<1>13. UpToDate(req[r])'
  <2>1. plan'[c.plan].status = "ACTIVE"
    BY <1>4, <1>8, <1>10
  <2>2. Computed(req[r])'
    <3>1. PICK amount \in Nat, given \in [Seqs -> Nat] :
            /\ c.share = OldestFirst(OpenBalance', amount)
            /\ amount <= SumFunction(OpenBalance')
            /\ c.settles = {i \in Invoices : c.share[i] = OpenBalance[i]'}
            /\ given = OldestFirst(Remaining(c.plan, plan[c.plan].got)', amount)
            /\ amount <= SumFunction(Remaining(c.plan, plan[c.plan].got)')
            /\ c.got = [k \in {s \in Seqs : given[s] > 0} |->
                          plan'[c.plan].got[k] + given[k]]
            /\ c.completes <=>
                  \A k \in Seqs : plan'[c.plan].got[k] + given[k] >= plan'[c.plan].due[k]
      BY <1>8, <1>9, <1>11 DEF Computed
    <3> QED
      BY <1>12, <3>1 DEF Computed
  <2> QED
    BY <1>10, <1>12, <2>1, <2>2 DEF UpToDate
<1> QED
  BY <1>7, <1>8, <1>10, <1>13, ReadsAlone

\* An invoice is paid at most its total, and marked when it is.
LEMMA CommitInvoices ==
    ASSUME RowsInv, NoOverpayment, NEW amount \in Nat, NEW share, NEW settles,
           share = OldestFirst(OpenBalance, amount),
           settles = {i \in Invoices : share[i] = OpenBalance[i]},
           paid' = [i \in Invoices |-> paid[i] + share[i]],
           invStatus' = [i \in Invoices |->
              IF ~ (share[i] > 0) THEN invStatus[i]
              ELSE IF i \in settles THEN "PAID" ELSE "PENDING"]
    PROVE  NoOverpayment'
<1>1. OpenBalance \in [Invoices -> Nat]
  BY BalancesFact
<1>2. share \in [Invoices -> Nat] /\ \A i \in Invoices : share[i] <= OpenBalance[i]
  BY <1>1, InvoicesAssumption, OldestFirstSum
<1>3. ASSUME NEW i \in Invoices
      PROVE  paid'[i] <= Total[i] /\ (invStatus'[i] = "PAID" <=> paid'[i] = Total[i])
  <2>1. PICK t, p, b, s : /\ t = Total[i] /\ p = paid[i] /\ b = OpenBalance[i]
                          /\ s = share[i]
    OBVIOUS
  <2>2. t \in Nat /\ p \in Nat /\ b \in Nat /\ s \in Nat /\ s <= b
    BY <1>1, <1>2, <2>1, InvoicesAssumption DEF RowsInv
  <2>3. /\ p <= t /\ (invStatus[i] = "PAID" <=> p = t)
        /\ b = IF invStatus[i] = "PAID" THEN 0 ELSE Over(t, p)
    BY <2>1 DEF NoOverpayment, OpenBalance
  <2>4. b = t - p
    BY <2>2, <2>3 DEF Over
  <2>5. paid'[i] = p + s /\ (i \in settles <=> s = b)
    BY <2>1
  <2>6. invStatus'[i] = IF ~ (s > 0) THEN invStatus[i]
                        ELSE IF i \in settles THEN "PAID" ELSE "PENDING"
    BY <2>1
  <2>7. p + s <= t /\ (s = b <=> p + s = t)
    BY <2>2, <2>4
  <2>8. CASE s > 0
    BY <2>1, <2>5, <2>6, <2>7, <2>8
  <2>9. CASE ~ (s > 0)
    <3>1. s = 0
      BY <2>2, <2>9
    <3> QED
      BY <2>1, <2>2, <2>3, <2>5, <2>6, <2>9, <3>1
  <2> QED
    BY <2>8, <2>9
<1> QED
  BY <1>3 DEF NoOverpayment

LEMMA RecordCommitAlone ==
    ASSUME Alone, NEW r \in Requests, RecordCommit(r)
    PROVE  StaysAlone
<1>1. PICK q : q = req[r]
  OBVIOUS
<1>2. /\ q \in CommitCall /\ q.step = "commit" /\ q.plan \in Plans /\ RowsInv /\ Settled
      /\ PlansInv
  BY <1>1, CallShape, CommitSums DEF RecordCommit, Alone, PlansInv
<1>3. plan[q.plan].status = "ACTIVE" /\ Computed(q)
  BY <1>1, <1>2 DEF Alone, UpToDate
<1>4. PICK amount \in Nat, fill \in [Seqs -> Nat] :
        /\ q.share = OldestFirst(OpenBalance, amount)
        /\ amount <= SumFunction(OpenBalance)
        /\ q.settles = {i \in Invoices : q.share[i] = OpenBalance[i]}
        /\ fill = OldestFirst(Remaining(q.plan, plan[q.plan].got), amount)
        /\ amount <= SumFunction(Remaining(q.plan, plan[q.plan].got))
        /\ q.got = [k \in {s \in Seqs : fill[s] > 0} |-> plan[q.plan].got[k] + fill[k]]
        /\ q.completes <=>
              \A k \in Seqs : plan[q.plan].got[k] + fill[k] >= plan[q.plan].due[k]
  BY <1>3 DEF Computed
<1>5. PICK p, due, got, need, next :
        /\ p = q.plan /\ due = plan[p].due /\ got = plan[p].got
        /\ need = Remaining(p, got) /\ next = [k \in Seqs |-> got[k] + fill[k]]
  OBVIOUS
<1>6. /\ p \in Plans /\ due \in [Seqs -> Nat] /\ got \in [Seqs -> Nat]
      /\ plan \in [Plans -> PlanRow] /\ plan[p] \in PlanRow
  BY <1>2, <1>5 DEF RowsInv, PlanRow
<1>7. need \in [Seqs -> Nat] /\ \A k \in Seqs : need[k] = Over(due[k], got[k])
  <2>1. need \in [Seqs -> Nat]
    BY <1>2, <1>5, <1>6, BalancesFact
  <2> QED
    BY <1>5, <2>1 DEF Remaining
<1>8. InOrder(got, due) /\ \A k \in Seqs : got[k] <= due[k]
  BY <1>2, <1>5, <1>6 DEF Settled, PlanIsExact, InOrder
<1>9. /\ next \in [Seqs -> Nat] /\ InOrder(next, due)
      /\ SumFunction(next) = SumFunction(got) + amount
      /\ \A k \in Seqs : next[k] <= due[k]
  <2>1. amount <= SumFunction(need) /\ fill = OldestFirst(need, amount)
    BY <1>4, <1>5
  <2> QED
    BY <1>5, <1>6, <1>7, <1>8, <2>1, Filled
<1>10. SumFunction(q.share) = amount
  <2>1. OpenBalance \in [Invoices -> Nat] /\ SumFunction(OpenBalance) \in Nat
    BY <1>2, BalancesFact
  <2>2. SumFunction(q.share) = Least(amount, SumFunction(OpenBalance))
    BY <1>4, <2>1, InvoicesAssumption, OldestFirstSum
  <2> QED
    BY <1>4, <2>1, <2>2 DEF Least
<1>11. PICK row : row = Written(p, q)
  OBVIOUS
<1>12. row.got = next /\ row \in PlanRow
  <2>1. /\ row \in PlanRow
        /\ \A k \in Seqs : row.got[k] = IF k \in DOMAIN q.got THEN q.got[k] ELSE got[k]
    BY <1>2, <1>5, <1>11, WrittenFact
  <2>2. ASSUME NEW k \in Seqs PROVE row.got[k] = next[k]
    <3>1. got[k] \in Nat /\ fill[k] \in Nat /\ next[k] = got[k] + fill[k]
      BY <1>5, <1>6
    <3>2. CASE fill[k] > 0
      BY <1>4, <1>5, <2>1, <3>1, <3>2
    <3>3. CASE ~ (fill[k] > 0)
      BY <1>4, <1>5, <2>1, <3>1, <3>3
    <3> QED
      BY <3>2, <3>3
  <2>3. row.got \in [Seqs -> Nat]
    BY <2>1 DEF PlanRow
  <2> QED
    BY <1>9, <2>1, <2>2, <2>3
<1>13. /\ row.due = due
       /\ row.status = IF q.completes THEN "COMPLETED" ELSE "ACTIVE"
  BY <1>3, <1>5, <1>6, <1>11 DEF Written, PlanRow
<1>14. q.completes <=> next = due
  <2>1. q.completes <=> \A k \in Seqs : next[k] >= due[k]
    BY <1>4, <1>5
  <2>2. ASSUME NEW k \in Seqs PROVE next[k] >= due[k] <=> next[k] = due[k]
    <3>1. next[k] \in Nat /\ due[k] \in Nat /\ next[k] <= due[k]
      BY <1>6, <1>9
    <3> QED
      BY <3>1
  <2>3. (\A k \in Seqs : next[k] = due[k]) <=> next = due
    BY <1>6, <1>9
  <2> QED
    BY <2>1, <2>2, <2>3
<1>15. \A o \in Plans : plan'[o] = IF o = p THEN row ELSE plan[o]
  BY <1>1, <1>5, <1>6, <1>11 DEF RecordCommit
<1>16. PlanIsExact'
  <2> SUFFICES ASSUME NEW o \in Plans
               PROVE  /\ SumFunction(plan'[o].got) = SumOfPayments(PaymentsOf(o))'
                      /\ \A j, k \in Seqs : j < k /\ plan'[o].got[k] > 0 =>
                            plan'[o].got[j] = plan'[o].due[j]
                      /\ plan'[o].status = "ACTIVE" => plan'[o].got # plan'[o].due
                      /\ plan'[o].status = "COMPLETED" => plan'[o].got = plan'[o].due
    BY DEF PlanIsExact
  <2>1. /\ SumOfPayments(PaymentsOf(o))' = SumOfPayments(PaymentsOf(o))
               + IF o = p THEN SumFunction(q.share) ELSE 0
        /\ SumOfPayments(PaymentsOf(o)) \in Nat
    BY <1>1, <1>2, <1>5, CommitSums
  <2>2. SumFunction(plan[o].got) = SumOfPayments(PaymentsOf(o))
    BY <1>2 DEF Settled, PlanIsExact
  <2>3. CASE o = p
    <3>1. SumFunction(next) = SumOfPayments(PaymentsOf(o))'
      BY <1>5, <1>9, <1>10, <2>1, <2>2, <2>3
    <3> QED
      BY <1>9, <1>12, <1>13, <1>14, <1>15, <2>3, <3>1 DEF InOrder
  <2>4. CASE o # p
    <3>1. SumFunction(plan[o].got) = SumOfPayments(PaymentsOf(o))'
      BY <2>1, <2>2, <2>4
    <3> QED
      BY <1>2, <1>15, <2>4, <3>1 DEF Settled, PlanIsExact
  <2> QED
    BY <2>3, <2>4
<1>17. SingleActivePlan'
  BY <1>2, <1>3, <1>5, <1>15 DEF Settled, SingleActivePlan
<1>18. NoOverpayment'
  <2>1. PICK share, settles : share = q.share /\ settles = q.settles
    OBVIOUS
  <2>2. /\ paid' = [i \in Invoices |-> paid[i] + share[i]]
        /\ invStatus' = [i \in Invoices |->
             IF i \notin Shared(q) THEN invStatus[i]
             ELSE IF i \in settles THEN "PAID" ELSE "PENDING"]
    BY <1>1, <2>1 DEF RecordCommit
  <2>3. invStatus' = [i \in Invoices |->
           IF ~ (share[i] > 0) THEN invStatus[i]
           ELSE IF i \in settles THEN "PAID" ELSE "PENDING"]
    BY <2>1, <2>2 DEF Shared
  <2>4. /\ share = OldestFirst(OpenBalance, amount)
        /\ settles = {i \in Invoices : share[i] = OpenBalance[i]}
    BY <1>4, <2>1
  <2> QED
    BY <1>2, <2>2, <2>3, <2>4, CommitInvoices DEF Settled
<1>19. \A o \in Plans, k \in Seqs :
          /\ plan'[o].got[k] <= plan'[o].due[k]
          /\ plan'[o].status = "NONE" => plan'[o].got[k] = 0
  BY <1>2, <1>9, <1>12, <1>13, <1>15 DEF Settled
<1>20. FinishedIsClosed
  BY <1>3, <1>5, <1>15 DEF FinishedIsClosed
<1>21. \A o \in Requests : UpToDate(req[o])'
  BY <1>1, <1>2, EndsAlone DEF RecordCommit
<1> QED
  BY <1>16, <1>17, <1>18, <1>19, <1>20, <1>21 DEF StaysAlone, Settled

LEMMA RecordAlone ==
    ASSUME Alone, OneInFlight', NEW r \in Requests, Record(r)
    PROVE  StaysAlone
<1>1. ASSUME NEW p \in Plans, NEW amount \in Amounts, NEW key \in Keys \cup {NoKey},
             RecordRead(r, p, amount, key)
      PROVE  StaysAlone
  BY <1>1, RecordReadAlone
<1>2. CASE RecordPrepare(r)
  BY <1>2, RecordPrepareAlone
<1>3. CASE RecordCommit(r)
  BY <1>3, RecordCommitAlone
<1>4. CASE \/ RecordReplay(r) \/ RecordRefused(r)
           \/ RecordDuplicate(r) \/ RecordAborts(r)
  BY <1>4, RecordEndsAlone
<1> QED
  BY <1>1, <1>2, <1>3, <1>4 DEF Record

\* A webhook that settles while no request is in flight: its payment is of no
\* plan, and the invoice gets no more than its total.
LEMMA OnlineAlone ==
    ASSUME Alone, NEW o \in OnlineOrders, NEW i \in Invoices, NEW amount \in 1..Total[i],
           OnlineSettle(o, i, amount), \A r \in Requests : req[r] = Idle
    PROVE  StaysAlone
<1>1. PICK ref : ref = <<o>>
  OBVIOUS
<1>2. /\ InsertPayments([k \in {ref} |-> [invoice |-> i, amount |-> amount]])
      /\ ref \notin DOMAIN payment /\ UNCHANGED <<plan, req>>
  BY <1>1 DEF OnlineSettle
<1>3. /\ DOMAIN payment' = DOMAIN payment \cup {ref}
      /\ \A other \in DOMAIN payment : payment'[other] = payment[other]
  BY <1>2 DEF InsertPayments
<1>4. ref[1] \notin PlanRefs
  BY <1>1, OnlineAssumption DEF PlanRefs
<1>5. \A p \in Plans : SumOfPayments(PaymentsOf(p))' = SumOfPayments(PaymentsOf(p))
  <2> SUFFICES ASSUME NEW p \in Plans
               PROVE  SumOfPayments(PaymentsOf(p))' = SumOfPayments(PaymentsOf(p))
    OBVIOUS
  <2>1. PaymentsOf(p)' = PaymentsOf(p) /\ PaymentsOf(p) \in SUBSET DOMAIN payment
    BY <1>3, <1>4 DEF PaymentsOf
  <2>2. PICK R : R = PaymentsOf(p)
    OBVIOUS
  <2>3. [k \in R |-> payment'[k].amount] = [k \in R |-> payment[k].amount]
    BY <1>3, <2>1, <2>2
  <2> QED
    BY <2>1, <2>2, <2>3 DEF SumOfPayments
<1>6. PlanIsExact' /\ SingleActivePlan'
  <2>1. SingleActivePlan'
    BY <1>2 DEF Alone, Settled, SingleActivePlan
  <2>2. \A p \in Plans : SumFunction(plan'[p].got) = SumOfPayments(PaymentsOf(p))'
    BY <1>2, <1>5 DEF Alone, Settled, PlanIsExact
  <2> QED
    BY <1>2, <2>1, <2>2 DEF Alone, Settled, PlanIsExact
<1>7. NoOverpayment'
  <2> SUFFICES ASSUME NEW m \in Invoices
               PROVE  /\ paid'[m] <= Total[m]
                      /\ invStatus'[m] = "PAID" <=> paid'[m] = Total[m]
    BY DEF NoOverpayment
  <2>1. /\ paid \in [Invoices -> Nat] /\ invStatus \in [Invoices -> {"PENDING", "PAID"}]
        /\ paid[m] <= Total[m] /\ (invStatus[m] = "PAID" <=> paid[m] = Total[m])
    BY DEF Alone, PlansInv, RowsInv, Settled, NoOverpayment
  <2>2. amount \in Nat /\ Total[i] \in Nat
    <3>1. Total[i] \in Nat
      BY InvoicesAssumption
    <3> QED
      BY <3>1
  <2>3. CASE m = i
    <3>1. /\ paid'[i] = paid[i] + amount /\ paid[i] + amount <= Total[i]
          /\ invStatus'[i] = IF paid[i] + amount >= Total[i] THEN "PAID" ELSE "PENDING"
      BY <2>1 DEF OnlineSettle
    <3> QED
      BY <2>1, <2>2, <2>3, <3>1
  <2>4. CASE m # i
    <3>1. paid'[m] = paid[m] /\ invStatus'[m] = invStatus[m]
      BY <2>1, <2>4 DEF OnlineSettle
    <3> QED
      BY <2>1, <3>1
  <2> QED
    BY <2>3, <2>4
<1>8. Settled'
  BY <1>2, <1>6, <1>7 DEF Alone, Settled
<1>9. \A r \in Requests : UpToDate(req[r])'
  BY <1>2, AllIdle
<1>10. FinishedIsClosed
  BY <1>2 DEF FinishedIsClosed
<1> QED
  BY <1>8, <1>9, <1>10 DEF StaysAlone

LEMMA NextAlone ==
    ASSUME Alone, OneInFlight', Next, req' = req => \A r \in Requests : req[r] = Idle
    PROVE  StaysAlone
<1>1. ASSUME NEW r \in Requests, Create(r) \/ Record(r) \/ Cancel(r) PROVE StaysAlone
  BY <1>1, CreateAlone, RecordAlone, CancelAlone
<1>2. ASSUME NEW o \in OnlineOrders, NEW i \in Invoices, NEW amount \in 1..Total[i],
             OnlineSettle(o, i, amount)
      PROVE  StaysAlone
  <2>1. \A r \in Requests : req[r] = Idle
    BY <1>2 DEF OnlineSettle
  <2> QED
    BY <1>2, <2>1, OnlineAlone
<1>3. CASE Restart
  <2>1. UNCHANGED rows /\ \A r \in Requests : req'[r] = Idle
    BY <1>3 DEF Restart
  <2> QED
    BY <2>1, AllIdle, RowsStay DEF Alone, StaysAlone, FinishedIsClosed
<1> QED
  BY <1>1, <1>2, <1>3 DEF Next

\* What ExactWhenAlone says of one step.
StaysExact ==
    overlapped' \/ /\ PlanIsExact' /\ SingleActivePlan' /\ NoOverpayment'
                   /\ FinishedIsClosed

LEMMA AloneStep ==
    ASSUME PlansInv, AloneInv, MCNext
    PROVE  AloneInv' /\ StaysExact
<1>1. CASE overlapped'
  BY <1>1 DEF AloneInv, StaysExact
<1>2. CASE ~ overlapped'
  <2>1. /\ ~ overlapped /\ Next
        /\ ~ \E q, r \in InFlight' : q # r
        /\ ~ (req' = req /\ InFlight # {})
    BY <1>2 DEF MCNext
  <2>2. OneInFlight' /\ (req' = req => \A r \in Requests : req[r] = Idle)
    BY <2>1 DEF OneInFlight, InFlight
  <2>3. Alone
    BY <2>1 DEF AloneInv, Alone, OneInFlight
  <2>4. StaysAlone
    BY <2>1, <2>2, <2>3, NextAlone
  <2>5. AloneInv'
    BY <2>2, <2>4 DEF AloneInv, StaysAlone, OneInFlight
  <2>6. StaysExact
    BY <2>4 DEF StaysExact, StaysAlone, Settled
  <2> QED
    BY <2>5, <2>6
<1> QED
  BY <1>1, <1>2

LEMMA AloneStutter ==
    ASSUME AloneInv, UNCHANGED avars
    PROVE  AloneInv'
<1>1. UNCHANGED rows /\ req' = req /\ overlapped' = overlapped /\ UNCHANGED plan
      /\ UNCHANGED <<paid, invStatus>>
  BY DEF avars, vars, rows
<1>2. Settled' = Settled
  BY <1>1, RowsStay
<1>3. \A r \in Requests : UpToDate(req[r])' = UpToDate(req[r])
  BY <1>1 DEF UpToDate, Computed, OpenBalance, Remaining
<1> QED
  BY <1>1, <1>2, <1>3 DEF AloneInv

\* While requests come one after the other, whatever they are, however they end
\* and whichever webhooks settle between them, a plan shows what was paid under
\* it, oldest first, and is complete exactly when it is paid; there is one active
\* plan at most, no invoice is overpaid, and a plan that is finished stays as it
\* is (create, recordPayment, cancel).
THEOREM ExactAlone == MCSpec => ExactWhenAlone
<1>1. MCInit => Init /\ AloneInv
  BY InitAlone DEF MCInit
<1>2. [MCNext]_avars => [Next]_vars
  BY DEF MCNext, avars
<1>3. PlansInv /\ AloneInv /\ [MCNext]_avars => AloneInv' /\ [StaysExact]_avars
  BY AloneStep, AloneStutter
<1>4. Init => PlansInv
  BY InitInv
<1>5. PlansInv /\ [Next]_vars => PlansInv'
  BY NextInv
<1> QED
  BY <1>1, <1>2, <1>3, <1>4, <1>5, PTL DEF MCSpec, ExactWhenAlone, StaysExact, avars
=============================================================================

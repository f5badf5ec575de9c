---------------------------- MODULE PaymentPlans ----------------------------
(***************************************************************************)
(* Payment plans: the arrears of one unit are split into installments, and  *)
(* an administrator records what the resident pays                          *)
(* (apps/api/src/payment-plans).  The invoices behind the plan are collected *)
(* by payments.service.ts at the same time.                                 *)
(*                                                                          *)
(* A request reads in steps of its own and writes in one transaction at the *)
(* end.  The reads are outside that transaction, so Serializable isolation  *)
(* does not see them.                                                       *)
(***************************************************************************)
EXTENDS Naturals, FiniteSets, Functions

CONSTANTS
    Invoices,      \* the unit's invoices, as numbers, oldest first
    Total,         \* Invoice.totalCents
    Plans,         \* identities of PaymentPlan rows
    Count,         \* installmentCount
    PlanTotals,    \* values of totalCents an administrator asks for
    Amounts,       \* amounts an administrator records
    Keys,          \* idempotency keys
    NoKey,         \* the request carries none
    OnlineOrders,  \* checkout orders that webhooks settle meanwhile
    Requests       \* API requests in flight

\* An invoice of nothing has no balance: it takes no share and no order.
ASSUME InvoicesAssumption ==
    /\ IsFiniteSet(Invoices) /\ Invoices \subseteq Nat
    /\ Total \in [Invoices -> Nat \ {0}]
ASSUME CountAssumption == Count \in Nat \ {0}
ASSUME MoneyAssumption == PlanTotals \cup Amounts \subseteq Nat \ {0}
ASSUME NoKeyAssumption == NoKey \notin Keys
\* References of plan payments have a prefix of their own.
ASSUME OnlineAssumption == OnlineOrders \cap (Plans \X (Amounts \cup Keys)) = {}

VARIABLES
    paid,       \* Invoice.paidCents
    invStatus,  \* Invoice.status
    payment,    \* Payment rows, by their unique pspRef
    plan,       \* PaymentPlan rows with their installments
    req,        \* requests, between two awaits
    answered    \* history: references whose request was answered with success

rows == <<paid, invStatus, payment, plan>>
vars == <<paid, invStatus, payment, plan, req, answered>>

Seqs == 1..Count
NoPlan == [status |-> "NONE", due |-> [k \in Seqs |-> 0],
           got |-> [k \in Seqs |-> 0]]
Idle == [step |-> "idle"]

Init ==
    /\ paid = [i \in Invoices |-> 0]
    /\ invStatus = [i \in Invoices |-> "PENDING"]
    /\ payment = [ref \in {} |-> 0]
    /\ plan = [p \in Plans |-> NoPlan]
    /\ req = [r \in Requests |-> Idle]
    /\ answered = {}

(***************************************************************************)
(* Arithmetic                                                               *)
(***************************************************************************)
Least(a, b) == IF a <= b THEN a ELSE b
Over(a, b) == IF a >= b THEN a - b ELSE 0    \* Math.max(0, a - b)

\* splitIntoInstallments: the remainder goes to the earliest, cent by cent.
SplitIntoInstallments(total) ==
    [k \in Seqs |-> total \div Count + IF k <= total % Count THEN 1 ELSE 0]

\* Oldest first: what each need receives of the amount.
OldestFirst(need, amount) ==
    [k \in DOMAIN need |->
        Least(need[k],
              Over(amount, SumFunctionOnSet(need, {j \in DOMAIN need : j < k})))]

Remaining(p, got) == [k \in Seqs |-> Over(plan[p].due[k], got[k])]

\* Mutant: what was already collected of an invoice is not subtracted.
GrossBalance ==
    [i \in Invoices |-> IF invStatus[i] = "PAID" THEN 0 ELSE Total[i]]

\* The balance of the invoices that recordPayment selects.
OpenBalance ==
    [i \in Invoices |->
        IF invStatus[i] = "PAID" THEN 0 ELSE Over(Total[i], paid[i])]

Arrears == SumFunction([i \in Invoices |-> Over(Total[i], paid[i])])

Reference(p, amount, key) == IF key = NoKey THEN <<p, amount>> ELSE <<p, key>>

Goto(r, next) == req' = [req EXCEPT ![r] = next]

(***************************************************************************)
(* create                                                                   *)
(***************************************************************************)
CreateRead(r, p, total) ==
    /\ req[r] = Idle
    /\ plan[p].status = "NONE"
    /\ \A q \in Requests : req[q].step = "create" => req[q].plan # p
    /\ \A other \in Plans : plan[other].status # "ACTIVE"
    /\ total > 0
    /\ Goto(r, [step |-> "create", plan |-> p, total |-> total])
    /\ UNCHANGED <<rows, answered>>

CreateInsert(r) ==
    /\ req[r].step = "create"
    /\ plan' = [plan EXCEPT ![req[r].plan] =
         [status |-> "ACTIVE", due |-> SplitIntoInstallments(req[r].total),
          got |-> [k \in Seqs |-> 0]]]
    /\ Goto(r, Idle)
    /\ UNCHANGED <<paid, invStatus, payment, answered>>

(***************************************************************************)
(* recordPayment: the plan is read, then the payment of that reference and  *)
(* the open invoices, then everything is written at once.                   *)
(***************************************************************************)
RecordRead(r, p, amount, key) ==
    /\ req[r] = Idle
    /\ plan[p].status # "NONE"
    /\ Goto(r, [step |-> "check", plan |-> p, amount |-> amount,
                ref |-> Reference(p, amount, key),
                status |-> plan[p].status, got |-> plan[p].got])
    /\ UNCHANGED <<rows, answered>>

Recorded(ref) == <<ref>> \in DOMAIN payment

\* Mutant: any payment of the plan makes the request a replay.
ReplayOfAnyPayment(r) ==
    /\ req[r].step = "check"
    /\ \E key \in Amounts \cup Keys : Recorded(<<req[r].plan, key>>)
    /\ answered' = answered \cup {req[r].ref}
    /\ Goto(r, Idle)
    /\ UNCHANGED rows

\* findExistingPayment: a replay is answered with the plan as it is.
RecordReplay(r) ==
    /\ req[r].step = "check"
    /\ Recorded(req[r].ref)
    /\ answered' = answered \cup {req[r].ref}
    /\ Goto(r, Idle)
    /\ UNCHANGED rows

Payable(q) ==
    /\ q.status = "ACTIVE"
    /\ q.amount <= SumFunction(Remaining(q.plan, q.got))
    /\ q.amount <= SumFunction(OpenBalance)

RecordRefused(r) ==
    /\ req[r].step = "check"
    /\ ~ Recorded(req[r].ref)
    /\ ~ Payable(req[r])
    /\ Goto(r, Idle)
    /\ UNCHANGED <<rows, answered>>

\* The list of writes, computed from what was read.
RecordPrepare(r) ==
    LET q      == req[r]
        share  == OldestFirst(OpenBalance, q.amount)
        fill   == OldestFirst(Remaining(q.plan, q.got), q.amount)
        next   == [k \in Seqs |-> q.got[k] + fill[k]]
    IN
    /\ q.step = "check"
    /\ ~ Recorded(q.ref)
    /\ Payable(q)
    /\ Goto(r, [step |-> "commit", plan |-> q.plan, ref |-> q.ref,
                share |-> share,
                settles |-> {i \in Invoices : share[i] = OpenBalance[i]},
                got |-> [k \in {s \in Seqs : fill[s] > 0} |-> next[k]],
                completes |-> \A k \in Seqs : next[k] >= plan[q.plan].due[k]])
    /\ UNCHANGED <<rows, answered>>

\* Mutant: shares of nothing are kept.
SharedByAll(q) == DOMAIN q.share

\* The invoices that receive a share; the oldest one's Payment row carries the
\* bare reference, the others "reference:invoice".
Shared(q) == {i \in Invoices : q.share[i] > 0}
PspRef(q, i) ==
    IF \A other \in Shared(q) : i <= other THEN <<q.ref>> ELSE <<q.ref, i>>

NewPayments(q) ==
    [ref \in {PspRef(q, i) : i \in Shared(q)} |->
        LET i == CHOOSE inv \in Shared(q) : PspRef(q, inv) = ref
        IN [invoice |-> i, amount |-> q.share[i]]]

\* Rows are created, under references of their own.
InsertPayments(new) ==
    payment' = [ref \in DOMAIN payment \cup DOMAIN new |->
                  IF ref \in DOMAIN new THEN new[ref] ELSE payment[ref]]

Written(p, q) ==
    [plan[p] EXCEPT
        !.status = IF q.completes THEN "COMPLETED" ELSE @,
        !.got = [k \in Seqs |-> IF k \in DOMAIN q.got THEN q.got[k] ELSE @[k]]]

\* Payment.pspRef is unique.
RefIsFree(ref) == ref \notin DOMAIN payment

RecordCommit(r) ==
    LET q == req[r] IN
    /\ q.step = "commit"
    /\ \A i \in Shared(q) : RefIsFree(PspRef(q, i))
    /\ InsertPayments(NewPayments(q))
    /\ paid' = [i \in Invoices |-> paid[i] + q.share[i]]
    /\ invStatus' = [i \in Invoices |->
         IF i \notin Shared(q) THEN invStatus[i]
         ELSE IF i \in q.settles THEN "PAID" ELSE "PENDING"]
    /\ plan' = [plan EXCEPT ![q.plan] = Written(q.plan, q)]
    /\ answered' = answered \cup {q.ref}
    /\ Goto(r, Idle)

\* P2002: the reference is taken.  Payment rows are never deleted, so the
\* lookup that follows finds the one of this reference, if it is that one.
RecordDuplicate(r) ==
    LET q == req[r] IN
    /\ q.step = "commit"
    /\ \E i \in Shared(q) : ~ RefIsFree(PspRef(q, i))
    /\ answered' = IF Recorded(q.ref) THEN answered \cup {q.ref} ELSE answered
    /\ Goto(r, Idle)
    /\ UNCHANGED rows

\* Mutant: the installments are written before the transaction that fails.
AbortKeepsInstallments(r) ==
    LET q == req[r] IN
    /\ q.step = "commit"
    /\ plan' = [plan EXCEPT ![q.plan] = Written(q.plan, q)]
    /\ Goto(r, Idle)
    /\ UNCHANGED <<paid, invStatus, payment, answered>>

\* The database aborts the transaction: nothing of it remains.
RecordAborts(r) ==
    /\ req[r].step = "commit"
    /\ Goto(r, Idle)
    /\ UNCHANGED <<rows, answered>>

(***************************************************************************)
(* cancel                                                                   *)
(***************************************************************************)
CancelRead(r, p) ==
    /\ req[r] = Idle
    /\ plan[p].status = "ACTIVE"
    /\ Goto(r, [step |-> "cancel", plan |-> p])
    /\ UNCHANGED <<rows, answered>>

CancelWrite(r) ==
    /\ req[r].step = "cancel"
    /\ plan' = [plan EXCEPT ![req[r].plan].status = "CANCELLED"]
    /\ Goto(r, Idle)
    /\ UNCHANGED <<paid, invStatus, payment, answered>>

(***************************************************************************)
(* A webhook settles a checkout order of one of the invoices meanwhile      *)
(* (Settlement!SettleCommit, seen from the invoice).                        *)
(***************************************************************************)
OnlineSettle(o, i, amount) ==
    /\ <<o>> \notin DOMAIN payment
    /\ paid[i] + amount <= Total[i]
    /\ invStatus[i] # "PAID"
    /\ InsertPayments([ref \in {<<o>>} |-> [invoice |-> i, amount |-> amount]])
    /\ paid' = [paid EXCEPT ![i] = @ + amount]
    /\ invStatus' = [invStatus EXCEPT ![i] =
         IF paid[i] + amount >= Total[i] THEN "PAID" ELSE "PENDING"]
    /\ UNCHANGED <<plan, req, answered>>

\* The API restarts: requests in flight are gone.
Restart ==
    /\ \E r \in Requests : req[r] # Idle
    /\ req' = [r \in Requests |-> Idle]
    /\ UNCHANGED <<rows, answered>>

Create(r) ==
    \/ \E p \in Plans : \E total \in PlanTotals \cup {Arrears} :
          CreateRead(r, p, total)
    \/ CreateInsert(r)

Record(r) ==
    \/ \E p \in Plans, amount \in Amounts, key \in Keys \cup {NoKey} :
          RecordRead(r, p, amount, key)
    \/ RecordReplay(r)
    \/ RecordRefused(r)
    \/ RecordPrepare(r)
    \/ RecordCommit(r)
    \/ RecordDuplicate(r)
    \/ RecordAborts(r)

Cancel(r) ==
    \/ \E p \in Plans : CancelRead(r, p)
    \/ CancelWrite(r)

Next ==
    \/ \E r \in Requests : Create(r) \/ Record(r) \/ Cancel(r)
    \/ \E o \in OnlineOrders, i \in Invoices : \E amount \in 1..Total[i] :
          OnlineSettle(o, i, amount)
    \/ Restart

Spec == Init /\ [][Next]_vars
-----------------------------------------------------------------------------
(***************************************************************************)
(* Properties                                                               *)
(***************************************************************************)
PlanRow == [status : {"NONE", "ACTIVE", "COMPLETED", "CANCELLED"},
            due : [Seqs -> Nat], got : [Seqs -> Nat]]
PlanRefs == Plans \X (Amounts \cup Keys)
PaymentRefs == {<<ref>> : ref \in PlanRefs \cup OnlineOrders}
                 \cup (PlanRefs \X Invoices)

\* Rows and answers have the shape the schema gives them.
TypeOK ==
    /\ paid \in [Invoices -> Nat]
    /\ invStatus \in [Invoices -> {"PENDING", "PAID"}]
    /\ DOMAIN payment \subseteq PaymentRefs
    /\ \A ref \in DOMAIN payment :
          payment[ref] \in [invoice : Invoices, amount : Nat \ {0}]
    /\ plan \in [Plans -> PlanRow]
    /\ \A r \in Requests :
          req[r].step \in {"idle", "create", "check", "commit", "cancel"}
    /\ answered \subseteq PlanRefs

SumOfPayments(refs) ==
    SumFunction([ref \in refs |-> payment[ref].amount])

PaymentsOf(p) ==
    {ref \in DOMAIN payment : ref[1] \in PlanRefs /\ ref[1][1] = p}

\* "The same transaction creates a real Payment row for each invoice
\* allocation", "never let an installment-only ledger claim that money was
\* collected": whatever interleaves, retries or aborts, an invoice's paidCents
\* is the sum of its Payment rows, and the installments of a plan never show
\* more than the plan's Payment rows (recordPayment, settleOrder).
LedgersAgree ==
    /\ \A i \in Invoices :
          paid[i] = SumOfPayments({ref \in DOMAIN payment :
                                     payment[ref].invoice = i})
    /\ \A p \in Plans :
          SumFunction(plan[p].got) <= SumOfPayments(PaymentsOf(p))

\* A request answered with success, as a first attempt or as a replay, has its
\* Payment row (findExistingPayment and the P2002 branch).
AnsweredIsRecorded == \A ref \in answered : Recorded(ref)

\* While requests do not overlap, a plan is exact: its installments show what
\* its Payment rows show, filled oldest first, and it is COMPLETED exactly when
\* they are all paid (recordPayment, cancel).
PlanIsExact ==
    \A p \in Plans :
        /\ SumFunction(plan[p].got) = SumOfPayments(PaymentsOf(p))
        /\ \A j, k \in Seqs :
              j < k /\ plan[p].got[k] > 0 => plan[p].got[j] = plan[p].due[j]
        /\ plan[p].status = "ACTIVE" => plan[p].got # plan[p].due
        /\ plan[p].status = "COMPLETED" => plan[p].got = plan[p].due

\* "at most ONE ACTIVE plan per unit" (create; plans of one unit).
SingleActivePlan ==
    \A p, q \in Plans :
        plan[p].status = "ACTIVE" /\ plan[q].status = "ACTIVE" => p = q

\* "Overpay rejected": recording plan payments never takes an invoice beyond
\* its total, and PAID means all of it is paid (recordPayment).
NoOverpayment ==
    \A i \in Invoices :
        paid[i] <= Total[i] /\ (invStatus[i] = "PAID" <=> paid[i] = Total[i])

\* "Cancels an ACTIVE plan", "only ACTIVE plans accept payments": a COMPLETED
\* or CANCELLED plan keeps its status and its installments (as an action).
FinishedIsClosed ==
    \A p \in Plans :
        plan[p].status \in {"COMPLETED", "CANCELLED"} => plan'[p] = plan[p]
=============================================================================

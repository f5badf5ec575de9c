---------------------------- MODULE Settlement ----------------------------
(***************************************************************************)
(* How an invoice of the API gets paid through a payment service provider   *)
(* (apps/api/src/payments) or through an imported bank statement            *)
(* (apps/api/src/bank-import).                                              *)
(*                                                                          *)
(* Every action is the code between two awaits.  A Serializable database    *)
(* transaction is one step: PostgreSQL either commits it as if it ran alone *)
(* or aborts it, and the abort is an action of its own.                     *)
(***************************************************************************)
EXTENDS Naturals

CONSTANTS
    Invoices,   \* Invoice rows
    Orders,     \* identities of PaymentOrder rows; also their order code
    Txs,        \* transaction references a PSP hands out
    Handlers,   \* webhook requests the API can have in flight
    Total,      \* Invoice.totalCents, fixed when the invoice is issued
    Amounts,    \* amounts a bank statement row can show
    Providers,  \* values of Building.pspProvider that have an adapter
    CaseFree,   \* references that upper-casing leaves as they are
    NoRef       \* an absent reference

ASSUME TotalAssumption == Total \in [Invoices -> Nat]
ASSUME AmountsAssumption == Amounts \subseteq Nat
ASSUME ProvidersAssumption ==
    Providers \subseteq {"viva", "stripe", "mercadopago"}
Raw == Orders \cup Txs \cup Invoices

\* normalizeBankReference: upper case, no white space.
Normal(r) == IF r \in Raw \ CaseFree THEN <<"normal", r>> ELSE r

Refs == Raw \cup {<<"normal", r>> : r \in Raw}
OptRefs == Refs \cup {NoRef}
EventKinds == {"viva", "session", "intent", "mercadopago", "bank"}
Events == EventKinds \X Orders \X OptRefs

ASSUME NoRefAssumption == NoRef \notin Refs \cup Events

VARIABLES
    paid,       \* Invoice.paidCents
    invStatus,  \* Invoice.status
    order,      \* PaymentOrder rows; ABSENT before startCheckout inserts one
    payment,    \* Payment rows
    opening,    \* startCheckout calls waiting for the PSP
    psp,        \* external: what the PSP knows about each order
    job,        \* webhook handlers, between two awaits
    acked       \* history: <<order, reference>> answered { ok: true }

db == <<paid, invStatus, order, payment>>
vars == <<paid, invStatus, order, payment, opening, psp, job, acked>>

NoOrder == [status |-> "ABSENT", invoice |-> NoRef, amount |-> 0,
            provider |-> "viva", paymentRef |-> NoRef,
            pspRef |-> NoRef, eventRef |-> NoRef]

\* A handler that holds an order and a reference while it awaits.
Awaiting(step, o, ref) ==
    [step |-> step, order |-> o, pspRef |-> ref,
     paymentRef |-> NoRef, event |-> NoRef, mark |-> "PENDING"]

Idle == Awaiting("idle", NoRef, NoRef)

Init ==
    /\ paid = [i \in Invoices |-> 0]
    /\ invStatus = [i \in Invoices |-> "PENDING"]
    /\ order = [o \in Orders |-> NoOrder]
    /\ payment = {}
    /\ opening = {}
    /\ psp = [o \in Orders |->
                [state |-> "none", tried |-> {}, captured |-> {}]]
    /\ job = [h \in Handlers |-> Idle]
    /\ acked = {}

Outstanding(i) == Total[i] - paid[i]

(***************************************************************************)
(* startCheckout: the invoice is read, the PSP is awaited, then the order   *)
(* is inserted with the amount that was outstanding at the read.            *)
(***************************************************************************)
\* Mutant: the "already paid" checks are forgotten.
StartCheckoutUnchecked(o, i, provider) ==
    /\ order[o].status = "ABSENT"
    /\ \A c \in opening : c.order # o
    /\ opening' = opening \cup
         {[order |-> o, invoice |-> i, amount |-> Outstanding(i),
           provider |-> provider]}
    /\ UNCHANGED <<db, psp, job, acked>>

StartCheckout(o, i, provider) ==
    /\ order[o].status = "ABSENT"
    /\ \A c \in opening : c.order # o
    /\ paid[i] <= Total[i]
    /\ invStatus[i] # "PAID"
    /\ Outstanding(i) > 0
    /\ opening' = opening \cup
         {[order |-> o, invoice |-> i, amount |-> Outstanding(i),
           provider |-> provider]}
    /\ UNCHANGED <<db, psp, job, acked>>

\* The PSP refused the order, or its answer was unusable: nothing is stored.
CheckoutFails(c) ==
    /\ c \in opening
    /\ opening' = opening \ {c}
    /\ UNCHANGED <<db, psp, job, acked>>

\* Stripe may already name the payment intent when the session is created.
IntentAtCheckout(c) ==
    {NoRef} \cup IF c.provider = "stripe"
                 THEN {t \in Txs : \A o \in Orders : t \notin psp[o].tried}
                 ELSE {}

FinishCheckout(c, intent) ==
    /\ c \in opening
    /\ intent \in IntentAtCheckout(c)
    /\ opening' = opening \ {c}
    /\ order' = [order EXCEPT ![c.order] =
         [status |-> "PENDING", invoice |-> c.invoice, amount |-> c.amount,
          provider |-> c.provider, paymentRef |-> intent,
          pspRef |-> NoRef, eventRef |-> NoRef]]
    /\ psp' = [psp EXCEPT ![c.order] =
         [state |-> "open", tried |-> {intent} \ {NoRef}, captured |-> {}]]
    /\ UNCHANGED <<paid, invStatus, payment, job, acked>>

(***************************************************************************)
(* The PSP (external).  A payer attempts a payment, the PSP captures it or  *)
(* ends the order.  A Mercado Pago preference can be paid more than once, a *)
(* Stripe session has one payment intent.                                   *)
(***************************************************************************)
PspAttempt(o, t) ==
    /\ \/ psp[o].state = "open"
       \/ psp[o].state = "captured" /\ order[o].provider = "mercadopago"
    /\ order[o].provider = "stripe" => psp[o].tried = {}
    /\ \A other \in Orders : t \notin psp[other].tried
    /\ psp' = [psp EXCEPT ![o].tried = @ \cup {t}]
    /\ UNCHANGED <<db, opening, job, acked>>

PspCapture(o, t) ==
    /\ \/ psp[o].state = "open"
       \/ psp[o].state = "captured" /\ order[o].provider = "mercadopago"
    /\ t \in psp[o].tried \ psp[o].captured
    /\ psp' = [psp EXCEPT ![o].state = "captured",
                          ![o].captured = @ \cup {t}]
    /\ UNCHANGED <<db, opening, job, acked>>

PspEnds(o, state) ==
    /\ psp[o].state = "open"
    /\ psp' = [psp EXCEPT ![o].state = state]
    /\ UNCHANGED <<db, opening, job, acked>>

(***************************************************************************)
(* Shared helpers of the three webhook handlers.                            *)
(***************************************************************************)
Goto(h, next) == job' = [job EXCEPT ![h] = next]

\* The handler answers { ok } and is gone.
Reply(h, ok, o, ref) ==
    /\ Goto(h, Idle)
    /\ acked' = IF ok THEN acked \cup {<<o, ref>>} ELSE acked

StoredPayment(o) ==
    IF order[o].paymentRef # NoRef THEN order[o].paymentRef
                                   ELSE order[o].pspRef

ToSettle(o, pspRef, paymentRef, event) ==
    [step |-> "settle", order |-> o, pspRef |-> pspRef,
     paymentRef |-> paymentRef, event |-> event, mark |-> "PENDING"]

(***************************************************************************)
(* handleWebhook (Viva).  "The callback is only a trigger": its transaction *)
(* id is whatever the body says, the status is fetched from the PSP.        *)
(***************************************************************************)
VivaCallback(h, o, t) ==
    /\ job[h] = Idle
    /\ order[o].status # "ABSENT"
    /\ order[o].provider = "viva"
    /\ \/ /\ order[o].status # "PENDING"
          /\ Reply(h, /\ order[o].status = "COMPLETED"
                      /\ t = NoRef \/ order[o].pspRef = t, o, t)
       \/ /\ order[o].status = "PENDING"
          /\ Goto(h, Awaiting("status", o, t))
          /\ UNCHANGED acked
    /\ UNCHANGED <<db, opening, psp>>

\* getOrderStatus answers COMPLETED: the settlement comes next.
VivaStatusCompleted(h) ==
    /\ job[h].step = "status"
    /\ psp[job[h].order].state = "captured"
    /\ LET o   == job[h].order
           ref == IF job[h].pspRef = NoRef THEN o ELSE job[h].pspRef
       IN Goto(h, ToSettle(o, ref, NoRef, <<"viva", o, ref>>))
    /\ UNCHANGED <<db, opening, psp, acked>>

\* getOrderStatus answers FAILED or EXPIRED.
VivaStatusEnded(h) ==
    /\ job[h].step = "status"
    /\ psp[job[h].order].state \in {"FAILED", "EXPIRED"}
    /\ Goto(h, [job[h] EXCEPT !.step = "mark",
                              !.mark = psp[job[h].order].state])
    /\ UNCHANGED <<db, opening, psp, acked>>

\* Still pending at the PSP, or the status request threw.
VivaStatusUnknown(h) ==
    /\ job[h].step = "status"
    /\ Reply(h, FALSE, job[h].order, NoRef)
    /\ UNCHANGED <<db, opening, psp>>

\* Mutant: the marking does not look at the order's current status.
VivaMarkBlind(h) ==
    /\ job[h].step = "mark"
    /\ order' = [order EXCEPT ![job[h].order].status = job[h].mark]
    /\ Reply(h, FALSE, job[h].order, NoRef)
    /\ UNCHANGED <<paid, invStatus, payment, opening, psp>>

VivaMark(h) ==
    /\ job[h].step = "mark"
    /\ order' = IF order[job[h].order].status = "PENDING"
                THEN [order EXCEPT ![job[h].order].status = job[h].mark]
                ELSE order
    /\ Reply(h, FALSE, job[h].order, NoRef)
    /\ UNCHANGED <<paid, invStatus, payment, opening, psp>>

(***************************************************************************)
(* handleStripeWebhook / settleStripeClaim.  Only verified success events   *)
(* are accepted, so an event of order o exists once o is captured.          *)
(***************************************************************************)
StripeOrders(session, pay) ==
    {o \in Orders :
        /\ order[o].status # "ABSENT"
        /\ order[o].provider = "stripe"
        /\ \/ o = session
           \/ pay # NoRef /\ order[o].paymentRef = pay}

StripeReferenceMatches(kind, o, session, pay) ==
    /\ session # NoRef => session = o
    /\ pay # NoRef =>
         IF kind = "intent" THEN StoredPayment(o) = pay
         ELSE StoredPayment(o) # NoRef => StoredPayment(o) = pay

StripeMatch(o, kind, session, pay) ==
    /\ StripeOrders(session, pay) = {o}
    /\ StripeReferenceMatches(kind, o, session, pay)

StripeEvent(h, kind, session, pay) ==
    /\ job[h] = Idle
    /\ \/ \E o \in Orders :
             /\ StripeMatch(o, kind, session, pay)
             /\ \/ /\ order[o].status # "PENDING"
                   /\ Reply(h, /\ order[o].status = "COMPLETED"
                               /\ pay = NoRef \/ StoredPayment(o) = pay,
                            o, pay)
                \/ /\ order[o].status = "PENDING"
                   /\ LET ref == IF pay # NoRef THEN pay ELSE session
                      IN Goto(h, ToSettle(o, ref, pay, <<kind, o, ref>>))
                   /\ UNCHANGED acked
       \/ /\ ~ \E o \in Orders : StripeMatch(o, kind, session, pay)
          /\ Reply(h, FALSE, NoRef, pay)
    /\ UNCHANGED <<db, opening, psp>>

\* The events Stripe signs for a captured order: of the session, with or
\* without its payment intent, and of the intent alone.
StripeCallback(h, o, t) ==
    /\ order[o].provider = "stripe"
    /\ t \in psp[o].captured
    /\ \/ StripeEvent(h, "session", o, t)
       \/ StripeEvent(h, "session", o, NoRef)
       \/ StripeEvent(h, "intent", NoRef, t)

(***************************************************************************)
(* handleMercadoPagoWebhook: the PSP confirms payment t of preference o     *)
(* first; the order is looked up after that answer.                         *)
(***************************************************************************)
MercadoPagoCallback(h, o, t) ==
    /\ job[h] = Idle
    /\ order[o].provider = "mercadopago"
    /\ t \in psp[o].captured
    /\ Goto(h, Awaiting("find", o, t))
    /\ UNCHANGED <<db, opening, psp, acked>>

MercadoPagoFind(h) ==
    /\ job[h].step = "find"
    /\ LET o == job[h].order
           t == job[h].pspRef
       IN \/ /\ order[o].status # "PENDING"
             /\ Reply(h, /\ order[o].status = "COMPLETED"
                         /\ StoredPayment(o) = t, o, t)
          \/ /\ order[o].status = "PENDING"
             /\ Goto(h, ToSettle(o, t, t, <<"mercadopago", o, t>>))
             /\ UNCHANGED acked
    /\ UNCHANGED <<db, opening, psp>>

(***************************************************************************)
(* settleOrder: one Serializable transaction.                               *)
(***************************************************************************)
\* Mutant: pspRef is not a unique column.
RefsAreFreeByEvent(o, pspRef, event) ==
    \A other \in Orders \ {o} : order[other].eventRef # event

\* The unique columns of PaymentOrder and Payment.
RefsAreFree(o, pspRef, event) ==
    /\ \A other \in Orders \ {o} : order[other].pspRef # pspRef
                                /\ order[other].eventRef # event
    /\ \A p \in payment : p.pspRef # pspRef

\* Mutant: what remains due is not compared with the amount.
FitsAnything(i, amount) == paid[i] <= Total[i]

Fits(i, amount) ==
    /\ paid[i] <= Total[i]
    /\ invStatus[i] = "PAID" => paid[i] = Total[i]
    /\ amount <= Outstanding(i)

\* The rows a settlement writes; shared with the bank import.
Credit(o, pspRef, paymentRef, event, method) ==
    LET i        == order[o].invoice
        amount   == order[o].amount
        nextPaid == paid[i] + amount
    IN /\ order' = [order EXCEPT
            ![o].status = "COMPLETED", ![o].eventRef = event,
            ![o].pspRef = pspRef,
            ![o].paymentRef = IF paymentRef = NoRef THEN @ ELSE paymentRef]
       /\ payment' = payment \cup
            {[order |-> o, invoice |-> i, amount |-> amount,
              pspRef |-> pspRef, event |-> event, method |-> method]}
       /\ paid' = [paid EXCEPT ![i] = nextPaid]
       /\ invStatus' = [invStatus EXCEPT ![i] =
            IF nextPaid >= Total[i] THEN "PAID" ELSE "PENDING"]

SettleCommit(h) ==
    LET j == job[h] IN
    /\ j.step = "settle"
    /\ order[j.order].status = "PENDING"
    /\ RefsAreFree(j.order, j.pspRef, j.event)
    /\ Fits(order[j.order].invoice, order[j.order].amount)
    /\ Credit(j.order, j.pspRef, j.paymentRef, j.event, "webhook")
    /\ Reply(h, TRUE, j.order, j.pspRef)
    /\ UNCHANGED <<opening, psp>>

\* The compare-and-swap lost: only the very same settlement is a success.
SettleLost(h) ==
    LET j == job[h] IN
    /\ j.step = "settle"
    /\ order[j.order].status # "PENDING"
    /\ Reply(h, /\ order[j.order].status = "COMPLETED"
                /\ order[j.order].eventRef \in {NoRef, j.event}
                /\ order[j.order].pspRef \in {NoRef, j.pspRef},
             j.order, j.pspRef)
    /\ UNCHANGED <<db, opening, psp>>

\* SettlementRejectedError: the payment would not fit, all is rolled back.
SettleRejected(h) ==
    LET j == job[h] IN
    /\ j.step = "settle"
    /\ order[j.order].status = "PENDING"
    /\ RefsAreFree(j.order, j.pspRef, j.event)
    /\ ~ Fits(order[j.order].invoice, order[j.order].amount)
    /\ Reply(h, FALSE, j.order, j.pspRef)
    /\ UNCHANGED <<db, opening, psp>>

\* P2002: a unique column is taken, all is rolled back, and the owner of the
\* reference is looked up outside the transaction.
SettleDuplicate(h) ==
    LET j == job[h] IN
    /\ j.step = "settle"
    /\ order[j.order].status = "PENDING"
    /\ ~ RefsAreFree(j.order, j.pspRef, j.event)
    /\ Goto(h, [j EXCEPT !.step = "replay"])
    /\ UNCHANGED <<db, opening, psp, acked>>

\* Mutant: a reference that is known at all counts as this order's replay.
ReplayOfAnyOrder(h) ==
    /\ job[h].step = "replay"
    /\ Reply(h, \E p \in payment : p.pspRef = job[h].pspRef,
             job[h].order, job[h].pspRef)
    /\ UNCHANGED <<db, opening, psp>>

ReplayBelongsToOrder(h) ==
    LET j      == job[h]
        byPsp  == {p \in payment : p.pspRef = j.pspRef}
    IN
    /\ j.step = "replay"
    /\ Reply(h, IF byPsp # {} THEN \E p \in byPsp : p.order = j.order
                ELSE order[j.order].eventRef = j.event,
             j.order, j.pspRef)
    /\ UNCHANGED <<db, opening, psp>>

\* The database aborts the transaction (serialization failure, lost
\* connection): the handler throws.
SettleAborts(h) ==
    /\ job[h].step = "settle"
    /\ Goto(h, Idle)
    /\ UNCHANGED <<db, opening, psp, acked>>

(***************************************************************************)
(* BankImportService.applyToOrder: an administrator confirms that a         *)
(* statement row with reference r and this amount pays order o.             *)
(***************************************************************************)
BankReferences(o) ==
    {o, order[o].paymentRef, order[o].pspRef, order[o].invoice} \ {NoRef}

\* Mutant: the statement amount is compared with the order only.
BankApplyStale(o, r, amount) ==
    LET ref   == Normal(r)
        event == <<"bank", o, ref>> IN
    /\ order[o].status = "PENDING"
    /\ amount = order[o].amount
    /\ \E expected \in BankReferences(o) : Normal(expected) = ref
    /\ RefsAreFree(o, ref, event)
    /\ Credit(o, ref, NoRef, event, "bank")
    /\ UNCHANGED <<opening, psp, job, acked>>

BankApply(o, r, amount) ==
    LET ref   == Normal(r)
        event == <<"bank", o, ref>>
        i     == order[o].invoice
    IN
    /\ order[o].status = "PENDING"
    /\ amount = order[o].amount
    /\ order[o].pspRef # NoRef => Normal(order[o].pspRef) = ref
    /\ order[o].eventRef \in {NoRef, event}
    /\ \E expected \in BankReferences(o) : Normal(expected) = ref
    /\ paid[i] <= Total[i]
    /\ Outstanding(i) > 0
    /\ amount = Outstanding(i)
    /\ RefsAreFree(o, ref, event)
    /\ Credit(o, ref, NoRef, event, "bank")
    /\ UNCHANGED <<opening, psp, job, acked>>

(***************************************************************************)
(* The API process restarts: requests in flight are gone, rows stay.        *)
(***************************************************************************)
Restart ==
    /\ opening # {} \/ \E h \in Handlers : job[h] # Idle
    /\ opening' = {}
    /\ job' = [h \in Handlers |-> Idle]
    /\ UNCHANGED <<db, psp, acked>>

Checkout ==
    \/ \E o \in Orders, i \in Invoices, p \in Providers :
          StartCheckout(o, i, p)
    \/ \E c \in opening : CheckoutFails(c)
    \/ \E c \in opening, t \in Txs \cup {NoRef} : FinishCheckout(c, t)

Psp ==
    \/ \E o \in Orders, t \in Txs : PspAttempt(o, t) \/ PspCapture(o, t)
    \/ \E o \in Orders, s \in {"FAILED", "EXPIRED"} : PspEnds(o, s)

Callback(h) ==
    \/ \E o \in Orders, t \in Txs \cup {NoRef} : VivaCallback(h, o, t)
    \/ \E o \in Orders, t \in Txs : StripeCallback(h, o, t)
    \/ \E o \in Orders, t \in Txs : MercadoPagoCallback(h, o, t)

Handle(h) ==
    \/ VivaStatusCompleted(h)
    \/ VivaStatusEnded(h)
    \/ VivaStatusUnknown(h)
    \/ VivaMark(h)
    \/ MercadoPagoFind(h)
    \/ SettleCommit(h)
    \/ SettleLost(h)
    \/ SettleRejected(h)
    \/ SettleDuplicate(h)
    \/ ReplayBelongsToOrder(h)
    \/ SettleAborts(h)

Bank == \E o \in Orders, r \in Raw, a \in Amounts : BankApply(o, r, a)

Next ==
    \/ Checkout
    \/ Psp
    \/ \E h \in Handlers : Callback(h) \/ Handle(h)
    \/ Bank
    \/ Restart

Spec == Init /\ [][Next]_vars
-----------------------------------------------------------------------------
(***************************************************************************)
(* Properties                                                               *)
(***************************************************************************)
OrderRow == [status : {"ABSENT", "PENDING", "COMPLETED", "FAILED", "EXPIRED"},
             invoice : Invoices \cup {NoRef}, amount : Nat,
             provider : {"viva", "stripe", "mercadopago"},
             paymentRef : OptRefs, pspRef : OptRefs,
             eventRef : Events \cup {NoRef}]
PaymentRow == [order : Orders, invoice : Invoices, amount : Nat,
               pspRef : Refs, event : Events, method : {"webhook", "bank"}]
OpenCheckout == [order : Orders, invoice : Invoices, amount : Nat \ {0},
                 provider : Providers]
PspOrder == [state : {"none", "open", "captured", "FAILED", "EXPIRED"},
             tried : SUBSET Txs, captured : SUBSET Txs]
Job == [step : {"idle", "status", "mark", "find", "settle", "replay"},
        order : Orders \cup {NoRef}, pspRef : OptRefs,
        paymentRef : OptRefs, event : Events \cup {NoRef},
        mark : {"PENDING", "FAILED", "EXPIRED"}]

\* Every row, request and reference has the shape the schema gives it.
TypeOK ==
    /\ paid \in [Invoices -> Nat]
    /\ invStatus \in [Invoices -> {"PENDING", "PAID"}]
    /\ order \in [Orders -> OrderRow]
    /\ payment \subseteq PaymentRow
    /\ opening \subseteq OpenCheckout
    /\ psp \in [Orders -> PspOrder]
    /\ job \in [Handlers -> Job]
    /\ acked \subseteq (Orders \cup {NoRef}) \X OptRefs

\* Webhooks of several orders of one invoice and a bank import, in any
\* interleaving, never collect more than the invoice's total, and the invoice
\* is PAID exactly when all of it is collected (settleOrder, applyToOrder).
NoOverpayment ==
    \A i \in Invoices :
        /\ paid[i] <= Total[i]
        /\ invStatus[i] = "PAID" => paid[i] = Total[i]
        /\ paid[i] > 0 /\ paid[i] = Total[i] => invStatus[i] = "PAID"

\* A duplicated, reordered or raced callback is credited once: an order is
\* COMPLETED exactly when one Payment row records it, with the order's own
\* invoice, amount and references (the claim and the row are atomic).
OnePaymentPerOrder ==
    \A o \in Orders :
        LET mine == {p \in payment : p.order = o} IN
        IF order[o].status = "COMPLETED"
        THEN \E p \in mine :
               /\ mine = {p}
               /\ p.invoice = order[o].invoice
               /\ p.amount = order[o].amount
               /\ p.pspRef = order[o].pspRef
               /\ p.event = order[o].eventRef
        ELSE mine = {}

\* "A PSP transaction reference is replay-safe and may identify only one
\* payment": however often and for whichever order a reference is reported,
\* one Payment row at most carries it.
ReferenceCreditedOnce ==
    \A p, q \in payment : p.pspRef = q.pspRef => p = q

\* A webhook credits an order only after the PSP itself captured it, whatever
\* the callback said and whenever it came (handleWebhook fetches the status).
NoCreditWithoutCapture ==
    \A p \in payment :
        p.method = "webhook" => psp[p.order].captured # {}

\* Credits are genuine: one order, one row; one reference, one row; and no
\* webhook credit without a capture, whatever is repeated, reordered or raced.
CreditedOnce ==
    OnePaymentPerOrder /\ ReferenceCreditedOnce /\ NoCreditWithoutCapture

\* An { ok: true } answer is never given for an order that is not settled:
\* the PSP may forget the event (settleOrder's lost claim and P2002 branches).
AckedIsSettled ==
    \A a \in acked : a[1] \in Orders /\ order[a[1]].status = "COMPLETED"

\* "A different reference is not silently acknowledged": an answer { ok: true }
\* for a payment reference means that a Payment row records that reference.
AckedReferenceIsCredited ==
    \A a \in acked :
        a[2] # NoRef =>
            \E p \in payment : p.pspRef \in {a[2], Normal(a[2])}

\* What is settled stays settled: no callback, late FAILED/EXPIRED marking or
\* import moves an order out of a terminal state, changes its references,
\* removes a payment or takes money off an invoice.
SettledIsFinal ==
    [][/\ \A o \in Orders :
            order[o].status \in {"COMPLETED", "FAILED", "EXPIRED"} =>
                order'[o] = order[o]
       /\ payment \subseteq payment'
       /\ \A i \in Invoices : paid'[i] >= paid[i]]_vars

\* An order being created has no row yet, and no other request creates it.
OpeningInv ==
    /\ \A c \in opening : order[c.order].status = "ABSENT"
    /\ \A c, d \in opening : c.order = d.order => c = d

\* Settlement references are written by the claim and by nothing else.
OrderInv ==
    \A o \in Orders :
        /\ IF order[o].status = "ABSENT"
           THEN order[o] = NoOrder /\ psp[o].state = "none"
           ELSE order[o].invoice \in Invoices /\ order[o].amount > 0
        /\ IF order[o].status = "COMPLETED"
           THEN order[o].eventRef \in Events /\ order[o].pspRef \in Refs
           ELSE order[o].eventRef = NoRef /\ order[o].pspRef = NoRef
        /\ order[o].paymentRef # NoRef => order[o].paymentRef \in psp[o].tried

PspInv ==
    /\ \A o \in Orders :
          /\ psp[o].state = "captured" <=> psp[o].captured # {}
          /\ psp[o].captured \subseteq psp[o].tried
          /\ psp[o].state = "none" => psp[o].tried = {}
    /\ \A o1, o2 \in Orders : \A t \in Txs :
          t \in psp[o1].tried /\ t \in psp[o2].tried => o1 = o2

\* What a handler carries across an await is still true after it.
JobInv ==
    \A h \in Handlers :
        LET j == job[h] IN
        /\ j.step # "idle" => /\ j.order \in Orders
                              /\ order[j.order].status # "ABSENT"
        /\ j.step = "mark" => j.mark \in {"FAILED", "EXPIRED"}
        /\ j.step = "find" => j.pspRef \in psp[j.order].captured
        /\ j.step \in {"settle", "replay"} =>
              /\ j.event \in Events
              /\ j.pspRef \in Refs
              /\ psp[j.order].captured # {}
              /\ j.paymentRef # NoRef => j.paymentRef \in psp[j.order].captured

\* The inductive invariant behind the theorems of SettlementProofs.
SettlementInv ==
    /\ TypeOK
    /\ OpeningInv
    /\ OrderInv
    /\ PspInv
    /\ JobInv
    /\ NoOverpayment
    /\ OnePaymentPerOrder
    /\ ReferenceCreditedOnce
    /\ NoCreditWithoutCapture
    /\ AckedIsSettled

\* The webhooks and the bank import together implement the abstract ledger.
Credits == {[order |-> p.order, invoice |-> p.invoice, amount |-> p.amount]
               : p \in payment}
Ledger == INSTANCE Receivable WITH credited <- Credits
LedgerSpec == Ledger!Spec
=============================================================================

------------------------- MODULE SettlementProofs -------------------------
(***************************************************************************)
(* Proofs about Settlement for any number of invoices, orders, requests and *)
(* references.                                                              *)
(***************************************************************************)
EXTENDS Settlement, TLAPS

LEMMA InitInv == Init => SettlementInv
<1> SUFFICES ASSUME Init PROVE SettlementInv
  OBVIOUS
<1>1. TypeOK
  BY DEF TypeOK, OrderRow, PspOrder, Job, OptRefs, Init, NoOrder, Idle, Awaiting
<1>2. OpeningInv /\ OrderInv /\ PspInv /\ JobInv
  BY DEF OpeningInv, OrderInv, PspInv, JobInv, Init, NoOrder, Idle, Awaiting
<1>3. NoOverpayment
  <2> SUFFICES ASSUME NEW i \in Invoices
               PROVE  /\ paid[i] <= Total[i]
                      /\ invStatus[i] = "PAID" => paid[i] = Total[i]
                      /\ paid[i] > 0 /\ paid[i] = Total[i]
                           => invStatus[i] = "PAID"
    BY DEF NoOverpayment
  <2>1. paid[i] = 0 /\ invStatus[i] = "PENDING"
    BY DEF Init
  <2>2. Total[i] \in Nat
    BY TotalAssumption
  <2> QED
    BY <2>1, <2>2
<1>4. OnePaymentPerOrder /\ ReferenceCreditedOnce /\ NoCreditWithoutCapture
        /\ AckedIsSettled
  BY DEF OnePaymentPerOrder, ReferenceCreditedOnce, NoCreditWithoutCapture,
         AckedIsSettled, Init, NoOrder
<1> QED
  BY <1>1, <1>2, <1>3, <1>4 DEF SettlementInv

-----------------------------------------------------------------------------
(* Frames: the parts of the invariant about variables an action leaves.     *)

LEMMA LedgerFrame ==
    ASSUME SettlementInv, UNCHANGED db
    PROVE  /\ NoOverpayment'
           /\ OnePaymentPerOrder'
           /\ ReferenceCreditedOnce'
  BY DEF SettlementInv, db, NoOverpayment, OnePaymentPerOrder,
         ReferenceCreditedOnce

LEMMA RowsFrame ==
    ASSUME SettlementInv, UNCHANGED <<db, opening, psp>>
    PROVE  /\ NoOverpayment'
           /\ OnePaymentPerOrder'
           /\ ReferenceCreditedOnce'
           /\ OpeningInv'
           /\ OrderInv'
           /\ PspInv'
           /\ NoCreditWithoutCapture'
  BY LedgerFrame DEF SettlementInv, db, OpeningInv, OrderInv, PspInv,
         NoCreditWithoutCapture

\* A handler that moves on without touching the database.
LEMMA HandlerStep ==
    ASSUME SettlementInv, UNCHANGED <<db, opening, psp>>,
           NEW h \in Handlers, NEW next \in Job, Goto(h, next),
           next.step # "idle" => /\ next.order \in Orders
                                 /\ order[next.order].status # "ABSENT",
           next.step = "mark" => next.mark \in {"FAILED", "EXPIRED"},
           next.step = "find" => next.pspRef \in psp[next.order].captured,
           next.step \in {"settle", "replay"} =>
              /\ next.event \in Events
              /\ next.pspRef \in Refs
              /\ psp[next.order].captured # {}
              /\ next.paymentRef # NoRef =>
                    next.paymentRef \in psp[next.order].captured
    PROVE  JobInv' /\ job' \in [Handlers -> Job]
<1>1. job' \in [Handlers -> Job]
  BY DEF SettlementInv, TypeOK, Goto
<1>2. \A g \in Handlers : job'[g] = IF g = h THEN next ELSE job[g]
  BY DEF SettlementInv, TypeOK, Goto
<1>3. JobInv'
  BY <1>2 DEF SettlementInv, JobInv, db
<1> QED
  BY <1>1, <1>3

\* An answer keeps the invariant when an { ok: true } is about a settled order.
LEMMA ReplyStep ==
    ASSUME SettlementInv, UNCHANGED <<db, opening, psp>>,
           NEW h \in Handlers, NEW ok \in BOOLEAN,
           NEW o \in Orders \cup {NoRef}, NEW ref \in OptRefs,
           Reply(h, ok, o, ref),
           ok => o \in Orders /\ order[o].status = "COMPLETED"
    PROVE  SettlementInv'
<1>1. Idle \in Job
  BY DEF Idle, Awaiting, Job, OptRefs
<1>2. JobInv' /\ job' \in [Handlers -> Job]
  BY <1>1, HandlerStep DEF Reply, Idle, Awaiting
<1>3. acked' \subseteq acked \cup {<<o, ref>>}
  BY DEF Reply
<1>4. TypeOK'
  BY <1>2, <1>3 DEF SettlementInv, TypeOK, db
<1>5. AckedIsSettled'
  BY DEF SettlementInv, AckedIsSettled, Reply, db
<1> QED
  BY <1>2, <1>4, <1>5, RowsFrame DEF SettlementInv

\* A handler that moves on without an answer.
LEMMA GotoStep ==
    ASSUME SettlementInv, UNCHANGED <<db, opening, psp, acked>>,
           job' \in [Handlers -> Job], JobInv'
    PROVE  SettlementInv'
<1>1. TypeOK'
  BY DEF SettlementInv, TypeOK, db
<1>2. AckedIsSettled'
  BY DEF SettlementInv, AckedIsSettled, db
<1> QED
  BY <1>1, <1>2, RowsFrame DEF SettlementInv

-----------------------------------------------------------------------------
(* Checkout.                                                                *)

LEMMA StartCheckoutInv ==
    ASSUME SettlementInv, NEW o \in Orders, NEW i \in Invoices,
           NEW p \in Providers, StartCheckout(o, i, p)
    PROVE  SettlementInv'
<1> USE DEF SettlementInv, StartCheckout, db
<1>1. TypeOK'
  BY TotalAssumption DEF TypeOK, OpenCheckout, Outstanding
<1>2. OpeningInv'
  BY DEF OpeningInv
<1>3. OrderInv' /\ PspInv' /\ JobInv'
  BY DEF OrderInv, PspInv, JobInv
<1>4. NoOverpayment' /\ OnePaymentPerOrder' /\ ReferenceCreditedOnce'
        /\ NoCreditWithoutCapture' /\ AckedIsSettled'
  BY LedgerFrame DEF NoCreditWithoutCapture, AckedIsSettled
<1> QED
  BY <1>1, <1>2, <1>3, <1>4

LEMMA CheckoutFailsInv ==
    ASSUME SettlementInv, NEW c \in opening, CheckoutFails(c)
    PROVE  SettlementInv'
<1> USE DEF SettlementInv, CheckoutFails, db
<1>1. TypeOK'
  BY DEF TypeOK
<1>2. OpeningInv'
  BY DEF OpeningInv
<1>3. OrderInv' /\ PspInv' /\ JobInv'
  BY DEF OrderInv, PspInv, JobInv
<1>4. NoOverpayment' /\ OnePaymentPerOrder' /\ ReferenceCreditedOnce'
        /\ NoCreditWithoutCapture' /\ AckedIsSettled'
  BY LedgerFrame DEF NoCreditWithoutCapture, AckedIsSettled
<1> QED
  BY <1>1, <1>2, <1>3, <1>4

LEMMA FinishCheckoutInv ==
    ASSUME SettlementInv, NEW c \in opening, NEW t \in Txs \cup {NoRef},
           FinishCheckout(c, t)
    PROVE  SettlementInv'
<1> USE DEF SettlementInv
<1> DEFINE o == c.order
<1>1. /\ c \in OpenCheckout
      /\ o \in Orders
      /\ order[o] = NoOrder
      /\ psp[o].state = "none" /\ psp[o].captured = {} /\ psp[o].tried = {}
  BY DEF TypeOK, OpenCheckout, OpeningInv, OrderInv, PspInv, PspOrder
<1>2. t = NoRef \/ (t \in Txs /\ \A x \in Orders : t \notin psp[x].tried)
  BY DEF FinishCheckout, IntentAtCheckout
<1> DEFINE row == [status |-> "PENDING", invoice |-> c.invoice,
                   amount |-> c.amount, provider |-> c.provider,
                   paymentRef |-> t, pspRef |-> NoRef, eventRef |-> NoRef]
           entry == [state |-> "open", tried |-> {t} \ {NoRef},
                     captured |-> {}]
<1>3. /\ order' = [order EXCEPT ![o] = row]
      /\ psp' = [psp EXCEPT ![o] = entry]
      /\ opening' = opening \ {c}
      /\ UNCHANGED <<paid, invStatus, payment, job, acked>>
  BY DEF FinishCheckout
<1>4. row \in OrderRow /\ entry \in PspOrder
  BY <1>1, <1>2, ProvidersAssumption
     DEF OpenCheckout, OrderRow, PspOrder, OptRefs, Refs, Raw
<1>5. TypeOK'
  <2>1. order' \in [Orders -> OrderRow] /\ psp' \in [Orders -> PspOrder]
    BY <1>3, <1>4 DEF TypeOK
  <2> QED
    BY <1>3, <2>1 DEF TypeOK
<1>6. /\ \A x \in Orders : order'[x] = IF x = o THEN row ELSE order[x]
      /\ \A x \in Orders : psp'[x] = IF x = o THEN entry ELSE psp[x]
  BY <1>3 DEF TypeOK
<1>7. OpeningInv'
  BY <1>1, <1>3, <1>6 DEF OpeningInv, TypeOK, OpenCheckout
<1>8. OrderInv'
  BY <1>1, <1>2, <1>6 DEF OrderInv, OpenCheckout
<1>9. PspInv'
  BY <1>2, <1>6 DEF PspInv
<1>10. JobInv'
  BY <1>1, <1>3, <1>6 DEF JobInv, NoOrder
<1>11. NoOverpayment'
  BY <1>3 DEF NoOverpayment
<1>12. {p \in payment : p.order = o} = {}
  BY <1>1 DEF OnePaymentPerOrder, NoOrder
<1>13. OnePaymentPerOrder'
  BY <1>3, <1>6, <1>12 DEF OnePaymentPerOrder
<1>14. ReferenceCreditedOnce'
  BY <1>3 DEF ReferenceCreditedOnce
<1>15. NoCreditWithoutCapture'
  BY <1>3, <1>6, <1>12 DEF NoCreditWithoutCapture, TypeOK, PaymentRow
<1>16. AckedIsSettled'
  BY <1>1, <1>3, <1>6 DEF AckedIsSettled, NoOrder
<1> QED
  BY <1>5, <1>7, <1>8, <1>9, <1>10, <1>11, <1>13, <1>14, <1>15, <1>16

-----------------------------------------------------------------------------
(* The PSP: only its own record of an order changes, and what it has        *)
(* captured it keeps.                                                       *)

LEMMA PspStep ==
    ASSUME SettlementInv, UNCHANGED <<db, opening, job, acked>>,
           psp' \in [Orders -> PspOrder], PspInv',
           \A o \in Orders : /\ psp[o].captured \subseteq psp'[o].captured
                             /\ psp[o].tried \subseteq psp'[o].tried
                             /\ psp[o].state = "none" => psp'[o] = psp[o]
    PROVE  SettlementInv'
<1> USE DEF SettlementInv, db
<1>1. TypeOK'
  BY DEF TypeOK
<1>2. OpeningInv' /\ NoOverpayment' /\ OnePaymentPerOrder'
        /\ ReferenceCreditedOnce' /\ AckedIsSettled'
  BY LedgerFrame DEF OpeningInv, AckedIsSettled
<1>3. OrderInv'
  BY DEF OrderInv
<1>4. JobInv'
  BY DEF JobInv
<1>5. NoCreditWithoutCapture'
  BY DEF NoCreditWithoutCapture, TypeOK, PaymentRow
<1> QED
  BY <1>1, <1>2, <1>3, <1>4, <1>5

LEMMA PspAttemptInv ==
    ASSUME SettlementInv, NEW o \in Orders, NEW t \in Txs, PspAttempt(o, t)
    PROVE  SettlementInv'
<1> USE DEF SettlementInv
<1>1. psp' \in [Orders -> PspOrder]
  BY DEF TypeOK, PspAttempt, PspOrder
<1>2. \A x \in Orders :
         /\ x # o => psp'[x] = psp[x]
         /\ psp'[x].state = psp[x].state
         /\ psp'[x].captured = psp[x].captured
         /\ psp'[x].tried = IF x = o THEN psp[x].tried \cup {t}
                                     ELSE psp[x].tried
  BY DEF TypeOK, PspAttempt, PspOrder
<1>3. psp[o].state # "none"
  BY DEF PspAttempt
<1>4. \A x \in Orders : t \notin psp[x].tried
  BY DEF PspAttempt
<1>5. PspInv'
  <2>1. ASSUME NEW x \in Orders
        PROVE  /\ psp'[x].state = "captured" <=> psp'[x].captured # {}
               /\ psp'[x].captured \subseteq psp'[x].tried
               /\ psp'[x].state = "none" => psp'[x].tried = {}
    BY <1>2, <1>3 DEF PspInv
  <2>2. ASSUME NEW x \in Orders, NEW y \in Orders, NEW u \in Txs,
               u \in psp'[x].tried, u \in psp'[y].tried
        PROVE  x = y
    <3>1. CASE u = t
      BY <1>2, <1>4, <2>2, <3>1
    <3>2. CASE u # t
      <4>1. u \in psp[x].tried /\ u \in psp[y].tried
        BY <1>2, <2>2, <3>2
      <4> QED
        BY <4>1 DEF PspInv
    <3> QED
      BY <3>1, <3>2
  <2> QED
    BY <2>1, <2>2 DEF PspInv
<1> QED
  BY <1>1, <1>2, <1>3, <1>5, PspStep DEF PspAttempt

LEMMA PspCaptureInv ==
    ASSUME SettlementInv, NEW o \in Orders, NEW t \in Txs, PspCapture(o, t)
    PROVE  SettlementInv'
<1> USE DEF SettlementInv
<1>1. psp' \in [Orders -> PspOrder]
  BY DEF TypeOK, PspCapture, PspOrder
<1>2. \A x \in Orders :
         /\ x # o => psp'[x] = psp[x]
         /\ psp'[x].state = IF x = o THEN "captured" ELSE psp[x].state
         /\ psp'[x].captured = IF x = o THEN psp[x].captured \cup {t}
                                        ELSE psp[x].captured
         /\ psp'[x].tried = psp[x].tried
  BY DEF TypeOK, PspCapture, PspOrder
<1>3. psp[o].state # "none" /\ t \in psp[o].tried
  BY DEF PspCapture
<1>4. PspInv'
  <2>1. ASSUME NEW x \in Orders
        PROVE  /\ psp'[x].state = "captured" <=> psp'[x].captured # {}
               /\ psp'[x].captured \subseteq psp'[x].tried
               /\ psp'[x].state = "none" => psp'[x].tried = {}
    <3>1. CASE x = o
      <4>1. t \in psp'[x].captured /\ psp'[x].state = "captured"
        BY <1>2, <3>1
      <4>2. psp[x].captured \subseteq psp[x].tried
        BY DEF PspInv
      <4>3. psp'[x].captured \subseteq psp'[x].tried
        BY <1>2, <1>3, <3>1, <4>2
      <4> QED
        BY <4>1, <4>3
    <3>2. CASE x # o
      BY <1>2, <3>2 DEF PspInv
    <3> QED
      BY <3>1, <3>2
  <2>2. ASSUME NEW x \in Orders, NEW y \in Orders, NEW u \in Txs,
               u \in psp'[x].tried, u \in psp'[y].tried
        PROVE  x = y
    BY <1>2, <2>2 DEF PspInv
  <2> QED
    BY <2>1, <2>2 DEF PspInv
<1> QED
  BY <1>1, <1>2, <1>3, <1>4, PspStep DEF PspCapture

LEMMA PspEndsInv ==
    ASSUME SettlementInv, NEW o \in Orders, NEW s \in {"FAILED", "EXPIRED"},
           PspEnds(o, s)
    PROVE  SettlementInv'
<1> USE DEF SettlementInv
<1>1. psp' \in [Orders -> PspOrder]
  BY DEF TypeOK, PspEnds, PspOrder
<1>2. \A x \in Orders :
         /\ x # o => psp'[x] = psp[x]
         /\ psp'[x].state = IF x = o THEN s ELSE psp[x].state
         /\ psp'[x].captured = psp[x].captured
         /\ psp'[x].tried = psp[x].tried
  BY DEF TypeOK, PspEnds, PspOrder
<1>3. psp[o].state = "open"
  BY DEF PspEnds
<1>4. PspInv'
  BY <1>2, <1>3 DEF PspInv
<1> QED
  BY <1>1, <1>2, <1>3, <1>4, PspStep DEF PspEnds

-----------------------------------------------------------------------------
(* Callbacks and handlers that leave the database alone.                    *)

LEMMA VivaCallbackInv ==
    ASSUME SettlementInv, NEW h \in Handlers, NEW o \in Orders,
           NEW t \in Txs \cup {NoRef}, VivaCallback(h, o, t)
    PROVE  SettlementInv'
<1>1. UNCHANGED <<db, opening, psp>> /\ t \in OptRefs
  BY DEF VivaCallback, OptRefs, Refs, Raw
<1>2. CASE order[o].status # "PENDING"
  <2> DEFINE ok == order[o].status = "COMPLETED"
                     /\ (t = NoRef \/ order[o].pspRef = t)
  <2>1. Reply(h, ok, o, t)
    BY <1>2 DEF VivaCallback
  <2>2. ok \in BOOLEAN /\ (ok => order[o].status = "COMPLETED")
    OBVIOUS
  <2> HIDE DEF ok
  <2> QED
    BY <1>1, <2>1, <2>2, ReplyStep
<1>3. CASE order[o].status = "PENDING"
  <2> DEFINE next == Awaiting("status", o, t)
  <2>1. Goto(h, next) /\ UNCHANGED acked
    BY <1>3 DEF VivaCallback
  <2>2. /\ next \in Job
        /\ next.step = "status"
        /\ next.order = o
    BY <1>1 DEF Job, Awaiting, OptRefs
  <2> HIDE DEF next
  <2>3. JobInv' /\ job' \in [Handlers -> Job]
    BY <1>1, <1>3, <2>1, <2>2, HandlerStep
  <2> QED
    BY <1>1, <2>1, <2>3, GotoStep
<1> QED
  BY <1>2, <1>3

\* Moving on to the settlement with references the PSP vouches for.
LEMMA ToSettleStep ==
    ASSUME SettlementInv, UNCHANGED <<db, opening, psp, acked>>,
           NEW h \in Handlers, NEW o \in Orders, NEW ref \in Refs,
           NEW pay \in OptRefs, NEW event \in Events,
           Goto(h, ToSettle(o, ref, pay, event)),
           order[o].status # "ABSENT",
           psp[o].captured # {},
           pay # NoRef => pay \in psp[o].captured
    PROVE  SettlementInv'
<1> DEFINE next == ToSettle(o, ref, pay, event)
<1>1. next = [step |-> "settle", order |-> o, pspRef |-> ref,
              paymentRef |-> pay, event |-> event, mark |-> "PENDING"]
  BY DEF ToSettle
<1>2. next \in Job
  BY <1>1 DEF Job, OptRefs
<1>3. Goto(h, next)
  OBVIOUS
<1>4. JobInv' /\ job' \in [Handlers -> Job]
  <2> HIDE DEF next
  <2> QED
    BY <1>1, <1>2, <1>3, HandlerStep
<1> QED
  BY <1>4, GotoStep

LEMMA VivaStatusCompletedInv ==
    ASSUME SettlementInv, NEW h \in Handlers, VivaStatusCompleted(h)
    PROVE  SettlementInv'
<1> DEFINE o   == job[h].order
           ref == IF job[h].pspRef = NoRef THEN o ELSE job[h].pspRef
           e   == <<"viva", o, ref>>
<1>1. /\ UNCHANGED <<db, opening, psp, acked>>
      /\ job[h].step = "status"
      /\ psp[o].state = "captured"
      /\ Goto(h, ToSettle(o, ref, NoRef, e))
  BY DEF VivaStatusCompleted
<1>2. o \in Orders /\ order[o].status # "ABSENT"
  BY <1>1 DEF SettlementInv, JobInv
<1>3. psp[o].captured # {}
  BY <1>1, <1>2 DEF SettlementInv, PspInv
<1>4. ref \in Refs
  BY <1>2 DEF SettlementInv, TypeOK, Job, OptRefs, Refs, Raw
<1>5. e \in Events
  BY <1>2, <1>4 DEF Events, EventKinds, OptRefs
<1>6. NoRef \in OptRefs
  BY DEF OptRefs
<1> HIDE DEF o, ref, e
<1> QED
  BY <1>1, <1>2, <1>3, <1>4, <1>5, <1>6, ToSettleStep

LEMMA VivaStatusEndedInv ==
    ASSUME SettlementInv, NEW h \in Handlers, VivaStatusEnded(h)
    PROVE  SettlementInv'
<1> DEFINE next == [job[h] EXCEPT !.step = "mark",
                                  !.mark = psp[job[h].order].state]
<1>1. /\ UNCHANGED <<db, opening, psp, acked>>
      /\ job[h].step = "status"
      /\ psp[job[h].order].state \in {"FAILED", "EXPIRED"}
      /\ Goto(h, next)
  BY DEF VivaStatusEnded
<1>2. job[h] \in Job
  BY DEF SettlementInv, TypeOK
<1>3. /\ next \in Job
      /\ next.step = "mark"
      /\ next.order = job[h].order
      /\ next.mark \in {"FAILED", "EXPIRED"}
  BY <1>1, <1>2 DEF Job
<1>4. job[h].order \in Orders /\ order[job[h].order].status # "ABSENT"
  BY <1>1 DEF SettlementInv, JobInv
<1> HIDE DEF next
<1>5. JobInv' /\ job' \in [Handlers -> Job]
  BY <1>1, <1>3, <1>4, HandlerStep
<1> QED
  BY <1>1, <1>5, GotoStep

LEMMA JobOrder ==
    ASSUME SettlementInv, NEW h \in Handlers, job[h].step # "idle"
    PROVE  /\ job[h] \in Job
           /\ job[h].order \in Orders
           /\ order[job[h].order].status # "ABSENT"
           /\ job[h].pspRef \in OptRefs
  BY DEF SettlementInv, JobInv, TypeOK, Job

LEMMA VivaStatusUnknownInv ==
    ASSUME SettlementInv, NEW h \in Handlers, VivaStatusUnknown(h)
    PROVE  SettlementInv'
<1>1. /\ UNCHANGED <<db, opening, psp>>
      /\ job[h].step = "status"
      /\ Reply(h, FALSE, job[h].order, NoRef)
  BY DEF VivaStatusUnknown
<1>2. NoRef \in OptRefs
  BY DEF OptRefs
<1> QED
  BY <1>1, <1>2, JobOrder, ReplyStep

LEMMA MercadoPagoCallbackInv ==
    ASSUME SettlementInv, NEW h \in Handlers, NEW o \in Orders,
           NEW t \in Txs, MercadoPagoCallback(h, o, t)
    PROVE  SettlementInv'
<1> DEFINE next == Awaiting("find", o, t)
<1>1. /\ UNCHANGED <<db, opening, psp, acked>>
      /\ Goto(h, next)
      /\ t \in psp[o].captured
  BY DEF MercadoPagoCallback
<1>2. /\ next \in Job
      /\ next.step = "find" /\ next.order = o /\ next.pspRef = t
  BY DEF Job, Awaiting, OptRefs, Refs, Raw
<1>3. order[o].status # "ABSENT"
  BY <1>1 DEF SettlementInv, OrderInv, PspInv
<1> HIDE DEF next
<1>4. JobInv' /\ job' \in [Handlers -> Job]
  BY <1>1, <1>2, <1>3, HandlerStep
<1> QED
  BY <1>1, <1>4, GotoStep

LEMMA MercadoPagoFindInv ==
    ASSUME SettlementInv, NEW h \in Handlers, MercadoPagoFind(h)
    PROVE  SettlementInv'
<1> DEFINE o == job[h].order
           t == job[h].pspRef
           e == <<"mercadopago", o, t>>
<1>1. UNCHANGED <<db, opening, psp>> /\ job[h].step = "find"
  BY DEF MercadoPagoFind
<1>2. /\ o \in Orders /\ t \in OptRefs
      /\ order[o].status # "ABSENT"
      /\ t \in psp[o].captured
  BY <1>1, JobOrder DEF SettlementInv, JobInv
<1>3. t \in Txs /\ t \in Refs /\ e \in Events
  BY <1>2 DEF SettlementInv, TypeOK, PspOrder, Events, EventKinds, OptRefs,
              Refs, Raw
<1>4. CASE order[o].status # "PENDING"
  <2> DEFINE ok == order[o].status = "COMPLETED" /\ StoredPayment(o) = t
  <2>1. Reply(h, ok, o, t)
    BY <1>4 DEF MercadoPagoFind
  <2>2. ok \in BOOLEAN /\ (ok => order[o].status = "COMPLETED")
    OBVIOUS
  <2> HIDE DEF ok, o, t, e
  <2> QED
    BY <1>1, <1>2, <2>1, <2>2, ReplyStep
<1>5. CASE order[o].status = "PENDING"
  <2>1. Goto(h, ToSettle(o, t, t, e)) /\ UNCHANGED acked
    BY <1>5 DEF MercadoPagoFind
  <2>2. psp[o].captured # {}
    BY <1>2
  <2> HIDE DEF o, t, e
  <2> QED
    BY <1>1, <1>2, <1>3, <2>1, <2>2, ToSettleStep
<1> QED
  BY <1>4, <1>5

\* A Stripe event only matches the order whose payment it reports.
LEMMA StripeMatchLemma ==
    ASSUME SettlementInv, NEW o \in Orders, NEW x \in Orders, NEW t \in Txs,
           t \in psp[o].captured,
           NEW session \in {o, NoRef}, NEW pay \in {t, NoRef},
           session # NoRef \/ pay # NoRef,
           NEW kind, StripeMatch(x, kind, session, pay),
           order[o].provider = "stripe"
    PROVE  x = o
<1>1. order[o].status # "ABSENT"
  BY DEF SettlementInv, OrderInv, PspInv
<1>2. CASE session = o
  BY <1>1, <1>2 DEF StripeMatch, StripeOrders
<1>3. CASE session = NoRef
  <2>1. pay = t /\ t # NoRef
    BY <1>3, NoRefAssumption DEF Refs, Raw
  <2>2. x \in StripeOrders(session, pay)
    BY DEF StripeMatch
  <2>3. order[x].paymentRef = t
    BY <1>3, <2>1, <2>2, NoRefAssumption DEF StripeOrders, Refs, Raw
  <2>4. t \in psp[x].tried
    BY <2>1, <2>3 DEF SettlementInv, OrderInv
  <2>5. t \in psp[o].tried
    BY DEF SettlementInv, PspInv
  <2> QED
    BY <2>4, <2>5 DEF SettlementInv, PspInv
<1> QED
  BY <1>2, <1>3

LEMMA StripeEventInv ==
    ASSUME SettlementInv, NEW h \in Handlers, NEW o \in Orders, NEW t \in Txs,
           t \in psp[o].captured, order[o].provider = "stripe",
           NEW session \in {o, NoRef}, NEW pay \in {t, NoRef},
           session # NoRef \/ pay # NoRef,
           NEW kind \in {"session", "intent"}, StripeEvent(h, kind, session, pay)
    PROVE  SettlementInv'
<1>1. UNCHANGED <<db, opening, psp>>
  BY DEF StripeEvent
<1>2. pay \in OptRefs /\ NoRef \in OptRefs
  BY DEF OptRefs, Refs, Raw
<1>3. order[o].status # "ABSENT" /\ psp[o].captured # {}
  BY DEF SettlementInv, OrderInv, PspInv
<1>4. CASE Reply(h, FALSE, NoRef, pay)
  BY <1>1, <1>2, <1>4, ReplyStep
<1>5. ASSUME NEW x \in Orders, StripeMatch(x, kind, session, pay),
             order[x].status # "PENDING",
             Reply(h, /\ order[x].status = "COMPLETED"
                      /\ pay = NoRef \/ StoredPayment(x) = pay, x, pay)
      PROVE  SettlementInv'
  <2> DEFINE ok == /\ order[x].status = "COMPLETED"
                   /\ pay = NoRef \/ StoredPayment(x) = pay
  <2>1. Reply(h, ok, x, pay) /\ ok \in BOOLEAN
          /\ (ok => order[x].status = "COMPLETED")
    BY <1>5
  <2> HIDE DEF ok
  <2> QED
    BY <1>1, <1>2, <2>1, ReplyStep
<1>6. ASSUME NEW x \in Orders, StripeMatch(x, kind, session, pay),
             order[x].status = "PENDING",
             LET ref == IF pay # NoRef THEN pay ELSE session
             IN Goto(h, ToSettle(x, ref, pay, <<kind, x, ref>>)),
             UNCHANGED acked
      PROVE  SettlementInv'
  <2> DEFINE ref == IF pay # NoRef THEN pay ELSE session
             e   == <<kind, x, ref>>
  <2>1. x = o
    BY <1>6, StripeMatchLemma
  <2>2. ref \in Refs
    BY DEF Refs, Raw
  <2>3. e \in Events
    BY <2>2 DEF Events, EventKinds, OptRefs
  <2>4. Goto(h, ToSettle(x, ref, pay, e))
    BY <1>6
  <2>5. pay # NoRef => pay \in psp[o].captured
    OBVIOUS
  <2> HIDE DEF ref, e
  <2> QED
    BY <1>1, <1>2, <1>3, <1>6, <2>1, <2>2, <2>3, <2>4, <2>5, ToSettleStep
<1> QED
  BY <1>4, <1>5, <1>6 DEF StripeEvent

LEMMA StripeCallbackInv ==
    ASSUME SettlementInv, NEW h \in Handlers, NEW o \in Orders, NEW t \in Txs,
           StripeCallback(h, o, t)
    PROVE  SettlementInv'
<1>1. t \in psp[o].captured /\ order[o].provider = "stripe"
  BY DEF StripeCallback
<1>2. t # NoRef /\ o # NoRef
  BY NoRefAssumption DEF Refs, Raw
<1>3. CASE StripeEvent(h, "session", o, t)
  BY <1>1, <1>2, <1>3, StripeEventInv
<1>4. CASE StripeEvent(h, "session", o, NoRef)
  BY <1>1, <1>2, <1>4, StripeEventInv
<1>5. CASE StripeEvent(h, "intent", NoRef, t)
  BY <1>1, <1>2, <1>5, StripeEventInv
<1> QED
  BY <1>3, <1>4, <1>5 DEF StripeCallback

-----------------------------------------------------------------------------
(* Settlement.                                                              *)

\* One credit keeps the ledger: the order is claimed, its payment is the only
\* one with its order and its reference, and the invoice takes the amount.
LEMMA CreditStep ==
    ASSUME SettlementInv, NEW o \in Orders, NEW ref \in Refs,
           NEW pay \in OptRefs, NEW event \in Events,
           NEW method \in {"webhook", "bank"},
           order[o].status = "PENDING",
           pay # NoRef => pay \in psp[o].captured,
           method = "webhook" => psp[o].captured # {},
           RefsAreFree(o, ref, event),
           paid[order[o].invoice] <= Total[order[o].invoice],
           order[o].amount <= Outstanding(order[o].invoice),
           Credit(o, ref, pay, event, method),
           UNCHANGED <<opening, psp>>,
           job' \in [Handlers -> Job],
           \A h \in Handlers : job'[h] = job[h] \/ job'[h] = Idle,
           acked' \subseteq acked \cup {<<o, ref>>}
    PROVE  SettlementInv'
<1> USE DEF SettlementInv
<1> DEFINE i == order[o].invoice
           a == order[o].amount
           row == [order |-> o, invoice |-> i, amount |-> a,
                   pspRef |-> ref, event |-> event, method |-> method]
           done == [order[o] EXCEPT
                      !.status = "COMPLETED", !.eventRef = event,
                      !.pspRef = ref,
                      !.paymentRef = IF pay = NoRef THEN @ ELSE pay]
<1>1. /\ order[o] \in OrderRow
      /\ i \in Invoices /\ a \in Nat /\ a > 0
      /\ paid[i] \in Nat /\ Total[i] \in Nat
      /\ a <= Total[i] - paid[i]
  BY TotalAssumption DEF TypeOK, OrderRow, OrderInv, Outstanding
<1>2. /\ done \in OrderRow
      /\ done.status = "COMPLETED"
      /\ done.eventRef = event
      /\ done.pspRef = ref
      /\ done.invoice = i
      /\ done.amount = a
      /\ done.paymentRef = IF pay = NoRef THEN order[o].paymentRef ELSE pay
  BY <1>1 DEF OrderRow, OptRefs
<1>3. order' = [order EXCEPT ![o] = done]
  BY DEF Credit
<1>4. \A x \in Orders : order'[x] = IF x = o THEN done ELSE order[x]
  BY <1>3 DEF TypeOK
<1>5. payment' = payment \cup {row} /\ row \in PaymentRow
  BY <1>1 DEF Credit, PaymentRow
<1>6. \A j \in Invoices : paid'[j] = IF j = i THEN paid[i] + a ELSE paid[j]
  BY <1>1 DEF Credit, TypeOK
<1>7. \A j \in Invoices : invStatus'[j] =
         IF j = i THEN IF paid[i] + a >= Total[i] THEN "PAID" ELSE "PENDING"
         ELSE invStatus[j]
  BY <1>1 DEF Credit, TypeOK
<1> HIDE DEF done
<1>8. TypeOK'
  <2>1. order' \in [Orders -> OrderRow]
    BY <1>2, <1>3 DEF TypeOK
  <2>2. payment' \subseteq PaymentRow
    BY <1>5 DEF TypeOK
  <2>3. paid' \in [Invoices -> Nat] /\ invStatus' \in [Invoices -> {"PENDING", "PAID"}]
    BY <1>1 DEF Credit, TypeOK
  <2>4. acked' \subseteq (Orders \cup {NoRef}) \X OptRefs
    BY DEF TypeOK, OptRefs
  <2> QED
    BY <2>1, <2>2, <2>3, <2>4 DEF TypeOK
<1>9. OpeningInv'
  BY <1>4 DEF OpeningInv, TypeOK, OpenCheckout
<1>10. OrderInv'
  <2>1. order[o].paymentRef # NoRef => order[o].paymentRef \in psp[o].tried
    BY DEF OrderInv
  <2>2. pay # NoRef => pay \in psp[o].tried
    BY DEF PspInv
  <2> QED
    BY <1>1, <1>2, <1>4, <2>1, <2>2 DEF OrderInv
<1>11. PspInv'
  BY DEF PspInv
<1>12. JobInv'
  <2>1. \A x \in Orders :
           order[x].status # "ABSENT" => order'[x].status # "ABSENT"
    BY <1>2, <1>4
  <2> QED
    BY <2>1 DEF JobInv, Idle, Awaiting
<1>13. NoOverpayment'
  <2> SUFFICES ASSUME NEW j \in Invoices
               PROVE  /\ paid'[j] <= Total[j]
                      /\ invStatus'[j] = "PAID" => paid'[j] = Total[j]
                      /\ paid'[j] > 0 /\ paid'[j] = Total[j]
                           => invStatus'[j] = "PAID"
    BY DEF NoOverpayment
  <2>1. CASE j = i
    BY <1>1, <1>6, <1>7, <2>1
  <2>2. CASE j # i
    BY <1>6, <1>7, <2>2 DEF NoOverpayment
  <2> QED
    BY <2>1, <2>2
<1>14. \A p \in payment : p.order # o /\ p.pspRef # ref
  BY DEF OnePaymentPerOrder, RefsAreFree
<1>15. OnePaymentPerOrder'
  <2> SUFFICES ASSUME NEW x \in Orders
               PROVE  LET mine == {p \in payment' : p.order = x} IN
                      IF order'[x].status = "COMPLETED"
                      THEN \E p \in mine :
                             /\ mine = {p}
                             /\ p.invoice = order'[x].invoice
                             /\ p.amount = order'[x].amount
                             /\ p.pspRef = order'[x].pspRef
                             /\ p.event = order'[x].eventRef
                      ELSE mine = {}
    BY DEF OnePaymentPerOrder
  <2>1. CASE x = o
    <3>1. {p \in payment' : p.order = o} = {row}
      BY <1>5, <1>14
    <3>2. /\ order'[o].status = "COMPLETED"
          /\ row.invoice = order'[o].invoice
          /\ row.amount = order'[o].amount
          /\ row.pspRef = order'[o].pspRef
          /\ row.event = order'[o].eventRef
      BY <1>2, <1>4
    <3> HIDE DEF row
    <3> QED
      BY <2>1, <3>1, <3>2
  <2>2. CASE x # o
    <3>1. {p \in payment' : p.order = x} = {p \in payment : p.order = x}
      BY <1>5, <2>2
    <3> QED
      BY <1>4, <2>2, <3>1 DEF OnePaymentPerOrder
  <2> QED
    BY <2>1, <2>2
<1>16. ReferenceCreditedOnce'
  BY <1>5, <1>14 DEF ReferenceCreditedOnce
<1>17. NoCreditWithoutCapture'
  BY <1>5 DEF NoCreditWithoutCapture
<1>18. AckedIsSettled'
  BY <1>2, <1>4 DEF AckedIsSettled
<1> QED
  BY <1>8, <1>9, <1>10, <1>11, <1>12, <1>13, <1>15, <1>16, <1>17, <1>18

LEMMA SettleCommitInv ==
    ASSUME SettlementInv, NEW h \in Handlers, SettleCommit(h)
    PROVE  SettlementInv'
<1> DEFINE j == job[h]
<1>1. /\ j.step = "settle"
      /\ order[j.order].status = "PENDING"
      /\ RefsAreFree(j.order, j.pspRef, j.event)
      /\ Fits(order[j.order].invoice, order[j.order].amount)
      /\ Credit(j.order, j.pspRef, j.paymentRef, j.event, "webhook")
      /\ Reply(h, TRUE, j.order, j.pspRef)
      /\ UNCHANGED <<opening, psp>>
  BY DEF SettleCommit
<1>2. /\ j.order \in Orders /\ j.pspRef \in Refs /\ j.paymentRef \in OptRefs
      /\ j.event \in Events
      /\ psp[j.order].captured # {}
      /\ j.paymentRef # NoRef => j.paymentRef \in psp[j.order].captured
  BY <1>1, JobOrder DEF SettlementInv, JobInv, Job
<1>3. /\ job' \in [Handlers -> Job]
      /\ \A g \in Handlers : job'[g] = job[g] \/ job'[g] = Idle
      /\ acked' = acked \cup {<<j.order, j.pspRef>>}
  BY <1>1 DEF Reply, Goto, Idle, Awaiting, Job, OptRefs, SettlementInv, TypeOK
<1> HIDE DEF j
<1> QED
  BY <1>1, <1>2, <1>3, CreditStep DEF Fits

LEMMA BankApplyInv ==
    ASSUME SettlementInv, NEW o \in Orders, NEW r \in Raw, NEW a \in Amounts,
           BankApply(o, r, a)
    PROVE  SettlementInv'
<1> DEFINE ref   == Normal(r)
           event == <<"bank", o, ref>>
<1>1. /\ order[o].status = "PENDING"
      /\ a = order[o].amount
      /\ paid[order[o].invoice] <= Total[order[o].invoice]
      /\ a = Outstanding(order[o].invoice)
      /\ RefsAreFree(o, ref, event)
      /\ Credit(o, ref, NoRef, event, "bank")
      /\ UNCHANGED <<opening, psp, job, acked>>
  BY DEF BankApply
<1>2. ref \in Refs /\ NoRef \in OptRefs
  BY DEF Normal, Refs, OptRefs
<1>3. event \in Events
  BY <1>2 DEF Events, EventKinds, OptRefs
<1>4. a \in Nat
  BY AmountsAssumption
<1>5. job \in [Handlers -> Job]
  BY DEF SettlementInv, TypeOK
<1> HIDE DEF ref, event
<1>6. a <= Outstanding(order[o].invoice)
  BY <1>1, <1>4
<1> QED
  BY <1>1, <1>2, <1>3, <1>5, <1>6, CreditStep

\* The branches of settleOrder that leave the database as it was.
LEMMA SettleLostInv ==
    ASSUME SettlementInv, NEW h \in Handlers, SettleLost(h)
    PROVE  SettlementInv'
<1> DEFINE j  == job[h]
           ok == /\ order[j.order].status = "COMPLETED"
                 /\ order[j.order].eventRef \in {NoRef, j.event}
                 /\ order[j.order].pspRef \in {NoRef, j.pspRef}
<1>1. /\ UNCHANGED <<db, opening, psp>>
      /\ j.step = "settle"
      /\ Reply(h, ok, j.order, j.pspRef)
  BY DEF SettleLost
<1>2. ok \in BOOLEAN /\ (ok => order[j.order].status = "COMPLETED")
  OBVIOUS
<1>3. j.order \in Orders /\ j.pspRef \in OptRefs
  BY <1>1, JobOrder
<1> HIDE DEF j, ok
<1> QED
  BY <1>1, <1>2, <1>3, ReplyStep

LEMMA SettleRejectedInv ==
    ASSUME SettlementInv, NEW h \in Handlers, SettleRejected(h)
    PROVE  SettlementInv'
<1>1. /\ UNCHANGED <<db, opening, psp>>
      /\ job[h].step = "settle"
      /\ Reply(h, FALSE, job[h].order, job[h].pspRef)
  BY DEF SettleRejected
<1> QED
  BY <1>1, JobOrder, ReplyStep

LEMMA SettleDuplicateInv ==
    ASSUME SettlementInv, NEW h \in Handlers, SettleDuplicate(h)
    PROVE  SettlementInv'
<1> DEFINE next == [job[h] EXCEPT !.step = "replay"]
<1>1. /\ UNCHANGED <<db, opening, psp, acked>>
      /\ job[h].step = "settle"
      /\ Goto(h, next)
  BY DEF SettleDuplicate
<1>2. /\ next \in Job
      /\ next.step = "replay"
      /\ next.order = job[h].order /\ next.event = job[h].event
      /\ next.pspRef = job[h].pspRef /\ next.paymentRef = job[h].paymentRef
  BY <1>1, JobOrder DEF Job
<1>3. /\ job[h].order \in Orders
      /\ order[job[h].order].status # "ABSENT"
      /\ job[h].event \in Events
      /\ job[h].pspRef \in Refs
      /\ psp[job[h].order].captured # {}
      /\ job[h].paymentRef # NoRef =>
            job[h].paymentRef \in psp[job[h].order].captured
  BY <1>1 DEF SettlementInv, JobInv
<1> HIDE DEF next
<1>4. JobInv' /\ job' \in [Handlers -> Job]
  BY <1>1, <1>2, <1>3, HandlerStep
<1> QED
  BY <1>1, <1>4, GotoStep

\* A reference found on a payment of the order, or the event on the order,
\* can only come from its settlement.
LEMMA ReplayInv ==
    ASSUME SettlementInv, NEW h \in Handlers, ReplayBelongsToOrder(h)
    PROVE  SettlementInv'
<1> DEFINE j     == job[h]
           byPsp == {p \in payment : p.pspRef = j.pspRef}
           ok    == IF byPsp # {} THEN \E p \in byPsp : p.order = j.order
                    ELSE order[j.order].eventRef = j.event
<1>1. /\ UNCHANGED <<db, opening, psp>>
      /\ j.step = "replay"
      /\ Reply(h, ok, j.order, j.pspRef)
  BY DEF ReplayBelongsToOrder
<1>2. /\ j.order \in Orders /\ j.pspRef \in OptRefs
      /\ j.event \in Events /\ j.event # NoRef
  BY <1>1, JobOrder, NoRefAssumption DEF SettlementInv, JobInv
<1>3. ok => order[j.order].status = "COMPLETED"
  <2>1. ASSUME NEW p \in payment, p.order = j.order
        PROVE  order[j.order].status = "COMPLETED"
    BY <1>2, <2>1 DEF SettlementInv, OnePaymentPerOrder
  <2>2. ASSUME order[j.order].eventRef = j.event
        PROVE  order[j.order].status = "COMPLETED"
    BY <1>2, <2>2 DEF SettlementInv, OrderInv
  <2> QED
    BY <2>1, <2>2
<1>4. ok \in BOOLEAN
  OBVIOUS
<1> HIDE DEF j, ok
<1> QED
  BY <1>1, <1>2, <1>3, <1>4, ReplyStep

LEMMA SettleAbortsInv ==
    ASSUME SettlementInv, NEW h \in Handlers, SettleAborts(h)
    PROVE  SettlementInv'
<1>1. UNCHANGED <<db, opening, psp, acked>> /\ Goto(h, Idle)
  BY DEF SettleAborts
<1>2. Idle \in Job /\ Idle.step = "idle"
  BY DEF Idle, Awaiting, Job, OptRefs
<1>3. JobInv' /\ job' \in [Handlers -> Job]
  BY <1>1, <1>2, HandlerStep
<1> QED
  BY <1>1, <1>3, GotoStep

\* A late FAILED or EXPIRED answer only ends an order that is still pending.
LEMMA VivaMarkInv ==
    ASSUME SettlementInv, NEW h \in Handlers, VivaMark(h)
    PROVE  SettlementInv'
<1> USE DEF SettlementInv
<1> DEFINE o == job[h].order
           m == job[h].mark
<1>1. /\ job[h].step = "mark"
      /\ Reply(h, FALSE, o, NoRef)
      /\ UNCHANGED <<paid, invStatus, payment, opening, psp>>
  BY DEF VivaMark
<1>2. o \in Orders /\ m \in {"FAILED", "EXPIRED"}
  BY <1>1 DEF JobInv
<1>3. \A x \in Orders :
         /\ order'[x] \in OrderRow
         /\ order'[x].invoice = order[x].invoice
         /\ order'[x].amount = order[x].amount
         /\ order'[x].paymentRef = order[x].paymentRef
         /\ order'[x].pspRef = order[x].pspRef
         /\ order'[x].eventRef = order[x].eventRef
         /\ \/ /\ order'[x].status \in {"FAILED", "EXPIRED"}
               /\ order[x].status = "PENDING"
            \/ order'[x] = order[x]
  <2>1. CASE order[o].status = "PENDING"
    <3>1. order' = [order EXCEPT ![o].status = m]
      BY <2>1 DEF VivaMark
    <3>2. ASSUME NEW x \in Orders, x # o PROVE order'[x] = order[x]
      BY <1>2, <3>1, <3>2 DEF TypeOK
    <3>3. order'[o] = [order[o] EXCEPT !.status = m]
      BY <1>2, <3>1 DEF TypeOK
    <3>4. order[o] \in OrderRow
      BY <1>2 DEF TypeOK
    <3>5. /\ order'[o] \in OrderRow
          /\ order'[o].status = m
          /\ order'[o].invoice = order[o].invoice
          /\ order'[o].amount = order[o].amount
          /\ order'[o].paymentRef = order[o].paymentRef
          /\ order'[o].pspRef = order[o].pspRef
          /\ order'[o].eventRef = order[o].eventRef
      BY <1>2, <3>3, <3>4 DEF OrderRow
    <3> QED
      BY <1>2, <2>1, <3>2, <3>5 DEF TypeOK
  <2>2. CASE order[o].status # "PENDING"
    BY <2>2 DEF VivaMark, TypeOK
  <2> QED
    BY <2>1, <2>2
<1>4. order' \in [Orders -> OrderRow]
  <2>1. order' = [x \in Orders |-> order'[x]]
    BY DEF VivaMark, TypeOK
  <2> QED
    BY <1>3, <2>1
<1>5. /\ job' \in [Handlers -> Job]
      /\ \A g \in Handlers : job'[g] = job[g] \/ job'[g] = Idle
      /\ acked' = acked
  BY <1>1 DEF Reply, Goto, Idle, Awaiting, Job, OptRefs, TypeOK
<1>6. TypeOK'
  BY <1>1, <1>4, <1>5 DEF TypeOK
<1>7. OpeningInv'
  BY <1>1, <1>3 DEF OpeningInv, TypeOK, OpenCheckout
<1>8. OrderInv'
  BY <1>1, <1>3 DEF OrderInv
<1>9. PspInv'
  BY <1>1 DEF PspInv
<1>10. JobInv'
  BY <1>1, <1>3, <1>5 DEF JobInv, Idle, Awaiting
<1>11. NoOverpayment' /\ ReferenceCreditedOnce' /\ NoCreditWithoutCapture'
  BY <1>1 DEF NoOverpayment, ReferenceCreditedOnce, NoCreditWithoutCapture
<1>12. OnePaymentPerOrder'
  BY <1>1, <1>3 DEF OnePaymentPerOrder
<1>13. AckedIsSettled'
  BY <1>3, <1>5 DEF AckedIsSettled
<1> QED
  BY <1>6, <1>7, <1>8, <1>9, <1>10, <1>11, <1>12, <1>13

\* A crash forgets requests, never rows.
LEMMA RestartInv ==
    ASSUME SettlementInv, Restart
    PROVE  SettlementInv'
<1> USE DEF SettlementInv
<1>1. UNCHANGED <<db, psp, acked>> /\ opening' = {}
  BY DEF Restart
<1>2. /\ job' \in [Handlers -> Job]
      /\ \A h \in Handlers : job'[h] = Idle
  BY DEF Restart, Idle, Awaiting, Job, OptRefs
<1>3. TypeOK'
  BY <1>1, <1>2 DEF TypeOK, db
<1>4. OpeningInv' /\ OrderInv' /\ PspInv'
  BY <1>1 DEF OpeningInv, OrderInv, PspInv, db
<1>5. JobInv'
  BY <1>2 DEF JobInv, Idle, Awaiting
<1>6. NoCreditWithoutCapture' /\ AckedIsSettled'
  BY <1>1 DEF NoCreditWithoutCapture, AckedIsSettled, db
<1> QED
  BY <1>1, <1>3, <1>4, <1>5, <1>6, LedgerFrame

-----------------------------------------------------------------------------
(* The theorems.                                                            *)

LEMMA NextInv == SettlementInv /\ [Next]_vars => SettlementInv'
<1> SUFFICES ASSUME SettlementInv, [Next]_vars PROVE SettlementInv'
  OBVIOUS
<1>1. CASE Checkout
  BY <1>1, StartCheckoutInv, CheckoutFailsInv, FinishCheckoutInv DEF Checkout
<1>2. CASE Psp
  BY <1>2, PspAttemptInv, PspCaptureInv, PspEndsInv DEF Psp
<1>3. ASSUME NEW h \in Handlers, Callback(h) PROVE SettlementInv'
  BY <1>3, VivaCallbackInv, StripeCallbackInv, MercadoPagoCallbackInv
     DEF Callback
<1>4. ASSUME NEW h \in Handlers, Handle(h) PROVE SettlementInv'
  BY <1>4, VivaStatusCompletedInv, VivaStatusEndedInv, VivaStatusUnknownInv,
     VivaMarkInv, MercadoPagoFindInv, SettleCommitInv, SettleLostInv,
     SettleRejectedInv, SettleDuplicateInv, ReplayInv, SettleAbortsInv
     DEF Handle
<1>5. CASE Bank
  BY <1>5, BankApplyInv DEF Bank
<1>6. CASE Restart
  BY <1>6, RestartInv
<1>7. CASE UNCHANGED vars
  <2>1. UNCHANGED <<db, opening, psp, job, acked>>
    BY <1>7 DEF vars, db
  <2> QED
    BY <2>1, RowsFrame DEF SettlementInv, TypeOK, JobInv, AckedIsSettled, db
<1> QED
  BY <1>1, <1>2, <1>3, <1>4, <1>5, <1>6, <1>7 DEF Next

\* The inductive invariant holds in every reachable state.
THEOREM Invariance == Spec => []SettlementInv
<1> QED
  BY InitInv, NextInv, PTL DEF Spec

\* Rows, requests and references keep their schema.
THEOREM TypeCorrect == Spec => []TypeOK
<1>1. SettlementInv => TypeOK
  BY DEF SettlementInv
<1> QED
  BY <1>1, Invariance, PTL

\* No interleaving of webhooks, duplicates, bank imports and restarts collects
\* more than an invoice's total, for any number of orders and requests.
THEOREM NeverOverpaid == Spec => []NoOverpayment
<1>1. SettlementInv => NoOverpayment
  BY DEF SettlementInv
<1> QED
  BY <1>1, Invariance, PTL

\* An order is settled by exactly one payment row, with its own references, a
\* reference credits one order, and a webhook credits only what was captured.
THEOREM SettledOnce == Spec => []CreditedOnce
<1>1. SettlementInv => CreditedOnce
  BY DEF SettlementInv, CreditedOnce
<1> QED
  BY <1>1, Invariance, PTL

\* An { ok: true } answer is only given for a settled order.
THEOREM AnswersAreTrue == Spec => []AckedIsSettled
<1>1. SettlementInv => AckedIsSettled
  BY DEF SettlementInv
<1> QED
  BY <1>1, Invariance, PTL

\* Terminal orders, payments and collected money are never taken back.
THEOREM SettledStaysSettled == Spec => SettledIsFinal
<1> DEFINE Keeps == /\ \A o \in Orders :
                          order[o].status \in {"COMPLETED", "FAILED", "EXPIRED"}
                            => order'[o] = order[o]
                    /\ payment \subseteq payment'
                    /\ \A i \in Invoices : paid'[i] >= paid[i]
<1>1. ASSUME SettlementInv, [Next]_vars PROVE Keeps
  <2>1. ASSUME UNCHANGED db PROVE Keeps
    BY <1>1, <2>1 DEF SettlementInv, TypeOK, db
  <2>2. ASSUME NEW c \in opening, NEW t \in Txs \cup {NoRef},
               FinishCheckout(c, t)
        PROVE  Keeps
    BY <1>1, <2>2 DEF SettlementInv, TypeOK, OpeningInv, FinishCheckout
  <2>3. ASSUME NEW o \in Orders, NEW ref, NEW pay, NEW event, NEW method,
               order[o].status = "PENDING", Credit(o, ref, pay, event, method)
        PROVE  Keeps
    <3>1. order[o].invoice \in Invoices /\ order[o].amount \in Nat
      BY <1>1, <2>3 DEF SettlementInv, TypeOK, OrderInv, OrderRow
    <3>2. \A x \in Orders : x # o => order'[x] = order[x]
      BY <1>1, <2>3 DEF Credit, SettlementInv, TypeOK
    <3>3. payment \subseteq payment'
      BY <2>3 DEF Credit
    <3>4. \A i \in Invoices : paid'[i] >= paid[i]
      BY <1>1, <2>3, <3>1 DEF Credit, SettlementInv, TypeOK
    <3> QED
      BY <2>3, <3>2, <3>3, <3>4
  <2>4. ASSUME NEW h \in Handlers, SettleCommit(h) PROVE Keeps
    <3>1. job[h].order \in Orders
      BY <1>1, <2>4, JobOrder DEF SettleCommit
    <3> QED
      BY <2>3, <2>4, <3>1 DEF SettleCommit
  <2>5. ASSUME NEW o \in Orders, NEW r \in Raw, NEW a \in Amounts,
               BankApply(o, r, a)
        PROVE  Keeps
    BY <2>3, <2>5 DEF BankApply
  <2>6. ASSUME NEW h \in Handlers, VivaMark(h) PROVE Keeps
    BY <1>1, <2>6 DEF VivaMark, SettlementInv, TypeOK
  <2>7. ASSUME NEW h \in Handlers, Callback(h) PROVE UNCHANGED db
    BY <2>7 DEF Callback, VivaCallback, StripeCallback, StripeEvent,
                MercadoPagoCallback
  <2>8. ASSUME NEW h \in Handlers, Handle(h) PROVE Keeps
    BY <2>1, <2>4, <2>6, <2>8
       DEF Handle, VivaStatusCompleted, VivaStatusEnded, VivaStatusUnknown,
           MercadoPagoFind, SettleLost, SettleRejected, SettleDuplicate,
           ReplayBelongsToOrder, SettleAborts
  <2>9. CASE Checkout
    BY <2>1, <2>2, <2>9 DEF Checkout, StartCheckout, CheckoutFails
  <2>10. CASE Psp
    BY <2>1, <2>10 DEF Psp, PspAttempt, PspCapture, PspEnds
  <2>11. CASE Bank
    BY <2>5, <2>11 DEF Bank
  <2>12. CASE Restart \/ UNCHANGED vars
    BY <2>1, <2>12 DEF Restart, vars, db
  <2> QED
    BY <1>1, <2>1, <2>7, <2>8, <2>9, <2>10, <2>11, <2>12 DEF Next
<1>2. SettlementInv /\ [Next]_vars => [Keeps]_vars
  BY <1>1
<1> QED
  BY <1>2, Invariance, PTL DEF Spec, SettledIsFinal

\* A credit of the system is a credit of the abstract ledger.
LEMMA CreditRefines ==
    ASSUME SettlementInv, NEW o \in Orders, NEW ref, NEW pay, NEW event,
           NEW method, order[o].status = "PENDING",
           paid[order[o].invoice] <= Total[order[o].invoice],
           order[o].amount <= Outstanding(order[o].invoice),
           Credit(o, ref, pay, event, method)
    PROVE  Ledger!Next
<1> DEFINE i == order[o].invoice
           a == order[o].amount
           c == [order |-> o, invoice |-> i, amount |-> a]
           row == [order |-> o, invoice |-> i, amount |-> a,
                   pspRef |-> ref, event |-> event, method |-> method]
<1>1. /\ i \in Invoices /\ a \in Nat /\ a > 0
      /\ paid[i] \in Nat /\ Total[i] \in Nat
      /\ a <= Total[i] - paid[i]
  BY TotalAssumption DEF SettlementInv, TypeOK, OrderRow, OrderInv, Outstanding
<1>2. \A p \in payment : p.order # o
  BY DEF SettlementInv, OnePaymentPerOrder
<1>3. \A x \in Credits : x.order # o
  BY <1>2 DEF Credits
<1>4. Credits' = Credits \cup {c}
  <2>1. payment' = payment \cup {row}
    BY DEF Credit
  <2>2. /\ row.order = o /\ row.invoice = i /\ row.amount = a
    OBVIOUS
  <2> HIDE DEF row
  <2> QED
    BY <2>1, <2>2 DEF Credits
<1>5. paid' = [paid EXCEPT ![i] = @ + a]
  BY DEF Credit
<1>6. a \in 1..Total[i] /\ paid[i] + a <= Total[i]
  BY <1>1
<1>7. Ledger!Credit(o, i, a)
  BY <1>1, <1>3, <1>4, <1>5, <1>6 DEF Ledger!Credit
<1> QED
  BY <1>1, <1>6, <1>7 DEF Ledger!Next

\* Webhooks, bank imports, aborts and restarts implement the ledger in which an
\* order is credited once and an invoice never beyond its total.
THEOREM ImplementsLedger == Spec => LedgerSpec
<1>1. Init => Ledger!Init
  BY DEF Init, Ledger!Init, Credits
<1>2. ASSUME SettlementInv, [Next]_vars
      PROVE  Ledger!Next \/ UNCHANGED <<paid, Credits>>
  <2>1. ASSUME UNCHANGED <<paid, payment>> PROVE UNCHANGED <<paid, Credits>>
    BY <2>1 DEF Credits
  <2>2. ASSUME NEW h \in Handlers, SettleCommit(h) PROVE Ledger!Next
    <3>1. job[h].order \in Orders
      BY <1>2, <2>2, JobOrder DEF SettleCommit
    <3> QED
      BY <1>2, <2>2, <3>1, CreditRefines DEF SettleCommit, Fits
  <2>3. ASSUME NEW o \in Orders, NEW r \in Raw, NEW a \in Amounts,
               BankApply(o, r, a)
        PROVE  Ledger!Next
    <3>1. order[o].amount <= Outstanding(order[o].invoice)
      BY <2>3, AmountsAssumption DEF BankApply
    <3> QED
      BY <1>2, <2>3, <3>1, CreditRefines DEF BankApply
  <2>4. ASSUME NEW h \in Handlers, Callback(h) \/ Handle(h)
        PROVE  Ledger!Next \/ UNCHANGED <<paid, payment>>
    BY <2>2, <2>4
       DEF Callback, VivaCallback, StripeCallback, StripeEvent, db,
           MercadoPagoCallback, Handle, VivaStatusCompleted, VivaStatusEnded,
           VivaStatusUnknown, VivaMark, MercadoPagoFind, SettleLost,
           SettleRejected, SettleDuplicate, ReplayBelongsToOrder, SettleAborts
  <2>5. CASE Checkout
    BY <2>1, <2>5 DEF Checkout, StartCheckout, CheckoutFails, FinishCheckout, db
  <2>6. CASE Psp
    BY <2>1, <2>6 DEF Psp, PspAttempt, PspCapture, PspEnds, db
  <2>7. CASE Bank
    BY <2>3, <2>7 DEF Bank
  <2>8. CASE Restart \/ UNCHANGED vars
    BY <2>1, <2>8 DEF Restart, vars, db
  <2> QED
    BY <1>2, <2>1, <2>4, <2>5, <2>6, <2>7, <2>8 DEF Next
<1>3. SettlementInv /\ [Next]_vars => [Ledger!Next]_<<paid, Credits>>
  BY <1>2
<1> QED
  BY <1>1, <1>3, Invariance, PTL DEF Spec, LedgerSpec, Ledger!Spec
=============================================================================

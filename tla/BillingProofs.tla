--------------------------- MODULE BillingProofs ---------------------------
(***************************************************************************)
(* Proofs about Billing for any number of units, periods, expenses and      *)
(* calls: a period is issued by one run, whole, and stays as issued.        *)
(* First without what a sum is: Owed(set) is only a value per unit, and the  *)
(* argument is about transactions. Then what the sums and shares are, and   *)
(* what the history variables of MCBilling say of late and double billing.  *)
(***************************************************************************)
EXTENDS MCBilling, SumTheorems

(* Values the rows can hold. *)
Totals == Amounts \cup {TemplateCharge[t].total : t \in Templates}
Source == (Requests \X (Templates \cup {NoOne})) \X
             ((Periods \X Totals) \X Strategies)
AllExpenses ==
    {Expense(s[1][1], s[1][2], s[2][1][1], s[2][1][2], s[2][2]) : s \in Source}
Views == {NoTotals} \cup {Owed(set) : set \in SUBSET AllExpenses}
Cents == {v[u] : v \in Views, u \in Units}
InvoiceRow == [total : Cents, by : Requests \cup {NoOne}, present : BOOLEAN]
Call == [step : {"new", "generating", "preflight", "issuing", "done"},
         period : Periods \cup {0}, due : SUBSET Templates, totals : Views,
         unit : 0..(N + 1)]

Shape ==
    /\ expenses \subseteq AllExpenses
    /\ invoice \in [Periods -> [Units -> InvoiceRow]]
    /\ req \in [Requests -> Call]

\* A run works on what its period's expenses came to when it read them.
ViewInv ==
    \A q \in Requests :
        /\ req[q].step = "generating" => req[q].period \in Periods
        /\ req[q].step \in {"preflight", "issuing"} =>
             /\ req[q].period \in Periods
             /\ \E set \in SUBSET Of(req[q].period) : req[q].totals = Owed(set)

\* A row that is not committed is one its run has passed, with its total.
RowInv ==
    \A p \in Periods : \A u \in Units :
        LET row == invoice[p][u] IN
        row.by # NoOne =>
            /\ row.present
            /\ req[row.by].step = "issuing" /\ req[row.by].period = p
            /\ u < req[row.by].unit
            /\ row.total = req[row.by].totals[u]

\* The rows of a period have one writer: whoever inserts the first unit.
OneWriter ==
    \A p \in Periods : \A u, v \in Units :
        invoice[p][u].present /\ invoice[p][v].present =>
            invoice[p][u].by = invoice[p][v].by

\* A run has seen to every unit it has passed.
PassedInv ==
    \A q \in Requests :
        req[q].step = "issuing" =>
            /\ req[q].unit \in 1..(N + 1)
            /\ \A u \in Units :
                  u < req[q].unit =>
                     /\ invoice[req[q].period][u].present
                     /\ invoice[req[q].period][u].by \in {q, NoOne}

BillingInv ==
    Shape /\ ViewInv /\ RowInv /\ OneWriter /\ PassedInv /\ IssuedFromOneView
-----------------------------------------------------------------------------
LEMMA UnitsFact == N \in Nat /\ N >= 1 /\ Units = 1..N /\ 1 \in Units
  BY UnitsAssumption DEF Units

LEMMA NoOneFact == NoOne \notin Requests
  BY NoOneAssumption

LEMMA NewCall == New \in Call /\ [New EXCEPT !.step = "done"] \in Call
<1>1. NoTotals \in Views
  BY DEF Views
<1> QED
  BY <1>1, UnitsFact DEF New, Call

LEMMA EmptyRow == NoInvoice \in InvoiceRow
<1>1. NoTotals \in Views /\ NoTotals[1] = 0
  BY UnitsFact DEF Views, NoTotals
<1>2. 0 \in Cents
  BY <1>1, UnitsFact DEF Cents
<1> QED
  BY <1>2 DEF NoInvoice, InvoiceRow

LEMMA InitInv == Init => BillingInv
<1> SUFFICES ASSUME Init PROVE BillingInv
  OBVIOUS
<1>1. Shape
  BY NewCall, EmptyRow DEF Init, Shape
<1>2. \A p \in Periods : \A u \in Units : invoice[p][u] = NoInvoice
  BY DEF Init
<1>3. \A q \in Requests : req[q].step = "new"
  BY DEF Init, New
<1>4. RowInv /\ OneWriter /\ IssuedFromOneView
  BY <1>2 DEF RowInv, OneWriter, IssuedFromOneView, Committed, NoInvoice
<1>5. ViewInv /\ PassedInv
  BY <1>3 DEF ViewInv, PassedInv
<1> QED
  BY <1>1, <1>4, <1>5 DEF BillingInv

\* An expense that is added leaves what was issued a view of the period.
LEMMA IssuedGrows ==
    ASSUME IssuedFromOneView, invoice' = invoice, expenses \subseteq expenses'
    PROVE  IssuedFromOneView'
<1>1. \A p : Of(p) \subseteq Of(p)'
  BY DEF Of
<1>2. \A p, u : Committed(p, u)' <=> Committed(p, u)
  BY DEF Committed
<1> QED
  BY <1>1, <1>2 DEF IssuedFromOneView

\* A call that is not issuing moves on, perhaps into the transaction.
LEMMA CallStep ==
    ASSUME BillingInv, NEW q \in Requests, NEW c \in Call,
           req' = [req EXCEPT ![q] = c], req[q].step # "issuing",
           invoice' = invoice,
           expenses \subseteq expenses', expenses' \subseteq AllExpenses,
           c.step = "generating" => c.period \in Periods,
           c.step \in {"preflight", "issuing"} =>
              /\ c.period \in Periods
              /\ \E set \in SUBSET Of(c.period) : c.totals = Owed(set),
           c.step = "issuing" => c.unit = 1
    PROVE  BillingInv'
<1>1. Shape'
  BY DEF BillingInv, Shape
<1>2. \A r \in Requests : req'[r] = IF r = q THEN c ELSE req[r]
  BY DEF BillingInv, Shape
<1>3. \A p : Of(p) \subseteq Of(p)'
  BY DEF Of
<1>4. ViewInv'
  BY <1>2, <1>3 DEF BillingInv, ViewInv
<1>5. RowInv'
  <2> SUFFICES ASSUME NEW p \in Periods, NEW u \in Units,
                      invoice[p][u].by # NoOne
               PROVE  LET row == invoice[p][u] IN
                        /\ row.present
                        /\ req'[row.by].step = "issuing"
                        /\ req'[row.by].period = p
                        /\ u < req'[row.by].unit
                        /\ row.total = req'[row.by].totals[u]
    BY DEF RowInv
  <2>1. invoice[p][u].by \in Requests
    BY DEF BillingInv, Shape, InvoiceRow
  <2>2. invoice[p][u].by # q
    BY DEF BillingInv, RowInv
  <2> QED
    BY <1>2, <2>1, <2>2 DEF BillingInv, RowInv
<1>6. OneWriter'
  BY DEF BillingInv, OneWriter
<1>7. PassedInv'
  <2> SUFFICES ASSUME NEW r \in Requests, req'[r].step = "issuing"
               PROVE  /\ req'[r].unit \in 1..(N + 1)
                      /\ \A u \in Units :
                            u < req'[r].unit =>
                               /\ invoice[req'[r].period][u].present
                               /\ invoice[req'[r].period][u].by \in {r, NoOne}
    BY DEF PassedInv
  <2>1. CASE r = q
    BY <1>2, <2>1, UnitsFact
  <2>2. CASE r # q
    BY <1>2, <2>2 DEF BillingInv, PassedInv
  <2> QED
    BY <2>1, <2>2
<1>8. IssuedFromOneView'
  BY IssuedGrows DEF BillingInv
<1> QED
  BY <1>1, <1>4, <1>5, <1>6, <1>7, <1>8 DEF BillingInv
-----------------------------------------------------------------------------
(* The calls that do not write invoices.                                    *)

LEMMA FinishStep ==
    ASSUME BillingInv, NEW q \in Requests, Finish(q),
           req[q].step # "issuing", invoice' = invoice,
           expenses \subseteq expenses', expenses' \subseteq AllExpenses
    PROVE  BillingInv'
<1> DEFINE c == [New EXCEPT !.step = "done"]
<1>1. c \in Call /\ c.step = "done"
  BY NewCall DEF New
<1> QED
  BY <1>1, CallStep DEF Finish

LEMMA ExpenseFact ==
    ASSUME NEW q \in Requests, NEW t \in Templates \cup {NoOne},
           NEW p \in Periods, NEW total \in Totals, NEW w \in Strategies
    PROVE  Expense(q, t, p, total, w) \in AllExpenses
<1> DEFINE s == <<<<q, t>>, <<<<p, total>>, w>>>>
<1>1. s \in Source
  BY DEF Source
<1>2. Expense(q, t, p, total, w) =
        Expense(s[1][1], s[1][2], s[2][1][1], s[2][1][2], s[2][2])
  OBVIOUS
<1> QED
  BY <1>1, <1>2 DEF AllExpenses

LEMMA CreateExpenseInv ==
    ASSUME BillingInv, NEW q \in Requests, NEW p \in Periods,
           NEW total \in Amounts, NEW w \in Strategies,
           CreateExpense(q, p, total, w)
    PROVE  BillingInv'
<1>1. Expense(q, NoOne, p, total, w) \in AllExpenses
  BY ExpenseFact DEF Totals
<1>2. expenses \subseteq expenses' /\ expenses' \subseteq AllExpenses
  BY <1>1 DEF CreateExpense, BillingInv, Shape
<1> QED
  BY <1>2, FinishStep DEF CreateExpense, New

LEMMA GenerateReadsInv ==
    ASSUME BillingInv, NEW q \in Requests, NEW p \in Periods,
           GenerateReads(q, p)
    PROVE  BillingInv'
<1> DEFINE c == [New EXCEPT !.step = "generating", !.period = p, !.due = Due(p)]
<1>1. Due(p) \subseteq Templates
  BY DEF Due
<1>2. c \in Call /\ c.step = "generating" /\ c.period = p
  BY <1>1, NewCall DEF New, Call
<1>3. req' = [req EXCEPT ![q] = c] /\ req[q].step # "issuing"
  BY DEF GenerateReads, New
<1> QED
  BY <1>2, <1>3, CallStep DEF GenerateReads, BillingInv, Shape

LEMMA GenerateCommitsInv ==
    ASSUME BillingInv, NEW q \in Requests, GenerateCommits(q)
    PROVE  BillingInv'
<1> DEFINE due == req[q].due
           p == req[q].period
<1>1. due \subseteq Templates /\ p \in Periods
  BY DEF GenerateCommits, BillingInv, Shape, ViewInv, Call
<1>2. ASSUME NEW t \in due
      PROVE  Expense(q, t, p, TemplateCharge[t].total, TemplateCharge[t].weights)
               \in AllExpenses
  <2>1. t \in Templates /\ TemplateCharge[t].total \in Totals
    BY <1>1, <1>2 DEF Totals
  <2>2. TemplateCharge[t].weights \in Strategies
    BY <2>1, ChargesAssumption
  <2> QED
    BY <1>1, <2>1, <2>2, ExpenseFact
<1>3. expenses \subseteq expenses' /\ expenses' \subseteq AllExpenses
  BY <1>2 DEF GenerateCommits, BillingInv, Shape
<1> QED
  BY <1>3, FinishStep DEF GenerateCommits

LEMMA GenerateFailsInv ==
    ASSUME BillingInv, NEW q \in Requests, GenerateFails(q)
    PROVE  BillingInv'
  BY FinishStep DEF GenerateFails, BillingInv, Shape

LEMMA RunReadsExpensesInv ==
    ASSUME BillingInv, NEW q \in Requests, NEW p \in Periods,
           RunReadsExpenses(q, p)
    PROVE  BillingInv'
<1> DEFINE c == [New EXCEPT !.step = "preflight", !.period = p,
                            !.totals = Owed(Of(p))]
<1>1. Of(p) \in SUBSET AllExpenses
  BY DEF Of, BillingInv, Shape
<1>2. Owed(Of(p)) \in Views
  BY <1>1 DEF Views
<1>3. c \in Call /\ c.step = "preflight" /\ c.period = p
        /\ c.totals = Owed(Of(p))
  BY <1>2, NewCall DEF New, Call
<1>4. req' = [req EXCEPT ![q] = c] /\ req[q].step # "issuing"
  BY DEF RunReadsExpenses, New
<1> QED
  BY <1>3, <1>4, CallStep DEF RunReadsExpenses, BillingInv, Shape

LEMMA RunReadsInvoicesInv ==
    ASSUME BillingInv, NEW q \in Requests, RunReadsInvoices(q)
    PROVE  BillingInv'
<1>1. CASE Finish(q)
  BY <1>1, FinishStep DEF RunReadsInvoices, BillingInv, Shape
<1>2. CASE req' = [req EXCEPT ![q].step = "issuing", ![q].unit = 1]
  <2> DEFINE c == [req[q] EXCEPT !.step = "issuing", !.unit = 1]
  <2>1. req[q] \in Call
    BY DEF BillingInv, Shape
  <2>2. 1 \in 0..(N + 1)
    BY UnitsFact
  <2>3. c \in Call /\ c.step = "issuing" /\ c.unit = 1
          /\ c.period = req[q].period /\ c.totals = req[q].totals
    BY <2>1, <2>2 DEF Call
  <2>4. req' = [req EXCEPT ![q] = c]
    BY <1>2, <2>1 DEF BillingInv, Shape, Call
  <2>5. /\ c.period \in Periods
        /\ \E set \in SUBSET Of(c.period) : c.totals = Owed(set)
    BY <2>3 DEF RunReadsInvoices, BillingInv, ViewInv
  <2> QED
    BY <2>3, <2>4, <2>5, CallStep DEF RunReadsInvoices, BillingInv, Shape
<1> QED
  BY <1>1, <1>2 DEF RunReadsInvoices

LEMMA EditInv ==
    ASSUME BillingInv, UNCHANGED <<expenses, invoice, req>>
    PROVE  BillingInv'
<1>1. Shape' /\ RowInv' /\ OneWriter' /\ PassedInv'
  BY DEF BillingInv, Shape, RowInv, OneWriter, PassedInv
<1>2. ViewInv'
  BY DEF BillingInv, ViewInv, Of
<1>3. IssuedFromOneView'
  BY IssuedGrows DEF BillingInv
<1> QED
  BY <1>1, <1>2, <1>3 DEF BillingInv
-----------------------------------------------------------------------------
(* The transaction of the run.                                              *)

\* What the invariant says of a run before its next unit.
LEMMA IssuingFacts ==
    ASSUME BillingInv, NEW q \in Requests, req[q].step = "issuing"
    PROVE  /\ req[q] \in Call
           /\ req[q].period \in Periods
           /\ req[q].unit \in 1..(N + 1)
           /\ \A u \in Units :
                 u < req[q].unit =>
                    /\ invoice[req[q].period][u].present
                    /\ invoice[req[q].period][u].by \in {q, NoOne}
           /\ \E set \in SUBSET Of(req[q].period) : req[q].totals = Owed(set)
  BY DEF BillingInv, Shape, ViewInv, PassedInv

\* An upsert moves its own call to the next unit and changes nothing else of it.
LEMMA PassStep ==
    ASSUME BillingInv, NEW q \in Requests, Upsert(q)
    PROVE  /\ \A r \in Requests : /\ req'[r].step = req[r].step
                                  /\ req'[r].period = req[r].period
                                  /\ req'[r].totals = req[r].totals
                                  /\ r # q => req'[r].unit = req[r].unit
           /\ req'[q].unit = req[q].unit + 1
           /\ req' \in [Requests -> Call]
<1>1. req[q].unit \in Units /\ req[q] \in Call
  BY IssuingFacts DEF Upsert
<1>2. req[q].unit + 1 \in 0..(N + 1)
  BY <1>1, UnitsFact
<1>3. req' = [req EXCEPT ![q] = [req[q] EXCEPT !.unit = req[q].unit + 1]]
  BY DEF Upsert
<1>4. [req[q] EXCEPT !.unit = req[q].unit + 1] \in Call
  BY <1>1, <1>2 DEF Call
<1>5. /\ [req[q] EXCEPT !.unit = req[q].unit + 1].step = req[q].step
      /\ [req[q] EXCEPT !.unit = req[q].unit + 1].period = req[q].period
      /\ [req[q] EXCEPT !.unit = req[q].unit + 1].totals = req[q].totals
      /\ [req[q] EXCEPT !.unit = req[q].unit + 1].unit = req[q].unit + 1
  BY <1>1 DEF Call
<1>6. req \in [Requests -> Call]
  BY DEF BillingInv, Shape
<1> QED
  BY <1>3, <1>4, <1>5, <1>6

\* Before a unit is inserted, every row of the period is the run's own.
LEMMA InsertFacts ==
    ASSUME BillingInv, NEW q \in Requests, req[q].step = "issuing",
           req[q].unit \in Units,
           ~ invoice[req[q].period][req[q].unit].present
    PROVE  \A v \in Units :
              invoice[req[q].period][v].present =>
                 invoice[req[q].period][v].by = q
<1> DEFINE p == req[q].period
           u == req[q].unit
<1>1. p \in Periods
  BY IssuingFacts
<1>2. \A v \in Units : ~ Committed(p, v)
  BY <1>1 DEF BillingInv, IssuedFromOneView, Committed
<1> SUFFICES ASSUME NEW v \in Units, invoice[p][v].present
             PROVE  invoice[p][v].by = q
  OBVIOUS
<1> DEFINE r == invoice[p][v].by
<1>3. r \in Requests
  BY <1>1, <1>2 DEF BillingInv, Shape, InvoiceRow, Committed
<1>4. /\ req[r].step = "issuing" /\ req[r].period = p
      /\ v < req[r].unit
  BY <1>1, <1>3, NoOneFact DEF BillingInv, RowInv
<1>5. ~ (u < v)
  <2> SUFFICES ASSUME u < v PROVE FALSE
    OBVIOUS
  <2>1. req[r].unit \in 1..(N + 1)
    BY <1>3, <1>4, IssuingFacts
  <2>2. u < req[r].unit
    BY <1>4, <2>1, UnitsFact
  <2> QED
    BY <1>3, <1>4, <2>2, IssuingFacts
<1>6. v # u
  OBVIOUS
<1>7. v < u
  BY <1>5, <1>6, UnitsFact
<1>8. r \in {q, NoOne}
  BY <1>7, IssuingFacts
<1> QED
  BY <1>3, <1>8, NoOneFact

LEMMA UpsertInv ==
    ASSUME BillingInv, NEW q \in Requests, Upsert(q)
    PROVE  BillingInv'
<1> DEFINE p == req[q].period
           u == req[q].unit
<1>1. /\ req[q].step = "issuing" /\ u \in Units /\ p \in Periods
      /\ expenses' = expenses
  BY IssuingFacts DEF Upsert
<1>2. /\ \A r \in Requests : /\ req'[r].step = req[r].step
                             /\ req'[r].period = req[r].period
                             /\ req'[r].totals = req[r].totals
                             /\ r # q => req'[r].unit = req[r].unit
      /\ req'[q].unit = u + 1
      /\ req' \in [Requests -> Call]
  BY PassStep
<1>3. ViewInv'
  BY <1>1, <1>2 DEF BillingInv, ViewInv, Of
<1>4. CASE Committed(p, u) /\ invoice' = invoice
  <2>1. Shape'
    BY <1>1, <1>2, <1>4 DEF BillingInv, Shape
  <2>2. RowInv'
    <3> SUFFICES ASSUME NEW x \in Periods, NEW v \in Units,
                        invoice[x][v].by # NoOne
                 PROVE  /\ invoice[x][v].present
                        /\ req'[invoice[x][v].by].step = "issuing"
                        /\ req'[invoice[x][v].by].period = x
                        /\ v < req'[invoice[x][v].by].unit
                        /\ invoice[x][v].total = req'[invoice[x][v].by].totals[v]
      BY <1>4 DEF RowInv
    <3> DEFINE r == invoice[x][v].by
    <3>1. r \in Requests
      BY DEF BillingInv, Shape, InvoiceRow
    <3>2. /\ invoice[x][v].present
          /\ req[r].step = "issuing" /\ req[r].period = x
          /\ v < req[r].unit
          /\ invoice[x][v].total = req[r].totals[v]
      BY DEF BillingInv, RowInv
    <3>3. v < req'[r].unit
      BY <1>1, <1>2, <3>1, <3>2, UnitsFact
    <3> QED
      BY <1>2, <3>1, <3>2, <3>3
  <2>3. OneWriter'
    BY <1>4 DEF BillingInv, OneWriter
  <2>4. PassedInv'
    <3> SUFFICES ASSUME NEW r \in Requests, req[r].step = "issuing"
                 PROVE  /\ req'[r].unit \in 1..(N + 1)
                        /\ \A v \in Units :
                              v < req'[r].unit =>
                                 /\ invoice[req[r].period][v].present
                                 /\ invoice[req[r].period][v].by \in {r, NoOne}
      BY <1>2, <1>4 DEF PassedInv
    <3>1. CASE r # q
      BY <1>2, <3>1, IssuingFacts
    <3>2. CASE r = q
      <4>1. u + 1 \in 1..(N + 1)
        BY <1>1, UnitsFact
      <4>2. ASSUME NEW v \in Units, v < u + 1
            PROVE  v < u \/ v = u
        BY <1>1, <4>2, UnitsFact
      <4> QED
        BY <1>1, <1>2, <1>4, <3>2, <4>1, <4>2, IssuingFacts DEF Committed
    <3> QED
      BY <3>1, <3>2
  <2>5. IssuedFromOneView'
    BY <1>1, <1>4, IssuedGrows DEF BillingInv
  <2> QED
    BY <1>3, <2>1, <2>2, <2>3, <2>4, <2>5 DEF BillingInv
<1>5. CASE ~ invoice[p][u].present /\ Insert(q, Row(q, q))
  <2>1. \A v \in Units : invoice[p][v].present => invoice[p][v].by = q
    BY <1>1, <1>5, InsertFacts
  <2>2. \A x \in Periods : \A v \in Units :
           invoice'[x][v] = IF x = p /\ v = u THEN Row(q, q) ELSE invoice[x][v]
    BY <1>1, <1>5 DEF Insert, BillingInv, Shape
  <2>3. Row(q, q) = [total |-> req[q].totals[u], by |-> q, present |-> TRUE]
    BY DEF Row
  <2>4. Shape'
    <3>1. req[q].totals \in Views
      BY <1>1, IssuingFacts DEF Call
    <3>2. req[q].totals[u] \in Cents
      BY <1>1, <3>1 DEF Cents
    <3>3. Row(q, q) \in InvoiceRow
      BY <2>3, <3>2 DEF InvoiceRow
    <3>4. invoice' \in [Periods -> [Units -> InvoiceRow]]
      BY <1>1, <1>5, <3>3 DEF Insert, BillingInv, Shape
    <3> QED
      BY <1>1, <1>2, <3>4 DEF BillingInv, Shape
  <2>5. RowInv'
    <3> SUFFICES ASSUME NEW x \in Periods, NEW v \in Units,
                        invoice'[x][v].by # NoOne
                 PROVE  /\ invoice'[x][v].present
                        /\ req'[invoice'[x][v].by].step = "issuing"
                        /\ req'[invoice'[x][v].by].period = x
                        /\ v < req'[invoice'[x][v].by].unit
                        /\ invoice'[x][v].total
                             = req'[invoice'[x][v].by].totals[v]
      BY DEF RowInv
    <3>1. CASE x = p /\ v = u
      <4>1. invoice'[x][v] = Row(q, q)
        BY <2>2, <3>1
      <4>2. u < u + 1
        BY <1>1, UnitsFact
      <4> QED
        BY <1>1, <1>2, <2>3, <3>1, <4>1, <4>2
    <3>2. CASE ~ (x = p /\ v = u)
      <4> DEFINE r == invoice[x][v].by
      <4>1. invoice'[x][v] = invoice[x][v]
        BY <2>2, <3>2
      <4>2. r \in Requests
        BY <4>1 DEF BillingInv, Shape, InvoiceRow
      <4>3. /\ invoice[x][v].present
            /\ req[r].step = "issuing" /\ req[r].period = x
            /\ v < req[r].unit
            /\ invoice[x][v].total = req[r].totals[v]
        BY <4>1 DEF BillingInv, RowInv
      <4>4. v < req'[r].unit
        BY <1>1, <1>2, <4>2, <4>3, UnitsFact
      <4> QED
        BY <1>2, <4>1, <4>2, <4>3, <4>4
    <3> QED
      BY <3>1, <3>2
  <2>6. OneWriter'
    <3> SUFFICES ASSUME NEW x \in Periods, NEW v \in Units, NEW w \in Units,
                        invoice'[x][v].present, invoice'[x][w].present
                 PROVE  invoice'[x][v].by = invoice'[x][w].by
      BY DEF OneWriter
    <3>1. CASE x = p
      <4>1. \A y \in Units : invoice'[p][y].present => invoice'[p][y].by = q
        BY <1>1, <2>1, <2>2, <2>3
      <4> QED
        BY <3>1, <4>1
    <3>2. CASE x # p
      BY <2>2, <3>2 DEF BillingInv, OneWriter
    <3> QED
      BY <3>1, <3>2
  <2>7. PassedInv'
    <3> SUFFICES ASSUME NEW r \in Requests, req[r].step = "issuing"
                 PROVE  /\ req'[r].unit \in 1..(N + 1)
                        /\ \A v \in Units :
                              v < req'[r].unit =>
                                 /\ invoice'[req[r].period][v].present
                                 /\ invoice'[req[r].period][v].by \in {r, NoOne}
      BY <1>2 DEF PassedInv
    <3>1. req[r].period \in Periods
      BY IssuingFacts
    <3>2. CASE r # q
      <4>1. req'[r].unit = req[r].unit
        BY <1>2, <3>2
      <4>2. ASSUME NEW v \in Units, v < req[r].unit
            PROVE  /\ invoice'[req[r].period][v].present
                   /\ invoice'[req[r].period][v].by \in {r, NoOne}
        <5>1. /\ invoice[req[r].period][v].present
              /\ invoice[req[r].period][v].by \in {r, NoOne}
          BY <4>2, IssuingFacts
        <5>2. ~ (req[r].period = p /\ v = u)
          BY <1>5, <5>1
        <5> QED
          BY <2>2, <3>1, <5>1, <5>2
      <4> QED
        BY <4>1, <4>2, IssuingFacts
    <3>3. CASE r = q
      <4>1. u + 1 \in 1..(N + 1)
        BY <1>1, UnitsFact
      <4>2. ASSUME NEW v \in Units, v < u + 1
            PROVE  /\ invoice'[p][v].present
                   /\ invoice'[p][v].by \in {q, NoOne}
        <5>1. v < u \/ v = u
          BY <1>1, <4>2, UnitsFact
        <5>2. CASE v = u
          BY <1>1, <2>2, <2>3, <5>2
        <5>3. CASE v < u
          BY <1>1, <2>2, <2>3, <5>3, IssuingFacts
        <5> QED
          BY <5>1, <5>2, <5>3
      <4> QED
        BY <1>2, <3>3, <4>1, <4>2
    <3> QED
      BY <3>2, <3>3
  <2>8. IssuedFromOneView'
    <3>1. \A x \in Periods : \A v \in Units :
             /\ Committed(x, v)' <=> Committed(x, v)
             /\ Committed(x, v) => invoice'[x][v] = invoice[x][v]
      BY <1>1, <1>5, <2>2, <2>3, NoOneFact DEF Committed
    <3>2. \A x : Of(x)' = Of(x)
      BY <1>1 DEF Of
    <3> QED
      BY <3>1, <3>2 DEF BillingInv, IssuedFromOneView
  <2> QED
    BY <1>3, <2>4, <2>5, <2>6, <2>7, <2>8 DEF BillingInv
<1> QED
  BY <1>4, <1>5 DEF Upsert
\* A run that ends leaves every other call as it was.
LEMMA EndStep ==
    ASSUME BillingInv, NEW q \in Requests, Finish(q), expenses' = expenses
    PROVE  /\ req' \in [Requests -> Call]
           /\ req'[q].step = "done"
           /\ \A r \in Requests : r # q => req'[r] = req[r]
           /\ ViewInv'
<1> DEFINE c == [New EXCEPT !.step = "done"]
<1>1. c \in Call /\ c.step = "done"
  BY NewCall DEF New
<1>2. req' = [req EXCEPT ![q] = c] /\ req \in [Requests -> Call]
  BY DEF Finish, BillingInv, Shape
<1>3. \A r \in Requests : req'[r] = IF r = q THEN c ELSE req[r]
  BY <1>2
<1>4. req'[q].step = "done" /\ \A r \in Requests : r # q => req'[r] = req[r]
  BY <1>1, <1>3
<1>5. \A p : Of(p)' = Of(p)
  BY DEF Of
<1>6. ViewInv'
  BY <1>4, <1>5 DEF BillingInv, ViewInv
<1> QED
  BY <1>1, <1>2, <1>4, <1>6

\* A row that is committed keeps all but its writer.
LEMMA CommittedRow ==
    ASSUME NEW row \in InvoiceRow
    PROVE  LET new == [row EXCEPT !.by = NoOne] IN
           /\ new \in InvoiceRow
           /\ new.present = row.present /\ new.total = row.total
           /\ new.by = NoOne
  BY DEF InvoiceRow

\* A run that commits has passed every unit: either every row of its period is
\* its own, or none is.
LEMMA RunCommitsInv ==
    ASSUME BillingInv, NEW q \in Requests, RunCommits(q)
    PROVE  BillingInv'
<1> DEFINE p == req[q].period
<1>1. /\ req[q].step = "issuing" /\ p \in Periods /\ expenses' = expenses
      /\ \A v \in Units : v < req[q].unit
  <2>1. req[q].unit \in 1..(N + 1) /\ req[q].unit \notin Units
    BY IssuingFacts DEF RunCommits
  <2>2. req[q].unit = N + 1
    BY <2>1, UnitsFact
  <2> QED
    BY <2>2, UnitsFact, IssuingFacts DEF RunCommits
<1>2. /\ req' \in [Requests -> Call]
      /\ req'[q].step = "done"
      /\ \A r \in Requests : r # q => req'[r] = req[r]
      /\ ViewInv'
  BY EndStep DEF RunCommits
<1>3. \A x \in Periods : \A v \in Units : invoice[x][v] \in InvoiceRow
  BY DEF BillingInv, Shape
<1>4. \A x \in Periods : \A v \in Units :
         /\ invoice[x][v].by # q => invoice'[x][v] = invoice[x][v]
         /\ invoice[x][v].by = q =>
              invoice'[x][v] = [invoice[x][v] EXCEPT !.by = NoOne]
  BY DEF RunCommits
<1>5. \A x \in Periods : \A v \in Units :
         /\ invoice'[x][v].present = invoice[x][v].present
         /\ invoice'[x][v].total = invoice[x][v].total
         /\ invoice[x][v].by = q => invoice'[x][v].by = NoOne
  <2> SUFFICES ASSUME NEW x \in Periods, NEW v \in Units
               PROVE  /\ invoice'[x][v].present = invoice[x][v].present
                      /\ invoice'[x][v].total = invoice[x][v].total
                      /\ invoice[x][v].by = q => invoice'[x][v].by = NoOne
    OBVIOUS
  <2>1. CASE invoice[x][v].by # q
    BY <1>4, <2>1
  <2>2. CASE invoice[x][v].by = q
    <3>1. invoice[x][v] \in InvoiceRow
      BY <1>3
    <3>2. invoice'[x][v] = [invoice[x][v] EXCEPT !.by = NoOne]
      BY <1>4, <2>2
    <3> QED
      BY <3>1, <3>2, CommittedRow
  <2> QED
    BY <2>1, <2>2
<1>6. Shape'
  <2>1. \A x \in Periods : \A v \in Units : invoice'[x][v] \in InvoiceRow
    BY <1>3, <1>4, CommittedRow
  <2>2. invoice' \in [Periods -> [Units -> InvoiceRow]]
    BY <2>1 DEF RunCommits
  <2> QED
    BY <1>1, <1>2, <2>2 DEF BillingInv, Shape
<1>7. RowInv'
  <2> SUFFICES ASSUME NEW x \in Periods, NEW v \in Units,
                      invoice'[x][v].by # NoOne
               PROVE  /\ invoice'[x][v].present
                      /\ req'[invoice'[x][v].by].step = "issuing"
                      /\ req'[invoice'[x][v].by].period = x
                      /\ v < req'[invoice'[x][v].by].unit
                      /\ invoice'[x][v].total
                           = req'[invoice'[x][v].by].totals[v]
    BY DEF RowInv
  <2>1. invoice[x][v].by # q /\ invoice'[x][v] = invoice[x][v]
    BY <1>4, <1>5
  <2>2. invoice[x][v].by \in Requests
    BY <1>3, <2>1 DEF InvoiceRow
  <2> QED
    BY <1>2, <2>1, <2>2 DEF BillingInv, RowInv
<1>8. OneWriter'
  <2> SUFFICES ASSUME NEW x \in Periods, NEW v \in Units, NEW w \in Units,
                      invoice'[x][v].present, invoice'[x][w].present
               PROVE  invoice'[x][v].by = invoice'[x][w].by
    BY DEF OneWriter
  <2>1. invoice[x][v].by = invoice[x][w].by
    BY <1>5 DEF BillingInv, OneWriter
  <2>2. CASE invoice[x][v].by = q
    BY <1>5, <2>1, <2>2
  <2>3. CASE invoice[x][v].by # q
    BY <1>4, <2>1, <2>3
  <2> QED
    BY <2>2, <2>3
<1>9. PassedInv'
  <2> SUFFICES ASSUME NEW r \in Requests, req'[r].step = "issuing"
               PROVE  /\ req'[r].unit \in 1..(N + 1)
                      /\ \A v \in Units :
                            v < req'[r].unit =>
                               /\ invoice'[req'[r].period][v].present
                               /\ invoice'[req'[r].period][v].by \in {r, NoOne}
    BY DEF PassedInv
  <2>1. r # q /\ req'[r] = req[r]
    BY <1>2
  <2>2. req[r].period \in Periods
    BY <2>1, IssuingFacts
  <2>3. ASSUME NEW v \in Units, v < req[r].unit
        PROVE  /\ invoice'[req[r].period][v].present
               /\ invoice'[req[r].period][v].by \in {r, NoOne}
    <3>1. /\ invoice[req[r].period][v].present
          /\ invoice[req[r].period][v].by \in {r, NoOne}
      BY <2>1, <2>3, IssuingFacts
    <3>2. invoice[req[r].period][v].by # q
      BY <2>1, <3>1, NoOneFact
    <3> QED
      BY <1>4, <2>2, <3>1, <3>2
  <2> QED
    BY <2>1, <2>3, IssuingFacts
<1>10. IssuedFromOneView'
  <2> SUFFICES ASSUME NEW x \in Periods, NEW u \in Units, Committed(x, u)'
               PROVE  \E set \in SUBSET Of(x) :
                         \A v \in Units :
                            /\ Committed(x, v)'
                            /\ invoice'[x][v].total = Owed(set)[v]
    BY <1>1 DEF IssuedFromOneView, Of, Owed
  <2>1. CASE Committed(x, u)
    <3>1. PICK set \in SUBSET Of(x) :
             \A v \in Units :
                Committed(x, v) /\ invoice[x][v].total = Owed(set)[v]
      BY <2>1 DEF BillingInv, IssuedFromOneView
    <3>2. \A v \in Units : invoice'[x][v] = invoice[x][v]
      BY <1>4, <3>1, NoOneFact DEF Committed
    <3>3. \A v \in Units : Committed(x, v)'
      BY <3>1, <3>2 DEF Committed
    <3> QED
      BY <3>1, <3>2, <3>3
  <2>2. CASE ~ Committed(x, u)
    <3>1. invoice[x][u].present /\ invoice[x][u].by = q
      BY <1>4, <1>5, <2>2 DEF Committed
    <3>2. x = p
      BY <3>1, NoOneFact DEF BillingInv, RowInv
    <3>3. \A v \in Units : invoice[x][v].present
      BY <1>1, <3>2, IssuingFacts
    <3>4. \A v \in Units : invoice[x][v].by = q
      BY <3>1, <3>3 DEF BillingInv, OneWriter
    <3>5. \A v \in Units : invoice[x][v].total = req[q].totals[v]
      BY <3>4, NoOneFact DEF BillingInv, RowInv
    <3>6. PICK set \in SUBSET Of(x) : req[q].totals = Owed(set)
      BY <1>1, <3>2, IssuingFacts
    <3>7. \A v \in Units :
             Committed(x, v)' /\ invoice'[x][v].total = Owed(set)[v]
      BY <1>5, <3>3, <3>4, <3>5, <3>6 DEF Committed
    <3> QED
      BY <3>7
  <2> QED
    BY <2>1, <2>2
<1> QED
  BY <1>2, <1>6, <1>7, <1>8, <1>9, <1>10 DEF BillingInv

\* A run that fails takes its rows back; no committed row and no row of another
\* run is among them.
LEMMA RunFailsInv ==
    ASSUME BillingInv, NEW q \in Requests, RunFails(q)
    PROVE  BillingInv'
<1>1. req[q].step = "issuing" /\ expenses' = expenses
  BY DEF RunFails
<1>2. /\ req' \in [Requests -> Call]
      /\ req'[q].step = "done"
      /\ \A r \in Requests : r # q => req'[r] = req[r]
      /\ ViewInv'
  BY EndStep DEF RunFails
<1>3. \A x \in Periods : \A v \in Units :
         invoice'[x][v] = IF invoice[x][v].by = q THEN NoInvoice
                          ELSE invoice[x][v]
  BY DEF RunFails
<1>4. NoInvoice.by = NoOne /\ ~ NoInvoice.present
  BY DEF NoInvoice
<1>5. Shape'
  <2>1. \A x \in Periods : \A v \in Units : invoice'[x][v] \in InvoiceRow
    BY <1>3, EmptyRow DEF BillingInv, Shape
  <2>2. invoice' \in [Periods -> [Units -> InvoiceRow]]
    BY <2>1 DEF RunFails
  <2> QED
    BY <1>1, <1>2, <2>2 DEF BillingInv, Shape
<1>6. RowInv'
  <2> SUFFICES ASSUME NEW x \in Periods, NEW v \in Units,
                      invoice'[x][v].by # NoOne
               PROVE  /\ invoice'[x][v].present
                      /\ req'[invoice'[x][v].by].step = "issuing"
                      /\ req'[invoice'[x][v].by].period = x
                      /\ v < req'[invoice'[x][v].by].unit
                      /\ invoice'[x][v].total
                           = req'[invoice'[x][v].by].totals[v]
    BY DEF RowInv
  <2>1. invoice[x][v].by # q /\ invoice'[x][v] = invoice[x][v]
    BY <1>3, <1>4
  <2>2. invoice[x][v].by \in Requests
    BY <2>1 DEF BillingInv, Shape, InvoiceRow
  <2> QED
    BY <1>2, <2>1, <2>2 DEF BillingInv, RowInv
<1>7. OneWriter'
  BY <1>3, <1>4 DEF BillingInv, OneWriter
<1>8. PassedInv'
  <2> SUFFICES ASSUME NEW r \in Requests, req'[r].step = "issuing"
               PROVE  /\ req'[r].unit \in 1..(N + 1)
                      /\ \A v \in Units :
                            v < req'[r].unit =>
                               /\ invoice'[req'[r].period][v].present
                               /\ invoice'[req'[r].period][v].by \in {r, NoOne}
    BY DEF PassedInv
  <2>1. r # q /\ req'[r] = req[r]
    BY <1>2
  <2>2. req[r].period \in Periods
    BY <2>1, IssuingFacts
  <2>3. ASSUME NEW v \in Units, v < req[r].unit
        PROVE  /\ invoice'[req[r].period][v].present
               /\ invoice'[req[r].period][v].by \in {r, NoOne}
    <3>1. /\ invoice[req[r].period][v].present
          /\ invoice[req[r].period][v].by \in {r, NoOne}
      BY <2>1, <2>3, IssuingFacts
    <3> QED
      BY <1>3, <2>1, <2>2, <3>1, NoOneFact
  <2> QED
    BY <2>1, <2>3, IssuingFacts
<1>9. IssuedFromOneView'
  <2> SUFFICES ASSUME NEW x \in Periods, NEW u \in Units, Committed(x, u)'
               PROVE  \E set \in SUBSET Of(x) :
                         \A v \in Units :
                            /\ Committed(x, v)'
                            /\ invoice'[x][v].total = Owed(set)[v]
    BY <1>1 DEF IssuedFromOneView, Of, Owed
  <2>1. Committed(x, u)
    BY <1>3, <1>4 DEF Committed
  <2>2. PICK set \in SUBSET Of(x) :
           \A v \in Units :
              Committed(x, v) /\ invoice[x][v].total = Owed(set)[v]
    BY <2>1 DEF BillingInv, IssuedFromOneView
  <2>3. \A v \in Units : invoice'[x][v] = invoice[x][v]
    BY <1>3, <2>2, NoOneFact DEF Committed
  <2>4. \A v \in Units : Committed(x, v)'
    BY <2>2, <2>3 DEF Committed
  <2> QED
    BY <2>2, <2>3, <2>4
<1> QED
  BY <1>2, <1>5, <1>6, <1>7, <1>8, <1>9 DEF BillingInv
-----------------------------------------------------------------------------
LEMMA NextInv == BillingInv /\ [Next]_vars => BillingInv'
<1> SUFFICES ASSUME BillingInv, [Next]_vars PROVE BillingInv'
  OBVIOUS
<1>1. ASSUME NEW q \in Requests, GenerateCommits(q) PROVE BillingInv'
  BY <1>1, GenerateCommitsInv
<1>2. ASSUME NEW q \in Requests, GenerateFails(q) PROVE BillingInv'
  BY <1>2, GenerateFailsInv
<1>3. ASSUME NEW q \in Requests, RunReadsInvoices(q) PROVE BillingInv'
  BY <1>3, RunReadsInvoicesInv
<1>4. ASSUME NEW q \in Requests, Upsert(q) PROVE BillingInv'
  BY <1>4, UpsertInv
<1>5. ASSUME NEW q \in Requests, RunCommits(q) PROVE BillingInv'
  BY <1>5, RunCommitsInv
<1>6. ASSUME NEW q \in Requests, RunFails(q) PROVE BillingInv'
  BY <1>6, RunFailsInv
<1>7. ASSUME NEW q \in Requests, NEW p \in Periods,
             NEW total \in Amounts, NEW w \in Strategies,
             CreateExpense(q, p, total, w)
      PROVE  BillingInv'
  BY <1>7, CreateExpenseInv
<1>8. ASSUME NEW q \in Requests, NEW p \in Periods, GenerateReads(q, p)
      PROVE  BillingInv'
  BY <1>8, GenerateReadsInv
<1>9. ASSUME NEW q \in Requests, NEW p \in Periods, RunReadsExpenses(q, p)
      PROVE  BillingInv'
  BY <1>9, RunReadsExpensesInv
<1>10. ASSUME NEW t \in Templates, UpdateTemplate(t) \/ RemoveTemplate(t)
       PROVE  BillingInv'
  <2>1. UNCHANGED <<expenses, invoice, req>>
    BY <1>10 DEF UpdateTemplate, RemoveTemplate, EditTemplate
  <2> QED
    BY <2>1, EditInv
<1>11. CASE UNCHANGED vars
  BY <1>11, EditInv DEF vars
<1> QED
  BY <1>1, <1>2, <1>3, <1>4, <1>5, <1>6, <1>7, <1>8, <1>9, <1>10, <1>11
     DEF Next

\* However many runs, expenses and edits overlap or fail, an uncommitted invoice
\* row belongs to the one run that is issuing its period, with that run's total.
THEOREM Invariance == Spec => []BillingInv
<1> QED
  BY InitInv, NextInv, PTL DEF Spec

\* The invoices of a period are those of one run (InvoicesService.run): all units
\* or none, all from the same set of the period's expenses.
THEOREM IssuedWhole == Spec => []IssuedFromOneView
<1>1. BillingInv => IssuedFromOneView
  BY DEF BillingInv
<1> QED
  BY <1>1, Invariance, PTL

\* No step changes a committed row: "update: {}" of the upsert, and a failed run
\* rolls back only the rows it inserted itself.
LEMMA CommittedStays ==
    ASSUME BillingInv, [Next]_vars, NEW x \in Periods, NEW v \in Units,
           Committed(x, v)
    PROVE  invoice'[x][v] = invoice[x][v]
<1>1. ASSUME NEW q \in Requests, Upsert(q)
      PROVE  invoice'[x][v] = invoice[x][v]
  <2> DEFINE p == req[q].period
             u == req[q].unit
  <2>1. CASE UNCHANGED invoice
    BY <2>1
  <2>2. CASE ~ invoice[p][u].present /\ Insert(q, Row(q, q))
    <3>1. ~ (x = p /\ v = u)
      BY <2>2 DEF Committed
    <3>2. p \in Periods /\ u \in Units
      BY <1>1, IssuingFacts DEF Upsert
    <3> QED
      BY <2>2, <3>1, <3>2 DEF Insert, BillingInv, Shape
  <2> QED
    BY <1>1, <2>1, <2>2 DEF Upsert
<1>2. ASSUME NEW q \in Requests, RunCommits(q) \/ RunFails(q)
      PROVE  invoice'[x][v] = invoice[x][v]
  <2>1. invoice[x][v].by # q
    BY NoOneFact DEF Committed
  <2> QED
    BY <1>2, <2>1 DEF RunCommits, RunFails
<1>3. ASSUME ~ \E q \in Requests : Upsert(q) \/ RunCommits(q) \/ RunFails(q)
      PROVE  invoice' = invoice
  BY <1>3 DEF Next, vars, CreateExpense, GenerateReads, GenerateCommits,
     GenerateFails, RunReadsExpenses, RunReadsInvoices, UpdateTemplate,
     RemoveTemplate, EditTemplate
<1> QED
  BY <1>1, <1>2, <1>3

\* A concurrent rerun never overwrites an invoice that has been issued.
THEOREM IssuedStays == Spec => IssuedIsImmutable
<1>1. BillingInv /\ [Next]_vars =>
        [\A p \in Periods : \A u \in Units :
            Committed(p, u) => invoice'[p][u] = invoice[p][u]]_vars
  BY CommittedStays
<1> QED
  BY <1>1, Invariance, PTL DEF Spec, IssuedIsImmutable
-----------------------------------------------------------------------------
(* What the rows add up to.                                                 *)

LEMMA ExpenseRow ==
    ASSUME NEW e \in AllExpenses
    PROVE  /\ e.by \in Requests /\ e.of \in Templates \cup {NoOne}
           /\ e.period \in Periods /\ e.total \in Nat /\ e.weights \in Strategies
           /\ e.shares = Split(e.weights, e.total)
<1>1. PICK s \in Source :
         e = Expense(s[1][1], s[1][2], s[2][1][1], s[2][1][2], s[2][2])
  BY DEF AllExpenses
<1>2. /\ s[1][1] \in Requests /\ s[1][2] \in Templates \cup {NoOne}
      /\ s[2][1][1] \in Periods /\ s[2][1][2] \in Totals /\ s[2][2] \in Strategies
  BY DEF Source
<1>3. Totals \subseteq Nat
  BY ChargesAssumption DEF Totals
<1> QED
  BY <1>1, <1>2, <1>3 DEF Expense

LEMMA WeightsFact ==
    ASSUME NEW w \in Strategies
    PROVE  Weighted(w) /\ DOMAIN w = Units
<1>1. w \in [Units -> Nat] /\ SumFunction(w) > 0
  BY StrategiesAssumption
<1>2. DOMAIN w = Units
  BY <1>1
<1>3. IsFiniteSet(Units) /\ Units \in SUBSET Nat
  BY UnitsFact, FS_Interval
<1> QED
  BY <1>1, <1>2, <1>3 DEF Weighted

\* Every expense is shared out to the cent, and no unit is a cent or more away
\* from its exact quota (splitByLargestRemainder, ExpensesService.create).
THEOREM SharedExactly == Spec => []SharesAreExact
<1>1. ASSUME BillingInv PROVE SharesAreExact
  <2> SUFFICES ASSUME NEW e \in expenses
               PROVE  LET whole == SumFunction(e.weights) IN
                      /\ SumFunction(e.shares) = e.total
                      /\ \A u \in Units :
                            /\ e.shares[u] * whole < e.weights[u] * e.total + whole
                            /\ e.weights[u] * e.total < e.shares[u] * whole + whole
    BY DEF SharesAreExact
  <2>1. /\ e.total \in Nat /\ e.weights \in Strategies
        /\ e.shares = Split(e.weights, e.total)
    BY <1>1, ExpenseRow DEF BillingInv, Shape
  <2>2. Weighted(e.weights) /\ DOMAIN e.weights = Units
    BY <2>1, WeightsFact
  <2> QED
    BY <2>1, <2>2, SplitIsExact
<1> QED
  BY <1>1, Invariance, PTL
-----------------------------------------------------------------------------
(* Types: sums are numbers as long as there are finitely many expenses.     *)

SharesFact(e) == e.shares \in [Units -> Nat]

LEMMA SharesTyped == \A e \in AllExpenses : SharesFact(e)
<1> SUFFICES ASSUME NEW e \in AllExpenses PROVE SharesFact(e)
  OBVIOUS
<1>1. /\ e.total \in Nat /\ e.weights \in Strategies
      /\ e.shares = Split(e.weights, e.total)
  BY ExpenseRow
<1>2. Weighted(e.weights) /\ DOMAIN e.weights = Units
  BY <1>1, WeightsFact
<1> QED
  BY <1>1, <1>2, SplitIsExact DEF SharesFact

LEMMA OwedTyped ==
    ASSUME NEW set \in SUBSET AllExpenses, IsFiniteSet(set)
    PROVE  Owed(set) \in [Units -> Nat]
<1>1. ASSUME NEW u \in Units
      PROVE  SumFunction([e \in set |-> e.shares[u]]) \in Nat
  <2> DEFINE f == [e \in set |-> e.shares[u]]
  <2>1. \A e \in set : f[e] \in Nat
    BY SharesTyped DEF SharesFact
  <2>2. DOMAIN f = set
    OBVIOUS
  <2> HIDE DEF f
  <2>3. SumFunctionOnSet(f, set) \in Nat
    BY <2>1, SumNat
  <2>4. SumFunction(f) \in Nat
    BY <2>2, <2>3 DEF SumFunction
  <2> QED
    BY <2>4 DEF f
<1> QED
  BY <1>1 DEF Owed

TypeInv ==
    /\ IsFiniteSet(expenses)
    /\ template \in [Templates ->
          [present : BOOLEAN, active : BOOLEAN, last : Periods \cup {0}]]
    /\ edits \in 0..MaxEdits
    /\ \A p \in Periods : \A u \in Units : invoice[p][u].total \in Nat
    /\ \A q \in Requests : req[q].totals \in [Units -> Nat]

\* The expenses a step adds: none, one, or one for each template that is due.
LEMMA AddedExpenses ==
    ASSUME BillingInv, [Next]_vars
    PROVE  IsFiniteSet(expenses' \ expenses)
<1>1. ASSUME NEW q \in Requests, GenerateCommits(q)
      PROVE  IsFiniteSet(expenses' \ expenses)
  <2> DEFINE due == req[q].due
             made == [t \in due |->
                        Expense(q, t, req[q].period, TemplateCharge[t].total,
                                TemplateCharge[t].weights)]
             image == {made[t] : t \in due}
  <2>1. IsFiniteSet(due)
    <3>1. due \in SUBSET Templates
      BY DEF BillingInv, Shape, Call
    <3> HIDE DEF due
    <3> QED
      BY <3>1, ChargesAssumption, FS_Subset
  <2>2. made \in Surjection(due, image)
    BY DEF Surjection
  <2>3. expenses' = expenses \cup image
    BY <1>1 DEF GenerateCommits
  <2> HIDE DEF made, image, due
  <2>4. IsFiniteSet(image)
    BY <2>1, <2>2, FS_Surjection
  <2>5. expenses' \ expenses \in SUBSET image
    BY <2>3
  <2> QED
    BY <2>4, <2>5, FS_Subset
<1>2. ASSUME NEW q \in Requests, NEW p \in Periods,
             NEW total \in Amounts, NEW w \in Strategies,
             CreateExpense(q, p, total, w)
      PROVE  IsFiniteSet(expenses' \ expenses)
  <2> DEFINE one == {Expense(q, NoOne, p, total, w)}
  <2>1. IsFiniteSet(one)
    BY FS_Singleton
  <2>2. expenses' \ expenses \in SUBSET one
    BY <1>2 DEF CreateExpense
  <2> HIDE DEF one
  <2> QED
    BY <2>1, <2>2, FS_Subset
<1>3. CASE UNCHANGED expenses
  <2>1. expenses' \ expenses = {}
    BY <1>3
  <2> QED
    BY <2>1, FS_EmptySet
<1> QED
  BY <1>1, <1>2, <1>3 DEF Next, vars, GenerateReads, GenerateFails,
     RunReadsExpenses, RunReadsInvoices, Upsert, RunCommits, RunFails,
     UpdateTemplate, RemoveTemplate, EditTemplate

LEMMA FiniteStep ==
    ASSUME BillingInv, [Next]_vars, IsFiniteSet(expenses)
    PROVE  IsFiniteSet(expenses')
<1>1. IsFiniteSet(expenses \cup (expenses' \ expenses))
  BY AddedExpenses, FS_Union
<1>2. expenses' \in SUBSET (expenses \cup (expenses' \ expenses))
  OBVIOUS
<1> QED
  BY <1>1, <1>2, FS_Subset

LEMMA TemplateStep ==
    ASSUME BillingInv, TypeInv, [Next]_vars
    PROVE  /\ template' \in [Templates ->
                 [present : BOOLEAN, active : BOOLEAN, last : Periods \cup {0}]]
           /\ edits' \in 0..MaxEdits
<1> DEFINE Row1 == [present : BOOLEAN, active : BOOLEAN, last : Periods \cup {0}]
<1>1. template \in [Templates -> Row1] /\ edits \in 0..MaxEdits /\ MaxEdits \in Nat
  BY NoOneAssumption DEF TypeInv
<1>2. ASSUME NEW q \in Requests, GenerateCommits(q)
      PROVE  template' \in [Templates -> Row1] /\ edits' = edits
  <2>1. req[q].period \in Periods
    BY <1>2 DEF GenerateCommits, BillingInv, ViewInv
  <2>2. ASSUME NEW row \in Row1, NEW p \in Periods
        PROVE  [row EXCEPT !.last = p] \in Row1
    OBVIOUS
  <2> HIDE DEF Row1
  <2>3. \A t \in Templates : template'[t] \in Row1
    BY <1>1, <1>2, <2>1, <2>2 DEF GenerateCommits
  <2> QED
    BY <1>2, <2>3 DEF GenerateCommits
<1>3. ASSUME NEW t \in Templates, UpdateTemplate(t) \/ RemoveTemplate(t)
      PROVE  template' \in [Templates -> Row1] /\ edits' \in 0..MaxEdits
  <2>1. template[t] \in Row1
    BY <1>1
  <2>2. /\ [template[t] EXCEPT !.active = ~ @] \in Row1
        /\ [template[t] EXCEPT !.present = FALSE] \in Row1
    BY <2>1
  <2>3. PICK row \in Row1 : EditTemplate(t, row)
    BY <1>3, <2>2 DEF UpdateTemplate, RemoveTemplate
  <2>4. template' = [template EXCEPT ![t] = row] /\ edits < MaxEdits
          /\ edits' = edits + 1
    BY <2>3 DEF EditTemplate
  <2> HIDE DEF Row1
  <2> QED
    BY <1>1, <2>4
<1>4. CASE UNCHANGED <<template, edits>>
  BY <1>1, <1>4
<1> QED
  BY <1>1, <1>2, <1>3, <1>4 DEF Next, vars, CreateExpense, GenerateReads,
     GenerateFails, RunReadsExpenses, RunReadsInvoices, Upsert, RunCommits,
     RunFails

LEMMA TotalsStep ==
    ASSUME BillingInv, TypeInv, [Next]_vars
    PROVE  \A q \in Requests : req'[q].totals \in [Units -> Nat]
<1>1. /\ req \in [Requests -> Call]
      /\ \A q \in Requests : req[q].totals \in [Units -> Nat]
  BY DEF BillingInv, Shape, TypeInv
<1>2. New.totals \in [Units -> Nat]
  BY DEF New, NoTotals
<1>3. ASSUME NEW q \in Requests, NEW c, c.totals \in [Units -> Nat],
             req' = [req EXCEPT ![q] = c]
      PROVE  \A r \in Requests : req'[r].totals \in [Units -> Nat]
  BY <1>1, <1>3
<1>4. ASSUME NEW q \in Requests, Finish(q)
      PROVE  \A r \in Requests : req'[r].totals \in [Units -> Nat]
  <2> DEFINE c == [New EXCEPT !.step = "done"]
  <2>1. c.totals \in [Units -> Nat]
    BY <1>2 DEF New
  <2>2. req' = [req EXCEPT ![q] = c]
    BY <1>4 DEF Finish
  <2> HIDE DEF c
  <2> QED
    BY <1>3, <2>1, <2>2
<1>5. ASSUME NEW q \in Requests, NEW p \in Periods, GenerateReads(q, p)
      PROVE  \A r \in Requests : req'[r].totals \in [Units -> Nat]
  <2> DEFINE c == [New EXCEPT !.step = "generating", !.period = p, !.due = Due(p)]
  <2>1. c.totals \in [Units -> Nat]
    BY <1>2 DEF New
  <2>2. req' = [req EXCEPT ![q] = c]
    BY <1>5 DEF GenerateReads
  <2> HIDE DEF c
  <2> QED
    BY <1>3, <2>1, <2>2
<1>6. ASSUME NEW q \in Requests, NEW p \in Periods, RunReadsExpenses(q, p)
      PROVE  \A r \in Requests : req'[r].totals \in [Units -> Nat]
  <2> DEFINE c == [New EXCEPT !.step = "preflight", !.period = p,
                              !.totals = Owed(Of(p))]
  <2>1. IsFiniteSet(Of(p)) /\ Of(p) \in SUBSET AllExpenses
    <3>1. Of(p) \in SUBSET expenses
      BY DEF Of
    <3> QED
      BY <3>1, FS_Subset DEF BillingInv, Shape, TypeInv
  <2>2. c.totals = Owed(Of(p))
    BY DEF New
  <2>3. c.totals \in [Units -> Nat]
    BY <2>1, <2>2, OwedTyped
  <2>4. req' = [req EXCEPT ![q] = c]
    BY <1>6 DEF RunReadsExpenses
  <2> HIDE DEF c
  <2> QED
    BY <1>3, <2>3, <2>4
<1>7. ASSUME NEW q \in Requests, RunReadsInvoices(q)
      PROVE  \A r \in Requests : req'[r].totals \in [Units -> Nat]
  <2>1. CASE Finish(q)
    BY <1>4, <2>1
  <2>2. CASE req' = [req EXCEPT ![q].step = "issuing", ![q].unit = 1]
    BY <1>1, <2>2 DEF Call
  <2> QED
    BY <1>7, <2>1, <2>2 DEF RunReadsInvoices
<1>8. ASSUME NEW q \in Requests, Upsert(q)
      PROVE  \A r \in Requests : req'[r].totals \in [Units -> Nat]
  BY <1>1, <1>8, PassStep
<1>9. CASE UNCHANGED req
  BY <1>1, <1>9
<1> QED
  BY <1>4, <1>5, <1>6, <1>7, <1>8, <1>9 DEF Next, vars, CreateExpense,
     GenerateCommits, GenerateFails, RunCommits, RunFails, UpdateTemplate,
     RemoveTemplate, EditTemplate

LEMMA RowTotalsStep ==
    ASSUME BillingInv, TypeInv, [Next]_vars
    PROVE  \A p \in Periods : \A u \in Units : invoice'[p][u].total \in Nat
<1>1. \A p \in Periods : \A u \in Units :
         invoice[p][u] \in InvoiceRow /\ invoice[p][u].total \in Nat
  BY DEF BillingInv, Shape, TypeInv
<1>2. ASSUME NEW q \in Requests, Upsert(q)
      PROVE  \A p \in Periods : \A u \in Units : invoice'[p][u].total \in Nat
  <2>1. CASE UNCHANGED invoice
    BY <1>1, <2>1
  <2>2. CASE Insert(q, Row(q, q))
    <3> DEFINE row == Row(q, q)
               p == req[q].period
               u == req[q].unit
    <3>1. row.total \in Nat
      <4>1. row.total = req[q].totals[u] /\ u \in Units
        BY <1>2 DEF Row, Upsert
      <4> QED
        BY <4>1 DEF TypeInv
    <3>2. invoice' = [invoice EXCEPT ![p][u] = row]
            /\ invoice \in [Periods -> [Units -> InvoiceRow]]
      BY <2>2 DEF Insert, BillingInv, Shape
    <3> HIDE DEF row, p, u
    <3>3. \A x \in Periods : \A v \in Units :
             invoice'[x][v] = IF x = p /\ v = u THEN row ELSE invoice[x][v]
      BY <3>2
    <3> QED
      BY <1>1, <3>1, <3>3
  <2> QED
    BY <1>2, <2>1, <2>2 DEF Upsert
<1>3. ASSUME NEW q \in Requests, RunCommits(q)
      PROVE  \A p \in Periods : \A u \in Units : invoice'[p][u].total \in Nat
  <2> SUFFICES ASSUME NEW p \in Periods, NEW u \in Units
               PROVE  invoice'[p][u].total \in Nat
    OBVIOUS
  <2>1. invoice'[p][u] = invoice[p][u]
          \/ invoice'[p][u] = [invoice[p][u] EXCEPT !.by = NoOne]
    BY <1>3 DEF RunCommits
  <2> QED
    BY <1>1, <2>1, CommittedRow
<1>4. ASSUME NEW q \in Requests, RunFails(q)
      PROVE  \A p \in Periods : \A u \in Units : invoice'[p][u].total \in Nat
  BY <1>1, <1>4 DEF RunFails, NoInvoice
<1>5. CASE UNCHANGED invoice
  BY <1>1, <1>5
<1> QED
  BY <1>2, <1>3, <1>4, <1>5 DEF Next, vars, CreateExpense, GenerateReads,
     GenerateCommits, GenerateFails, RunReadsExpenses, RunReadsInvoices,
     UpdateTemplate, RemoveTemplate, EditTemplate

LEMMA TypeInit == Init => TypeInv
  BY FS_EmptySet, NoOneAssumption DEF Init, TypeInv, NoInvoice, New, NoTotals

\* Rows and calls have the shape the schema and the code give them; amounts are
\* numbers because every period has finitely many expenses (aggregateRun).
THEOREM TypeCorrect == Spec => []TypeOK
<1>1. BillingInv /\ TypeInv /\ [Next]_vars => TypeInv'
  BY FiniteStep, TemplateStep, TotalsStep, RowTotalsStep DEF TypeInv
<1>2. BillingInv /\ TypeInv => TypeOK
  <2> SUFFICES ASSUME BillingInv, TypeInv PROVE TypeOK
    OBVIOUS
  <2>1. \A e \in expenses : /\ e.by \in Requests /\ e.period \in Periods
                             /\ e.of \in Templates \cup {NoOne}
                             /\ e.shares \in [Units -> Nat]
    BY ExpenseRow, SharesTyped DEF BillingInv, Shape, SharesFact
  <2>2. invoice \in [Periods -> [Units ->
          [total : Nat, by : Requests \cup {NoOne}, present : BOOLEAN]]]
    <3> DEFINE Typed == [total : Nat, by : Requests \cup {NoOne}, present : BOOLEAN]
    <3>1. ASSUME NEW p \in Periods, NEW u \in Units
          PROVE  invoice[p][u] \in Typed
      BY DEF BillingInv, Shape, InvoiceRow, TypeInv
    <3>2. invoice \in [Periods -> [Units -> InvoiceRow]]
      BY DEF BillingInv, Shape
    <3> HIDE DEF Typed
    <3>3. invoice \in [Periods -> [Units -> Typed]]
      BY <3>1, <3>2
    <3> QED
      BY <3>3 DEF Typed
  <2>3. \A p \in Periods : \A u \in Units :
          LET q == invoice[p][u].by IN
          q # NoOne => req[q].step = "issuing" /\ req[q].period = p
    BY DEF BillingInv, RowInv
  <2>4. \A q \in Requests :
          /\ req[q].step \in {"new", "generating", "preflight", "issuing", "done"}
          /\ req[q].totals \in [Units -> Nat] /\ req[q].unit \in 0..(N + 1)
    BY DEF BillingInv, Shape, Call, TypeInv
  <2> QED
    BY <2>1, <2>2, <2>3, <2>4 DEF TypeOK, TypeInv
<1> QED
  BY <1>1, <1>2, TypeInit, Invariance, PTL DEF Spec
-----------------------------------------------------------------------------
(* Late and double billing, with the history variables of MCBilling.        *)

hvars == <<vars, late, overlapped>>

LEMMA HistoryStep == [MCNext]_hvars => [Next]_vars
  BY DEF MCNext, hvars

\* The history variables of MCBilling watch the runs and do not disturb them.
THEOREM MCInvariance == MCSpec => []BillingInv
<1>1. MCInit => BillingInv
  BY InitInv DEF MCInit
<1>2. BillingInv /\ [MCNext]_hvars => BillingInv'
  BY HistoryStep, NextInv
<1> QED
  BY <1>1, <1>2, PTL DEF MCSpec, hvars

\* A run that has read works on all the expenses its period has, and rows that
\* are there bill them all, until a late one comes.
OnTime ==
    \A p \in Periods \ late :
        /\ \A q \in Requests :
              req[q].step \in {"preflight", "issuing"} /\ req[q].period = p =>
                 req[q].totals = Owed(Of(p))
        /\ \A u \in Units :
              invoice[p][u].present => invoice[p][u].total = Owed(Of(p))[u]

\* A period that is not late after a step had no new expense in it, or nobody
\* had read it.
LEMMA ViewKept ==
    ASSUME MCNext, NEW p \in Periods \ late'
    PROVE  /\ p \in Periods \ late
           /\ Of(p)' = Of(p) \/ ~ Read(p)
<1>1. late' = late \cup
        {x \in Periods : Read(x) /\ \E e \in expenses' \ expenses : e.period = x}
  BY DEF MCNext
<1>2. expenses \subseteq expenses'
  BY DEF MCNext, Next, CreateExpense, GenerateReads, GenerateCommits,
     GenerateFails, RunReadsExpenses, RunReadsInvoices, Upsert, RunCommits,
     RunFails, UpdateTemplate, RemoveTemplate, EditTemplate
<1> QED
  BY <1>1, <1>2 DEF Of

\* A step that adds an expense writes no invoice and starts no run.
LEMMA NewExpenseStep ==
    ASSUME BillingInv, Next, expenses' # expenses
    PROVE  /\ invoice' = invoice
           /\ \A r \in Requests :
                 req'[r] = req[r] \/ req'[r].step = "done"
<1>1. PICK q \in Requests : Finish(q) /\ invoice' = invoice
  BY DEF Next, CreateExpense, GenerateReads, GenerateCommits,
     GenerateFails, RunReadsExpenses, RunReadsInvoices, Upsert, RunCommits,
     RunFails, UpdateTemplate, RemoveTemplate, EditTemplate
<1>2. req \in [Requests -> Call]
  BY DEF BillingInv, Shape
<1> QED
  BY <1>1, <1>2 DEF Finish, New

\* Nobody has read a period: no run works on it and no row of it is there.
LEMMA UnreadFact ==
    ASSUME BillingInv, NEW p \in Periods, ~ Read(p)
    PROVE  /\ \A q \in Requests :
                 ~ (req[q].step \in {"preflight", "issuing"} /\ req[q].period = p)
           /\ \A u \in Units : ~ invoice[p][u].present
<1>1. \A q \in Requests :
         ~ (req[q].step \in {"preflight", "issuing"} /\ req[q].period = p)
  BY DEF Read
<1>2. ASSUME NEW u \in Units, invoice[p][u].present PROVE FALSE
  <2>1. invoice[p][u].by # NoOne
    BY <1>2 DEF Read, Committed
  <2>2. invoice[p][u].by \in Requests
    BY <2>1 DEF BillingInv, Shape, InvoiceRow
  <2>3. req[invoice[p][u].by].step = "issuing" /\ req[invoice[p][u].by].period = p
    BY <2>1 DEF BillingInv, RowInv
  <2> QED
    BY <1>1, <2>2, <2>3
<1> QED
  BY <1>1, <1>2

\* What a step does to the calls that have read, and to the rows.
LEMMA ReadersStep ==
    ASSUME BillingInv, Next, expenses' = expenses, NEW r \in Requests,
           req'[r].step \in {"preflight", "issuing"}
    PROVE  \/ /\ req'[r].totals = Owed(Of(req'[r].period))
              /\ req'[r].period \in Periods
           \/ /\ req[r].step \in {"preflight", "issuing"}
              /\ req'[r].period = req[r].period /\ req'[r].totals = req[r].totals
<1>1. req \in [Requests -> Call]
  BY DEF BillingInv, Shape
<1>2. ASSUME NEW q \in Requests, Finish(q)
      PROVE  req'[r] = req[r]
  <2>1. req'[r] = IF r = q THEN [New EXCEPT !.step = "done"] ELSE req[r]
    BY <1>1, <1>2 DEF Finish
  <2>2. [New EXCEPT !.step = "done"].step = "done"
    BY DEF New
  <2> QED
    BY <2>1, <2>2
<1>3. ASSUME NEW q \in Requests, NEW p \in Periods, GenerateReads(q, p)
      PROVE  req'[r] = req[r]
  <2> DEFINE c == [New EXCEPT !.step = "generating", !.period = p, !.due = Due(p)]
  <2>1. c.step = "generating"
    BY DEF New
  <2>2. req' = [req EXCEPT ![q] = c]
    BY <1>3 DEF GenerateReads
  <2> HIDE DEF c
  <2> QED
    BY <1>1, <2>1, <2>2
<1>4. ASSUME NEW q \in Requests, NEW p \in Periods, RunReadsExpenses(q, p)
      PROVE  \/ req'[r] = req[r]
             \/ req'[r].totals = Owed(Of(p)) /\ req'[r].period = p
  <2> DEFINE c == [New EXCEPT !.step = "preflight", !.period = p,
                              !.totals = Owed(Of(p))]
  <2>1. c.totals = Owed(Of(p)) /\ c.period = p
    BY DEF New
  <2>2. req' = [req EXCEPT ![q] = c]
    BY <1>4 DEF RunReadsExpenses
  <2> HIDE DEF c
  <2> QED
    BY <1>1, <2>1, <2>2
<1>5. ASSUME NEW q \in Requests, RunReadsInvoices(q)
      PROVE  /\ req[r].step \in {"preflight", "issuing"}
             /\ req'[r].period = req[r].period /\ req'[r].totals = req[r].totals
  <2>1. CASE Finish(q)
    BY <1>2, <2>1
  <2>2. CASE req' = [req EXCEPT ![q].step = "issuing", ![q].unit = 1]
    BY <1>1, <1>5, <2>2 DEF Call, RunReadsInvoices
  <2> QED
    BY <1>5, <2>1, <2>2 DEF RunReadsInvoices
<1>6. ASSUME NEW q \in Requests, Upsert(q)
      PROVE  /\ req[r].step \in {"preflight", "issuing"}
             /\ req'[r].period = req[r].period /\ req'[r].totals = req[r].totals
  BY <1>6, PassStep
<1>7. CASE UNCHANGED req
  BY <1>7
<1> QED
  BY <1>2, <1>3, <1>4, <1>5, <1>6, <1>7 DEF Next, CreateExpense,
     GenerateCommits, GenerateFails, RunCommits, RunFails, UpdateTemplate,
     RemoveTemplate, EditTemplate

LEMMA RowsStep ==
    ASSUME BillingInv, Next, NEW p \in Periods, NEW u \in Units,
           invoice'[p][u].present
    PROVE  \/ invoice[p][u].present /\ invoice'[p][u].total = invoice[p][u].total
           \/ \E q \in Requests : /\ req[q].step = "issuing" /\ req[q].period = p
                                   /\ invoice'[p][u].total = req[q].totals[u]
<1>1. invoice \in [Periods -> [Units -> InvoiceRow]]
  BY DEF BillingInv, Shape
<1>2. ASSUME NEW q \in Requests, Upsert(q), invoice' # invoice
      PROVE  \/ invoice'[p][u] = invoice[p][u]
             \/ /\ req[q].step = "issuing" /\ req[q].period = p
                /\ invoice'[p][u].total = req[q].totals[u]
  <2> DEFINE row == Row(q, q)
  <2>1. row.total = req[q].totals[req[q].unit]
    BY DEF Row
  <2>2. invoice' = [invoice EXCEPT ![req[q].period][req[q].unit] = row]
          /\ req[q].step = "issuing"
    BY <1>2 DEF Upsert, Insert
  <2> HIDE DEF row
  <2>3. invoice'[p][u] = IF p = req[q].period /\ u = req[q].unit THEN row
                         ELSE invoice[p][u]
    BY <1>1, <2>2
  <2> QED
    BY <2>1, <2>2, <2>3
<1>3. ASSUME NEW q \in Requests, RunCommits(q)
      PROVE  /\ invoice'[p][u].present = invoice[p][u].present
             /\ invoice'[p][u].total = invoice[p][u].total
  <2>1. invoice'[p][u] = invoice[p][u]
          \/ invoice'[p][u] = [invoice[p][u] EXCEPT !.by = NoOne]
    BY <1>3 DEF RunCommits
  <2>2. invoice[p][u] \in InvoiceRow
    BY <1>1
  <2> QED
    BY <2>1, <2>2, CommittedRow
<1>4. ASSUME NEW q \in Requests, RunFails(q)
      PROVE  invoice'[p][u] = invoice[p][u]
  BY <1>4 DEF RunFails, NoInvoice
<1>5. CASE invoice' = invoice
  BY <1>5
<1> QED
  BY <1>2, <1>3, <1>4, <1>5 DEF Next, CreateExpense, GenerateReads,
     GenerateCommits, GenerateFails, RunReadsExpenses, RunReadsInvoices,
     UpdateTemplate, RemoveTemplate, EditTemplate

LEMMA OnTimeStep == BillingInv /\ OnTime /\ [MCNext]_hvars => OnTime'
<1> SUFFICES ASSUME BillingInv, OnTime, [MCNext]_hvars PROVE OnTime'
  OBVIOUS
<1>1. CASE UNCHANGED hvars
  BY <1>1 DEF hvars, vars, OnTime, Of, Owed
<1>2. CASE MCNext
  <2> SUFFICES ASSUME NEW p \in Periods \ late'
               PROVE  /\ \A q \in Requests :
                            req'[q].step \in {"preflight", "issuing"}
                              /\ req'[q].period = p =>
                                 req'[q].totals = Owed(Of(p)')
                      /\ \A u \in Units :
                            invoice'[p][u].present =>
                               invoice'[p][u].total = Owed(Of(p)')[u]
    BY DEF OnTime, Owed
  <2>1. p \in Periods \ late /\ Next
    BY <1>2, ViewKept DEF MCNext
  <2>2. CASE Of(p)' # Of(p)
    <3>1. ~ Read(p) /\ expenses' # expenses
      BY <1>2, <2>2, ViewKept DEF Of
    <3> QED
      BY <2>1, <3>1, NewExpenseStep, UnreadFact
  <2>3. CASE Of(p)' = Of(p) /\ expenses' # expenses
    <3>1. /\ invoice' = invoice
          /\ \A r \in Requests : req'[r] = req[r] \/ req'[r].step = "done"
      BY <2>1, <2>3, NewExpenseStep
    <3> QED
      BY <2>1, <2>3, <3>1 DEF OnTime
  <2>4. CASE expenses' = expenses
    <3>1. Of(p)' = Of(p)
      BY <2>4 DEF Of
    <3>2. ASSUME NEW q \in Requests, req'[q].step \in {"preflight", "issuing"},
                 req'[q].period = p
          PROVE  req'[q].totals = Owed(Of(p))
      BY <2>1, <2>4, <3>2, ReadersStep DEF OnTime
    <3>3. ASSUME NEW u \in Units, invoice'[p][u].present
          PROVE  invoice'[p][u].total = Owed(Of(p))[u]
      BY <2>1, <3>3, RowsStep DEF OnTime
    <3> QED
      BY <3>1, <3>2, <3>3
  <2> QED
    BY <2>2, <2>3, <2>4
<1> QED
  BY <1>1, <1>2

LEMMA MCTypes == MCSpec => []TypeInv
<1>1. MCInit => TypeInv
  BY TypeInit DEF MCInit
<1>2. BillingInv /\ TypeInv /\ [MCNext]_hvars => TypeInv'
  BY HistoryStep, FiniteStep, TemplateStep, TotalsStep, RowTotalsStep DEF TypeInv
<1> QED
  BY <1>1, <1>2, MCInvariance, PTL DEF MCSpec, hvars

\* What the units owe of a set of expenses is what the expenses come to.
LEMMA OwedInAll ==
    ASSUME NEW set \in SUBSET AllExpenses, IsFiniteSet(set)
    PROVE  SumFunctionOnSet(Owed(set), Units) =
           SumFunctionOnSet([e \in set |-> e.total], set)
<1> DEFINE f == [e \in set |-> e.shares]
           g == [e \in set |-> e.total]
           c == [u \in Units |-> [e \in set |-> e.shares[u]]]
<1>1. ASSUME NEW e \in set
      PROVE  /\ \A u \in Units : e.shares[u] \in Int
             /\ e.total = SumFunctionOnSet(e.shares, Units)
  <2>1. /\ e.total \in Nat /\ e.weights \in Strategies
        /\ e.shares = Split(e.weights, e.total)
    BY ExpenseRow
  <2>2. Weighted(e.weights) /\ DOMAIN e.weights = Units
    BY <2>1, WeightsFact
  <2>3. e.shares \in [Units -> Nat] /\ SumFunction(e.shares) = e.total
    BY <2>1, <2>2, SplitIsExact
  <2>4. DOMAIN e.shares = Units /\ \A u \in Units : e.shares[u] \in Int
    BY <2>3
  <2> QED
    BY <2>3, <2>4 DEF SumFunction
<1>2. \A e \in set : /\ \A u \in Units : f[e][u] \in Int
                     /\ g[e] = SumFunctionOnSet(f[e], Units)
  BY <1>1
<1>3. ASSUME NEW u \in Units
      PROVE  /\ \A e \in set : c[u][e] = f[e][u]
             /\ Owed(set)[u] = SumFunctionOnSet(c[u], set)
  <2>1. Owed(set)[u] = SumFunction(c[u])
    BY DEF Owed
  <2>2. DOMAIN c[u] = set /\ \A e \in set : c[u][e] = f[e][u]
    OBVIOUS
  <2> HIDE DEF c, f
  <2> QED
    BY <2>1, <2>2 DEF SumFunction
<1>4. IsFiniteSet(Units)
  BY UnitsFact, FS_Interval
<1>5. PICK h : h = Owed(set)
  OBVIOUS
<1>6. PICK k, l, m : k = f /\ l = g /\ m = c
  OBVIOUS
<1> HIDE DEF f, g, c
<1>7. IsFiniteSet(Units) /\ Crossed(k, l, m, h, set, Units)
  BY <1>2, <1>3, <1>4, <1>5, <1>6 DEF Crossed
<1>8. SumFunctionOnSet(h, Units) = SumFunctionOnSet(l, set)
  BY <1>7, SumSwap
<1> QED
  BY <1>5, <1>6, <1>8 DEF g

\* The invoices of a period bill all its expenses, unit by unit and to the last
\* cent of them, unless one was added after a run had read them
\* (ExpensesService.create does not ask whether the period is issued,
\* InvoicesService.run).
THEOREM BilledInFull == MCSpec => []BilledInFullUnlessLate
<1>1. MCInit => OnTime
  BY DEF MCInit, Init, OnTime, New, NoInvoice
<1>2. ASSUME BillingInv, TypeInv, OnTime PROVE BilledInFullUnlessLate
  <2> SUFFICES ASSUME NEW p \in Periods \ late, NEW v \in Units, Committed(p, v)
               PROVE  /\ \A u \in Units : invoice[p][u].total = Owed(Of(p))[u]
                      /\ EveryCentIsBilled(p)
    BY DEF BilledInFullUnlessLate
  <2>1. ASSUME NEW u \in Units PROVE invoice[p][u].total = Owed(Of(p))[u]
    <3>1. Committed(p, u)
      BY <1>2 DEF BillingInv, IssuedFromOneView
    <3> QED
      BY <1>2, <3>1 DEF OnTime, Committed
  <2>2. Of(p) \in SUBSET AllExpenses /\ IsFiniteSet(Of(p))
    <3>1. Of(p) \in SUBSET expenses
      BY DEF Of
    <3> QED
      BY <1>2, <3>1, FS_Subset DEF BillingInv, Shape, TypeInv
  <2>3. [u \in Units |-> invoice[p][u].total] = Owed(Of(p))
    BY <2>1 DEF Owed
  <2>4. DOMAIN Owed(Of(p)) = Units /\ DOMAIN [e \in Of(p) |-> e.total] = Of(p)
    BY DEF Owed
  <2>5. SumFunctionOnSet(Owed(Of(p)), Units) =
        SumFunctionOnSet([e \in Of(p) |-> e.total], Of(p))
    BY <2>2, OwedInAll
  <2>6. EveryCentIsBilled(p)
    BY <2>3, <2>4, <2>5 DEF EveryCentIsBilled, SumFunction
  <2> QED
    BY <2>1, <2>6
<1> QED
  BY <1>1, <1>2, OnTimeStep, MCInvariance, MCTypes, PTL DEF MCSpec, hvars

\* As long as no two calls generate at once, what a call has read as due is
\* due, and a template's last period is the last one it was billed for.
Ordered ==
    /\ \A q, r \in Generating : q = r
    /\ \A q \in Generating : \A t \in req[q].due : template[t].last < req[q].period
    /\ \A e \in expenses : e.of # NoOne => e.period <= template[e.of].last
    /\ OncePerPeriod

OnceInv == IsFiniteSet(Generating) /\ (overlapped \/ Ordered)

\* Who generates after a step: those before, and one that has read what is due.
LEMMA GeneratingStep ==
    ASSUME BillingInv, [Next]_vars
    PROVE  \E q : \A r \in Generating' :
              \/ r \in Generating /\ req'[r] = req[r]
              \/ /\ r = q /\ req'[r].due = Due(req'[r].period)
                 /\ UNCHANGED <<template, expenses>>
<1>1. req \in [Requests -> Call] /\ \A r : r \in Generating' <=>
         r \in Requests /\ req'[r].step = "generating"
  BY DEF BillingInv, Shape, Generating
<1>2. ASSUME NEW q \in Requests, Finish(q), NEW r \in Generating'
      PROVE  r \in Generating /\ req'[r] = req[r] /\ r # q
  <2>1. req'[r] = IF r = q THEN [New EXCEPT !.step = "done"] ELSE req[r]
    BY <1>1, <1>2 DEF Finish
  <2>2. [New EXCEPT !.step = "done"].step = "done"
    BY DEF New
  <2> QED
    BY <1>1, <2>1, <2>2 DEF Generating
<1>3. ASSUME NEW q \in Requests, NEW p \in Periods, GenerateReads(q, p),
             NEW r \in Generating'
      PROVE  \/ r \in Generating /\ req'[r] = req[r]
             \/ /\ r = q /\ req'[r].due = Due(req'[r].period)
                /\ UNCHANGED <<template, expenses>>
  <2> DEFINE c == [New EXCEPT !.step = "generating", !.period = p, !.due = Due(p)]
  <2>1. c.period = p /\ c.due = Due(p)
    BY DEF New
  <2>2. req' = [req EXCEPT ![q] = c] /\ UNCHANGED <<template, expenses>>
    BY <1>3 DEF GenerateReads
  <2> HIDE DEF c
  <2>3. req'[r] = IF r = q THEN c ELSE req[r]
    BY <1>1, <1>3, <2>2
  <2> QED
    BY <1>1, <1>3, <2>1, <2>2, <2>3 DEF Generating
<1>4. ASSUME NEW q \in Requests, NEW p \in Periods, RunReadsExpenses(q, p),
             NEW r \in Generating'
      PROVE  r \in Generating /\ req'[r] = req[r]
  <2> DEFINE c == [New EXCEPT !.step = "preflight", !.period = p,
                              !.totals = Owed(Of(p))]
  <2>1. c.step = "preflight"
    BY DEF New
  <2>2. req' = [req EXCEPT ![q] = c]
    BY <1>4 DEF RunReadsExpenses
  <2> HIDE DEF c
  <2>3. req'[r] = IF r = q THEN c ELSE req[r]
    BY <1>1, <1>4, <2>2
  <2> QED
    BY <1>1, <1>4, <2>1, <2>3 DEF Generating
<1>5. ASSUME NEW q \in Requests, RunReadsInvoices(q) \/ Upsert(q),
             NEW r \in Generating'
      PROVE  r \in Generating /\ req'[r] = req[r]
  <2>1. CASE Finish(q)
    BY <1>2, <1>5, <2>1
  <2>2. CASE req' = [req EXCEPT ![q].step = "issuing", ![q].unit = 1]
    <3>1. req'[q].step = "issuing"
      BY <1>1, <2>2 DEF Call
    <3>2. r # q
      BY <1>1, <1>5, <3>1
    <3> QED
      BY <1>1, <1>5, <2>2, <3>2 DEF Generating
  <2>3. CASE req' = [req EXCEPT ![q].unit = req[q].unit + 1] /\ req[q].step = "issuing"
    <3>1. req'[q].step = "issuing"
      BY <1>1, <2>3 DEF Call
    <3>2. r # q
      BY <1>1, <1>5, <3>1
    <3> QED
      BY <1>1, <1>5, <2>3, <3>2 DEF Generating
  <2> QED
    BY <1>5, <2>1, <2>2, <2>3 DEF RunReadsInvoices, Upsert
<1>6. CASE UNCHANGED req
  BY <1>6 DEF Generating
<1> QED
  BY <1>2, <1>3, <1>4, <1>5, <1>6 DEF Next, vars, CreateExpense,
     GenerateCommits, GenerateFails, RunCommits, RunFails, UpdateTemplate,
     RemoveTemplate, EditTemplate
\* Templates and their expenses: only the call that generates moves a last
\* period, to its own, and only for what it has read as due.
LEMMA TemplatesStep ==
    ASSUME BillingInv, TypeInv, [Next]_vars
    PROVE  \/ /\ \A t \in Templates : template'[t].last = template[t].last
              /\ \A e \in expenses' \ expenses : e.of = NoOne
           \/ \E q \in Generating : /\ GenerateCommits(q) /\ q \notin Generating'
                                   /\ \A r \in Generating' : req'[r] = req[r]
<1>1. /\ req \in [Requests -> Call]
      /\ template \in [Templates ->
            [present : BOOLEAN, active : BOOLEAN, last : Periods \cup {0}]]
  BY DEF BillingInv, Shape, TypeInv
<1>2. ASSUME NEW q \in Requests, GenerateCommits(q)
      PROVE  /\ q \in Generating /\ q \notin Generating'
             /\ \A r \in Generating' : req'[r] = req[r]
  <2> DEFINE c == [New EXCEPT !.step = "done"]
  <2>1. c.step = "done"
    BY DEF New
  <2>2. req' = [req EXCEPT ![q] = c] /\ req[q].step = "generating"
    BY <1>2 DEF GenerateCommits, Finish
  <2> HIDE DEF c
  <2> QED
    BY <1>1, <2>1, <2>2 DEF Generating
<1>3. ASSUME NEW q \in Requests, NEW p \in Periods,
             NEW total \in Amounts, NEW w \in Strategies,
             CreateExpense(q, p, total, w)
      PROVE  /\ \A t \in Templates : template'[t].last = template[t].last
             /\ \A e \in expenses' \ expenses : e.of = NoOne
  BY <1>3 DEF CreateExpense, Expense
<1>4. ASSUME NEW t \in Templates, UpdateTemplate(t) \/ RemoveTemplate(t)
      PROVE  /\ \A x \in Templates : template'[x].last = template[x].last
             /\ expenses' = expenses
  BY <1>1, <1>4 DEF UpdateTemplate, RemoveTemplate, EditTemplate
<1>5. CASE UNCHANGED <<template, expenses>>
  BY <1>5
<1> QED
  BY <1>2, <1>3, <1>4, <1>5 DEF Next, vars, GenerateReads, GenerateFails,
     RunReadsExpenses, RunReadsInvoices, Upsert, RunCommits, RunFails

\* A step after which no two calls generate, and none did before.
LEMMA OrderedStep ==
    ASSUME BillingInv, TypeInv, [Next]_vars, Ordered,
           \A q, r \in Generating' : q = r
    PROVE  Ordered'
<1>1. /\ template \in [Templates ->
            [present : BOOLEAN, active : BOOLEAN, last : Periods \cup {0}]]
      /\ expenses \subseteq AllExpenses /\ expenses' \subseteq AllExpenses
      /\ \A q \in Generating : /\ req[q] \in Call /\ req[q].period \in Periods
                               /\ req[q].due \subseteq Templates
  <2>1. expenses' \subseteq AllExpenses
    BY NextInv DEF BillingInv, Shape
  <2>2. \A q \in Generating : req[q] \in Call /\ req[q].period \in Periods
    BY DEF BillingInv, Shape, ViewInv, Generating
  <2>3. \A q \in Generating : req[q].due \subseteq Templates
    BY <2>2 DEF Call
  <2>4. expenses \subseteq AllExpenses
    BY DEF BillingInv, Shape
  <2> QED
    BY <2>1, <2>2, <2>3, <2>4 DEF TypeInv
<1>2. Periods \subseteq Nat /\ \A t \in Templates : template[t].last \in Nat
  <2>1. Periods \subseteq Nat
    BY PeriodsAssumption
  <2>2. ASSUME NEW t \in Templates PROVE template[t].last \in Nat
    <3> DEFINE last == template[t].last
    <3>1. last \in Periods \/ last = 0
      BY <1>1
    <3> HIDE DEF last
    <3>2. CASE last \in Periods
      BY <2>1, <3>2 DEF last
    <3>3. CASE last = 0
      BY <3>3 DEF last
    <3> QED
      BY <3>1, <3>2, <3>3
  <2> QED
    BY <2>1, <2>2
<1>3. \A e \in expenses' : /\ e.of # NoOne => e.of \in Templates
                          /\ e.period \in Nat
  BY <1>1, <1>2, ExpenseRow
<1>4. CASE /\ \A t \in Templates : template'[t].last = template[t].last
           /\ \A e \in expenses' \ expenses : e.of = NoOne
  <2>1. ASSUME NEW q \in Generating', NEW t \in req'[q].due
        PROVE  template'[t].last < req'[q].period
    <3>1. CASE q \in Generating /\ req'[q] = req[q]
      BY <1>1, <1>4, <2>1, <3>1 DEF Ordered
    <3>2. CASE req'[q].due = Due(req'[q].period) /\ template' = template
      BY <2>1, <3>2 DEF Due
    <3> QED
      BY <3>1, <3>2, GeneratingStep
  <2>2. ASSUME NEW e \in expenses', e.of # NoOne
        PROVE  e \in expenses /\ e.period <= template'[e.of].last
    BY <1>3, <1>4, <2>2 DEF Ordered
  <2>3. OncePerPeriod'
    BY <2>2 DEF Ordered, OncePerPeriod
  <2> QED
    BY <2>1, <2>2, <2>3 DEF Ordered
<1>5. CASE \E q \in Generating : /\ GenerateCommits(q) /\ q \notin Generating'
                                /\ \A r \in Generating' : req'[r] = req[r]
  <2>1. PICK q \in Generating : GenerateCommits(q) /\ q \notin Generating'
    BY <1>5
  <2> DEFINE due == req[q].due
             p == req[q].period
             new(t) == Expense(q, t, p, TemplateCharge[t].total,
                               TemplateCharge[t].weights)
  <2>2. /\ due \subseteq Templates /\ p \in Periods /\ p \in Nat
        /\ \A t \in due : template[t].last < p
    BY <1>1, <1>2 DEF Ordered
  <2>3. \A e \in expenses' \ expenses :
           \E t \in due : e = new(t) /\ e.of = t /\ e.period = p
    BY <2>1 DEF GenerateCommits, Expense
  <2>4. \A t \in Templates :
           template'[t].last = IF t \in due THEN p ELSE template[t].last
    BY <1>1, <2>1 DEF GenerateCommits
  <2>5. Generating' = {}
    <3> SUFFICES ASSUME NEW r \in Generating' PROVE FALSE
      OBVIOUS
    <3>1. r \in Generating
      <4>1. req'[r] = [New EXCEPT !.step = "done"] \/ req'[r] = req[r]
        <5>1. req \in [Requests -> Call]
          BY DEF BillingInv, Shape
        <5> QED
          BY <2>1, <5>1 DEF GenerateCommits, Finish, Generating
      <4>2. [New EXCEPT !.step = "done"].step = "done"
        BY DEF New
      <4> QED
        BY <4>1, <4>2 DEF Generating
    <3> QED
      BY <2>1, <3>1 DEF Ordered
  <2> HIDE DEF due, p, new
  <2>6. ASSUME NEW e \in expenses', e.of # NoOne
        PROVE  e.period <= template'[e.of].last
    <3>1. CASE e \in expenses
      <4>1. e.of \in Templates /\ e.period <= template[e.of].last
        BY <1>3, <2>6, <3>1 DEF Ordered
      <4> QED
        BY <1>2, <1>3, <2>2, <2>4, <4>1
    <3>2. CASE e \notin expenses
      BY <2>2, <2>3, <2>4, <3>2
    <3> QED
      BY <3>1, <3>2
  <2>7. ASSUME NEW d \in expenses', NEW e \in expenses',
               d.of # NoOne, d.of = e.of, d.period = e.period
        PROVE  d = e
    <3>1. ASSUME NEW a \in expenses, NEW b \in expenses' \ expenses,
                 a.of # NoOne, a.of = b.of, a.period = b.period
          PROVE  FALSE
      <4>1. b.of \in due /\ b.period = p
        BY <2>3
      <4>2. a.period <= template[a.of].last /\ template[a.of].last < p
        BY <2>2, <3>1, <4>1 DEF Ordered
      <4>3. template[a.of].last \in Nat
        BY <1>2, <2>2, <3>1, <4>1
      <4> QED
        BY <2>2, <3>1, <4>1, <4>2, <4>3
    <3>2. CASE d \in expenses /\ e \in expenses
      BY <2>7, <3>2 DEF Ordered, OncePerPeriod
    <3>3. CASE d \notin expenses /\ e \notin expenses
      BY <2>3, <2>7, <3>3
    <3> QED
      BY <2>7, <3>1, <3>2, <3>3
  <2> QED
    BY <2>5, <2>6, <2>7 DEF Ordered, OncePerPeriod
<1> QED
  BY <1>4, <1>5, TemplatesStep

LEMMA AtMostOne ==
    ASSUME NEW S, IsFiniteSet(S), ~ (Cardinality(S) > 1)
    PROVE  \A q, r \in S : q = r
<1>1. Cardinality(S) \in Nat
  BY FS_CardinalityType
<1>2. Cardinality(S) = 0 \/ Cardinality(S) = 1
  BY <1>1
<1>3. S = {} \/ \E x : S = {x}
  BY <1>2, FS_EmptySet, FS_Singleton
<1> QED
  BY <1>3

\* A template is billed at most once per period as long as no two generate calls
\* overlap, in whatever order periods are generated and templates are edited
\* (RecurringService.generate reads the templates before its transaction).
THEOREM BilledOnce == MCSpec => []OnceUnlessOverlapped
<1>1. MCInit => OnceInv
  <2> SUFFICES ASSUME MCInit PROVE OnceInv
    OBVIOUS
  <2>1. Generating = {} /\ expenses = {}
    BY DEF MCInit, Init, Generating, New
  <2> QED
    BY <2>1, FS_EmptySet DEF OnceInv, Ordered, OncePerPeriod
<1>2. BillingInv /\ TypeInv /\ OnceInv /\ [MCNext]_hvars => OnceInv'
  <2> SUFFICES ASSUME BillingInv, TypeInv, OnceInv, [MCNext]_hvars
               PROVE  OnceInv'
    OBVIOUS
  <2>1. [Next]_vars
    BY HistoryStep
  <2>2. IsFiniteSet(Generating')
    <3>1. PICK q : \A r \in Generating' : r \in Generating \/ r = q
      BY <2>1, GeneratingStep
    <3>2. Generating' \in SUBSET (Generating \cup {q})
      BY <3>1
    <3>3. IsFiniteSet(Generating \cup {q})
      BY FS_AddElement DEF OnceInv
    <3> QED
      BY <3>2, <3>3, FS_Subset
  <2>3. CASE overlapped'
    BY <2>2, <2>3 DEF OnceInv
  <2>4. CASE ~ overlapped'
    <3>1. ~ overlapped
      BY <2>4 DEF MCNext, hvars
    <3>2. \A q, r \in Generating' : q = r
      <4>1. CASE UNCHANGED hvars
        BY <3>1, <4>1 DEF hvars, vars, Generating, OnceInv, Ordered
      <4>2. CASE MCNext
        <5>1. ~ (Cardinality(Generating') > 1)
          BY <2>4, <4>2 DEF MCNext
        <5> QED
          BY <2>2, <5>1, AtMostOne
      <4> QED
        BY <4>1, <4>2
    <3> QED
      BY <2>1, <2>2, <3>1, <3>2, OrderedStep DEF OnceInv
  <2> QED
    BY <2>3, <2>4
<1>3. OnceInv => OnceUnlessOverlapped
  BY DEF OnceInv, Ordered, OnceUnlessOverlapped
<1> QED
  BY <1>1, <1>2, <1>3, MCInvariance, MCTypes, PTL DEF MCSpec, hvars
=============================================================================

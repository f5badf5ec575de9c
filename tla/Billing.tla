------------------------------ MODULE Billing ------------------------------
(***************************************************************************)
(* Allocation and issue: expenses split over the units of a building        *)
(* (expenses, prisma/split-by-largest-remainder.ts), the expenses of        *)
(* recurring templates (recurring), and the run that turns the expenses of  *)
(* a period into its invoices (invoices).                                   *)
(*                                                                          *)
(* Strategies holds the weights of the units, in label order, under each    *)
(* allocation strategy; units and weights do not change.                    *)
(***************************************************************************)
EXTENDS Naturals, Sequences, FiniteSets, Functions, LargestRemainder

CONSTANTS
    N,             \* number of units
    Strategies,    \* weights of the units under each allocation strategy
    Periods,       \* billing months, in order
    Amounts,       \* totals of one-off expenses
    Templates,     \* recurring expenses with a category
    TemplateCharge,\* their amount and weights
    Requests,      \* calls in flight, or served
    NoOne,
    MaxEdits       \* bound on changes of templates

Units == 1..N

ASSUME UnitsAssumption == N \in Nat \ {0}
ASSUME PeriodsAssumption == Periods \subseteq Nat \ {0}
ASSUME StrategiesAssumption ==
    \A w \in Strategies : w \in [Units -> Nat] /\ SumFunction(w) > 0
ASSUME ChargesAssumption ==
    /\ IsFiniteSet(Templates)
    /\ Amounts \subseteq Nat \ {0}
    /\ TemplateCharge \in [Templates -> [total : Nat \ {0}, weights : Strategies]]
ASSUME NoOneAssumption == NoOne \notin Requests \cup Templates /\ MaxEdits \in Nat

VARIABLES
    expenses,      \* Expense rows with their Shares
    template,      \* RecurringExpense rows
    invoice,       \* Invoice rows, by period and unit; "by" names the
                   \* transaction that has not committed the row yet
    req,           \* calls, between two awaits
    edits

vars == <<expenses, template, invoice, req, edits>>

NoTotals == [u \in Units |-> 0]
NoInvoice == [total |-> 0, by |-> NoOne, present |-> FALSE]
New == [step |-> "new", period |-> 0, due |-> {}, totals |-> NoTotals,
        unit |-> 0]

Init ==
    /\ expenses = {}
    /\ template = [t \in Templates |->
                     [present |-> TRUE, active |-> TRUE, last |-> 0]]
    /\ invoice = [p \in Periods |-> [u \in Units |-> NoInvoice]]
    /\ req = [q \in Requests |-> New]
    /\ edits = 0

Finish(q) == req' = [req EXCEPT ![q] = [New EXCEPT !.step = "done"]]
-----------------------------------------------------------------------------
Expense(q, t, p, total, w) ==
    [by |-> q, of |-> t, period |-> p, total |-> total, weights |-> w,
     shares |-> Split(w, total)]

Of(p) == {e \in expenses : e.period = p}

\* aggregateRun: what each unit owes of a set of expenses.
Owed(set) ==
    [u \in Units |-> SumFunction([e \in set |-> e.shares[u]])]
-----------------------------------------------------------------------------
(***************************************************************************)
(* Expenses: one-off, and from the templates that are due                   *)
(***************************************************************************)
\* Whether the period is issued is not asked.
CreateExpense(q, p, total, w) ==
    /\ req[q] = New
    /\ expenses' = expenses \cup {Expense(q, NoOne, p, total, w)}
    /\ Finish(q)
    /\ UNCHANGED <<template, invoice, edits>>

\* Mutant: the templates of the period itself count as due.
DueAgain(p) ==
    {t \in Templates : /\ template[t].present /\ template[t].active
                       /\ template[t].last <= p}

Due(p) ==
    {t \in Templates : /\ template[t].present /\ template[t].active
                       /\ template[t].last < p}

GenerateReads(q, p) ==
    /\ req[q] = New
    /\ Due(p) # {}
    /\ req' = [req EXCEPT ![q] =
         [New EXCEPT !.step = "generating", !.period = p, !.due = Due(p)]]
    /\ UNCHANGED <<expenses, template, invoice, edits>>

\* One transaction for all the templates read as due.
GenerateCommits(q) ==
    LET due == req[q].due
        p == req[q].period IN
    /\ req[q].step = "generating"
    /\ \A t \in due : template[t].present
    /\ expenses' = expenses \cup
         {Expense(q, t, p, TemplateCharge[t].total, TemplateCharge[t].weights)
             : t \in due}
    /\ template' = [t \in Templates |->
         IF t \in due THEN [template[t] EXCEPT !.last = p] ELSE template[t]]
    /\ Finish(q)
    /\ UNCHANGED <<invoice, edits>>

\* A template read as due has been removed: the transaction rolls back.
GenerateFails(q) ==
    /\ req[q].step = "generating"
    /\ \E t \in req[q].due : ~ template[t].present
    /\ Finish(q)
    /\ UNCHANGED <<expenses, template, invoice, edits>>

EditTemplate(t, row) ==
    /\ edits < MaxEdits
    /\ edits' = edits + 1
    /\ template[t].present
    /\ template' = [template EXCEPT ![t] = row]
    /\ UNCHANGED <<expenses, invoice, req>>

UpdateTemplate(t) ==
    EditTemplate(t, [template[t] EXCEPT !.active = ~ @])

RemoveTemplate(t) ==
    EditTemplate(t, [template[t] EXCEPT !.present = FALSE])
-----------------------------------------------------------------------------
(***************************************************************************)
(* The invoice run                                                          *)
(***************************************************************************)
Committed(p, u) == invoice[p][u].present /\ invoice[p][u].by = NoOne

\* Mutant: the expenses of every period are aggregated.
RunReadsAllExpenses(q, p) ==
    /\ req[q] = New
    /\ Of(p) # {}
    /\ req' = [req EXCEPT ![q] =
         [New EXCEPT !.step = "preflight", !.period = p,
                     !.totals = Owed(expenses)]]
    /\ UNCHANGED <<expenses, template, invoice, edits>>

RunReadsExpenses(q, p) ==
    /\ req[q] = New
    /\ Of(p) # {}
    /\ req' = [req EXCEPT ![q] =
         [New EXCEPT !.step = "preflight", !.period = p,
                     !.totals = Owed(Of(p))]]
    /\ UNCHANGED <<expenses, template, invoice, edits>>

\* A period that is issued is left alone, whether the totals agree (the answer
\* is its invoices) or not (the run is refused).
RunReadsInvoices(q) ==
    LET p == req[q].period IN
    /\ req[q].step = "preflight"
    /\ IF \E u \in Units : Committed(p, u) THEN Finish(q)
       ELSE req' = [req EXCEPT ![q].step = "issuing", ![q].unit = 1]
    /\ UNCHANGED <<expenses, template, invoice, edits>>

Insert(q, row) == invoice' = [invoice EXCEPT ![req[q].period][req[q].unit] = row]

Row(q, by) == [total |-> req[q].totals[req[q].unit], by |-> by, present |-> TRUE]

\* Mutant: the upserts are not one transaction.
UpsertAlone(q) ==
    LET p == req[q].period
        u == req[q].unit IN
    /\ req[q].step = "issuing" /\ u \in Units
    /\ IF Committed(p, u) THEN UNCHANGED invoice ELSE Insert(q, Row(q, NoOne))
    /\ req' = [req EXCEPT ![q].unit = u + 1]
    /\ UNCHANGED <<expenses, template, edits>>

\* Mutant: the upsert updates the total of a row that has appeared.
UpsertOverwrites(q) ==
    LET p == req[q].period
        u == req[q].unit IN
    /\ req[q].step = "issuing" /\ u \in Units
    /\ ~ invoice[p][u].present \/ Committed(p, u)
    /\ Insert(q, Row(q, IF Committed(p, u) THEN NoOne ELSE q))
    /\ req' = [req EXCEPT ![q].unit = u + 1]
    /\ UNCHANGED <<expenses, template, edits>>

\* The units in label order, in one transaction; "update: {}" leaves a row that
\* has appeared as it is, a row another transaction is inserting is waited for.
Upsert(q) ==
    LET p == req[q].period
        u == req[q].unit IN
    /\ req[q].step = "issuing" /\ u \in Units
    /\ \/ ~ invoice[p][u].present /\ Insert(q, Row(q, q))
       \/ Committed(p, u) /\ UNCHANGED invoice
    /\ req' = [req EXCEPT ![q].unit = u + 1]
    /\ UNCHANGED <<expenses, template, edits>>

RunCommits(q) ==
    /\ req[q].step = "issuing" /\ req[q].unit \notin Units
    /\ invoice' = [p \in Periods |-> [u \in Units |->
         IF invoice[p][u].by = q THEN [invoice[p][u] EXCEPT !.by = NoOne]
         ELSE invoice[p][u]]]
    /\ Finish(q)
    /\ UNCHANGED <<expenses, template, edits>>

\* Mutant: nothing is rolled back.
RunFailsHalfway(q) ==
    /\ req[q].step = "issuing"
    /\ Finish(q)
    /\ UNCHANGED <<expenses, template, invoice, edits>>

\* A statement fails, the transaction times out or the process stops.
RunFails(q) ==
    /\ req[q].step = "issuing"
    /\ invoice' = [p \in Periods |-> [u \in Units |->
         IF invoice[p][u].by = q THEN NoInvoice ELSE invoice[p][u]]]
    /\ Finish(q)
    /\ UNCHANGED <<expenses, template, edits>>

Next ==
    \/ \E q \in Requests :
          \/ GenerateCommits(q) \/ GenerateFails(q)
          \/ RunReadsInvoices(q) \/ Upsert(q) \/ RunCommits(q) \/ RunFails(q)
          \/ \E p \in Periods :
                \/ \E total \in Amounts, w \in Strategies :
                      CreateExpense(q, p, total, w)
                \/ GenerateReads(q, p)
                \/ RunReadsExpenses(q, p)
    \/ \E t \in Templates : UpdateTemplate(t) \/ RemoveTemplate(t)

Spec == Init /\ [][Next]_vars
-----------------------------------------------------------------------------
(***************************************************************************)
(* Properties                                                               *)
(***************************************************************************)
\* Rows and calls have the shape the schema and the code give them, and a row
\* that is not committed belongs to a run that is issuing.
TypeOK ==
    /\ \A e \in expenses : /\ e.by \in Requests /\ e.period \in Periods
                           /\ e.of \in Templates \cup {NoOne}
                           /\ e.shares \in [Units -> Nat]
    /\ template \in [Templates ->
          [present : BOOLEAN, active : BOOLEAN, last : Periods \cup {0}]]
    /\ invoice \in [Periods -> [Units ->
          [total : Nat, by : Requests \cup {NoOne}, present : BOOLEAN]]]
    /\ \A p \in Periods : \A u \in Units :
          LET q == invoice[p][u].by IN
          q # NoOne => req[q].step = "issuing" /\ req[q].period = p
    /\ \A q \in Requests :
          /\ req[q].step \in {"new", "generating", "preflight", "issuing",
                              "done"}
          /\ req[q].totals \in [Units -> Nat] /\ req[q].unit \in 0..(N + 1)
    /\ edits \in 0..MaxEdits

\* Every expense is shared out to the cent, and no unit's share is a cent or
\* more away from its exact quota: an exempt unit pays nothing.
SharesAreExact ==
    \A e \in expenses :
        LET whole == SumFunction(e.weights) IN
        /\ SumFunction(e.shares) = e.total
        /\ \A u \in Units :
              /\ e.shares[u] * whole < e.weights[u] * e.total + whole
              /\ e.weights[u] * e.total < e.shares[u] * whole + whole

\* However runs of a period overlap and fail, its invoices are those of one
\* run: all units or none, all from the same set of expenses.
IssuedFromOneView ==
    \A p \in Periods :
        (\E u \in Units : Committed(p, u)) =>
            \E set \in SUBSET Of(p) :
                \A u \in Units :
                    Committed(p, u) /\ invoice[p][u].total = Owed(set)[u]

\* "A concurrent rerun can never overwrite a total/status that appeared after
\* the preflight read."
IssuedIsImmutable ==
    [][\A p \in Periods : \A u \in Units :
          Committed(p, u) => invoice'[p][u] = invoice[p][u]]_vars

\* "Templates with lastPeriod >= period are skipped, so a second call for the
\* same period creates nothing" (generate).
OncePerPeriod ==
    \A d, e \in expenses :
        d.of # NoOne /\ d.of = e.of /\ d.period = e.period => d = e
=============================================================================

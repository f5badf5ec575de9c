-------------------------- MODULE SupplierInvoices --------------------------
(***************************************************************************)
(* The inbox of a building's supplier invoices                              *)
(* (apps/api/src/supplier-invoices). Invoices are typed in, scanned,         *)
(* imported as a myDATA document or pulled from myDATA; each is matched to   *)
(* an expense that is there or to one made for it, or voided. No two awaits  *)
(* of a call are in one transaction, except for the expense made and the     *)
(* link to it.                                                               *)
(***************************************************************************)
EXTENDS Integers, Sequences, LargestRemainder

CONSTANTS
    Requests,    \* calls in flight
    Feed,        \* marks of the documents myDATA has for the building, in order
    Total,       \* totalCents of the document with a mark
    Cents,       \* totals of invoices without a mark
    Millimes,    \* of the units, in label order; zero where not given
    NoMark,
    MaxInvoices  \* bound on the rows

Marks == DOMAIN Total

ASSUME RequestsAssumption == IsFiniteSet(Requests)
ASSUME FeedAssumption == Feed \in Seq(Marks)
ASSUME TotalAssumption == Total \in [Marks -> Int] /\ Cents \subseteq Int
\* Without a unit no expense is made ("Building has no units to allocate to").
ASSUME MillimesAssumption ==
    /\ IsFiniteSet(DOMAIN Millimes) /\ DOMAIN Millimes # {}
    /\ DOMAIN Millimes \subseteq Nat
    /\ \A u \in DOMAIN Millimes : Millimes[u] \in Int

VARIABLES
    invoice,     \* SupplierInvoice rows, in the order of their creation
    expense,     \* Expense rows with their Share rows
    req          \* calls, between two awaits

vars == <<invoice, expense, req>>

Idle == [step |-> "idle", mark |-> NoMark, todo |-> <<>>, row |-> 0, link |-> 0]

Weights == [u \in DOMAIN Millimes |-> IF Millimes[u] > 0 THEN Millimes[u] ELSE 1]

Init ==
    /\ invoice = <<>>
    /\ expense = <<[cents |-> 1, shares |-> Split(Weights, 1)]>>  \* one by hand
    /\ req = [q \in Requests |-> Idle]

Finish(q) == req' = [req EXCEPT ![q] = Idle]
-----------------------------------------------------------------------------
(***************************************************************************)
(* The ways in                                                              *)
(***************************************************************************)
Create(mark, cents, status) ==
    /\ Len(invoice) < MaxInvoices
    /\ invoice' = Append(invoice, [mark |-> mark, cents |-> cents,
                                   status |-> status, expense |-> 0])

ImportManual(cents) ==
    /\ cents > 0
    /\ Create(NoMark, cents, "DRAFT")
    /\ UNCHANGED <<expense, req>>

\* What was read off the page need not be positive.
ImportFromPdf(cents) ==
    /\ Create(NoMark, cents, "DRAFT")
    /\ UNCHANGED <<expense, req>>

Stored(mark) == \E i \in DOMAIN invoice : invoice[i].mark = mark

\* importFromJson; a document that is there is the answer.
JsonReads(q, mark) ==
    /\ req[q] = Idle
    /\ ~ Stored(mark)
    /\ req' = [req EXCEPT ![q] = [Idle EXCEPT !.step = "json", !.mark = mark]]
    /\ UNCHANGED <<invoice, expense>>

JsonCreates(q) ==
    /\ req[q].step = "json"
    /\ IF Stored(req[q].mark)   \* the mark is unique: "already exists"
       THEN UNCHANGED invoice
       ELSE Create(req[q].mark, Total[req[q].mark], "IMPORTED")
    /\ Finish(q)
    /\ UNCHANGED expense

\* pullFromMyData: the documents one after the other.
PullStarts(q) ==
    /\ req[q] = Idle
    /\ req' = [req EXCEPT ![q] = [Idle EXCEPT !.step = "pull", !.todo = Feed]]
    /\ UNCHANGED <<invoice, expense>>

Goes(q, step) == req' = [req EXCEPT ![q].step = step]

PastFirst(q) ==
    req' = [req EXCEPT ![q].step = "pull", ![q].todo = Tail(@)]

PullReads(q) ==
    /\ req[q].step = "pull" /\ req[q].todo # <<>>
    /\ IF Stored(Head(req[q].todo)) THEN PastFirst(q) ELSE Goes(q, "store")
    /\ UNCHANGED <<invoice, expense>>

\* Mutant: whatever fails to be stored is counted as skipped.
PullCreatesOrSkips(q) ==
    LET mark == Head(req[q].todo) IN
    /\ req[q].step = "store"
    /\ \/ UNCHANGED invoice
       \/ ~ Stored(mark) /\ Create(mark, Total[mark], "IMPORTED")
    /\ PastFirst(q)
    /\ UNCHANGED expense

\* A document stored meanwhile, by an import or another pull, is skipped.
PullCreates(q) ==
    LET mark == Head(req[q].todo) IN
    /\ req[q].step = "store"
    /\ IF Stored(mark) THEN UNCHANGED invoice
                       ELSE Create(mark, Total[mark], "IMPORTED")
    /\ PastFirst(q)
    /\ UNCHANGED expense

PullEnds(q) ==
    /\ req[q].step = "pull" /\ req[q].todo = <<>>
    /\ Finish(q)
    /\ UNCHANGED <<invoice, expense>>
-----------------------------------------------------------------------------
(***************************************************************************)
(* matchToExpense and voidInvoice                                           *)
(***************************************************************************)
\* Mutant: the status is not looked at, only the link.
MatchableWhenVoided(i) == invoice[i].expense = 0

Matchable(i) ==
    invoice[i].status \notin {"VOIDED", "MATCHED"} /\ invoice[i].expense = 0

\* The invoice is read; and the expense e it is to be linked to, unless one is
\* to be made, for which a total below zero is refused by the split.
MatchReads(q, i, e) ==
    /\ req[q] = Idle
    /\ Matchable(i)
    /\ e = 0 => invoice[i].cents >= 0
    /\ req' = [req EXCEPT ![q] =
         [Idle EXCEPT !.step = IF e = 0 THEN "auto" ELSE "link",
                      !.row = i, !.link = e]]
    /\ UNCHANGED <<invoice, expense>>

Match(i, e) ==
    invoice' = [invoice EXCEPT ![i].status = "MATCHED", ![i].expense = e]

\* Mutant: expenseId is not unique.
LinkWritesAnyway(q) ==
    /\ req[q].step = "link"
    /\ Match(req[q].row, req[q].link)
    /\ Finish(q)
    /\ UNCHANGED expense

\* An expense belongs to one invoice: expenseId is unique.
LinkWrites(q) ==
    /\ req[q].step = "link"
    /\ \A i \in DOMAIN invoice :
          invoice[i].expense = req[q].link => i = req[q].row
    /\ Match(req[q].row, req[q].link)
    /\ Finish(q)
    /\ UNCHANGED expense

\* The expense, its shares and the link are one transaction.
AutoCommits(q) ==
    LET cents == invoice[req[q].row].cents IN
    /\ req[q].step = "auto"
    /\ expense' = Append(expense, [cents |-> cents, shares |-> Split(Weights, cents)])
    /\ Match(req[q].row, Len(expense) + 1)
    /\ Finish(q)

VoidReads(q, i) ==
    /\ req[q] = Idle
    /\ invoice[i].status # "VOIDED"
    /\ req' = [req EXCEPT ![q] = [Idle EXCEPT !.step = "void", !.row = i]]
    /\ UNCHANGED <<invoice, expense>>

VoidWrites(q) ==
    /\ req[q].step = "void"
    /\ invoice' = [invoice EXCEPT ![req[q].row].status = "VOIDED"]
    /\ Finish(q)
    /\ UNCHANGED expense

\* A write is refused or rolled back, or the process stops; what a pull has
\* stored stays.
Fails(q) ==
    /\ req[q].step # "idle"
    /\ Finish(q)
    /\ UNCHANGED <<invoice, expense>>
-----------------------------------------------------------------------------
Next ==
    \/ \E cents \in Cents : ImportManual(cents) \/ ImportFromPdf(cents)
    \/ \E q \in Requests :
          \/ \E mark \in Marks : JsonReads(q, mark)
          \/ JsonCreates(q)
          \/ PullStarts(q) \/ PullReads(q) \/ PullCreates(q) \/ PullEnds(q)
          \/ \E i \in DOMAIN invoice :
                \/ \E e \in {0} \cup DOMAIN expense : MatchReads(q, i, e)
                \/ VoidReads(q, i)
          \/ LinkWrites(q) \/ AutoCommits(q) \/ VoidWrites(q)
          \/ Fails(q)

Spec == Init /\ [][Next]_vars
-----------------------------------------------------------------------------
(***************************************************************************)
(* Properties                                                               *)
(***************************************************************************)
\* Rows have the shape and the uniqueness the schema gives them: one row per
\* mark, one invoice per expense; a MATCHED invoice has its expense.
TypeOK ==
    /\ \A i \in DOMAIN invoice :
          /\ invoice[i].mark \in Marks \cup {NoMark}
          /\ invoice[i].status \in {"DRAFT", "IMPORTED", "MATCHED", "VOIDED"}
          /\ invoice[i].expense \in 0..Len(expense)
          /\ invoice[i].status = "MATCHED" => invoice[i].expense # 0
    /\ \A i, j \in DOMAIN invoice : i # j =>
          /\ invoice[i].mark # NoMark => invoice[i].mark # invoice[j].mark
          /\ invoice[i].expense # 0 => invoice[i].expense # invoice[j].expense
    /\ \A q \in Requests :
          /\ req[q].step \in {"idle", "json", "pull", "store", "auto", "link", "void"}
          /\ req[q].row \in 0..Len(invoice) /\ req[q].link \in 0..Len(expense)

\* A pull never passes a document that is not stored in the end, whatever
\* imports and pulls beside it and whatever failed before it (pullFromMyData).
PullLeavesNothingOut ==
    \A q \in Requests : req[q].step \in {"pull", "store"} =>
        \A k \in 1..(Len(Feed) - Len(req[q].todo)) : Stored(Feed[k])
=============================================================================

----------------------- MODULE SupplierInvoicesProofs -----------------------
(***************************************************************************)
(* Proofs about SupplierInvoices for any feed, totals, units and calls: the  *)
(* uniqueness of marks and links, that a pull leaves nothing out, and that a *)
(* match stands unless two calls were at the invoice at once.                *)
(***************************************************************************)
EXTENDS MCSupplierInvoices, SumTheorems, SequenceTheorems

Invoices == [mark : Marks \cup {NoMark}, cents : Int,
             status : {"DRAFT", "IMPORTED", "MATCHED", "VOIDED"}, expense : Nat]
Expenses == [cents : Int, shares : {Split(Weights, cents) : cents \in Int}]
Calls == [step : {"idle", "json", "pull", "store", "auto", "link", "void"},
          mark : Marks \cup {NoMark}, todo : Seq(Marks), row : Nat, link : Nat]

RowsInv ==
    /\ invoice \in Seq(Invoices) /\ expense \in Seq(Expenses)
    /\ \A i \in 1..Len(invoice) :
          /\ invoice[i].expense <= Len(expense)
          /\ invoice[i].status = "MATCHED" => invoice[i].expense # 0

UniqueInv ==
    \A i, j \in 1..Len(invoice) : i # j =>
        /\ invoice[i].mark # NoMark => invoice[i].mark # invoice[j].mark
        /\ invoice[i].expense # 0 => invoice[i].expense # invoice[j].expense

\* What a pull has still to look at is the end of the feed, and what it has
\* passed is stored.
PullInv(todo) ==
    /\ Len(todo) <= Len(Feed)
    /\ \A k \in 1..Len(todo) : todo[k] = Feed[Len(Feed) - Len(todo) + k]
    /\ \A k \in 1..(Len(Feed) - Len(todo)) : Stored(Feed[k])

\* What a call has read is still there: no row is ever removed.
CallInv(c) ==
    /\ c.row <= Len(invoice) /\ c.link <= Len(expense)
    /\ c.step \in {"auto", "link", "void"} => c.row # 0
    /\ c.step = "link" => c.link # 0
    /\ c.step = "json" => c.mark \in Marks
    /\ c.step = "store" => c.todo # <<>>
    /\ c.step \in {"pull", "store"} => PullInv(c.todo)

CallsInv ==
    /\ req \in [Requests -> Calls]
    /\ \A q \in Requests : CallInv(req[q])

SupplierInv == RowsInv /\ UniqueInv /\ CallsInv

LEMMA IdleFacts == Idle \in Calls /\ Idle.step = "idle" /\ Idle.row = 0 /\ Idle.link = 0
  BY DEF Idle, Calls

LEMMA InitInv == Init => SupplierInv
<1> SUFFICES ASSUME Init PROVE SupplierInv
  OBVIOUS
<1>1. [cents |-> 1, shares |-> Split(Weights, 1)] \in Expenses
  BY DEF Expenses
<1>2. invoice \in Seq(Invoices) /\ Len(invoice) = 0 /\ expense \in Seq(Expenses)
  BY <1>1 DEF Init
<1>3. RowsInv /\ UniqueInv
  BY <1>2 DEF RowsInv, UniqueInv
<1>4. CallsInv
  BY <1>2, IdleFacts DEF Init, CallsInv, CallInv
<1> QED
  BY <1>3, <1>4 DEF SupplierInv
-----------------------------------------------------------------------------
(***************************************************************************)
(* Rows only come to be, and keep their marks.                               *)
(***************************************************************************)
Grows ==
    /\ Len(invoice') >= Len(invoice) /\ Len(expense') >= Len(expense)
    /\ \A k \in 1..Len(Feed) : Stored(Feed[k]) => Stored(Feed[k])'

LEMMA PullKept ==
    ASSUME Grows, NEW todo \in Seq(Marks), PullInv(todo)
    PROVE  PullInv(todo)'
<1>1. Len(Feed) \in Nat /\ Len(todo) \in Nat
  BY FeedAssumption
<1>2. ASSUME NEW k \in 1..(Len(Feed) - Len(todo)) PROVE Stored(Feed[k])'
  <2>1. k \in 1..Len(Feed)
    BY <1>1
  <2>2. Stored(Feed[k])
    BY DEF PullInv
  <2> QED
    BY <2>1, <2>2 DEF Grows, Stored
<1> QED
  BY <1>2 DEF PullInv

\* A call that is left alone keeps its invariant, whatever is done to the rows.
LEMMA KeepStep ==
    ASSUME SupplierInv, RowsInv', Grows, NEW v \in Requests, req'[v] = req[v]
    PROVE  CallInv(req[v])'
<1>1. req[v] \in Calls /\ CallInv(req[v])
  BY DEF SupplierInv, CallsInv
<1>2. /\ Len(invoice) \in Nat /\ Len(expense) \in Nat
      /\ Len(invoice') \in Nat /\ Len(expense') \in Nat
  BY DEF SupplierInv, RowsInv
<1>3. req[v].row \in Nat /\ req[v].link \in Nat
  BY <1>1 DEF Calls
<1>4. req[v].step \in {"pull", "store"} => PullInv(req[v].todo)'
  <2> SUFFICES ASSUME req[v].step \in {"pull", "store"} PROVE PullInv(req[v].todo)'
    OBVIOUS
  <2>1. req[v].todo \in Seq(Marks) /\ PullInv(req[v].todo)
    BY <1>1 DEF Calls, CallInv
  <2>2. PICK todo \in Seq(Marks) : todo = req[v].todo
    BY <2>1
  <2>3. PullInv(todo)'
    BY <2>1, <2>2, PullKept
  <2> QED
    BY <2>2, <2>3
<1>5. req[v].row <= Len(invoice') /\ req[v].link <= Len(expense')
  BY <1>1, <1>2, <1>3 DEF CallInv, Grows
<1> QED
  BY <1>1, <1>4, <1>5 DEF CallInv

LEMMA CallStep ==
    ASSUME SupplierInv, RowsInv', Grows, NEW q \in Requests,
           req' \in [Requests -> Calls], CallInv(req[q])',
           \A v \in Requests : v # q => req'[v] = req[v]
    PROVE  CallsInv'
<1>1. ASSUME NEW v \in Requests PROVE CallInv(req[v])'
  BY KeepStep
<1> QED
  BY <1>1 DEF CallsInv

LEMMA FinishStep ==
    ASSUME SupplierInv, RowsInv', Grows, NEW q \in Requests, Finish(q)
    PROVE  CallsInv'
<1>1. req' = [req EXCEPT ![q] = Idle] /\ req \in [Requests -> Calls]
  BY DEF Finish, SupplierInv, CallsInv
<1>2. /\ req' \in [Requests -> Calls] /\ req'[q] = Idle
      /\ \A v \in Requests : v # q => req'[v] = req[v]
  BY <1>1, IdleFacts
<1>3. Len(invoice') \in Nat /\ Len(expense') \in Nat
  BY DEF RowsInv
<1>4. CallInv(req[q])'
  BY <1>2, <1>3, IdleFacts DEF CallInv
<1> QED
  BY <1>2, <1>4, CallStep

\* A row is added, of a mark that no row has.
LEMMA CreateStep ==
    ASSUME SupplierInv, NEW mark \in Marks \cup {NoMark}, NEW cents \in Int,
           NEW status \in {"DRAFT", "IMPORTED"}, Create(mark, cents, status),
           mark # NoMark => ~ Stored(mark), UNCHANGED expense
    PROVE  RowsInv' /\ UniqueInv' /\ Grows /\ Stored(mark)'
<1> DEFINE new == [mark |-> mark, cents |-> cents, status |-> status, expense |-> 0]
<1>1. /\ new \in Invoices /\ new.mark = mark /\ new.expense = 0
      /\ new.status # "MATCHED"
  BY DEF Invoices
<1>2. invoice' = Append(invoice, new) /\ invoice \in Seq(Invoices)
  BY DEF Create, SupplierInv, RowsInv
<1> HIDE DEF new
<1>3. /\ invoice' \in Seq(Invoices) /\ Len(invoice') = Len(invoice) + 1
      /\ Len(invoice) \in Nat
      /\ \A i \in 1..Len(invoice) : invoice'[i] = invoice[i]
      /\ invoice'[Len(invoice')] = new
  BY <1>1, <1>2
<1>4. RowsInv'
  BY <1>1, <1>3 DEF SupplierInv, RowsInv
<1>5. UniqueInv'
  BY <1>1, <1>2, <1>3 DEF SupplierInv, UniqueInv, Stored
<1>6. Grows /\ Stored(mark)'
  <2>1. /\ DOMAIN invoice = 1..Len(invoice) /\ DOMAIN invoice' = 1..Len(invoice')
        /\ Len(expense) \in Nat
    BY <1>2, <1>3 DEF SupplierInv, RowsInv
  <2>2. Stored(mark)'
    BY <1>1, <1>3, <2>1 DEF Stored
  <2>3. \A m : Stored(m) => Stored(m)'
    BY <1>3, <2>1 DEF Stored
  <2> QED
    BY <1>3, <2>1, <2>2, <2>3 DEF Grows
<1> QED
  BY <1>4, <1>5, <1>6

\* A row's status and link are written; the link is nobody else's.
LEMMA WriteStep ==
    ASSUME SupplierInv, NEW i \in 1..Len(invoice), NEW e \in 0..Len(expense'),
           NEW status \in {"MATCHED", "VOIDED"}, status = "MATCHED" => e # 0,
           invoice' = [invoice EXCEPT ![i].status = status, ![i].expense = e],
           expense' \in Seq(Expenses), Len(expense') >= Len(expense),
           e # 0 => \A j \in 1..Len(invoice) : j # i => invoice[j].expense # e
    PROVE  RowsInv' /\ UniqueInv' /\ Grows
<1> DEFINE new == [invoice[i] EXCEPT !.status = status, !.expense = e]
<1>1. invoice \in Seq(Invoices) /\ invoice[i] \in Invoices
      /\ Len(invoice) \in Nat /\ Len(expense) \in Nat /\ Len(expense') \in Nat
  BY DEF SupplierInv, RowsInv
<1>2. /\ new \in Invoices /\ new.mark = invoice[i].mark /\ new.expense = e
      /\ new.status = status
  <2>1. e \in Nat
    BY <1>1
  <2> QED
    BY <1>1, <2>1 DEF Invoices
<1>3. invoice' = [invoice EXCEPT ![i] = new]
  BY <1>1 DEF Invoices
<1> HIDE DEF new
<1>4. /\ invoice' \in Seq(Invoices) /\ Len(invoice') = Len(invoice)
      /\ DOMAIN invoice' = DOMAIN invoice
      /\ \A j \in 1..Len(invoice) : invoice'[j] = IF j = i THEN new ELSE invoice[j]
  <2>1. /\ invoice' \in Seq(Invoices) /\ Len(invoice') = Len(invoice)
        /\ \A j \in 1..Len(invoice) : invoice'[j] = IF j = i THEN new ELSE invoice[j]
    <3> DEFINE s == [invoice EXCEPT ![i] = new]
    <3> HIDE DEF s
    <3>1. /\ s \in Seq(Invoices) /\ Len(s) = Len(invoice)
          /\ \A j \in 1..Len(invoice) : s[j] = IF j = i THEN new ELSE invoice[j]
      BY <1>1, <1>2, ExceptSeq DEF s
    <3> QED
      BY <1>3, <3>1 DEF s
  <2>2. DOMAIN invoice' = 1..Len(invoice') /\ DOMAIN invoice = 1..Len(invoice)
    BY <1>1, <2>1
  <2> QED
    BY <2>1, <2>2
<1>5. \A j \in 1..Len(invoice) : invoice[j].expense \in Nat
  <2>1. \A j \in 1..Len(invoice) : invoice[j] \in Invoices
    BY <1>1
  <2> QED
    BY <2>1 DEF Invoices
<1>6. RowsInv'
  BY <1>1, <1>2, <1>4, <1>5 DEF SupplierInv, RowsInv
<1>7. UniqueInv'
  BY <1>2, <1>4 DEF SupplierInv, UniqueInv
<1>8. Grows
  BY <1>1, <1>2, <1>4 DEF Grows, Stored
<1> QED
  BY <1>6, <1>7, <1>8

\* The rows are left alone.
LEMMA RowsStep ==
    ASSUME SupplierInv, UNCHANGED <<invoice, expense>>
    PROVE  RowsInv' /\ UniqueInv' /\ Grows
<1>1. Len(invoice) \in Nat /\ Len(expense) \in Nat
  BY DEF SupplierInv, RowsInv
<1> QED
  BY <1>1 DEF SupplierInv, RowsInv, UniqueInv, Grows, Stored
-----------------------------------------------------------------------------
LEMMA ImportInv ==
    ASSUME SupplierInv, NEW cents \in Cents,
           ImportManual(cents) \/ ImportFromPdf(cents)
    PROVE  SupplierInv'
<1>1. cents \in Int /\ Create(NoMark, cents, "DRAFT") /\ UNCHANGED <<expense, req>>
  BY TotalAssumption DEF ImportManual, ImportFromPdf
<1>2. RowsInv' /\ UniqueInv' /\ Grows
  BY <1>1, CreateStep
<1>3. ASSUME NEW v \in Requests PROVE CallInv(req[v])'
  BY <1>1, <1>2, KeepStep
<1>4. CallsInv'
  BY <1>1, <1>3 DEF SupplierInv, CallsInv
<1> QED
  BY <1>2, <1>4 DEF SupplierInv

\* A call reads, and the rows are left alone.
LEMMA MoveStep ==
    ASSUME SupplierInv, UNCHANGED <<invoice, expense>>, NEW q \in Requests,
           NEW c \in Calls, CallInv(c), req' = [req EXCEPT ![q] = c]
    PROVE  SupplierInv'
<1>1. RowsInv' /\ UniqueInv' /\ Grows
  BY RowsStep
<1>2. /\ req' \in [Requests -> Calls] /\ req'[q] = c
      /\ \A v \in Requests : v # q => req'[v] = req[v]
  BY DEF SupplierInv, CallsInv
<1>3. CallInv(req[q])'
  BY <1>2 DEF CallInv, PullInv, Stored
<1> QED
  BY <1>1, <1>2, <1>3, CallStep DEF SupplierInv

LEMMA FailInv ==
    ASSUME SupplierInv, NEW q \in Requests, Fails(q) \/ PullEnds(q)
    PROVE  SupplierInv'
<1>1. RowsInv' /\ UniqueInv' /\ Grows
  BY RowsStep DEF Fails, PullEnds
<1>2. CallsInv'
  BY <1>1, FinishStep DEF Fails, PullEnds
<1> QED
  BY <1>1, <1>2 DEF SupplierInv

LEMMA JsonInv ==
    ASSUME SupplierInv, NEW q \in Requests,
           JsonCreates(q) \/ \E mark \in Marks : JsonReads(q, mark)
    PROVE  SupplierInv'
<1>1. ASSUME NEW mark \in Marks, JsonReads(q, mark) PROVE SupplierInv'
  <2> DEFINE c == [Idle EXCEPT !.step = "json", !.mark = mark]
  <2>1. Len(invoice) \in Nat /\ Len(expense) \in Nat
    BY DEF SupplierInv, RowsInv
  <2>2. c.step = "json" /\ c.mark = mark /\ c.row = 0 /\ c.link = 0 /\ c \in Calls
    BY IdleFacts DEF Calls
  <2>3. CallInv(c)
    BY <2>1, <2>2 DEF CallInv
  <2>4. req' = [req EXCEPT ![q] = c] /\ UNCHANGED <<invoice, expense>>
    BY <1>1 DEF JsonReads
  <2> HIDE DEF c
  <2> QED
    BY <2>2, <2>3, <2>4, MoveStep
<1>2. CASE JsonCreates(q)
  <2>1. Finish(q) /\ UNCHANGED expense
    BY <1>2 DEF JsonCreates
  <2>2. RowsInv' /\ UniqueInv' /\ Grows
    <3>1. CASE Stored(req[q].mark)
      BY <1>2, <3>1, RowsStep DEF JsonCreates
    <3>2. CASE ~ Stored(req[q].mark)
      <4>1. req[q].mark \in Marks \cup {NoMark}
        BY DEF SupplierInv, CallsInv, Calls
      <4>2. req[q].mark \in Marks /\ Total[req[q].mark] \in Int
        BY <1>2, TotalAssumption DEF JsonCreates, SupplierInv, CallsInv, CallInv
      <4> QED
        BY <1>2, <3>2, <4>1, <4>2, CreateStep DEF JsonCreates
    <3> QED
      BY <3>1, <3>2
  <2> QED
    BY <2>1, <2>2, FinishStep DEF SupplierInv
<1> QED
  BY <1>1, <1>2

-----------------------------------------------------------------------------
(***************************************************************************)
(* The pull                                                                  *)
(***************************************************************************)
\* A document that is stored is passed.
LEMMA PassStep ==
    ASSUME SupplierInv, RowsInv', UniqueInv', Grows, NEW q \in Requests,
           req[q].step \in {"pull", "store"}, req[q].todo # <<>>, PastFirst(q),
           NEW mark, mark = Head(req[q].todo), Stored(mark)'
    PROVE  SupplierInv'
<1>1. PICK todo : todo = req[q].todo
  OBVIOUS
<1>2. req[q] \in Calls /\ CallInv(req[q]) /\ todo \in Seq(Marks) /\ todo # <<>>
  BY <1>1 DEF SupplierInv, CallsInv, Calls
<1>3. /\ req' \in [Requests -> Calls]
      /\ req'[q].step = "pull" /\ req'[q].todo = Tail(todo)
      /\ req'[q].row = req[q].row /\ req'[q].link = req[q].link
      /\ \A v \in Requests : v # q => req'[v] = req[v]
  <2>1. Tail(todo) \in Seq(Marks)
    BY <1>2
  <2> QED
    BY <1>1, <1>2, <2>1 DEF PastFirst, SupplierInv, CallsInv, Calls
<1>4. PullInv(todo)
  BY <1>1, <1>2 DEF CallInv
<1>5. /\ Len(Feed) \in Nat /\ Len(todo) \in Nat /\ Len(todo) > 0
      /\ Len(Tail(todo)) = Len(todo) - 1 /\ Head(todo) = todo[1]
      /\ \A k \in 1..Len(Tail(todo)) : Tail(todo)[k] = todo[k + 1]
  BY <1>2, FeedAssumption
<1>6. Head(todo) = Feed[Len(Feed) - Len(Tail(todo))]
  BY <1>4, <1>5 DEF PullInv
<1>7. PullInv(Tail(todo))'
  <2>1. ASSUME NEW k \in 1..(Len(Feed) - Len(Tail(todo))) PROVE Stored(Feed[k])'
    <3>1. CASE k = Len(Feed) - Len(Tail(todo))
      <4>1. Feed[k] = mark
        BY <1>1, <1>6, <3>1
      <4> QED
        BY <4>1
    <3>2. CASE k # Len(Feed) - Len(Tail(todo))
      <4>1. k \in 1..(Len(Feed) - Len(todo))
        BY <1>5, <3>2
      <4>2. PullInv(todo)'
        BY <1>2, <1>4, PullKept
      <4> QED
        BY <4>1, <4>2 DEF PullInv
    <3> QED
      BY <3>1, <3>2
  <2>2. ASSUME NEW k \in 1..Len(Tail(todo))
        PROVE  Tail(todo)[k] = Feed[Len(Feed) - Len(Tail(todo)) + k]
    <3>1. k + 1 \in 1..Len(todo)
      BY <1>5
    <3>2. todo[k + 1] = Feed[Len(Feed) - Len(todo) + (k + 1)]
      BY <1>4, <3>1 DEF PullInv
    <3>3. k \in Nat /\ Len(todo) \in Nat /\ Len(Tail(todo)) = Len(todo) - 1
      BY <1>5
    <3>4. \A f, n, m \in Nat : f - n + (m + 1) = f - (n - 1) + m
      OBVIOUS
    <3>5. Len(Feed) - Len(todo) + (k + 1) = Len(Feed) - (Len(todo) - 1) + k
      BY <1>5, <3>3, <3>4
    <3> QED
      BY <1>5, <3>2, <3>4, <3>5
  <2>3. Len(Tail(todo)) <= Len(Feed)
    BY <1>4, <1>5 DEF PullInv
  <2> QED
    BY <2>1, <2>2, <2>3 DEF PullInv
<1>8. CallInv(req[q])'
  <2>1. req'[q].row <= Len(invoice') /\ req'[q].link <= Len(expense')
    BY <1>2, <1>3 DEF CallInv, Grows, SupplierInv, RowsInv, Calls
  <2> QED
    BY <1>3, <1>7, <2>1 DEF CallInv
<1> QED
  BY <1>3, <1>8, CallStep DEF SupplierInv

LEMMA PullStepInv ==
    ASSUME SupplierInv, NEW q \in Requests,
           PullStarts(q) \/ PullReads(q) \/ PullCreates(q)
    PROVE  SupplierInv'
<1>1. CASE PullStarts(q)
  <2> DEFINE c == [Idle EXCEPT !.step = "pull", !.todo = Feed]
  <2>1. /\ c.step = "pull" /\ c.todo = Feed /\ c.row = 0 /\ c.link = 0
        /\ c \in Calls
    BY IdleFacts, FeedAssumption DEF Calls
  <2>2. req' = [req EXCEPT ![q] = c] /\ UNCHANGED <<invoice, expense>>
    BY <1>1 DEF PullStarts
  <2> HIDE DEF c
  <2>3. PullInv(Feed)
    BY FeedAssumption DEF PullInv
  <2>4. CallInv(c)
    BY <2>1, <2>3 DEF CallInv, SupplierInv, RowsInv
  <2> QED
    BY <2>1, <2>2, <2>4, MoveStep
<1>2. CASE PullReads(q)
  <2>1. req[q].step = "pull" /\ req[q].todo # <<>> /\ UNCHANGED <<invoice, expense>>
    BY <1>2 DEF PullReads
  <2>2. CASE Stored(Head(req[q].todo))
    <3>1. PastFirst(q) /\ RowsInv' /\ UniqueInv' /\ Grows
      BY <1>2, <2>1, <2>2, RowsStep DEF PullReads
    <3>2. PICK mark : mark = Head(req[q].todo)
      OBVIOUS
    <3>3. Stored(mark)'
      BY <2>1, <2>2, <3>2 DEF Stored
    <3> QED
      BY <2>1, <3>1, <3>2, <3>3, PassStep
  <2>3. CASE ~ Stored(Head(req[q].todo))
    <3> DEFINE c == [req[q] EXCEPT !.step = "store"]
    <3>1. req' = [req EXCEPT ![q] = c] /\ req[q] \in Calls /\ CallInv(req[q])
      BY <1>2, <2>3 DEF PullReads, Goes, SupplierInv, CallsInv
    <3>2. /\ c \in Calls /\ c.step = "store" /\ c.todo = req[q].todo
          /\ c.row = req[q].row /\ c.link = req[q].link
      BY <3>1 DEF Calls
    <3> HIDE DEF c
    <3>3. CallInv(c)
      BY <2>1, <3>1, <3>2 DEF CallInv
    <3> QED
      BY <2>1, <3>1, <3>2, <3>3, MoveStep
  <2> QED
    BY <2>2, <2>3
<1>3. CASE PullCreates(q)
  <2>1. /\ req[q].step = "store" /\ req[q].todo # <<>> /\ req[q].todo \in Seq(Marks)
        /\ PastFirst(q) /\ UNCHANGED expense
    BY <1>3 DEF PullCreates, SupplierInv, CallsInv, CallInv, Calls
  <2>2. PICK mark \in Marks : mark = Head(req[q].todo)
    BY <2>1
  <2>3. RowsInv' /\ UniqueInv' /\ Grows /\ Stored(mark)'
    <3>1. CASE Stored(mark)
      <4>1. UNCHANGED invoice
        BY <1>3, <2>2, <3>1 DEF PullCreates
      <4> QED
        BY <2>1, <3>1, <4>1, RowsStep DEF Stored
    <3>2. CASE ~ Stored(mark)
      <4>1. Create(mark, Total[mark], "IMPORTED") /\ Total[mark] \in Int
        BY <1>3, <2>2, <3>2, TotalAssumption DEF PullCreates
      <4> QED
        BY <2>1, <3>2, <4>1, CreateStep
    <3> QED
      BY <3>1, <3>2
  <2> QED
    BY <2>1, <2>2, <2>3, PassStep
<1> QED
  BY <1>1, <1>2, <1>3

-----------------------------------------------------------------------------
(***************************************************************************)
(* Matching and voiding                                                      *)
(***************************************************************************)
LEMMA ChoiceInv ==
    ASSUME SupplierInv, NEW q \in Requests, NEW i \in DOMAIN invoice,
           VoidReads(q, i) \/ \E e \in {0} \cup DOMAIN expense : MatchReads(q, i, e)
    PROVE  SupplierInv'
<1>1. /\ i \in 1..Len(invoice) /\ DOMAIN expense = 1..Len(expense)
      /\ Len(invoice) \in Nat /\ Len(expense) \in Nat
  BY DEF SupplierInv, RowsInv
<1>2. CASE VoidReads(q, i)
  <2> DEFINE c == [Idle EXCEPT !.step = "void", !.row = i]
  <2>1. c \in Calls /\ c.step = "void" /\ c.row = i /\ c.link = 0
    <3>1. i \in Nat
      BY <1>1
    <3> QED
      BY <3>1, IdleFacts DEF Calls
  <2>2. req' = [req EXCEPT ![q] = c] /\ UNCHANGED <<invoice, expense>>
    BY <1>2 DEF VoidReads
  <2> HIDE DEF c
  <2>3. CallInv(c)
    BY <1>1, <2>1 DEF CallInv
  <2> QED
    BY <2>1, <2>2, <2>3, MoveStep
<1>3. ASSUME NEW e \in {0} \cup DOMAIN expense, MatchReads(q, i, e)
      PROVE  SupplierInv'
  <2> DEFINE step == IF e = 0 THEN "auto" ELSE "link"
             c == [Idle EXCEPT !.step = step, !.row = i, !.link = e]
  <2>1. c \in Calls /\ c.step = step /\ c.row = i /\ c.link = e
    <3>1. i \in Nat /\ e \in Nat
      BY <1>1
    <3> QED
      BY <3>1, IdleFacts DEF Calls
  <2>2. req' = [req EXCEPT ![q] = c] /\ UNCHANGED <<invoice, expense>>
    BY <1>3 DEF MatchReads
  <2> HIDE DEF c
  <2>3. CallInv(c)
    BY <1>1, <2>1 DEF CallInv
  <2> QED
    BY <2>1, <2>2, <2>3, MoveStep
<1> QED
  BY <1>2, <1>3

\* The row a call is to write is there.
LEMMA RowFacts ==
    ASSUME SupplierInv, NEW q \in Requests,
           req[q].step \in {"auto", "link", "void"}
    PROVE  /\ req[q].row \in 1..Len(invoice)
           /\ invoice[req[q].row] \in Invoices
           /\ req[q].step = "link" => req[q].link \in 1..Len(expense)
<1>1. /\ req[q].row \in Nat /\ req[q].link \in Nat /\ req[q].row # 0
      /\ req[q].row <= Len(invoice) /\ req[q].link <= Len(expense)
      /\ req[q].step = "link" => req[q].link # 0
  BY DEF SupplierInv, CallsInv, CallInv, Calls
<1>2. /\ Len(invoice) \in Nat /\ Len(expense) \in Nat
      /\ \A i \in 1..Len(invoice) : invoice[i] \in Invoices
  BY DEF SupplierInv, RowsInv
<1> QED
  BY <1>1, <1>2

LEMMA WritesInv ==
    ASSUME SupplierInv, NEW q \in Requests,
           LinkWrites(q) \/ AutoCommits(q) \/ VoidWrites(q)
    PROVE  SupplierInv'
<1> DEFINE i == req[q].row
<1>1. Finish(q) /\ req[q].step \in {"auto", "link", "void"}
  BY DEF LinkWrites, AutoCommits, VoidWrites
<1>2. /\ i \in 1..Len(invoice) /\ invoice[i] \in Invoices
      /\ req[q].step = "link" => req[q].link \in 1..Len(expense)
  BY <1>1, RowFacts
<1>3. /\ invoice \in Seq(Invoices) /\ DOMAIN invoice = 1..Len(invoice)
      /\ expense \in Seq(Expenses) /\ Len(expense) \in Nat
      /\ \A j \in 1..Len(invoice) : invoice[j] \in Invoices
      /\ \A j \in 1..Len(invoice) : invoice[j].expense <= Len(expense)
  BY DEF SupplierInv, RowsInv
<1> HIDE DEF i
<1>4. RowsInv' /\ UniqueInv' /\ Grows
  <2>1. CASE LinkWrites(q)
    <3>1. /\ req[q].link \in 1..Len(expense) /\ UNCHANGED expense
          /\ invoice' = [invoice EXCEPT ![i].status = "MATCHED",
                                        ![i].expense = req[q].link]
          /\ \A j \in 1..Len(invoice) : j # i => invoice[j].expense # req[q].link
      BY <1>2, <1>3, <2>1 DEF LinkWrites, Match, i
    <3>2. PICK e \in 0..Len(expense') : e = req[q].link /\ e # 0
      BY <1>3, <3>1
    <3>3. expense' \in Seq(Expenses) /\ Len(expense') >= Len(expense)
      BY <1>3, <3>1
    <3>4. invoice' = [invoice EXCEPT ![i].status = "MATCHED", ![i].expense = e]
      BY <3>1, <3>2
    <3> QED
      BY <1>2, <3>1, <3>2, <3>3, <3>4, WriteStep
  <2>2. CASE AutoCommits(q)
    <3> DEFINE cents == invoice[i].cents
               new == [cents |-> cents, shares |-> Split(Weights, cents)]
    <3>1. /\ expense' = Append(expense, new)
          /\ invoice' = [invoice EXCEPT ![i].status = "MATCHED",
                                        ![i].expense = Len(expense) + 1]
      BY <2>2 DEF AutoCommits, Match, i
    <3>2. new \in Expenses
      BY <1>2 DEF Invoices, Expenses
    <3> HIDE DEF new
    <3>3. expense' \in Seq(Expenses) /\ Len(expense') = Len(expense) + 1
      BY <1>3, <3>1, <3>2
    <3>4. \A j \in 1..Len(invoice) : invoice[j].expense # Len(expense) + 1
      <4>1. \A j \in 1..Len(invoice) : invoice[j].expense \in Nat
        BY <1>3 DEF Invoices
      <4> QED
        BY <1>3, <4>1
    <3>5. PICK e \in 0..Len(expense') : e = Len(expense) + 1 /\ e # 0
      BY <1>3, <3>3
    <3>6. Len(expense') >= Len(expense)
      BY <1>3, <3>3
    <3> QED
      BY <1>2, <3>1, <3>3, <3>4, <3>5, <3>6, WriteStep
  <2>3. CASE VoidWrites(q)
    <3>1. /\ invoice' = [invoice EXCEPT ![i].status = "VOIDED"] /\ UNCHANGED expense
      BY <2>3 DEF VoidWrites, i
    <3>2. PICK e \in 0..Len(expense') : e = invoice[i].expense
      BY <1>2, <1>3, <3>1 DEF Invoices
    <3>3. invoice' = [invoice EXCEPT ![i].status = "VOIDED", ![i].expense = e]
      BY <1>2, <1>3, <3>1, <3>2 DEF Invoices
    <3>4. e # 0 => \A j \in 1..Len(invoice) : j # i => invoice[j].expense # e
      BY <1>2, <3>2 DEF SupplierInv, UniqueInv
    <3>5. expense' \in Seq(Expenses) /\ Len(expense') >= Len(expense)
      BY <1>3, <3>1
    <3> QED
      BY <1>2, <3>3, <3>4, <3>5, WriteStep
  <2> QED
    BY <2>1, <2>2, <2>3
<1>5. CallsInv'
  BY <1>1, <1>4, FinishStep
<1> QED
  BY <1>4, <1>5 DEF SupplierInv

LEMMA NextInv == SupplierInv /\ [Next]_vars => SupplierInv'
<1>1. ASSUME SupplierInv, UNCHANGED vars PROVE SupplierInv'
  <2>1. RowsInv' /\ UniqueInv' /\ Grows
    BY <1>1, RowsStep DEF vars
  <2>2. ASSUME NEW v \in Requests PROVE CallInv(req[v])'
    BY <1>1, <2>1, KeepStep DEF vars
  <2> QED
    BY <1>1, <2>1, <2>2 DEF vars, SupplierInv, CallsInv
<1> QED
  BY <1>1, ImportInv, JsonInv, PullStepInv, FailInv, ChoiceInv, WritesInv DEF Next

\* The inductive invariant: no row is ever removed, so what a call has read of
\* them, and passed, is still there.
THEOREM Invariance == Spec => []SupplierInv
  BY InitInv, NextInv, PTL DEF Spec
-----------------------------------------------------------------------------
\* One row per mark, one invoice per expense, and a MATCHED invoice has its
\* expense, whichever calls overlap (matchToExpense, voidInvoice, pullFromMyData).
THEOREM TypeCorrect == Spec => []TypeOK
<1>1. SupplierInv => TypeOK
  <2> SUFFICES ASSUME SupplierInv PROVE TypeOK
    OBVIOUS
  <2>1. /\ DOMAIN invoice = 1..Len(invoice)
        /\ Len(expense) \in Nat /\ Len(invoice) \in Nat
        /\ \A i \in 1..Len(invoice) : invoice[i] \in Invoices
    BY DEF SupplierInv, RowsInv
  <2>2. \A i \in DOMAIN invoice :
          /\ invoice[i].mark \in Marks \cup {NoMark}
          /\ invoice[i].status \in {"DRAFT", "IMPORTED", "MATCHED", "VOIDED"}
          /\ invoice[i].expense \in 0..Len(expense)
          /\ invoice[i].status = "MATCHED" => invoice[i].expense # 0
    BY <2>1 DEF SupplierInv, RowsInv, Invoices
  <2>3. \A i, j \in DOMAIN invoice : i # j =>
          /\ invoice[i].mark # NoMark => invoice[i].mark # invoice[j].mark
          /\ invoice[i].expense # 0 => invoice[i].expense # invoice[j].expense
    BY <2>1 DEF SupplierInv, UniqueInv
  <2>4. \A q \in Requests :
          /\ req[q].step \in {"idle", "json", "pull", "store", "auto", "link", "void"}
          /\ req[q].row \in 0..Len(invoice) /\ req[q].link \in 0..Len(expense)
    BY <2>1 DEF SupplierInv, CallsInv, CallInv, Calls
  <2> QED
    BY <2>2, <2>3, <2>4 DEF TypeOK
<1> QED
  BY <1>1, Invariance, PTL

\* A pull never passes a document that is not stored, whatever imports and pulls
\* run beside it and whatever fails (pullFromMyData).
THEOREM NothingLeftOut == Spec => []PullLeavesNothingOut
<1>1. SupplierInv => PullLeavesNothingOut
  BY DEF SupplierInv, CallsInv, CallInv, PullInv, PullLeavesNothingOut
<1> QED
  BY <1>1, Invariance, PTL
-----------------------------------------------------------------------------
(***************************************************************************)
(* A match stands                                                            *)
(***************************************************************************)
AtRow == {"auto", "link", "void"}

\* What a call has read of the row it is to write holds of the row.
StillThere(i) ==
    \A q \in At(i) :
        /\ req[q].step \in {"auto", "link"} => Matchable(i)
        /\ req[q].step = "void" => invoice[i].status # "VOIDED"

RaceInv ==
    \A i \in DOMAIN invoice :
        /\ Cardinality(At(i)) > 1 => i \in raced
        /\ i \notin raced => StillThere(i)

AutoInv ==
    \A q \in Requests :
        req[q].step = "auto" => invoice[req[q].row].cents >= 0

\* Expense e was made from invoice i.
Made(i, e) ==
    /\ invoice[i].expense = e
    /\ expense[e].cents = invoice[i].cents
    /\ SumFunction(expense[e].shares) = expense[e].cents

MadeInv ==
    /\ made \in Seq(Nat) /\ Len(made) + 1 = Len(expense)
    /\ \A k \in 1..Len(made) :
          /\ made[k] \in 1..Len(invoice)
          /\ made[k] \notin raced => Made(made[k], k + 1)

HistoryInv == SupplierInv /\ RaceInv /\ AutoInv /\ MadeInv

hvars == <<vars, raced, made>>

LEMMA InitHistory == MCInit => HistoryInv
<1> SUFFICES ASSUME MCInit PROVE HistoryInv
  OBVIOUS
<1>1. SupplierInv
  BY InitInv DEF MCInit
<1>2. /\ invoice = <<>> /\ Len(expense) = 1 /\ made = <<>>
      /\ \A q \in Requests : req[q].step = "idle"
  BY DEF MCInit, Init, Idle
<1>3. MadeInv
  BY <1>2 DEF MadeInv
<1> QED
  BY <1>1, <1>2, <1>3 DEF HistoryInv, RaceInv, AutoInv

LEMMA TwoAt ==
    ASSUME NEW i, NEW q \in At(i), NEW v \in At(i), q # v
    PROVE  Cardinality(At(i)) > 1
<1>1. At(i) \in SUBSET Requests /\ IsFiniteSet(At(i))
  BY RequestsAssumption, FS_Subset DEF At
<1>2. PICK S, x, y : S = At(i) /\ x = q /\ y = v
  OBVIOUS
<1>3. IsFiniteSet(S) /\ x \in S /\ y \in S \ {x}
  BY <1>1, <1>2
<1>4. /\ IsFiniteSet(S \ {x})
      /\ Cardinality(S \ {x}) = IF x \in S THEN Cardinality(S) - 1 ELSE Cardinality(S)
  BY <1>3, FS_RemoveElement
<1>5. Cardinality(S \ {x}) \in Nat /\ Cardinality(S \ {x}) # 0 /\ Cardinality(S) \in Nat
  BY <1>3, <1>4, FS_EmptySet, FS_CardinalityType
<1> QED
  BY <1>2, <1>3, <1>4, <1>5

\* The only call at a row that is not raced.
LEMMA OneAt ==
    ASSUME RaceInv, NEW i \in DOMAIN invoice, i \notin raced,
           NEW q \in Requests, req[q].step \in AtRow, req[q].row = i
    PROVE  At(i) = {q}
<1>1. q \in At(i)
  BY DEF At, AtRow
<1> QED
  BY <1>1, TwoAt DEF RaceInv

\* A call goes on from what it was, ends, or reads a row.
CallMoves ==
    \A v \in Requests :
        \/ req'[v] = req[v]
        \/ req'[v].step \notin AtRow
        \/ LET i == req'[v].row IN
           /\ i \in DOMAIN invoice
           /\ req'[v].step \in {"auto", "link"} => Matchable(i)
           /\ req'[v].step = "void" => invoice[i].status # "VOIDED"
           /\ req'[v].step = "auto" => invoice[i].cents >= 0

LEMMA FinishMoves ==
    ASSUME SupplierInv, NEW q \in Requests, Finish(q)
    PROVE  CallMoves
  BY DEF SupplierInv, CallsInv, Finish, CallMoves, Idle, AtRow

Writes(q) == LinkWrites(q) \/ AutoCommits(q) \/ VoidWrites(q)

\* What a step does: rows stay, one is added, or a call writes its own.
LEMMA StepShape ==
    ASSUME SupplierInv, Next
    PROVE  \/ UNCHANGED <<invoice, expense>> /\ CallMoves
           \/ /\ UNCHANGED expense /\ CallMoves
              /\ \E new \in Invoices : invoice' = Append(invoice, new)
           \/ \E q \in Requests : Writes(q)
<1> DEFINE Shape == \/ UNCHANGED <<invoice, expense>> /\ CallMoves
                    \/ /\ UNCHANGED expense /\ CallMoves
                       /\ \E new \in Invoices : invoice' = Append(invoice, new)
<1>1. req \in [Requests -> Calls]
  BY DEF SupplierInv, CallsInv
<1>2. ASSUME NEW mark \in Marks \cup {NoMark}, NEW cents \in Int,
             NEW status \in {"DRAFT", "IMPORTED"}, Create(mark, cents, status)
      PROVE  \E new \in Invoices : invoice' = Append(invoice, new)
  BY <1>2 DEF Create, Invoices
<1>3. ASSUME NEW cents \in Cents, ImportManual(cents) \/ ImportFromPdf(cents)
      PROVE  Shape
  <2>1. /\ cents \in Int /\ Create(NoMark, cents, "DRAFT")
        /\ UNCHANGED <<expense, req>>
    BY <1>3, TotalAssumption DEF ImportManual, ImportFromPdf
  <2> QED
    BY <1>2, <2>1 DEF CallMoves
<1>4. ASSUME NEW q \in Requests, NEW mark \in Marks, JsonReads(q, mark)
      PROVE  Shape
  BY <1>1, <1>4 DEF JsonReads, CallMoves, Idle, AtRow
<1>5. ASSUME NEW q \in Requests, JsonCreates(q) PROVE Shape
  <2>1. UNCHANGED expense /\ CallMoves
    BY <1>5, FinishMoves DEF JsonCreates
  <2>2. req[q].mark \in Marks /\ Total[req[q].mark] \in Int
    BY <1>5, TotalAssumption DEF JsonCreates, SupplierInv, CallsInv, CallInv
  <2>3. UNCHANGED invoice \/ Create(req[q].mark, Total[req[q].mark], "IMPORTED")
    BY <1>5 DEF JsonCreates
  <2> QED
    BY <1>2, <2>1, <2>2, <2>3
<1>6. ASSUME NEW q \in Requests, PullStarts(q) \/ PullReads(q) PROVE Shape
  <2>1. UNCHANGED <<invoice, expense>>
    BY <1>6 DEF PullStarts, PullReads
  <2>2. CallMoves
    BY <1>1, <1>6 DEF PullStarts, PullReads, PastFirst, Goes, CallMoves, Calls, Idle,
                      AtRow
  <2> QED
    BY <2>1, <2>2
<1>7. ASSUME NEW q \in Requests, PullCreates(q) PROVE Shape
  <2>1. PICK mark : mark = Head(req[q].todo)
    OBVIOUS
  <2>2. UNCHANGED expense /\ PastFirst(q)
    BY <1>7 DEF PullCreates
  <2>3. CallMoves
    BY <1>1, <2>2 DEF PastFirst, CallMoves, Calls, AtRow
  <2>4. mark \in Marks /\ Total[mark] \in Int
    <3>1. req[q].todo # <<>> /\ req[q].todo \in Seq(Marks)
      BY <1>7 DEF PullCreates, SupplierInv, CallsInv, CallInv, Calls
    <3> QED
      BY <2>1, <3>1, TotalAssumption
  <2>5. UNCHANGED invoice \/ Create(mark, Total[mark], "IMPORTED")
    BY <1>7, <2>1 DEF PullCreates
  <2> QED
    BY <1>2, <2>2, <2>3, <2>4, <2>5
<1>8. ASSUME NEW q \in Requests, PullEnds(q) \/ Fails(q) PROVE Shape
  BY <1>8, FinishMoves DEF PullEnds, Fails
<1>9. ASSUME NEW q \in Requests, NEW i \in DOMAIN invoice,
             VoidReads(q, i) \/ \E e \in {0} \cup DOMAIN expense : MatchReads(q, i, e)
      PROVE  Shape
  <2>1. UNCHANGED <<invoice, expense>>
    BY <1>9 DEF VoidReads, MatchReads
  <2>2. CASE VoidReads(q, i)
    <3>1. /\ \A v \in Requests : v # q => req'[v] = req[v]
          /\ req'[q].step = "void" /\ req'[q].row = i
          /\ invoice[i].status # "VOIDED"
      BY <1>1, <2>2 DEF VoidReads, Idle
    <3> QED
      BY <2>1, <3>1 DEF CallMoves
  <2>3. ASSUME NEW e \in {0} \cup DOMAIN expense, MatchReads(q, i, e)
        PROVE  CallMoves
    <3>1. /\ \A v \in Requests : v # q => req'[v] = req[v]
          /\ req'[q].step = (IF e = 0 THEN "auto" ELSE "link") /\ req'[q].row = i
          /\ Matchable(i) /\ (e = 0 => invoice[i].cents >= 0)
      BY <1>1, <2>3 DEF MatchReads, Idle
    <3> QED
      BY <3>1 DEF CallMoves
  <2> QED
    BY <1>9, <2>1, <2>2, <2>3
<1> HIDE DEF Shape
<1> QED
  <2>1. Shape \/ \E q \in Requests : Writes(q)
    BY <1>3, <1>4, <1>5, <1>6, <1>7, <1>8, <1>9 DEF Next, Writes
  <2> QED
    BY <2>1 DEF Shape

LEMMA WeightsFact == Weighted(Weights)
<1> DEFINE D == DOMAIN Millimes
<1>1. IsFiniteSet(D) /\ D # {} /\ D \in SUBSET Nat /\ DOMAIN Weights = D
  BY MillimesAssumption DEF Weights
<1>2. \A u \in D : Weights[u] \in Nat /\ Weights[u] > 0
  <2>1. \A u \in D : Millimes[u] \in Int
    BY MillimesAssumption
  <2> QED
    BY <2>1 DEF Weights
<1>3. Weights \in [D -> Nat]
  BY <1>1, <1>2 DEF Weights
<1>4. PICK one : one \in D
  BY <1>1
<1>5. PICK w : w = Weights
  OBVIOUS
<1>6. SumFunctionOnSet(w, D) > 0
  <2>1. \A u \in D : w[u] \in Nat /\ w[u] \in Int
    BY <1>2, <1>5
  <2>2. PICK E, x : E = D /\ x = one
    OBVIOUS
  <2>3. /\ IsFiniteSet(E) /\ x \in E
        /\ \A u \in E : w[u] \in Nat /\ w[u] \in Int
    BY <1>1, <1>4, <2>1, <2>2
  <2>4. SumFunctionOnSet(w, E) = w[x] + SumFunctionOnSet(w, E \ {x})
    BY <2>3, SumRemove
  <2>5. IsFiniteSet(E \ {x}) /\ \A u \in E \ {x} : w[u] \in Nat
    BY <2>3, FS_Subset
  <2>6. SumFunctionOnSet(w, E \ {x}) \in Nat
    BY <2>5, SumNat
  <2>7. w[x] \in Nat /\ w[x] > 0
    BY <1>2, <1>4, <1>5, <2>2
  <2>8. SumFunctionOnSet(w, E) > 0
    BY <2>4, <2>6, <2>7
  <2> QED
    BY <2>2, <2>8
<1> QED
  BY <1>1, <1>3, <1>5, <1>6 DEF Weighted, SumFunction

LEMMA RacedFact ==
    ASSUME Record
    PROVE  /\ \A i : i \notin raced' => i \notin raced
           /\ \A i \in DOMAIN invoice' : Cardinality(At(i)') > 1 => i \in raced'
<1>1. raced' = raced \cup {i \in DOMAIN invoice' : Cardinality(At(i)') > 1}
  BY DEF Record
<1> QED
  BY <1>1

\* Rows that are there stay in the steps that write none, and what is raced
\* stays raced.
LEMMA QuietHistory ==
    ASSUME HistoryInv, SupplierInv', CallMoves, Record, UNCHANGED expense,
           \/ UNCHANGED invoice
           \/ \E new \in Invoices : invoice' = Append(invoice, new)
    PROVE  /\ HistoryInv'
           /\ \A i \in DOMAIN invoice : invoice'[i] = invoice[i]
           /\ UNCHANGED made
<1>1. /\ invoice \in Seq(Invoices) /\ DOMAIN invoice = 1..Len(invoice)
      /\ Len(invoice) \in Nat
      /\ \A q \in Requests : req[q] \in Calls /\ CallInv(req[q])
  BY DEF HistoryInv, SupplierInv, RowsInv, CallsInv
<1>2. /\ DOMAIN invoice' = 1..Len(invoice') /\ Len(invoice') \in Nat
      /\ Len(invoice') >= Len(invoice)
      /\ \A i \in DOMAIN invoice : invoice'[i] = invoice[i]
  BY <1>1 DEF SupplierInv, RowsInv
<1>3. /\ \A i \in DOMAIN invoice : i \in DOMAIN invoice'
      /\ UNCHANGED made
      /\ \A i \in DOMAIN invoice : i \notin raced' => i \notin raced
      /\ \A i \in DOMAIN invoice' : Cardinality(At(i)') > 1 => i \in raced'
  <2>1. UNCHANGED made
    BY DEF Record
  <2>2. \A i \in DOMAIN invoice : i \in DOMAIN invoice'
    <3>1. \A m, n \in Nat : m <= n => \A k \in 1..m : k \in 1..n
      OBVIOUS
    <3>2. \A k \in 1..Len(invoice) : k \in 1..Len(invoice')
      BY <1>1, <1>2, <3>1
    <3> QED
      BY <1>1, <1>2, <3>2
  <2> QED
    BY <2>1, <2>2, RacedFact
<1>4. RaceInv'
  <2>1. ASSUME NEW i \in DOMAIN invoice', i \notin raced', NEW q \in Requests,
               req'[q].step \in AtRow, req'[q].row = i
        PROVE  /\ req'[q].step \in {"auto", "link"} => Matchable(i)'
               /\ req'[q].step = "void" => invoice'[i].status # "VOIDED"
    <3>1. CASE req'[q] = req[q]
      <4>1. i \in DOMAIN invoice
        BY <1>1, <2>1, <3>1 DEF CallInv, Calls, AtRow
      <4>2. q \in At(i) /\ StillThere(i)
        BY <1>3, <2>1, <3>1, <4>1 DEF HistoryInv, RaceInv, At, AtRow
      <4> QED
        BY <1>2, <3>1, <4>1, <4>2 DEF StillThere, Matchable
    <3>2. CASE req'[q] # req[q]
      BY <1>2, <2>1, <3>2 DEF CallMoves, Matchable
    <3> QED
      BY <3>1, <3>2
  <2>2. ASSUME NEW i \in DOMAIN invoice', i \notin raced'
        PROVE  StillThere(i)'
    <3>1. ASSUME NEW q \in At(i)'
          PROVE  q \in Requests /\ req'[q].step \in AtRow /\ req'[q].row = i
      BY <3>1 DEF At, AtRow
    <3> QED
      BY <2>1, <2>2, <3>1 DEF StillThere
  <2> QED
    BY <1>3, <2>2 DEF RaceInv
<1>5. AutoInv'
  <2> SUFFICES ASSUME NEW q \in Requests, req'[q].step = "auto"
               PROVE  invoice'[req'[q].row].cents >= 0
    BY DEF AutoInv
  <2>1. CASE req'[q] = req[q]
    <3>1. req[q].row \in DOMAIN invoice
      BY <1>1, <2>1 DEF CallInv, Calls
    <3> QED
      BY <1>2, <2>1, <3>1 DEF HistoryInv, AutoInv
  <2>2. CASE req'[q] # req[q]
    BY <1>2, <2>2 DEF CallMoves, AtRow
  <2> QED
    BY <2>1, <2>2
<1>6. MadeInv'
  <2>1. made \in Seq(Nat) /\ Len(made) + 1 = Len(expense)
    BY DEF HistoryInv, MadeInv
  <2>2. ASSUME NEW k \in 1..Len(made)
        PROVE  /\ made[k] \in 1..Len(invoice')
               /\ made[k] \notin raced' => Made(made[k], k + 1)'
    <3>1. made[k] \in DOMAIN invoice
      BY <1>1 DEF HistoryInv, MadeInv
    <3>2. made[k] \notin raced => Made(made[k], k + 1)
      BY DEF HistoryInv, MadeInv
    <3>3. Made(made[k], k + 1) => Made(made[k], k + 1)'
      BY <1>2, <1>3, <3>1 DEF Made
    <3> QED
      BY <1>2, <1>3, <3>1, <3>2, <3>3
  <2> QED
    BY <1>3, <2>1, <2>2 DEF MadeInv
<1> QED
  BY <1>2, <1>3, <1>4, <1>5, <1>6 DEF HistoryInv

\* Unless it is raced, a row is as the call that writes it has read it, and of
\* what was made nothing is lost.
LEMMA WriteHistory ==
    ASSUME HistoryInv, SupplierInv', NEW q \in Requests, Writes(q), Record
    PROVE  /\ HistoryInv'
           /\ \A i \in DOMAIN invoice : i \notin raced' =>
                 /\ invoice[i].status = "VOIDED" => invoice'[i] = invoice[i]
                 /\ invoice[i].status = "MATCHED" =>
                       /\ invoice'[i].status \in {"MATCHED", "VOIDED"}
                       /\ invoice'[i].expense = invoice[i].expense
<1>1. PICK i : i = req[q].row
  OBVIOUS
<1>2. Finish(q) /\ req[q].step \in AtRow
  BY DEF Writes, LinkWrites, AutoCommits, VoidWrites, AtRow
<1>3. /\ SupplierInv /\ invoice \in Seq(Invoices) /\ expense \in Seq(Expenses)
      /\ DOMAIN invoice = 1..Len(invoice) /\ DOMAIN expense = 1..Len(expense)
      /\ Len(invoice) \in Nat /\ Len(expense) \in Nat
      /\ \A v \in Requests : req[v] \in Calls /\ CallInv(req[v])
      /\ \A j \in DOMAIN invoice : invoice[j] \in Invoices
  BY DEF HistoryInv, SupplierInv, RowsInv, CallsInv
<1>4. i \in DOMAIN invoice
  BY <1>1, <1>2, <1>3, RowFacts DEF AtRow
<1>5. /\ \A v \in Requests : req'[v] = IF v = q THEN Idle ELSE req[v]
      /\ req'[q].step = "idle"
  BY <1>2, IdleFacts DEF Finish, HistoryInv, SupplierInv, CallsInv
<1>6. /\ \A j : j \notin raced' => j \notin raced
      /\ \A j \in DOMAIN invoice' : Cardinality(At(j)') > 1 => j \in raced'
  BY RacedFact
\* The row that is written.
<1>7. /\ DOMAIN invoice' = DOMAIN invoice
      /\ \A j \in DOMAIN invoice : j # i => invoice'[j] = invoice[j]
      /\ invoice'[i].cents = invoice[i].cents
      /\ VoidWrites(q) => /\ invoice'[i].status = "VOIDED"
                          /\ invoice'[i].expense = invoice[i].expense
  <2>1. CASE LinkWrites(q)
    <3>1. invoice' = [invoice EXCEPT ![i].status = "MATCHED", ![i].expense = req[q].link]
          /\ ~ VoidWrites(q)
      BY <1>1, <2>1 DEF LinkWrites, Match, VoidWrites
    <3> QED
      BY <1>3, <1>4, <3>1 DEF Invoices
  <2>2. CASE AutoCommits(q)
    <3>1. invoice' = [invoice EXCEPT ![i].status = "MATCHED",
                                     ![i].expense = Len(expense) + 1]
          /\ ~ VoidWrites(q)
      BY <1>1, <2>2 DEF AutoCommits, Match, VoidWrites
    <3> QED
      BY <1>3, <1>4, <3>1 DEF Invoices
  <2>3. CASE VoidWrites(q)
    <3>1. invoice' = [invoice EXCEPT ![i].status = "VOIDED"]
      BY <1>1, <2>3 DEF VoidWrites
    <3> QED
      BY <1>3, <1>4, <3>1 DEF Invoices
  <2> QED
    BY <2>1, <2>2, <2>3 DEF Writes
\* What the call has read still holds, if nobody else was at the row.
<1>8. ASSUME i \notin raced'
      PROVE  /\ VoidWrites(q) => invoice[i].status # "VOIDED"
             /\ ~ VoidWrites(q) => Matchable(i)
  <2>1. q \in At(i) /\ StillThere(i)
    BY <1>1, <1>2, <1>4, <1>6, <1>8 DEF HistoryInv, RaceInv, At, AtRow
  <2> QED
    BY <2>1 DEF StillThere, Writes, LinkWrites, AutoCommits, VoidWrites
<1>9. ASSUME NEW j \in DOMAIN invoice, j \notin raced'
      PROVE  /\ invoice[j].status = "VOIDED" => invoice'[j] = invoice[j]
             /\ invoice[j].status = "MATCHED" =>
                   /\ invoice'[j].status \in {"MATCHED", "VOIDED"}
                   /\ invoice'[j].expense = invoice[j].expense
  BY <1>7, <1>8, <1>9 DEF Matchable
\* No other call is left at the row.
<1>10. RaceInv'
  <2>1. ASSUME NEW j \in DOMAIN invoice, j \notin raced', NEW v \in At(j)'
        PROVE  v \in Requests /\ v \in At(j) /\ v # q /\ req'[v] = req[v] /\ j # i
    <3>1. v \in Requests /\ v # q /\ req'[v] = req[v] /\ v \in At(j)
      BY <1>5, <2>1 DEF At
    <3>2. j # i
      <4>1. At(i) = {q} \/ i \in raced
        BY <1>1, <1>2, <1>4, OneAt DEF HistoryInv
      <4> QED
        BY <1>6, <2>1, <3>1, <4>1
    <3> QED
      BY <3>1, <3>2
  <2>2. ASSUME NEW j \in DOMAIN invoice, j \notin raced' PROVE StillThere(j)'
    <3>1. StillThere(j)
      BY <1>6, <2>2 DEF HistoryInv, RaceInv
    <3>2. ASSUME NEW v \in At(j)'
          PROVE  /\ req'[v].step \in {"auto", "link"} => Matchable(j)'
                 /\ req'[v].step = "void" => invoice'[j].status # "VOIDED"
      <4>1. v \in At(j) /\ req'[v] = req[v] /\ invoice'[j] = invoice[j]
        BY <1>7, <2>1, <2>2, <3>2
      <4> QED
        BY <3>1, <4>1 DEF StillThere, Matchable
    <3> QED
      BY <3>2 DEF StillThere
  <2> QED
    BY <1>6, <1>7, <2>2 DEF RaceInv
<1>11. AutoInv'
  <2> SUFFICES ASSUME NEW v \in Requests, req'[v].step = "auto"
               PROVE  invoice'[req'[v].row].cents >= 0
    BY DEF AutoInv
  <2>1. req'[v] = req[v] /\ req[v].step = "auto"
    BY <1>5
  <2>2. req[v].row \in DOMAIN invoice /\ invoice[req[v].row].cents >= 0
    BY <1>3, <2>1, RowFacts DEF HistoryInv, AutoInv
  <2> QED
    BY <1>7, <2>1, <2>2
\* What was made before stays, but for raced rows.
<1>12. /\ Len(expense') \in Nat /\ Len(expense') >= Len(expense)
       /\ \A e \in 1..Len(expense) : expense'[e] = expense[e]
  <2>1. CASE AutoCommits(q)
    <3>1. PICK x : expense' = Append(expense, x)
      BY <2>1 DEF AutoCommits
    <3>2. \A e \in 1..Len(expense) : expense'[e] = expense[e]
      BY <1>3, <3>1
    <3>3. Len(expense') = Len(expense) + 1
      BY <1>3, <3>1
    <3> QED
      BY <1>3, <3>2, <3>3
  <2>2. CASE ~ AutoCommits(q)
    <3>1. UNCHANGED expense
      BY <2>2 DEF Writes, LinkWrites, VoidWrites
    <3> QED
      BY <1>3, <3>1
  <2> QED
    BY <2>1, <2>2
<1>13. ASSUME NEW k \in 1..Len(made), NEW j, j = made[k]
       PROVE  /\ j \in DOMAIN invoice'
              /\ j \notin raced' => Made(j, k + 1)'
  <2>1. /\ j \in DOMAIN invoice /\ k + 1 \in 1..Len(expense) /\ k + 1 # 0
        /\ j \notin raced => Made(j, k + 1)
    BY <1>3, <1>13 DEF HistoryInv, MadeInv
  <2>2. ASSUME j \notin raced'
        PROVE  invoice'[j].expense = k + 1 /\ invoice'[j].cents = invoice[j].cents
    <3>1. Made(j, k + 1) /\ invoice[j].expense # 0
      BY <1>6, <2>1, <2>2 DEF Made
    <3> QED
      BY <1>7, <1>8, <2>1, <2>2, <3>1 DEF Made, Matchable
  <2>3. ASSUME j \notin raced' PROVE Made(j, k + 1)'
    <3>1. Made(j, k + 1) /\ expense'[k + 1] = expense[k + 1]
      BY <1>6, <1>12, <2>1, <2>3
    <3> QED
      BY <2>2, <2>3, <3>1 DEF Made
  <2> QED
    BY <1>7, <2>1, <2>3
<1>14. MadeInv'
  <2>1. made \in Seq(Nat) /\ Len(made) + 1 = Len(expense) /\ Len(made) \in Nat
    BY DEF HistoryInv, MadeInv
  <2>2. CASE ~ AutoCommits(q)
    <3>1. UNCHANGED expense
      BY <2>2 DEF Writes, LinkWrites, VoidWrites
    <3>2. UNCHANGED made
      BY <3>1 DEF Record
    <3>3. ASSUME NEW k \in 1..Len(made')
          PROVE  /\ made'[k] \in 1..Len(invoice')
                 /\ made'[k] \notin raced' => Made(made[k], k + 1)'
      <4>1. PICK j : j = made[k]
        OBVIOUS
      <4>2. /\ j \in DOMAIN invoice' /\ j = made'[k]
            /\ j \notin raced' => Made(j, k + 1)'
        BY <1>13, <3>2, <3>3, <4>1
      <4>3. DOMAIN invoice' = 1..Len(invoice')
        BY DEF SupplierInv, RowsInv
      <4> QED
        BY <4>2, <4>3 DEF Made
    <3> QED
      BY <2>1, <3>1, <3>2, <3>3 DEF MadeInv
  <2>3. CASE AutoCommits(q)
    <3>1. PICK x : /\ x = [cents |-> invoice[i].cents,
                           shares |-> Split(Weights, invoice[i].cents)]
                   /\ expense' = Append(expense, x)
      BY <1>1, <2>3 DEF AutoCommits
    <3>2. /\ Len(expense') = Len(expense) + 1 /\ expense'[Len(expense) + 1] = x
          /\ Len(expense') # Len(expense)
      <4>1. expense' = Append(expense, x) /\ expense \in Seq(Expenses)
        BY <1>3, <3>1
      <4>2. Len(expense') = Len(expense) + 1 /\ Len(expense) \in Nat
        BY <1>3, <4>1
      <4>3. expense'[Len(expense) + 1] = x
        BY <1>3, <4>1
      <4> QED
        BY <4>2, <4>3
    <3>3. invoice'[i].expense = Len(expense')
      <4>1. invoice' = [invoice EXCEPT ![i].status = "MATCHED",
                                       ![i].expense = Len(expense) + 1]
        BY <1>1, <2>3 DEF AutoCommits, Match
      <4> QED
        BY <1>3, <1>4, <3>2, <4>1 DEF Invoices
    <3>4. ASSUME NEW j \in DOMAIN invoice', invoice'[j].expense = Len(expense')
          PROVE  j = i
      <4>1. Len(expense') # 0 /\ DOMAIN invoice' = 1..Len(invoice')
        <5>1. Len(expense') # 0
          <6>1. Len(expense) \in Nat /\ Len(expense') = Len(expense) + 1
            BY <1>3, <3>2
          <6> QED
            BY <6>1
        <5> QED
          BY <5>1 DEF SupplierInv, RowsInv
      <4>2. \A m, n \in 1..Len(invoice') : m # n =>
               (invoice'[m].expense # 0 => invoice'[m].expense # invoice'[n].expense)
        BY DEF SupplierInv, UniqueInv
      <4> QED
        BY <1>4, <1>7, <3>3, <3>4, <4>1, <4>2
    <3>5. (CHOOSE j \in DOMAIN invoice' : invoice'[j].expense = Len(expense')) = i
      BY <1>4, <1>7, <3>3, <3>4
    <3>6. made' = Append(made, i)
      BY <3>2, <3>5 DEF Record
    <3>7. i \in Nat /\ i \in 1..Len(invoice')
      BY <1>3, <1>4, <1>7 DEF SupplierInv, RowsInv
    <3>8. /\ made' \in Seq(Nat) /\ Len(made') = Len(made) + 1
          /\ \A k \in 1..Len(made) : made'[k] = made[k]
          /\ made'[Len(made) + 1] = i
      BY <2>1, <3>6, <3>7
    <3>9. ASSUME NEW e, e = Len(made) + 2 PROVE Made(i, e)'
      <4>1. Len(made) + 2 = Len(expense') /\ Len(made) + 2 = Len(expense) + 1
        BY <2>1, <3>2
      <4>2. invoice[i].cents \in Nat
        <5>1. invoice[i].cents >= 0
          BY <1>1, <2>3 DEF HistoryInv, AutoInv, AutoCommits
        <5>2. invoice[i].cents \in Int
          BY <1>3, <1>4 DEF Invoices
        <5> QED
          BY <5>1, <5>2
      <4>3. SumFunction(x.shares) = x.cents
        BY <3>1, <4>2, WeightsFact, SplitIsExact
      <4>4. x.cents = invoice'[i].cents
        BY <1>7, <3>1
      <4> QED
        BY <3>2, <3>3, <3>9, <4>1, <4>3, <4>4 DEF Made
    <3>10. ASSUME NEW k \in 1..Len(made')
           PROVE  /\ made'[k] \in 1..Len(invoice')
                  /\ made'[k] \notin raced' => Made(made[k], k + 1)'
      <4>1. PICK j : j = made'[k]
        OBVIOUS
      <4>2. CASE k \in 1..Len(made)
        <5>1. j = made[k] /\ DOMAIN invoice' = 1..Len(invoice')
          BY <3>8, <4>1, <4>2 DEF SupplierInv, RowsInv
        <5>2. j \in DOMAIN invoice' /\ (j \notin raced' => Made(j, k + 1)')
          BY <1>13, <4>2, <5>1
        <5> QED
          BY <4>1, <5>1, <5>2 DEF Made
      <4>3. CASE k \notin 1..Len(made)
        <5>1. k = Len(made) + 1 /\ k + 1 = Len(made) + 2
          BY <2>1, <3>8, <3>10, <4>3
        <5>2. j = i
          BY <3>8, <4>1, <5>1
        <5>3. Made(j, k + 1)'
          BY <3>9, <5>1, <5>2
        <5> QED
          BY <3>7, <4>1, <5>2, <5>3 DEF Made
      <4> QED
        BY <4>2, <4>3
    <3>11. Len(made') + 1 = Len(expense')
      BY <2>1, <3>2, <3>8
    <3> QED
      BY <3>8, <3>10, <3>11 DEF MadeInv
  <2> QED
    BY <2>2, <2>3
<1> QED
  BY <1>9, <1>10, <1>11, <1>14 DEF HistoryInv

LEMMA HistoryStep ==
    ASSUME HistoryInv, [Next /\ Record]_hvars
    PROVE  /\ HistoryInv'
           /\ \A i \in DOMAIN invoice : i \notin raced' =>
                 /\ invoice[i].status = "VOIDED" => invoice'[i] = invoice[i]
                 /\ invoice[i].status = "MATCHED" =>
                       /\ invoice'[i].status \in {"MATCHED", "VOIDED"}
                       /\ invoice'[i].expense = invoice[i].expense
<1>1. CASE UNCHANGED hvars
  <2>1. UNCHANGED <<invoice, expense, req, raced, made>> /\ UNCHANGED vars
    BY <1>1 DEF hvars, vars
  <2>2. SupplierInv'
    BY <2>1, NextInv DEF HistoryInv
  <2>3. RaceInv'
    BY <2>1 DEF HistoryInv, RaceInv, At, StillThere, Matchable
  <2>4. AutoInv' /\ MadeInv'
    BY <2>1 DEF HistoryInv, AutoInv, MadeInv, Made
  <2> QED
    BY <2>1, <2>2, <2>3, <2>4 DEF HistoryInv
<1>2. CASE Next /\ Record
  <2>1. SupplierInv'
    BY <1>2, NextInv DEF HistoryInv
  <2>2. SupplierInv
    BY DEF HistoryInv
  <2>3. CASE \E q \in Requests : Writes(q)
    BY <1>2, <2>1, <2>3, WriteHistory
  <2>4. CASE ~ \E q \in Requests : Writes(q)
    <3>1. /\ UNCHANGED expense /\ CallMoves
          /\ \/ UNCHANGED invoice
             \/ \E new \in Invoices : invoice' = Append(invoice, new)
      BY <1>2, <2>2, <2>4, StepShape
    <3>2. HistoryInv' /\ \A i \in DOMAIN invoice : invoice'[i] = invoice[i]
      BY <1>2, <2>1, <3>1, QuietHistory
    <3> QED
      BY <3>2
  <2> QED
    BY <2>3, <2>4
<1> QED
  BY <1>1, <1>2

\* Unless two calls were at it at once, what is voided stays, and what is matched
\* keeps the expense made from it, of its total and split to the cent: it is
\* billed to the owners once (matchToExpense, voidInvoice).
THEOREM MatchesStand == MCSpec => MatchStands
<1>1. HistoryInv /\ [Next /\ Record]_hvars =>
        [/\ \A i \in DOMAIN invoice \ raced' :
               /\ invoice[i].status = "VOIDED" => invoice'[i] = invoice[i]
               /\ invoice[i].status = "MATCHED" =>
                     /\ invoice'[i].status \in {"MATCHED", "VOIDED"}
                     /\ invoice'[i].expense = invoice[i].expense
         /\ \A k \in DOMAIN made' : made'[k] \notin raced' =>
               /\ invoice'[made'[k]].expense = k + 1
               /\ expense'[k + 1].cents = invoice'[made'[k]].cents
               /\ SumFunction(expense'[k + 1].shares) = expense'[k + 1].cents
        ]_hvars
  <2> SUFFICES ASSUME HistoryInv, [Next /\ Record]_hvars
               PROVE  /\ \A i \in DOMAIN invoice \ raced' :
                            /\ invoice[i].status = "VOIDED" => invoice'[i] = invoice[i]
                            /\ invoice[i].status = "MATCHED" =>
                                  /\ invoice'[i].status \in {"MATCHED", "VOIDED"}
                                  /\ invoice'[i].expense = invoice[i].expense
                      /\ \A k \in DOMAIN made' : made'[k] \notin raced' =>
                            /\ invoice'[made'[k]].expense = k + 1
                            /\ expense'[k + 1].cents = invoice'[made'[k]].cents
                            /\ SumFunction(expense'[k + 1].shares)
                                 = expense'[k + 1].cents
    OBVIOUS
  <2>1. HistoryInv'
    BY HistoryStep
  <2>2. ASSUME NEW k \in DOMAIN made', made'[k] \notin raced'
        PROVE  /\ invoice'[made'[k]].expense = k + 1
               /\ expense'[k + 1].cents = invoice'[made'[k]].cents
               /\ SumFunction(expense'[k + 1].shares) = expense'[k + 1].cents
    <3>1. DOMAIN made' = 1..Len(made')
      BY <2>1 DEF HistoryInv, MadeInv
    <3> QED
      BY <2>1, <2>2, <3>1 DEF HistoryInv, MadeInv, Made
  <2>3. ASSUME NEW i \in DOMAIN invoice \ raced'
        PROVE  /\ invoice[i].status = "VOIDED" => invoice'[i] = invoice[i]
               /\ invoice[i].status = "MATCHED" =>
                     /\ invoice'[i].status \in {"MATCHED", "VOIDED"}
                     /\ invoice'[i].expense = invoice[i].expense
    BY HistoryStep
  <2> QED
    BY <2>2, <2>3
<1>2. HistoryInv /\ [Next /\ Record]_hvars => HistoryInv'
  BY HistoryStep
<1>3. MCInit => HistoryInv
  BY InitHistory
<1> QED
  BY <1>1, <1>2, <1>3, PTL DEF MCSpec, MatchStands, hvars
=============================================================================

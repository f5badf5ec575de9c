------------------------- MODULE MCSupplierInvoices -------------------------
(* An instance of SupplierInvoices for TLC, with what happened remembered. *)
EXTENDS SupplierInvoices, FiniteSets, TLC

VARIABLES
    raced,     \* invoices that two calls have been matching or voiding at once
    made       \* the invoice each expense was made from, after the first one

\* myDATA has two documents, one of them a credit note.
MCFeed == <<"m1", "m2">>
MCTotal == [m \in {"m1", "m2"} |-> IF m = "m1" THEN 3 ELSE -1]
MCMillimes == <<600, 0>>

At(i) == {q \in Requests : req[q].step \in {"auto", "link", "void"} /\ req[q].row = i}

Record ==
    /\ raced' = raced \cup {i \in DOMAIN invoice' : Cardinality(At(i)') > 1}
    /\ made' = IF Len(expense') = Len(expense) THEN made
               ELSE Append(made, CHOOSE i \in DOMAIN invoice' :
                                    invoice'[i].expense = Len(expense'))

MCInit == Init /\ raced = {} /\ made = <<>>
MCSpec == MCInit /\ [][Next /\ Record]_<<vars, raced, made>>

Symmetry == Permutations(Requests)
-----------------------------------------------------------------------------
\* Unless two calls were at it at once, a voided invoice stays as it is, a
\* matched one keeps its expense and can only be voided, and the expense made
\* from it, of its total and split to the cent, is the one it is linked to: it
\* is billed to the owners once (matchToExpense, voidInvoice).
MatchStands ==
    [][/\ \A i \in DOMAIN invoice \ raced' :
             /\ invoice[i].status = "VOIDED" => invoice'[i] = invoice[i]
             /\ invoice[i].status = "MATCHED" =>
                   /\ invoice'[i].status \in {"MATCHED", "VOIDED"}
                   /\ invoice'[i].expense = invoice[i].expense
       /\ \A k \in DOMAIN made' : made'[k] \notin raced' =>
             /\ invoice'[made'[k]].expense = k + 1
             /\ expense'[k + 1].cents = invoice'[made'[k]].cents
             /\ SumFunction(expense'[k + 1].shares) = expense'[k + 1].cents
      ]_<<vars, raced, made>>
=============================================================================

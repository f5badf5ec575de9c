---------------------------- MODULE Receivable ----------------------------
(***************************************************************************)
(* What the collection of an invoice promises, whatever the channel: each   *)
(* order is credited at most once, and never beyond what is still due.      *)
(***************************************************************************)
EXTENDS Naturals

CONSTANTS Invoices, Orders, Total

VARIABLES
    paid,      \* money collected per invoice
    credited   \* the credits given: [order, invoice, amount]

Init ==
    /\ paid = [i \in Invoices |-> 0]
    /\ credited = {}

Credit(o, i, amount) ==
    /\ \A c \in credited : c.order # o
    /\ amount > 0
    /\ paid[i] + amount <= Total[i]
    /\ paid' = [paid EXCEPT ![i] = @ + amount]
    /\ credited' = credited \cup {[order |-> o, invoice |-> i, amount |-> amount]}

Next == \E o \in Orders, i \in Invoices :
            \E amount \in 1..Total[i] : Credit(o, i, amount)

Spec == Init /\ [][Next]_<<paid, credited>>
=============================================================================

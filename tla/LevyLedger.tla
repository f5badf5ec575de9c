----------------------------- MODULE LevyLedger -----------------------------
(***************************************************************************)
(* What the reserve fund promises: cash comes in by deposits and by the     *)
(* collection of issued levies, never beyond what a unit owes of one; it    *)
(* goes out by draws, never beyond the balance; each movement has its row;  *)
(* and a levy is closed once all of it is collected.                        *)
(***************************************************************************)
EXTENDS Naturals, Functions

CONSTANTS Levies, Units, Terms, Amounts

VARIABLES
    balance,     \* cash in the fund
    cash,        \* sums of the deposits and of the draws
    collected,   \* sum of the collections of each levy
    levy,        \* status of each levy
    share,       \* what each unit owes of it
    paid         \* what each unit has paid of it

Init ==
    /\ balance = 0
    /\ cash = [deposited |-> 0, drawn |-> 0]
    /\ collected = [l \in Levies |-> 0]
    /\ levy = [l \in Levies |-> "NONE"]
    /\ share = [l \in Levies |-> [u \in Units |-> 0]]
    /\ paid = [l \in Levies |-> [u \in Units |-> 0]]

Deposit(cents) ==
    /\ balance' = balance + cents
    /\ cash' = [cash EXCEPT !.deposited = @ + cents]
    /\ UNCHANGED <<collected, levy, share, paid>>

Draw(cents) ==
    /\ cents <= balance
    /\ balance' = balance - cents
    /\ cash' = [cash EXCEPT !.drawn = @ + cents]
    /\ UNCHANGED <<collected, levy, share, paid>>

Create(l) ==
    /\ levy[l] = "NONE" /\ levy' = [levy EXCEPT ![l] = "DRAFT"]
    /\ \E owed \in [Units -> 0..Terms[l].total] :
          /\ SumFunction(owed) = Terms[l].total
          /\ share' = [share EXCEPT ![l] = owed]
    /\ UNCHANGED <<balance, cash, collected, paid>>

Issue(l) ==
    /\ levy[l] = "DRAFT" /\ levy' = [levy EXCEPT ![l] = "ISSUED"]
    /\ UNCHANGED <<balance, cash, collected, share, paid>>

Collect(l) ==
    /\ levy[l] = "ISSUED"
    /\ \E pays \in [Units -> 0..Terms[l].total] :
          /\ \A u \in Units : paid[l][u] + pays[u] <= share[l][u]
          /\ paid' = [paid EXCEPT ![l] = [u \in Units |-> @[u] + pays[u]]]
          /\ balance' = balance + SumFunction(pays)
          /\ collected' = [collected EXCEPT ![l] = @ + SumFunction(pays)]
    /\ UNCHANGED <<cash, levy, share>>

Close(l) ==
    /\ levy[l] = "ISSUED" /\ paid[l] = share[l]
    /\ levy' = [levy EXCEPT ![l] = "CLOSED"]
    /\ UNCHANGED <<balance, cash, collected, share, paid>>

Next ==
    \/ \E cents \in Amounts : Deposit(cents) \/ Draw(cents)
    \/ \E l \in Levies : Create(l) \/ Issue(l) \/ Collect(l) \/ Close(l)

Spec == Init /\ [][Next]_<<balance, cash, collected, levy, share, paid>>
=============================================================================

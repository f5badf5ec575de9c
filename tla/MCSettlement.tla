--------------------------- MODULE MCSettlement ---------------------------
(* Instances of Settlement for TLC. *)
EXTENDS Settlement, TLC

MCTotal == [i \in Invoices |-> 2]

Symmetry == Permutations(Orders) \cup Permutations(Txs)
              \cup Permutations(Handlers)
=============================================================================

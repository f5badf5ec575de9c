----------------------------- MODULE MCReserve -----------------------------
(* An instance of Reserve for TLC: a levy of three cents over two units. *)
EXTENDS Reserve, TLC

MCTerms == [l \in Levies |-> [total |-> 3, weights |-> <<600, 400>>]]

Symmetry == Permutations(Requests)
=============================================================================

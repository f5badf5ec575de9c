-------------------------- MODULE LargestRemainder --------------------------
(***************************************************************************)
(* splitByLargestRemainder (prisma/split-by-largest-remainder.ts): cents    *)
(* split over the units 1, 2, ... in label order, in proportion to their    *)
(* weights w.                                                               *)
(*                                                                          *)
(* The code divides in doubles: a quota that is a whole number may be       *)
(* floored a cent low, and is then first in line for a cent left over,      *)
(* which is exact division. Only equal fractions of different weights might *)
(* be ordered otherwise.                                                    *)
(***************************************************************************)
EXTENDS Naturals, FiniteSets, Functions

Floors(w, total) == [u \in DOMAIN w |-> (w[u] * total) \div SumFunction(w)]

Left(w, total) == total - SumFunction(Floors(w, total))

Fraction(w, total, u) == (w[u] * total) % SumFunction(w)

Ahead(w, total, v, u) ==
    \/ Fraction(w, total, v) > Fraction(w, total, u)
    \/ Fraction(w, total, v) = Fraction(w, total, u) /\ v < u

\* Mutant: the cents left go to the first units, not to the largest fractions.
SplitInOrder(w, total) ==
    [u \in DOMAIN w |->
        Floors(w, total)[u] + IF u <= Left(w, total) THEN 1 ELSE 0]

Split(w, total) ==
    [u \in DOMAIN w |->
        Floors(w, total)[u] +
        IF Cardinality({v \in DOMAIN w : Ahead(w, total, v, u)}) < Left(w, total)
        THEN 1 ELSE 0]
=============================================================================

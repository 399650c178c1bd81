------------------------------ MODULE StockUnits ------------------------------
(***************************************************************************)
(* Counting the units of a product that a set of orders accounts for.      *)
(* A unit is a pair << order, i >>: counting pairs instead of adding       *)
(* quantities keeps the total a cardinality, with no recursive sum.        *)
(***************************************************************************)
EXTENDS Naturals, FiniteSets

\* The units of product p on the lines of the orders S.
Units(qty, S, p) == UNION { {o} \X (1 .. qty[o][p]) : o \in S }

UnitCount(qty, S, p) == Cardinality(Units(qty, S, p))

=============================================================================

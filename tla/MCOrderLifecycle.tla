--------------------------- MODULE MCOrderLifecycle ---------------------------
(***************************************************************************)
(* Small instances of OrderLifecycle for TLC.                              *)
(***************************************************************************)
EXTENDS OrderLifecycle, TLC

CONSTANTS fresh, legacy, p1, p2, c1, c2

\* A two-line order and an order of one unit compete for the two units of p1.
MCQty ==
  [o \in Orders |-> [p \in Products |->
     IF o = fresh THEN IF p = p1 THEN 2 ELSE 1
                  ELSE IF p = p1 THEN 1 ELSE 0]]

MCInitialStock == [p \in Products |-> 2]

CallSymmetry == Permutations(Callers) \cup Permutations(Requests)

=============================================================================

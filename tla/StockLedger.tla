------------------------------ MODULE StockLedger ------------------------------
(***************************************************************************)
(* What the order handlers promise about stock, with no statuses, payments *)
(* or locks: an order takes the units of all its lines from the shelf at   *)
(* most once, together with the other orders of its checkout or not at     *)
(* all, and gives all of them back at most once.  OrderLifecycle is shown  *)
(* to implement this specification.                                        *)
(***************************************************************************)
EXTENDS Naturals

CONSTANTS Orders, Products,
          Taken(_, _),    \* Taken(S, p): units of p that the orders S ask for
          InitialStock

VARIABLES shelf,    \* units of each product that can be sold
          phase     \* phase[o]: where order o is in the life of its hold

Phases == { "none", "holding", "ended" }

Holding == { o \in Orders : phase[o] = "holding" }

Init ==
  /\ phase \in [Orders -> Phases]
  /\ shelf = [p \in Products |-> InitialStock[p] - Taken(Holding, p)]

\* The orders G of one checkout take their units, all or none.
Take(G) ==
  /\ \A o \in G : phase[o] = "none"
  /\ \A p \in Products : Taken(G, p) <= shelf[p]
  /\ shelf' = [p \in Products |-> shelf[p] - Taken(G, p)]
  /\ phase' = [o \in Orders |-> IF o \in G THEN "holding" ELSE phase[o]]

\* The sale of o is over: every unit goes back, and o never holds any again.
Release(o) ==
  /\ phase[o] = "holding"
  /\ shelf' = [p \in Products |-> shelf[p] + Taken({o}, p)]
  /\ phase' = [phase EXCEPT ![o] = "ended"]

Next == (\E G \in SUBSET Orders : Take(G)) \/ (\E o \in Orders : Release(o))

Spec == Init /\ [][Next]_<< shelf, phase >>

=============================================================================

------------------------------ MODULE PayoutLedger -----------------------------
(***************************************************************************)
(* What the payout desk promises about money, with no destinations, orders,*)
(* locks or reads: a bill claims unclaimed earnings of one seller, worth   *)
(* the minimum, while no other bill of the seller is open; it is paid once *)
(* and keeps what it claimed, or it is voided once and leaves all of it.   *)
(* Marketplace is shown to implement this specification.                   *)
(***************************************************************************)
EXTENDS Naturals

CONSTANTS Orders, Payouts, Sellers, SellerOf, NoPayout,
          Amount(_),     \* Amount(E): what the earnings E are worth
          MinPayout

VARIABLES claim,    \* claim[o]: the bill that claims the earning of o
          bill      \* bill[q]: its phase and its seller

Claimed(q) == { o \in Orders : claim[o] = q }

Unclaimed(s) == { o \in Orders : SellerOf[o] = s /\ claim[o] = NoPayout }

Open(s) == [ phase |-> "open", seller |-> s ]

Init ==
  /\ claim = [o \in Orders |-> NoPayout]
  /\ bill \in [Payouts -> [ phase : { "unused" }, seller : Sellers ]]

\* A bill for the earnings E.
Opens(q, s, E) ==
  /\ bill[q].phase = "unused"
  /\ \A u \in Payouts : bill[u] # Open(s)
  /\ E \subseteq Unclaimed(s) /\ Amount(E) >= MinPayout
  /\ bill' = [bill EXCEPT ![q] = Open(s)]
  /\ claim' = [o \in Orders |-> IF o \in E THEN q ELSE claim[o]]

Pays(q) ==
  /\ bill[q].phase = "open"
  /\ bill' = [bill EXCEPT ![q].phase = "paid"]
  /\ UNCHANGED claim

Voids(q) ==
  /\ bill[q].phase = "open"
  /\ bill' = [bill EXCEPT ![q].phase = "void"]
  /\ claim' = [o \in Orders |-> IF o \in Claimed(q) THEN NoPayout ELSE claim[o]]

Next ==
  \E q \in Payouts :
    \/ \E s \in Sellers, E \in SUBSET Orders : Opens(q, s, E)
    \/ Pays(q) \/ Voids(q)

Spec == Init /\ [][Next]_<< claim, bill >>

=============================================================================

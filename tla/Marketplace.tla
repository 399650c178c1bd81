------------------------------ MODULE Marketplace ------------------------------
(***************************************************************************)
(* The order handlers and the payout desk over one database: every         *)
(* interleaving of their transactions, with the properties that relate     *)
(* sales, earnings and payouts.                                            *)
(***************************************************************************)
EXTENDS PayoutDesk

marketVars == << vars, deskVars >>

MarketInit == Init /\ DeskInit

MarketNext == (Next /\ UNCHANGED deskVars) \/ DeskNext

MarketSpec == MarketInit /\ [][MarketNext]_marketVars

-----------------------------------------------------------------------------
(* The abstract specification                                                *)

ClaimOf == [o \in Orders |-> earning[o].payout]

Bills ==
  [q \in Payouts |->
     [ phase  |-> CASE payout[q].status = "UNUSED"              -> "unused"
                    [] payout[q].status \in OpenPayoutStatuses -> "open"
                    [] payout[q].status = "COMPLETED"           -> "paid"
                    [] payout[q].status = "REJECTED"            -> "void",
       seller |-> payout[q].seller ]]

Payer == INSTANCE PayoutLedger WITH claim <- ClaimOf, bill <- Bills, Amount <- Total

-----------------------------------------------------------------------------
(* Properties                                                                *)

\* Orders, earnings, return requests and payouts are well formed in every
\* interleaving of the order handlers and the payout desk.
MarketTypeOK == TypeOK /\ DeskTypeOK

\* A seller never has two payouts under way, whatever requests race
\* (the profile lock of requestPayout; the partial unique index is not needed).
OneOpenPayout ==
  \A q, u \in Payouts :
    /\ payout[q].status \in OpenPayoutStatuses
    /\ payout[u].status \in OpenPayoutStatuses
    /\ payout[q].seller = payout[u].seller
    => q = u

\* Money is claimed once: the amount of a payout is backed, row by row, by the
\* earnings linked to it for as long as it is open or completed, and by none
\* once it is rejected.
PayoutBacked ==
  \A q \in Payouts :
    { o \in Orders : earning[o].payout = q } =
      IF payout[q].status \in OpenPayoutStatuses \cup { "COMPLETED" }
      THEN payout[q].claims ELSE {}

\* An earning enters a payout only live, and for a sale that stands and is past
\* its return window, although requestPayout locks neither the order nor the
\* earning before it reserves: a reversal in between is caught by the guarded
\* updateMany, or has flagged the row for a clawback.
ReservedOnlyWhenSettled ==
  [][\A o \in Orders :
       ~Reserved(o) /\ earning'[o].payout # NoPayout =>
         /\ earning[o].state = "live"
         /\ \/ earning[o].clawback
            \/ /\ order[o].status = "DELIVERED"
               /\ order[o].deliveredAt + ReturnWindow <= now]_marketVars

\* A payout goes to the destination saved on the profile, unchanged for the
\* whole cooling-off period, at the moment the payout is created.
PaidToASettledDestination ==
  [][\A q \in Payouts :
       payout[q].status = "UNUSED" /\ payout'[q].status # "UNUSED" =>
         LET p == profile[payout'[q].seller] IN
         /\ payout'[q].destination = p.destination
         /\ p.destination # NoDestination
         /\ p.changedAt # Never => p.changedAt + CoolingOff <= now]_marketVars

\* A completed or rejected payout is final: neither its row nor its link to the
\* earnings it paid ever changes again.
ClosedPayoutIsFinal ==
  [][\A q \in Payouts :
       payout[q].status \in { "COMPLETED", "REJECTED" } =>
         /\ payout'[q] = payout[q]
         /\ \A o \in Orders : (earning'[o].payout = q) <=> (earning[o].payout = q)]_marketVars

\* The handlers and the desk implement PayoutLedger: an earning is claimed by one
\* payout at a time, is paid out once and for good, and comes back whole from a
\* rejected payout, although the balance is read before it is reserved
\* (requestPayout, completePayout, rejectPayout).
ImplementsPayouts == Payer!Spec

-----------------------------------------------------------------------------
(* Statements of the repository that the code does not keep                  *)

\* docs/payouts.md and reverseEarning: a reversal that hits an earning reserved
\* in a payout stamps clawbackRequiredAt, so the cash is never forgotten.
CommittedCashIsFlagged ==
  \A o \in Orders :
    Reserved(o) /\ order[o].status \notin { "UNPLACED", "DELIVERED" } => earning[o].clawback

\* markDelivered: "an order can never be DELIVERED without its earning".
DeliveryCreatesEarning ==
  [][\A c \in Callers :
       Delivers(c) => earning'[call[c].order].state = "live"]_marketVars

=============================================================================

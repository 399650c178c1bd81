---------------------------- MODULE EarningsLedger ----------------------------
(***************************************************************************)
(* The seller_earnings table and the operations of EarningsService on it   *)
(* (apps/api/src/payments/earnings.service.ts).  There is at most one row  *)
(* per order; a row is never deleted.  isPaid and payoutId are written     *)
(* together everywhere, so one field stands for both.                      *)
(*                                                                         *)
(* Order handlers call createEarning / reverseEarning inside their own     *)
(* transaction; the payout desk reserves and releases rows in its own.     *)
(* Neither locks a row it has only read, which is why reverseEarning is    *)
(* split into what it reads (ReversalOf) and what it then writes           *)
(* (ApplyReversal).                                                        *)
(***************************************************************************)
EXTENDS Naturals

CONSTANTS Orders,    \* orders, and so also the possible earning rows
          Payouts,   \* payout rows
          NoPayout   \* payoutId IS NULL

ASSUME NoPayoutAssumption == NoPayout \notin Payouts

VARIABLE earning     \* earning[o]: the row of order o

EarningRow ==
  [ state    : { "none", "live", "reversed" },  \* no row / reversedAt null / set
    payout   : Payouts \cup { NoPayout },
    clawback : BOOLEAN ]                        \* clawbackRequiredAt is set

NoEarning == [ state |-> "none", payout |-> NoPayout, clawback |-> FALSE ]

EarningTypeOK == earning \in [Orders -> EarningRow]

EarningInit == earning = [o \in Orders |-> NoEarning]

Reserved(o) == earning[o].payout # NoPayout

\* createEarning: idempotent on the order id, a reversed row included.
CreateEarning(o) ==
  earning' =
    [earning EXCEPT ![o].state = IF earning[o].state = "none" THEN "live"
                                 ELSE earning[o].state]

Reversals == { "nothing", "clawback", "reverse" }

\* The row reverseEarning reads decides what it will write.
ReversalOf(o) ==
  IF earning[o].state # "live" THEN "nothing"
  ELSE IF ~Reserved(o) THEN "reverse"
  ELSE IF earning[o].clawback THEN "nothing" ELSE "clawback"

\* Variant: the handler leaves the earning alone.
ApplyReversal_Forgotten(o, decision) == UNCHANGED earning

\* The write of reverseEarning: by id, whatever the row has become since.
ApplyReversal(o, decision) ==
  earning' =
    CASE decision = "reverse"  -> [earning EXCEPT ![o].state = "reversed"]
      [] decision = "clawback" -> [earning EXCEPT ![o].clawback = TRUE]
      [] OTHER                 -> earning

=============================================================================

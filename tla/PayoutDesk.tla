------------------------------ MODULE PayoutDesk ------------------------------
(***************************************************************************)
(* Seller payouts (apps/api/src/payouts/payouts.service.ts): a seller asks *)
(* for the whole available balance, administrators approve, process,       *)
(* complete or reject the request, and the seller changes the mobile-money *)
(* destination.  The balance is read from the earnings of the orders that  *)
(* OrderLifecycle moves, in the same database.                             *)
(*                                                                         *)
(* requestPayout holds the row lock of the seller profile for its whole    *)
(* transaction, but reads earnings it does not lock before it reserves     *)
(* them; the two statements are two steps here (ReadsBalance, Reserves).   *)
(*                                                                         *)
(* payouts.amountCDF is the sum of the net amounts of the earnings read:   *)
(* a row keeps that set of earnings (claims) instead of the number.        *)
(***************************************************************************)
EXTENDS OrderLifecycle, FiniteSetsExt

CONSTANTS
  Sellers,
  SellerOf,      \* the seller of each order
  Net,           \* netAmountCDF of each order's earning
  MinPayout,     \* MIN_PAYOUT_AMOUNT_CDF
  Requesters,    \* concurrent requestPayout calls
  Destinations, NoDestination,
  CoolingOff     \* PAYOUT_METHOD_COOLING_OFF_MS, in the unit of now

ASSUME PayoutAssumption ==
  /\ Sellers # {}
  /\ SellerOf \in [Orders -> Sellers]
  /\ Net \in [Orders -> Nat]
  /\ MinPayout \in Nat \ {0}   \* so that a payout is never empty
  /\ NoDestination \notin Destinations
  /\ CoolingOff \in Nat

VARIABLES
  payout,    \* the payouts table
  profile,   \* payout fields of seller_profiles
  asking     \* the requestPayout transaction each requester has open

deskVars == << payout, profile, asking >>

OpenPayoutStatuses == { "REQUESTED", "APPROVED", "PROCESSING" }

PayoutRow ==
  [ status      : OpenPayoutStatuses \cup { "UNUSED", "COMPLETED", "REJECTED" },
    seller      : Sellers,
    claims      : SUBSET Orders,
    destination : Destinations \cup { NoDestination } ]

ProfileRow ==
  [ destination : Destinations \cup { NoDestination },
    changedAt   : Times \cup { Never } ]

Asking == [ seller : Sellers, claims : SUBSET Orders ]

\* The destination columns of a payout are NOT NULL.
DeskTypeOK ==
  /\ payout \in [Payouts -> PayoutRow]
  /\ \A q \in Payouts : payout[q].status # "UNUSED" => payout[q].destination # NoDestination
  /\ profile \in [Sellers -> ProfileRow]
  /\ asking \in [Requesters -> Asking \cup { NoCall }]

-----------------------------------------------------------------------------

\* eligibleEarningWhere: still delivered, window closed, not reversed, not reserved.
Eligible(o) ==
  /\ earning[o].state = "live" /\ ~Reserved(o)
  /\ order[o].status = "DELIVERED"
  /\ order[o].deliveredAt # Never /\ order[o].deliveredAt + ReturnWindow <= now

EligibleEarnings(s) == { o \in Orders : SellerOf[o] = s /\ Eligible(o) }

Total(E) == MapThenSumSet(LAMBDA o : Net[o], E)

\* Variant: a payout being processed is no longer seen as open.
HasOpenPayout_NotProcessing(s) ==
  \E q \in Payouts : payout[q].seller = s /\ payout[q].status \in { "REQUESTED", "APPROVED" }

HasOpenPayout(s) ==
  \E q \in Payouts : payout[q].seller = s /\ payout[q].status \in OpenPayoutStatuses

\* Variant: the cooling-off is only announced, never enforced.
MayWithdraw_NoCoolingOff(s) == profile[s].destination # NoDestination

\* payoutsAvailableAt: a destination is saved and its cooling-off is over.
MayWithdraw(s) ==
  /\ profile[s].destination # NoDestination
  /\ profile[s].changedAt # Never => profile[s].changedAt + CoolingOff <= now

\* A requestPayout transaction holds the seller profile's row lock.
ProfileLocked(s) == \E w \in Requesters : asking[w] # NoCall /\ asking[w].seller = s

\* requestPayout, up to its last read.
ReadsBalance(w) ==
  /\ asking[w] = NoCall
  /\ \E s \in Sellers :
       LET E == EligibleEarnings(s) IN
       /\ ~ProfileLocked(s)
       /\ ~HasOpenPayout(s)
       /\ Total(E) >= MinPayout
       /\ MayWithdraw(s)
       /\ asking' = [asking EXCEPT ![w] = [ seller |-> s, claims |-> E ]]
  /\ UNCHANGED << vars, payout, profile >>

\* Variant: the updateMany does not look at reversedAt.
Reservable_ReversedToo(E) == { o \in E : ~Reserved(o) }

\* The rows the guarded updateMany takes: read as eligible, still free, still live.
Reservable(E) == { o \in E : earning[o].state # "reversed" /\ ~Reserved(o) }

\* Variant: the count of the updateMany is not compared to the rows read.
NothingMoved_Unchecked(E) == TRUE

NothingMoved(E) == Reservable(E) = E

\* payout.create and the reservation; the transaction commits ...
Reserves(w) ==
  /\ asking[w] # NoCall
  /\ LET s == asking[w].seller
         E == asking[w].claims IN
     /\ NothingMoved(E)
     /\ \E q \in Payouts :
          /\ payout[q].status = "UNUSED"
          /\ payout' = [payout EXCEPT ![q] =
                          [ status |-> "REQUESTED", seller |-> s, claims |-> E,
                            destination |-> profile[s].destination ]]
          /\ earning' = [o \in Orders |->
                           IF o \in Reservable(E)
                           THEN [earning[o] EXCEPT !.payout = q] ELSE earning[o]]
  /\ asking' = [asking EXCEPT ![w] = NoCall]
  /\ UNCHANGED << tables, call, now, forced, profile >>

\* ... or rolls back: the balance changed in between, or the transaction failed.
GivesUp(w) ==
  /\ asking[w] # NoCall
  /\ asking' = [asking EXCEPT ![w] = NoCall]
  /\ UNCHANGED << vars, payout, profile >>

\* One guarded transition of an administrator: conditional on the current status.
Transition(q, from, to) ==
  /\ payout[q].status \in from
  /\ payout' = [payout EXCEPT ![q].status = to]
  /\ UNCHANGED << profile, asking, tables, call, now, forced >>

ApprovePayout(q) ==
  Transition(q, {"REQUESTED"}, "APPROVED") /\ UNCHANGED earning

ProcessPayout(q) ==
  Transition(q, {"APPROVED"}, "PROCESSING") /\ UNCHANGED earning

CompletePayout(q) ==
  Transition(q, {"APPROVED", "PROCESSING"}, "COMPLETED") /\ UNCHANGED earning

ReleaseEarnings(q) ==
  earning' = [o \in Orders |-> IF earning[o].payout = q
                               THEN [earning[o] EXCEPT !.payout = NoPayout]
                               ELSE earning[o]]

\* Variant: a payout that was paid out can still be rejected.
RejectPayout_Anytime(q) ==
  /\ Transition(q, OpenPayoutStatuses \cup { "COMPLETED" }, "REJECTED")
  /\ ReleaseEarnings(q)

RejectPayout(q) ==
  /\ Transition(q, OpenPayoutStatuses, "REJECTED")
  /\ ReleaseEarnings(q)

\* updatePayoutMethod, password already verified.  An unchanged destination
\* is a no-op; the profile lock makes a racing requestPayout see all or nothing.
UpdatePayoutMethod(s, d) ==
  /\ ~ProfileLocked(s)
  /\ profile[s].destination # d
  /\ profile' = [profile EXCEPT ![s] = [ destination |-> d, changedAt |-> now ]]
  /\ UNCHANGED << vars, payout, asking >>

-----------------------------------------------------------------------------

\* Profiles of before the cooling-off rule carry a destination without a date.
DeskInit ==
  /\ payout \in [Payouts -> { [ status |-> "UNUSED", seller |-> s, claims |-> {},
                                destination |-> NoDestination ] :
                              s \in { CHOOSE x \in Sellers : TRUE } }]
  /\ profile \in [Sellers -> [ destination : Destinations \cup { NoDestination },
                               changedAt : { Never } ]]
  /\ asking = [w \in Requesters |-> NoCall]

DeskNext ==
  \/ \E w \in Requesters : ReadsBalance(w) \/ Reserves(w) \/ GivesUp(w)
  \/ \E q \in Payouts : \/ ApprovePayout(q) \/ ProcessPayout(q)
                        \/ CompletePayout(q) \/ RejectPayout(q)
  \/ \E s \in Sellers, d \in Destinations : UpdatePayoutMethod(s, d)

=============================================================================

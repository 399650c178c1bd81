----------------------------- MODULE CommissionDesk -----------------------------
(***************************************************************************)
(* The commission rates of one seller and one category, the administrators *)
(* who change them, and the deliveries priced by them.                     *)
(*                                                                         *)
(* Every change reads the stored rate, compares it with the one the        *)
(* administrator saw, and writes.  Only the write of a seller's own rate   *)
(* depends on the row still being as read.                                 *)
(***************************************************************************)
EXTENDS CommissionMath, Sequences

CONSTANTS
  Rates,      \* rates an administrator may type
  Amounts,    \* amounts of the order lines
  Admins,     \* changes in flight
  MaxTrail,   \* bound on the audited changes of the seller's rate
  NoRate

ASSUME DeskConstants ==
  /\ Rates \subseteq Units /\ Amounts \subseteq Nat
  /\ MaxTrail \in Nat /\ NoRate \notin Nat

VARIABLES
  own,        \* seller_profiles.commissionRate
  category,   \* the commission_settings row of the category
  default,    \* those without a category, oldest first
  trail,      \* admin_audit_logs of the seller
  change,     \* the changes
  quote       \* the delivery that is being priced

deskVars == << own, category, default, trail, change, quote >>

Rate == Rates \cup { NoRate }

Setting == [ rate : Rate, active : BOOLEAN ]

NoSetting == [ rate |-> NoRate, active |-> FALSE ]

\* lost: the row the change has found is gone.
Change ==
  [ at : { "idle", "own", "category", "removal", "default", "lost" },
    to : Setting, seen : Rate ]

NoChange == [ at |-> "idle", to |-> NoSetting, seen |-> NoRate ]

\* at: the rule it will look for next.
Quote ==
  [ at : { "SELLER", "CATEGORY", "GLOBAL", "priced", "refused" }, units : Rate,
    line : Amounts, commission : Nat ]

First == IF default = << >> THEN NoSetting ELSE default[1]

\* assertExpected: expected is NoRate when the administrator saw no rate; one who
\* does not say is never refused.
Expected(stored, expected, says) == says => stored = expected

Starts(a, at, to, seen) ==
  /\ change[a] = NoChange
  /\ change' = [change EXCEPT ![a] = [ at |-> at, to |-> to, seen |-> seen ]]
  /\ UNCHANGED << own, category, default, trail, quote >>

Finishes(a) == change' = [change EXCEPT ![a] = NoChange]

-----------------------------------------------------------------------------
(* The seller's own rate                                                     *)

\* setSellerOverride; clearSellerOverride for NoRate.  A change to the rate that
\* is there ends here, without a trace.
ReadsOwn(a, rate, expected, says) ==
  /\ Expected(own, expected, says)
  /\ rate # own
  /\ Starts(a, "own", [ rate |-> rate, active |-> TRUE ], own)

\* Variant: an update by id.
AsSeen_ById(a) == TRUE

\* updateMany on the rate that was read: none matches, and the change fails, if
\* it has moved.
AsSeen(a) == own = change[a].seen

WritesOwn(a) ==
  /\ change[a].at = "own" /\ AsSeen(a)
  /\ Len(trail) < MaxTrail
  /\ own' = change[a].to.rate
  /\ trail' = Append(trail, [ before |-> change[a].seen, after |-> change[a].to.rate ])
  /\ Finishes(a)
  /\ UNCHANGED << category, default, quote >>

-----------------------------------------------------------------------------
(* Settings of the category and of the platform                              *)

\* upsertSetting for the category.
ReadsCategory(a, to, expected, says) ==
  /\ Expected(category.rate, expected, says)
  /\ Starts(a, "category", to, category.rate)

\* By the id that was found, or a creation that the unique index allows.
WritesCategory(a) ==
  /\ change[a].at = "category"
  /\ change[a].seen = NoRate => category = NoSetting
  /\ category' = change[a].to
  /\ Finishes(a)
  /\ UNCHANGED << own, default, trail, quote >>

\* removeOverride
ReadsRemoval(a) ==
  /\ category # NoSetting
  /\ Starts(a, "removal", NoSetting, category.rate)

RemovesCategory(a) ==
  /\ change[a].at = "removal"
  /\ category' = NoSetting
  /\ change' = [b \in Admins |->
       IF b = a THEN NoChange
       ELSE IF \/ change[b].at = "removal"
               \/ change[b].at = "category" /\ change[b].seen # NoRate
       THEN [ change[b] EXCEPT !.at = "lost" ]
       ELSE change[b]]
  /\ UNCHANGED << own, default, trail, quote >>

\* upsertSetting for the platform.
ReadsDefault(a, to, expected, says) ==
  /\ Expected(First.rate, expected, says)
  /\ Starts(a, "default", to, First.rate)

\* The oldest row as read; no index keeps two creations apart.
WritesDefault(a) ==
  /\ change[a].at = "default"
  /\ default' = IF change[a].seen = NoRate THEN Append(default, change[a].to)
                ELSE [default EXCEPT ![1] = change[a].to]
  /\ Finishes(a)
  /\ UNCHANGED << own, category, trail, quote >>

\* A conflict, a row that is gone, an error.
ChangeFails(a) ==
  /\ change[a] # NoChange
  /\ Finishes(a)
  /\ UNCHANGED << own, category, default, trail, quote >>

Administers ==
  \E a \in Admins :
    \/ \E expected \in Rate, says \in BOOLEAN :
         \/ \E rate \in Rate : ReadsOwn(a, rate, expected, says)
         \/ \E rate \in Rates, active \in BOOLEAN :
              \/ ReadsCategory(a, [ rate |-> rate, active |-> active ], expected, says)
              \/ ReadsDefault(a, [ rate |-> rate, active |-> active ], expected, says)
    \/ WritesOwn(a) \/ WritesCategory(a) \/ ReadsRemoval(a) \/ RemovesCategory(a)
    \/ WritesDefault(a) \/ ChangeFails(a)

-----------------------------------------------------------------------------
(* resolveCommission: a statement for each rule, most particular first       *)

Prices(rate) ==
  quote' = [quote EXCEPT !.at = "priced", !.units = rate,
                         !.commission = CommissionFor(quote.line, rate)]

AsksSeller ==
  /\ quote.at = "SELLER"
  /\ IF own # NoRate THEN Prices(own) ELSE quote' = [quote EXCEPT !.at = "CATEGORY"]

AsksCategory ==
  /\ quote.at = "CATEGORY"
  /\ IF category.active THEN Prices(category.rate)
     ELSE quote' = [quote EXCEPT !.at = "GLOBAL"]

\* No active setting: CommissionNotConfiguredError, and no delivery.
AsksPlatform ==
  LET active == { i \in DOMAIN default : default[i].active } IN
  /\ quote.at = "GLOBAL"
  /\ IF active = {} THEN quote' = [quote EXCEPT !.at = "refused"]
     ELSE Prices(default[CHOOSE i \in active : \A j \in active : i <= j].rate)

Resolves ==
  /\ AsksSeller \/ AsksCategory \/ AsksPlatform
  /\ UNCHANGED << own, category, default, trail, change >>

-----------------------------------------------------------------------------

DeskInit ==
  /\ own = NoRate /\ category = NoSetting /\ default = << >> /\ trail = << >>
  /\ change = [a \in Admins |-> NoChange]
  /\ quote \in [ at : { "SELLER" }, units : { NoRate }, line : Amounts, commission : { 0 } ]

DeskNext == Administers \/ Resolves

DeskSpec == DeskInit /\ [][DeskNext]_deskVars

-----------------------------------------------------------------------------
(* Properties                                                                *)

\* Shapes of the rows; the commission of a line is never more than the line.
DeskTypeOK ==
  /\ own \in Rate /\ category \in Setting /\ default \in Seq(Setting)
  /\ trail \in Seq([ before : Rate, after : Rate ]) /\ Len(trail) <= MaxTrail
  /\ change \in [Admins -> Change]
  /\ quote \in Quote /\ quote.commission <= quote.line

\* "Two admins editing at once cannot silently overwrite each other": each
\* audited change of a seller's rate starts from where the one before it ended,
\* and the last one is the rate that is stored (setSellerOverride,
\* clearSellerOverride).
OverridesChain ==
  /\ \A i \in DOMAIN trail :
       trail[i].before = IF i = 1 THEN NoRate ELSE trail[i - 1].after
  /\ own = IF trail = << >> THEN NoRate ELSE trail[Len(trail)].after

=============================================================================

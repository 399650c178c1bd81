---------------------------- MODULE OrderLifecycle ----------------------------
(***************************************************************************)
(* Orders from checkout to cancellation, delivery and return: every        *)
(* handler that moves an order's status, with the stock, payment, earning  *)
(* and return rows it writes in the same database transaction.             *)
(*                                                                         *)
(* A handler first reads the order outside any transaction and refuses     *)
(* early; then, in a transaction, it locks the row (SELECT FOR UPDATE),    *)
(* re-validates it and writes.  A call is therefore in phase "begun"       *)
(* between its pre-read and its transaction.  The transaction is one step, *)
(* since the row it decides from is locked until it commits, except where  *)
(* it calls reverseEarning: that one reads a row it does not lock, and is  *)
(* split at that read (phase "locked").                                    *)
(*                                                                         *)
(* Orders are cash on delivery, the only method checkout accepts.          *)
(***************************************************************************)
EXTENDS OrderWorkflow, EarningsLedger, StockUnits

CONSTANTS
  Products, Callers,
  Requests,      \* return requests that may be created
  NoRequest, NoCall, Never,
  Qty,           \* Qty[o][p]: units of product p on the lines of order o
  InitialStock,
  Legacy,        \* orders that may predate the 2026-10 rules on forced changes
  ReturnWindow,  \* RETURN_WINDOW_DAYS, in the unit of now
  MaxTime,       \* bound on now
  MaxForced      \* bound on the forced changes administrators ask for

ASSUME OrdersAssumption ==
  /\ IsFiniteSet(Orders) /\ IsFiniteSet(Requests) /\ Legacy \subseteq Orders
  /\ Qty \in [Orders -> [Products -> Nat]]

ASSUME NullsAssumption ==
  /\ NoRequest \notin Requests
  /\ Never \notin Nat

ASSUME BoundsAssumption ==
  /\ ReturnWindow \in Nat /\ MaxTime \in Nat /\ MaxForced \in Nat

VARIABLES
  order,    \* the orders table
  cod,      \* status of the order's COD PAYMENT transaction
  refunds,  \* number of REFUND transactions of the order
  hold,     \* history: checkout took the order's units and nobody gave them back
  stock,    \* products.quantity
  sold,     \* products.unitsSold
  request,  \* the return_requests table
  call,     \* the request each caller is in the middle of
  now,
  forced    \* forced changes asked for so far, for the bound

tables == << order, cod, refunds, hold, stock, sold, request >>
vars == << order, cod, refunds, hold, stock, sold, request, call, now, forced, earning >>

-----------------------------------------------------------------------------
(* Rows                                                                      *)

Times == 0 .. MaxTime

OrderRow ==
  [ status      : Statuses \cup { "UNPLACED" },
    payment     : PaymentStatuses,
    deliveredAt : Times \cup { Never },
    released    : BOOLEAN ]  \* order_status_logs has a row into StockReleased

RequestRow ==
  [ order  : Orders \cup { NoRequest },
    status : { "UNUSED", "REQUESTED", "APPROVED", "REJECTED" } ]

Call ==
  [ op      : { "buyerCancel", "sellerReject", "adminCancel", "sellerMove",
                "tekaMove", "deliver", "force", "requestReturn", "approveReturn" },
    order   : Orders,
    to      : Statuses,
    request : Requests \cup { NoRequest },
    phase   : { "begun", "checked", "locked" },
    seen    : Reversals ]  \* what reverseEarning decided, once locked

ASSUME NoCallAssumption == NoCall \notin Call

NewCall(op, o, to, r) ==
  [ op |-> op, order |-> o, to |-> to, request |-> r,
    phase |-> "begun", seen |-> "nothing" ]

-----------------------------------------------------------------------------
(* Stock                                                                     *)

\* Units of p on the lines of the orders S.
Count(S, p) == UnitCount(Qty, S, p)

Held == { o \in Orders : hold[o] }

\* The seller's counts cover what legacy orders may still hold.
ASSUME StockAssumption ==
  /\ InitialStock \in [Products -> Nat]
  /\ \A S \in SUBSET Legacy : \A p \in Products : Count(S, p) <= InitialStock[p]

\* Variant: availability is read before the decrement and not re-checked by it.
TakeStock_Unconditional(G) ==
  /\ stock' = [p \in Products |-> stock[p] - Count(G, p)]
  /\ hold' = [o \in Orders |-> o \in G \/ hold[o]]

\* takeStock on every line of every order of one checkout: all or nothing.
TakeStock(G) ==
  /\ \A p \in Products : Count(G, p) <= stock[p]
  /\ stock' = [p \in Products |-> stock[p] - Count(G, p)]
  /\ hold' = [o \in Orders |-> o \in G \/ hold[o]]

GiveBack(o) ==
  /\ stock' = [p \in Products |-> stock[p] + Qty[o][p]]
  /\ hold' = [hold EXCEPT ![o] = FALSE]

\* Variant: the audit log is not consulted before restocking.
ReleaseOrderStockHold_NoHistory(o) == GiveBack(o)

\* releaseOrderStockHold: nothing when the history already shows a release.
ReleaseOrderStockHold(o) ==
  IF order[o].released THEN UNCHANGED << stock, hold >> ELSE GiveBack(o)

-----------------------------------------------------------------------------
(* What the handlers accept.  Each predicate is evaluated twice: on the      *)
(* pre-read row and on the locked row.                                       *)

BuyerMayCancel(row) ==
  row.status \in BuyerCancellable /\ ~BlocksCancellation(row.payment)

SellerMayReject(row) ==
  row.status = "PENDING" /\ ~BlocksCancellation(row.payment)

\* Variant: the payment is not looked at.
AdminMayCancel_AnyPayment(row) == row.status \in AdminCancellable

AdminMayCancel(row) ==
  row.status \in AdminCancellable /\ ~BlocksCancellation(row.payment)

\* validateForcedChange
ForceAllowed(row, to) ==
  /\ row.status # to
  /\ row.status \notin StockReleased
  /\ to = "CANCELLED" => AdminMayCancel(row)
  /\ to = "RETURNED" => row.status = "DELIVERED"

\* isWithinReturnWindow: the deadline itself is still inside.
WithinReturnWindow(row) ==
  row.deliveredAt # Never /\ now <= row.deliveredAt + ReturnWindow

ActiveRequest(o) ==
  \E r \in Requests : request[r].status = "REQUESTED" /\ request[r].order = o

Admits(k) ==
  LET row == order[k.order] IN
  /\ row.status # "UNPLACED"
  /\ CASE k.op = "buyerCancel"   -> BuyerMayCancel(row)
       [] k.op = "sellerReject"  -> SellerMayReject(row)
       [] k.op = "adminCancel"   -> AdminMayCancel(row)
       [] k.op = "sellerMove"    -> << row.status, k.to >> \in SellerSteps
       [] k.op \in { "tekaMove", "deliver" } -> CanTransition(row.status, k.to)
       [] k.op = "force"         -> ForceAllowed(row, k.to)
       [] k.op = "requestReturn" -> /\ row.status = "DELIVERED"
                                    /\ WithinReturnWindow(row)
       [] k.op = "approveReturn" -> /\ row.status = "DELIVERED"
                                    /\ request[k.request].status = "REQUESTED"
                                    /\ request[k.request].order = k.order


InProgress(c, phase) == call[c] # NoCall /\ call[c].phase = phase

\* A transaction that is still open holds these row locks.
OrderLocked(o) == \E c \in Callers : InProgress(c, "locked") /\ call[c].order = o

RequestLocked(r) == \E c \in Callers : InProgress(c, "locked") /\ call[c].request = r

Returns(c) == call' = [call EXCEPT ![c] = NoCall]

\* Variant: the transaction trusts the pre-read.
Revalidates_PreReadTrusted(k) == TRUE

\* The authoritative check of every transaction, on the row it has just locked.
Revalidates(k) == Admits(k)

\* Call c runs its whole transaction in this step.
Transacts(c, op) ==
  /\ InProgress(c, "begun") /\ call[c].op = op
  /\ ~OrderLocked(call[c].order)
  /\ Revalidates(call[c])
  /\ Returns(c)

-----------------------------------------------------------------------------
(* Effects the handlers share                                                *)

\* Variant: the order's payment fails, its COD transaction is left pending.
FailUnpaidCod_OrderOnly(o) == UNCHANGED cod

\* failUnpaidCodPayment, the transaction's side: only when the order was PENDING.
FailUnpaidCod(o) ==
  cod' = [cod EXCEPT ![o] =
            IF order[o].payment = "PENDING" /\ @ = "PENDING" THEN "FAILED" ELSE @]

\* Variant: the forced cancellation of before 2026-10, which moved only the status.
Cancel_StatusOnly(o) ==
  /\ order' = [order EXCEPT ![o].status = "CANCELLED", ![o].released = TRUE]
  /\ UNCHANGED << cod, refunds, hold, stock, sold, request, now, forced, earning >>

\* Stock release, log, COD failure and status of every cancellation.
Cancel(o) ==
  /\ ReleaseOrderStockHold(o)
  /\ FailUnpaidCod(o)
  /\ order' = [order EXCEPT ![o] =
                 [ @ EXCEPT !.status = "CANCELLED", !.released = TRUE,
                            !.payment = IF order[o].payment = "PENDING" THEN "FAILED"
                                        ELSE order[o].payment ]]
  /\ UNCHANGED << refunds, sold, request, now, forced, earning >>

Move(o, to) ==
  /\ order' = [order EXCEPT ![o].status = to]
  /\ UNCHANGED << cod, refunds, hold, stock, sold, request, now, forced, earning >>

-----------------------------------------------------------------------------
(* Checkout                                                                  *)

\* One checkout creates the orders of all its sellers, or nothing.
Checkout(G) ==
  /\ G # {} /\ \A o \in G : order[o].status = "UNPLACED"
  /\ TakeStock(G)
  /\ order' = [o \in Orders |->
                 IF o \in G
                 THEN [ status |-> "PENDING", payment |-> "PENDING",
                        deliveredAt |-> Never, released |-> FALSE ]
                 ELSE order[o]]
  /\ cod' = [o \in Orders |-> IF o \in G THEN "PENDING" ELSE cod[o]]
  /\ UNCHANGED << refunds, sold, request, call, now, forced, earning >>

-----------------------------------------------------------------------------
(* The fast path of every handler                                            *)

Cancellations(o) ==
  { NewCall(op, o, "CANCELLED", NoRequest) :
      op \in { "buyerCancel", "sellerReject", "adminCancel" } }

ForwardMoves(o) ==
  { NewCall("sellerMove", o, to, NoRequest) :
      to \in { "CONFIRMED", "PROCESSING", "READY_FOR_TEKA_PICKUP" } }
  \cup { NewCall("tekaMove", o, to, NoRequest) :
           to \in { "RECEIVED_AT_TEKA", "OUT_FOR_DELIVERY" } }
  \cup { NewCall("deliver", o, "DELIVERED", NoRequest) }

ForcedMoves(o) == { NewCall("force", o, to, NoRequest) : to \in Statuses }

ReturnCalls(o) ==
  { NewCall("requestReturn", o, "RETURNED", NoRequest) }
  \cup { NewCall("approveReturn", o, "RETURNED", r) : r \in Requests }

\* Bound: a return request is started only if a row is left for it to create.
RequestLeft ==
  Cardinality({ c \in Callers : call[c] # NoCall /\ call[c].op = "requestReturn" })
    < Cardinality({ r \in Requests : request[r].status = "UNUSED" })

\* The read outside the transaction; nothing but the call itself changes.
PreRead(c) ==
  /\ call[c] = NoCall
  /\ \E o \in Orders :
       \E k \in Cancellations(o) \cup ForwardMoves(o) \cup ForcedMoves(o)
                \cup ReturnCalls(o) :
         /\ Admits(k)
         /\ k.op = "force" => forced < MaxForced
         /\ k.op = "requestReturn" => RequestLeft
         /\ call' = [call EXCEPT ![c] = k]
         /\ forced' = IF k.op = "force" THEN forced + 1 ELSE forced
  /\ UNCHANGED << tables, now, earning >>

-----------------------------------------------------------------------------
(* The transactions                                                          *)

BuyerCancels(c)  == Transacts(c, "buyerCancel") /\ Cancel(call[c].order)
SellerRejects(c) == Transacts(c, "sellerReject") /\ Cancel(call[c].order)
AdminCancels(c)  == Transacts(c, "adminCancel") /\ Cancel(call[c].order)
SellerMoves(c)   == Transacts(c, "sellerMove") /\ Move(call[c].order, call[c].to)
TekaMoves(c)     == Transacts(c, "tekaMove") /\ Move(call[c].order, call[c].to)

ForceCancels(c) ==
  /\ call[c] # NoCall /\ call[c].to = "CANCELLED"
  /\ Transacts(c, "force")
  /\ Cancel(call[c].order)

\* markDelivered: cash collected, COD completed, earning created, units counted.
Delivers(c) ==
  /\ Transacts(c, "deliver")
  /\ LET o == call[c].order IN
     /\ order' = [order EXCEPT ![o] = [ @ EXCEPT !.status = "DELIVERED",
                                                 !.payment = "COMPLETED",
                                                 !.deliveredAt = now ]]
     /\ sold' = [p \in Products |-> sold[p] + Qty[o][p]]
     /\ cod' = [cod EXCEPT ![o] = "COMPLETED"]
     /\ CreateEarning(o)
  /\ UNCHANGED << refunds, hold, stock, request, now, forced >>

\* approveReturn, and forced moves other than a cancellation: lock, re-validate,
\* and (when the order leaves DELIVERED) read the earning.
Locks(c) ==
  /\ InProgress(c, "begun")
  /\ \/ call[c].op = "approveReturn" /\ ~RequestLocked(call[c].request)
     \/ call[c].op = "force" /\ call[c].to # "CANCELLED"
  /\ ~OrderLocked(call[c].order)
  /\ Revalidates(call[c])
  /\ LET o == call[c].order IN
     call' = [call EXCEPT ![c].phase = "locked",
                          ![c].seen = IF order[o].status = "DELIVERED"
                                      THEN ReversalOf(o) ELSE "nothing"]
  /\ UNCHANGED << tables, now, forced, earning >>

\* forceLockedOrder
Forces(c) ==
  /\ InProgress(c, "locked") /\ call[c].op = "force"
  /\ Returns(c)
  /\ LET o == call[c].order
         to == call[c].to IN
     /\ IF to = "RETURNED" THEN ReleaseOrderStockHold(o) ELSE UNCHANGED << stock, hold >>
     /\ order' = [order EXCEPT ![o] =
                    [ @ EXCEPT !.status = to,
                               !.released = order[o].released \/ to = "RETURNED",
                               !.deliveredAt =
                                 IF to = "DELIVERED" /\ order[o].deliveredAt = Never
                                 THEN now ELSE order[o].deliveredAt ]]
     /\ ApplyReversal(o, call[c].seen)
  /\ UNCHANGED << cod, refunds, sold, request, now, forced >>

\* The rest of approveReturn.
ApprovesReturn(c) ==
  /\ InProgress(c, "locked") /\ call[c].op = "approveReturn"
  /\ Returns(c)
  /\ LET o == call[c].order
         r == call[c].request IN
     /\ request' = [request EXCEPT ![r].status = "APPROVED"]
     /\ ReleaseOrderStockHold(o)
     /\ order' = [order EXCEPT ![o] = [ @ EXCEPT !.status = "RETURNED",
                                                 !.released = TRUE ]]
     /\ ApplyReversal(o, call[c].seen)
     /\ refunds' = [refunds EXCEPT ![o] = @ + 1]
  /\ UNCHANGED << cod, sold, now, forced >>

\* createReturnRequest takes no lock: it looks for an active request ...
LooksForActiveRequest(c) ==
  /\ InProgress(c, "begun") /\ call[c].op = "requestReturn"
  /\ ~ActiveRequest(call[c].order)
  /\ call' = [call EXCEPT ![c].phase = "checked"]
  /\ UNCHANGED << tables, now, forced, earning >>

\* ... and creates one.
CreatesRequest(c) ==
  /\ InProgress(c, "checked")
  /\ \E r \in Requests :
       /\ request[r].status = "UNUSED"
       /\ request' = [request EXCEPT ![r] = [ order |-> call[c].order,
                                              status |-> "REQUESTED" ]]
  /\ Returns(c)
  /\ UNCHANGED << order, cod, refunds, hold, stock, sold, now, forced, earning >>

RejectReturn(r) ==
  /\ request[r].status = "REQUESTED" /\ ~RequestLocked(r)
  /\ request' = [request EXCEPT ![r].status = "REJECTED"]
  /\ UNCHANGED << order, cod, refunds, hold, stock, sold, call, now, forced, earning >>

\* The check on the locked row (or the search for an active request) says no.
Refused(c) ==
  /\ InProgress(c, "begun")
  /\ IF call[c].op = "requestReturn"
     THEN ActiveRequest(call[c].order)
     ELSE ~OrderLocked(call[c].order) /\ ~Revalidates(call[c])
  /\ Returns(c)
  /\ UNCHANGED << tables, now, forced, earning >>

\* The transaction times out, its connection drops or a later statement fails
\* (no commission rule, say): everything rolls back.
Aborts(c) ==
  /\ call[c] # NoCall
  /\ Returns(c)
  /\ UNCHANGED << tables, now, forced, earning >>

Tick ==
  /\ now < MaxTime
  /\ now' = now + 1
  /\ UNCHANGED << tables, call, forced, earning >>

-----------------------------------------------------------------------------

\* What the forced transitions before 2026-10 could leave behind: an order that
\* was cancelled, with or without restocking, and then moved back to work.
LegacyRow ==
  [ status : AdminCancellable, payment : { "PENDING", "FAILED" },
    deliveredAt : { Never }, released : { TRUE } ]

UnplacedRow ==
  [ status |-> "UNPLACED", payment |-> "PENDING",
    deliveredAt |-> Never, released |-> FALSE ]

Init ==
  /\ EarningInit
  /\ order \in { f \in [Orders -> LegacyRow \cup { UnplacedRow }] :
                   \A o \in Orders \ Legacy : f[o] = UnplacedRow }
  /\ cod = [o \in Orders |-> order[o].payment]
  /\ hold \in { f \in [Orders -> BOOLEAN] :
                  \A o \in Orders : f[o] => order[o] # UnplacedRow }
  /\ refunds = [o \in Orders |-> 0]
  /\ stock = [p \in Products |-> InitialStock[p] - Count(Held, p)]
  /\ sold = [p \in Products |-> 0]
  /\ request = [r \in Requests |-> [ order |-> NoRequest, status |-> "UNUSED" ]]
  /\ call = [c \in Callers |-> NoCall]
  /\ now = 0
  /\ forced = 0

\* What call c does next when nothing goes wrong.
Proceeds(c) ==
  \/ BuyerCancels(c) \/ SellerRejects(c) \/ AdminCancels(c)
  \/ SellerMoves(c) \/ TekaMoves(c) \/ Delivers(c)
  \/ ForceCancels(c) \/ Locks(c) \/ Forces(c) \/ ApprovesReturn(c)
  \/ LooksForActiveRequest(c) \/ CreatesRequest(c)
  \/ Refused(c)

Next ==
  \/ \E G \in SUBSET Orders : Checkout(G)
  \/ \E c \in Callers : PreRead(c) \/ Proceeds(c) \/ Aborts(c)
  \/ \E r \in Requests : RejectReturn(r)
  \/ Tick

Spec == Init /\ [][Next]_vars

-----------------------------------------------------------------------------
(* The abstract specification                                                *)

\* Where an order is in the life of its stock hold.
HoldPhase ==
  [o \in Orders |->
     IF hold[o] THEN "holding"
     ELSE IF order[o].status = "UNPLACED" THEN "none" ELSE "ended"]

Ledger == INSTANCE StockLedger WITH shelf <- stock, phase <- HoldPhase, Taken <- Count

-----------------------------------------------------------------------------
(* Properties                                                                *)

\* Every row and every call in progress has the shape the schema gives it;
\* stock and unitsSold are never negative.
TypeOK ==
  /\ EarningTypeOK
  /\ order \in [Orders -> OrderRow]
  /\ cod \in [Orders -> PaymentStatuses]
  /\ refunds \in [Orders -> Nat]
  /\ hold \in [Orders -> BOOLEAN]
  /\ stock \in [Products -> Nat]
  /\ sold \in [Products -> Nat]
  /\ request \in [Requests -> RequestRow]
  /\ call \in [Callers -> Call \cup { NoCall }]
  /\ now \in Times
  /\ forced \in 0 .. MaxForced

\* No unit of a product is ever lost, sold twice or restocked twice: what is on
\* the shelf and what live orders hold add up to the initial stock, whatever
\* cancellations, forced changes, returns and checkouts race (takeStock,
\* releaseOrderStockHold).
StockConserved ==
  \A p \in Products : stock[p] + Count(Held, p) = InitialStock[p]

\* The handlers implement StockLedger: an order takes its units once, with its
\* whole checkout, and gives them back at most once, in one transaction
\* (takeStock, releaseOrderStockHold and every handler that calls them).
ImplementsLedger == Ledger!Spec

\* The hold of an order lasts exactly as long as the sale: from checkout to the
\* first entry into CANCELLED or RETURNED.  Only a legacy order, whose history
\* cannot tell, may keep its hold for ever (order-inventory.ts, "no guess").
HoldLastsAsLongAsTheSale ==
  \A o \in Orders \ Legacy :
    hold[o] <=> order[o].status \notin StockReleased \cup { "UNPLACED" }

\* A cancelled order never hides cash, and its payment is closed: failed on the
\* order and on its COD transaction alike (failUnpaidCodPayment, D7).
CancelledHidesNoCash ==
  \A o \in Orders :
    order[o].status = "CANCELLED" => order[o].payment = "FAILED" /\ cod[o] = "FAILED"

\* The order and its COD transaction never tell two stories about the cash.
PaymentMatchesTransaction ==
  \A o \in Orders : cod[o] = order[o].payment

\* An order is refunded at most once, by an approved return request of its own,
\* however many requests were created and reviewed concurrently.
RefundedOnce ==
  \A o \in Orders :
    /\ refunds[o] = Cardinality({ r \in Requests : /\ request[r].status = "APPROVED"
                                                   /\ request[r].order = o })
    /\ refunds[o] <= 1
    /\ refunds[o] = 1 => order[o].status = "RETURNED"

\* A seller's earning counts only while the sale stands: once the order left
\* DELIVERED the row is reversed, or flagged for a clawback.
EarningFollowsSale ==
  \A o \in Orders :
    earning[o].state = "live" /\ ~earning[o].clawback => order[o].status = "DELIVERED"

\* CANCELLED and RETURNED are absorbing: no handler, forced changes included,
\* moves an order out of them, even one that read the order before it got there.
FinalStatusesAbsorb ==
  [][\A o \in Orders :
       order[o].status \in StockReleased => order'[o].status = order[o].status]_vars

=============================================================================

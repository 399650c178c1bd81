---------------------------- MODULE OrderWorkflow ----------------------------
(***************************************************************************)
(* The order status table and the sets of statuses every order handler     *)
(* decides from: apps/api/src/orders/order-workflow.constants.ts and       *)
(* apps/api/src/orders/order-inventory.ts.  Constant operators only.       *)
(***************************************************************************)
EXTENDS Naturals

Statuses ==
  { "PENDING", "CONFIRMED", "PROCESSING", "READY_FOR_TEKA_PICKUP",
    "RECEIVED_AT_TEKA", "SHIPPED", "OUT_FOR_DELIVERY", "DELIVERED",
    "CANCELLED", "RETURNED" }

\* PROCESSING and REFUNDED exist in the schema; no service writes them on an order.
PaymentStatuses == { "PENDING", "COMPLETED", "FAILED", "REFUNDED" }

\* ORDER_STATUS_TRANSITIONS as a relation.
OrderStatusTransitions ==
  { <<"PENDING", "CONFIRMED">>,              <<"PENDING", "CANCELLED">>,
    <<"CONFIRMED", "PROCESSING">>,           <<"CONFIRMED", "CANCELLED">>,
    <<"PROCESSING", "READY_FOR_TEKA_PICKUP">>, <<"PROCESSING", "CANCELLED">>,
    <<"READY_FOR_TEKA_PICKUP", "RECEIVED_AT_TEKA">>,
    <<"READY_FOR_TEKA_PICKUP", "CANCELLED">>,
    <<"RECEIVED_AT_TEKA", "OUT_FOR_DELIVERY">>, <<"RECEIVED_AT_TEKA", "CANCELLED">>,
    <<"OUT_FOR_DELIVERY", "DELIVERED">>,
    <<"SHIPPED", "OUT_FOR_DELIVERY">>,       <<"SHIPPED", "DELIVERED">>,
    <<"DELIVERED", "RETURNED">> }

CanTransition(from, to) == <<from, to>> \in OrderStatusTransitions

\* The three moves a seller drives (confirmOrder, processOrder, markReadyForPickup).
SellerSteps ==
  { <<"PENDING", "CONFIRMED">>, <<"CONFIRMED", "PROCESSING">>,
    <<"PROCESSING", "READY_FOR_TEKA_PICKUP">> }

BuyerCancellable == { "PENDING", "CONFIRMED", "PROCESSING" }

AdminCancellable ==
  { "PENDING", "CONFIRMED", "PROCESSING", "READY_FOR_TEKA_PICKUP",
    "RECEIVED_AT_TEKA", "SHIPPED", "OUT_FOR_DELIVERY" }

\* The statuses whose first entry gives the checkout stock hold back.
StockReleased == { "CANCELLED", "RETURNED" }

\* Money was collected, or already given back: a cancellation must not hide it.
BlocksCancellation(payment) == payment \in { "COMPLETED", "REFUNDED" }

=============================================================================

------------------------- MODULE OrderLifecycleProofs -------------------------
(***************************************************************************)
(* Theorems of OrderLifecycle, for any number of orders, products,         *)
(* concurrent calls and return requests, and for every quantity, stock and *)
(* bound.                                                                  *)
(***************************************************************************)
EXTENDS OrderLifecycle, Integers, FiniteSetTheorems, TLAPS

-----------------------------------------------------------------------------
(* Counting units: a natural number, one order's quantity, additive          *)

\* The units of finitely many orders are finitely many (order_items rows of one
\* checkout, each with a quantity).
LEMMA UnitsFinite ==
  ASSUME NEW S, IsFiniteSet(S), NEW qty, NEW p, \A o \in S : qty[o][p] \in Nat
  PROVE  IsFiniteSet(Units(qty, S, p))
<1> DEFINE line == [o \in S |-> {o} \X (1 .. qty[o][p])]
           Lines == { {o} \X (1 .. qty[o][p]) : o \in S }
<1>1. line \in Surjection(S, Lines)
  BY DEF Surjection
<1>2. IsFiniteSet(Lines)
  BY <1>1, FS_Surjection
<1>3. ASSUME NEW o \in S PROVE IsFiniteSet({o} \X (1 .. qty[o][p]))
  <2>1. IsFiniteSet({o})
    BY FS_Singleton
  <2>2. IsFiniteSet(1 .. qty[o][p])
    BY FS_Interval
  <2>3. QED
    BY <2>1, <2>2, FS_Product
<1>4. \A T \in Lines : IsFiniteSet(T)
  BY <1>3
<1>5. QED
  BY <1>2, <1>4, FS_UNION DEF Units

\* The number of units of a set of orders is a natural number.
LEMMA UnitCountNat ==
  ASSUME NEW S, IsFiniteSet(S), NEW qty, NEW p, \A o \in S : qty[o][p] \in Nat
  PROVE  UnitCount(qty, S, p) \in Nat
BY UnitsFinite, FS_CardinalityType DEF UnitCount

\* One order accounts for exactly the quantity on its lines (takeStock and
\* releaseOrderStockHold move item.quantity units per line).
LEMMA UnitCountOne ==
  ASSUME NEW o, NEW qty, NEW p, qty[o][p] \in Nat
  PROVE  UnitCount(qty, {o}, p) = qty[o][p]
<1>1. Units(qty, {o}, p) = {o} \X (1 .. qty[o][p])
  BY DEF Units
<1>2. IsFiniteSet({o}) /\ Cardinality({o}) = 1
  BY FS_Singleton
<1>3. ASSUME NEW n \in Nat PROVE IsFiniteSet(1 .. n) /\ Cardinality(1 .. n) = n
  <2>1. /\ IsFiniteSet(1 .. n)
        /\ Cardinality(1 .. n) = IF 1 > n THEN 0 ELSE n - 1 + 1
    BY FS_Interval
  <2>2. (IF 1 > n THEN 0 ELSE n - 1 + 1) = n
    OBVIOUS
  <2>3. QED
    BY <2>1, <2>2
<1>4. Cardinality({o} \X (1 .. qty[o][p])) = qty[o][p]
  <2>1. ASSUME NEW n \in Nat PROVE 1 * n = n
    OBVIOUS
  <2>2. Cardinality({o} \X (1 .. qty[o][p])) = Cardinality({o}) * Cardinality(1 .. qty[o][p])
    BY <1>2, <1>3, FS_Product
  <2>3. QED
    BY <1>2, <1>3, <2>1, <2>2
<1>5. QED
  BY <1>1, <1>4 DEF UnitCount

\* The units of two disjoint sets of orders add up.
LEMMA UnitCountDisjoint ==
  ASSUME NEW S, IsFiniteSet(S), NEW T, IsFiniteSet(T), S \cap T = {},
         NEW qty, NEW p, \A o \in S \cup T : qty[o][p] \in Nat
  PROVE  UnitCount(qty, S \cup T, p) = UnitCount(qty, S, p) + UnitCount(qty, T, p)
<1>1. Units(qty, S \cup T, p) = Units(qty, S, p) \cup Units(qty, T, p)
  BY DEF Units
<1>2. Units(qty, S, p) \cap Units(qty, T, p) = {}
  BY DEF Units
<1>3. IsFiniteSet(Units(qty, S, p)) /\ IsFiniteSet(Units(qty, T, p))
  BY UnitsFinite
<1>4. /\ Cardinality(Units(qty, S, p)) \in Nat
      /\ Cardinality(Units(qty, T, p)) \in Nat
  BY <1>3, FS_CardinalityType
<1>5. Cardinality(Units(qty, S, p) \cap Units(qty, T, p)) = 0
  BY <1>2, FS_EmptySet
<1>6. Cardinality(Units(qty, S, p) \cup Units(qty, T, p)) =
        Cardinality(Units(qty, S, p)) + Cardinality(Units(qty, T, p)) - 0
  BY <1>3, <1>5, FS_Union
<1>7. ASSUME NEW a \in Nat, NEW b \in Nat PROVE a + b - 0 = a + b
  OBVIOUS
<1>8. QED
  BY <1>1, <1>4, <1>6, <1>7 DEF UnitCount

-----------------------------------------------------------------------------
(* Facts about the operators                                                 *)

\* Counting units: of a set of orders, when an order leaves it, when a checkout
\* joins it.
LEMMA CountNat ==
  ASSUME NEW S \in SUBSET Orders, NEW p \in Products
  PROVE  Count(S, p) \in Nat
<1>1. IsFiniteSet(S)
  BY OrdersAssumption, FS_Subset
<1>2. QED
  BY <1>1, UnitCountNat, OrdersAssumption DEF Count

\* Taking an order out of a set takes exactly its own units out of the total.
LEMMA CountWithout ==
  ASSUME NEW S \in SUBSET Orders, NEW o \in S, NEW p \in Products
  PROVE  Count(S, p) = Count(S \ {o}, p) + Qty[o][p]
<1>1. IsFiniteSet(S \ {o}) /\ IsFiniteSet({o})
  BY OrdersAssumption, FS_Subset, FS_Singleton
<1>2. S = (S \ {o}) \cup {o} /\ (S \ {o}) \cap {o} = {}
  OBVIOUS
<1>3. UnitCount(Qty, {o}, p) = Qty[o][p]
  BY UnitCountOne, OrdersAssumption
<1>4. \A x \in S : Qty[x][p] \in Nat
  BY OrdersAssumption
<1>5. UnitCount(Qty, (S \ {o}) \cup {o}, p) =
        UnitCount(Qty, S \ {o}, p) + UnitCount(Qty, {o}, p)
  BY <1>1, <1>2, <1>4, UnitCountDisjoint
<1>6. QED
  BY <1>2, <1>3, <1>5 DEF Count

\* The units of two disjoint sets of orders add up.
LEMMA CountTogether ==
  ASSUME NEW S \in SUBSET Orders, NEW G \in SUBSET Orders, S \cap G = {},
         NEW p \in Products
  PROVE  Count(S \cup G, p) = Count(S, p) + Count(G, p)
<1>1. IsFiniteSet(S) /\ IsFiniteSet(G)
  BY OrdersAssumption, FS_Subset
<1>2. \A x \in S \cup G : Qty[x][p] \in Nat
  BY OrdersAssumption
<1>3. QED
  BY <1>1, <1>2, UnitCountDisjoint DEF Count

\* A call starts well formed, in phase "begun", for the order it names.
LEMMA NewCallShape ==
  ASSUME NEW o \in Orders,
         NEW k \in Cancellations(o) \cup ForwardMoves(o) \cup ForcedMoves(o)
                     \cup ReturnCalls(o)
  PROVE  k \in Call /\ k.order = o /\ k.phase = "begun"
<1>1. ASSUME NEW op \in { "buyerCancel", "sellerReject", "adminCancel", "sellerMove",
                          "tekaMove", "deliver", "force", "requestReturn",
                          "approveReturn" },
             NEW to \in Statuses, NEW r \in Requests \cup {NoRequest}
      PROVE  /\ NewCall(op, o, to, r) \in Call
             /\ NewCall(op, o, to, r).order = o
             /\ NewCall(op, o, to, r).phase = "begun"
  BY DEF NewCall, Call, Reversals
<1>2. CASE k \in Cancellations(o)
  BY <1>1, <1>2 DEF Cancellations, Statuses
<1>3. CASE k \in ForwardMoves(o)
  BY <1>1, <1>3 DEF ForwardMoves, Statuses
<1>4. CASE k \in ForcedMoves(o)
  BY <1>1, <1>4 DEF ForcedMoves
<1>5. CASE k \in ReturnCalls(o)
  BY <1>1, <1>5 DEF ReturnCalls, Statuses
<1>6. QED
  BY <1>2, <1>3, <1>4, <1>5

\* A call in progress is a call.
LEMMA CallShape ==
  ASSUME TypeOK, NEW c \in Callers, call[c] # NoCall
  PROVE  /\ call[c] \in Call
         /\ call[c].order \in Orders
         /\ call[c].to \in Statuses
         /\ call[c].request \in Requests \cup {NoRequest}
         /\ call[c].seen \in Reversals
BY DEF TypeOK, Call

-----------------------------------------------------------------------------
(* Type correctness                                                          *)

\* What the two halves of a stock release do to the types.
LEMMA ReleaseTypes ==
  ASSUME TypeOK, NEW o \in Orders,
         ReleaseOrderStockHold(o) \/ UNCHANGED << stock, hold >>
  PROVE  stock' \in [Products -> Nat] /\ hold' \in [Orders -> BOOLEAN]
<1>1. CASE UNCHANGED << stock, hold >>
  BY <1>1 DEF TypeOK
<1>2. CASE GiveBack(o)
  <2>1. \A p \in Products : stock[p] \in Nat /\ Qty[o][p] \in Nat
    BY OrdersAssumption DEF TypeOK
  <2>2. \A p \in Products : stock[p] + Qty[o][p] \in Nat
    BY <2>1
  <2>3. hold \in [Orders -> BOOLEAN]
    BY DEF TypeOK
  <2>4. QED
    BY <1>2, <2>2, <2>3 DEF GiveBack
<1>3. QED
  BY <1>1, <1>2 DEF ReleaseOrderStockHold

\* An order row keeps its shape under the assignments of the handlers.
LEMMA RowTypes ==
  ASSUME TypeOK, NEW o \in Orders, NEW s \in Statuses, NEW m \in PaymentStatuses,
         NEW t \in Times \cup {Never}, NEW b \in BOOLEAN,
         \/ order' = [order EXCEPT ![o].status = s]
         \/ order' = [order EXCEPT ![o] =
                        [ @ EXCEPT !.status = s, !.released = b, !.payment = m ]]
         \/ order' = [order EXCEPT ![o] =
                        [ @ EXCEPT !.status = s, !.payment = m, !.deliveredAt = t ]]
         \/ order' = [order EXCEPT ![o] =
                        [ @ EXCEPT !.status = s, !.released = b, !.deliveredAt = t ]]
         \/ order' = [order EXCEPT ![o] = [ @ EXCEPT !.status = s, !.released = b ]]
  PROVE  order' \in [Orders -> OrderRow]
<1>1. order \in [Orders -> OrderRow] /\ order[o] \in OrderRow
  BY DEF TypeOK
<1>2. /\ [order[o] EXCEPT !.status = s] \in OrderRow
      /\ [order[o] EXCEPT !.status = s, !.released = b, !.payment = m] \in OrderRow
      /\ [order[o] EXCEPT !.status = s, !.payment = m, !.deliveredAt = t] \in OrderRow
      /\ [order[o] EXCEPT !.status = s, !.released = b, !.deliveredAt = t] \in OrderRow
      /\ [order[o] EXCEPT !.status = s, !.released = b] \in OrderRow
  BY <1>1 DEF OrderRow
<1>3. QED
  BY <1>1, <1>2

\* createEarning and reverseEarning keep the earning rows well formed.
LEMMA EarningTypes ==
  ASSUME TypeOK, NEW o \in Orders, NEW d,
         ApplyReversal(o, d) \/ CreateEarning(o) \/ UNCHANGED earning
  PROVE  EarningTypeOK'
<1>1. CASE UNCHANGED earning
  BY <1>1 DEF TypeOK, EarningTypeOK
<1>2. CASE CreateEarning(o)
  BY <1>2 DEF TypeOK, EarningTypeOK, EarningRow, CreateEarning
<1>3. CASE ApplyReversal(o, d)
  BY <1>3, ZenonT(40) DEF TypeOK, EarningTypeOK, EarningRow, ApplyReversal
<1>4. QED
  BY <1>1, <1>2, <1>3

\* Ending a call, or moving it to its next phase, keeps the calls well formed.
LEMMA CallTypes ==
  ASSUME TypeOK, NEW c \in Callers, call[c] # NoCall,
         NEW seen \in Reversals, NEW phase \in { "begun", "checked", "locked" },
         \/ Returns(c)
         \/ call' = [call EXCEPT ![c].phase = phase]
         \/ call' = [call EXCEPT ![c].phase = phase, ![c].seen = seen]
  PROVE  call' \in [Callers -> Call \cup {NoCall}]
<1>1. call \in [Callers -> Call \cup {NoCall}] /\ call[c] \in Call
  BY DEF TypeOK
<1>2. /\ [call[c] EXCEPT !.phase = phase] \in Call
      /\ [call[c] EXCEPT !.phase = phase, !.seen = seen] \in Call
  BY <1>1 DEF Call
<1>3. CASE Returns(c)
  BY <1>1, <1>3 DEF Returns
<1>4. CASE call' = [call EXCEPT ![c].phase = phase]
  BY <1>1, <1>2, <1>4
<1>5. CASE call' = [call EXCEPT ![c].phase = phase, ![c].seen = seen]
  BY <1>1, <1>2, <1>5
<1>6. QED
  BY <1>3, <1>4, <1>5

\* An order row keeps its shape under every assignment a handler makes.
LEMMA CancelTypes ==
  ASSUME TypeOK, NEW c \in Callers, call[c] # NoCall, Returns(c), Cancel(call[c].order)
  PROVE  TypeOK'
<1> DEFINE o == call[c].order
<1>1. o \in Orders
  BY CallShape
<1>2. stock' \in [Products -> Nat] /\ hold' \in [Orders -> BOOLEAN]
  BY <1>1, ReleaseTypes DEF Cancel
<1>3. EarningTypeOK'
  BY <1>1, EarningTypes DEF Cancel
<1>4. call' \in [Callers -> Call \cup {NoCall}]
  BY CallTypes DEF Reversals
<1>5. order' \in [Orders -> OrderRow]
  <2> DEFINE m == IF order[o].payment = "PENDING" THEN "FAILED" ELSE order[o].payment
  <2>1. m \in PaymentStatuses /\ "CANCELLED" \in Statuses
    BY <1>1 DEF TypeOK, OrderRow, PaymentStatuses, Statuses
  <2>2. Never \in Times \cup {Never}
    OBVIOUS
  <2>3. order' = [order EXCEPT ![o] = [ @ EXCEPT !.status = "CANCELLED",
                                                 !.released = TRUE, !.payment = m ]]
    BY DEF Cancel
  <2>4. QED
    BY <1>1, <2>1, <2>2, <2>3, RowTypes
<1>6. cod' \in [Orders -> PaymentStatuses]
  BY DEF Cancel, FailUnpaidCod, TypeOK, PaymentStatuses
<1>7. QED
  BY <1>2, <1>3, <1>4, <1>5, <1>6 DEF Cancel, TypeOK

\* A plain status move keeps every row well formed.
LEMMA MoveTypes ==
  ASSUME TypeOK, NEW c \in Callers, call[c] # NoCall, Returns(c),
         Move(call[c].order, call[c].to)
  PROVE  TypeOK'
<1>1. call' \in [Callers -> Call \cup {NoCall}]
  BY CallTypes DEF Reversals
<1>2. order' \in [Orders -> OrderRow]
  BY CallShape, ZenonT(40) DEF Move, TypeOK, OrderRow
<1>3. QED
  BY <1>1, <1>2 DEF Move, TypeOK, EarningTypeOK

\* The initial rows, legacy ones included, are well formed.
LEMMA TypeInit ==
  ASSUME Init
  PROVE  TypeOK
<1>1. EarningTypeOK
  BY DEF Init, EarningInit, EarningTypeOK, NoEarning, EarningRow
<1>2. order \in [Orders -> OrderRow]
  <2>1. AdminCancellable \subseteq Statuses /\ { "PENDING", "FAILED" } \subseteq PaymentStatuses
    BY DEF AdminCancellable, Statuses, PaymentStatuses
  <2>2. LegacyRow \subseteq OrderRow
    BY <2>1 DEF LegacyRow, OrderRow
  <2>3. UnplacedRow \in OrderRow
    BY <2>1 DEF UnplacedRow, OrderRow
  <2>4. QED
    BY <2>2, <2>3 DEF Init
<1>3. cod \in [Orders -> PaymentStatuses]
  BY <1>2 DEF Init, OrderRow
<1>4. Held \in SUBSET Legacy
  BY OrdersAssumption DEF Init, Held
<1>5. ASSUME NEW p \in Products PROVE InitialStock[p] - Count(Held, p) \in Nat
  <2>1. Count(Held, p) \in Nat
    BY <1>4, CountNat, OrdersAssumption
  <2>2. Count(Held, p) <= InitialStock[p] /\ InitialStock[p] \in Nat
    BY <1>4, StockAssumption
  <2>3. QED
    BY <2>1, <2>2
<1>6. stock \in [Products -> Nat]
  BY <1>5 DEF Init
<1>7. request \in [Requests -> RequestRow]
  BY DEF Init, RequestRow
<1>8. QED
  BY <1>1, <1>2, <1>3, <1>6, <1>7, BoundsAssumption DEF Init, TypeOK, Times

\* No step of an order handler breaks the shape of a row or of a call.
LEMMA TypeStep ==
  ASSUME TypeOK, [Next]_vars
  PROVE  TypeOK'
<1>1. ASSUME NEW G \in SUBSET Orders, Checkout(G) PROVE TypeOK'
  <2>1. \A p \in Products : Count(G, p) \in Nat
    BY CountNat
  <2>2. stock' \in [Products -> Nat] /\ hold' \in [Orders -> BOOLEAN]
    BY <1>1, <2>1 DEF Checkout, TakeStock, TypeOK
  <2>3. order' \in [Orders -> OrderRow]
    BY <1>1 DEF Checkout, TypeOK, OrderRow, Statuses, PaymentStatuses
  <2>4. cod' \in [Orders -> PaymentStatuses]
    BY <1>1 DEF Checkout, TypeOK, PaymentStatuses
  <2>5. QED
    BY <1>1, <2>2, <2>3, <2>4 DEF Checkout, TypeOK, EarningTypeOK
<1>2. ASSUME NEW c \in Callers, PreRead(c) PROVE TypeOK'
  <2>1. call' \in [Callers -> Call \cup {NoCall}]
    BY <1>2, NewCallShape DEF PreRead, TypeOK
  <2>2. forced' \in 0 .. MaxForced
    BY <1>2, BoundsAssumption DEF PreRead, TypeOK
  <2>3. QED
    BY <1>2, <2>1, <2>2 DEF PreRead, TypeOK, EarningTypeOK, tables
<1>3. ASSUME NEW c \in Callers, BuyerCancels(c) PROVE TypeOK'
  BY <1>3, CancelTypes DEF BuyerCancels, Transacts, InProgress
<1>4. ASSUME NEW c \in Callers, SellerRejects(c) PROVE TypeOK'
  BY <1>4, CancelTypes DEF SellerRejects, Transacts, InProgress
<1>5. ASSUME NEW c \in Callers, AdminCancels(c) PROVE TypeOK'
  BY <1>5, CancelTypes DEF AdminCancels, Transacts, InProgress
<1>6. ASSUME NEW c \in Callers, ForceCancels(c) PROVE TypeOK'
  BY <1>6, CancelTypes DEF ForceCancels, Transacts, InProgress
<1>7. ASSUME NEW c \in Callers, SellerMoves(c) \/ TekaMoves(c) PROVE TypeOK'
  BY <1>7, MoveTypes DEF SellerMoves, TekaMoves, Transacts, InProgress
<1>8. ASSUME NEW c \in Callers, Delivers(c) PROVE TypeOK'
  <2>1. call[c] # NoCall /\ Returns(c) /\ call[c].order \in Orders
    BY <1>8, CallShape DEF Delivers, Transacts, InProgress
  <2>2. call' \in [Callers -> Call \cup {NoCall}]
    BY <2>1, CallTypes DEF Reversals
  <2>3. order' \in [Orders -> OrderRow]
    <3>1. "DELIVERED" \in Statuses /\ "COMPLETED" \in PaymentStatuses /\ now \in Times
      BY DEF Statuses, PaymentStatuses, TypeOK
    <3>2. QED
      BY <1>8, <2>1, <3>1, RowTypes DEF Delivers
  <2>4. sold' \in [Products -> Nat]
    <3>1. \A p \in Products : /\ sold[p] \in Nat
                              /\ Qty[call[c].order][p] \in Nat
      BY <2>1, OrdersAssumption DEF TypeOK
    <3>2. \A p \in Products : sold[p] + Qty[call[c].order][p] \in Nat
      BY <3>1
    <3>3. QED
      BY <1>8, <3>2 DEF Delivers
  <2>5. cod' \in [Orders -> PaymentStatuses]
    BY <1>8 DEF Delivers, TypeOK, PaymentStatuses
  <2>6. EarningTypeOK'
    BY <1>8, <2>1, EarningTypes DEF Delivers
  <2>7. QED
    BY <1>8, <2>2, <2>3, <2>4, <2>5, <2>6 DEF Delivers, TypeOK
<1>9. ASSUME NEW c \in Callers, Locks(c) PROVE TypeOK'
  <2>1. (IF order[call[c].order].status = "DELIVERED"
         THEN ReversalOf(call[c].order) ELSE "nothing") \in Reversals
    BY DEF ReversalOf, Reversals
  <2>2. call' \in [Callers -> Call \cup {NoCall}]
    BY <1>9, <2>1, CallTypes DEF Locks, InProgress
  <2>3. QED
    BY <1>9, <2>2 DEF Locks, TypeOK, EarningTypeOK, tables
<1>10. ASSUME NEW c \in Callers, Forces(c) PROVE TypeOK'
  <2>1. call[c] # NoCall /\ Returns(c)
    BY <1>10 DEF Forces, InProgress
  <2>2. call[c].order \in Orders /\ call[c].to \in Statuses
    BY <2>1, CallShape
  <2>3. call' \in [Callers -> Call \cup {NoCall}]
    BY <2>1, CallTypes DEF Reversals
  <2>4. stock' \in [Products -> Nat] /\ hold' \in [Orders -> BOOLEAN]
    BY <1>10, <2>2, ReleaseTypes DEF Forces
  <2>5. EarningTypeOK'
    BY <1>10, <2>2, EarningTypes DEF Forces
  <2>6. order' \in [Orders -> OrderRow]
    <3> DEFINE o == call[c].order
               to == call[c].to
               b == order[o].released \/ to = "RETURNED"
               t == IF to = "DELIVERED" /\ order[o].deliveredAt = Never
                    THEN now ELSE order[o].deliveredAt
    <3>1. b \in BOOLEAN /\ t \in Times \cup {Never}
      BY <2>2 DEF TypeOK, OrderRow
    <3>2. order' = [order EXCEPT ![o] = [ @ EXCEPT !.status = to, !.released = b,
                                                   !.deliveredAt = t ]]
      BY <1>10 DEF Forces
    <3>3. "PENDING" \in PaymentStatuses
      BY DEF PaymentStatuses
    <3> HIDE DEF b, t
    <3>4. QED
      BY <2>2, <3>1, <3>2, <3>3, RowTypes
  <2>7. QED
    BY <1>10, <2>3, <2>4, <2>5, <2>6 DEF Forces, TypeOK
<1>11. ASSUME NEW c \in Callers, ApprovesReturn(c) PROVE TypeOK'
  <2>1. call[c] # NoCall /\ Returns(c)
    BY <1>11 DEF ApprovesReturn, InProgress
  <2>2. call[c].order \in Orders
    BY <2>1, CallShape
  <2>3. call' \in [Callers -> Call \cup {NoCall}]
    BY <2>1, CallTypes DEF Reversals
  <2>4. stock' \in [Products -> Nat] /\ hold' \in [Orders -> BOOLEAN]
    BY <1>11, <2>2, ReleaseTypes DEF ApprovesReturn
  <2>5. EarningTypeOK'
    BY <1>11, <2>2, EarningTypes DEF ApprovesReturn
  <2>6. order' \in [Orders -> OrderRow]
    BY <1>11, ZenonT(40) DEF ApprovesReturn, TypeOK, OrderRow, Statuses
  <2>7. refunds' \in [Orders -> Nat]
    BY <1>11, <2>2 DEF ApprovesReturn, TypeOK
  <2>8. request' \in [Requests -> RequestRow]
    BY <1>11 DEF ApprovesReturn, TypeOK, RequestRow
  <2>9. QED
    BY <1>11, <2>3, <2>4, <2>5, <2>6, <2>7, <2>8 DEF ApprovesReturn, TypeOK
<1>12. ASSUME NEW c \in Callers, LooksForActiveRequest(c) PROVE TypeOK'
  <2>1. call' \in [Callers -> Call \cup {NoCall}]
    BY <1>12, CallTypes DEF LooksForActiveRequest, InProgress, Reversals
  <2>2. QED
    BY <1>12, <2>1 DEF LooksForActiveRequest, TypeOK, EarningTypeOK, tables
<1>13. ASSUME NEW c \in Callers, CreatesRequest(c) PROVE TypeOK'
  <2>1. call[c] # NoCall /\ Returns(c)
    BY <1>13 DEF CreatesRequest, InProgress
  <2>2. call' \in [Callers -> Call \cup {NoCall}]
    BY <2>1, CallTypes DEF Reversals
  <2>3. request' \in [Requests -> RequestRow]
    BY <1>13, <2>1, CallShape DEF CreatesRequest, TypeOK, RequestRow
  <2>4. QED
    BY <1>13, <2>2, <2>3 DEF CreatesRequest, TypeOK, EarningTypeOK
<1>14. ASSUME NEW c \in Callers, Refused(c) \/ Aborts(c) PROVE TypeOK'
  <2>1. call[c] # NoCall /\ Returns(c)
    BY <1>14 DEF Refused, Aborts, InProgress
  <2>2. call' \in [Callers -> Call \cup {NoCall}]
    BY <2>1, CallTypes DEF Reversals
  <2>3. QED
    BY <1>14, <2>2 DEF Refused, Aborts, TypeOK, EarningTypeOK, tables
<1>15. ASSUME NEW r \in Requests, RejectReturn(r) PROVE TypeOK'
  BY <1>15 DEF RejectReturn, TypeOK, EarningTypeOK, RequestRow
<1>16. CASE Tick
  BY <1>16, BoundsAssumption DEF Tick, TypeOK, EarningTypeOK, Times, tables
<1>17. CASE UNCHANGED vars
  BY <1>17 DEF vars, TypeOK, EarningTypeOK
<1>18. QED
  BY <1>1, <1>2, <1>3, <1>4, <1>5, <1>6, <1>7, <1>8, <1>9, <1>10, <1>11, <1>12,
     <1>13, <1>14, <1>15, <1>16, <1>17 DEF Next, Proceeds

\* Every reachable row and call has the shape the schema gives it, and no
\* product's quantity ever goes below zero (the conditional decrement of
\* takeStock), for every instance.
THEOREM TypeCorrect == Spec => []TypeOK
BY TypeInit, TypeStep, PTL DEF Spec

-----------------------------------------------------------------------------
(* What a transaction knows under its lock                                   *)

\* A call asks for what its route can ask for.
WellAimed(k) ==
  /\ k.op = "tekaMove" => k.to \in { "RECEIVED_AT_TEKA", "OUT_FOR_DELIVERY" }
  /\ k.op = "deliver" => k.to = "DELIVERED"
  /\ k.op = "approveReturn" => k.request \in Requests

CallsAreWellAimed == \A c \in Callers : call[c] # NoCall => WellAimed(call[c])

\* One transaction at a time holds an order's row lock.
LockExclusion ==
  \A c, d \in Callers :
    /\ InProgress(c, "locked") /\ InProgress(d, "locked")
    /\ call[c].order = call[d].order
    => c = d

\* What a transaction found under its lock is still so when it writes.  Of the
\* earning it read without a lock, it only knows that there was nothing to reverse,
\* which no payout changes: this much also holds when the payout desk runs.
LockedView(k) ==
  LET row == order[k.order] IN
  /\ k.op \in { "force", "approveReturn" }
  /\ row.status \notin StockReleased \cup { "UNPLACED" }
  /\ k.op = "force" => /\ k.to # "CANCELLED"
                       /\ k.to = "RETURNED" => row.status = "DELIVERED"
  /\ k.op = "approveReturn" => /\ row.status = "DELIVERED"
                               /\ request[k.request].status = "REQUESTED"
                               /\ request[k.request].order = k.order
  /\ k.seen = "nothing" => \/ row.status # "DELIVERED"
                           \/ earning[k.order].state # "live"
                           \/ earning[k.order].clawback

LockedViewIsCurrent ==
  \A c \in Callers : InProgress(c, "locked") => LockedView(call[c])

CallInv == CallsAreWellAimed /\ LockExclusion /\ LockedViewIsCurrent

\* Calls that an unfinished transaction leaves alone, over rows it leaves alone.
LEMMA CallInvKept ==
  ASSUME TypeOK, CallInv,
         \A c \in Callers :
           \/ call'[c] = NoCall
           \/ call'[c] # NoCall /\ call'[c].phase # "locked" /\ WellAimed(call'[c])
           \/ /\ call'[c] = call[c]
              /\ InProgress(c, "locked") =>
                   /\ order'[call[c].order] = order[call[c].order]
                   /\ earning'[call[c].order] = earning[call[c].order]
                   /\ call[c].op = "approveReturn" =>
                        request'[call[c].request] = request[call[c].request]
  PROVE  CallInv'
<1>1. \A c \in Callers : InProgress(c, "locked")' =>
        InProgress(c, "locked") /\ call'[c] = call[c]
  BY DEF InProgress
<1>2. CallsAreWellAimed'
  BY DEF CallInv, CallsAreWellAimed, WellAimed
<1>3. LockExclusion'
  BY <1>1 DEF CallInv, LockExclusion
<1>4. LockedViewIsCurrent'
  <2> SUFFICES ASSUME NEW c \in Callers, InProgress(c, "locked")'
               PROVE  LockedView(call[c])'
    BY DEF LockedViewIsCurrent
  <2>1. /\ call'[c] = call[c] /\ LockedView(call[c])
        /\ order'[call[c].order] = order[call[c].order]
        /\ earning'[call[c].order] = earning[call[c].order]
        /\ call[c].op = "approveReturn" => request'[call[c].request] = request[call[c].request]
    BY <1>1 DEF CallInv, LockedViewIsCurrent, InProgress
  <2>2. QED
    BY <2>1 DEF LockedView
<1>5. QED
  BY <1>2, <1>3, <1>4 DEF CallInv

\* The transactions of one step write only the order they lock.
Touches(o) ==
  \A x \in Orders : x # o => order'[x] = order[x] /\ earning'[x] = earning[x]

\* Ending one call, over rows that satisfy what the others have locked, keeps CallInv.
LEMMA ReturningKeepsCallInv ==
  ASSUME TypeOK, CallInv, NEW c \in Callers, Returns(c),
         InProgress(c, "locked") \/ ~OrderLocked(call[c].order),
         Touches(call[c].order),
         \A d \in Callers :
           d # c /\ InProgress(d, "locked") /\ call[d].op = "approveReturn" =>
             request'[call[d].request] = request[call[d].request]
  PROVE  CallInv'
<1>1. call \in [Callers -> Call \cup {NoCall}]
  BY DEF TypeOK
<1>2. call'[c] = NoCall /\ \A d \in Callers : d # c => call'[d] = call[d]
  BY <1>1 DEF Returns
<1>3. ASSUME NEW d \in Callers, d # c, InProgress(d, "locked")
      PROVE  call[d].order # call[c].order /\ call[d].order \in Orders
  BY <1>3, CallShape DEF OrderLocked, CallInv, LockExclusion, InProgress
<1>4. QED
  BY <1>2, <1>3, CallInvKept DEF Touches

-----------------------------------------------------------------------------
(* What each handler has checked when it writes                              *)

Cancels(c) == BuyerCancels(c) \/ SellerRejects(c) \/ AdminCancels(c) \/ ForceCancels(c)

Moves(c) == SellerMoves(c) \/ TekaMoves(c)

\* Every cancellation starts from a live order whose cash nobody collected
\* (assertBuyerCanCancel, validateRejection, validateAdminCancel).
LEMMA CancelsStep ==
  ASSUME TypeOK, NEW c \in Callers, Cancels(c)
  PROVE  /\ call[c] # NoCall /\ Returns(c)
         /\ ~OrderLocked(call[c].order)
         /\ call[c].order \in Orders
         /\ Cancel(call[c].order)
         /\ order[call[c].order].status \in AdminCancellable
         /\ order[call[c].order].payment \in { "PENDING", "FAILED" }
<1> DEFINE row == order[call[c].order]
<1>1. /\ call[c] # NoCall /\ Returns(c) /\ ~OrderLocked(call[c].order)
      /\ Cancel(call[c].order)
  BY DEF Cancels, BuyerCancels, SellerRejects, AdminCancels, ForceCancels, Transacts,
     InProgress
<1>2. call[c].order \in Orders
  BY <1>1, CallShape
<1>3. row.payment \in PaymentStatuses
  BY <1>2 DEF TypeOK, OrderRow
<1>4. BuyerMayCancel(row) \/ SellerMayReject(row) \/ AdminMayCancel(row)
  BY DEF Cancels, BuyerCancels, SellerRejects, AdminCancels, ForceCancels, Transacts,
     Revalidates, Admits, ForceAllowed
<1>5. row.status \in AdminCancellable /\ ~BlocksCancellation(row.payment)
  BY <1>4 DEF BuyerMayCancel, SellerMayReject, AdminMayCancel, BuyerCancellable,
     AdminCancellable
<1>6. QED
  BY <1>1, <1>2, <1>3, <1>5 DEF PaymentStatuses, BlocksCancellation

\* A move leads from one live status to another.
LEMMA MovesStep ==
  ASSUME TypeOK, CallInv, NEW c \in Callers, Moves(c)
  PROVE  /\ call[c] # NoCall /\ Returns(c)
         /\ ~OrderLocked(call[c].order)
         /\ call[c].order \in Orders
         /\ Move(call[c].order, call[c].to)
         /\ order[call[c].order].status \in AdminCancellable
         /\ call[c].to \in AdminCancellable
<1>1. /\ call[c] # NoCall /\ Returns(c) /\ ~OrderLocked(call[c].order)
      /\ Move(call[c].order, call[c].to)
  BY DEF Moves, SellerMoves, TekaMoves, Transacts, InProgress
<1>2. call[c].order \in Orders
  BY <1>1, CallShape
<1>3. CASE SellerMoves(c)
  <2>1. << order[call[c].order].status, call[c].to >> \in SellerSteps
    BY <1>3 DEF SellerMoves, Transacts, Revalidates, Admits
  <2>2. QED
    BY <1>1, <1>2, <2>1 DEF SellerSteps, AdminCancellable
<1>4. CASE TekaMoves(c)
  <2>1. CanTransition(order[call[c].order].status, call[c].to)
    BY <1>4 DEF TekaMoves, Transacts, Revalidates, Admits
  <2>2. call[c].to \in { "RECEIVED_AT_TEKA", "OUT_FOR_DELIVERY" }
    BY <1>1, <1>4 DEF TekaMoves, Transacts, CallInv, CallsAreWellAimed, WellAimed
  <2>3. QED
    BY <1>1, <1>2, <2>1, <2>2 DEF CanTransition, OrderStatusTransitions, AdminCancellable
<1>5. QED
  BY <1>3, <1>4 DEF Moves

\* A delivery completes an order that was on its way.
LEMMA DeliversStep ==
  ASSUME TypeOK, CallInv, NEW c \in Callers, Delivers(c)
  PROVE  /\ call[c] # NoCall /\ Returns(c)
         /\ ~OrderLocked(call[c].order)
         /\ call[c].order \in Orders
         /\ order[call[c].order].status \in AdminCancellable
<1>1. /\ call[c] # NoCall /\ Returns(c) /\ ~OrderLocked(call[c].order)
  BY DEF Delivers, Transacts, InProgress
<1>2. call[c].order \in Orders
  BY <1>1, CallShape
<1>3. CanTransition(order[call[c].order].status, call[c].to)
  BY DEF Delivers, Transacts, Revalidates, Admits
<1>4. call[c].to = "DELIVERED"
  BY <1>1 DEF Delivers, Transacts, CallInv, CallsAreWellAimed, WellAimed
<1>5. QED
  BY <1>1, <1>2, <1>3, <1>4 DEF CanTransition, OrderStatusTransitions, AdminCancellable

\* The two transactions that were split at their read of the earning.
LEMMA LockedStep ==
  ASSUME TypeOK, CallInv, NEW c \in Callers, Forces(c) \/ ApprovesReturn(c)
  PROVE  /\ call[c] # NoCall /\ Returns(c)
         /\ InProgress(c, "locked")
         /\ call[c].order \in Orders
         /\ LockedView(call[c])
<1>1. /\ call[c] # NoCall /\ Returns(c) /\ InProgress(c, "locked")
  BY DEF Forces, ApprovesReturn, InProgress
<1>2. QED
  BY <1>1, CallShape DEF CallInv, LockedViewIsCurrent

\* Taking the locks: what was re-validated is what LockedView says.
LEMMA LocksStep ==
  ASSUME TypeOK, CallInv, NEW c \in Callers, Locks(c)
  PROVE  /\ call[c] # NoCall /\ call[c].order \in Orders
         /\ ~OrderLocked(call[c].order)
         /\ call'[c] # NoCall
         /\ call'[c].order = call[c].order
         /\ WellAimed(call'[c])
         /\ LockedView(call'[c])
         /\ \A d \in Callers : d # c => call'[d] = call[d]
<1> DEFINE k == call[c]
           row == order[k.order]
           seen == IF row.status = "DELIVERED" THEN ReversalOf(k.order) ELSE "nothing"
           k2 == [k EXCEPT !.phase = "locked", !.seen = seen]
<1>1. /\ k # NoCall /\ k \in Call /\ k.order \in Orders /\ ~OrderLocked(k.order)
      /\ WellAimed(k)
  BY CallShape DEF Locks, InProgress, CallInv, CallsAreWellAimed
<1>2. call' = [call EXCEPT ![c].phase = "locked", ![c].seen = seen]
  BY DEF Locks
<1>3. call'[c] = k2 /\ \A d \in Callers : d # c => call'[d] = call[d]
  BY <1>2 DEF TypeOK
<1>4. /\ seen \in Reversals
      /\ seen = "nothing" => \/ row.status # "DELIVERED"
                             \/ earning[k.order].state # "live"
                             \/ earning[k.order].clawback
  BY DEF ReversalOf, Reversals
<1>5. /\ k2 \in Call /\ k2.op = k.op /\ k2.order = k.order /\ k2.to = k.to
      /\ k2.request = k.request /\ k2.seen = seen
  BY <1>1, <1>4 DEF Call
<1>6. k2 # NoCall
  BY <1>5, NoCallAssumption
<1>7. WellAimed(k2)
  BY <1>1, <1>5 DEF WellAimed
<1>8. Admits(k)
  BY DEF Locks, Revalidates
<1>9. CASE k.op = "force"
  <2>1. ForceAllowed(row, k.to) /\ k.to # "CANCELLED" /\ row.status # "UNPLACED"
    BY <1>8, <1>9 DEF Admits, Locks
  <2>2. LockedView(k2)
    BY <1>4, <1>5, <1>9, <2>1 DEF LockedView, ForceAllowed
  <2>3. QED
    BY <1>1, <1>3, <1>5, <1>6, <1>7, <2>2
<1>10. CASE k.op = "approveReturn"
  <2>1. /\ row.status = "DELIVERED"
        /\ request[k.request].status = "REQUESTED"
        /\ request[k.request].order = k.order
    BY <1>8, <1>10 DEF Admits
  <2>2. LockedView(k2)
    BY <1>4, <1>5, <1>10, <2>1 DEF LockedView, StockReleased
  <2>3. QED
    BY <1>1, <1>3, <1>5, <1>6, <1>7, <2>2
<1>11. QED
  BY <1>9, <1>10 DEF Locks

-----------------------------------------------------------------------------
(* Row locks                                                                 *)

\* No step breaks what is known of the calls in progress (lockOrderForUpdate).
LEMMA CallInvStep ==
  ASSUME TypeOK, CallInv, [Next]_vars
  PROVE  CallInv'
<1>1. ASSUME NEW G \in SUBSET Orders, Checkout(G) PROVE CallInv'
  <2>1. ASSUME NEW c \in Callers, InProgress(c, "locked")
        PROVE  /\ order'[call[c].order] = order[call[c].order]
               /\ earning' = earning /\ request' = request /\ call' = call
    <3>1. call[c].order \in Orders /\ order[call[c].order].status # "UNPLACED"
      BY <2>1, CallShape DEF CallInv, LockedViewIsCurrent, LockedView, InProgress
    <3>2. QED
      BY <1>1, <3>1 DEF Checkout
  <2>2. call' = call
    BY <1>1 DEF Checkout
  <2>3. QED
    BY <2>1, <2>2, CallInvKept
<1>2. ASSUME NEW c \in Callers, PreRead(c) PROVE CallInv'
  <2> DEFINE Calls(o) == Cancellations(o) \cup ForwardMoves(o) \cup ForcedMoves(o)
                         \cup ReturnCalls(o)
  <2>0. PICK o \in Orders : \E k \in Calls(o) : call' = [call EXCEPT ![c] = k]
    BY <1>2 DEF PreRead
  <2>1. PICK k \in Calls(o) : call' = [call EXCEPT ![c] = k]
    BY <2>0
  <2>2. k # NoCall /\ k.phase # "locked"
    BY NewCallShape, NoCallAssumption
  <2>3. WellAimed(k)
    BY DEF WellAimed, Cancellations, ForwardMoves, ForcedMoves, ReturnCalls, NewCall
  <2>4. /\ call'[c] = k /\ \A d \in Callers : d # c => call'[d] = call[d]
        /\ order' = order /\ earning' = earning /\ request' = request
    BY <1>2, <2>1 DEF PreRead, TypeOK, tables
  <2>5. QED
    BY <2>2, <2>3, <2>4, CallInvKept
<1>3. ASSUME NEW c \in Callers, Cancels(c) PROVE CallInv'
  <2>1. Touches(call[c].order) /\ request' = request
    BY <1>3, CancelsStep, ZenonT(40) DEF Cancel, Touches, TypeOK
  <2>2. QED
    BY <1>3, <2>1, CancelsStep, ReturningKeepsCallInv
<1>4. ASSUME NEW c \in Callers, Moves(c) PROVE CallInv'
  <2>1. Touches(call[c].order) /\ request' = request
    BY <1>4, MovesStep DEF Move, Touches, TypeOK
  <2>2. QED
    BY <1>4, <2>1, MovesStep, ReturningKeepsCallInv
<1>5. ASSUME NEW c \in Callers, Delivers(c) PROVE CallInv'
  <2>1. Touches(call[c].order) /\ request' = request
    BY <1>5 DEF Delivers, Touches, TypeOK, CreateEarning, EarningTypeOK
  <2>2. QED
    BY <1>5, <2>1, DeliversStep, ReturningKeepsCallInv
<1>6. ASSUME NEW c \in Callers, Locks(c) PROVE CallInv'
  <2>1. /\ order' = order /\ request' = request /\ earning' = earning
        /\ \A d \in Callers : d # c => call'[d] = call[d]
        /\ call'[c] # NoCall /\ call'[c].order = call[c].order
        /\ WellAimed(call'[c]) /\ LockedView(call'[c]) /\ ~OrderLocked(call[c].order)
    BY <1>6, LocksStep DEF Locks, tables
  <2>2. CallsAreWellAimed'
    BY <2>1 DEF CallInv, CallsAreWellAimed, WellAimed
  <2>3. LockExclusion'
    BY <2>1 DEF CallInv, LockExclusion, InProgress, OrderLocked
  <2>4. ASSUME NEW d \in Callers, InProgress(d, "locked")' PROVE LockedView(call[d])'
    <3>1. LockedView(call'[d])
      BY <2>1, <2>4 DEF CallInv, LockedViewIsCurrent, InProgress
    <3>2. QED
      BY <2>1, <3>1 DEF LockedView
  <2>5. QED
    BY <2>2, <2>3, <2>4 DEF CallInv, LockedViewIsCurrent
<1>7. ASSUME NEW c \in Callers, Forces(c) PROVE CallInv'
  <2>1. Touches(call[c].order) /\ request' = request
    BY <1>7 DEF Forces, Touches, TypeOK, ApplyReversal, EarningTypeOK
  <2>2. QED
    BY <1>7, <2>1, LockedStep, ReturningKeepsCallInv
<1>8. ASSUME NEW c \in Callers, ApprovesReturn(c) PROVE CallInv'
  <2>1. Touches(call[c].order)
    BY <1>8 DEF ApprovesReturn, Touches, TypeOK, ApplyReversal, EarningTypeOK
  <2>2. ASSUME NEW d \in Callers, d # c, InProgress(d, "locked"),
               call[d].op = "approveReturn"
        PROVE  request'[call[d].request] = request[call[d].request]
    <3>1. call[d].order # call[c].order
      BY <1>8, <2>2, LockedStep DEF CallInv, LockExclusion
    <3>2. /\ request[call[c].request].order = call[c].order
          /\ request[call[d].request].order = call[d].order
          /\ call[d].request \in Requests
      BY <1>8, <2>2, LockedStep DEF CallInv, LockedViewIsCurrent, LockedView,
         ApprovesReturn, CallsAreWellAimed, WellAimed, InProgress
    <3>3. QED
      BY <1>8, <3>1, <3>2 DEF ApprovesReturn, TypeOK
  <2>3. QED
    BY <1>8, <2>1, <2>2, LockedStep, ReturningKeepsCallInv
<1>9. ASSUME NEW c \in Callers, LooksForActiveRequest(c) PROVE CallInv'
  <2>1. /\ order' = order /\ earning' = earning /\ request' = request
        /\ call[c] # NoCall /\ call[c] \in Call
        /\ call' = [call EXCEPT ![c].phase = "checked"]
    BY <1>9, CallShape DEF LooksForActiveRequest, tables, InProgress
  <2>2. /\ call'[c] = [call[c] EXCEPT !.phase = "checked"]
        /\ \A d \in Callers : d # c => call'[d] = call[d]
    BY <2>1 DEF TypeOK
  <2>3. /\ call'[c] \in Call /\ call'[c].phase = "checked"
        /\ call'[c].op = call[c].op /\ call'[c].to = call[c].to
        /\ call'[c].request = call[c].request
    BY <2>1, <2>2 DEF Call
  <2>4. WellAimed(call'[c]) /\ call'[c] # NoCall
    BY <2>1, <2>3, NoCallAssumption DEF CallInv, CallsAreWellAimed, WellAimed
  <2>5. QED
    BY <2>1, <2>2, <2>3, <2>4, CallInvKept
<1>10. ASSUME NEW c \in Callers, CreatesRequest(c) PROVE CallInv'
  <2>1. /\ order' = order /\ earning' = earning
        /\ call'[c] = NoCall /\ \A d \in Callers : d # c => call'[d] = call[d]
    BY <1>10 DEF CreatesRequest, Returns, TypeOK
  <2>2. PICK r \in Requests : /\ request[r].status = "UNUSED"
                              /\ \A x \in Requests : x # r => request'[x] = request[x]
    BY <1>10 DEF CreatesRequest, TypeOK
  <2>3. ASSUME NEW d \in Callers, InProgress(d, "locked"), call[d].op = "approveReturn"
        PROVE  request'[call[d].request] = request[call[d].request]
    BY <2>2, <2>3 DEF CallInv, LockedViewIsCurrent, LockedView, CallsAreWellAimed,
       WellAimed, InProgress
  <2>4. QED
    BY <2>1, <2>3, CallInvKept
<1>11. ASSUME NEW c \in Callers, Refused(c) \/ Aborts(c) PROVE CallInv'
  <2>1. /\ order' = order /\ earning' = earning /\ request' = request
        /\ call'[c] = NoCall /\ \A d \in Callers : d # c => call'[d] = call[d]
    BY <1>11 DEF Refused, Aborts, Returns, TypeOK, tables
  <2>2. QED
    BY <2>1, CallInvKept
<1>12. ASSUME NEW r \in Requests, RejectReturn(r) PROVE CallInv'
  <2>1. /\ order' = order /\ earning' = earning /\ call' = call
        /\ \A x \in Requests : x # r => request'[x] = request[x]
    BY <1>12 DEF RejectReturn, TypeOK
  <2>2. ASSUME NEW d \in Callers, InProgress(d, "locked"), call[d].op = "approveReturn"
        PROVE  request'[call[d].request] = request[call[d].request]
    BY <1>12, <2>1, <2>2 DEF RejectReturn, RequestLocked, CallInv, CallsAreWellAimed,
       WellAimed, InProgress
  <2>3. QED
    BY <2>1, <2>2, CallInvKept
<1>13. CASE Tick \/ UNCHANGED vars
  <2>1. order' = order /\ earning' = earning /\ call' = call /\ request' = request
    BY <1>13 DEF Tick, vars, tables
  <2>2. QED
    BY <2>1, CallInvKept
<1>14. QED
  BY <1>1, <1>2, <1>3, <1>4, <1>5, <1>6, <1>7, <1>8, <1>9, <1>10, <1>11, <1>12, <1>13
  DEF Next, Proceeds, Cancels, Moves

\* No call is in progress at the start.
LEMMA CallInvInit ==
  ASSUME Init
  PROVE  CallInv
BY DEF Init, CallInv, CallsAreWellAimed, LockExclusion, LockedViewIsCurrent, InProgress

\* No two unfinished transactions hold the same order, and what each checked
\* under its lock still holds when it writes (lockOrderForUpdate before every
\* re-validation).
THEOREM LocksHold == Spec => [](LockExclusion /\ LockedViewIsCurrent)
<1>1. Init => CallInv
  BY CallInvInit
<1>2. TypeOK /\ CallInv /\ [Next]_vars => CallInv'
  BY CallInvStep
<1>3. CallInv => LockExclusion /\ LockedViewIsCurrent
  BY DEF CallInv
<1>4. QED
  BY <1>1, <1>2, <1>3, TypeCorrect, PTL DEF Spec

-----------------------------------------------------------------------------
(* Stock                                                                     *)

\* What the history of an order says about its hold.  A legacy order may have
\* a release in its history and units in its hold, or neither.
HistoryTellsTheHold ==
  \A o \in Orders :
    /\ order[o].status = "UNPLACED" => ~hold[o] /\ ~order[o].released
    /\ order[o].status \in StockReleased => order[o].released
    /\ order[o].status # "UNPLACED" /\ ~order[o].released => hold[o]
    /\ o \notin Legacy /\ order[o].released =>
         ~hold[o] /\ order[o].status \in StockReleased

StockInv == HistoryTellsTheHold /\ StockConserved

\* Releasing the hold of a placed order: nothing, or every unit, once.
LEMMA ReleaseStep ==
  ASSUME TypeOK, StockInv, NEW o \in Orders, order[o].status # "UNPLACED",
         ReleaseOrderStockHold(o)
  PROVE  /\ StockConserved'
         /\ order[o].released => hold' = hold /\ stock' = stock
         /\ ~order[o].released =>
              /\ hold[o] /\ GiveBack(o)
              /\ hold' = [x \in Orders |-> IF x = o THEN FALSE ELSE hold[x]]
<1>1. CASE order[o].released
  <2>1. hold' = hold /\ stock' = stock
    BY <1>1 DEF ReleaseOrderStockHold
  <2>2. Held' = Held
    BY <2>1 DEF Held
  <2>3. QED
    BY <1>1, <2>1, <2>2 DEF StockInv, StockConserved
<1>2. CASE ~order[o].released
  <2>1. hold[o] /\ GiveBack(o)
    BY <1>2 DEF StockInv, HistoryTellsTheHold, ReleaseOrderStockHold
  <2>2. hold' = [x \in Orders |-> IF x = o THEN FALSE ELSE hold[x]]
    BY <2>1 DEF GiveBack, TypeOK
  <2>3. Held' = Held \ {o} /\ o \in Held /\ Held \in SUBSET Orders
    BY <2>1, <2>2 DEF Held
  <2>4. ASSUME NEW p \in Products
        PROVE  stock'[p] + Count(Held', p) = InitialStock[p]
    <3>1. Count(Held, p) = Count(Held \ {o}, p) + Qty[o][p]
      BY <2>3, CountWithout
    <3>2. /\ stock'[p] = stock[p] + Qty[o][p]
          /\ stock[p] + Count(Held, p) = InitialStock[p]
      BY <2>1 DEF GiveBack, StockInv, StockConserved
    <3>3. /\ stock[p] \in Nat /\ Qty[o][p] \in Nat
          /\ Count(Held \ {o}, p) \in Nat /\ InitialStock[p] \in Nat
      BY CountNat, OrdersAssumption, StockAssumption DEF TypeOK, Held
    <3>4. QED
      BY <2>3, <3>1, <3>2, <3>3
  <2>5. StockConserved'
    BY <2>4 DEF StockConserved, Held, Count
  <2>6. QED
    BY <1>2, <2>1, <2>2, <2>5
<1>3. QED
  BY <1>1, <1>2

\* Rows other than o, and their holds, stay; o's new row and hold agree.
LEMMA HistoryKept ==
  ASSUME TypeOK, HistoryTellsTheHold, NEW o \in Orders,
         \A x \in Orders : x # o => order'[x] = order[x] /\ hold'[x] = hold[x],
         /\ order'[o].status # "UNPLACED"
         /\ order'[o].status \in StockReleased => order'[o].released
         /\ ~order'[o].released => hold'[o]
         /\ o \notin Legacy /\ order'[o].released =>
              ~hold'[o] /\ order'[o].status \in StockReleased
  PROVE  HistoryTellsTheHold'
BY DEF HistoryTellsTheHold

\* No step breaks the strengthened stock invariant.
LEMMA StockInvStep ==
  ASSUME TypeOK, CallInv, StockInv, [Next]_vars
  PROVE  StockInv'
<1>1. ASSUME NEW G \in SUBSET Orders, Checkout(G) PROVE StockInv'
  <2>1. /\ \A o \in G : order[o].status = "UNPLACED"
        /\ TakeStock(G)
        /\ hold' = [o \in Orders |-> o \in G \/ hold[o]]
        /\ order' = [o \in Orders |->
                       IF o \in G
                       THEN [ status |-> "PENDING", payment |-> "PENDING",
                              deliveredAt |-> Never, released |-> FALSE ]
                       ELSE order[o]]
    BY <1>1 DEF Checkout, TakeStock
  <2>2. HistoryTellsTheHold'
    BY <2>1 DEF StockInv, HistoryTellsTheHold, StockReleased
  <2>3. Held' = Held \cup G /\ Held \cap G = {} /\ Held \in SUBSET Orders
    BY <2>1 DEF Held, StockInv, HistoryTellsTheHold
  <2>4. ASSUME NEW p \in Products
        PROVE  stock'[p] + Count(Held', p) = InitialStock[p]
    <3>1. Count(Held \cup G, p) = Count(Held, p) + Count(G, p)
      BY <2>3, CountTogether
    <3>2. /\ stock'[p] = stock[p] - Count(G, p)
          /\ stock[p] + Count(Held, p) = InitialStock[p]
      BY <2>1 DEF TakeStock, StockInv, StockConserved
    <3>3. /\ stock[p] \in Nat /\ InitialStock[p] \in Nat
          /\ Count(Held, p) \in Nat /\ Count(G, p) \in Nat
      BY <2>3, CountNat, StockAssumption DEF TypeOK
    <3>4. QED
      BY <2>3, <3>1, <3>2, <3>3
  <2>5. StockConserved'
    BY <2>4 DEF StockConserved, Held, Count
  <2>6. QED
    BY <2>2, <2>5 DEF StockInv
<1>2. ASSUME NEW c \in Callers, Cancels(c) PROVE StockInv'
  <2> DEFINE o == call[c].order
  <2>1. o \in Orders /\ Cancel(o) /\ order[o].status \in AdminCancellable
    BY <1>2, CancelsStep
  <2>2. ReleaseOrderStockHold(o) /\ order[o].status # "UNPLACED"
    BY <2>1 DEF Cancel, AdminCancellable
  <2>3. /\ order'[o].status = "CANCELLED" /\ order'[o].released = TRUE
        /\ \A x \in Orders : x # o => order'[x] = order[x]
    BY <2>1 DEF Cancel, TypeOK, OrderRow
  <2>4. /\ StockConserved'
        /\ order[o].released => hold' = hold
        /\ ~order[o].released =>
             hold' = [x \in Orders |-> IF x = o THEN FALSE ELSE hold[x]]
    BY <2>1, <2>2, ReleaseStep
  <2>5. HistoryTellsTheHold'
    <3>1. o \notin Legacy => ~hold'[o]
      BY <2>1, <2>4 DEF StockInv, HistoryTellsTheHold
    <3>2. \A x \in Orders : x # o => hold'[x] = hold[x]
      BY <2>4
    <3>3. QED
      BY <2>1, <2>3, <3>1, <3>2, HistoryKept DEF StockInv, StockReleased
  <2>6. QED
    BY <2>4, <2>5 DEF StockInv
<1>3. ASSUME NEW c \in Callers, Moves(c) PROVE StockInv'
  <2> DEFINE o == call[c].order
             to == call[c].to
  <2>1. /\ o \in Orders /\ Move(o, to)
        /\ order[o].status \in AdminCancellable /\ to \in AdminCancellable
    BY <1>3, MovesStep
  <2>2. /\ order'[o].status = to /\ order'[o].released = order[o].released
        /\ \A x \in Orders : x # o => order'[x] = order[x]
        /\ hold' = hold /\ stock' = stock
    BY <2>1 DEF Move, TypeOK, OrderRow
  <2>3. HistoryTellsTheHold'
    BY <2>1, <2>2, HistoryKept DEF StockInv, HistoryTellsTheHold, AdminCancellable,
       StockReleased
  <2>4. QED
    BY <2>2, <2>3 DEF StockInv, StockConserved, Held
<1>4. ASSUME NEW c \in Callers, Delivers(c) PROVE StockInv'
  <2> DEFINE o == call[c].order
  <2>1. o \in Orders /\ order[o].status \in AdminCancellable
    BY <1>4, DeliversStep
  <2>2. /\ order'[o].status = "DELIVERED" /\ order'[o].released = order[o].released
        /\ \A x \in Orders : x # o => order'[x] = order[x]
        /\ hold' = hold /\ stock' = stock
    BY <1>4, <2>1 DEF Delivers, TypeOK, OrderRow
  <2>3. HistoryTellsTheHold'
    BY <2>1, <2>2, HistoryKept DEF StockInv, HistoryTellsTheHold, AdminCancellable,
       StockReleased
  <2>4. QED
    BY <2>2, <2>3 DEF StockInv, StockConserved, Held
<1>5. ASSUME NEW c \in Callers, Forces(c) PROVE StockInv'
  <2> DEFINE o == call[c].order
             to == call[c].to
  <2>1. /\ o \in Orders /\ to \in Statuses
        /\ order[o].status \notin StockReleased \cup {"UNPLACED"}
        /\ to # "CANCELLED"
    BY <1>5, LockedStep, CallShape DEF LockedView, Forces
  <2>2. /\ order'[o].status = to
        /\ order'[o].released = (order[o].released \/ to = "RETURNED")
        /\ \A x \in Orders : x # o => order'[x] = order[x]
    BY <1>5, <2>1 DEF Forces, TypeOK, OrderRow
  <2>3. CASE to = "RETURNED"
    <3>1. /\ StockConserved'
          /\ order[o].released => hold' = hold
          /\ ~order[o].released =>
               hold' = [x \in Orders |-> IF x = o THEN FALSE ELSE hold[x]]
      BY <1>5, <2>1, <2>3, ReleaseStep DEF Forces
    <3>2. o \notin Legacy => ~hold'[o]
      BY <2>1, <3>1 DEF StockInv, HistoryTellsTheHold
    <3>3. \A x \in Orders : x # o => hold'[x] = hold[x]
      BY <3>1
    <3>4. HistoryTellsTheHold'
      BY <2>1, <2>2, <2>3, <3>2, <3>3, HistoryKept DEF StockInv, StockReleased
    <3>5. QED
      BY <3>1, <3>4 DEF StockInv
  <2>4. CASE to # "RETURNED"
    <3>1. hold' = hold /\ stock' = stock
      BY <1>5, <2>4 DEF Forces
    <3>2. to \notin StockReleased /\ to # "UNPLACED"
      BY <2>1, <2>4 DEF StockReleased, Statuses
    <3>3. order[o].released \in BOOLEAN
      BY <2>1 DEF TypeOK, OrderRow
    <3>4. HistoryTellsTheHold'
      BY <2>1, <2>2, <2>4, <3>1, <3>2, <3>3, HistoryKept DEF StockInv, HistoryTellsTheHold
    <3>5. QED
      BY <3>1, <3>4 DEF StockInv, StockConserved, Held
  <2>5. QED
    BY <2>3, <2>4
<1>6. ASSUME NEW c \in Callers, ApprovesReturn(c) PROVE StockInv'
  <2> DEFINE o == call[c].order
  <2>1. o \in Orders /\ order[o].status = "DELIVERED"
    BY <1>6, LockedStep DEF LockedView, ApprovesReturn
  <2>2. /\ order'[o].status = "RETURNED" /\ order'[o].released = TRUE
        /\ \A x \in Orders : x # o => order'[x] = order[x]
    BY <1>6, <2>1 DEF ApprovesReturn, TypeOK, OrderRow
  <2>3. /\ StockConserved'
        /\ order[o].released => hold' = hold
        /\ ~order[o].released =>
             hold' = [x \in Orders |-> IF x = o THEN FALSE ELSE hold[x]]
    BY <1>6, <2>1, ReleaseStep DEF ApprovesReturn
  <2>4. o \notin Legacy => ~hold'[o]
    BY <2>1, <2>3 DEF StockInv, HistoryTellsTheHold
  <2>5. \A x \in Orders : x # o => hold'[x] = hold[x]
    BY <2>3
  <2>6. HistoryTellsTheHold'
    BY <2>1, <2>2, <2>4, <2>5, HistoryKept DEF StockInv, StockReleased
  <2>7. QED
    BY <2>3, <2>6 DEF StockInv
<1>7. CASE UNCHANGED << order, hold, stock >>
  BY <1>7 DEF StockInv, HistoryTellsTheHold, StockConserved, Held
<1>8. QED
  BY <1>1, <1>2, <1>3, <1>4, <1>5, <1>6, <1>7
  DEF Next, Proceeds, Cancels, Moves, vars, tables, PreRead, Locks, Refused, Aborts, Tick,
      LooksForActiveRequest, CreatesRequest, RejectReturn

\* The stock invariant holds of the initial tables, legacy holds included.
LEMMA StockInvInit ==
  ASSUME Init
  PROVE  StockInv
<1>1. HistoryTellsTheHold
  <2>1. ASSUME NEW o \in Orders, order[o] = UnplacedRow
        PROVE  order[o].status = "UNPLACED" /\ ~order[o].released /\ ~hold[o]
    BY <2>1 DEF Init, UnplacedRow
  <2>2. ASSUME NEW o \in Orders, order[o] # UnplacedRow
        PROVE  /\ o \in Legacy /\ order[o].released
               /\ order[o].status \in AdminCancellable
    BY <2>2 DEF Init, LegacyRow
  <2>3. QED
    BY <2>1, <2>2 DEF HistoryTellsTheHold, AdminCancellable, StockReleased
<1>2. StockConserved
  <2>1. Held \in SUBSET Orders
    BY DEF Held
  <2>2. \A p \in Products : Count(Held, p) \in Nat /\ InitialStock[p] \in Nat
    BY <2>1, CountNat, StockAssumption
  <2>3. \A p \in Products : stock[p] = InitialStock[p] - Count(Held, p)
    BY DEF Init
  <2>4. QED
    BY <2>2, <2>3 DEF StockConserved
<1>3. QED
  BY <1>1, <1>2 DEF StockInv

\* Stock is conserved and the log tells the hold, together: neither is inductive alone.
LEMMA StockInvariant == Spec => []StockInv
<1>1. TypeOK /\ CallInv /\ [Next]_vars => CallInv'
  BY CallInvStep
<1>2. TypeOK /\ CallInv /\ StockInv /\ [Next]_vars => StockInv'
  BY StockInvStep
<1>3. Init => CallInv /\ StockInv
  BY CallInvInit, StockInvInit
<1>4. QED
  BY <1>1, <1>2, <1>3, TypeCorrect, PTL DEF Spec

\* No unit is ever lost, sold twice or restocked twice, for every number of
\* orders, products and concurrent calls, and every quantity.
THEOREM StockIsConserved == Spec => []StockConserved
<1>1. StockInv => StockConserved
  BY DEF StockInv
<1>2. QED
  BY <1>1, StockInvariant, PTL

\* The hold of an order that is not a legacy one lasts exactly as long as its sale.
THEOREM HoldFollowsSale == Spec => []HoldLastsAsLongAsTheSale
<1>1. TypeOK /\ StockInv => HoldLastsAsLongAsTheSale
  BY DEF TypeOK, StockInv, HistoryTellsTheHold, HoldLastsAsLongAsTheSale, StockReleased
<1>2. QED
  BY <1>1, StockInvariant, TypeCorrect, PTL

-----------------------------------------------------------------------------
(* The abstract specification                                                *)

\* Initial tables map to an initial shelf of the ledger.
LEMMA LedgerInit ==
  ASSUME Init, TypeOK, StockInv
  PROVE  Ledger!Init
<1>1. Ledger!Holding = Held
  BY DEF Ledger!Holding, HoldPhase, Held
<1>2. HoldPhase \in [Orders -> Ledger!Phases]
  BY DEF HoldPhase, Ledger!Phases
<1>3. QED
  BY <1>1, <1>2 DEF Ledger!Init, Init

\* A stock release is a Release of the ledger, or nothing the ledger sees.
LEMMA LedgerRelease ==
  ASSUME TypeOK, StockInv, NEW o \in Orders, order[o].status # "UNPLACED",
         ReleaseOrderStockHold(o),
         \A x \in Orders : x # o => order'[x] = order[x],
         order'[o].status # "UNPLACED"
  PROVE  Ledger!Next \/ UNCHANGED << stock, HoldPhase >>
<1>1. CASE order[o].released
  <2>1. hold' = hold /\ stock' = stock
    BY <1>1, ReleaseStep
  <2>2. HoldPhase' = HoldPhase
    BY <2>1 DEF HoldPhase
  <2>3. QED
    BY <2>1, <2>2
<1>2. CASE ~order[o].released
  <2>1. /\ hold[o] /\ GiveBack(o)
        /\ hold' = [x \in Orders |-> IF x = o THEN FALSE ELSE hold[x]]
    BY <1>2, ReleaseStep
  <2>2. HoldPhase[o] = "holding"
    BY <2>1 DEF HoldPhase
  <2>3. HoldPhase' = [HoldPhase EXCEPT ![o] = "ended"]
    BY <2>1 DEF HoldPhase
  <2>4. stock' = [p \in Products |-> stock[p] + Count({o}, p)]
    BY <2>1, UnitCountOne, OrdersAssumption DEF GiveBack, Count
  <2>5. Ledger!Release(o)
    BY <2>2, <2>3, <2>4 DEF Ledger!Release
  <2>6. QED
    BY <2>5 DEF Ledger!Next
<1>3. QED
  BY <1>1, <1>2

\* Steps that leave the holds alone do not place or unplace an order either.
LEMMA LedgerStutter ==
  ASSUME UNCHANGED << hold, stock >>,
         \A x \in Orders : order'[x].status = "UNPLACED" <=> order[x].status = "UNPLACED"
  PROVE  UNCHANGED << stock, HoldPhase >>
BY DEF HoldPhase

\* Every step of a handler is a Take, a Release or a stutter of the ledger.
LEMMA LedgerStep ==
  ASSUME TypeOK, CallInv, StockInv, [Next]_vars
  PROVE  Ledger!Next \/ UNCHANGED << stock, HoldPhase >>
<1> DEFINE Goal == Ledger!Next \/ UNCHANGED << stock, HoldPhase >>
<1>1. ASSUME NEW G \in SUBSET Orders, Checkout(G) PROVE Goal
  <2>1. /\ \A o \in G : order[o].status = "UNPLACED"
        /\ TakeStock(G)
        /\ hold' = [o \in Orders |-> o \in G \/ hold[o]]
        /\ \A o \in Orders \ G : order'[o] = order[o]
    BY <1>1 DEF Checkout, TakeStock
  <2>2. \A o \in G : HoldPhase[o] = "none"
    BY <2>1 DEF HoldPhase, StockInv, HistoryTellsTheHold
  <2>3. HoldPhase' = [o \in Orders |-> IF o \in G THEN "holding" ELSE HoldPhase[o]]
    BY <2>1 DEF HoldPhase
  <2>4. Ledger!Take(G)
    BY <2>1, <2>2, <2>3 DEF Ledger!Take, TakeStock
  <2>5. QED
    BY <2>4 DEF Ledger!Next
<1>2. ASSUME NEW c \in Callers, Cancels(c) PROVE Goal
  <2> DEFINE o == call[c].order
  <2>1. o \in Orders /\ Cancel(o) /\ order[o].status # "UNPLACED"
    BY <1>2, CancelsStep DEF AdminCancellable
  <2>2. /\ order'[o].status # "UNPLACED" /\ ReleaseOrderStockHold(o)
        /\ \A x \in Orders : x # o => order'[x] = order[x]
    BY <2>1 DEF Cancel, TypeOK, OrderRow
  <2>3. QED
    BY <2>1, <2>2, LedgerRelease
<1>3. ASSUME NEW c \in Callers, Moves(c) PROVE Goal
  <2> DEFINE o == call[c].order
             to == call[c].to
  <2>0. /\ o \in Orders /\ Move(o, to)
        /\ order[o].status \in AdminCancellable /\ to \in AdminCancellable
    BY <1>3, MovesStep
  <2>1. /\ hold' = hold /\ stock' = stock
        /\ order'[o].status = to
        /\ \A x \in Orders : x # o => order'[x] = order[x]
        /\ to # "UNPLACED" /\ order[o].status # "UNPLACED"
    BY <2>0 DEF Move, TypeOK, OrderRow, AdminCancellable
  <2>2. QED
    BY <2>1, LedgerStutter
<1>4. ASSUME NEW c \in Callers, Delivers(c) PROVE Goal
  <2>1. /\ hold' = hold /\ stock' = stock
        /\ \A x \in Orders : order'[x].status = "UNPLACED" <=> order[x].status = "UNPLACED"
    BY <1>4, DeliversStep DEF Delivers, TypeOK, OrderRow, AdminCancellable
  <2>2. QED
    BY <2>1, LedgerStutter
<1>5. ASSUME NEW c \in Callers, Forces(c) PROVE Goal
  <2> DEFINE o == call[c].order
             to == call[c].to
  <2>0. /\ o \in Orders /\ to # "UNPLACED" /\ order[o].status # "UNPLACED"
    BY <1>5, LockedStep, CallShape DEF LockedView, Statuses
  <2>1. /\ o \in Orders /\ to # "UNPLACED" /\ order[o].status # "UNPLACED"
        /\ order'[o].status = to
        /\ \A x \in Orders : x # o => order'[x] = order[x]
    BY <1>5, <2>0 DEF Forces, TypeOK, OrderRow
  <2>2. CASE to = "RETURNED"
    BY <1>5, <2>1, <2>2, LedgerRelease DEF Forces
  <2>3. CASE to # "RETURNED"
    BY <1>5, <2>1, <2>3, LedgerStutter DEF Forces
  <2>4. QED
    BY <2>2, <2>3
<1>6. ASSUME NEW c \in Callers, ApprovesReturn(c) PROVE Goal
  <2> DEFINE o == call[c].order
  <2>1. /\ o \in Orders /\ order[o].status # "UNPLACED"
        /\ order'[o].status # "UNPLACED" /\ ReleaseOrderStockHold(o)
        /\ \A x \in Orders : x # o => order'[x] = order[x]
    BY <1>6, LockedStep DEF LockedView, ApprovesReturn, TypeOK, OrderRow
  <2>2. QED
    BY <2>1, LedgerRelease
<1>7. CASE UNCHANGED << order, hold, stock >>
  BY <1>7, LedgerStutter
<1>8. QED
  BY <1>1, <1>2, <1>3, <1>4, <1>5, <1>6, <1>7
  DEF Next, Proceeds, Cancels, Moves, vars, tables, PreRead, Locks, Refused, Aborts, Tick,
      LooksForActiveRequest, CreatesRequest, RejectReturn

\* The handlers implement the abstract stock ledger: each order takes its units
\* once, with its whole checkout, and gives them back at most once.
THEOREM HandlersImplementLedger == Spec => ImplementsLedger
<1>1. Init => CallInv /\ StockInv /\ (TypeOK => Ledger!Init)
  BY CallInvInit, StockInvInit, LedgerInit
<1>2. TypeOK /\ CallInv /\ [Next]_vars => CallInv'
  BY CallInvStep
<1>3. TypeOK /\ CallInv /\ StockInv /\ [Next]_vars => [Ledger!Next]_<< stock, HoldPhase >>
  BY LedgerStep
<1>4. QED
  BY <1>1, <1>2, <1>3, TypeCorrect, StockInvariant, PTL DEF Spec, ImplementsLedger, Ledger!Spec

-----------------------------------------------------------------------------
(* Status                                                                    *)

\* No step moves an order out of CANCELLED or RETURNED.
LEMMA AbsorbStep ==
  ASSUME TypeOK, CallInv, [Next]_vars, NEW o \in Orders, order[o].status \in StockReleased
  PROVE  order'[o].status = order[o].status
<1> DEFINE Absorbed == order'[o].status = order[o].status
<1>1. ASSUME NEW G \in SUBSET Orders, Checkout(G) PROVE Absorbed
  BY <1>1 DEF Checkout, StockReleased
<1>2. ASSUME NEW c \in Callers, Cancels(c) PROVE Absorbed
  BY <1>2, CancelsStep DEF Cancel, TypeOK, AdminCancellable, StockReleased
<1>3. ASSUME NEW c \in Callers, Moves(c) PROVE Absorbed
  BY <1>3, MovesStep DEF Move, TypeOK, AdminCancellable, StockReleased
<1>4. ASSUME NEW c \in Callers, Delivers(c) PROVE Absorbed
  BY <1>4, DeliversStep DEF Delivers, TypeOK, AdminCancellable, StockReleased
<1>5. ASSUME NEW c \in Callers, Forces(c) PROVE Absorbed
  BY <1>5, LockedStep DEF LockedView, Forces, TypeOK
<1>6. ASSUME NEW c \in Callers, ApprovesReturn(c) PROVE Absorbed
  BY <1>6, LockedStep DEF LockedView, ApprovesReturn, TypeOK
<1>7. CASE UNCHANGED order
  BY <1>7
<1>8. QED
  BY <1>1, <1>2, <1>3, <1>4, <1>5, <1>6, <1>7
  DEF Next, Proceeds, Cancels, Moves, vars, tables, PreRead, Locks, Refused, Aborts, Tick,
      LooksForActiveRequest, CreatesRequest, RejectReturn

\* CANCELLED and RETURNED are absorbing, whatever races.
THEOREM FinalStatusesAbsorbSteps == Spec => FinalStatusesAbsorb
<1> DEFINE Absorbed == \A o \in Orders :
             order[o].status \in StockReleased => order'[o].status = order[o].status
<1>1. TypeOK /\ CallInv /\ [Next]_vars => [Absorbed]_vars
  BY AbsorbStep
<1>2. TypeOK /\ CallInv /\ [Next]_vars => CallInv'
  BY CallInvStep
<1>3. Init => CallInv
  BY CallInvInit
<1>4. QED
  BY <1>1, <1>2, <1>3, TypeCorrect, PTL DEF Spec, FinalStatusesAbsorb

-----------------------------------------------------------------------------
(* Cash                                                                      *)

CashInv == PaymentMatchesTransaction /\ CancelledHidesNoCash

\* No step separates an order's payment from its COD transaction.
LEMMA CashInvStep ==
  ASSUME TypeOK, CallInv, CashInv, [Next]_vars
  PROVE  CashInv'
<1>1. ASSUME NEW G \in SUBSET Orders, Checkout(G) PROVE CashInv'
  BY <1>1 DEF Checkout, CashInv, PaymentMatchesTransaction, CancelledHidesNoCash
<1>2. ASSUME NEW c \in Callers, Cancels(c) PROVE CashInv'
  <2> DEFINE o == call[c].order
  <2>1. o \in Orders /\ Cancel(o) /\ order[o].payment \in { "PENDING", "FAILED" }
    BY <1>2, CancelsStep
  <2>2. cod[o] = order[o].payment
    BY <2>1 DEF CashInv, PaymentMatchesTransaction
  <2>3. order'[o].payment = "FAILED" /\ \A x \in Orders : x # o => order'[x] = order[x]
    BY <2>1 DEF Cancel, TypeOK, OrderRow
  <2>4. cod'[o] = "FAILED" /\ \A x \in Orders : x # o => cod'[x] = cod[x]
    BY <2>1, <2>2 DEF Cancel, FailUnpaidCod, TypeOK
  <2>5. QED
    BY <2>1, <2>3, <2>4 DEF CashInv, PaymentMatchesTransaction, CancelledHidesNoCash
<1>3. ASSUME NEW c \in Callers, Moves(c) PROVE CashInv'
  <2> DEFINE o == call[c].order
             to == call[c].to
  <2>1. o \in Orders /\ Move(o, to) /\ to # "CANCELLED"
    BY <1>3, MovesStep DEF AdminCancellable
  <2>2. /\ order'[o].status = to /\ order'[o].payment = order[o].payment
        /\ \A x \in Orders : x # o => order'[x] = order[x]
        /\ cod' = cod
    BY <2>1 DEF Move, TypeOK, OrderRow
  <2>3. QED
    BY <2>1, <2>2 DEF CashInv, PaymentMatchesTransaction, CancelledHidesNoCash
<1>4. ASSUME NEW c \in Callers, Delivers(c) PROVE CashInv'
  <2> DEFINE o == call[c].order
  <2>1. /\ o \in Orders
        /\ order'[o].status = "DELIVERED" /\ order'[o].payment = "COMPLETED"
        /\ cod'[o] = "COMPLETED"
        /\ \A x \in Orders : x # o => order'[x] = order[x] /\ cod'[x] = cod[x]
    BY <1>4, DeliversStep DEF Delivers, TypeOK, OrderRow
  <2>2. QED
    BY <2>1 DEF CashInv, PaymentMatchesTransaction, CancelledHidesNoCash
<1>5. ASSUME NEW c \in Callers, Forces(c) PROVE CashInv'
  <2> DEFINE o == call[c].order
  <2>1. call[c].to # "CANCELLED" /\ o \in Orders
    BY <1>5, LockedStep DEF LockedView, Forces
  <2>2. /\ order'[o].status # "CANCELLED" /\ order'[o].payment = order[o].payment
        /\ \A x \in Orders : x # o => order'[x] = order[x]
        /\ cod' = cod
    BY <1>5, <2>1 DEF Forces, TypeOK, OrderRow
  <2>3. QED
    BY <2>1, <2>2 DEF CashInv, PaymentMatchesTransaction, CancelledHidesNoCash
<1>6. ASSUME NEW c \in Callers, ApprovesReturn(c) PROVE CashInv'
  <2> DEFINE o == call[c].order
  <2>1. o \in Orders
    BY <1>6, LockedStep
  <2>2. /\ order'[o].status = "RETURNED" /\ order'[o].payment = order[o].payment
        /\ \A x \in Orders : x # o => order'[x] = order[x]
        /\ cod' = cod
    BY <1>6, <2>1 DEF ApprovesReturn, TypeOK, OrderRow
  <2>3. QED
    BY <2>1, <2>2 DEF CashInv, PaymentMatchesTransaction, CancelledHidesNoCash
<1>7. CASE UNCHANGED << order, cod >>
  BY <1>7 DEF CashInv, PaymentMatchesTransaction, CancelledHidesNoCash
<1>8. QED
  BY <1>1, <1>2, <1>3, <1>4, <1>5, <1>6, <1>7
  DEF Next, Proceeds, Cancels, Moves, vars, tables, PreRead, Locks, Refused, Aborts, Tick,
      LooksForActiveRequest, CreatesRequest, RejectReturn

\* The initial rows, legacy ones included, agree on the cash.
LEMMA CashInvInit ==
  ASSUME Init
  PROVE  CashInv
<1>1. \A o \in Orders : order[o] \in LegacyRow \cup {UnplacedRow}
  BY DEF Init
<1>2. ASSUME NEW o \in Orders PROVE order[o].status # "CANCELLED"
  <2>1. CASE order[o] \in LegacyRow
    BY <2>1 DEF LegacyRow, AdminCancellable
  <2>2. CASE order[o] = UnplacedRow
    BY <2>2 DEF UnplacedRow
  <2>3. QED
    BY <1>1, <2>1, <2>2
<1>3. QED
  BY <1>2 DEF Init, CashInv, PaymentMatchesTransaction, CancelledHidesNoCash

\* The order and its COD transaction agree, and no cancelled order hides cash.
THEOREM CashIsNeverHidden == Spec => [](PaymentMatchesTransaction /\ CancelledHidesNoCash)
<1>1. Init => CallInv /\ CashInv
  BY CallInvInit, CashInvInit
<1>2. TypeOK /\ CallInv /\ [Next]_vars => CallInv'
  BY CallInvStep
<1>3. TypeOK /\ CallInv /\ CashInv /\ [Next]_vars => CashInv'
  BY CashInvStep
<1>4. CashInv => PaymentMatchesTransaction /\ CancelledHidesNoCash
  BY DEF CashInv
<1>5. QED
  BY <1>1, <1>2, <1>3, <1>4, TypeCorrect, PTL DEF Spec

\* The two rows that record the cash of an order never disagree.
THEOREM PaymentsMatch == Spec => []PaymentMatchesTransaction
BY CashIsNeverHidden, PTL

-----------------------------------------------------------------------------
(* Earnings                                                                  *)

\* An order that leaves DELIVERED takes its earning with it.
LEMMA ReversalFollowsSale ==
  ASSUME TypeOK, EarningFollowsSale, NEW o \in Orders, NEW seen \in Reversals,
         seen = "nothing" => \/ order[o].status # "DELIVERED"
                             \/ earning[o].state # "live"
                             \/ earning[o].clawback,
         ApplyReversal(o, seen),
         \A x \in Orders : x # o => order'[x] = order[x]
  PROVE  EarningFollowsSale'
<1>1. earning \in [Orders -> EarningRow]
  BY DEF TypeOK, EarningTypeOK
<1>2. \A x \in Orders : x # o => earning'[x] = earning[x]
  BY <1>1 DEF ApplyReversal
<1>3. ~(earning'[o].state = "live" /\ ~earning'[o].clawback)
  <2>1. CASE seen = "reverse"
    BY <1>1, <2>1 DEF ApplyReversal, EarningRow
  <2>2. CASE seen = "clawback"
    BY <1>1, <2>2 DEF ApplyReversal, EarningRow
  <2>3. CASE seen = "nothing"
    BY <2>3 DEF ApplyReversal, EarningFollowsSale
  <2>4. QED
    BY <2>1, <2>2, <2>3 DEF Reversals
<1>4. QED
  BY <1>2, <1>3 DEF EarningFollowsSale

\* No step leaves a live, unflagged earning on an order that is not delivered.
LEMMA EarningStep ==
  ASSUME TypeOK, CallInv, EarningFollowsSale, [Next]_vars
  PROVE  EarningFollowsSale'
<1>1. ASSUME NEW G \in SUBSET Orders, Checkout(G) PROVE EarningFollowsSale'
  BY <1>1 DEF Checkout, EarningFollowsSale
<1>2. ASSUME NEW c \in Callers, Cancels(c) PROVE EarningFollowsSale'
  BY <1>2, CancelsStep DEF Cancel, TypeOK, AdminCancellable, EarningFollowsSale
<1>3. ASSUME NEW c \in Callers, Moves(c) PROVE EarningFollowsSale'
  <2> DEFINE o == call[c].order
             to == call[c].to
  <2>1. /\ o \in Orders /\ Move(o, to)
        /\ order[o].status # "DELIVERED" /\ to # "DELIVERED"
    BY <1>3, MovesStep DEF AdminCancellable
  <2>2. /\ \A x \in Orders : x # o => order'[x] = order[x]
        /\ earning' = earning
    BY <2>1 DEF Move, TypeOK
  <2>3. QED
    BY <2>1, <2>2 DEF EarningFollowsSale
<1>4. ASSUME NEW c \in Callers, Delivers(c) PROVE EarningFollowsSale'
  <2> DEFINE o == call[c].order
  <2>1. /\ o \in Orders /\ order'[o].status = "DELIVERED"
        /\ \A x \in Orders : x # o => order'[x] = order[x] /\ earning'[x] = earning[x]
    BY <1>4, DeliversStep DEF Delivers, TypeOK, OrderRow, CreateEarning, EarningTypeOK
  <2>2. QED
    BY <2>1 DEF EarningFollowsSale
<1>5. ASSUME NEW c \in Callers, Forces(c) PROVE EarningFollowsSale'
  BY <1>5, LockedStep, CallShape, ReversalFollowsSale DEF LockedView, Forces, TypeOK
<1>6. ASSUME NEW c \in Callers, ApprovesReturn(c) PROVE EarningFollowsSale'
  BY <1>6, LockedStep, CallShape, ReversalFollowsSale DEF LockedView, ApprovesReturn, TypeOK
<1>7. CASE UNCHANGED << order, earning >>
  BY <1>7 DEF EarningFollowsSale
<1>8. QED
  BY <1>1, <1>2, <1>3, <1>4, <1>5, <1>6, <1>7
  DEF Next, Proceeds, Cancels, Moves, vars, tables, PreRead, Locks, Refused, Aborts, Tick,
      LooksForActiveRequest, CreatesRequest, RejectReturn

\* A live, unflagged earning always belongs to a delivered order.
THEOREM EarningsFollowSales == Spec => []EarningFollowsSale
<1>1. Init => CallInv /\ EarningFollowsSale
  BY CallInvInit DEF Init, EarningInit, NoEarning, EarningFollowsSale
<1>2. TypeOK /\ CallInv /\ [Next]_vars => CallInv'
  BY CallInvStep
<1>3. TypeOK /\ CallInv /\ EarningFollowsSale /\ [Next]_vars => EarningFollowsSale'
  BY EarningStep
<1>4. QED
  BY <1>1, <1>2, <1>3, TypeCorrect, PTL DEF Spec

-----------------------------------------------------------------------------
(* Refunds                                                                   *)

ApprovedFor(o) == { r \in Requests : request[r].status = "APPROVED" /\ request[r].order = o }

\* A step that approves nothing refunds nothing.
LEMMA NothingApproved ==
  ASSUME TypeOK, CallInv, RefundedOnce, [Next]_vars, refunds' = refunds,
         \A o \in Orders : ApprovedFor(o)' = ApprovedFor(o)
  PROVE  RefundedOnce'
<1>1. \A o \in Orders : refunds[o] = 1 => order'[o].status = "RETURNED"
  BY AbsorbStep DEF RefundedOnce, StockReleased
<1>2. QED
  BY <1>1 DEF RefundedOnce, ApprovedFor

\* No step refunds an order twice, or without an approved request.
LEMMA RefundStep ==
  ASSUME TypeOK, CallInv, RefundedOnce, [Next]_vars
  PROVE  RefundedOnce'
<1>1. ASSUME NEW c \in Callers, ApprovesReturn(c) PROVE RefundedOnce'
  <2>1. PICK o \in Orders, r \in Requests :
          /\ o = call[c].order /\ r = call[c].request
          /\ order[o].status = "DELIVERED"
          /\ request[r].status = "REQUESTED" /\ request[r].order = o
    BY <1>1, LockedStep DEF LockedView, ApprovesReturn, CallInv, CallsAreWellAimed, WellAimed
  <2>2. /\ request'[r].status = "APPROVED" /\ request'[r].order = o
        /\ \A x \in Requests : x # r => request'[x] = request[x]
    BY <1>1, <2>1 DEF ApprovesReturn, TypeOK, RequestRow
  <2>3. refunds' = [refunds EXCEPT ![o] = refunds[o] + 1] /\ refunds \in [Orders -> Nat]
    BY <1>1, <2>1 DEF ApprovesReturn, TypeOK
  <2>4. order'[o].status = "RETURNED"
    BY <1>1, <2>1 DEF ApprovesReturn, TypeOK, OrderRow
  <2>5. refunds[o] = 0
    <3>1. refunds[o] <= 1 /\ refunds[o] # 1
      BY <2>1 DEF RefundedOnce
    <3>2. refunds[o] \in Nat
      BY <2>3
    <3>3. QED
      BY <3>1, <3>2
  <2>6. ASSUME NEW x \in Orders
        PROVE  /\ refunds'[x] = Cardinality(ApprovedFor(x)')
               /\ refunds'[x] <= 1
               /\ refunds'[x] = 1 => order'[x].status = "RETURNED"
    <3>1. CASE x = o
      <4>1. ApprovedFor(o)' = ApprovedFor(o) \cup {r} /\ r \notin ApprovedFor(o)
        BY <2>1, <2>2 DEF ApprovedFor
      <4>2. IsFiniteSet(ApprovedFor(o)) /\ Cardinality(ApprovedFor(o)) = 0
        BY <2>5, OrdersAssumption, FS_Subset DEF ApprovedFor, RefundedOnce
      <4>3. Cardinality(ApprovedFor(o)') = 1
        BY <4>1, <4>2, FS_AddElement
      <4>4. refunds'[o] = 1
        BY <2>1, <2>3, <2>5
      <4>5. QED
        BY <2>4, <3>1, <4>3, <4>4
    <3>2. CASE x # o
      <4>1. ApprovedFor(x)' = ApprovedFor(x)
        BY <2>1, <2>2, <3>2 DEF ApprovedFor
      <4>2. refunds'[x] = refunds[x]
        BY <2>3, <3>2
      <4>3. refunds[x] = 1 => order'[x].status = "RETURNED"
        BY AbsorbStep DEF RefundedOnce, StockReleased
      <4>4. QED
        BY <4>1, <4>2, <4>3 DEF RefundedOnce, ApprovedFor
    <3>3. QED
      BY <3>1, <3>2
  <2>7. QED
    BY <2>6 DEF RefundedOnce, ApprovedFor
<1>2. ASSUME NEW c \in Callers, CreatesRequest(c) PROVE RefundedOnce'
  <2>1. PICK r \in Requests : /\ request[r].status = "UNUSED"
                              /\ request'[r].status = "REQUESTED"
                              /\ \A x \in Requests : x # r => request'[x] = request[x]
    BY <1>2 DEF CreatesRequest, TypeOK
  <2>2. \A o \in Orders : ApprovedFor(o)' = ApprovedFor(o)
    BY <2>1 DEF ApprovedFor
  <2>3. QED
    BY <1>2, <2>2, NothingApproved DEF CreatesRequest
<1>3. ASSUME NEW r \in Requests, RejectReturn(r) PROVE RefundedOnce'
  <2>1. /\ request[r].status = "REQUESTED" /\ request'[r].status = "REJECTED"
        /\ \A x \in Requests : x # r => request'[x] = request[x]
    BY <1>3 DEF RejectReturn, TypeOK, RequestRow
  <2>2. \A o \in Orders : ApprovedFor(o)' = ApprovedFor(o)
    BY <2>1 DEF ApprovedFor
  <2>3. QED
    BY <1>3, <2>2, NothingApproved DEF RejectReturn
<1>4. CASE UNCHANGED << refunds, request >>
  <2>1. \A o \in Orders : ApprovedFor(o)' = ApprovedFor(o)
    BY <1>4 DEF ApprovedFor
  <2>2. QED
    BY <1>4, <2>1, NothingApproved
<1>5. QED
  BY <1>1, <1>2, <1>3, <1>4
  DEF Next, Proceeds, vars, tables, Checkout, PreRead, BuyerCancels, SellerRejects,
      AdminCancels, ForceCancels, Cancel, SellerMoves, TekaMoves, Move, Delivers, Locks,
      Forces, LooksForActiveRequest, Refused, Aborts, Tick

\* Nothing is approved or refunded at the start.
LEMMA RefundedInit ==
  ASSUME Init
  PROVE  RefundedOnce
<1>1. ASSUME NEW o \in Orders PROVE ApprovedFor(o) = {} /\ refunds[o] = 0
  BY DEF Init, ApprovedFor
<1>2. ASSUME NEW o \in Orders PROVE Cardinality(ApprovedFor(o)) = 0
  BY <1>1, FS_EmptySet
<1>3. QED
  BY <1>1, <1>2 DEF RefundedOnce, ApprovedFor

\* Every refund is the approval of one return request of the order, and there
\* is at most one, however many requests and reviews race.
THEOREM RefundsAreOnce == Spec => []RefundedOnce
<1>1. Init => CallInv /\ RefundedOnce
  BY CallInvInit, RefundedInit
<1>2. TypeOK /\ CallInv /\ [Next]_vars => CallInv'
  BY CallInvStep
<1>3. TypeOK /\ CallInv /\ RefundedOnce /\ [Next]_vars => RefundedOnce'
  BY RefundStep
<1>4. QED
  BY <1>1, <1>2, <1>3, TypeCorrect, PTL DEF Spec

=============================================================================

----------------------------- MODULE IntentLedger -----------------------------
(***************************************************************************)
(* What the checkout promises to a buyer who repeats a request, with no    *)
(* cart, stock, screens or reads: a request buys a basket at one moment    *)
(* between its sending and its answer, or not at all; the orders of an     *)
(* intent are of different sellers; a request sent after its intent has    *)
(* bought buys nothing and is not told that there is nothing to buy.       *)
(* CartCheckout is shown to implement this specification.                  *)
(***************************************************************************)
EXTENDS Naturals

CONSTANTS Products, Sellers, SellerOf, Keys, Attempts, NoKey,
          Baskets      \* units of each product

VARIABLES sold,     \* the orders
          request   \* request[a]: its state, its intent, whether that had bought

Unsent == [ state |-> "unsent", key |-> NoKey, late |-> FALSE ]

Bought(k) == { o \in sold : o.key = k }

SellersIn(basket) == { SellerOf[p] : p \in { q \in Products : basket[q] > 0 } }

\* The part of a basket that one seller gets.
Share(basket, s) == [p \in Products |-> IF SellerOf[p] = s THEN basket[p] ELSE 0]

Init ==
  /\ sold = {}
  /\ request = [a \in Attempts |-> Unsent]

Sends(a, k) ==
  /\ request[a] = Unsent
  /\ request' = [request EXCEPT ![a] = [ state |-> "open", key |-> k, late |-> Bought(k) # {} ]]
  /\ UNCHANGED sold

\* The orders of a basket, all or none.
Buys(a, basket) ==
  LET k == request[a].key IN
  /\ request[a].state = "open" /\ ~request[a].late
  /\ SellersIn(basket) # {}
  /\ \A o \in Bought(k) : o.seller \notin SellersIn(basket)
  /\ sold' = sold \cup { [ key |-> k, seller |-> s, by |-> a, lines |-> Share(basket, s) ] :
                           s \in SellersIn(basket) }
  /\ request' = [request EXCEPT ![a].state = "orders"]

\* The orders are there already.
Repeats(a) ==
  /\ request[a].state = "open" /\ Bought(request[a].key) # {}
  /\ request' = [request EXCEPT ![a].state = "orders"]
  /\ UNCHANGED sold

FindsNothing(a) ==
  /\ request[a].state = "open" /\ ~request[a].late
  /\ request' = [request EXCEPT ![a].state = "empty"]
  /\ UNCHANGED sold

Fails(a) ==
  /\ request[a].state = "open"
  /\ request' = [request EXCEPT ![a].state = "failed"]
  /\ UNCHANGED sold

\* A step sends or answers one request.
Next ==
  \E a \in Attempts :
    /\ request'[a].state # request[a].state
    /\ \/ \E k \in Keys : Sends(a, k)
       \/ \E basket \in Baskets : Buys(a, basket)
       \/ Repeats(a) \/ FindsNothing(a) \/ Fails(a)

Spec == Init /\ [][Next]_<< sold, request >>

=============================================================================

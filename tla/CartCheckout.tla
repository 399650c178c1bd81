----------------------------- MODULE CartCheckout -----------------------------
(***************************************************************************)
(* One buyer's cart, the screens that place its orders, and the checkout   *)
(* handler between them.                                                   *)
(*                                                                         *)
(* A screen names its intent with an idempotency key, made at the first    *)
(* attempt and kept for every retry.  The handler looks for orders of that *)
(* key, reads the cart, and only then opens the transaction that takes the *)
(* stock, creates one order per seller and empties the cart.  Between those*)
(* three moments anything may happen to the cart, the stock and the orders.*)
(***************************************************************************)
EXTENDS Naturals, FiniteSets

CONSTANTS
  Products, Sellers,
  SellerOf,      \* the seller of each product
  Screens,       \* the buyer's open checkout screens, on any device
  WebScreens,    \* those of the web shop
  Keys,          \* idempotency keys that can be drawn
  Attempts,      \* requests to place an order that may be sent
  NoKey, NoAttempt,
  MaxUnits       \* bound on the units of a product, in stock or on a line

ASSUME CheckoutConstants ==
  /\ SellerOf \in [Products -> Sellers]
  /\ WebScreens \subseteq Screens
  /\ NoKey \notin Keys /\ NoAttempt \notin Attempts
  /\ MaxUnits \in Nat

VARIABLES
  line,     \* cart_items.quantity of each product, 0 for no line
  shelf,    \* products.quantity
  listed,   \* products that are ACTIVE and not deleted
  placed,   \* orders: one per key and seller, with its lines and its request
  attempt,  \* the checkout requests
  screen    \* the clients

checkoutVars == << line, shelf, listed, placed, attempt, screen >>

Counts == 0 .. MaxUnits

Lines == [Products -> Counts]

NoLines == [p \in Products |-> 0]

Order == [ key : Keys, seller : Sellers, lines : Lines, by : Attempts ]

Phases == { "unsent", "sent", "looked", "read", "answered" }

\* "orders": the orders of the key; "empty": the cart is; "failed": any other
\* error.
Answers == { "none", "orders", "empty", "failed" }

\* known: the orders of its key existed when the request was sent.
Attempt ==
  [ phase : Phases, key : Keys \cup { NoKey }, lines : Lines,
    answer : Answers, known : BOOLEAN ]

Unsent ==
  [ phase |-> "unsent", key |-> NoKey, lines |-> NoLines,
    answer |-> "none", known |-> FALSE ]

\* key: the intent on the screen; clears: it still has to empty the cart.
Screen ==
  [ key : Keys \cup { NoKey }, waits : Attempts \cup { NoAttempt }, clears : BOOLEAN ]

Blank == [ key |-> NoKey, waits |-> NoAttempt, clears |-> FALSE ]

-----------------------------------------------------------------------------
(* The cart                                                                  *)

\* What getCart, the end of every cart handler, leaves: no stale line.
Cleaned(lines) == [p \in Products |-> IF p \in listed THEN lines[p] ELSE 0]

Adds(p, n) ==
  /\ p \in listed /\ n \in 1 .. shelf[p]
  /\ line' = Cleaned([line EXCEPT ![p] = n])
  /\ UNCHANGED << shelf, listed, placed, attempt, screen >>

UpdatesQuantity(p, n) ==
  /\ p \in listed /\ n \in 1 .. shelf[p] /\ line[p] > 0
  /\ line' = Cleaned([line EXCEPT ![p] = n])
  /\ UNCHANGED << shelf, listed, placed, attempt, screen >>

Removes(p) ==
  /\ line[p] > 0
  /\ line' = Cleaned([line EXCEPT ![p] = 0])
  /\ UNCHANGED << shelf, listed, placed, attempt, screen >>

Lesser(m, n) == IF m <= n THEN m ELSE n
Greater(m, n) == IF m >= n THEN m ELSE n

\* One turn of the loop over a guest's lines: each finds the cart as it is.
MergesGuestLine(p, n) ==
  /\ p \in listed /\ n > 0 /\ Lesser(n, shelf[p]) > 0
  /\ line' = [line EXCEPT ![p] = Lesser(Greater(Lesser(n, shelf[p]), line[p]), shelf[p])]
  /\ UNCHANGED << shelf, listed, placed, attempt, screen >>

\* DELETE /v1/cart, asked by the buyer.
ClearsCart ==
  /\ line' = NoLines
  /\ UNCHANGED << shelf, listed, placed, attempt, screen >>

\* getCart by itself.
ShowsCart ==
  /\ line' = Cleaned(line)
  /\ UNCHANGED << shelf, listed, placed, attempt, screen >>

CartMoves ==
  \/ \E p \in Products, n \in Counts :
       Adds(p, n) \/ UpdatesQuantity(p, n) \/ MergesGuestLine(p, n)
  \/ \E p \in Products : Removes(p)
  \/ ClearsCart \/ ShowsCart

\* Other buyers, cancellations and the catalogue.
CatalogueMoves ==
  /\ \E p \in Products :
       \/ /\ \E n \in Counts \ { shelf[p] } : shelf' = [shelf EXCEPT ![p] = n]
          /\ UNCHANGED listed
       \/ /\ listed' = IF p \in listed THEN listed \ { p } ELSE listed \cup { p }
          /\ UNCHANGED shelf
  /\ UNCHANGED << line, placed, attempt, screen >>

-----------------------------------------------------------------------------
(* The checkout handler                                                      *)

OrdersOf(k) == { o \in placed : o.key = k }

Answered(a, answer) ==
  attempt' = [attempt EXCEPT ![a].phase = "answered", ![a].answer = answer]

\* Variant: an empty cart is refused before the key is looked up.
LooksUp_CartFirst(a) ==
  /\ attempt[a].phase = "sent"
  /\ IF line = NoLines THEN Answered(a, "empty")
     ELSE IF OrdersOf(attempt[a].key) # {} THEN Answered(a, "orders")
     ELSE attempt' = [attempt EXCEPT ![a].phase = "looked"]
  /\ UNCHANGED << line, shelf, listed, placed, screen >>

\* A key that has orders is answered with them; nothing is ordered.
LooksUp(a) ==
  /\ attempt[a].phase = "sent"
  /\ IF OrdersOf(attempt[a].key) # {} THEN Answered(a, "orders")
     ELSE attempt' = [attempt EXCEPT ![a].phase = "looked"]
  /\ UNCHANGED << line, shelf, listed, placed, screen >>

\* getCartSummary: outside the transaction, stale lines included.
ReadsCart(a) ==
  /\ attempt[a].phase = "looked"
  /\ IF line = NoLines THEN Answered(a, "empty")
     ELSE attempt' = [attempt EXCEPT ![a].phase = "read", ![a].lines = line]
  /\ UNCHANGED << line, shelf, listed, placed, screen >>

InGroup(a) == { SellerOf[p] : p \in { q \in Products : attempt[a].lines[q] > 0 } }

\* Variant: orders have no unique index over key and seller.
KeyTaken_NoIndex(a) == FALSE

\* The unique index over key and seller refuses one order of the group, and
\* with it the transaction.
KeyTaken(a) == \E o \in OrdersOf(attempt[a].key) : o.seller \in InGroup(a)

\* Variant: the stock read with the cart is believed.
CanTake_AsRead(a, p) == attempt[a].lines[p] > 0 => p \in listed

\* takeStock of one line.
CanTake(a, p) ==
  attempt[a].lines[p] > 0 => p \in listed /\ shelf[p] >= attempt[a].lines[p]

OrderFor(a, s) ==
  [ key |-> attempt[a].key, seller |-> s, by |-> a,
    lines |-> [p \in Products |-> IF SellerOf[p] = s THEN attempt[a].lines[p] ELSE 0] ]

\* Stock, orders and cart in one transaction.  It empties the cart as it is
\* now, not as it was read.
Commits(a) ==
  /\ attempt[a].phase = "read"
  /\ \A p \in Products : CanTake(a, p)
  /\ ~KeyTaken(a)
  /\ shelf' = [p \in Products |-> shelf[p] - attempt[a].lines[p]]
  /\ placed' = placed \cup { OrderFor(a, s) : s \in InGroup(a) }
  /\ line' = NoLines
  /\ Answered(a, "orders")
  /\ UNCHANGED << listed, screen >>

\* Stock, a taken key, no zone or address, a timeout, a crash: rolled back.
RollsBack(a) ==
  /\ attempt[a].phase \in { "sent", "looked", "read" }
  /\ Answered(a, "failed")
  /\ UNCHANGED << line, shelf, listed, placed, screen >>

Handles(a) == LooksUp(a) \/ ReadsCart(a) \/ Commits(a) \/ RollsBack(a)

-----------------------------------------------------------------------------
(* The screens                                                               *)

UsedKeys == { attempt[a].key : a \in Attempts }

\* Drawn keys are new; it makes no difference which of the new ones it is.
FreshKeys ==
  IF Keys \subseteq UsedKeys THEN {} ELSE { CHOOSE k \in Keys : k \notin UsedKeys }

KeysFor(d) == IF screen[d].key # NoKey THEN { screen[d].key } ELSE FreshKeys

\* The attempt after those already sent.
NextAttempt == CHOOSE a \in Attempts : attempt[a].phase = "unsent"

\* handlePlaceOrder, placeOrder: a second tap is ignored while one waits.
PlacesOrder(d) ==
  /\ screen[d].waits = NoAttempt /\ ~screen[d].clears
  /\ \E a \in Attempts : attempt[a].phase = "unsent"
  /\ \E a \in { NextAttempt }, k \in KeysFor(d) :
       /\ attempt' = [attempt EXCEPT ![a] =
            [ phase |-> "sent", key |-> k, lines |-> NoLines,
              answer |-> "none", known |-> OrdersOf(k) # {} ]]
       /\ screen' = [screen EXCEPT ![d] = [ key |-> k, waits |-> a, clears |-> FALSE ]]
  /\ UNCHANGED << line, shelf, listed, placed >>

\* A success drops the key; an error keeps it for the retry.
Hears(d) ==
  /\ screen[d].waits # NoAttempt
  /\ LET a == attempt[screen[d].waits] IN
     /\ a.phase = "answered"
     /\ screen' = [screen EXCEPT ![d] =
          IF a.answer = "orders" THEN [ Blank EXCEPT !.clears = d \in WebScreens ]
          ELSE [ @ EXCEPT !.waits = NoAttempt ]]
  /\ UNCHANGED << line, shelf, listed, placed, attempt >>

\* The answer is lost or late; the request goes on without its screen.
TimesOut(d) ==
  /\ screen[d].waits # NoAttempt
  /\ screen' = [screen EXCEPT ![d].waits = NoAttempt]
  /\ UNCHANGED << line, shelf, listed, placed, attempt >>

\* The screen is closed: its key dies with it.
Leaves(d) ==
  /\ screen[d] # Blank
  /\ screen' = [screen EXCEPT ![d] = Blank]
  /\ UNCHANGED << line, shelf, listed, placed, attempt >>

\* The web shop empties the cart again after a success.
ClearsAfterSuccess(d) ==
  /\ screen[d].clears
  /\ line' = NoLines
  /\ screen' = [screen EXCEPT ![d] = Blank]
  /\ UNCHANGED << shelf, listed, placed, attempt >>

Shows(d) ==
  PlacesOrder(d) \/ Hears(d) \/ TimesOut(d) \/ Leaves(d) \/ ClearsAfterSuccess(d)

-----------------------------------------------------------------------------

CheckoutInit ==
  /\ line = NoLines
  /\ shelf \in [Products -> Counts]
  /\ listed = Products
  /\ placed = {}
  /\ attempt = [a \in Attempts |-> Unsent]
  /\ screen = [d \in Screens |-> Blank]

CheckoutNext ==
  \/ CartMoves \/ CatalogueMoves
  \/ \E a \in Attempts : Handles(a)
  \/ \E d \in Screens : Shows(d)

CheckoutSpec == CheckoutInit /\ [][CheckoutNext]_checkoutVars

-----------------------------------------------------------------------------
(* The abstract specification                                                *)

\* The requests as their senders see them: what happens before an answer is one
\* state.
Requests ==
  [a \in Attempts |->
     [ state |-> CASE attempt[a].phase = "unsent" -> "unsent"
                   [] attempt[a].phase = "answered" -> attempt[a].answer
                   [] OTHER -> "open",
       key |-> attempt[a].key, late |-> attempt[a].known ]]

Intents == INSTANCE IntentLedger WITH sold <- placed, request <- Requests, Baskets <- Lines

-----------------------------------------------------------------------------
(* Properties                                                                *)

\* Shapes of the rows; stock never goes below zero.
CartTypeOK ==
  /\ line \in Lines /\ shelf \in Lines /\ listed \subseteq Products
  /\ placed \subseteq Order
  /\ attempt \in [Attempts -> Attempt]
  /\ screen \in [Screens -> Screen]

\* However often a screen retries, times out or races itself, one intent
\* orders a product at most once, also when the cart changed in between and
\* the same key then bought from another seller.
OncePerIntent ==
  \A o, q \in placed :
    (o.key = q.key /\ \E p \in Products : o.lines[p] > 0 /\ q.lines[p] > 0) => o = q

\* The checkout implements IntentLedger: however reads of the key, of the cart and
\* transactions of one intent interleave, a request buys its whole basket at one
\* moment or nothing, never from a seller the intent has bought from, and a retry
\* of what was bought buys nothing (checkout and its idempotency key).
ImplementsIntents == Intents!Spec

\* A retry sent after its key had orders finds that they exist: it never gets past
\* the lookup without an answer, so it never reaches the transaction, and the cart
\* that the orders emptied never gets it refused as empty.
RetryFindsItsOrders ==
  \A a \in Attempts :
    attempt[a].known =>
      /\ OrdersOf(attempt[a].key) # {}
      /\ attempt[a].phase \in { "sent", "answered" }
      /\ attempt[a].answer # "empty"

=============================================================================

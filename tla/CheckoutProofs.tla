---------------------------- MODULE CheckoutProofs ----------------------------
(***************************************************************************)
(* Proofs about the checkout of a cart, for any products, sellers, screens,*)
(* keys and number of attempts.                                            *)
(***************************************************************************)
EXTENDS CartCheckout, TLAPS

\* A request that was sent has a key.
Keyed == \A a \in Attempts : attempt[a].phase # "unsent" => attempt[a].key \in Keys

\* What the unique index keeps: one order per key and seller, with the lines of
\* that seller only.
PlacedInv ==
  \A o, q \in placed :
    /\ \A p \in Products : o.lines[p] > 0 => SellerOf[p] = o.seller
    /\ o.key = q.key /\ o.seller = q.seller => o = q

CartInv == CartTypeOK /\ Keyed /\ RetryFindsItsOrders /\ PlacedInv

-----------------------------------------------------------------------------
(* The handler                                                               *)

\* What one step of the handler does to its attempt.
AttemptMoves(a, phase, lines, answer) ==
  /\ attempt' \in [Attempts -> Attempt]
  /\ \A b \in Attempts \ { a } : attempt'[b] = attempt[b]
  /\ attempt'[a].phase = phase /\ attempt'[a].lines = lines /\ attempt'[a].answer = answer
  /\ attempt'[a].key = attempt[a].key /\ attempt'[a].known = attempt[a].known

LEMMA HandlerWrites ==
  ASSUME CartTypeOK, NEW a \in Attempts, Handles(a)
  PROVE  /\ UNCHANGED << listed, screen >>
         /\ attempt[a].phase \in { "sent", "looked", "read" }
         /\ \/ /\ UNCHANGED << line, shelf, placed >>
               /\ \/ AttemptMoves(a, "answered", attempt[a].lines, "orders")
                     /\ OrdersOf(attempt[a].key) # {}
                  \/ AttemptMoves(a, "answered", attempt[a].lines, "failed")
                  \/ AttemptMoves(a, "answered", attempt[a].lines, "empty")
                     /\ attempt[a].phase = "looked"
                  \/ AttemptMoves(a, "looked", attempt[a].lines, attempt[a].answer)
                     /\ OrdersOf(attempt[a].key) = {}
                  \/ AttemptMoves(a, "read", line, attempt[a].answer)
                     /\ attempt[a].phase = "looked" /\ line # NoLines
            \/ /\ Commits(a)
               /\ AttemptMoves(a, "answered", attempt[a].lines, "orders")
<1>1. attempt \in [Attempts -> Attempt] /\ line \in Lines
  BY DEF CartTypeOK
<1>2. ASSUME NEW answer \in Answers, Answered(a, answer)
      PROVE  AttemptMoves(a, "answered", attempt[a].lines, answer)
  BY <1>1, <1>2 DEF Answered, AttemptMoves, Attempt, Phases
<1>3. ASSUME attempt' = [attempt EXCEPT ![a].phase = "looked"]
      PROVE  AttemptMoves(a, "looked", attempt[a].lines, attempt[a].answer)
  BY <1>1, <1>3 DEF AttemptMoves, Attempt, Phases
<1>4. ASSUME attempt' = [attempt EXCEPT ![a].phase = "read", ![a].lines = line]
      PROVE  AttemptMoves(a, "read", line, attempt[a].answer)
  BY <1>1, <1>4 DEF AttemptMoves, Attempt, Phases
<1>5. CASE LooksUp(a)
  BY <1>2, <1>3, <1>5 DEF LooksUp, Answers
<1>6. CASE ReadsCart(a)
  BY <1>2, <1>4, <1>6 DEF ReadsCart, Answers
<1>7. CASE Commits(a)
  BY <1>2, <1>7 DEF Commits, Answers
<1>8. CASE RollsBack(a)
  BY <1>2, <1>8 DEF RollsBack, Answers
<1> QED  BY <1>5, <1>6, <1>7, <1>8 DEF Handles

\* The orders of a commit: of its key, each of another seller and with the lines
\* of that seller.
LEMMA NewOrders ==
  ASSUME CartInv, NEW a \in Attempts, Commits(a)
  PROVE  /\ \A s \in InGroup(a) : OrderFor(a, s) \in Order
         /\ PlacedInv'
<1> USE CheckoutConstants
<1>1. /\ attempt[a] \in Attempt /\ attempt[a].key \in Keys
      /\ placed' = placed \cup { OrderFor(a, s) : s \in InGroup(a) }
  BY DEF CartInv, CartTypeOK, Keyed, Commits
<1>2. InGroup(a) \subseteq Sellers
  BY DEF InGroup
<1>3. ASSUME NEW s \in Sellers
      PROVE  [p \in Products |-> IF SellerOf[p] = s THEN attempt[a].lines[p] ELSE 0] \in Lines
  BY <1>1 DEF Attempt, Lines, Counts
<1>4. \A s \in InGroup(a) : OrderFor(a, s) \in Order
  BY <1>1, <1>2, <1>3 DEF OrderFor, Order
<1>5. ASSUME NEW s \in InGroup(a), NEW p \in Products, OrderFor(a, s).lines[p] > 0
      PROVE  SellerOf[p] = OrderFor(a, s).seller
  BY <1>5 DEF OrderFor
<1>6. ASSUME NEW o \in placed, NEW s \in InGroup(a)
      PROVE  ~(o.key = attempt[a].key /\ o.seller = s)
  BY DEF Commits, KeyTaken, OrdersOf
<1>7. ASSUME NEW s \in InGroup(a)
      PROVE  OrderFor(a, s).key = attempt[a].key /\ OrderFor(a, s).seller = s
  BY DEF OrderFor
<1>8. \A o \in placed' : \A p \in Products : o.lines[p] > 0 => SellerOf[p] = o.seller
  BY <1>1, <1>5 DEF CartInv, PlacedInv
<1>9. ASSUME NEW o \in placed', NEW q \in placed', o.key = q.key, o.seller = q.seller
      PROVE  o = q
  <2>1. CASE o \in placed /\ q \in placed
    BY <1>9, <2>1 DEF CartInv, PlacedInv
  <2>2. CASE o \notin placed /\ q \notin placed
    BY <1>1, <1>7, <1>9, <2>2
  <2>3. CASE o \in placed /\ q \notin placed
    BY <1>1, <1>6, <1>7, <1>9, <2>3
  <2>4. CASE o \notin placed /\ q \in placed
    BY <1>1, <1>6, <1>7, <1>9, <2>4
  <2> QED  BY <2>1, <2>2, <2>3, <2>4
<1> QED  BY <1>4, <1>8, <1>9 DEF PlacedInv

LEMMA HandlerStep ==
  ASSUME CartInv, NEW a \in Attempts, Handles(a)
  PROVE  CartInv'
<1> USE CheckoutConstants
<1>1. CartTypeOK /\ Keyed /\ RetryFindsItsOrders /\ PlacedInv
  BY DEF CartInv
<1>2. placed \subseteq placed' /\ placed' \subseteq Order /\ PlacedInv'
  <2>1. CASE UNCHANGED placed
    BY <1>1, <2>1 DEF CartTypeOK, PlacedInv
  <2>2. CASE Commits(a)
    BY <1>1, <2>2, NewOrders DEF Commits, CartTypeOK
  <2> QED  BY <1>1, <2>1, <2>2, HandlerWrites
<1>3. PICK phase \in { "looked", "read", "answered" }, lines \in Lines, answer \in Answers :
        /\ AttemptMoves(a, phase, lines, answer)
        /\ attempt[a].known => phase = "answered" /\ answer # "empty"
  <2>1. attempt[a].lines \in Lines /\ attempt[a].answer \in Answers /\ line \in Lines
    BY <1>1 DEF CartTypeOK, Attempt
  <2>2. attempt[a].known => OrdersOf(attempt[a].key) # {} /\ attempt[a].phase = "sent"
    BY <1>1, HandlerWrites DEF RetryFindsItsOrders
  <2> HIDE DEF AttemptMoves
  <2> QED  BY <1>1, <2>1, <2>2, HandlerWrites DEF Answers
<1>4. attempt' \in [Attempts -> Attempt]
  BY <1>1, <1>3 DEF CartTypeOK, AttemptMoves, Attempt, Phases
<1>5. ASSUME NEW b \in Attempts
      PROVE  attempt'[b].key = attempt[b].key /\ attempt'[b].known = attempt[b].known
  BY <1>1, <1>3 DEF CartTypeOK, AttemptMoves
<1>6. shelf' \in Lines /\ line' \in Lines
  <2>1. CASE UNCHANGED << line, shelf >>
    BY <1>1, <2>1 DEF CartTypeOK
  <2>2. CASE Commits(a)
    <3>1. ASSUME NEW p \in Products
          PROVE  shelf[p] - attempt[a].lines[p] \in Counts
      BY <1>1, <2>2 DEF CartTypeOK, Attempt, Lines, Counts, Commits, CanTake
    <3> QED  BY <2>2, <3>1 DEF Commits, NoLines, Lines, Counts
  <2> QED  BY <1>1, <2>1, <2>2, HandlerWrites
<1>7. CartTypeOK'
  BY <1>1, <1>2, <1>4, <1>6, HandlerWrites DEF CartTypeOK
<1>8. Keyed'
  <2>1. attempt[a].phase # "unsent"
    BY <1>1, HandlerWrites
  <2>2. \A b \in Attempts : b # a => attempt'[b] = attempt[b]
    BY <1>1, <1>3 DEF CartTypeOK, AttemptMoves
  <2> QED  BY <1>1, <1>5, <2>1, <2>2 DEF Keyed
<1>9. RetryFindsItsOrders'
  <2> SUFFICES ASSUME NEW b \in Attempts, attempt[b].known
               PROVE  /\ OrdersOf(attempt[b].key)' # {}
                      /\ attempt'[b].phase \in { "sent", "answered" }
                      /\ attempt'[b].answer # "empty"
    BY <1>5 DEF RetryFindsItsOrders, OrdersOf
  <2>1. OrdersOf(attempt[b].key) # {}
    BY <1>1 DEF RetryFindsItsOrders
  <2>2. OrdersOf(attempt[b].key)' # {}
    BY <1>2, <1>5, <2>1 DEF OrdersOf
  <2>3. CASE b = a
    BY <1>1, <1>3, <2>2, <2>3 DEF CartTypeOK, AttemptMoves
  <2>4. CASE b # a
    BY <1>1, <1>3, <2>2, <2>4 DEF CartTypeOK, AttemptMoves, RetryFindsItsOrders
  <2> QED  BY <2>3, <2>4
<1> QED  BY <1>2, <1>7, <1>8, <1>9 DEF CartInv

-----------------------------------------------------------------------------
(* The cart, the catalogue and the screens                                   *)

\* They place no order, and only a screen that sends one touches the attempts.
LEMMA OthersWrite ==
  ASSUME CartTypeOK, CartMoves \/ CatalogueMoves \/ \E d \in Screens : Shows(d)
  PROVE  /\ placed' = placed
         /\ UNCHANGED attempt \/ \E d \in Screens : PlacesOrder(d)
BY DEF CartMoves, CatalogueMoves, Shows, Adds, UpdatesQuantity, Removes, MergesGuestLine,
       ClearsCart, ShowsCart, PlacesOrder, Hears, TimesOut, Leaves, ClearsAfterSuccess

LEMMA CartRows ==
  ASSUME CartTypeOK, CartMoves
  PROVE  line' \in Lines /\ UNCHANGED << shelf, listed, placed, attempt, screen >>
<1> USE CheckoutConstants DEF CartTypeOK, Lines, Counts
<1>1. ASSUME NEW lines \in Lines
      PROVE  Cleaned(lines) \in Lines
  BY DEF Cleaned
<1>2. ASSUME NEW p \in Products, NEW n \in Counts,
             Adds(p, n) \/ UpdatesQuantity(p, n)
      PROVE  line' \in Lines
  <2>1. [line EXCEPT ![p] = n] \in Lines
    OBVIOUS
  <2> HIDE DEF Lines, CartTypeOK
  <2> QED  BY <1>1, <1>2, <2>1 DEF Adds, UpdatesQuantity
<1>3. ASSUME NEW p \in Products, NEW n \in Counts, MergesGuestLine(p, n)
      PROVE  line' \in Lines
  BY <1>3 DEF MergesGuestLine, Lesser, Greater
<1>4. ASSUME NEW p \in Products, Removes(p)
      PROVE  line' \in Lines
  <2>1. [line EXCEPT ![p] = 0] \in Lines
    OBVIOUS
  <2> HIDE DEF Lines, CartTypeOK
  <2> QED  BY <1>1, <1>4, <2>1 DEF Removes
<1>5. ASSUME ClearsCart \/ ShowsCart
      PROVE  line' \in Lines
  BY <1>1, <1>5 DEF ClearsCart, ShowsCart, NoLines
<1>6. line' \in Lines
  BY <1>2, <1>3, <1>4, <1>5 DEF CartMoves
<1> QED
  BY <1>6 DEF CartMoves, Adds, UpdatesQuantity, Removes, MergesGuestLine, ClearsCart, ShowsCart

LEMMA CatalogueRows ==
  ASSUME CartTypeOK, CatalogueMoves
  PROVE  shelf' \in Lines /\ listed' \subseteq Products
BY DEF CatalogueMoves, CartTypeOK, Lines, Counts

\* Every screen keeps its shape, and the request it sends has a key.
LEMMA SendsWithKey ==
  ASSUME CartTypeOK, NEW d \in Screens, PlacesOrder(d)
  PROVE  \E a \in Attempts, k \in Keys :
           /\ attempt[a].phase = "unsent"
           /\ attempt' = [attempt EXCEPT ![a] =
                [ phase |-> "sent", key |-> k, lines |-> NoLines,
                  answer |-> "none", known |-> OrdersOf(k) # {} ]]
           /\ screen' = [screen EXCEPT ![d] = [ key |-> k, waits |-> a, clears |-> FALSE ]]
<1>1. NextAttempt \in Attempts /\ attempt[NextAttempt].phase = "unsent"
  BY DEF PlacesOrder, NextAttempt
<1>2. KeysFor(d) \subseteq Keys
  <2>1. FreshKeys \subseteq Keys
    BY DEF FreshKeys
  <2>2. screen[d].key \in Keys \cup { NoKey }
    BY DEF CartTypeOK, Screen
  <2> QED  BY <2>1, <2>2 DEF KeysFor
<1> QED  BY <1>1, <1>2 DEF PlacesOrder

LEMMA ScreensKeepShape ==
  ASSUME CartTypeOK, NEW d \in Screens, Shows(d)
  PROVE  screen' \in [Screens -> Screen] /\ line' \in Lines /\ UNCHANGED << shelf, listed >>
<1>1. CASE PlacesOrder(d)
  <2>1. screen' \in [Screens -> Screen]
    <3>1. PICK a \in Attempts, k \in Keys :
            screen' = [screen EXCEPT ![d] = [ key |-> k, waits |-> a, clears |-> FALSE ]]
      BY <1>1, SendsWithKey
    <3>2. [ key |-> k, waits |-> a, clears |-> FALSE ] \in Screen
      BY DEF Screen
    <3> QED  BY <3>1, <3>2 DEF CartTypeOK
  <2> QED  BY <1>1, <2>1 DEF PlacesOrder, CartTypeOK
<1>2. CASE Hears(d)
  <2>1. [ Blank EXCEPT !.clears = d \in WebScreens ] \in Screen
    <3>1. \A b \in BOOLEAN : [ Blank EXCEPT !.clears = b ] \in Screen
      <4>1. Blank \in Screen
        BY DEF Blank, Screen
      <4> QED  BY <4>1 DEF Screen
    <3>2. (d \in WebScreens) \in BOOLEAN
      OBVIOUS
    <3> QED  BY <3>1, <3>2, Zenon
  <2>2. [ screen[d] EXCEPT !.waits = NoAttempt ] \in Screen
    BY DEF CartTypeOK, Screen
  <2>3. screen' \in [Screens -> Screen]
    BY <1>2, <2>1, <2>2 DEF Hears, CartTypeOK
  <2> QED  BY <1>2, <2>3 DEF Hears, CartTypeOK
<1>3. CASE TimesOut(d)
  BY <1>3 DEF TimesOut, CartTypeOK, Screen
<1>4. CASE Leaves(d) \/ ClearsAfterSuccess(d)
  <2>1. Blank \in Screen
    BY DEF Blank, Screen
  <2>2. NoLines \in Lines
    BY CheckoutConstants DEF NoLines, Lines, Counts
  <2> QED  BY <1>4, <2>1, <2>2 DEF Leaves, ClearsAfterSuccess, CartTypeOK
<1> QED  BY <1>1, <1>2, <1>3, <1>4 DEF Shows

LEMMA OthersStep ==
  ASSUME CartInv, CartMoves \/ CatalogueMoves \/ \E d \in Screens : Shows(d)
  PROVE  CartInv'
<1>1. CartTypeOK /\ Keyed /\ RetryFindsItsOrders /\ PlacedInv
  BY DEF CartInv
<1>2. line' \in Lines /\ shelf' \in Lines /\ listed' \subseteq Products
      /\ screen' \in [Screens -> Screen]
  <2>1. CASE CartMoves
    BY <1>1, <2>1, CartRows DEF CartTypeOK
  <2>2. CASE CatalogueMoves
    BY <1>1, <2>2, CatalogueRows DEF CartTypeOK, CatalogueMoves
  <2>3. ASSUME NEW d \in Screens, Shows(d)
        PROVE  line' \in Lines /\ shelf' \in Lines /\ listed' \subseteq Products
               /\ screen' \in [Screens -> Screen]
    BY <1>1, <2>3, ScreensKeepShape DEF CartTypeOK
  <2> QED  BY <2>1, <2>2, <2>3
<1>3. placed' = placed
  BY <1>1, OthersWrite
<1>4. CASE UNCHANGED attempt
  BY <1>1, <1>2, <1>3, <1>4
  DEF CartInv, CartTypeOK, Keyed, RetryFindsItsOrders, PlacedInv, OrdersOf
<1>5. ASSUME NEW d \in Screens, PlacesOrder(d)
      PROVE  CartInv'
  <2>1. PICK a \in Attempts, k \in Keys :
          attempt' = [attempt EXCEPT ![a] =
            [ phase |-> "sent", key |-> k, lines |-> NoLines,
              answer |-> "none", known |-> OrdersOf(k) # {} ]]
    BY <1>1, <1>5, SendsWithKey
  <2>2. NoLines \in Lines
    BY CheckoutConstants DEF NoLines, Lines, Counts
  <2>3. attempt' \in [Attempts -> Attempt]
    BY <1>1, <2>1, <2>2 DEF CartTypeOK, Attempt, Phases, Answers
  <2>4. Keyed' /\ RetryFindsItsOrders'
    BY <1>1, <1>3, <2>1 DEF CartTypeOK, Keyed, RetryFindsItsOrders, OrdersOf
  <2> QED
    BY <1>1, <1>2, <1>3, <2>3, <2>4 DEF CartInv, CartTypeOK, PlacedInv
<1> QED  BY <1>1, <1>4, <1>5, OthersWrite

-----------------------------------------------------------------------------
(* The theorems                                                              *)

LEMMA CartInitially == CheckoutInit => CartInv
<1> SUFFICES ASSUME CheckoutInit  PROVE CartInv
  OBVIOUS
<1> USE CheckoutConstants
<1>1. NoLines \in Lines
  BY DEF NoLines, Lines, Counts
<1>2. CartTypeOK
  BY <1>1 DEF CheckoutInit, CartTypeOK, Unsent, Attempt, Phases, Answers, Blank, Screen, Lines
<1>3. Keyed /\ RetryFindsItsOrders /\ PlacedInv
  BY DEF CheckoutInit, Keyed, RetryFindsItsOrders, PlacedInv, Unsent
<1> QED  BY <1>2, <1>3 DEF CartInv

LEMMA CartStep ==
  ASSUME CartInv, [CheckoutNext]_checkoutVars
  PROVE  CartInv'
<1>1. CASE UNCHANGED checkoutVars
  BY <1>1 DEF checkoutVars, CartInv, CartTypeOK, Keyed, RetryFindsItsOrders, PlacedInv, OrdersOf
<1> QED  BY <1>1, HandlerStep, OthersStep DEF CheckoutNext

LEMMA CartInvariant == CheckoutSpec => []CartInv
BY CartInitially, CartStep, PTL DEF CheckoutSpec

\* Rows and requests keep their shape; no checkout takes more than there is.
THEOREM CartTypeCorrect == CheckoutSpec => []CartTypeOK
<1>1. CartInv => CartTypeOK
  BY DEF CartInv
<1> QED  BY <1>1, CartInvariant, PTL

\* However an intent is retried, it orders a product at most once: two orders of
\* one key are of different sellers, and a product has one seller (checkout and
\* the unique index over key and seller).
THEOREM IntentsOrderOnce == CheckoutSpec => []OncePerIntent
<1>1. CartInv => OncePerIntent
  <2> SUFFICES ASSUME CartInv, NEW o \in placed, NEW q \in placed, o.key = q.key,
                      NEW p \in Products, o.lines[p] > 0, q.lines[p] > 0
               PROVE  o = q
    BY DEF OncePerIntent
  <2>1. SellerOf[p] = o.seller /\ SellerOf[p] = q.seller
    BY DEF CartInv, PlacedInv
  <2> QED  BY <2>1 DEF CartInv, PlacedInv
<1> QED  BY <1>1, CartInvariant, PTL

\* A request sent when its key had orders finds that they exist, is never past the
\* lookup unless it is answered, and is never told that the cart is empty, whatever
\* became of the cart (the lookup before it is read).
THEOREM RetriesFindTheirOrders == CheckoutSpec => []RetryFindsItsOrders
<1>1. CartInv => RetryFindsItsOrders
  BY DEF CartInv
<1> QED  BY <1>1, CartInvariant, PTL

-----------------------------------------------------------------------------
(* The abstract specification                                                *)

\* A request has an answer once it is answered, nothing before it is sent, and a
\* basket when it comes to its transaction.
RequestSound(a) ==
  /\ attempt[a].phase = "unsent" => attempt[a] = Unsent
  /\ attempt[a].phase # "answered" => attempt[a].answer = "none"
  /\ attempt[a].phase = "answered" => attempt[a].answer # "none"
  /\ attempt[a].phase = "read" => \E p \in Products : attempt[a].lines[p] > 0

RequestsSound == \A a \in Attempts : RequestSound(a)

LEMMA BasketsAreNotEmpty ==
  ASSUME NEW lines \in Lines, lines # NoLines
  PROVE  \E p \in Products : lines[p] > 0
BY CheckoutConstants DEF Lines, Counts, NoLines

LEMMA HandlerKeepsRequests ==
  ASSUME CartInv, RequestsSound, NEW a \in Attempts, Handles(a)
  PROVE  RequestsSound'
<1>1. CartTypeOK /\ attempt[a].phase \in { "sent", "looked", "read" } /\ RequestSound(a)
  BY HandlerWrites DEF CartInv, RequestsSound
<1>2. \/ \E answer \in { "orders", "failed", "empty" } :
           AttemptMoves(a, "answered", attempt[a].lines, answer)
      \/ AttemptMoves(a, "looked", attempt[a].lines, attempt[a].answer)
      \/ AttemptMoves(a, "read", line, attempt[a].answer) /\ line # NoLines
  BY <1>1, HandlerWrites
<1>3. line # NoLines => \E p \in Products : line[p] > 0
  BY <1>1, BasketsAreNotEmpty DEF CartTypeOK
<1>4. RequestSound(a)'
  BY <1>1, <1>2, <1>3 DEF RequestSound, AttemptMoves
<1>5. \A b \in Attempts : b # a => RequestSound(b)'
  BY <1>2 DEF RequestsSound, RequestSound, AttemptMoves
<1> QED  BY <1>4, <1>5 DEF RequestsSound

LEMMA RequestsStep ==
  ASSUME CartInv, RequestsSound, [CheckoutNext]_checkoutVars
  PROVE  RequestsSound'
<1>1. CASE UNCHANGED attempt
  BY <1>1 DEF RequestsSound, RequestSound
<1>2. ASSUME NEW d \in Screens, PlacesOrder(d)
      PROVE  RequestsSound'
  BY <1>2, SendsWithKey DEF CartInv, CartTypeOK, RequestsSound, RequestSound
<1>3. CASE \E a \in Attempts : Handles(a)
  BY <1>3, HandlerKeepsRequests
<1>4. CartTypeOK
  BY DEF CartInv
<1> QED  BY <1>1, <1>2, <1>3, <1>4, OthersWrite DEF CheckoutNext, checkoutVars

LEMMA RequestsInvariant == CheckoutSpec => [](CartInv /\ RequestsSound)
<1>1. CheckoutInit => RequestsSound
  BY DEF CheckoutInit, RequestsSound, RequestSound, Unsent
<1>2. CartInv /\ RequestsSound /\ [CheckoutNext]_checkoutVars => RequestsSound'
  BY RequestsStep
<1> QED  BY <1>1, <1>2, CartInvariant, PTL DEF CheckoutSpec

\* A step of the handler before the answer shows nothing; an answer moves the
\* request from "open" to what it is.
LEMMA AnswersShow ==
  ASSUME CartInv, NEW a \in Attempts, attempt[a].phase \in { "sent", "looked", "read" },
         NEW phase, NEW lines, NEW answer, AttemptMoves(a, phase, lines, answer)
  PROVE  /\ Requests[a].state = "open"
         /\ Requests[a].key = attempt[a].key /\ Requests[a].late = attempt[a].known
         /\ phase \in { "looked", "read" } => Requests' = Requests
         /\ phase = "answered" => Requests' = [Requests EXCEPT ![a].state = answer]
<1>1. /\ Requests[a].state = "open"
      /\ Requests[a].key = attempt[a].key /\ Requests[a].late = attempt[a].known
  BY DEF Requests
<1>2. ASSUME NEW b \in Attempts, b # a
      PROVE  Requests'[b] = Requests[b]
  BY <1>2 DEF Requests, AttemptMoves
<1>3. /\ phase \in { "looked", "read" } => Requests'[a] = Requests[a]
      /\ phase = "answered" => Requests'[a] = [ Requests[a] EXCEPT !.state = answer ]
  BY DEF Requests, AttemptMoves
<1>4. /\ Requests = [b \in Attempts |-> Requests[b]]
      /\ Requests' = [b \in Attempts |-> Requests'[b]]
  BY DEF Requests
<1> QED  BY <1>1, <1>2, <1>3, <1>4

LEMMA CommitBuys ==
  ASSUME CartInv, RequestsSound, NEW a \in Attempts, Commits(a),
         AttemptMoves(a, "answered", attempt[a].lines, "orders")
  PROVE  Intents!Buys(a, attempt[a].lines)
<1>1. attempt[a].phase = "read"
  BY DEF Commits
<1>2. /\ Requests[a].state = "open" /\ Requests[a].key = attempt[a].key
      /\ Requests[a].late = attempt[a].known
      /\ Requests' = [Requests EXCEPT ![a].state = "orders"]
  BY <1>1, AnswersShow
<1>3. ~attempt[a].known
  BY <1>1 DEF CartInv, RetryFindsItsOrders
<1>4. Intents!SellersIn(attempt[a].lines) = InGroup(a)
  BY DEF Intents!SellersIn, InGroup
<1>5. InGroup(a) # {}
  BY <1>1 DEF RequestsSound, RequestSound, InGroup
<1>6. /\ Intents!Bought(attempt[a].key) = OrdersOf(attempt[a].key)
      /\ \A o \in OrdersOf(attempt[a].key) : o.seller \notin InGroup(a)
  BY DEF Intents!Bought, OrdersOf, Commits, KeyTaken
<1>7. \A s \in InGroup(a) :
        OrderFor(a, s) = [ key |-> attempt[a].key, seller |-> s, by |-> a,
                           lines |-> Intents!Share(attempt[a].lines, s) ]
  BY DEF OrderFor, Intents!Share
<1>8. placed' = placed \cup
        { [ key |-> attempt[a].key, seller |-> s, by |-> a,
            lines |-> Intents!Share(attempt[a].lines, s) ] : s \in InGroup(a) }
  BY <1>7 DEF Commits
<1> QED  BY <1>2, <1>3, <1>4, <1>5, <1>6, <1>8 DEF Intents!Buys

\* Each step of the handler is one of the ledger, or nothing the ledger sees.
LEMMA HandlerImplements ==
  ASSUME CartInv, RequestsSound, NEW a \in Attempts, Handles(a)
  PROVE  Intents!Next \/ UNCHANGED << placed, Requests >>
<1>1. CartTypeOK /\ attempt[a].phase \in { "sent", "looked", "read" }
  BY HandlerWrites DEF CartInv
<1>2. ASSUME NEW answer \in { "orders", "failed", "empty" },
             AttemptMoves(a, "answered", attempt[a].lines, answer)
      PROVE  /\ Requests[a].state = "open" /\ Requests[a].key = attempt[a].key
             /\ Requests[a].late = attempt[a].known
             /\ Requests' = [Requests EXCEPT ![a].state = answer]
             /\ Requests'[a].state # Requests[a].state
  <2>1. /\ Requests[a].state = "open" /\ Requests[a].key = attempt[a].key
        /\ Requests[a].late = attempt[a].known
        /\ Requests' = [Requests EXCEPT ![a].state = answer]
    BY <1>1, <1>2, AnswersShow
  <2>2. Requests'[a].state = answer
    BY <2>1 DEF Requests
  <2> QED  BY <2>1, <2>2
<1>3. CASE /\ UNCHANGED placed /\ OrdersOf(attempt[a].key) # {}
           /\ AttemptMoves(a, "answered", attempt[a].lines, "orders")
  <2>1. Intents!Repeats(a)
    BY <1>2, <1>3 DEF Intents!Repeats, Intents!Bought, OrdersOf
  <2> QED  BY <1>2, <1>3, <2>1 DEF Intents!Next
<1>4. CASE UNCHANGED placed /\ AttemptMoves(a, "answered", attempt[a].lines, "failed")
  <2>1. Intents!Fails(a)
    BY <1>2, <1>4 DEF Intents!Fails
  <2> QED  BY <1>2, <1>4, <2>1 DEF Intents!Next
<1>5. CASE /\ UNCHANGED placed /\ attempt[a].phase = "looked"
           /\ AttemptMoves(a, "answered", attempt[a].lines, "empty")
  <2>1. ~attempt[a].known
    BY <1>5 DEF CartInv, RetryFindsItsOrders
  <2>2. Intents!FindsNothing(a)
    BY <1>2, <1>5, <2>1 DEF Intents!FindsNothing
  <2> QED  BY <1>2, <1>5, <2>2 DEF Intents!Next
<1>6. ASSUME NEW phase \in { "looked", "read" }, NEW lines, NEW answer,
             AttemptMoves(a, phase, lines, answer)
      PROVE  Requests' = Requests
  BY <1>1, <1>6, AnswersShow
<1>7. CASE Commits(a) /\ AttemptMoves(a, "answered", attempt[a].lines, "orders")
  <2>1. Intents!Buys(a, attempt[a].lines) /\ attempt[a].lines \in Lines
    BY <1>1, <1>7, CommitBuys DEF CartTypeOK, Attempt
  <2> QED  BY <1>2, <1>7, <2>1 DEF Intents!Next
<1> QED  BY <1>1, <1>3, <1>4, <1>5, <1>6, <1>7, HandlerWrites

LEMMA SendingImplements ==
  ASSUME CartInv, RequestsSound, NEW d \in Screens, PlacesOrder(d)
  PROVE  Intents!Next
<1>1. CartTypeOK
  BY DEF CartInv
<1>2. PICK a \in Attempts, k \in Keys :
        /\ attempt[a].phase = "unsent"
        /\ attempt' = [attempt EXCEPT ![a] =
             [ phase |-> "sent", key |-> k, lines |-> NoLines,
               answer |-> "none", known |-> OrdersOf(k) # {} ]]
  BY <1>1, SendsWithKey
<1>3. attempt[a] = Unsent
  BY <1>2 DEF RequestsSound, RequestSound
<1>4. Requests[a] = Intents!Unsent
  <2>1. Requests[a] = [ state |-> "unsent", key |-> attempt[a].key, late |-> attempt[a].known ]
    BY <1>2 DEF Requests
  <2>2. attempt[a].key = NoKey /\ attempt[a].known = FALSE
    BY <1>3 DEF Unsent
  <2> QED  BY <2>1, <2>2 DEF Intents!Unsent
<1>5. Requests'[a] = [ state |-> "open", key |-> k, late |-> OrdersOf(k) # {} ]
  BY <1>1, <1>2 DEF Requests, CartTypeOK
<1>6. \A b \in Attempts : b # a => Requests'[b] = Requests[b]
  BY <1>1, <1>2 DEF Requests, CartTypeOK
<1>7. Requests' = [Requests EXCEPT ![a] =
        [ state |-> "open", key |-> k, late |-> Intents!Bought(k) # {} ]]
  <2>1. /\ Requests = [b \in Attempts |-> Requests[b]]
        /\ Requests' = [b \in Attempts |-> Requests'[b]]
    BY DEF Requests
  <2>2. Intents!Bought(k) = OrdersOf(k)
    BY DEF Intents!Bought, OrdersOf
  <2> QED  BY <1>5, <1>6, <2>1, <2>2
<1>8. Intents!Sends(a, k)
  BY <1>4, <1>7 DEF Intents!Sends, PlacesOrder
<1>9. Requests'[a].state # Requests[a].state
  BY <1>4, <1>5 DEF Intents!Unsent
<1> QED  BY <1>8, <1>9 DEF Intents!Next

LEMMA IntentStep ==
  ASSUME CartInv, RequestsSound, [CheckoutNext]_checkoutVars
  PROVE  Intents!Next \/ UNCHANGED << placed, Requests >>
<1>1. CASE UNCHANGED << placed, attempt >>
  BY <1>1 DEF Requests
<1>2. ASSUME NEW a \in Attempts, Handles(a)
      PROVE  Intents!Next \/ UNCHANGED << placed, Requests >>
  BY <1>2, HandlerImplements
<1>3. ASSUME NEW d \in Screens, PlacesOrder(d)
      PROVE  Intents!Next
  BY <1>3, SendingImplements
<1>4. CartTypeOK
  BY DEF CartInv
<1> QED  BY <1>1, <1>2, <1>3, <1>4, OthersWrite DEF CheckoutNext, checkoutVars

\* The checkout implements the ledger of intents: however its reads and its
\* transactions interleave with retries, other screens, the cart and the
\* catalogue, a request buys a whole basket at one moment or nothing, and a retry
\* of what was bought buys nothing.
THEOREM CheckoutImplementsIntents == CheckoutSpec => ImplementsIntents
<1>1. CheckoutInit => Intents!Init
  BY DEF CheckoutInit, Intents!Init, Intents!Unsent, Requests, Unsent
<1>2. CartInv /\ RequestsSound /\ [CheckoutNext]_checkoutVars
        => [Intents!Next]_<< placed, Requests >>
  BY IntentStep
<1> QED
  BY <1>1, <1>2, RequestsInvariant, PTL DEF CheckoutSpec, ImplementsIntents, Intents!Spec

=============================================================================

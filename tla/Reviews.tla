-------------------------------- MODULE Reviews --------------------------------
(***************************************************************************)
(* The reviews of one seller's products and the ratings derived from them. *)
(*                                                                         *)
(* Every change of a review is a transaction that writes the row, counts   *)
(* the visible reviews of the product and stores the result, then does the *)
(* same for the seller.  A count sees what others have committed, so two   *)
(* transactions at once can store a rating that misses one of them.        *)
(***************************************************************************)
EXTENDS Naturals, FiniteSets, Functions

CONSTANTS
  Slots,      \* the pairs of a buyer and a product it has received
  Items,      \* the products
  ItemOf,     \* the product of each pair
  Writers,    \* requests in flight, of the buyers and the moderators
  Ratings,
  MaxRequests \* bound on the requests of a behaviour

ASSUME ReviewConstants ==
  /\ IsFiniteSet(Slots) /\ ItemOf \in [Slots -> Items]
  /\ Ratings \subseteq Nat /\ Ratings # {} /\ MaxRequests \in Nat

VARIABLES
  review,    \* the row of each pair
  rated,     \* products.avgRating and totalReviews
  esteem,    \* the same of the seller
  writer,    \* the requests
  requests,  \* their number so far
  exact,     \* history: products whose last recalculation nothing overlapped
  exactAll   \* history: the same of the seller

reviewVars == << review, rated, esteem, writer, requests, exact, exactAll >>

\* rating 0: the buyer has never reviewed the product.
Review == [ rating : Ratings \cup { 0 }, hidden : BOOLEAN, deleted : BOOLEAN ]

NoReview == [ rating |-> 0, hidden |-> FALSE, deleted |-> FALSE ]

\* An average is kept as its sum and its count.
Stats == [ count : Nat, sum : Nat ]

WriterOps == { "create", "update", "delete", "hide", "unhide" }

\* rerates: an update to another rating than the one that was read.  sums,
\* total: counted for the product and the seller.  stale: another transaction
\* has written the row since it was read; passed, passedAll: another one has
\* committed since the product, the seller was counted.
Writer ==
  [ at : { "read", "written", "counted", "stored", "summed" },
    op : WriterOps, slot : Slots, rating : Ratings, rerates : BOOLEAN,
    sums : Stats, total : Stats, stale : BOOLEAN, passed : BOOLEAN, passedAll : BOOLEAN ]

Nil == [ count |-> 0, sum |-> 0 ]

Resting == [ at |-> "idle" ]

-----------------------------------------------------------------------------
(* Rows and ratings                                                          *)

\* Variant: a recalculation that forgets the moderators.
Counted_NotDeleted(r) == r.rating # 0 /\ ~r.deleted

\* VISIBLE_REVIEW_WHERE in the recalculations.
Counted(r) == r.rating # 0 /\ ~r.deleted /\ ~r.hidden

StatsOf(row, slots) ==
  LET seen == { s \in slots : Counted(row[s]) } IN
  [ count |-> Cardinality(seen), sum |-> SumFunction([s \in seen |-> row[s].rating]) ]

SlotsOf(p) == { s \in Slots : ItemOf[s] = p }

Changes(w, r) ==
  CASE w.op = "create" -> [ NoReview EXCEPT !.rating = w.rating ]
    [] w.op = "update" -> [ r EXCEPT !.rating = w.rating ]
    [] w.op = "delete" -> [ r EXCEPT !.deleted = TRUE ]
    [] w.op = "hide"   -> [ r EXCEPT !.hidden = TRUE ]
    [] w.op = "unhide" -> [ r EXCEPT !.hidden = FALSE ]

\* The rows as the transaction of w sees them.
Mine(w) == [review EXCEPT ![writer[w].slot] = Changes(writer[w], @)]

Holds(w, s) ==
  writer[w].at \in { "written", "counted", "stored", "summed" } /\ writer[w].slot = s

\* An edit of the wording alone recalculates nothing.
Recalculates(w) == w.op = "update" => w.rerates

-----------------------------------------------------------------------------
(* Before the transaction                                                    *)

\* canReview and the findUnique of the other handlers.
Eligible(op, r) ==
  IF op = "create" THEN r.rating = 0 \/ r.deleted
  ELSE r.rating # 0 /\ ~r.deleted

ReadsReview(w, op, s, n) ==
  /\ writer[w] = Resting /\ requests < MaxRequests
  /\ Eligible(op, review[s])
  /\ requests' = requests + 1
  /\ writer' = [writer EXCEPT ![w] =
       [ at |-> "read", op |-> op, slot |-> s, rating |-> n,
         rerates |-> (op = "update" /\ n # review[s].rating), sums |-> Nil,
         total |-> Nil, stale |-> FALSE, passed |-> FALSE, passedAll |-> FALSE ]]
  /\ UNCHANGED << review, rated, esteem, exact, exactAll >>

-----------------------------------------------------------------------------
(* The transaction                                                           *)

\* The unique index over buyer and product knows no deletedAt.
Duplicate(w) == writer[w].op = "create" /\ review[writer[w].slot].rating # 0

WritesReview(w) ==
  /\ writer[w].at = "read"
  /\ \A v \in Writers : ~Holds(v, writer[w].slot)
  /\ ~Duplicate(w)
  /\ writer' = [writer EXCEPT ![w].at = "written"]
  /\ UNCHANGED << review, rated, esteem, requests, exact, exactAll >>

RefusesDuplicate(w) ==
  /\ writer[w].at = "read"
  /\ \A v \in Writers : ~Holds(v, writer[w].slot)
  /\ Duplicate(w)
  /\ writer' = [writer EXCEPT ![w] = Resting]
  /\ UNCHANGED << review, rated, esteem, requests, exact, exactAll >>

CountsProduct(w) ==
  /\ writer[w].at = "written" /\ Recalculates(writer[w])
  /\ writer' = [writer EXCEPT ![w].at = "counted",
                              ![w].sums = StatsOf(Mine(w), SlotsOf(ItemOf[writer[w].slot]))]
  /\ UNCHANGED << review, rated, esteem, requests, exact, exactAll >>

\* The row of the product is locked from here to the commit.
StoresProduct(w) ==
  /\ writer[w].at = "counted"
  /\ \A v \in Writers :
       writer[v].at \in { "stored", "summed" } => ItemOf[writer[v].slot] # ItemOf[writer[w].slot]
  /\ writer' = [writer EXCEPT ![w].at = "stored"]
  /\ UNCHANGED << review, rated, esteem, requests, exact, exactAll >>

CountsSeller(w) ==
  /\ writer[w].at = "stored"
  /\ writer' = [writer EXCEPT ![w].at = "summed", ![w].total = StatsOf(Mine(w), Slots)]
  /\ UNCHANGED << review, rated, esteem, requests, exact, exactAll >>

\* What a commit of w does to the requests that have read or counted before it.
Overtaken(w) ==
  [v \in Writers |->
     IF v = w THEN Resting
     ELSE IF writer[v].at = "idle" THEN writer[v]
     ELSE [ writer[v] EXCEPT
              !.stale = @ \/ writer[v].slot = writer[w].slot,
              !.passed = @ \/ (/\ writer[v].at \in { "counted", "stored", "summed" }
                               /\ ItemOf[writer[v].slot] = ItemOf[writer[w].slot]),
              !.passedAll = @ \/ writer[v].at = "summed" ]]

CommitsRatings(w) ==
  LET p == ItemOf[writer[w].slot] IN
  /\ writer[w].at = "summed"
  /\ review' = Mine(w)
  /\ rated' = [rated EXCEPT ![p] = writer[w].sums]
  /\ esteem' = writer[w].total
  /\ exact' = IF writer[w].passed THEN exact \ { p } ELSE exact \cup { p }
  /\ exactAll' = ~writer[w].passedAll
  /\ writer' = Overtaken(w)
  /\ UNCHANGED requests

\* No recalculation, though the row may have had another rating by now.
CommitsWording(w) ==
  /\ writer[w].at = "written" /\ ~Recalculates(writer[w])
  /\ review' = Mine(w)
  /\ exact' = IF writer[w].stale THEN exact \ { ItemOf[writer[w].slot] } ELSE exact
  /\ exactAll' = (exactAll /\ ~writer[w].stale)
  /\ writer' = Overtaken(w)
  /\ UNCHANGED << rated, esteem, requests >>

\* A timeout or an error.
Abandons(w) ==
  /\ writer[w] # Resting
  /\ writer' = [writer EXCEPT ![w] = Resting]
  /\ UNCHANGED << review, rated, esteem, requests, exact, exactAll >>

-----------------------------------------------------------------------------

ReviewsInit ==
  /\ review = [s \in Slots |-> NoReview]
  /\ rated = [p \in Items |-> Nil] /\ esteem = Nil
  /\ writer = [w \in Writers |-> Resting] /\ requests = 0
  /\ exact = Items /\ exactAll = TRUE

ReviewsNext ==
  \E w \in Writers :
    \/ \E s \in Slots :
         \/ \E n \in Ratings, op \in { "create", "update" } : ReadsReview(w, op, s, n)
         \/ \E op \in { "delete", "hide", "unhide" } :
              ReadsReview(w, op, s, CHOOSE n \in Ratings : TRUE)
    \/ WritesReview(w) \/ RefusesDuplicate(w)
    \/ CountsProduct(w) \/ StoresProduct(w) \/ CountsSeller(w)
    \/ CommitsRatings(w) \/ CommitsWording(w) \/ Abandons(w)

ReviewsSpec == ReviewsInit /\ [][ReviewsNext]_reviewVars

-----------------------------------------------------------------------------
(* Properties                                                                *)

ReviewsTypeOK ==
  /\ review \in [Slots -> Review]
  /\ rated \in [Items -> Stats] /\ esteem \in Stats
  /\ writer \in [Writers -> Writer \cup { Resting }]
  /\ requests \in 0 .. MaxRequests
  /\ exact \subseteq Items /\ exactAll \in BOOLEAN

\* What getProductReviews lists.
Listed(slots) ==
  { s \in slots : review[s].rating # 0 /\ ~review[s].deleted /\ ~review[s].hidden }

Summarises(stats, listed) ==
  /\ stats.count = Cardinality(listed)
  /\ stats.sum = SumFunction([s \in listed |-> review[s].rating])

\* "The list, the count and the average can never disagree": after any sequence
\* of reviews, edits, deletions and moderation, the stored ratings are those of
\* the listed reviews, of each product and of the seller, unless two of the
\* transactions overlapped (recalculateRatings).
RatingsFollowVisible ==
  /\ \A p \in exact : Summarises(rated[p], Listed(SlotsOf(p)))
  /\ exactAll => Summarises(esteem, Listed(Slots))

=============================================================================

------------------------------- MODULE LockOrder -------------------------------
(***************************************************************************)
(* The row locks that the transactions over orders, stock, earnings and    *)
(* payouts take, one statement at a time, until they commit: the view that *)
(* OrderLifecycle hides by making a transaction one step.                  *)
(*                                                                         *)
(* A transaction locks its first row, reads what it needs under that lock, *)
(* and only then knows which rows it will write; Begins, Locks, Decides    *)
(* and Commits are those moments.  A row locked by another transaction is  *)
(* waited for.                                                             *)
(***************************************************************************)
EXTENDS Naturals, Sequences, FiniteSets

CONSTANTS
  Slots,         \* connections of the pool, each running one transaction at a time
  Orders, Requests, Sellers, Payouts,
  Products,      \* product ids; their order is the order of the numbers
  OrderProducts, \* the products on the lines of each order
  SellerOf, RequestOrder,
  NoPayout, Idle

ASSUME LockConstants ==
  /\ Products \subseteq Nat /\ IsFiniteSet(Products) /\ IsFiniteSet(Orders)
  /\ OrderProducts \in [Orders -> SUBSET Products]
  /\ SellerOf \in [Orders -> Sellers]
  /\ RequestOrder \in [Requests -> Orders]
  /\ NoPayout \notin Payouts

VARIABLES
  slot,    \* the transaction each connection runs
  linked,  \* seller_earnings.payoutId of each order's earning
  open     \* payouts in an open status

vars == << slot, linked, open >>

-----------------------------------------------------------------------------
(* Locks                                                                     *)

Rows ==
  ({ "order", "earning", "cod" } \X Orders) \cup ({ "request" } \X Requests)
  \cup ({ "profile" } \X Sellers) \cup ({ "payout" } \X Payouts)
  \cup ({ "product" } \X Products)

\* "keyShare": what an insert takes on the row its foreign key names;
\* "write": an UPDATE; "forUpdate": SELECT ... FOR UPDATE.
Modes == { "keyShare", "write", "forUpdate" }

Lock(table, id, mode) == [ row |-> << table, id >>, mode |-> mode ]

\* PostgreSQL's row lock conflicts, for these modes.
Conflicts(l, m) ==
  /\ l.row = m.row
  /\ \/ "forUpdate" \in { l.mode, m.mode }
     \/ l.mode = "write" /\ m.mode = "write"

\* A statement that updates many rows meets them in an order nobody promises.
Scans(table, ids) ==
  { [i \in DOMAIN f |-> Lock(table, f[i], "write")] :
      f \in { g \in [1 .. Cardinality(ids) -> ids] :
                \A i, j \in DOMAIN g : i # j => g[i] # g[j] } }

\* Variant: the lines are not sorted first.
InProductIdOrder_Unsorted(ids) == Scans("product", ids)

\* One statement per product, the ids sorted first.
InProductIdOrder(ids) ==
  { s \in Scans("product", ids) :
      \A i, j \in DOMAIN s : i < j => s[i].row[2] < s[j].row[2] }

-----------------------------------------------------------------------------
(* The transactions                                                          *)

Jobs ==
  ({ "checkout" } \X ((SUBSET Products) \ {{}}))
  \cup ({ "cancel", "move", "deliver", "force", "requestReturn" } \X Orders)
  \cup ({ "approveReturn", "rejectReturn" } \X Requests)
  \cup ({ "requestPayout", "setDestination" } \X Sellers)
  \cup ({ "advancePayout", "rejectPayout" } \X Payouts)
  \cup ({ "editProduct" } \X Products)

\* Variant: the open-payout check runs without the profile's row lock.
FirstLocks_ProfileUnlocked(job) ==
  LET id == job[2] IN
  CASE job[1] \in { "requestPayout", "setDestination" } ->
         { << Lock("profile", id, "keyShare") >> }
    [] job[1] = "checkout" -> InProductIdOrder(id)
    [] job[1] \in { "cancel", "move", "deliver", "force" } ->
         { << Lock("order", id, "forUpdate") >> }
    [] job[1] = "requestReturn" -> { << Lock("order", id, "keyShare") >> }
    [] job[1] \in { "approveReturn", "rejectReturn" } -> { << Lock("request", id, "write") >> }
    [] job[1] \in { "advancePayout", "rejectPayout" } -> { << Lock("payout", id, "write") >> }
    [] job[1] = "editProduct" -> { << Lock("product", id, "write") >> }

\* What a transaction locks before it has read anything.
FirstLocks(job) ==
  LET id == job[2] IN
  CASE job[1] = "checkout" -> InProductIdOrder(id)
    [] job[1] \in { "cancel", "move", "deliver", "force" } ->
         { << Lock("order", id, "forUpdate") >> }
    [] job[1] = "requestReturn" -> { << Lock("order", id, "keyShare") >> }
    [] job[1] \in { "approveReturn", "rejectReturn" } -> { << Lock("request", id, "write") >> }
    [] job[1] \in { "requestPayout", "setDestination" } ->
         { << Lock("profile", id, "forUpdate") >> }
    [] job[1] \in { "advancePayout", "rejectPayout" } -> { << Lock("payout", id, "write") >> }
    [] job[1] = "editProduct" -> { << Lock("product", id, "write") >> }

FreeEarnings(s) == { o \in Orders : SellerOf[o] = s /\ linked[o] = NoPayout }

EarningsOf(q) == { o \in Orders : linked[o] = q }

HasOpenPayout(s) ==
  \E q \in open : \E o \in Orders : linked[o] = q /\ SellerOf[o] = s

\* releaseOrderStockHold: nothing when the log shows a release.
Restocks(o) == { << >> } \cup InProductIdOrder(OrderProducts[o])

\* reverseEarning: nothing when there is no earning or it is reversed.
Reversals(o) == { << >>, << Lock("earning", o, "write") >> }

Cod(o) == << Lock("cod", o, "write") >>

CancelLocks(o) == { p \o c : p \in Restocks(o), c \in { << >>, Cod(o) } }

\* A forced cancellation fails the COD payment, any other forced change may
\* reverse the earning.
ForceLocks(o) == CancelLocks(o) \cup { p \o e : p \in Restocks(o), e \in Reversals(o) }

\* unitsSold of every line, the COD row, and the earning's insert.
DeliveryLocks(o) ==
  { p \o Cod(o) \o << Lock("profile", SellerOf[o], "keyShare") >> :
      p \in InProductIdOrder(OrderProducts[o]) }

ReturnLocks(o) ==
  { << Lock("order", o, "forUpdate") >> \o p \o e : p \in Restocks(o), e \in Reversals(o) }

\* The eligible earnings are some of the free ones; none, and it refuses.
PayoutLocks(s) ==
  IF HasOpenPayout(s) THEN { << >> }
  ELSE UNION { Scans("earning", es) : es \in SUBSET FreeEarnings(s) }

RejectionLocks(q) == IF q \in open THEN Scans("earning", EarningsOf(q)) ELSE { << >> }

\* What a transaction goes on to lock, given what it reads then; << >> when it
\* refuses or needs nothing more.
FurtherLocks(job) ==
  LET id == job[2] IN
  CASE job[1] = "cancel"        -> { << >> } \cup CancelLocks(id)
    [] job[1] = "force"         -> { << >> } \cup ForceLocks(id)
    [] job[1] = "deliver"       -> { << >> } \cup DeliveryLocks(id)
    [] job[1] = "approveReturn" -> { << >> } \cup ReturnLocks(RequestOrder[id])
    [] job[1] = "requestPayout" -> PayoutLocks(id)
    [] job[1] = "rejectPayout"  -> RejectionLocks(id)
    [] OTHER -> { << >> }

-----------------------------------------------------------------------------
(* Steps                                                                     *)

Begins(t) ==
  /\ slot[t] = Idle
  /\ \E job \in Jobs : \E locks \in FirstLocks(job) :
       slot' = [slot EXCEPT ![t] =
                  [ job |-> job, decided |-> FALSE, held |-> {}, todo |-> locks ]]
  /\ UNCHANGED << linked, open >>

Running(t) == slot[t] # Idle

Waiting(t) == Running(t) /\ slot[t].todo # << >>

\* u holds a row that t is waiting for.
Blocks(u, t) ==
  /\ u # t /\ Running(u) /\ Waiting(t)
  /\ \E l \in slot[u].held : Conflicts(l, Head(slot[t].todo))

Locks(t) ==
  /\ Waiting(t)
  /\ \A u \in Slots : ~Blocks(u, t)
  /\ slot' = [slot EXCEPT ![t].held = @ \cup { Head(slot[t].todo) },
                          ![t].todo = Tail(@)]
  /\ UNCHANGED << linked, open >>

\* The reads under the first lock.
Decides(t) ==
  /\ Running(t) /\ ~Waiting(t) /\ ~slot[t].decided
  /\ \E locks \in FurtherLocks(slot[t].job) :
       slot' = [slot EXCEPT ![t].decided = TRUE, ![t].todo = locks]
  /\ UNCHANGED << linked, open >>

LockedEarnings(t) == { o \in Orders : Lock("earning", o, "write") \in slot[t].held }

\* The update of the earnings counts its rows again, and an index allows one
\* open payout per seller: either refuses what the reads allowed.
Reserves(t, q) ==
  LET es == LockedEarnings(t)
      s  == slot[t].job[2]
  IN IF es = {} \/ HasOpenPayout(s) \/ ~(es \subseteq FreeEarnings(s))
     THEN UNCHANGED << linked, open >>
     ELSE /\ q \notin open /\ EarningsOf(q) = {}
          /\ linked' = [o \in Orders |-> IF o \in es THEN q ELSE linked[o]]
          /\ open' = open \cup { q }

Releases(q) ==
  /\ linked' = [o \in Orders |-> IF q \in open /\ linked[o] = q THEN NoPayout ELSE linked[o]]
  /\ open' = open \ { q }

\* Approved and in process it stays open, completed it does not.
Advances(q) ==
  /\ open' \in { open, open \ { q } }
  /\ UNCHANGED linked

\* The commit makes the writes visible and releases every lock.
Commits(t) ==
  /\ Running(t) /\ ~Waiting(t) /\ slot[t].decided
  /\ slot' = [slot EXCEPT ![t] = Idle]
  /\ LET job == slot[t].job IN
     CASE job[1] = "requestPayout" -> \E q \in Payouts : Reserves(t, q)
       [] job[1] = "rejectPayout"  -> Releases(job[2])
       [] job[1] = "advancePayout" -> Advances(job[2])
       [] OTHER -> UNCHANGED << linked, open >>

\* A timeout, an error or a lost connection releases the locks too.
RollsBack(t) ==
  /\ Running(t)
  /\ slot' = [slot EXCEPT ![t] = Idle]
  /\ UNCHANGED << linked, open >>

Init ==
  /\ slot = [t \in Slots |-> Idle]
  /\ linked = [o \in Orders |-> NoPayout]
  /\ open = {}

Next ==
  \E t \in Slots : Begins(t) \/ Locks(t) \/ Decides(t) \/ Commits(t) \/ RollsBack(t)

\* A transaction that can go on does; the database serves the waiters of a row
\* in turn.  Nobody has to call, and nothing has to fail.
Fairness ==
  \A t \in Slots : WF_vars(Decides(t)) /\ WF_vars(Commits(t)) /\ SF_vars(Locks(t))

Spec == Init /\ [][Next]_vars /\ Fairness

-----------------------------------------------------------------------------
(* Properties                                                                *)

LockModes == [ row : Rows, mode : Modes ]

\* Shapes; an open payout has earnings; no two transactions hold conflicting
\* locks on a row.
LockTypeOK ==
  /\ \A t \in Slots : Running(t) =>
       /\ slot[t].job \in Jobs /\ slot[t].decided \in BOOLEAN
       /\ slot[t].held \subseteq LockModes
       /\ slot[t].todo \in Seq(LockModes)
  /\ linked \in [Orders -> Payouts \cup { NoPayout }]
  /\ open \subseteq { q \in Payouts : EarningsOf(q) # {} }
  /\ \A t, u \in Slots : t # u /\ Running(t) /\ Running(u) =>
       \A l \in slot[t].held, m \in slot[u].held : ~Conflicts(l, m)

\* No set of transactions wait for each other in a circle: in every set of
\* waiting ones, one waits for nobody of that set.  This is what sorting the
\* products in checkout, release and delivery is for ("so concurrent
\* multi-product checkouts never deadlock").
NoDeadlock ==
  \A S \in (SUBSET { t \in Slots : Waiting(t) }) \ {{}} :
    \E t \in S : \A u \in S : ~Blocks(u, t)

\* The earnings a transaction goes on to write.
Claimed(t) ==
  LET locks == slot[t].held \cup { slot[t].todo[i] : i \in DOMAIN slot[t].todo }
  IN { o \in Orders : Lock("earning", o, "write") \in locks }

\* What a payout transaction read under its first lock is still so until it
\* commits, so that PayoutDesk may decide and write in one step: a request
\* that goes on meets no open payout and free earnings, a rejection an open
\* payout and all of its earnings.
DecisionsStand ==
  \A t \in Slots : (Running(t) /\ slot[t].decided /\ Claimed(t) # {}) =>
    LET id == slot[t].job[2] IN
    /\ slot[t].job[1] = "requestPayout" =>
         ~HasOpenPayout(id) /\ Claimed(t) \subseteq FreeEarnings(id)
    /\ slot[t].job[1] = "rejectPayout" =>
         id \in open /\ Claimed(t) = EarningsOf(id)

\* Every transaction ends, with no failure needed to break a wait.
EveryTransactionEnds == \A t \in Slots : Running(t) ~> ~Running(t)

=============================================================================

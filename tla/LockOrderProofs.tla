---------------------------- MODULE LockOrderProofs ----------------------------
(***************************************************************************)
(* No two, three or more transactions of LockOrder ever wait for each      *)
(* other in a circle, and what a payout transaction has read stands until  *)
(* it commits, for any number of connections, orders, sellers and payouts. *)
(*                                                                         *)
(* Every transaction takes its rows in one order of the tables, and the    *)
(* products in the order of their ids.  Only the earnings have no order of *)
(* their own; but the only transactions that wait for one while they hold  *)
(* another are those of the payout desk, and these share none.             *)
(***************************************************************************)
EXTENDS LockOrder, FiniteSetTheorems, TLAPS

-----------------------------------------------------------------------------
(* The order of the rows                                                     *)

Rank(table) ==
  CASE table = "request" -> 0 [] table = "order" -> 1 [] table = "product" -> 2
    [] table = "cod" -> 3 [] table = "profile" -> 4 [] table = "payout" -> 5
    [] OTHER -> 6

Claims(job) == job[1] \in { "requestPayout", "rejectPayout" }

Ahead(job, r, s) ==
  \/ Rank(r[1]) < Rank(s[1])
  \/ r[1] = "product" /\ s[1] = "product" /\ r[2] < s[2]
  \/ r[1] = "earning" /\ s[1] = "earning" /\ r # s /\ Claims(job)

\* Earnings are locked by updates alone.
RowLocks == { l \in LockModes : l.row[1] = "earning" => l.mode = "write" }

Ordered(job, s) ==
  /\ s \in Seq(RowLocks)
  /\ \A i, j \in 1 .. Len(s) : i < j => Ahead(job, s[i].row, s[j].row)

Within(s, tables) == \A i \in 1 .. Len(s) : s[i].row[1] \in tables

\* The table of the rows a transaction locks before it has read anything.
FirstTable(job) ==
  CASE job[1] \in { "checkout", "editProduct" } -> "product"
    [] job[1] \in { "cancel", "move", "deliver", "force", "requestReturn" } -> "order"
    [] job[1] \in { "approveReturn", "rejectReturn" } -> "request"
    [] job[1] \in { "requestPayout", "setDestination" } -> "profile"
    [] OTHER -> "payout"

\* The row that the transactions of the payout desk hold throughout.
Anchor(job) ==
  IF FirstTable(job) = "profile" THEN Lock("profile", job[2], "forUpdate")
  ELSE Lock("payout", job[2], "write")

Anchored(job) == FirstTable(job) \in { "profile", "payout" }

SlotInv(t) ==
  LET job == slot[t].job  held == slot[t].held  todo == slot[t].todo IN
  /\ slot[t] \in [ job : Jobs, decided : BOOLEAN, held : SUBSET RowLocks,
                   todo : Seq(RowLocks) ]
  /\ Ordered(job, todo)
  /\ \A l \in held, i \in 1 .. Len(todo) : Ahead(job, l.row, todo[i].row)
  /\ ~slot[t].decided =>
       /\ \A l \in held : l.row[1] = FirstTable(job)
       /\ Within(todo, { FirstTable(job) })
  /\ Anchored(job) =>
       \/ Anchor(job) \in held
       \/ ~slot[t].decided /\ todo = << Anchor(job) >>

LocksExclude ==
  \A t, u \in Slots : t # u /\ Running(t) /\ Running(u) =>
    \A l \in slot[t].held, m \in slot[u].held : ~Conflicts(l, m)

DeskRows ==
  /\ linked \in [Orders -> Payouts \cup { NoPayout }]
  /\ open \subseteq { q \in Payouts : EarningsOf(q) # {} }

WaitInv ==
  /\ DOMAIN slot = Slots
  /\ \A t \in Slots : Running(t) => SlotInv(t)
  /\ LocksExclude /\ DeskRows /\ DecisionsStand

-----------------------------------------------------------------------------
(* Sequences of locks                                                        *)

\* A scan takes one write lock on each of its rows, in some order.
LEMMA ScanShape ==
  ASSUME NEW table \in { "product", "earning" }, NEW ids, IsFiniteSet(ids),
         ids \subseteq (IF table = "product" THEN Products ELSE Orders),
         NEW s \in Scans(table, ids)
  PROVE  /\ s \in Seq(RowLocks)
         /\ \A i \in 1 .. Len(s) :
              s[i] = Lock(table, s[i].row[2], "write") /\ s[i].row[1] = table /\ s[i].row[2] \in ids
         /\ \A i, j \in 1 .. Len(s) : i # j => s[i].row # s[j].row
         /\ \A id \in ids : \E i \in 1 .. Len(s) : s[i] = Lock(table, id, "write")
<1> DEFINE n == Cardinality(ids)
<1>1. n \in Nat
  BY FS_CardinalityType
<1>2. PICK g \in [1 .. n -> ids] :
        /\ \A i, j \in DOMAIN g : i # j => g[i] # g[j]
        /\ s = [i \in DOMAIN g |-> Lock(table, g[i], "write")]
  BY DEF Scans
<1> HIDE DEF n
<1>3. DOMAIN g = 1 .. n
  BY <1>2
<1>4. \A i \in 1 .. n : Lock(table, g[i], "write") \in RowLocks
  BY <1>2 DEF Lock, RowLocks, LockModes, Rows, Modes
<1>5. s \in Seq(RowLocks) /\ Len(s) = n
  BY <1>1, <1>2, <1>3, <1>4
<1>6. g \in Surjection(1 .. n, ids)
  <2>1. g \in Injection(1 .. n, ids)
    BY <1>2, <1>3 DEF Injection, IsInjective
  <2>2. Cardinality(1 .. n) = Cardinality(ids)
    <3>1. Cardinality(1 .. n) = IF 1 > n THEN 0 ELSE n - 1 + 1
      BY <1>1, FS_Interval
    <3> QED  BY <1>1, <3>1 DEF n
  <2> QED  BY <2>1, <2>2, FS_Injection
<1>7. \A id \in ids : \E i \in 1 .. n : g[i] = id
  BY <1>6 DEF Surjection
<1>8. \A i \in 1 .. n :
        s[i] = Lock(table, g[i], "write") /\ s[i].row[1] = table /\ s[i].row[2] = g[i]
  BY <1>2, <1>3 DEF Lock
<1>9. \A i, j \in 1 .. n : i # j => s[i].row # s[j].row
  BY <1>2, <1>3, <1>8
<1>10. \A i \in 1 .. n : s[i] = Lock(table, s[i].row[2], "write") /\ s[i].row[2] \in ids
  BY <1>2, <1>8
<1>11. \A id \in ids : \E i \in 1 .. n : s[i] = Lock(table, id, "write")
  BY <1>7, <1>8
<1> QED  BY <1>5, <1>8, <1>9, <1>10, <1>11

\* The order of the parts of a sequence, and between them, is its order.
LEMMA Joined ==
  ASSUME NEW job, NEW a, NEW b, Ordered(job, a), Ordered(job, b),
         NEW A, NEW B, Within(a, A), Within(b, B),
         \A x \in A, y \in B : Rank(x) < Rank(y)
  PROVE  Ordered(job, a \o b) /\ Within(a \o b, A \cup B)
<1>1. a \in Seq(RowLocks) /\ b \in Seq(RowLocks)
  BY DEF Ordered
<1>2. a \o b \in Seq(RowLocks) /\ Len(a \o b) = Len(a) + Len(b)
  BY <1>1
<1>3. \A i \in 1 .. Len(a) + Len(b) :
        (a \o b)[i] = IF i <= Len(a) THEN a[i] ELSE b[i - Len(a)]
  BY <1>1
<1>4. Len(a) \in Nat /\ Len(b) \in Nat
  BY <1>1
<1>5. ASSUME NEW i \in 1 .. Len(a) + Len(b)
      PROVE  IF i <= Len(a) THEN i \in 1 .. Len(a) ELSE i - Len(a) \in 1 .. Len(b)
  BY <1>4
<1>6. ASSUME NEW i \in 1 .. Len(a) + Len(b), NEW j \in 1 .. Len(a) + Len(b), i < j
      PROVE  Ahead(job, (a \o b)[i].row, (a \o b)[j].row)
  <2>1. CASE j <= Len(a)
    <3>1. i <= Len(a) /\ i \in 1 .. Len(a) /\ j \in 1 .. Len(a)
      BY <1>4, <1>6, <2>1
    <3> QED  BY <1>3, <1>6, <2>1, <3>1 DEF Ordered
  <2>2. CASE i <= Len(a) /\ ~(j <= Len(a))
    <3>1. i \in 1 .. Len(a) /\ j - Len(a) \in 1 .. Len(b)
      BY <1>5, <2>2
    <3>2. Rank(a[i].row[1]) < Rank(b[j - Len(a)].row[1])
      BY <3>1 DEF Within
    <3> QED  BY <1>3, <2>2, <3>2 DEF Ahead
  <2>3. CASE ~(i <= Len(a))
    <3>1. ~(j <= Len(a)) /\ i - Len(a) < j - Len(a)
      BY <1>4, <1>6, <2>3
    <3>2. i - Len(a) \in 1 .. Len(b) /\ j - Len(a) \in 1 .. Len(b)
      BY <1>5, <2>3, <3>1
    <3> QED  BY <1>3, <2>3, <3>1, <3>2 DEF Ordered
  <2> QED  BY <1>4, <2>1, <2>2, <2>3
<1>7. Within(a \o b, A \cup B)
  BY <1>2, <1>3, <1>5 DEF Within
<1> QED  BY <1>2, <1>6, <1>7 DEF Ordered

LEMMA NothingOrdered ==
  ASSUME NEW job
  PROVE  Ordered(job, << >>) /\ \A A : Within(<< >>, A)
BY DEF Ordered, Within

LEMMA OneOrdered ==
  ASSUME NEW job, NEW l \in RowLocks
  PROVE  Ordered(job, << l >>) /\ Within(<< l >>, { l.row[1] })
<1>1. << l >> \in Seq(RowLocks) /\ Len(<< l >>) = 1 /\ << l >>[1] = l
  OBVIOUS
<1>2. \A i \in 1 .. 1 : i = 1
  OBVIOUS
<1> QED  BY <1>1, <1>2 DEF Ordered, Within

LEMMA ProductsOrdered ==
  ASSUME NEW job, NEW ids \in SUBSET Products, NEW s \in InProductIdOrder(ids)
  PROVE  Ordered(job, s) /\ Within(s, { "product" })
<1>1. IsFiniteSet(ids)
  BY LockConstants, FS_Subset
<1>2. /\ s \in Scans("product", ids)
      /\ \A i, j \in DOMAIN s : i < j => s[i].row[2] < s[j].row[2]
  BY DEF InProductIdOrder
<1>3. /\ s \in Seq(RowLocks)
      /\ \A i \in 1 .. Len(s) : s[i].row[1] = "product"
  BY <1>1, <1>2, ScanShape
<1>4. DOMAIN s = 1 .. Len(s)
  BY <1>3
<1> QED  BY <1>2, <1>3, <1>4 DEF Ordered, Within, Ahead

LEMMA EarningsOrdered ==
  ASSUME NEW job, Claims(job), NEW os \in SUBSET Orders, NEW s \in Scans("earning", os)
  PROVE  Ordered(job, s) /\ Within(s, { "earning" })
<1>1. IsFiniteSet(os)
  BY LockConstants, FS_Subset
<1>2. /\ s \in Seq(RowLocks)
      /\ \A i \in 1 .. Len(s) : s[i].row[1] = "earning"
      /\ \A i, j \in 1 .. Len(s) : i # j => s[i].row # s[j].row
  BY <1>1, ScanShape
<1>3. \A i, j \in 1 .. Len(s) : i < j => i # j
  BY <1>2
<1> QED  BY <1>2, <1>3 DEF Ordered, Within, Ahead

-----------------------------------------------------------------------------
(* What the transactions lock                                                *)

LEMMA JobKinds ==
  ASSUME NEW job \in Jobs
  PROVE  /\ job = << job[1], job[2] >>
         /\ \/ job[1] = "checkout" /\ job[2] \in SUBSET Products
            \/ job[1] \in { "cancel", "move", "deliver", "force", "requestReturn" }
               /\ job[2] \in Orders
            \/ job[1] \in { "approveReturn", "rejectReturn" } /\ job[2] \in Requests
            \/ job[1] \in { "requestPayout", "setDestination" } /\ job[2] \in Sellers
            \/ job[1] \in { "advancePayout", "rejectPayout" } /\ job[2] \in Payouts
            \/ job[1] = "editProduct" /\ job[2] \in Products
BY DEF Jobs

LEMMA ALock ==
  /\ \A o \in Orders, m \in Modes : Lock("order", o, m) \in RowLocks
  /\ \A o \in Orders : Lock("earning", o, "write") \in RowLocks
  /\ \A o \in Orders : Lock("cod", o, "write") \in RowLocks
  /\ \A r \in Requests : Lock("request", r, "write") \in RowLocks
  /\ \A s \in Sellers, m \in Modes : Lock("profile", s, m) \in RowLocks
  /\ \A q \in Payouts : Lock("payout", q, "write") \in RowLocks
  /\ \A p \in Products : Lock("product", p, "write") \in RowLocks
BY DEF Lock, RowLocks, LockModes, Rows, Modes

LEMMA TablesOfLocks ==
  \A table, id, m : Lock(table, id, m).row[1] = table
BY DEF Lock

\* What a transaction locks before it reads is in order, and all of one table.
LEMMA FirstShape ==
  ASSUME NEW job \in Jobs, NEW locks \in FirstLocks(job)
  PROVE  /\ Ordered(job, locks)
         /\ Within(locks, { FirstTable(job) })
         /\ Anchored(job) => locks = << Anchor(job) >>
<1>1. CASE job[1] = "checkout"
  <2>1. locks \in InProductIdOrder(job[2]) /\ job[2] \in SUBSET Products
    BY <1>1, JobKinds DEF FirstLocks
  <2>2. FirstTable(job) = "product"
    BY <1>1 DEF FirstTable
  <2> QED  BY <2>1, <2>2, ProductsOrdered DEF Anchored
<1>2. CASE job[1] # "checkout"
  <2>1. \E l \in RowLocks :
          /\ locks = << l >> /\ l.row[1] = FirstTable(job)
          /\ Anchored(job) => l = Anchor(job)
    <3>1. CASE job[1] \in { "cancel", "move", "deliver", "force" }
      <4>1. job[2] \in Orders /\ locks = << Lock("order", job[2], "forUpdate") >>
        BY <3>1, JobKinds DEF FirstLocks
      <4>2. FirstTable(job) = "order"
        BY <3>1 DEF FirstTable
      <4> QED  BY <4>1, <4>2, ALock, TablesOfLocks DEF Anchored, Modes
    <3>2. CASE job[1] = "requestReturn"
      <4>1. job[2] \in Orders /\ locks = << Lock("order", job[2], "keyShare") >>
        BY <3>2, JobKinds DEF FirstLocks
      <4>2. FirstTable(job) = "order"
        BY <3>2 DEF FirstTable
      <4> QED  BY <4>1, <4>2, ALock, TablesOfLocks DEF Anchored, Modes
    <3>3. CASE job[1] \in { "approveReturn", "rejectReturn" }
      <4>1. job[2] \in Requests /\ locks = << Lock("request", job[2], "write") >>
        BY <3>3, JobKinds DEF FirstLocks
      <4>2. FirstTable(job) = "request"
        BY <3>3 DEF FirstTable
      <4> QED  BY <4>1, <4>2, ALock, TablesOfLocks DEF Anchored
    <3>4. CASE job[1] \in { "requestPayout", "setDestination" }
      <4>1. job[2] \in Sellers /\ locks = << Lock("profile", job[2], "forUpdate") >>
        BY <3>4, JobKinds DEF FirstLocks
      <4>2. FirstTable(job) = "profile"
        BY <3>4 DEF FirstTable
      <4> QED  BY <4>1, <4>2, ALock, TablesOfLocks DEF Anchor, Modes
    <3>5. CASE job[1] \in { "advancePayout", "rejectPayout" }
      <4>1. job[2] \in Payouts /\ locks = << Lock("payout", job[2], "write") >>
        BY <3>5, JobKinds DEF FirstLocks
      <4>2. FirstTable(job) = "payout"
        BY <3>5 DEF FirstTable
      <4> QED  BY <4>1, <4>2, ALock, TablesOfLocks DEF Anchor
    <3>6. CASE job[1] = "editProduct"
      <4>1. job[2] \in Products /\ locks = << Lock("product", job[2], "write") >>
        BY <3>6, JobKinds DEF FirstLocks
      <4>2. FirstTable(job) = "product"
        BY <3>6 DEF FirstTable
      <4> QED  BY <4>1, <4>2, ALock, TablesOfLocks DEF Anchored
    <3> QED  BY <1>2, <3>1, <3>2, <3>3, <3>4, <3>5, <3>6, JobKinds
  <2> QED  BY <2>1, OneOrdered
<1> QED  BY <1>1, <1>2

LEMMA RestockShape ==
  ASSUME NEW job, NEW o \in Orders, NEW p \in Restocks(o)
  PROVE  Ordered(job, p) /\ Within(p, { "product" })
<1>1. OrderProducts[o] \in SUBSET Products
  BY LockConstants
<1>2. p = << >> \/ p \in InProductIdOrder(OrderProducts[o])
  BY DEF Restocks
<1> QED  BY <1>1, <1>2, ProductsOrdered, NothingOrdered

LEMMA ReversalShape ==
  ASSUME NEW job, NEW o \in Orders, NEW e \in Reversals(o)
  PROVE  Ordered(job, e) /\ Within(e, { "earning" })
<1> DEFINE l == Lock("earning", o, "write")
<1>1. e = << >> \/ e = << l >>
  BY DEF Reversals
<1>2. l \in RowLocks /\ l.row[1] = "earning"
  BY ALock, TablesOfLocks
<1> HIDE DEF l
<1>3. Ordered(job, << l >>) /\ Within(<< l >>, { "earning" })
  BY <1>2, OneOrdered
<1> QED  BY <1>1, <1>3, NothingOrdered

\* A restocking, then what the transaction locks after the products.
LEMMA RestockThen ==
  ASSUME NEW job, NEW o \in Orders, NEW p \in Restocks(o), NEW c,
         NEW table \in { "cod", "earning" }, Ordered(job, c), Within(c, { table })
  PROVE  Ordered(job, p \o c) /\ Within(p \o c, { "product", "cod", "earning" })
<1>1. Ordered(job, p) /\ Within(p, { "product" })
  BY RestockShape
<1>2. \A x \in { "product" }, y \in { table } : Rank(x) < Rank(y)
  BY DEF Rank
<1>3. Ordered(job, p \o c) /\ Within(p \o c, { "product" } \cup { table })
  BY <1>1, <1>2, Joined
<1> QED  BY <1>3 DEF Within

LEMMA CancelShape ==
  ASSUME NEW job, NEW o \in Orders, NEW s \in CancelLocks(o)
  PROVE  Ordered(job, s) /\ Within(s, { "product", "cod", "earning" })
<1>1. PICK p \in Restocks(o), c \in { << >>, Cod(o) } : s = p \o c
  BY DEF CancelLocks
<1>2. Ordered(job, Cod(o)) /\ Within(Cod(o), { "cod" })
  BY ALock, TablesOfLocks, OneOrdered DEF Cod
<1>3. Ordered(job, c) /\ Within(c, { "cod" })
  BY <1>1, <1>2, NothingOrdered
<1> QED  BY <1>1, <1>3, RestockThen

LEMMA ForceShape ==
  ASSUME NEW job, NEW o \in Orders, NEW s \in ForceLocks(o)
  PROVE  Ordered(job, s) /\ Within(s, { "product", "cod", "earning" })
<1>1. CASE s \in CancelLocks(o)
  BY <1>1, CancelShape
<1>2. CASE s \in { p \o e : p \in Restocks(o), e \in Reversals(o) }
  <2>1. PICK p \in Restocks(o), e \in Reversals(o) : s = p \o e
    BY <1>2
  <2>2. Ordered(job, e) /\ Within(e, { "earning" })
    BY ReversalShape
  <2> QED  BY <2>1, <2>2, RestockThen
<1> QED  BY <1>1, <1>2 DEF ForceLocks

LEMMA DeliveryShape ==
  ASSUME NEW job, NEW o \in Orders, NEW s \in DeliveryLocks(o)
  PROVE  Ordered(job, s) /\ Within(s, { "product", "cod", "profile" })
<1> DEFINE d == << Lock("profile", SellerOf[o], "keyShare") >>
<1>1. PICK p \in InProductIdOrder(OrderProducts[o]) : s = p \o Cod(o) \o d
  BY DEF DeliveryLocks
<1>2. OrderProducts[o] \in SUBSET Products /\ SellerOf[o] \in Sellers
  BY LockConstants
<1>3. Ordered(job, p) /\ Within(p, { "product" })
  BY <1>1, <1>2, ProductsOrdered
<1>4. Ordered(job, Cod(o)) /\ Within(Cod(o), { "cod" })
  BY ALock, TablesOfLocks, OneOrdered DEF Cod
<1>5. Ordered(job, d) /\ Within(d, { "profile" })
  BY <1>2, ALock, TablesOfLocks, OneOrdered DEF Modes
<1> HIDE DEF d
<1>6. Ordered(job, p \o Cod(o)) /\ Within(p \o Cod(o), { "product" } \cup { "cod" })
  <2>1. \A x \in { "product" }, y \in { "cod" } : Rank(x) < Rank(y)
    BY DEF Rank
  <2> QED  BY <1>3, <1>4, <2>1, Joined
<1>7. Ordered(job, s) /\ Within(s, ({ "product" } \cup { "cod" }) \cup { "profile" })
  <2>1. \A x \in { "product" } \cup { "cod" }, y \in { "profile" } : Rank(x) < Rank(y)
    BY DEF Rank
  <2> DEFINE before == p \o Cod(o)
             A == { "product" } \cup { "cod" }
  <2>2. Ordered(job, before) /\ Within(before, A) /\ s = before \o d
    BY <1>1, <1>6
  <2> HIDE DEF before, A
  <2>3. Ordered(job, before \o d) /\ Within(before \o d, A \cup { "profile" })
    BY <1>5, <2>1, <2>2, Joined DEF A
  <2> QED  BY <2>2, <2>3 DEF A
<1> QED  BY <1>7 DEF Within

LEMMA ReturnShape ==
  ASSUME NEW job, NEW o \in Orders, NEW s \in ReturnLocks(o)
  PROVE  Ordered(job, s) /\ Within(s, { "order", "product", "earning" })
<1> DEFINE d == << Lock("order", o, "forUpdate") >>
<1>1. PICK p \in Restocks(o), e \in Reversals(o) : s = d \o p \o e
  BY DEF ReturnLocks
<1>2. Ordered(job, d) /\ Within(d, { "order" })
  BY ALock, TablesOfLocks, OneOrdered DEF Modes
<1> HIDE DEF d
<1>3. Ordered(job, p) /\ Within(p, { "product" })
  BY RestockShape
<1>4. Ordered(job, e) /\ Within(e, { "earning" })
  BY ReversalShape
<1>5. Ordered(job, d \o p) /\ Within(d \o p, { "order" } \cup { "product" })
  <2>1. \A x \in { "order" }, y \in { "product" } : Rank(x) < Rank(y)
    BY DEF Rank
  <2> QED  BY <1>2, <1>3, <2>1, Joined
<1>6. Ordered(job, s) /\ Within(s, ({ "order" } \cup { "product" }) \cup { "earning" })
  <2>1. \A x \in { "order" } \cup { "product" }, y \in { "earning" } : Rank(x) < Rank(y)
    BY DEF Rank
  <2> DEFINE before == d \o p
             A == { "order" } \cup { "product" }
  <2>2. Ordered(job, before) /\ Within(before, A) /\ s = before \o e
    BY <1>1, <1>5
  <2> HIDE DEF before, A
  <2>3. Ordered(job, before \o e) /\ Within(before \o e, A \cup { "earning" })
    BY <1>4, <2>1, <2>2, Joined DEF A
  <2> QED  BY <2>2, <2>3 DEF A
<1> QED  BY <1>6 DEF Within

\* What a transaction goes on to lock is in order, and after what it holds.
LEMMA FurtherShape ==
  ASSUME NEW job \in Jobs, NEW locks \in FurtherLocks(job)
  PROVE  /\ Ordered(job, locks)
         /\ \A i \in 1 .. Len(locks) : Rank(FirstTable(job)) < Rank(locks[i].row[1])
<1>1. CASE locks = << >>
  BY <1>1, NothingOrdered
<1>2. CASE job[1] = "cancel" /\ locks \in CancelLocks(job[2])
  <2>1. Ordered(job, locks) /\ Within(locks, { "product", "cod", "earning" })
    BY <1>2, JobKinds, CancelShape
  <2> QED  BY <1>2, <2>1 DEF Within, FirstTable, Rank
<1>3. CASE job[1] = "force" /\ locks \in ForceLocks(job[2])
  <2>1. Ordered(job, locks) /\ Within(locks, { "product", "cod", "earning" })
    BY <1>3, JobKinds, ForceShape
  <2> QED  BY <1>3, <2>1 DEF Within, FirstTable, Rank
<1>4. CASE job[1] = "deliver" /\ locks \in DeliveryLocks(job[2])
  <2>1. Ordered(job, locks) /\ Within(locks, { "product", "cod", "profile" })
    BY <1>4, JobKinds, DeliveryShape
  <2> QED  BY <1>4, <2>1 DEF Within, FirstTable, Rank
<1>5. CASE job[1] = "approveReturn" /\ locks \in ReturnLocks(RequestOrder[job[2]])
  <2>1. RequestOrder[job[2]] \in Orders
    BY <1>5, JobKinds, LockConstants
  <2>2. Ordered(job, locks) /\ Within(locks, { "order", "product", "earning" })
    BY <1>5, <2>1, ReturnShape
  <2> QED  BY <1>5, <2>2 DEF Within, FirstTable, Rank
<1>6. CASE /\ Claims(job)
           /\ \E os \in SUBSET Orders : locks \in Scans("earning", os)
  <2>1. Ordered(job, locks) /\ Within(locks, { "earning" })
    BY <1>6, EarningsOrdered
  <2>2. FirstTable(job) \in { "profile", "payout" }
    BY <1>6 DEF FirstTable, Claims
  <2> QED  BY <2>1, <2>2 DEF Within, Rank
<1>7. \/ locks = << >>
      \/ job[1] = "cancel" /\ locks \in CancelLocks(job[2])
      \/ job[1] = "force" /\ locks \in ForceLocks(job[2])
      \/ job[1] = "deliver" /\ locks \in DeliveryLocks(job[2])
      \/ job[1] = "approveReturn" /\ locks \in ReturnLocks(RequestOrder[job[2]])
      \/ Claims(job) /\ \E os \in SUBSET Orders : locks \in Scans("earning", os)
  <2>1. CASE job[1] = "requestPayout"
    <3>1. locks \in PayoutLocks(job[2])
      BY <2>1 DEF FurtherLocks
    <3> QED  BY <2>1, <3>1 DEF PayoutLocks, FreeEarnings, Claims
  <2>2. CASE job[1] = "rejectPayout"
    <3>1. locks \in RejectionLocks(job[2])
      BY <2>2 DEF FurtherLocks
    <3> QED  BY <2>2, <3>1 DEF RejectionLocks, EarningsOf, Claims
  <2> QED  BY <2>1, <2>2 DEF FurtherLocks
<1> QED  BY <1>1, <1>2, <1>3, <1>4, <1>5, <1>6, <1>7

-----------------------------------------------------------------------------
(* Every transaction keeps to the order                                      *)

LEMMA TailOrdered ==
  ASSUME NEW job, NEW s, Ordered(job, s), s # << >>
  PROVE  /\ Head(s) \in RowLocks /\ Head(s) = s[1] /\ 1 \in 1 .. Len(s)
         /\ Ordered(job, Tail(s))
         /\ \A i \in 1 .. Len(Tail(s)) :
              /\ i + 1 \in 1 .. Len(s) /\ Tail(s)[i] = s[i + 1]
              /\ Ahead(job, Head(s).row, Tail(s)[i].row)
<1>1. s \in Seq(RowLocks) /\ \A i, j \in 1 .. Len(s) : i < j => Ahead(job, s[i].row, s[j].row)
  BY DEF Ordered
<1>2. Len(s) \in Nat /\ Len(s) > 0 /\ Head(s) = s[1] /\ Head(s) \in RowLocks
  BY <1>1
<1>3. /\ Tail(s) \in Seq(RowLocks) /\ Len(Tail(s)) = Len(s) - 1
      /\ \A i \in 1 .. Len(s) - 1 : Tail(s)[i] = s[i + 1]
  BY <1>1
<1>4. \A i \in 1 .. Len(s) - 1 : i + 1 \in 1 .. Len(s) /\ 1 < i + 1
  BY <1>2
<1>5. 1 \in 1 .. Len(s)
  BY <1>2
<1>6. \A i, j \in 1 .. Len(s) - 1 : i < j => i + 1 < j + 1
  BY <1>2
<1>7. \A i \in 1 .. Len(s) - 1 : Ahead(job, s[1].row, s[i + 1].row)
  BY <1>1, <1>4, <1>5
<1>8. \A i, j \in 1 .. Len(s) - 1 : i < j => Ahead(job, s[i + 1].row, s[j + 1].row)
  BY <1>1, <1>4, <1>6
<1> QED  BY <1>2, <1>3, <1>4, <1>5, <1>7, <1>8 DEF Ordered

Steps(t) == Begins(t) \/ Locks(t) \/ Decides(t) \/ Commits(t) \/ RollsBack(t)

\* A step of one connection leaves the others as they are.
LEMMA OthersStay ==
  ASSUME NEW t \in Slots, DOMAIN slot = Slots, Steps(t)
  PROVE  DOMAIN slot' = Slots /\ \A u \in Slots : u # t => slot'[u] = slot[u]
BY DEF Steps, Begins, Locks, Decides, Commits, RollsBack

LEMMA SlotsKept ==
  ASSUME WaitInv, NEW t \in Slots, Steps(t), NEW u \in Slots, Running(u)'
  PROVE  SlotInv(u)'
<1>1. DOMAIN slot = Slots /\ (Running(t) => SlotInv(t)) /\ (Running(u) => SlotInv(u))
  BY DEF WaitInv
<1>2. CASE u # t
  <2>1. slot'[u] = slot[u]
    BY <1>1, <1>2, OthersStay
  <2> QED  BY <1>1, <2>1 DEF SlotInv, Running
<1>3. CASE u = t /\ Begins(t)
  <2>1. PICK job \in Jobs :
          \E locks \in FirstLocks(job) :
            slot' = [slot EXCEPT ![t] =
                       [ job |-> job, decided |-> FALSE, held |-> {}, todo |-> locks ]]
    BY <1>3 DEF Begins
  <2>2. PICK locks \in FirstLocks(job) :
          slot'[t] = [ job |-> job, decided |-> FALSE, held |-> {}, todo |-> locks ]
    BY <1>1, <2>1
  <2>3. /\ Ordered(job, locks) /\ Within(locks, { FirstTable(job) })
        /\ Anchored(job) => locks = << Anchor(job) >>
    BY FirstShape
  <2>4. locks \in Seq(RowLocks)
    BY <2>3 DEF Ordered
  <2> QED  BY <1>3, <2>2, <2>3, <2>4 DEF SlotInv
<1>4. CASE u = t /\ Locks(t)
  <2> DEFINE job == slot[t].job  todo == slot[t].todo  held == slot[t].held
             h == Head(todo)
  <2>1. Running(t) /\ todo # << >> /\ SlotInv(t)
    BY <1>1, <1>4 DEF Locks, Waiting
  <2>2. slot'[t] = [slot[t] EXCEPT !.held = held \cup { h }, !.todo = Tail(todo)]
    BY <1>1, <1>4 DEF Locks
  <2>3. slot[t] \in [ job : Jobs, decided : BOOLEAN, held : SUBSET RowLocks, todo : Seq(RowLocks) ]
    BY <2>1 DEF SlotInv
  <2>4. /\ slot'[t].job = job /\ slot'[t].decided = slot[t].decided
        /\ slot'[t].held = held \cup { h } /\ slot'[t].todo = Tail(todo)
    BY <2>2, <2>3
  <2>5. /\ h \in RowLocks /\ h = todo[1] /\ 1 \in 1 .. Len(todo)
        /\ Ordered(job, Tail(todo))
        /\ \A i \in 1 .. Len(Tail(todo)) :
             /\ i + 1 \in 1 .. Len(todo) /\ Tail(todo)[i] = todo[i + 1]
             /\ Ahead(job, h.row, Tail(todo)[i].row)
    <3>1. Ordered(job, todo)
      BY <2>1 DEF SlotInv
    <3> QED  BY <2>1, <3>1, TailOrdered
  <2>6. slot'[t] \in [ job : Jobs, decided : BOOLEAN, held : SUBSET RowLocks, todo : Seq(RowLocks) ]
    <3>1. Tail(todo) \in Seq(RowLocks)
      BY <2>5 DEF Ordered
    <3> QED  BY <2>2, <2>3, <2>5, <3>1, ZenonT(40)
  <2>7. \A l \in held \cup { h }, i \in 1 .. Len(Tail(todo)) : Ahead(job, l.row, Tail(todo)[i].row)
    BY <2>1, <2>5 DEF SlotInv
  <2>8. ~slot[t].decided =>
          /\ \A l \in held \cup { h } : l.row[1] = FirstTable(job)
          /\ Within(Tail(todo), { FirstTable(job) })
    BY <2>1, <2>5 DEF SlotInv, Within
  <2>9. Anchored(job) => Anchor(job) \in held \cup { h }
    BY <2>1, <2>5 DEF SlotInv
  <2> QED  BY <1>4, <2>4, <2>5, <2>6, <2>7, <2>8, <2>9 DEF SlotInv
<1>5. CASE u = t /\ Decides(t)
  <2> DEFINE job == slot[t].job
  <2>1. Running(t) /\ slot[t].todo = << >> /\ ~slot[t].decided /\ SlotInv(t)
    BY <1>1, <1>5 DEF Decides, Waiting
  <2>2. PICK locks \in FurtherLocks(job) :
          slot'[t] = [slot[t] EXCEPT !.decided = TRUE, !.todo = locks]
    BY <1>1, <1>5 DEF Decides
  <2>3. slot[t] \in [ job : Jobs, decided : BOOLEAN, held : SUBSET RowLocks, todo : Seq(RowLocks) ]
    BY <2>1 DEF SlotInv
  <2>4. /\ slot'[t].job = job /\ slot'[t].decided = TRUE
        /\ slot'[t].held = slot[t].held /\ slot'[t].todo = locks
    BY <2>2, <2>3
  <2>5. /\ Ordered(job, locks)
        /\ \A i \in 1 .. Len(locks) : Rank(FirstTable(job)) < Rank(locks[i].row[1])
    BY <2>3, FurtherShape
  <2>6. slot'[t] \in [ job : Jobs, decided : BOOLEAN, held : SUBSET RowLocks, todo : Seq(RowLocks) ]
    <3>1. locks \in Seq(RowLocks)
      BY <2>5 DEF Ordered
    <3> QED  BY <2>2, <2>3, <3>1
  <2>7. \A l \in slot[t].held, i \in 1 .. Len(locks) : Ahead(job, l.row, locks[i].row)
    BY <2>1, <2>5 DEF SlotInv, Ahead
  <2>8. Anchored(job) => Anchor(job) \in slot[t].held
    <3>1. << >> # << Anchor(job) >>
      OBVIOUS
    <3> QED  BY <2>1, <3>1 DEF SlotInv
  <2> QED  BY <1>5, <2>4, <2>5, <2>6, <2>7, <2>8 DEF SlotInv
<1>6. CASE u = t /\ (Commits(t) \/ RollsBack(t))
  <2>1. slot'[t] = Idle
    BY <1>1, <1>6 DEF Commits, RollsBack
  <2> QED  BY <1>6, <2>1 DEF Running
<1> QED  BY <1>2, <1>3, <1>4, <1>5, <1>6 DEF Steps

\* Only a free lock is taken.
LEMMA ExclusionKept ==
  ASSUME WaitInv, NEW t \in Slots, Steps(t)
  PROVE  LocksExclude'
<1>1. DOMAIN slot = Slots /\ LocksExclude /\ \A u \in Slots : Running(u) => SlotInv(u)
  BY DEF WaitInv
<1>2. \A u \in Slots : u # t => slot'[u] = slot[u]
  BY <1>1, OthersStay
<1>3. SUFFICES ASSUME NEW u \in Slots, u # t, Running(t)', Running(u)',
                      NEW l \in slot'[t].held, NEW m \in slot'[u].held
               PROVE  ~Conflicts(l, m) /\ ~Conflicts(m, l)
  <2>1. \A u, v \in Slots : u # t /\ v # t => slot'[u] = slot[u] /\ slot'[v] = slot[v]
    BY <1>2
  <2> QED  BY <1>1, <1>3, <2>1 DEF LocksExclude, Running
<1>4. slot'[u] = slot[u] /\ Running(u)
  BY <1>2, <1>3 DEF Running
<1>5. CASE Begins(t)
  BY <1>1, <1>3, <1>5 DEF Begins
<1>6. CASE Locks(t)
  <2>1. Running(t) /\ SlotInv(t) /\ slot[t].todo # << >>
    BY <1>1, <1>6 DEF Locks, Waiting
  <2>2. slot'[t].held = slot[t].held \cup { Head(slot[t].todo) }
    BY <1>1, <1>6, <2>1 DEF Locks, SlotInv
  <2>3. CASE l \in slot[t].held
    BY <1>1, <1>3, <1>4, <2>1, <2>3 DEF LocksExclude
  <2>4. CASE l = Head(slot[t].todo)
    <3>1. ~Conflicts(m, l)
      BY <1>3, <1>4, <1>6, <2>1, <2>4 DEF Locks, Blocks
    <3> QED  BY <3>1 DEF Conflicts
  <2> QED  BY <1>3, <2>2, <2>3, <2>4
<1>7. CASE Decides(t)
  <2>1. Running(t) /\ SlotInv(t)
    BY <1>1, <1>7 DEF Decides
  <2>2. slot'[t].held = slot[t].held
    BY <1>1, <1>7, <2>1 DEF Decides, SlotInv
  <2> QED  BY <1>1, <1>3, <1>4, <2>1, <2>2 DEF LocksExclude
<1>8. CASE Commits(t) \/ RollsBack(t)
  <2>1. slot'[t] = Idle
    BY <1>1, <1>8 DEF Commits, RollsBack
  <2> QED  BY <1>3, <2>1 DEF Running
<1> QED  BY <1>5, <1>6, <1>7, <1>8 DEF Steps

-----------------------------------------------------------------------------
(* What a payout transaction read stands                                     *)

\* Past its reads, a transaction of the desk holds its anchor, and no two of
\* them have the same one.
LEMMA AnchorsDiffer ==
  ASSUME WaitInv, NEW t \in Slots, NEW u \in Slots, t # u, Running(t), Running(u),
         slot[t].decided, slot[u].decided, Anchored(slot[t].job),
         FirstTable(slot[u].job) = FirstTable(slot[t].job)
  PROVE  slot[t].job[2] # slot[u].job[2]
<1>1. SlotInv(t) /\ SlotInv(u) /\ LocksExclude
  BY DEF WaitInv
<1>2. Anchor(slot[t].job) \in slot[t].held /\ Anchor(slot[u].job) \in slot[u].held
  BY <1>1 DEF SlotInv, Anchored
<1>3. ~Conflicts(Anchor(slot[t].job), Anchor(slot[u].job))
  BY <1>1, <1>2 DEF LocksExclude
<1> QED  BY <1>3 DEF Conflicts, Anchor, Anchored, Lock

LEMMA SameClaims ==
  ASSUME NEW t \in Slots, NEW u \in Slots, slot'[u] = slot[u]
  PROVE  Claimed(u)' = Claimed(u)
BY DEF Claimed

\* To take a lock is not to claim another earning.
LEMMA LockingClaims ==
  ASSUME WaitInv, NEW t \in Slots, Locks(t)
  PROVE  /\ Claimed(t)' = Claimed(t)
         /\ slot'[t].job = slot[t].job /\ slot'[t].decided = slot[t].decided
<1> DEFINE todo == slot[t].todo
           h == Head(todo)
<1>1. Running(t) /\ todo # << >> /\ SlotInv(t) /\ DOMAIN slot = Slots
  BY DEF WaitInv, Locks, Waiting
<1>2. slot[t] \in [ job : Jobs, decided : BOOLEAN, held : SUBSET RowLocks, todo : Seq(RowLocks) ]
  BY <1>1 DEF SlotInv
<1>3. slot'[t] = [slot[t] EXCEPT !.held = @ \cup { h }, !.todo = Tail(todo)]
  BY <1>1 DEF Locks
<1>4. /\ slot'[t].held = slot[t].held \cup { h } /\ slot'[t].todo = Tail(todo)
      /\ slot'[t].job = slot[t].job /\ slot'[t].decided = slot[t].decided
  BY <1>2, <1>3
<1>5. /\ todo \in Seq(RowLocks) /\ Len(todo) \in Nat /\ Len(todo) > 0 /\ h = todo[1]
      /\ Len(Tail(todo)) = Len(todo) - 1
      /\ \A i \in 1 .. Len(todo) - 1 : Tail(todo)[i] = todo[i + 1]
  BY <1>1, <1>2
<1>6. DOMAIN todo = 1 .. Len(todo) /\ DOMAIN Tail(todo) = 1 .. Len(todo) - 1
  BY <1>5
<1>7. \A i \in 1 .. Len(todo) : i = 1 \/ (i - 1 \in 1 .. Len(todo) - 1 /\ i = (i - 1) + 1)
  BY <1>5
<1>8. \A i \in 1 .. Len(todo) - 1 : i + 1 \in 1 .. Len(todo)
  BY <1>5
<1>9. 1 \in 1 .. Len(todo)
  BY <1>5
<1>10. slot[t].held \cup { h } \cup { Tail(todo)[i] : i \in DOMAIN Tail(todo) }
        = slot[t].held \cup { todo[i] : i \in DOMAIN todo }
  <2>1. \A i \in DOMAIN Tail(todo) : \E j \in DOMAIN todo : Tail(todo)[i] = todo[j]
    BY <1>5, <1>6, <1>8
  <2>2. \A j \in DOMAIN todo : todo[j] = h \/ \E i \in DOMAIN Tail(todo) : Tail(todo)[i] = todo[j]
    <3>1. SUFFICES ASSUME NEW j \in 1 .. Len(todo), j # 1
                   PROVE  \E i \in 1 .. Len(todo) - 1 : Tail(todo)[i] = todo[j]
      BY <1>5, <1>6
    <3>2. j - 1 \in 1 .. Len(todo) - 1 /\ j = (j - 1) + 1
      BY <1>7, <3>1
    <3> QED  BY <1>5, <3>2
  <2>3. \E j \in DOMAIN todo : h = todo[j]
    BY <1>5, <1>6, <1>9
  <2> HIDE DEF todo, h
  <2> QED  BY <2>1, <2>2, <2>3
<1>11. Claimed(t)' = Claimed(t)
  BY <1>4, <1>10 DEF Claimed
<1> QED  BY <1>4, <1>11

\* What the reads of a transaction of the desk let it claim.
LEMMA DecidingClaims ==
  ASSUME WaitInv, NEW t \in Slots, Decides(t), Claims(slot[t].job)
  PROVE  LET id == slot[t].job[2] IN
         /\ slot'[t].job = slot[t].job
         /\ \/ Claimed(t)' = {}
            \/ /\ slot[t].job[1] = "requestPayout"
               /\ ~HasOpenPayout(id) /\ Claimed(t)' \subseteq FreeEarnings(id)
            \/ /\ slot[t].job[1] = "rejectPayout"
               /\ id \in open /\ Claimed(t)' = EarningsOf(id)
<1> DEFINE job == slot[t].job
<1>1. Running(t) /\ ~slot[t].decided /\ SlotInv(t) /\ DOMAIN slot = Slots
  BY DEF WaitInv, Decides
<1>2. slot[t] \in [ job : Jobs, decided : BOOLEAN, held : SUBSET RowLocks, todo : Seq(RowLocks) ]
  BY <1>1 DEF SlotInv
<1>3. PICK locks \in FurtherLocks(job) :
        slot'[t] = [slot[t] EXCEPT !.decided = TRUE, !.todo = locks]
  BY <1>1 DEF Decides
<1>4. slot'[t].held = slot[t].held /\ slot'[t].todo = locks /\ slot'[t].job = job
  BY <1>2, <1>3
<1>5. \A o \in Orders : Lock("earning", o, "write") \notin slot[t].held
  <2>1. FirstTable(job) # "earning"
    BY DEF FirstTable
  <2> QED  BY <1>1, <2>1, TablesOfLocks DEF SlotInv
<1>6. Claimed(t)' =
        { o \in Orders : \E i \in DOMAIN locks : locks[i] = Lock("earning", o, "write") }
  BY <1>4, <1>5 DEF Claimed
<1>7. CASE locks = << >>
  <2>1. DOMAIN locks = {}
    BY <1>7
  <2> QED  BY <1>4, <1>6, <2>1
<1>8. ASSUME NEW es \in SUBSET Orders, locks \in Scans("earning", es)
      PROVE  Claimed(t)' = es
  <2>1. IsFiniteSet(es)
    BY LockConstants, FS_Subset
  <2>2. /\ locks \in Seq(RowLocks)
        /\ \A i \in 1 .. Len(locks) :
             locks[i] = Lock("earning", locks[i].row[2], "write") /\ locks[i].row[2] \in es
        /\ \A o \in es : \E i \in 1 .. Len(locks) : locks[i] = Lock("earning", o, "write")
    BY <1>8, <2>1, ScanShape
  <2>3. DOMAIN locks = 1 .. Len(locks)
    BY <2>2
  <2>4. \A o, p : Lock("earning", o, "write") = Lock("earning", p, "write") => o = p
    BY DEF Lock
  <2> QED  BY <1>6, <2>2, <2>3, <2>4
<1>9. CASE job[1] = "requestPayout" /\ locks # << >>
  <2>1. locks \in PayoutLocks(job[2])
    BY <1>9 DEF FurtherLocks
  <2>2. /\ ~HasOpenPayout(job[2])
        /\ \E es \in SUBSET FreeEarnings(job[2]) : locks \in Scans("earning", es)
    BY <1>9, <2>1 DEF PayoutLocks
  <2>3. FreeEarnings(job[2]) \subseteq Orders
    BY DEF FreeEarnings
  <2> QED  BY <1>4, <1>8, <1>9, <2>2, <2>3
<1>10. CASE job[1] = "rejectPayout" /\ locks # << >>
  <2>1. locks \in RejectionLocks(job[2])
    BY <1>10 DEF FurtherLocks
  <2>2. job[2] \in open /\ locks \in Scans("earning", EarningsOf(job[2]))
    BY <1>10, <2>1 DEF RejectionLocks
  <2>3. EarningsOf(job[2]) \subseteq Orders
    BY DEF EarningsOf
  <2> QED  BY <1>4, <1>8, <1>10, <2>2, <2>3
<1> QED  BY <1>7, <1>9, <1>10 DEF Claims

DeskStays == UNCHANGED << linked, open >>

DeskReserves(s) ==
  \E q \in Payouts, es \in SUBSET FreeEarnings(s) :
    /\ es # {} /\ q \notin open /\ EarningsOf(q) = {}
    /\ linked' = [o \in Orders |-> IF o \in es THEN q ELSE linked[o]]
    /\ open' = open \cup { q }

\* What the commits do to the desk.
LEMMA CommitWrites ==
  ASSUME WaitInv, NEW t \in Slots, Commits(t)
  PROVE  LET job == slot[t].job IN
         /\ Running(t) /\ slot[t].decided
         /\ \/ DeskStays
            \/ job[1] = "requestPayout" /\ DeskReserves(job[2])
            \/ job[1] = "rejectPayout" /\ job[2] \in Payouts /\ Releases(job[2])
            \/ job[1] = "advancePayout" /\ job[2] \in Payouts /\ Advances(job[2])
<1> DEFINE job == slot[t].job
<1>1. Running(t) /\ slot[t].decided /\ SlotInv(t)
  BY DEF WaitInv, Commits
<1>2. job \in Jobs
  BY <1>1 DEF SlotInv
<1>3. CASE job[1] = "requestPayout"
  <2>1. PICK q \in Payouts : Reserves(t, q)
    BY <1>3 DEF Commits
  <2>2. CASE DeskStays
    BY <1>1, <2>2
  <2>3. CASE ~DeskStays
    BY <1>1, <1>3, <2>1, <2>3 DEF Reserves, DeskStays, DeskReserves, LockedEarnings
  <2> QED  BY <2>2, <2>3
<1>4. CASE job[1] = "rejectPayout"
  BY <1>1, <1>2, <1>4, JobKinds DEF Commits
<1>5. CASE job[1] = "advancePayout"
  BY <1>1, <1>2, <1>5, JobKinds DEF Commits
<1>6. CASE job[1] \notin { "requestPayout", "rejectPayout", "advancePayout" }
  BY <1>1, <1>6 DEF Commits, DeskStays
<1> QED  BY <1>3, <1>4, <1>5, <1>6

LEMMA DeskRowsKept ==
  ASSUME WaitInv, NEW t \in Slots, Steps(t)
  PROVE  DeskRows'
<1>1. DeskRows
  BY DEF WaitInv
<1>2. CASE DeskStays
  BY <1>1, <1>2 DEF DeskStays, DeskRows, EarningsOf
<1>3. CASE Commits(t) /\ ~DeskStays
  <2> DEFINE id == slot[t].job[2]
  <2>1. CASE DeskReserves(id)
    <3>1. PICK q \in Payouts, es \in SUBSET FreeEarnings(id) :
            /\ es # {} /\ q \notin open /\ EarningsOf(q) = {}
            /\ linked' = [o \in Orders |-> IF o \in es THEN q ELSE linked[o]]
            /\ open' = open \cup { q }
      BY <2>1 DEF DeskReserves
    <3>2. es \subseteq Orders /\ \A o \in es : linked[o] = NoPayout
      BY DEF FreeEarnings
    <3>3. linked' \in [Orders -> Payouts \cup { NoPayout }]
      BY <1>1, <3>1 DEF DeskRows
    <3>4. \A r \in open' : r \in Payouts /\ \E o \in Orders : linked'[o] = r
      <4>1. ASSUME NEW r \in open  PROVE r \in Payouts /\ \E o \in Orders : linked'[o] = r
        <5>1. r \in Payouts /\ \E o \in Orders : linked[o] = r
          BY <1>1 DEF DeskRows, EarningsOf
        <5>2. \A o \in Orders : linked[o] = r => o \notin es
          BY <3>2, <5>1, LockConstants
        <5> QED  BY <3>1, <5>1, <5>2
      <4> QED  BY <3>1, <3>2, <4>1
    <3> QED  BY <3>3, <3>4 DEF DeskRows, EarningsOf
  <2>2. CASE id \in Payouts /\ Releases(id)
    BY <1>1, <2>2 DEF Releases, DeskRows, EarningsOf
  <2>3. CASE id \in Payouts /\ Advances(id)
    BY <1>1, <2>3 DEF Advances, DeskRows, EarningsOf
  <2> QED  BY <1>3, <2>1, <2>2, <2>3, CommitWrites
<1>4. ~Commits(t) => DeskStays
  BY DEF Steps, Begins, Locks, Decides, RollsBack, DeskStays
<1> QED  BY <1>2, <1>3, <1>4

Stands(u) ==
  LET id == slot[u].job[2] IN
  (Running(u) /\ slot[u].decided /\ Claimed(u) # {}) =>
    /\ slot[u].job[1] = "requestPayout" =>
         ~HasOpenPayout(id) /\ Claimed(u) \subseteq FreeEarnings(id)
    /\ slot[u].job[1] = "rejectPayout" =>
         id \in open /\ Claimed(u) = EarningsOf(id)

\* The writes of another transaction's commit are to other sellers and payouts.
LEMMA OthersStand ==
  ASSUME WaitInv, NEW t \in Slots, Commits(t), NEW u \in Slots, u # t, Stands(u),
         slot'[u] = slot[u]
  PROVE  Stands(u)'
<1> DEFINE id == slot[u].job[2]
<1>1. DeskRows /\ Claimed(u)' = Claimed(u)
  BY SameClaims DEF WaitInv
<1>2. SUFFICES ASSUME Running(u), slot[u].decided, Claimed(u) # {}
               PROVE  /\ slot[u].job[1] = "requestPayout" =>
                           ~HasOpenPayout(id)' /\ Claimed(u) \subseteq FreeEarnings(id)'
                      /\ slot[u].job[1] = "rejectPayout" =>
                           id \in open' /\ Claimed(u) = EarningsOf(id)'
  BY <1>1 DEF Stands, Running, HasOpenPayout, FreeEarnings, EarningsOf
<1>3. /\ slot[u].job[1] = "requestPayout" =>
           ~HasOpenPayout(id) /\ Claimed(u) \subseteq FreeEarnings(id)
      /\ slot[u].job[1] = "rejectPayout" =>
           id \in open /\ Claimed(u) = EarningsOf(id)
  BY <1>2 DEF Stands
<1>4. CASE DeskStays
  BY <1>3, <1>4 DEF DeskStays, HasOpenPayout, FreeEarnings, EarningsOf
<1>5. CASE slot[t].job[1] = "requestPayout" /\ DeskReserves(slot[t].job[2])
  <2> DEFINE s == slot[t].job[2]
  <2>1. PICK q \in Payouts, es \in SUBSET FreeEarnings(s) :
          /\ es # {} /\ q \notin open /\ EarningsOf(q) = {}
          /\ linked' = [o \in Orders |-> IF o \in es THEN q ELSE linked[o]]
          /\ open' = open \cup { q }
    BY <1>5 DEF DeskReserves
  <2>2. \A o \in es : o \in Orders /\ linked[o] = NoPayout /\ SellerOf[o] = s
    BY DEF FreeEarnings
  <2>3. CASE slot[u].job[1] = "requestPayout"
    <3>1. id # s
      BY <1>2, <1>5, <2>3, AnchorsDiffer, CommitWrites DEF Anchored, FirstTable
    <3>2. FreeEarnings(id) \subseteq FreeEarnings(id)'
      BY <2>1, <2>2, <3>1 DEF FreeEarnings
    <3>3. ~HasOpenPayout(id)'
      <4>1. SUFFICES ASSUME NEW r \in open', NEW o \in Orders, linked'[o] = r, SellerOf[o] = id
                     PROVE  FALSE
        BY DEF HasOpenPayout
      <4>2. o \notin es /\ linked[o] = r
        BY <2>1, <2>2, <3>1, <4>1
      <4>3. r # q
        BY <2>1, <4>2 DEF EarningsOf
      <4> QED  BY <1>3, <2>1, <2>3, <4>1, <4>2, <4>3 DEF HasOpenPayout
    <3> QED  BY <1>3, <2>3, <3>2, <3>3
  <2>4. CASE slot[u].job[1] = "rejectPayout"
    <3>1. id \in open /\ id \in Payouts /\ id # q /\ id # NoPayout
      BY <1>1, <1>3, <2>1, <2>4, LockConstants DEF DeskRows
    <3>2. \A o \in Orders : linked'[o] = id <=> linked[o] = id
      BY <2>1, <2>2, <3>1
    <3> QED  BY <1>3, <2>1, <2>4, <3>1, <3>2 DEF EarningsOf
  <2> QED  BY <2>3, <2>4
<1>6. CASE /\ slot[t].job[1] = "rejectPayout"
           /\ slot[t].job[2] \in Payouts /\ Releases(slot[t].job[2])
  <2> DEFINE q == slot[t].job[2]
  <2>1. /\ linked' = [o \in Orders |-> IF q \in open /\ linked[o] = q THEN NoPayout ELSE linked[o]]
        /\ open' = open \ { q }
    BY <1>6 DEF Releases
  <2>2. CASE slot[u].job[1] = "requestPayout"
    <3>1. FreeEarnings(id) \subseteq FreeEarnings(id)'
      BY <2>1 DEF FreeEarnings
    <3>2. ~HasOpenPayout(id)'
      <4>1. SUFFICES ASSUME NEW r \in open', NEW o \in Orders, linked'[o] = r, SellerOf[o] = id
                     PROVE  FALSE
        BY DEF HasOpenPayout
      <4>2. r \in open /\ r # NoPayout
        BY <1>1, <2>1, LockConstants DEF DeskRows
      <4>3. linked[o] = r
        BY <2>1, <4>1, <4>2
      <4> QED  BY <1>3, <2>2, <4>1, <4>2, <4>3 DEF HasOpenPayout
    <3> QED  BY <1>3, <2>2, <3>1, <3>2
  <2>3. CASE slot[u].job[1] = "rejectPayout"
    <3>1. id # q
      BY <1>2, <1>6, <2>3, AnchorsDiffer, CommitWrites DEF Anchored, FirstTable
    <3>2. id \in open /\ id # NoPayout
      BY <1>1, <1>3, <2>3, LockConstants DEF DeskRows
    <3>3. \A o \in Orders : linked'[o] = id <=> linked[o] = id
      BY <2>1, <3>1, <3>2
    <3> QED  BY <1>3, <2>1, <2>3, <3>1, <3>2, <3>3 DEF EarningsOf
  <2> QED  BY <2>2, <2>3
<1>7. CASE /\ slot[t].job[1] = "advancePayout"
           /\ slot[t].job[2] \in Payouts /\ Advances(slot[t].job[2])
  <2> DEFINE q == slot[t].job[2]
  <2>1. open' \in { open, open \ { q } } /\ linked' = linked
    BY <1>7 DEF Advances
  <2>2. CASE slot[u].job[1] = "requestPayout"
    BY <1>3, <2>1, <2>2 DEF HasOpenPayout, FreeEarnings
  <2>3. CASE slot[u].job[1] = "rejectPayout"
    <3>1. id # q
      BY <1>2, <1>7, <2>3, AnchorsDiffer, CommitWrites DEF Anchored, FirstTable
    <3> QED  BY <1>3, <2>1, <2>3, <3>1 DEF EarningsOf
  <2> QED  BY <2>2, <2>3
<1> QED  BY <1>4, <1>5, <1>6, <1>7, CommitWrites

LEMMA DecisionsKept ==
  ASSUME WaitInv, NEW t \in Slots, Steps(t)
  PROVE  DecisionsStand'
<1>1. DOMAIN slot = Slots /\ (Running(t) => SlotInv(t)) /\ \A u \in Slots : Stands(u)
  BY DEF WaitInv, DecisionsStand, Stands
<1>2. SUFFICES ASSUME NEW u \in Slots  PROVE Stands(u)'
  BY <1>2 DEF DecisionsStand, Stands
<1>3. CASE u # t
  <2>1. slot'[u] = slot[u]
    BY <1>1, <1>3, OthersStay
  <2>2. CASE Commits(t)
    BY <1>1, <1>3, <2>1, <2>2, OthersStand
  <2>3. CASE ~Commits(t)
    <3>1. DeskStays
      BY <2>3 DEF Steps, Begins, Locks, Decides, RollsBack, DeskStays
    <3>2. Claimed(u)' = Claimed(u)
      BY <2>1, SameClaims
    <3> QED  BY <1>1, <2>1, <3>1, <3>2
             DEF DeskStays, Stands, Running, HasOpenPayout, FreeEarnings, EarningsOf
  <2> QED  BY <2>2, <2>3
<1>4. CASE u = t /\ Begins(t)
  <2>1. slot'[t].decided = FALSE
    BY <1>1, <1>4 DEF Begins
  <2> QED  BY <1>4, <2>1 DEF Stands
<1>5. CASE u = t /\ Locks(t)
  <2>1. /\ Claimed(t)' = Claimed(t)
        /\ slot'[t].job = slot[t].job /\ slot'[t].decided = slot[t].decided
    BY <1>5, LockingClaims
  <2>2. Running(t) /\ DeskStays
    BY <1>5 DEF Locks, Waiting, DeskStays
  <2> QED  BY <1>1, <1>5, <2>1, <2>2
           DEF DeskStays, Stands, HasOpenPayout, FreeEarnings, EarningsOf
<1>6. CASE u = t /\ Decides(t)
  <2>1. DeskStays /\ Running(t)
    BY <1>6 DEF Decides, DeskStays
  <2>2. slot'[t].job = slot[t].job
    BY <1>1, <1>6, <2>1 DEF Decides, SlotInv
  <2>3. CASE Claims(slot[t].job)
    <3>1. LET id == slot[t].job[2] IN
          \/ Claimed(t)' = {}
          \/ /\ slot[t].job[1] = "requestPayout"
             /\ ~HasOpenPayout(id) /\ Claimed(t)' \subseteq FreeEarnings(id)
          \/ /\ slot[t].job[1] = "rejectPayout"
             /\ id \in open /\ Claimed(t)' = EarningsOf(id)
      BY <1>6, <2>3, DecidingClaims
    <3> QED  BY <1>6, <2>1, <2>2, <3>1
             DEF DeskStays, Stands, HasOpenPayout, FreeEarnings, EarningsOf
  <2>4. CASE ~Claims(slot[t].job)
    BY <1>6, <2>2, <2>4 DEF Stands, Claims
  <2> QED  BY <2>3, <2>4
<1>7. CASE u = t /\ (Commits(t) \/ RollsBack(t))
  <2>1. slot'[t] = Idle
    BY <1>1, <1>7 DEF Commits, RollsBack
  <2> QED  BY <1>7, <2>1 DEF Stands, Running
<1> QED  BY <1>3, <1>4, <1>5, <1>6, <1>7 DEF Steps

-----------------------------------------------------------------------------
(* No circle of waits                                                        *)

\* A finite set of numbers has a highest one: of the sets of those above an
\* element, take a minimal one.
LEMMA HighestNumber ==
  ASSUME NEW ns \in SUBSET Nat, IsFiniteSet(ns), ns # {}
  PROVE  \E c \in ns : \A d \in ns : d <= c
<1> DEFINE Above(c) == { d \in ns : d > c }
           All == { Above(c) : c \in ns }
           R == StrictSubsetOrdering(ns)
<1>1. All \subseteq FiniteSubsetsOf(ns)
  <2>1. ASSUME NEW s \in SUBSET ns  PROVE IsFiniteSet(s)
    BY FS_Subset
  <2> QED  BY <2>1 DEF FiniteSubsetsOf
<1>2. PICK low \in All : \A s \in All : << s, low >> \notin R
  <2>1. IsWellFoundedOn(R, FiniteSubsetsOf(ns)) /\ All # {}
    BY FS_StrictSubsetOrderingWellFounded
  <2> HIDE DEF All, R
  <2> QED  BY <1>1, <2>1, WFMin
<1>3. PICK c \in ns : low = Above(c)
  BY <1>2
<1>4. ASSUME NEW d \in ns, d > c  PROVE FALSE
  <2>1. Above(d) \subseteq Above(c) /\ d \in Above(c) /\ d \notin Above(d)
    <3>1. ~(d > d) /\ \A e \in ns : e > d => e > c
      BY <1>4
    <3> QED  BY <1>4, <3>1
  <2>2. << Above(d), Above(c) >> \in R
    BY <2>1 DEF StrictSubsetOrdering
  <2> QED  BY <1>2, <1>3, <2>2
<1> QED  BY <1>4

Wanted(t) == Head(slot[t].todo).row

LEMMA BlockersAreAhead ==
  ASSUME WaitInv, NEW t \in Slots, NEW u \in Slots, Waiting(t), Waiting(u), Blocks(u, t)
  PROVE  /\ Ahead(slot[u].job, Wanted(t), Wanted(u))
         /\ \E l \in slot[u].held : l \in RowLocks /\ l.row = Wanted(t)
<1>1. SlotInv(t) /\ SlotInv(u) /\ slot[u].todo # << >>
  BY DEF WaitInv, Waiting
<1>2. PICK l \in slot[u].held : l.row = Wanted(t)
  BY DEF Blocks, Conflicts, Wanted
<1>3. slot[u].todo \in Seq(RowLocks) /\ slot[u].held \subseteq RowLocks
  BY <1>1 DEF SlotInv
<1>4. 1 \in 1 .. Len(slot[u].todo) /\ Head(slot[u].todo) = slot[u].todo[1]
  BY <1>1, <1>3
<1> QED  BY <1>1, <1>2, <1>3, <1>4 DEF SlotInv, Wanted

\* Two transactions of the desk never claim the same earning.
LEMMA ClaimsDisjoint ==
  ASSUME WaitInv, NEW t \in Slots, NEW u \in Slots, t # u, Running(t), Running(u),
         slot[t].decided, slot[u].decided, Claims(slot[t].job), Claims(slot[u].job)
  PROVE  Claimed(t) \cap Claimed(u) = {}
<1>1. SUFFICES ASSUME NEW o \in Claimed(t) \cap Claimed(u)  PROVE FALSE
  OBVIOUS
<1>2. Stands(t) /\ Stands(u) /\ DeskRows
  BY DEF WaitInv, DecisionsStand, Stands
<1>3. ASSUME NEW v \in { t, u }
      PROVE  \/ /\ slot[v].job[1] = "requestPayout"
                /\ linked[o] = NoPayout /\ SellerOf[o] = slot[v].job[2]
             \/ /\ slot[v].job[1] = "rejectPayout"
                /\ linked[o] = slot[v].job[2] /\ linked[o] \in Payouts
  BY <1>1, <1>2 DEF Stands, Claims, FreeEarnings, EarningsOf, DeskRows
<1>4. slot[t].job[1] = slot[u].job[1] /\ slot[t].job[2] = slot[u].job[2]
  BY <1>3, LockConstants
<1>5. Anchored(slot[t].job) /\ FirstTable(slot[u].job) = FirstTable(slot[t].job)
  BY <1>4 DEF Anchored, FirstTable, Claims
<1> QED  BY <1>4, <1>5, AnchorsDiffer

\* One who waits for an earning that others of the circle hold: they are of the
\* desk, and so is whoever blocks them.
LEMMA NoCircleOfEarnings ==
  ASSUME WaitInv, NEW u \in Slots, NEW v \in Slots, Waiting(u), Waiting(v), Blocks(v, u),
         Claims(slot[u].job), Claims(slot[v].job), Wanted(u)[1] = "earning"
  PROVE  FALSE
<1>1. u # v /\ Running(u) /\ Running(v) /\ SlotInv(u) /\ SlotInv(v)
  BY DEF WaitInv, Waiting, Blocks
<1>2. PICK l \in slot[v].held : l \in RowLocks /\ l.row = Wanted(u)
  BY BlockersAreAhead
<1>3. /\ slot[u].todo # << >> /\ slot[u].todo \in Seq(RowLocks)
      /\ 1 \in 1 .. Len(slot[u].todo) /\ 1 \in DOMAIN slot[u].todo
      /\ Head(slot[u].todo) = slot[u].todo[1] /\ slot[u].todo[1] \in RowLocks
  BY <1>1 DEF SlotInv, Waiting
<1>4. PICK o \in Orders :
        /\ l = Lock("earning", o, "write")
        /\ slot[u].todo[1] = Lock("earning", o, "write")
  <2>1. l.row = slot[u].todo[1].row /\ l.row[1] = "earning" /\ l.row \in Rows
    BY <1>2, <1>3 DEF Wanted, RowLocks, LockModes
  <2>2. PICK o \in Orders : l.row = << "earning", o >>
    BY <2>1 DEF Rows
  <2>3. l.mode = "write" /\ slot[u].todo[1].mode = "write"
    BY <1>2, <1>3, <2>1 DEF RowLocks
  <2>4. \A m \in RowLocks : m = [ row |-> m.row, mode |-> m.mode ]
    BY DEF RowLocks, LockModes
  <2> QED  BY <1>2, <1>3, <2>1, <2>2, <2>3, <2>4 DEF Lock
<1>5. o \in Claimed(u) /\ o \in Claimed(v)
  BY <1>3, <1>4 DEF Claimed
<1>6. slot[u].decided /\ slot[v].decided
  <2>1. \A job : FirstTable(job) # "earning"
    BY DEF FirstTable
  <2>2. l.row[1] = "earning" /\ slot[u].todo[1].row[1] = "earning"
    BY <1>4, TablesOfLocks
  <2> QED  BY <1>1, <1>3, <2>1, <2>2 DEF SlotInv, Within
<1> QED  BY <1>1, <1>5, <1>6, ClaimsDisjoint

LEMMA NoCircle ==
  ASSUME WaitInv
  PROVE  NoDeadlock
<1>1. SUFFICES ASSUME NEW S \in SUBSET { t \in Slots : Waiting(t) }, S # {},
                      \A t \in S : \E u \in S : Blocks(u, t)
               PROVE  FALSE
  BY DEF NoDeadlock
<1>2. ASSUME NEW t \in S
      PROVE  /\ Wanted(t) = << Wanted(t)[1], Wanted(t)[2] >>
             /\ Wanted(t)[1] = "product" => Wanted(t)[2] \in Products
             /\ Wanted(t)[1] \in
                  { "request", "order", "product", "cod", "profile", "payout", "earning" }
  <2>1. SlotInv(t) /\ slot[t].todo # << >>
    BY <1>1 DEF WaitInv, Waiting
  <2>2. slot[t].todo \in Seq(RowLocks)
    BY <2>1 DEF SlotInv
  <2>3. Wanted(t) \in Rows
    <3>1. Head(slot[t].todo) \in RowLocks
      BY <2>1, <2>2
    <3> QED  BY <3>1 DEF Wanted, RowLocks, LockModes
  <2> QED  BY <2>3 DEF Rows
<1>3. ASSUME NEW t \in S
      PROVE  \E u \in S : Blocks(u, t) /\ Ahead(slot[u].job, Wanted(t), Wanted(u))
  BY <1>1, BlockersAreAhead
<1> DEFINE ranks == { Rank(Wanted(t)[1]) : t \in S }
<1>4. \A table : Rank(table) \in 0 .. 6
  BY DEF Rank
<1>5. PICK k \in ranks : \A n \in ranks : n <= k
  <2>1. IsFiniteSet(0 .. 6)
    <3>1. 0 \in Int /\ 6 \in Int
      OBVIOUS
    <3> QED  BY <3>1, FS_Interval
  <2>2. ranks \subseteq 0 .. 6 /\ ranks # {} /\ 0 .. 6 \subseteq Nat
    BY <1>1, <1>4
  <2> HIDE DEF ranks
  <2> QED  BY <2>1, <2>2, FS_Subset, HighestNumber
<1>6. PICK top \in S : Rank(Wanted(top)[1]) = k
  BY <1>5
<1>7. \A t \in S : ~(Rank(Wanted(top)[1]) < Rank(Wanted(t)[1]))
  <2>1. \A t \in S : Rank(Wanted(t)[1]) <= k
    BY <1>5
  <2>2. \A t \in S : Rank(Wanted(t)[1]) \in Nat
    BY <1>4
  <2> QED  BY <1>6, <2>1, <2>2
<1>8. CASE Wanted(top)[1] = "product"
  <2> DEFINE ids == { Wanted(t)[2] : t \in { s \in S : Wanted(s)[1] = "product" } }
  <2>1. PICK p \in ids : \A n \in ids : n <= p
    <3>1. ids \subseteq Products /\ ids # {}
      BY <1>2, <1>8
    <3> HIDE DEF ids
    <3> QED  BY <3>1, LockConstants, FS_Subset, HighestNumber
  <2>2. PICK t \in S : Wanted(t)[1] = "product" /\ Wanted(t)[2] = p
    BY <2>1
  <2>3. PICK u \in S : Ahead(slot[u].job, Wanted(t), Wanted(u))
    BY <1>3
  <2>4. Wanted(u)[1] = "product" /\ p < Wanted(u)[2]
    BY <1>7, <1>8, <2>2, <2>3 DEF Ahead
  <2>5. Wanted(u)[2] <= p /\ Wanted(u)[2] \in Nat /\ p \in Nat
    BY <1>2, <2>1, <2>2, <2>4, LockConstants
  <2> QED  BY <2>4, <2>5
<1>9. CASE Wanted(top)[1] # "product"
  <2>1. PICK u \in S : Blocks(u, top) /\ Ahead(slot[u].job, Wanted(top), Wanted(u))
    BY <1>3
  <2>2. Wanted(top)[1] = "earning" /\ Wanted(u)[1] = "earning" /\ Claims(slot[u].job)
    BY <1>7, <1>9, <2>1 DEF Ahead
  <2>3. PICK v \in S : Blocks(v, u) /\ Ahead(slot[v].job, Wanted(u), Wanted(v))
    BY <1>3
  <2>4. Claims(slot[v].job)
    BY <1>7, <2>2, <2>3 DEF Ahead
  <2> QED  BY <1>1, <2>2, <2>3, <2>4, NoCircleOfEarnings
<1> QED  BY <1>8, <1>9

-----------------------------------------------------------------------------
(* Theorems                                                                  *)

LEMMA WaitInvInductive ==
  ASSUME WaitInv, [Next]_vars
  PROVE  WaitInv'
<1>1. CASE UNCHANGED vars
  <2>1. slot' = slot /\ linked' = linked /\ open' = open
    BY <1>1 DEF vars
  <2> QED  BY <2>1 DEF WaitInv, SlotInv, Running, LocksExclude, DeskRows, EarningsOf,
              DecisionsStand, Claimed, HasOpenPayout, FreeEarnings
<1>2. CASE Next
  <2>1. PICK t \in Slots : Steps(t)
    BY <1>2 DEF Next, Steps
  <2>2. DOMAIN slot' = Slots
    BY <2>1, OthersStay DEF WaitInv
  <2>3. \A u \in Slots : Running(u)' => SlotInv(u)'
    BY <2>1, SlotsKept
  <2> QED  BY <2>1, <2>2, <2>3, ExclusionKept, DeskRowsKept, DecisionsKept DEF WaitInv
<1> QED  BY <1>1, <1>2

LEMMA WaitInvHolds == Spec => []WaitInv
<1>1. Init => WaitInv
  <2>1. SUFFICES ASSUME Init  PROVE WaitInv
    OBVIOUS
  <2>2. DOMAIN slot = Slots /\ \A t \in Slots : ~Running(t)
    BY <2>1 DEF Init, Running
  <2>3. DeskRows
    BY <2>1 DEF Init, DeskRows
  <2> QED  BY <2>2, <2>3 DEF WaitInv, LocksExclude, DecisionsStand
<1> QED  BY <1>1, WaitInvInductive, PTL DEF Spec

\* However many connections run at once, no set of their transactions waits in a
\* circle (the sorted products of checkout, release and delivery, and the order of
\* the statements of every handler).
THEOREM NeverDeadlocked == Spec => []NoDeadlock
BY WaitInvHolds, NoCircle, PTL

\* A payout transaction commits on what it read under its first lock
\* (requestPayout's lock of the profile, rejectPayout's guarded update).
THEOREM PayoutReadsStand == Spec => []DecisionsStand
<1>1. WaitInv => DecisionsStand
  BY DEF WaitInv
<1> QED  BY <1>1, WaitInvHolds, PTL

\* Connections and the desk keep their shape, and a row is never locked twice in
\* modes that conflict.
THEOREM LockShapes == Spec => []LockTypeOK
<1>1. WaitInv => LockTypeOK
  <2>1. \A s \in Seq(RowLocks) : s \in Seq(LockModes)
    BY DEF RowLocks
  <2>2. RowLocks \subseteq LockModes
    BY DEF RowLocks
  <2>3. SUFFICES ASSUME WaitInv  PROVE LockTypeOK
    OBVIOUS
  <2>4. ASSUME NEW t \in Slots, Running(t)
        PROVE  /\ slot[t].job \in Jobs /\ slot[t].decided \in BOOLEAN
               /\ slot[t].held \subseteq LockModes
               /\ slot[t].todo \in Seq(LockModes)
    BY <2>1, <2>2, <2>3, <2>4 DEF WaitInv, SlotInv
  <2> QED  BY <2>3, <2>4 DEF WaitInv, DeskRows, LocksExclude, LockTypeOK
<1> QED  BY <1>1, WaitInvHolds, PTL

=============================================================================

--------------------------- MODULE ProductCatalogue ---------------------------
(***************************************************************************)
(* One product between its seller, the moderators and the buyers.          *)
(*                                                                         *)
(* Every seller and moderator handler reads the product, decides, and then *)
(* writes by id what it decided; only a stock edit makes its write depend  *)
(* on the row still being as read.  Meanwhile checkouts and cancellations  *)
(* move the stock.                                                         *)
(***************************************************************************)
EXTENDS Integers, FiniteSets

CONSTANTS
  Clerks,    \* requests of the seller and the moderators in flight
  Edits,     \* the edits a seller may post
  MaxStock,  \* bound on products.quantity
  MaxSold,   \* bound on the units in orders
  None       \* an absent value

Stock == 0 .. MaxStock

\* UpdateProductDto: whether it touches the content, the quantity typed and the
\* one the form was loaded with; None: not in the payload.
Edit == [ text : BOOLEAN, quantity : Stock \cup { None }, expected : Stock \cup { None } ]

ASSUME CatalogueConstants ==
  /\ MaxStock \in Nat /\ MaxSold \in Nat
  /\ None \notin Int
  /\ Edits \subseteq Edit

VARIABLES
  product,   \* the row
  sold,      \* units in orders that still hold them
  ordered,   \* an order line has ever named the product
  request,   \* the handlers between their read and their write
  held,      \* history: suspended by a moderator, and none has decided since
  meant      \* history: the stock that sales, restocks and edits add up to

catalogueVars == << product, sold, ordered, request, held, meant >>

Statuses ==
  { "DRAFT", "PENDING_REVIEW", "ACTIVE", "REJECTED", "SUSPENDED", "ARCHIVED" }

\* "deleted": deletedAt is set.
Product == [ row : { "live", "deleted", "gone" }, status : Statuses, stock : Stock ]

SellerOps == { "edit", "withdraw", "restore", "archive", "submit", "purge" }
ModeratorOps ==
  { "approve", "reject", "suspend", "reinstate", "retire", "softDelete", "adminPurge" }
Ops == SellerOps \cup ModeratorOps

\* What a handler decided from its read.  None: the column is not written.
Plan ==
  [ status : Statuses \cup { None }, from : Stock \cup { None }, to : Stock \cup { None } ]

NoPlan == [ status |-> None, from |-> None, to |-> None ]

Idle == [ op |-> None, plan |-> NoPlan ]

-----------------------------------------------------------------------------
(* What the handlers decide                                                  *)

\* The statuses each handler accepts.
Accepts(op) ==
  CASE op = "edit"      -> Statuses \ { "ARCHIVED", "SUSPENDED" }
    [] op = "withdraw"  -> { "PENDING_REVIEW" }
    [] op = "restore"   -> { "ARCHIVED" }
    [] op = "submit"    -> { "DRAFT" }
    [] op = "approve"   -> { "PENDING_REVIEW" }
    [] op = "reject"    -> { "PENDING_REVIEW" }
    [] op = "suspend"   -> { "ACTIVE" }
    [] op = "reinstate" -> { "SUSPENDED", "ARCHIVED" }
    [] op = "retire"    -> Statuses \ { "ARCHIVED" }
    [] OTHER            -> Statuses

\* Both purges look at soft-deleted rows too; the administrator's looks for
\* order lines first.
Admits(op) ==
  /\ product.status \in Accepts(op)
  /\ product.row = "live" \/ (product.row = "deleted" /\ op \in { "purge", "adminPurge" })
  /\ op = "adminPurge" => ~ordered

StatusAfter(op) ==
  CASE op \in { "withdraw", "restore" } -> "DRAFT"
    [] op = "submit"                    -> "PENDING_REVIEW"
    [] op \in { "approve", "reinstate" } -> "ACTIVE"
    [] op = "reject"                    -> "REJECTED"
    [] op = "suspend"                   -> "SUSPENDED"
    [] op \in { "archive", "retire" }   -> "ARCHIVED"
    [] OTHER                            -> None

Or(value, default) == IF value = None THEN default ELSE value

\* An edit of the content sends a product on sale back to review; any edit of
\* a rejected one makes it a draft.
StatusEdited(e) ==
  IF product.status = "ACTIVE" /\ e.text THEN "PENDING_REVIEW"
  ELSE IF product.status = "REJECTED" THEN "DRAFT"
  ELSE None

\* A quantity equal to the one the form was loaded with is not an edit.
WritesStock(e) == e.quantity # None /\ e.quantity # e.expected

PlanOf(e) ==
  [ status |-> StatusEdited(e),
    from |-> IF WritesStock(e) THEN Or(e.expected, product.stock) ELSE None,
    to |-> IF WritesStock(e) THEN e.quantity ELSE None ]

-----------------------------------------------------------------------------
(* Reads: the first half of every handler                                    *)

\* Leaf category, brand and discount may refuse it too: it is not posted then.
ReadsEdit(c, e) ==
  /\ request[c] = Idle
  /\ Admits("edit")
  /\ request' = [request EXCEPT ![c] = [ op |-> "edit", plan |-> PlanOf(e) ]]
  /\ UNCHANGED << product, sold, ordered, held, meant >>

Reads(c, op) ==
  /\ request[c] = Idle
  /\ Admits(op)
  /\ request' = [request EXCEPT ![c] =
       [ op |-> op, plan |-> [ NoPlan EXCEPT !.status = StatusAfter(op) ]]]
  /\ UNCHANGED << product, sold, ordered, held, meant >>

-----------------------------------------------------------------------------
(* Writes: the second half                                                   *)

Done(c) == request' = [request EXCEPT ![c] = Idle]

\* Variant: the typed quantity is written whatever the stock has become.
StockAsRead_Ignored(plan) == TRUE

\* The stock write matches the row only if it still holds what was read.
StockAsRead(plan) ==
  plan.to # None => product.row = "live" /\ product.stock = plan.from

Changed(plan) ==
  [ product EXCEPT !.status = Or(plan.status, @), !.stock = Or(plan.to, @) ]

\* One transaction: the stock first, then the rest by id.
WritesEdit(c) ==
  LET plan == request[c].plan IN
  /\ request[c].op = "edit"
  /\ product.row # "gone" /\ StockAsRead(plan)
  /\ product' = Changed(plan)
  /\ meant' = IF plan.to = None THEN meant ELSE meant + plan.to - plan.from
  /\ Done(c)
  /\ UNCHANGED << sold, ordered, held >>

StatusOps == Ops \ { "edit", "purge", "adminPurge", "softDelete" }

WritesStatus(c) ==
  /\ request[c].op \in StatusOps
  /\ product.row # "gone"
  /\ product' = Changed(request[c].plan)
  /\ held' = IF request[c].op \in ModeratorOps THEN request[c].op = "suspend" ELSE held
  /\ Done(c)
  /\ UNCHANGED << sold, ordered, meant >>

WritesDeletion(c) ==
  /\ request[c].op = "softDelete"
  /\ product.row # "gone"
  /\ product' = [product EXCEPT !.row = "deleted"]
  /\ Done(c)
  /\ UNCHANGED << sold, ordered, held, meant >>

\* Variant: only the administrator's earlier count protects ordered products.
Deletable_AsCounted == TRUE

\* order_items names its product ON DELETE RESTRICT.
Deletable == ~ordered

Purges(c) ==
  /\ request[c].op \in { "purge", "adminPurge" }
  /\ product.row # "gone" /\ Deletable
  /\ product' = [product EXCEPT !.row = "gone"]
  /\ Done(c)
  /\ UNCHANGED << sold, ordered, held, meant >>

\* A conflict, a vanished row, a restricted delete, an error: nothing written.
Fails(c) ==
  /\ request[c] # Idle
  /\ Done(c)
  /\ UNCHANGED << product, sold, ordered, held, meant >>

-----------------------------------------------------------------------------
(* Orders                                                                    *)

\* Variant: a sale does not look at the quantity it decrements.
InStock_Unread == TRUE

InStock == product.stock >= 1

\* takeStock in a checkout that commits.
Sells ==
  /\ product.row = "live" /\ product.status = "ACTIVE" /\ InStock
  /\ sold < MaxSold
  /\ product' = [product EXCEPT !.stock = @ - 1]
  /\ sold' = sold + 1 /\ ordered' = TRUE /\ meant' = meant - 1
  /\ UNCHANGED << request, held >>

\* releaseOrderStockHold: whatever the status of the product.
Restocks ==
  /\ sold > 0 /\ product.stock < MaxStock
  /\ product' = [product EXCEPT !.stock = @ + 1]
  /\ sold' = sold - 1 /\ meant' = meant + 1
  /\ UNCHANGED << ordered, request, held >>

-----------------------------------------------------------------------------

\* A product as create leaves it.
CatalogueInit ==
  /\ product = [ row |-> "live", status |-> "DRAFT", stock |-> MaxStock ]
  /\ sold = 0 /\ ordered = FALSE
  /\ request = [c \in Clerks |-> Idle]
  /\ held = FALSE
  /\ meant = product.stock

CatalogueNext ==
  \/ \E c \in Clerks :
       \/ \E e \in Edits : ReadsEdit(c, e)
       \/ \E op \in Ops \ { "edit" } : Reads(c, op)
       \/ WritesEdit(c) \/ WritesStatus(c) \/ WritesDeletion(c) \/ Purges(c)
       \/ Fails(c)
  \/ Sells \/ Restocks

CatalogueSpec == CatalogueInit /\ [][CatalogueNext]_catalogueVars

-----------------------------------------------------------------------------
(* Properties                                                                *)

\* Shapes of the row and the requests; the stock stays within its bounds.
CatalogueTypeOK ==
  /\ product \in Product
  /\ sold \in 0 .. MaxSold /\ ordered \in BOOLEAN
  /\ request \in [Clerks -> [ op : Ops \cup { None }, plan : Plan ]]
  /\ held \in BOOLEAN
  /\ meant \in Int

\* A seller who types a quantity while orders move the stock erases none of
\* their units: the stock is what the sales, the restocks and the differences
\* the sellers saw when they typed add up to (update, its conditional write).
StockEditsKeepSales == product.stock = meant

\* A product that an order names is never hard-deleted, also when the order
\* arrives after the administrator counted none (hardDeleteProduct).  The comment
\* of the seller's hardDelete expects more: past orders that live on "even after
\* the source product is gone".  The foreign key has the last word: that purge
\* fails (Fails), and the seller is told of an internal error.
OrderedProductKeepsItsRow == ordered => product.row # "gone"

\* "Admin-suspended products are NOT seller-restorable": restore brings back no
\* product that a moderator suspended and none has released (restore, archive).
SuspendedNotRestored ==
  [][ \A c \in Clerks :
        request[c].op = "restore" /\ request'[c] = Idle /\ product' # product => ~held ]_catalogueVars

=============================================================================

------------------------------- MODULE Taxonomy -------------------------------
(***************************************************************************)
(* The category tree as administrators edit it.                            *)
(*                                                                         *)
(* Nothing stores that a category is a leaf: its characteristics are       *)
(* served, and products may be listed in it, exactly while it has no       *)
(* child.  So each edit is guarded by what it does to its neighbours.      *)
(* A guard reads the tree, then the rows that hang on it; the edit is      *)
(* written by id in a later statement, with no lock: whatever other edits  *)
(* were written in between.                                                *)
(***************************************************************************)
EXTENDS Integers, FiniteSets

CONSTANTS
  TreeEdits,  \* edits of the tree and of what hangs on it that may be asked for
  MaxNode,    \* bound on the categories, numbered as they are created
  MaxAtStart, \* bound on the categories, the carrying and the holding ones at the start
  MaxDepth,   \* MAX_CATEGORY_DEPTH, 3 in the code
  Top         \* the absent parent

Nodes == 1 .. MaxNode

ASSUME TaxonomyConstants ==
  /\ MaxNode \in Nat /\ MaxAtStart \in Nat /\ MaxDepth \in Nat \ {0}
  /\ Top \notin Nat

VARIABLES
  node,      \* categories: whether the row is there or soft-deleted
  parent,    \* parentCategoryId
  carries,   \* categories with product_attributes rows
  holds,     \* categories with products that are neither archived nor deleted
  treeEdit,  \* the edits
  inTurn,    \* history: no edit was written after others wrote since its read
  crossed    \* history: a move was written after another move since its read

treeVars == << node, parent, carries, holds >>
taxonomyVars == << node, parent, carries, holds, treeEdit, inTurn, crossed >>

\* bare, vacant: the categories that must have no characteristics, no products;
\* of a deletion, vacant are those that go.  sure, straight: nothing, no move was
\* written by others since the read.
TreeEdit ==
  [ phase : { "unsent", "read", "counted", "done" },
    op : { "none", "create", "move", "delete", "describe", "list" },
    of : Nodes \cup { Top }, to : Nodes \cup { Top },
    bare : SUBSET Nodes, vacant : SUBSET Nodes, sure : BOOLEAN, straight : BOOLEAN ]

AtRest(phase) ==
  [ phase |-> phase, op |-> "none", of |-> Top, to |-> Top,
    bare |-> {}, vacant |-> {}, sure |-> TRUE, straight |-> TRUE ]

InFlight(e) == treeEdit[e].phase \in { "read", "counted" }

Present == { n \in Nodes : node[n] = "live" }

Children(n) == { c \in Present : parent[c] = n }

IsLeaf(n) == n \in Present /\ Children(n) = {}

\* One does not leave s by going up.
Closed(s) == \A m \in s : parent[m] \in s \/ parent[m] = Top \/ parent[m] \notin Present

Line(n) == { m \in Present : \A s \in SUBSET Present : n \in s /\ m \notin s => ~Closed(s) }

\* On a circle the code counts one category twice; nothing is stated of a tree
\* that has one.
DepthOf(n) == Cardinality(Line(n))

Subtree(n) == { m \in Present : n \in Line(m) }

-----------------------------------------------------------------------------
(* What the guards ask                                                       *)

\* Guard A: what a leaf serves or holds keeps it a leaf.
LeafMade(p) == { q \in { p } : IsLeaf(q) }

\* Variant: characteristics that are hidden do not count.
LeafLeft_Hidden(n) == {}

\* Guard B: hidden characteristics keep a category from becoming a leaf.
LeafLeft(n) == { q \in Present : Children(q) = { n } }

\* Guard C.
UnderItself(n, p) == n \in Line(p)

\* Guard D: with everything beneath it.
Fits(n, p) ==
  LET shift == (IF p = Top THEN 0 ELSE DepthOf(p)) + 1 - DepthOf(n) IN
  \A m \in Subtree(n) : DepthOf(m) + shift <= MaxDepth

\* create looks two levels up.
RoomBelow(p) ==
  ~ /\ parent[p] \in Present
    /\ parent[parent[p]] # Top

MayCreate(p) == p # Top => p \in Present /\ RoomBelow(p)

\* Variant: as before guards C and D, only the depth of the target counts.
MayMove_TargetOnly(n, p) ==
  n \in Present /\ p # parent[n] /\ (p # Top => p \in Present /\ DepthOf(p) < MaxDepth)

MayMove(n, p) ==
  /\ n \in Present /\ p # parent[n]
  /\ p # Top => p \in Present /\ ~UnderItself(n, p)
  /\ Fits(n, p)

\* softDelete takes two levels with it.
Beneath(n) == { n } \cup Children(n) \cup UNION { Children(c) : c \in Children(n) }

-----------------------------------------------------------------------------
(* Reads                                                                     *)

\* The first of those still to come; which one it is makes no difference.
NextEdit == CHOOSE e \in TreeEdits : treeEdit[e].phase = "unsent"

ToCome(e) == treeEdit[e].phase = "unsent" /\ e = NextEdit

\* An edit that has nothing to count goes straight to its write.
ReadsTree(e, op, n, p, bare, vacant) ==
  /\ treeEdit' = [treeEdit EXCEPT ![e] =
       [ phase |-> IF bare \cup vacant = {} THEN "counted" ELSE "read",
         op |-> op, of |-> n, to |-> p, bare |-> bare, vacant |-> vacant,
         sure |-> TRUE, straight |-> TRUE ]]
  /\ UNCHANGED << treeVars, inTurn, crossed >>

AsksForChild(e, p) ==
  /\ ToCome(e) /\ MayCreate(p)
  /\ ReadsTree(e, "create", Top, p, LeafMade(p), LeafMade(p))

\* update with another parent.
AsksToMove(e, n, p) ==
  /\ ToCome(e) /\ MayMove(n, p)
  /\ ReadsTree(e, "move", n, p, LeafMade(p) \cup LeafLeft(n), LeafMade(p))

AsksToDelete(e, n) ==
  /\ ToCome(e) /\ n \in Present
  /\ ReadsTree(e, "delete", n, Top, LeafLeft(n), Beneath(n))

\* createAttribute, and the product forms with assertLeafCategory.
AsksOfLeaf(e, op, n) ==
  /\ ToCome(e) /\ IsLeaf(n)
  /\ ReadsTree(e, op, n, Top, {}, {})

\* countAttributes, countBlockingProducts, and the count of softDelete.
CountsRows(e) ==
  /\ treeEdit[e].phase = "read"
  /\ treeEdit[e].bare \cap carries = {} /\ treeEdit[e].vacant \cap holds = {}
  /\ treeEdit' = [treeEdit EXCEPT ![e].phase = "counted"]
  /\ UNCHANGED << treeVars, inTurn, crossed >>

-----------------------------------------------------------------------------
(* Writes                                                                    *)

\* The end of e, seen by the edits still in flight.
Written(e) ==
  /\ treeEdit' = [d \in TreeEdits |->
       IF d = e THEN AtRest("done")
       ELSE IF InFlight(d)
            THEN [ treeEdit[d] EXCEPT
                     !.sure = FALSE,
                     !.straight = @ /\ ~(treeEdit[e].op = "move" /\ treeEdit[d].op = "move") ]
            ELSE treeEdit[d]]
  /\ inTurn' = (inTurn /\ treeEdit[e].sure)
  /\ crossed' = (crossed \/ (treeEdit[e].op = "move" /\ ~treeEdit[e].straight))

Creates(e, n) ==
  /\ treeEdit[e].op = "create" /\ treeEdit[e].phase = "counted"
  /\ node[n] = "none" /\ \A m \in 1 .. n - 1 : node[m] # "none"
  /\ node' = [node EXCEPT ![n] = "live"]
  /\ parent' = [parent EXCEPT ![n] = treeEdit[e].to]
  /\ UNCHANGED << carries, holds >>
  /\ Written(e)

Moves(e) ==
  /\ treeEdit[e].op = "move" /\ treeEdit[e].phase = "counted"
  /\ parent' = [parent EXCEPT ![treeEdit[e].of] = treeEdit[e].to]
  /\ UNCHANGED << node, carries, holds >>
  /\ Written(e)

\* The subtree as it was read.
Deletes(e) ==
  /\ treeEdit[e].op = "delete" /\ treeEdit[e].phase = "counted"
  /\ node' = [m \in Nodes |-> IF m \in treeEdit[e].vacant THEN "deleted" ELSE node[m]]
  /\ UNCHANGED << parent, carries, holds >>
  /\ Written(e)

CreatesAttribute(e) ==
  /\ treeEdit[e].op = "describe" /\ treeEdit[e].phase = "counted"
  /\ carries' = carries \cup { treeEdit[e].of }
  /\ UNCHANGED << node, parent, holds >>
  /\ Written(e)

ListsProduct(e) ==
  /\ treeEdit[e].op = "list" /\ treeEdit[e].phase = "counted"
  /\ holds' = holds \cup { treeEdit[e].of }
  /\ UNCHANGED << node, parent, carries >>
  /\ Written(e)

\* The last one of the category; one that products use is refused.
DeletesAttribute(e, n) ==
  /\ ToCome(e) /\ n \in carries
  /\ carries' = carries \ { n }
  /\ UNCHANGED << node, parent, holds >>
  /\ Written(e)

\* restore of an archived product asks nothing of its category; in a deleted one
\* it is lost to the shop.
RestoresProduct(e, n) ==
  /\ ToCome(e) /\ n \in Present
  /\ holds' = holds \cup { n }
  /\ UNCHANGED << node, parent, carries >>
  /\ Written(e)

RetiresProducts(e, n) ==
  /\ ToCome(e) /\ n \in holds
  /\ holds' = holds \ { n }
  /\ UNCHANGED << node, parent, carries >>
  /\ Written(e)

\* A count that refuses, an error or a crash.
EditFails(e) ==
  /\ InFlight(e)
  /\ treeEdit' = [treeEdit EXCEPT ![e] = AtRest("done")]
  /\ UNCHANGED << treeVars, inTurn, crossed >>

-----------------------------------------------------------------------------

\* Every live category can be reached from a root within MaxDepth levels.
Forest ==
  \A n \in Present :
    LET line == Line(n) IN
    Cardinality(line) <= MaxDepth /\ \E root \in line : parent[root] = Top

\* The tree that came with the shop, numbered level by level, with its products and
\* with characteristics that older versions left on inner categories.
TaxonomyInit ==
  /\ \E n \in 0 .. MaxNode : node = [m \in Nodes |-> IF m <= n THEN "live" ELSE "none"]
  /\ parent \in [Nodes -> Nodes \cup { Top }]
  /\ \A n \in Nodes : parent[n] \in { Top } \cup { m \in Present : m < n /\ n \in Present }
  /\ \A n \in Present : \A m \in 1 .. n - 1 :
       ~(parent[m] # Top /\ (parent[n] = Top \/ parent[n] < parent[m]))
  /\ Forest
  /\ carries \in SUBSET Present /\ holds \in SUBSET { n \in Present : IsLeaf(n) }
  /\ Cardinality(Present) + Cardinality(carries) + Cardinality(holds) <= MaxAtStart
  /\ treeEdit = [e \in TreeEdits |-> AtRest("unsent")]
  /\ inTurn = TRUE /\ crossed = FALSE

TaxonomyNext ==
  \E e \in TreeEdits :
    \/ CountsRows(e) \/ Moves(e) \/ Deletes(e) \/ CreatesAttribute(e) \/ ListsProduct(e)
    \/ EditFails(e)
    \/ \E p \in Nodes \cup { Top } : AsksForChild(e, p)
    \/ \E n \in Nodes :
         \/ \E p \in Nodes \cup { Top } : AsksToMove(e, n, p)
         \/ \E op \in { "describe", "list" } : AsksOfLeaf(e, op, n)
         \/ AsksToDelete(e, n) \/ Creates(e, n) \/ DeletesAttribute(e, n)
         \/ RestoresProduct(e, n) \/ RetiresProducts(e, n)

TaxonomySpec == TaxonomyInit /\ [][TaxonomyNext]_taxonomyVars

-----------------------------------------------------------------------------
(* Properties                                                                *)

TaxonomyTypeOK ==
  /\ node \in [Nodes -> { "none", "live", "deleted" }]
  /\ parent \in [Nodes -> Nodes \cup { Top }]
  /\ carries \subseteq Nodes /\ holds \subseteq Nodes
  /\ treeEdit \in [TreeEdits -> TreeEdit]
  /\ inTurn \in BOOLEAN /\ crossed \in BOOLEAN

Serving == { n \in carries : IsLeaf(n) }

\* No category starts or stops to serve characteristics that it carries before
\* and after the step, and a leaf that holds products stays one.
LeavesStand ==
  /\ LET kept == { n \in carries \cap carries' : node'[n] = "live" } IN
     Serving' \cap kept = Serving \cap kept
  /\ \A n \in holds : IsLeaf(n) => IsLeaf(n)'

\* "An admin structural edit may not change WHICH categories serve
\* characteristics, and must leave the tree an acyclic forest of depth <= 3", nor
\* may it take the leaf away from under a product somebody works with: so it is as
\* long as no edit is written after others wrote since it read the tree.
EditsInTurnKeepTheTree ==
  [](inTurn => Forest) /\ [][inTurn' => LeavesStand]_taxonomyVars

\* Nothing of the live tree hangs on itself ("must leave the tree an acyclic
\* forest"; the guard against moves under a category's own subtree).
NoCircle == \A s \in SUBSET Present : s # {} => \E m \in s : parent[m] \notin s

\* However edits cross, a circle takes two moves, the later of which read the tree
\* before the earlier was written: creations and deletions in between, also of the
\* categories the move names, close none.
CirclesTakeCrossingMoves == ~crossed => NoCircle

=============================================================================

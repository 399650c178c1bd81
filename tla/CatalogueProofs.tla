---------------------------- MODULE CatalogueProofs ----------------------------
(***************************************************************************)
(* Proofs about a product, about the pictures of products and about their  *)
(* reviews, for any requests, edits and bounds.                            *)
(***************************************************************************)
EXTENDS ProductCatalogue, ProductAssets, Reviews, FiniteSetTheorems, TLAPS

-----------------------------------------------------------------------------
(* One product                                                               *)

\* Only an edit plans a write of the stock, and it then knows what it read.
PlansKnowTheStock ==
  \A c \in Clerks :
    request[c].plan.to # None =>
      /\ request[c].op = "edit"
      /\ request[c].plan.from # None

CatalogueInv ==
  CatalogueTypeOK /\ PlansKnowTheStock /\ StockEditsKeepSales /\ OrderedProductKeepsItsRow

LEMMA CatalogueInitially == CatalogueInit => CatalogueInv
<1> SUFFICES ASSUME CatalogueInit  PROVE CatalogueInv
  OBVIOUS
<1> USE CatalogueConstants
<1>1. NoPlan \in Plan
  BY DEF NoPlan, Plan
<1>2. Idle \in [ op : Ops \cup { None }, plan : Plan ] /\ MaxStock \in Stock
  BY <1>1 DEF Idle, Stock
<1>3. product \in Product /\ product.stock \in Int
  BY <1>2 DEF CatalogueInit, Product, Statuses, Stock
<1>4. CatalogueTypeOK
  <2>1. request \in [Clerks -> [ op : Ops \cup { None }, plan : Plan ]]
    BY <1>2 DEF CatalogueInit
  <2>2. meant \in Int
    BY <1>3 DEF CatalogueInit
  <2>3. sold \in 0 .. MaxSold
    BY DEF CatalogueInit
  <2>4. ordered \in BOOLEAN /\ held \in BOOLEAN
    BY Zenon DEF CatalogueInit
  <2> QED  BY <1>3, <2>1, <2>2, <2>3, <2>4 DEF CatalogueTypeOK
<1>5. PlansKnowTheStock
  BY DEF CatalogueInit, PlansKnowTheStock, Idle, NoPlan
<1>6. StockEditsKeepSales /\ OrderedProductKeepsItsRow
  BY DEF CatalogueInit, StockEditsKeepSales, OrderedProductKeepsItsRow
<1> QED  BY <1>4, <1>5, <1>6 DEF CatalogueInv

\* A handler that has read leaves a plan of its own.
LEMMA EditReadsStep ==
  ASSUME CatalogueInv, NEW c \in Clerks,
         \/ \E e \in Edits : ReadsEdit(c, e)
         \/ \E op \in Ops \ { "edit" } : Reads(c, op)
  PROVE  CatalogueInv'
<1> USE CatalogueConstants
<1>1. CASE \E e \in Edits : ReadsEdit(c, e)
  <2>1. PICK e \in Edits : ReadsEdit(c, e)
    BY <1>1
  <2>2. e \in Edit /\ product.stock \in Stock /\ product.stock # None
    BY DEF CatalogueInv, CatalogueTypeOK, Product, Stock
  <2>3. PlanOf(e) \in Plan /\ (PlanOf(e).to # None => PlanOf(e).from # None)
    BY <2>2 DEF PlanOf, Plan, StatusEdited, WritesStock, Or, Edit, Statuses
  <2> QED
    BY <2>1, <2>3 DEF ReadsEdit, CatalogueInv, CatalogueTypeOK, PlansKnowTheStock,
          StockEditsKeepSales, OrderedProductKeepsItsRow, Ops, SellerOps
<1>2. CASE \E op \in Ops \ { "edit" } : Reads(c, op)
  <2>1. PICK op \in Ops \ { "edit" } : Reads(c, op)
    BY <1>2
  <2>2. StatusAfter(op) \in Statuses \cup { None }
    BY DEF StatusAfter, Statuses
  <2>3. /\ [ NoPlan EXCEPT !.status = StatusAfter(op) ] \in Plan
        /\ [ NoPlan EXCEPT !.status = StatusAfter(op) ].to = None
    BY <2>2 DEF NoPlan, Plan
  <2> QED
    BY <2>1, <2>3 DEF Reads, CatalogueInv, CatalogueTypeOK, PlansKnowTheStock,
          StockEditsKeepSales, OrderedProductKeepsItsRow
<1> QED  BY <1>1, <1>2

\* A request that ends takes its plan with it.
LEMMA DoneKeepsRequests ==
  ASSUME CatalogueInv, NEW c \in Clerks, Done(c)
  PROVE  /\ request' \in [Clerks -> [ op : Ops \cup { None }, plan : Plan ]]
         /\ PlansKnowTheStock'
<1>1. Idle \in [ op : Ops \cup { None }, plan : Plan ] /\ Idle.plan.to = None
  BY DEF Idle, NoPlan, Plan
<1> QED  BY <1>1 DEF Done, CatalogueInv, CatalogueTypeOK, PlansKnowTheStock

LEMMA ChangedShape ==
  ASSUME CatalogueInv, NEW plan \in Plan
  PROVE  /\ Changed(plan) \in Product
         /\ Changed(plan).row = product.row
         /\ plan.to = None => Changed(plan).stock = product.stock
         /\ plan.to # None => Changed(plan).stock = plan.to
BY DEF Changed, Or, CatalogueInv, CatalogueTypeOK, Product, Plan

LEMMA EditWritesStep ==
  ASSUME CatalogueInv, NEW c \in Clerks,
         WritesEdit(c) \/ WritesStatus(c) \/ WritesDeletion(c) \/ Purges(c) \/ Fails(c)
  PROVE  CatalogueInv'
<1> USE CatalogueConstants
<1> DEFINE plan == request[c].plan
<1>1. /\ plan \in Plan
      /\ plan.to # None => request[c].op = "edit" /\ plan.to \in Int
    BY DEF CatalogueInv, CatalogueTypeOK, PlansKnowTheStock, Plan, Stock
<1>2. Done(c)
  BY DEF WritesEdit, WritesStatus, WritesDeletion, Purges, Fails
<1>3. CASE WritesEdit(c)
  <2>1. product' = Changed(plan) /\ StockAsRead(plan)
        /\ meant' = (IF plan.to = None THEN meant ELSE meant + plan.to - plan.from)
        /\ UNCHANGED << sold, ordered, held >>
        /\ product.row # "gone"
    BY <1>3 DEF WritesEdit
  <2>2. meant' \in Int /\ product'.stock = meant'
    BY <1>1, <2>1, ChangedShape
       DEF StockAsRead, CatalogueInv, StockEditsKeepSales, CatalogueTypeOK, Product, Stock
  <2> QED
    BY <1>1, <1>2, <2>1, <2>2, ChangedShape, DoneKeepsRequests
       DEF CatalogueInv, CatalogueTypeOK, StockEditsKeepSales, OrderedProductKeepsItsRow
<1>4. CASE WritesStatus(c)
  <2>1. plan.to = None /\ held' \in BOOLEAN
    BY <1>1, <1>4 DEF WritesStatus, StatusOps, CatalogueInv, CatalogueTypeOK
  <2> QED
    BY <1>1, <1>2, <1>4, <2>1, ChangedShape, DoneKeepsRequests
       DEF WritesStatus, CatalogueInv, CatalogueTypeOK, StockEditsKeepSales,
           OrderedProductKeepsItsRow
<1>5. CASE WritesDeletion(c) \/ Purges(c)
  BY <1>2, <1>5, DoneKeepsRequests
     DEF WritesDeletion, Purges, Deletable, CatalogueInv, CatalogueTypeOK, Product,
         StockEditsKeepSales, OrderedProductKeepsItsRow
<1>6. CASE Fails(c)
  BY <1>2, <1>6, DoneKeepsRequests
     DEF Fails, CatalogueInv, CatalogueTypeOK, StockEditsKeepSales, OrderedProductKeepsItsRow
<1> QED  BY <1>3, <1>4, <1>5, <1>6

LEMMA OrdersStep ==
  ASSUME CatalogueInv, Sells \/ Restocks
  PROVE  CatalogueInv'
<1> USE CatalogueConstants
<1>1. CatalogueTypeOK' /\ StockEditsKeepSales'
  <2>1. product \in Product /\ product.stock \in 0 .. MaxStock /\ product.stock = meant
    BY DEF CatalogueInv, CatalogueTypeOK, Product, Stock, StockEditsKeepSales
  <2>2. \/ product.stock' = product.stock - 1 /\ product.stock' \in Stock
        \/ product.stock' = product.stock + 1 /\ product.stock' \in Stock
    BY <2>1 DEF Sells, Restocks, InStock, Product, Stock
  <2>3. product' \in Product /\ meant' \in Int /\ product'.stock = meant'
    BY <2>1, <2>2 DEF Sells, Restocks, InStock, Product, Stock
  <2>4. sold' \in 0 .. MaxSold
    BY DEF Sells, Restocks, CatalogueInv, CatalogueTypeOK
  <2> QED
    BY <2>3, <2>4 DEF Sells, Restocks, CatalogueInv, CatalogueTypeOK, StockEditsKeepSales
<1>2. PlansKnowTheStock'
  BY DEF Sells, Restocks, CatalogueInv, PlansKnowTheStock
<1>3. OrderedProductKeepsItsRow'
  BY DEF Sells, Restocks, CatalogueInv, CatalogueTypeOK, Product, OrderedProductKeepsItsRow
<1> QED  BY <1>1, <1>2, <1>3 DEF CatalogueInv

LEMMA CatalogueStep ==
  ASSUME CatalogueInv, [CatalogueNext]_catalogueVars
  PROVE  CatalogueInv'
<1>1. CASE UNCHANGED catalogueVars
  BY <1>1 DEF catalogueVars, CatalogueInv, CatalogueTypeOK, PlansKnowTheStock,
              StockEditsKeepSales, OrderedProductKeepsItsRow
<1> QED  BY <1>1, EditReadsStep, EditWritesStep, OrdersStep DEF CatalogueNext

LEMMA CatalogueInvariant == CatalogueSpec => []CatalogueInv
BY CatalogueInitially, CatalogueStep, PTL DEF CatalogueSpec

\* However sellers' edits, moderators' decisions, sales and restocks interleave,
\* a typed quantity erases no unit that an order moved meanwhile (update).
THEOREM EditsKeepSales == CatalogueSpec => []StockEditsKeepSales
<1>1. CatalogueInv => StockEditsKeepSales
  BY DEF CatalogueInv
<1> QED  BY <1>1, CatalogueInvariant, PTL

\* No purge removes a product that an order names (hardDelete, hardDeleteProduct).
THEOREM OrderedProductsStay == CatalogueSpec => []OrderedProductKeepsItsRow
<1>1. CatalogueInv => OrderedProductKeepsItsRow
  BY DEF CatalogueInv
<1> QED  BY <1>1, CatalogueInvariant, PTL

-----------------------------------------------------------------------------
(* The pictures of products                                                  *)

\* The files that deletions are about to destroy.
Doomed(f) == \E w \in Workers : job[w].phase = "condemned" /\ f \in job[w].files

\* A file that an early row names is there, and nothing is about to destroy it.
NamedFilesAreSafe == \A i \in image : ~i.late => i.file \in kept /\ ~Doomed(i.file)

FilesInv == AssetsTypeOK /\ NamedFilesAreSafe

LEMMA CondemnedIsDoomed == \A f : f \in Condemned <=> Doomed(f)
BY DEF Condemned, Doomed

\* What To and Ends do to the requests.
LEMMA JobWrites ==
  ASSUME AssetsTypeOK, NEW w \in Workers, NEW j \in Job, job' = [job EXCEPT ![w] = j]
  PROVE  /\ job' \in [Workers -> Job]
         /\ job'[w] = j
         /\ \A v \in Workers \ { w } : job'[v] = job[v]
         /\ \A f : Doomed(f)' => Doomed(f) \/ (j.phase = "condemned" /\ f \in j.files)
BY DEF AssetsTypeOK, Doomed

LEMMA ToWrites ==
  ASSUME AssetsTypeOK, NEW w \in Workers,
         NEW phase \in { "counted", "stored", "copying", "removed", "condemned" },
         NEW p \in Goods \cup { NoGood }, NEW files \in SUBSET Files,
         To(w, phase, p, files)
  PROVE  /\ job' \in [Workers -> Job]
         /\ job'[w] = [ phase |-> phase, of |-> p, files |-> files ]
         /\ \A v \in Workers \ { w } : job'[v] = job[v]
         /\ \A f : Doomed(f)' => Doomed(f) \/ (phase = "condemned" /\ f \in files)
<1>1. [ phase |-> phase, of |-> p, files |-> files ] \in Job
  BY DEF Job
<1> QED  BY <1>1, JobWrites, ZenonT(40) DEF To

LEMMA EndsIsAJob == NoJob \in Job
BY DEF NoJob, Job

\* Steps that only note something in a request.
LEMMA NotesStep ==
  ASSUME FilesInv, NEW w \in Workers,
         \E p \in Goods : CountsImages(w, p) \/ ReadsSource(w, p)
  PROVE  FilesInv'
<1>1. PICK p \in Goods : CountsImages(w, p) \/ ReadsSource(w, p)
  OBVIOUS
<1>2. FilesOf(p) \subseteq Files
  BY DEF FilesOf, ImagesOf, FilesInv, AssetsTypeOK, Image
<1>3. job' \in [Workers -> Job] /\ \A f : Doomed(f)' => Doomed(f)
  <2>1. \/ To(w, "counted", p, {})
        \/ To(w, "copying", p, FilesOf(p))
    BY <1>1 DEF CountsImages, ReadsSource
  <2>2. /\ {} \in SUBSET Files /\ FilesOf(p) \in SUBSET Files
        /\ p \in Goods \cup { NoGood } /\ AssetsTypeOK
    BY <1>2 DEF FilesInv
  <2> QED  BY <2>1, <2>2, ToWrites
<1> QED
  BY <1>1, <1>3 DEF CountsImages, ReadsSource, FilesInv, AssetsTypeOK, NamedFilesAreSafe

LEMMA FileStoresStep ==
  ASSUME FilesInv, NEW w \in Workers, NEW f \in Files, StoresFile(w, f)
  PROVE  FilesInv'
<1>1. job[w].of \in Goods \cup { NoGood }
  BY DEF FilesInv, AssetsTypeOK, Job
<1>2. job' \in [Workers -> Job] /\ \A g : Doomed(g)' => Doomed(g)
  <2>1. To(w, "stored", job[w].of, { f })
    BY DEF StoresFile
  <2>2. { f } \in SUBSET Files /\ AssetsTypeOK
    BY DEF FilesInv
  <2> QED  BY <1>1, <2>1, <2>2, ToWrites
<1> QED
  BY <1>2 DEF StoresFile, FilesInv, AssetsTypeOK, NamedFilesAreSafe

\* A row is late exactly when its file is not safe.
LEMMA InsertsStep ==
  ASSUME FilesInv, NEW w \in Workers,
         InsertsImage(w) \/ \E q \in Goods : InsertsClone(w, q)
  PROVE  FilesInv'
<1>1. PICK p \in Goods : image' = image \cup { Row(p, f) : f \in job[w].files }
  BY DEF InsertsImage, InsertsClone, FilesInv, AssetsTypeOK
<1>2. job[w].files \subseteq Files
  BY DEF FilesInv, AssetsTypeOK, Job
<1>3. \A f \in job[w].files :
         Row(p, f) \in Image /\ (~Row(p, f).late => f \in kept /\ ~Doomed(f)) /\ Row(p, f).file = f
  BY <1>2, CondemnedIsDoomed DEF Row, Late, Image
<1>4. job' = [job EXCEPT ![w] = NoJob] /\ UNCHANGED << kept, taken >>
  BY DEF InsertsImage, InsertsClone, Ends
<1>5. AssetsTypeOK'
  <2>1. image' \subseteq Image
    BY <1>1, <1>3 DEF FilesInv, AssetsTypeOK
  <2>2. goods' \subseteq born' /\ born' \subseteq Goods
    BY DEF InsertsImage, InsertsClone, FilesInv, AssetsTypeOK
  <2> QED  BY <1>4, <2>1, <2>2, JobWrites, EndsIsAJob DEF FilesInv, AssetsTypeOK
<1>6. \A f : Doomed(f)' => Doomed(f)
  BY <1>4, JobWrites, EndsIsAJob DEF FilesInv, NoJob
<1>7. NamedFilesAreSafe'
  BY <1>1, <1>3, <1>4, <1>6 DEF FilesInv, NamedFilesAreSafe
<1> QED  BY <1>5, <1>7 DEF FilesInv

LEMMA DeletesStep ==
  ASSUME FilesInv, NEW w \in Workers,
         \/ \E i \in image : DeletesImage(w, i)
         \/ \E ps \in SUBSET goods : DeletesGoods(w, ps)
  PROVE  FilesInv'
<1>1. PICK files \in SUBSET Files : To(w, "removed", NoGood, files)
  <2>1. ASSUME NEW i \in image, DeletesImage(w, i)
        PROVE  To(w, "removed", NoGood, { i.file }) /\ { i.file } \in SUBSET Files
    BY <2>1 DEF DeletesImage, FilesInv, AssetsTypeOK, Image
  <2>2. ASSUME NEW ps \in SUBSET goods, DeletesGoods(w, ps)
        PROVE  /\ To(w, "removed", NoGood, UNION { FilesOf(p) : p \in ps })
               /\ UNION { FilesOf(p) : p \in ps } \in SUBSET Files
    BY <2>2 DEF DeletesGoods, FilesOf, ImagesOf, FilesInv, AssetsTypeOK, Image
  <2> QED  BY <2>1, <2>2
<1>2. image' \subseteq image /\ goods' \subseteq goods /\ UNCHANGED << born, kept, taken >>
  BY DEF DeletesImage, DeletesGoods
<1>3. job' \in [Workers -> Job] /\ \A f : Doomed(f)' => Doomed(f)
  BY <1>1, ToWrites DEF FilesInv
<1> QED  BY <1>2, <1>3 DEF FilesInv, AssetsTypeOK, NamedFilesAreSafe

\* A deletion condemns only files that no row names at that moment.
LEMMA LooksStep ==
  ASSUME FilesInv, NEW w \in Workers, LooksForRows(w)
  PROVE  FilesInv'
<1>1. Unreferenced(job[w].files) \subseteq Files
  BY DEF Unreferenced, FilesInv, AssetsTypeOK, Job
<1>2. /\ job' \in [Workers -> Job]
      /\ \A f : Doomed(f)' => Doomed(f) \/ f \in Unreferenced(job[w].files)
  BY <1>1, ToWrites DEF LooksForRows, FilesInv
<1>3. \A i \in image : i.file \notin Unreferenced(job[w].files)
  BY DEF Unreferenced
<1> QED
  BY <1>2, <1>3 DEF LooksForRows, FilesInv, AssetsTypeOK, NamedFilesAreSafe

\* A deletion destroys only what is condemned.
LEMMA DestroysStep ==
  ASSUME FilesInv, NEW w \in Workers, Destroys(w) \/ Stops(w)
  PROVE  FilesInv'
<1>1. job' = [job EXCEPT ![w] = NoJob] /\ UNCHANGED << goods, born, image, taken >>
  BY DEF Destroys, Stops, Ends
<1>2. kept' \subseteq kept /\ \A f \in kept \ kept' : Doomed(f)
  BY DEF Destroys, Stops, Doomed
<1>3. \A f : Doomed(f)' => Doomed(f)
  BY <1>1, JobWrites, EndsIsAJob DEF FilesInv, NoJob
<1> QED
  BY <1>1, <1>2, <1>3, JobWrites, EndsIsAJob DEF FilesInv, AssetsTypeOK, NamedFilesAreSafe

LEMMA AssetsStart == AssetsInit => AssetsTypeOK
BY EndsIsAJob, AssetsConstants DEF AssetsInit, AssetsTypeOK, FirstGood

LEMMA FilesInvariant == AssetsSpec => []FilesInv
<1>1. AssetsInit => FilesInv
  BY AssetsStart DEF AssetsInit, FilesInv, NamedFilesAreSafe
<1>2. FilesInv /\ [AssetsNext]_assetVars => FilesInv'
  <2> SUFFICES ASSUME FilesInv, [AssetsNext]_assetVars  PROVE FilesInv'
    OBVIOUS
  <2>1. CASE UNCHANGED assetVars
    BY <2>1 DEF assetVars, FilesInv, AssetsTypeOK, NamedFilesAreSafe, Doomed
  <2> QED
    BY <2>1, NotesStep, FileStoresStep, InsertsStep, DeletesStep, LooksStep, DestroysStep
       DEF AssetsNext
<1> QED  BY <1>1, <1>2, PTL DEF AssetsSpec

\* A file whose upload waits for its row is known to that upload alone, so only
\* clones come late.
UploadsAreFresh ==
  /\ FirstGood \in born
  /\ \A i \in image : i.file \in taken /\ (i.late => i.of # FirstGood)
  /\ \A w \in Workers : job[w].files \subseteq taken
  /\ \A w \in Workers : job[w].phase = "stored" =>
       \A f \in job[w].files :
         /\ f \in kept /\ \A i \in image : i.file # f
         /\ \A v \in Workers \ { w } : f \notin job[v].files

\* A request takes up files that rows name, some of those it had, or none.
LEMMA OthersStayFresh ==
  ASSUME AssetsTypeOK, UploadsAreFresh, NEW w \in Workers, NEW j \in Job,
         job' = [job EXCEPT ![w] = j], j.phase # "stored",
         \A f \in j.files : f \in job[w].files \/ \E i \in image : i.file = f,
         image' \subseteq image, taken' = taken, born' = born,
         \A f \in kept \ kept' : f \in job[w].files
  PROVE  UploadsAreFresh'
<1>1. /\ job'[w] = j /\ \A v \in Workers \ { w } : job'[v] = job[v]
  BY JobWrites
<1>2. j.files \subseteq taken
  BY DEF UploadsAreFresh
<1>3. ASSUME NEW v \in Workers, job'[v].phase = "stored", NEW f \in job'[v].files
      PROVE  /\ f \in kept' /\ \A i \in image' : i.file # f
             /\ \A u \in Workers \ { v } : f \notin job'[u].files
  <2>1. v # w /\ job[v].phase = "stored" /\ f \in job[v].files
    BY <1>1, <1>3
  <2>2. /\ f \in kept /\ \A i \in image : i.file # f
        /\ \A u \in Workers \ { v } : f \notin job[u].files
    BY <2>1 DEF UploadsAreFresh
  <2> QED  BY <1>1, <2>1, <2>2
<1> QED  BY <1>1, <1>2, <1>3 DEF UploadsAreFresh

LEMMA NamedInRows ==
  /\ \A p : \A f \in FilesOf(p) : \E i \in image : i.file = f
  /\ \A ps : \A f \in UNION { FilesOf(p) : p \in ps } : \E i \in image : i.file = f
BY DEF FilesOf, ImagesOf

LEMMA UploadsStayFresh ==
  ASSUME FilesInv, UploadsAreFresh, AssetsNext
  PROVE  UploadsAreFresh'
<1>1. /\ AssetsTypeOK /\ job \in [Workers -> Job] /\ image \subseteq Image /\ taken \subseteq Files
      /\ goods \subseteq Goods
  BY DEF FilesInv, AssetsTypeOK
<1>2. PICK w \in Workers :
        \/ \E p \in Goods : CountsImages(w, p) \/ ReadsSource(w, p) \/ InsertsClone(w, p)
        \/ \E f \in Files : StoresFile(w, f)
        \/ \E i \in image : DeletesImage(w, i)
        \/ \E ps \in SUBSET goods : DeletesGoods(w, ps)
        \/ InsertsImage(w) \/ LooksForRows(w) \/ Destroys(w) \/ Stops(w)
  BY DEF AssetsNext
<1>3. ASSUME NEW phase \in { "counted", "copying", "removed", "condemned" },
             NEW p \in Goods \cup { NoGood }, NEW files, To(w, phase, p, files),
             \A f \in files : f \in job[w].files \/ \E i \in image : i.file = f,
             image' \subseteq image, UNCHANGED << born, kept, taken >>
      PROVE  UploadsAreFresh'
  <2>1. files \subseteq Files
    BY <1>1, <1>3 DEF Image, Job
  <2>2. [ phase |-> phase, of |-> p, files |-> files ] \in Job
    BY <2>1 DEF Job
  <2> DEFINE j == [ phase |-> phase, of |-> p, files |-> files ]
  <2>3. /\ job' = [job EXCEPT ![w] = j] /\ j \in Job /\ j.phase # "stored"
        /\ \A f \in j.files : f \in job[w].files \/ \E i \in image : i.file = f
    BY <1>3, <2>2 DEF To
  <2> HIDE DEF j
  <2> QED  BY <1>1, <1>3, <2>3, OthersStayFresh
<1>4. ASSUME NEW p \in Goods, CountsImages(w, p) \/ ReadsSource(w, p)  PROVE UploadsAreFresh'
  <2>1. CASE CountsImages(w, p)
    <3>1. To(w, "counted", p, {}) /\ UNCHANGED << born, image, kept, taken >>
      BY <2>1 DEF CountsImages
    <3> QED  BY <1>3, <3>1
  <2>2. CASE ReadsSource(w, p)
    <3>1. To(w, "copying", p, FilesOf(p)) /\ UNCHANGED << born, image, kept, taken >>
      BY <2>2 DEF ReadsSource
    <3> QED  BY <1>3, <3>1, NamedInRows
  <2> QED  BY <1>4, <2>1, <2>2
<1>5. ASSUME NEW f \in Files, StoresFile(w, f)  PROVE UploadsAreFresh'
  <2>1. /\ f \notin taken /\ kept' = kept \cup { f } /\ taken' = taken \cup { f }
        /\ To(w, "stored", job[w].of, { f }) /\ UNCHANGED << born, image >>
    BY <1>5 DEF StoresFile
  <2>2. /\ job'[w].phase = "stored" /\ job'[w].files = { f }
        /\ \A v \in Workers \ { w } : job'[v] = job[v]
    BY <1>1, <2>1 DEF To
  <2>3. \A i \in image : i.file # f
    BY <2>1 DEF UploadsAreFresh
  <2>4. \A v \in Workers : f \notin job[v].files
    BY <2>1 DEF UploadsAreFresh
  <2>5. ASSUME NEW v \in Workers, job'[v].phase = "stored", NEW g \in job'[v].files
        PROVE  /\ g \in kept' /\ \A i \in image' : i.file # g
               /\ \A u \in Workers \ { v } : g \notin job'[u].files
    <3>1. CASE v = w
      BY <2>1, <2>2, <2>3, <2>4, <2>5, <3>1
    <3>2. CASE v # w
      <4>1. job[v].phase = "stored" /\ g \in job[v].files
        BY <2>2, <2>5, <3>2
      <4>2. /\ g \in kept /\ \A i \in image : i.file # g
            /\ \A u \in Workers \ { v } : g \notin job[u].files
        BY <4>1 DEF UploadsAreFresh
      <4>3. g # f
        BY <2>4, <4>1
      <4> QED  BY <2>1, <2>2, <4>2, <4>3
    <3> QED  BY <3>1, <3>2
  <2>6. \A v \in Workers : job'[v].files \subseteq taken'
    BY <2>1, <2>2 DEF UploadsAreFresh
  <2> QED  BY <2>1, <2>5, <2>6 DEF UploadsAreFresh
<1>6. ASSUME InsertsImage(w) \/ \E q \in Goods : InsertsClone(w, q)  PROVE UploadsAreFresh'
  <2>1. PICK p \in Goods :
          /\ image' = image \cup { Row(p, f) : f \in job[w].files }
          /\ p = FirstGood => job[w].phase = "stored"
          /\ job[w].phase \in { "stored", "copying" }
    <3>1. CASE InsertsImage(w)
      BY <1>1, <3>1 DEF InsertsImage
    <3>2. ASSUME NEW q \in Goods, InsertsClone(w, q)
          PROVE  /\ image' = image \cup { Row(q, f) : f \in job[w].files }
                 /\ q # FirstGood /\ job[w].phase \in { "stored", "copying" }
      BY <3>2 DEF InsertsClone, UploadsAreFresh
    <3> QED  BY <1>6, <3>1, <3>2
  <2>2. /\ job' = [job EXCEPT ![w] = NoJob] /\ UNCHANGED << kept, taken >> /\ born \subseteq born'
    BY <1>6 DEF InsertsImage, InsertsClone, Ends
  <2>3. /\ job'[w].phase # "stored" /\ job'[w].files = {}
        /\ \A v \in Workers \ { w } : job'[v] = job[v]
    BY <1>1, <2>2 DEF NoJob
  <2>4. \A f \in job[w].files :
          /\ Row(p, f).file = f /\ Row(p, f).of = p /\ f \in taken
          /\ job[w].phase = "stored" => ~Row(p, f).late
    <3>1. SUFFICES ASSUME NEW f \in job[w].files, job[w].phase = "stored"  PROVE ~Late(f)
      BY DEF Row, UploadsAreFresh
    <3>2. f \in kept /\ \A v \in Workers \ { w } : f \notin job[v].files
      BY <3>1 DEF UploadsAreFresh
    <3> QED  BY <3>1, <3>2, CondemnedIsDoomed DEF Late, Doomed
  <2>5. ASSUME NEW i \in image'  PROVE i.file \in taken' /\ (i.late => i.of # FirstGood)
    BY <2>1, <2>2, <2>4, <2>5 DEF UploadsAreFresh
  <2>6. ASSUME NEW v \in Workers, job'[v].phase = "stored", NEW g \in job'[v].files
        PROVE  /\ g \in kept' /\ \A i \in image' : i.file # g
               /\ \A u \in Workers \ { v } : g \notin job'[u].files
    <3>1. v # w /\ job[v].phase = "stored" /\ g \in job[v].files
      BY <2>3, <2>6
    <3>2. /\ g \in kept /\ \A i \in image : i.file # g
          /\ \A u \in Workers \ { v } : g \notin job[u].files
      BY <3>1 DEF UploadsAreFresh
    <3>3. \A f \in job[w].files : Row(p, f).file # g
      BY <2>4, <3>1, <3>2
    <3> QED  BY <2>1, <2>2, <2>3, <3>1, <3>2, <3>3
  <2>7. \A v \in Workers : job'[v].files \subseteq taken'
    BY <2>2, <2>3 DEF UploadsAreFresh
  <2> QED  BY <2>2, <2>5, <2>6, <2>7 DEF UploadsAreFresh
<1>7. ASSUME \/ \E i \in image : DeletesImage(w, i)
             \/ \E ps \in SUBSET goods : DeletesGoods(w, ps)
      PROVE  UploadsAreFresh'
  <2>1. ASSUME NEW i \in image, DeletesImage(w, i)  PROVE UploadsAreFresh'
    <3>1. To(w, "removed", NoGood, { i.file }) /\ image' \subseteq image /\ UNCHANGED << born, kept, taken >>
      BY <2>1 DEF DeletesImage
    <3> QED  BY <1>3, <2>1, <3>1
  <2>2. ASSUME NEW ps \in SUBSET goods, DeletesGoods(w, ps)  PROVE UploadsAreFresh'
    <3>1. /\ To(w, "removed", NoGood, UNION { FilesOf(p) : p \in ps }) /\ image' \subseteq image
          /\ UNCHANGED << born, kept, taken >>
      BY <2>2 DEF DeletesGoods
    <3> QED  BY <1>3, <3>1, NamedInRows
  <2> QED  BY <1>7, <2>1, <2>2
<1>8. CASE LooksForRows(w)
  <2>1. /\ To(w, "condemned", NoGood, Unreferenced(job[w].files))
        /\ UNCHANGED << born, image, kept, taken >>
    BY <1>8 DEF LooksForRows
  <2>2. \A f \in Unreferenced(job[w].files) : f \in job[w].files
    BY DEF Unreferenced
  <2> QED  BY <1>3, <2>1, <2>2
<1>9. CASE Destroys(w) \/ Stops(w)
  <2>1. /\ job' = [job EXCEPT ![w] = NoJob] /\ NoJob.phase # "stored" /\ NoJob.files = {}
        /\ UNCHANGED << born, image, taken >> /\ \A f \in kept \ kept' : f \in job[w].files
    BY <1>9 DEF Destroys, Stops, Ends, NoJob
  <2> QED  BY <1>1, <2>1, EndsIsAJob, OthersStayFresh
<1> QED  BY <1>2, <1>4, <1>5, <1>6, <1>7, <1>8, <1>9

\* No deletion of an image or of a product destroys a file that a row names when
\* it looks for rows (unreferencedProductAssetIds), however many run at once; what
\* can name a destroyed file is a row that came after that look, and none of the
\* first product, whose rows are all of uploads.
THEOREM RowsKeepTheirFiles == AssetsSpec => []FoundRowsKeepTheirFiles
<1>1. AssetsInit => UploadsAreFresh
  BY DEF AssetsInit, UploadsAreFresh, NoJob
<1>2. FilesInv /\ UploadsAreFresh /\ [AssetsNext]_assetVars => UploadsAreFresh'
  <2>1. CASE UNCHANGED assetVars
    BY <2>1 DEF assetVars, UploadsAreFresh
  <2> QED  BY <2>1, UploadsStayFresh
<1>3. FilesInv /\ UploadsAreFresh => FoundRowsKeepTheirFiles
  BY DEF FilesInv, NamedFilesAreSafe, UploadsAreFresh, FoundRowsKeepTheirFiles
<1> QED  BY <1>1, <1>2, <1>3, FilesInvariant, PTL DEF AssetsSpec

-----------------------------------------------------------------------------
(* The ceiling of images                                                     *)

\* The uploads of a product that have counted and not yet inserted.
Pending(p) == { w \in Workers : job[w].of = p /\ job[w].phase \in { "counted", "stored" } }

Bound == MaxImages + Cardinality(Workers) - 1

\* An upload adds one row, of a product that is there; a copy brings no more
\* files than its source had.
Modest(j, known) ==
  /\ j.phase \in { "counted", "stored" } => j.of \in known
  /\ j.phase = "stored" => \E f : j.files = { f }
  /\ j.phase = "copying" => IsFiniteSet(j.files) /\ Cardinality(j.files) <= Bound

JobsAreModest == \A w \in Workers : Modest(job[w], born)

\* The pictures of a product and the uploads about to add one.
Room(p) == Cardinality(ImagesOf(p)) + Cardinality(Pending(p)) <= Bound

RoomInv ==
  /\ IsFiniteSet(image)
  /\ \A i \in image : i.of \in born
  /\ JobsAreModest
  /\ \A p \in Goods : Room(p)

LEMMA CountsAreNumbers ==
  ASSUME IsFiniteSet(image)
  PROVE  /\ Cardinality(Workers) \in Nat /\ Bound \in Int
         /\ \A p :
              /\ IsFiniteSet(ImagesOf(p)) /\ Cardinality(ImagesOf(p)) \in Nat
              /\ IsFiniteSet(Pending(p)) /\ Cardinality(Pending(p)) \in Nat
              /\ Cardinality(Pending(p)) <= Cardinality(Workers)
<1>1. Cardinality(Workers) \in Nat
  BY AssetsConstants, FS_CardinalityType
<1>2. ASSUME NEW p
      PROVE  /\ IsFiniteSet(ImagesOf(p)) /\ Cardinality(ImagesOf(p)) \in Nat
             /\ IsFiniteSet(Pending(p)) /\ Cardinality(Pending(p)) \in Nat
             /\ Cardinality(Pending(p)) <= Cardinality(Workers)
  <2>1. ImagesOf(p) \in SUBSET image /\ Pending(p) \in SUBSET Workers
    BY DEF ImagesOf, Pending
  <2> QED  BY <2>1, AssetsConstants, FS_Subset, FS_CardinalityType
<1> QED  BY <1>1, <1>2, AssetsConstants DEF Bound

LEMMA ModestStep ==
  ASSUME JobsAreModest, born \subseteq born', NEW w \in Workers, Modest(job'[w], born'),
         \A v \in Workers \ { w } : job'[v] = job[v]
  PROVE  JobsAreModest'
<1>1. \A v \in Workers : Modest(job[v], born')
  BY DEF JobsAreModest, Modest
<1> QED  BY <1>1 DEF JobsAreModest

\* An image of a finite set has no more elements.
LEMMA RowsOfFiles ==
  ASSUME NEW p, NEW files, IsFiniteSet(files)
  PROVE  /\ IsFiniteSet({ Row(p, f) : f \in files })
         /\ Cardinality({ Row(p, f) : f \in files }) <= Cardinality(files)
<1> DEFINE rows == { Row(p, f) : f \in files }
           m == [f \in files |-> Row(p, f)]
<1>1. m \in Surjection(files, rows)
  BY DEF Surjection
<1> HIDE DEF m, rows
<1> QED  BY <1>1, FS_Surjection DEF rows

LEMMA FilesOfRows ==
  ASSUME NEW p, IsFiniteSet(ImagesOf(p))
  PROVE  IsFiniteSet(FilesOf(p)) /\ Cardinality(FilesOf(p)) <= Cardinality(ImagesOf(p))
<1> DEFINE rows == ImagesOf(p)
           m == [i \in rows |-> i.file]
<1>1. m \in Surjection(rows, FilesOf(p))
  BY DEF Surjection, FilesOf
<1> HIDE DEF m
<1> QED  BY <1>1, FS_Surjection

\* Steps after which a product has no more pictures and no more uploads.
LEMMA RoomShrinks ==
  ASSUME IsFiniteSet(image), NEW p, Room(p),
         (ImagesOf(p))' \subseteq ImagesOf(p), (Pending(p))' \subseteq Pending(p)
  PROVE  Room(p)'
<1>1. /\ Cardinality((ImagesOf(p))') <= Cardinality(ImagesOf(p))
      /\ Cardinality((Pending(p))') <= Cardinality(Pending(p))
      /\ Cardinality((ImagesOf(p))') \in Nat /\ Cardinality((Pending(p))') \in Nat
  BY CountsAreNumbers, FS_Subset, FS_CardinalityType
<1> QED  BY <1>1, CountsAreNumbers DEF Room, Bound

\* A request that is no upload after the step.
LEMMA OthersPend ==
  ASSUME NEW w \in Workers, job' \in [Workers -> Job],
         job'[w].phase \notin { "counted", "stored" },
         \A v \in Workers \ { w } : job'[v] = job[v]
  PROVE  \A p : (Pending(p))' = Pending(p) \ { w }
BY DEF Pending

LEMMA CountsRoom ==
  ASSUME FilesInv, RoomInv, NEW w \in Workers, NEW p \in Goods, CountsImages(w, p)
  PROVE  RoomInv'
<1>1. /\ job' \in [Workers -> Job]
      /\ job'[w] = [ phase |-> "counted", of |-> p, files |-> {} ]
      /\ \A v \in Workers \ { w } : job'[v] = job[v]
  <2>1. To(w, "counted", p, {}) /\ AssetsTypeOK /\ {} \in SUBSET Files
    BY DEF CountsImages, FilesInv
  <2> QED  BY <2>1, ToWrites
<1>2. UNCHANGED << goods, born, image >> /\ p \in born
  BY DEF CountsImages, FilesInv, AssetsTypeOK
<1>3. JobsAreModest'
  <2>1. Modest(job'[w], born')
    BY <1>1, <1>2 DEF Modest, RoomInv, JobsAreModest
  <2> QED  BY <1>1, <1>2, <2>1, ModestStep DEF RoomInv
<1>4. ASSUME NEW q \in Goods  PROVE Room(q)'
  <2>1. (ImagesOf(q))' = ImagesOf(q)
    BY <1>2 DEF ImagesOf
  <2>2. CASE q = p
    <3>1. (Pending(q))' \in SUBSET Workers
      BY DEF Pending
    <3>2. Cardinality((Pending(q))') <= Cardinality(Workers) /\ Cardinality((Pending(q))') \in Nat
      BY <3>1, AssetsConstants, FS_Subset, FS_CardinalityType
    <3>3. Cardinality(ImagesOf(q)) < MaxImages
      BY <2>2 DEF CountsImages, BelowCeiling
    <3> QED  BY <2>1, <3>2, <3>3, AssetsConstants, CountsAreNumbers DEF Room, Bound, RoomInv
  <2>3. CASE q # p
    <3>1. (Pending(q))' \subseteq Pending(q)
      BY <1>1, <2>3 DEF Pending
    <3> QED  BY <2>1, <3>1, RoomShrinks DEF RoomInv
  <2> QED  BY <2>2, <2>3
<1> QED  BY <1>2, <1>3, <1>4 DEF RoomInv

LEMMA StoresRoom ==
  ASSUME FilesInv, RoomInv, NEW w \in Workers, NEW f \in Files, StoresFile(w, f)
  PROVE  RoomInv'
<1>1. /\ job' \in [Workers -> Job]
      /\ job'[w] = [ phase |-> "stored", of |-> job[w].of, files |-> { f } ]
      /\ \A v \in Workers \ { w } : job'[v] = job[v]
  <2>1. To(w, "stored", job[w].of, { f }) /\ AssetsTypeOK /\ { f } \in SUBSET Files
    BY DEF StoresFile, FilesInv
  <2>2. job[w].of \in Goods \cup { NoGood }
    BY DEF FilesInv, AssetsTypeOK, Job
  <2> QED  BY <2>1, <2>2, ToWrites
<1>2. UNCHANGED << goods, born, image >> /\ job[w].phase = "counted"
  BY DEF StoresFile
<1>3. JobsAreModest'
  <2>1. Modest(job'[w], born')
    BY <1>1, <1>2 DEF Modest, RoomInv, JobsAreModest
  <2> QED  BY <1>1, <1>2, <2>1, ModestStep DEF RoomInv
<1>4. ASSUME NEW q \in Goods  PROVE Room(q)'
  <2>1. (ImagesOf(q))' = ImagesOf(q)
    BY <1>2 DEF ImagesOf
  <2>2. (Pending(q))' \subseteq Pending(q)
    BY <1>1, <1>2 DEF Pending
  <2> QED  BY <2>1, <2>2, RoomShrinks DEF RoomInv
<1> QED  BY <1>2, <1>3, <1>4 DEF RoomInv

\* An upload becomes a picture: one more row, one upload less.
LEMMA InsertsRoom ==
  ASSUME FilesInv, RoomInv, NEW w \in Workers, InsertsImage(w)
  PROVE  RoomInv'
<1> DEFINE p == job[w].of
<1>1. /\ job' \in [Workers -> Job] /\ job'[w] = NoJob
      /\ \A v \in Workers \ { w } : job'[v] = job[v]
  BY JobWrites, EndsIsAJob DEF InsertsImage, Ends, FilesInv
<1>2. PICK f : job[w].files = { f }
  BY DEF InsertsImage, RoomInv, JobsAreModest, Modest
<1>3. image' = image \cup { Row(p, f) } /\ UNCHANGED << goods, born >> /\ p \in born
  BY <1>2 DEF InsertsImage, FilesInv, AssetsTypeOK
<1>4. IsFiniteSet(image') /\ \A i \in image' : i.of \in born'
  <2>1. Row(p, f).of = p
    BY DEF Row
  <2>2. IsFiniteSet(image \cup { Row(p, f) })
    BY FS_AddElement DEF RoomInv
  <2> QED  BY <1>3, <2>1, <2>2 DEF RoomInv
<1>5. JobsAreModest'
  <2>1. Modest(job'[w], born')
    BY <1>1 DEF Modest, NoJob
  <2> QED  BY <1>1, <1>3, <2>1, ModestStep DEF RoomInv
<1>6. \A q : (Pending(q))' = Pending(q) \ { w }
  BY <1>1, OthersPend DEF NoJob
<1>7. ASSUME NEW q \in Goods  PROVE Room(q)'
  <2>1. CASE q = p
    <3>1. (ImagesOf(q))' = ImagesOf(q) \cup { Row(p, f) }
      BY <1>3, <2>1 DEF ImagesOf, Row
    <3>2. w \in Pending(q)
      BY <2>1 DEF Pending, InsertsImage
    <3>3. /\ Cardinality((ImagesOf(q))') <= Cardinality(ImagesOf(q)) + 1
          /\ Cardinality((Pending(q))') = Cardinality(Pending(q)) - 1
          /\ Cardinality((ImagesOf(q))') \in Nat
      <4>1. /\ IsFiniteSet(ImagesOf(q)) /\ Cardinality(ImagesOf(q)) \in Nat
            /\ IsFiniteSet(Pending(q))
        BY CountsAreNumbers DEF RoomInv
      <4>2. Cardinality((Pending(q))') = Cardinality(Pending(q)) - 1
        BY <1>6, <3>2, <4>1, FS_RemoveElement
      <4>3. CASE Row(p, f) \in ImagesOf(q)
        <5>1. (ImagesOf(q))' = ImagesOf(q)
          BY <3>1, <4>3
        <5> QED  BY <4>1, <4>2, <5>1
      <4>4. CASE Row(p, f) \notin ImagesOf(q)
        <5>1. Cardinality((ImagesOf(q))') = Cardinality(ImagesOf(q)) + 1
          BY <3>1, <4>1, <4>4, FS_AddElement
        <5> QED  BY <4>1, <4>2, <5>1
      <4> QED  BY <4>3, <4>4
    <3> QED  BY <3>3, CountsAreNumbers DEF Room, Bound, RoomInv
  <2>2. CASE q # p
    <3>1. (ImagesOf(q))' \subseteq ImagesOf(q)
      BY <1>3, <2>2 DEF ImagesOf, Row
    <3> QED  BY <1>6, <3>1, RoomShrinks DEF RoomInv
  <2> QED  BY <2>1, <2>2
<1> QED  BY <1>4, <1>5, <1>7 DEF RoomInv

\* A clone is new: it has the copied pictures and no upload.
LEMMA ClonesRoom ==
  ASSUME FilesInv, RoomInv, NEW w \in Workers, NEW p \in Goods, InsertsClone(w, p)
  PROVE  RoomInv'
<1> DEFINE rows == { Row(p, f) : f \in job[w].files }
<1>1. /\ job' \in [Workers -> Job] /\ job'[w] = NoJob
      /\ \A v \in Workers \ { w } : job'[v] = job[v]
  BY JobWrites, EndsIsAJob DEF InsertsClone, Ends, FilesInv
<1>2. /\ image' = image \cup rows /\ born' = born \cup { p } /\ p \notin born
      /\ IsFiniteSet(rows) /\ Cardinality(rows) <= Cardinality(job[w].files)
      /\ Cardinality(job[w].files) <= Bound
      /\ Cardinality(rows) \in Nat /\ Cardinality(job[w].files) \in Nat
  <2>1. IsFiniteSet(job[w].files) /\ Cardinality(job[w].files) <= Bound
    BY DEF InsertsClone, RoomInv, JobsAreModest, Modest
  <2>2. IsFiniteSet(rows) /\ Cardinality(rows) <= Cardinality(job[w].files)
    BY <2>1, RowsOfFiles
  <2> QED  BY <2>1, <2>2, FS_CardinalityType DEF InsertsClone
<1>3. \A r \in rows : r.of = p
  BY DEF Row
<1> HIDE DEF rows
<1>4. IsFiniteSet(image') /\ \A i \in image' : i.of \in born'
  BY <1>2, <1>3, FS_Union DEF RoomInv
<1>5. JobsAreModest'
  <2>1. Modest(job'[w], born')
    BY <1>1 DEF Modest, NoJob
  <2> QED  BY <1>1, <1>2, <2>1, ModestStep DEF RoomInv
<1>6. \A q : (Pending(q))' = Pending(q) \ { w }
  BY <1>1, OthersPend DEF NoJob
<1>7. ASSUME NEW q \in Goods  PROVE Room(q)'
  <2>1. CASE q = p
    <3>1. (ImagesOf(q))' = rows
      BY <1>2, <1>3, <2>1 DEF ImagesOf, RoomInv
    <3>2. (Pending(q))' = {}
      BY <1>2, <1>6, <2>1 DEF Pending, RoomInv, JobsAreModest, Modest
    <3> QED  BY <1>2, <3>1, <3>2, CountsAreNumbers, FS_EmptySet DEF Room, Bound, RoomInv
  <2>2. CASE q # p
    <3>1. (ImagesOf(q))' \subseteq ImagesOf(q)
      BY <1>2, <1>3, <2>2 DEF ImagesOf
    <3> QED  BY <1>6, <3>1, RoomShrinks DEF RoomInv
  <2> QED  BY <2>1, <2>2
<1> QED  BY <1>4, <1>5, <1>7 DEF RoomInv

\* Every other step adds no picture and no upload.
LEMMA RestRoom ==
  ASSUME FilesInv, FilesInv', RoomInv, NEW w \in Workers,
         \/ \E p \in Goods : ReadsSource(w, p)
         \/ \E i \in image : DeletesImage(w, i)
         \/ \E ps \in SUBSET goods : DeletesGoods(w, ps)
         \/ LooksForRows(w) \/ Destroys(w) \/ Stops(w)
  PROVE  RoomInv'
<1>1. image' \subseteq image /\ UNCHANGED born
  BY DEF ReadsSource, DeletesImage, DeletesGoods, LooksForRows, Destroys, Stops
<1>2. PICK j : /\ job' = [job EXCEPT ![w] = j]
               /\ j.phase \notin { "counted", "stored" }
               /\ j.phase = "copying" => \E p \in Goods : j.files = FilesOf(p)
  BY DEF ReadsSource, DeletesImage, DeletesGoods, LooksForRows, Destroys, Stops, To, Ends, NoJob
<1>3. /\ job' \in [Workers -> Job] /\ job'[w] = j
      /\ \A v \in Workers \ { w } : job'[v] = job[v]
  BY <1>2 DEF FilesInv, AssetsTypeOK
<1>4. ASSUME NEW p \in Goods
      PROVE  IsFiniteSet(FilesOf(p)) /\ Cardinality(FilesOf(p)) <= Bound
  <2>1. Cardinality(ImagesOf(p)) <= Bound
    BY CountsAreNumbers DEF RoomInv, Room, Bound
  <2> QED  BY <2>1, FilesOfRows, CountsAreNumbers, FS_CardinalityType DEF RoomInv
<1>5. JobsAreModest'
  <2>1. Modest(job'[w], born')
    BY <1>2, <1>3, <1>4 DEF Modest
  <2> QED  BY <1>1, <1>3, <2>1, ModestStep DEF RoomInv
<1>6. IsFiniteSet(image') /\ \A i \in image' : i.of \in born'
  BY <1>1, FS_Subset DEF RoomInv
<1>7. ASSUME NEW q \in Goods  PROVE Room(q)'
  <2>1. (ImagesOf(q))' \subseteq ImagesOf(q) /\ (Pending(q))' \subseteq Pending(q)
    BY <1>1, <1>2, <1>3, OthersPend DEF ImagesOf
  <2> QED  BY <2>1, RoomShrinks DEF RoomInv
<1> QED  BY <1>5, <1>6, <1>7 DEF RoomInv

LEMMA RoomInitially == AssetsInit => RoomInv
<1> SUFFICES ASSUME AssetsInit  PROVE RoomInv
  OBVIOUS
<1>1. image = {} /\ IsFiniteSet(image) /\ JobsAreModest
  BY FS_EmptySet DEF AssetsInit, JobsAreModest, Modest, NoJob
<1>2. ASSUME NEW p \in Goods  PROVE Room(p)
  <2>1. ImagesOf(p) = {} /\ Pending(p) = {}
    BY <1>1 DEF AssetsInit, ImagesOf, Pending, NoJob
  <2> QED  BY <2>1, <1>1, AssetsConstants, CountsAreNumbers, FS_EmptySet DEF Room, Bound
<1> QED  BY <1>1, <1>2 DEF RoomInv

LEMMA RoomInvariant == AssetsSpec => []RoomInv
<1>1. FilesInv /\ FilesInv' /\ RoomInv /\ [AssetsNext]_assetVars => RoomInv'
  <2> SUFFICES ASSUME FilesInv, FilesInv', RoomInv, [AssetsNext]_assetVars  PROVE RoomInv'
    OBVIOUS
  <2>1. CASE UNCHANGED assetVars
    BY <2>1 DEF assetVars, RoomInv, JobsAreModest, Modest, Room, ImagesOf, Pending, Bound
  <2> QED
    BY <2>1, CountsRoom, StoresRoom, InsertsRoom, ClonesRoom, RestRoom DEF AssetsNext
<1> QED  BY <1>1, RoomInitially, FilesInvariant, PTL DEF AssetsSpec

\* However many uploads, copies and deletions run at once, a product has at most
\* as many images as the ceiling and the other requests in flight (uploadImage).
THEOREM OverrunIsBounded == AssetsSpec => []CeilingHolds
<1>1. RoomInv => CeilingHolds
  BY CountsAreNumbers DEF RoomInv, Room, Bound, CeilingHolds
<1> QED  BY <1>1, RoomInvariant, PTL

-----------------------------------------------------------------------------
(* Sums: SumFunction is a fold, so that it takes a recursion over finite sets *)

\* One step of the sum of a function over a set, by the values g over smaller sets.
SumStep(f, g, s) ==
  IF s = {} THEN 0 ELSE LET x == CHOOSE x \in s : TRUE IN f[x] + g[s \ {x}]

\* A function that sums over every set of at most n indices.
PartialSum(f, n, g) ==
  LET small == { s \in SUBSET (DOMAIN f) : Cardinality(s) <= n } IN
  g \in [small -> Nat] /\ g = [s \in small |-> SumStep(f, g, s)]

\* By the least n without one.
LEMMA PartialSums ==
  ASSUME NEW S, IsFiniteSet(S), NEW f \in [S -> Nat], NEW n \in Nat
  PROVE  \E g : PartialSum(f, n, g)
<1> DEFINE Small(k) == { s \in SUBSET (DOMAIN f) : Cardinality(s) <= k }
           Bad == { k \in Nat : ~ \E g : PartialSum(f, k, g) }
<1>1. SUFFICES ASSUME Bad # {}  PROVE FALSE
  OBVIOUS
<1>2. PICK k \in Bad : \A l \in Bad : ~ (<< l, k >> \in OpToRel(<, Nat))
  BY <1>1, NatLessThanWellFounded, WFMin
<1>3. k \in Nat /\ \A l \in Nat : l < k => \E g : PartialSum(f, l, g)
  BY <1>2 DEF OpToRel
<1>4. \A s \in SUBSET S : IsFiniteSet(s) /\ Cardinality(s) \in Nat
  BY FS_Subset, FS_CardinalityType
<1>5. ASSUME NEW s \in SUBSET S, NEW x \in s
      PROVE  x \in S /\ Cardinality(s \ {x}) = Cardinality(s) - 1 /\ s \ {x} \in SUBSET S
  BY <1>4, FS_RemoveElement
<1>6. CASE k = 0
  <2> DEFINE g == [s \in Small(0) |-> 0]
  <2>1. \A s \in Small(0) : s = {}
    BY <1>4, FS_EmptySet
  <2>2. PartialSum(f, 0, g)
    BY <2>1 DEF PartialSum, SumStep
  <2> QED  BY <1>2, <1>6, <2>2
<1>7. CASE k # 0
  <2>1. PICK g : PartialSum(f, k - 1, g)
    BY <1>3, <1>7
  <2> DEFINE h == [s \in Small(k) |-> IF Cardinality(s) <= k - 1 THEN g[s] ELSE SumStep(f, g, s)]
  <2>2. ASSUME NEW s \in Small(k)
        PROVE  SumStep(f, g, s) = SumStep(f, h, s) /\ SumStep(f, g, s) \in Nat
    <3>1. CASE s = {}
      BY <3>1 DEF SumStep
    <3>2. CASE s # {}
      <4>1. PICK x : x = CHOOSE y \in s : TRUE
        OBVIOUS
      <4>2. x \in S /\ s \ {x} \in Small(k - 1) /\ s \ {x} \in Small(k)
        <5>1. s \in SUBSET S /\ x \in s /\ Cardinality(s) <= k
          BY <3>2, <4>1
        <5>2. Cardinality(s \ {x}) = Cardinality(s) - 1 /\ s \ {x} \in SUBSET S
          BY <1>5, <5>1
        <5> QED  BY <1>3, <1>4, <5>1, <5>2
      <4>3. h[s \ {x}] = g[s \ {x}] /\ g[s \ {x}] \in Nat /\ f[x] \in Nat
        BY <2>1, <4>2 DEF PartialSum
      <4> QED  BY <3>2, <4>1, <4>3 DEF SumStep
    <3> QED  BY <3>1, <3>2
  <2>3. ASSUME NEW s \in Small(k)
        PROVE  h[s] \in Nat /\ h[s] = SumStep(f, h, s)
    <3>1. CASE Cardinality(s) <= k - 1
      <4>1. s \in Small(k - 1) /\ h[s] = g[s]
        BY <3>1
      <4>2. g[s] \in Nat /\ g[s] = SumStep(f, g, s)
        BY <2>1, <4>1 DEF PartialSum
      <4> QED  BY <2>2, <4>1, <4>2
    <3>2. CASE ~(Cardinality(s) <= k - 1)
      BY <2>2, <3>2
    <3> QED  BY <3>1, <3>2
  <2>4. PartialSum(f, k, h)
    <3>1. h \in [Small(k) -> Nat]
      BY <2>3
    <3>2. h = [s \in Small(k) |-> SumStep(f, h, s)]
      BY <2>3
    <3> QED  BY <3>1, <3>2 DEF PartialSum
  <2> QED  BY <1>2, <2>4
<1> QED  BY <1>6, <1>7

\* By a least set whose sum is no number.
LEMMA SumIsNat ==
  ASSUME NEW S, IsFiniteSet(S), NEW f \in [S -> Nat]
  PROVE  SumFunction(f) \in Nat
<1> DEFINE Sums(g) == g = [s \in SUBSET (DOMAIN f) |-> SumStep(f, g, s)]
           sum == CHOOSE g : Sums(g)
<1>1. SumFunction(f) = sum[DOMAIN f]
  BY DEF SumFunction, SumFunctionOnSet, FoldFunctionOnSet, MapThenFoldSet, SumStep
<1>2. \A s \in SUBSET S :
        IsFiniteSet(s) /\ Cardinality(s) \in Nat /\ Cardinality(s) <= Cardinality(S)
  BY FS_Subset, FS_CardinalityType
<1>3. /\ Cardinality(S) \in Nat
      /\ { s \in SUBSET (DOMAIN f) : Cardinality(s) <= Cardinality(S) } = SUBSET (DOMAIN f)
  BY <1>2
<1>4. PICK g : PartialSum(f, Cardinality(S), g)
  BY <1>3, PartialSums
<1>5. Sums(g)
  BY <1>3, <1>4 DEF PartialSum
<1>6. Sums(sum)
  BY <1>5
<1> HIDE DEF sum
<1> DEFINE Bad == { s \in SUBSET S : sum[s] \notin Nat }
<1>7. Bad = {}
  <2>1. SUFFICES ASSUME Bad # {}  PROVE FALSE
    OBVIOUS
  <2>2. PICK s \in Bad : \A t \in Bad : << t, s >> \notin StrictSubsetOrdering(S)
    <3>1. Bad \subseteq FiniteSubsetsOf(S)
      BY <1>2 DEF FiniteSubsetsOf
    <3> QED  BY <2>1, <3>1, FS_StrictSubsetOrderingWellFounded, WFMin
  <2>3. s # {}
    BY <1>6 DEF SumStep
  <2>4. PICK x : x = CHOOSE y \in s : TRUE
    OBVIOUS
  <2>5. x \in s /\ s \ {x} \in SUBSET S /\ << s \ {x}, s >> \in StrictSubsetOrdering(S)
    BY <2>3, <2>4 DEF StrictSubsetOrdering
  <2>6. sum[s \ {x}] \in Nat /\ f[x] \in Nat
    BY <2>2, <2>5
  <2>7. sum[s] = f[x] + sum[s \ {x}]
    BY <1>6, <2>3, <2>4 DEF SumStep
  <2> QED  BY <2>6, <2>7
<1> QED  BY <1>1, <1>7

LEMMA SumOfNothing ==
  ASSUME NEW f, DOMAIN f = {}
  PROVE  SumFunction(f) = 0
<1> DEFINE Sums(g) == g = [s \in SUBSET (DOMAIN f) |-> SumStep(f, g, s)]
           sum == CHOOSE g : Sums(g)
<1>1. SumFunction(f) = sum[DOMAIN f]
  BY DEF SumFunction, SumFunctionOnSet, FoldFunctionOnSet, MapThenFoldSet, SumStep
<1>2. Sums([s \in { {} } |-> 0])
  BY DEF SumStep
<1>3. Sums(sum)
  BY <1>2
<1> HIDE DEF sum
<1> QED  BY <1>1, <1>3 DEF SumStep

-----------------------------------------------------------------------------
(* Reviews and the ratings derived from them                                 *)

Recounts == { "counted", "stored", "summed" }

\* A request that nothing overtook holds the ratings that its commit brings
\* about, and rewrites the row with the rating it has if it recounts nothing.
WriterSound(w) ==
  /\ writer[w].at \in Recounts /\ ~writer[w].passed =>
       writer[w].sums = StatsOf(Mine(w), SlotsOf(ItemOf[writer[w].slot]))
  /\ writer[w].at = "summed" /\ ~writer[w].passedAll =>
       writer[w].total = StatsOf(Mine(w), Slots)
  /\ writer[w].at # "idle" /\ ~Recalculates(writer[w]) /\ ~writer[w].stale =>
       review[writer[w].slot].rating = writer[w].rating

RatingsInv ==
  /\ ReviewsTypeOK
  /\ \A w \in Writers : WriterSound(w)
  /\ \A p \in exact : rated[p] = StatsOf(review, SlotsOf(p))
  /\ exactAll => esteem = StatsOf(review, Slots)

LEMMA StatsAreStats ==
  ASSUME NEW row \in [Slots -> Review], NEW S \in SUBSET Slots
  PROVE  StatsOf(row, S) \in Stats
<1> DEFINE seen == { s \in S : Counted(row[s]) }
<1>1. IsFiniteSet(seen)
  BY ReviewConstants, FS_Subset
<1>2. [s \in seen |-> row[s].rating] \in [seen -> Nat]
  <2>1. \A s \in Slots : row[s] \in Review
    OBVIOUS
  <2>2. \A r \in Review : r.rating \in Nat
    <3>1. Ratings \cup { 0 } \subseteq Nat
      BY ReviewConstants
    <3> QED  BY <3>1 DEF Review
  <2>3. seen \subseteq S /\ \A s \in S : row[s].rating \in Nat
    BY <2>1, <2>2
  <2> HIDE DEF seen
  <2> QED  BY <2>3
<1>3. Cardinality(seen) \in Nat /\ SumFunction([s \in seen |-> row[s].rating]) \in Nat
  BY <1>1, <1>2, SumIsNat, FS_CardinalityType
<1> QED  BY <1>3 DEF StatsOf, Stats

\* Ratings look at nothing but the rows they are of.
LEMMA SameStats ==
  ASSUME NEW a, NEW b, NEW S, \A s \in S : a[s] = b[s]
  PROVE  StatsOf(a, S) = StatsOf(b, S)
<1> DEFINE seen(r) == { s \in S : Counted(r[s]) }
           stars(r) == [s \in seen(r) |-> r[s].rating]
<1>1. seen(a) = seen(b)
  OBVIOUS
<1>2. stars(a) = stars(b)
  BY <1>1
<1> HIDE DEF seen, stars
<1>3. Cardinality(seen(a)) = Cardinality(seen(b)) /\ SumFunction(stars(a)) = SumFunction(stars(b))
  BY <1>1, <1>2
<1> QED  BY <1>3 DEF StatsOf, seen, stars

LEMMA ChangedReview ==
  ASSUME ReviewsTypeOK, NEW w \in Writers, writer[w].at # "idle"
  PROVE  /\ writer[w] \in Writer /\ writer[w].slot \in Slots
         /\ ItemOf[writer[w].slot] \in Items
         /\ Mine(w) \in [Slots -> Review]
         /\ \A s \in Slots : s # writer[w].slot => Mine(w)[s] = review[s]
<1>1. writer[w] \in Writer /\ writer[w].slot \in Slots /\ writer[w].rating \in Ratings
  BY DEF ReviewsTypeOK, Resting, Writer
<1>2. review[writer[w].slot] \in Review
  BY <1>1 DEF ReviewsTypeOK
<1>3. Changes(writer[w], review[writer[w].slot]) \in Review
  BY <1>1, <1>2 DEF Changes, Review, NoReview, Writer, WriterOps
<1> QED  BY <1>1, <1>3, ReviewConstants DEF Mine, ReviewsTypeOK

\* A step of one request that writes nothing but the request.
LEMMA WriterMoves ==
  ASSUME RatingsInv, NEW w \in Writers, NEW r,
         r \in Writer \cup { Resting }, writer' = [writer EXCEPT ![w] = r],
         UNCHANGED << review, rated, esteem, exact, exactAll >>, requests' \in 0 .. MaxRequests,
         WriterSound(w)'
  PROVE  RatingsInv'
<1>1. ReviewsTypeOK'
  BY DEF RatingsInv, ReviewsTypeOK
<1>2. ASSUME NEW v \in Writers, v # w  PROVE WriterSound(v)'
  <2>1. writer'[v] = writer[v] /\ review' = review
    BY <1>2 DEF RatingsInv, ReviewsTypeOK
  <2>2. Mine(v)' = Mine(v) /\ WriterSound(v)
    BY <2>1 DEF Mine, Changes, RatingsInv
  <2>3. Recalculates(writer'[v]) <=> Recalculates(writer[v])
    BY <2>1
  <2> QED  BY <2>1, <2>2, <2>3 DEF WriterSound, StatsOf
<1>3. \A p \in exact' : rated'[p] = StatsOf(review, SlotsOf(p))'
  BY DEF RatingsInv, StatsOf
<1>4. exactAll' => esteem' = StatsOf(review, Slots)'
  BY DEF RatingsInv, StatsOf
<1> QED  BY <1>1, <1>2, <1>3, <1>4 DEF RatingsInv

LEMMA ReadsReviewStep ==
  ASSUME RatingsInv, NEW w \in Writers, NEW s \in Slots, NEW n \in Ratings, NEW op \in WriterOps,
         ReadsReview(w, op, s, n)
  PROVE  RatingsInv'
<1> DEFINE r == [ at |-> "read", op |-> op, slot |-> s, rating |-> n,
         rerates |-> (op = "update" /\ n # review[s].rating), sums |-> Nil,
         total |-> Nil, stale |-> FALSE, passed |-> FALSE, passedAll |-> FALSE ]
<1>1. writer' = [writer EXCEPT ![w] = r] /\ requests < MaxRequests /\ requests' = requests + 1
      /\ UNCHANGED << review, rated, esteem, exact, exactAll >>
  BY DEF ReadsReview
<1>2. r \in Writer
  BY DEF Writer, Nil, Stats
<1>3. requests' \in 0 .. MaxRequests
  BY <1>1, ReviewConstants DEF RatingsInv, ReviewsTypeOK
<1>4. writer'[w] = r
  BY <1>1 DEF RatingsInv, ReviewsTypeOK
<1>5. WriterSound(w)'
  <2>1. writer'[w].at = "read" /\ writer'[w].slot = s /\ writer'[w].rating = n
    BY <1>4
  <2>2. ~Recalculates(writer'[w]) => n = review[s].rating
    <3>1. writer'[w].op = op /\ writer'[w].rerates = (op = "update" /\ n # review[s].rating)
      BY <1>4
    <3> QED  BY <3>1, Zenon DEF Recalculates
  <2> QED  BY <1>1, <2>1, <2>2 DEF WriterSound, Recounts
<1> QED  BY <1>1, <1>2, <1>3, <1>5, WriterMoves

LEMMA RequestStep ==
  ASSUME RatingsInv, NEW w \in Writers,
         \/ WritesReview(w) \/ RefusesDuplicate(w) \/ CountsProduct(w) \/ StoresProduct(w)
         \/ CountsSeller(w) \/ Abandons(w)
  PROVE  RatingsInv'
<1> USE DEF RatingsInv
<1>0. /\ UNCHANGED << review, rated, esteem, requests, exact, exactAll >>
      /\ ReviewsTypeOK /\ WriterSound(w) /\ requests' \in 0 .. MaxRequests
  BY DEF WritesReview, RefusesDuplicate, CountsProduct, StoresProduct, CountsSeller, Abandons,
         ReviewsTypeOK
<1>1. CASE RefusesDuplicate(w) \/ Abandons(w)
  <2>1. writer' = [writer EXCEPT ![w] = Resting] /\ writer'[w] = Resting
    BY <1>0, <1>1 DEF RefusesDuplicate, Abandons, ReviewsTypeOK
  <2>2. WriterSound(w)'
    BY <2>1 DEF WriterSound, Recounts, Resting
  <2> QED  BY <1>0, <2>1, <2>2, WriterMoves
<1>2. CASE ~(RefusesDuplicate(w) \/ Abandons(w))
  <2>1. writer[w].at # "idle"
    BY <1>2 DEF WritesReview, CountsProduct, StoresProduct, CountsSeller
  <2>2. /\ writer[w] \in Writer /\ writer[w].slot \in Slots /\ ItemOf[writer[w].slot] \in Items
        /\ Mine(w) \in [Slots -> Review]
    BY <1>0, <2>1, ChangedReview
  <2>3. /\ StatsOf(Mine(w), SlotsOf(ItemOf[writer[w].slot])) \in Stats
        /\ StatsOf(Mine(w), Slots) \in Stats
    BY <2>2, StatsAreStats DEF SlotsOf
  <2>4. PICK r \in Writer :
          /\ writer' = [writer EXCEPT ![w] = r]
          /\ r.slot = writer[w].slot /\ r.op = writer[w].op /\ r.rating = writer[w].rating
          /\ r.rerates = writer[w].rerates /\ r.stale = writer[w].stale
          /\ r.at \in Recounts /\ ~r.passed =>
               r.sums = StatsOf(Mine(w), SlotsOf(ItemOf[writer[w].slot]))
          /\ r.at = "summed" /\ ~r.passedAll => r.total = StatsOf(Mine(w), Slots)
    <3>1. CASE WritesReview(w)
      <4> DEFINE r == [writer[w] EXCEPT !.at = "written"]
      <4>1. r \in Writer /\ writer' = [writer EXCEPT ![w] = r]
        BY <1>0, <2>2, <3>1 DEF WritesReview, Writer, ReviewsTypeOK
      <4> QED  BY <2>2, <4>1 DEF Recounts, Writer
    <3>2. CASE CountsProduct(w)
      <4> DEFINE r == [writer[w] EXCEPT !.at = "counted",
                        !.sums = StatsOf(Mine(w), SlotsOf(ItemOf[writer[w].slot]))]
      <4>1. r \in Writer /\ writer' = [writer EXCEPT ![w] = r]
        BY <1>0, <2>2, <2>3, <3>2 DEF CountsProduct, Writer, ReviewsTypeOK
      <4> QED  BY <2>2, <4>1 DEF Recounts, Writer
    <3>3. CASE StoresProduct(w)
      <4> DEFINE r == [writer[w] EXCEPT !.at = "stored"]
      <4>1. r \in Writer /\ writer' = [writer EXCEPT ![w] = r] /\ writer[w].at = "counted"
        BY <1>0, <2>2, <3>3 DEF StoresProduct, Writer, ReviewsTypeOK
      <4> QED  BY <1>0, <2>2, <4>1 DEF Recounts, Writer, WriterSound
    <3>4. CASE CountsSeller(w)
      <4> DEFINE r == [writer[w] EXCEPT !.at = "summed", !.total = StatsOf(Mine(w), Slots)]
      <4>1. r \in Writer /\ writer' = [writer EXCEPT ![w] = r] /\ writer[w].at = "stored"
        BY <1>0, <2>2, <2>3, <3>4 DEF CountsSeller, Writer, ReviewsTypeOK
      <4> QED  BY <1>0, <2>2, <4>1 DEF Recounts, Writer, WriterSound
    <3> QED  BY <1>2, <3>1, <3>2, <3>3, <3>4
  <2>5. writer'[w] = r /\ review' = review
    BY <1>0, <2>4 DEF ReviewsTypeOK
  <2>6. Mine(w)' = Mine(w)
    BY <2>4, <2>5 DEF Mine, Changes
  <2>7. WriterSound(w)'
    <3>1. Recalculates(writer'[w]) <=> Recalculates(writer[w])
      BY <2>4, <2>5 DEF Recalculates
    <3> QED  BY <1>0, <2>1, <2>4, <2>5, <2>6, <3>1 DEF WriterSound, StatsOf
  <2> QED  BY <1>0, <2>4, <2>7, WriterMoves
<1> QED  BY <1>1, <1>2

\* What w writes is what its commit brings: the rows of other products stay, and
\* of each request that counted before it is noted that it was passed.
LEMMA CommitStep ==
  ASSUME RatingsInv, NEW w \in Writers, writer[w].at # "idle",
         review' = Mine(w), writer' = Overtaken(w)
  PROVE  /\ review' \in [Slots -> Review]
         /\ writer' \in [Writers -> Writer \cup { Resting }]
         /\ \A p : p # ItemOf[writer[w].slot] =>
              StatsOf(review', SlotsOf(p)) = StatsOf(review, SlotsOf(p))
         /\ \A v \in Writers : WriterSound(v)'
<1> USE DEF RatingsInv
<1>1. /\ writer[w] \in Writer /\ writer[w].slot \in Slots
      /\ ItemOf[writer[w].slot] \in Items /\ Mine(w) \in [Slots -> Review]
      /\ \A s \in Slots : s # writer[w].slot => Mine(w)[s] = review[s]
  BY ChangedReview
<1>2. ASSUME NEW v \in Writers, v # w, writer[v].at # "idle"
      PROVE  /\ writer[v] \in Writer /\ writer'[v] \in Writer
             /\ writer'[v].at = writer[v].at /\ writer'[v].slot = writer[v].slot
             /\ writer'[v].op = writer[v].op /\ writer'[v].rating = writer[v].rating
             /\ writer'[v].rerates = writer[v].rerates
             /\ writer'[v].sums = writer[v].sums /\ writer'[v].total = writer[v].total
             /\ ~writer'[v].stale => ~writer[v].stale /\ writer[v].slot # writer[w].slot
             /\ writer[v].at \in Recounts /\ ~writer'[v].passed =>
                  ~writer[v].passed /\ ItemOf[writer[v].slot] # ItemOf[writer[w].slot]
             /\ writer[v].at = "summed" => writer'[v].passedAll
  <2>1. writer[v] \in Writer
    BY <1>2, ChangedReview
  <2>2. writer'[v] = [ writer[v] EXCEPT
              !.stale = @ \/ writer[v].slot = writer[w].slot,
              !.passed = @ \/ (/\ writer[v].at \in { "counted", "stored", "summed" }
                               /\ ItemOf[writer[v].slot] = ItemOf[writer[w].slot]),
              !.passedAll = @ \/ writer[v].at = "summed" ]
    BY <1>2 DEF Overtaken
  <2>3. writer'[v] \in Writer
    BY <2>1, <2>2 DEF Writer
  <2> QED  BY <2>1, <2>2, <2>3 DEF Writer, Recounts
<1>3. /\ writer'[w] = Resting
      /\ \A v \in Writers : writer[v].at = "idle" => writer'[v] = writer[v] \/ v = w
  BY DEF Overtaken
<1>4. writer' \in [Writers -> Writer \cup { Resting }]
  <2>1. \A v \in Writers : writer'[v] \in Writer \cup { Resting }
    BY <1>2, <1>3 DEF ReviewsTypeOK
  <2> QED  BY <2>1 DEF Overtaken
<1>5. ASSUME NEW p, p # ItemOf[writer[w].slot]
      PROVE  StatsOf(review', SlotsOf(p)) = StatsOf(review, SlotsOf(p))
  BY <1>1, <1>5, SameStats DEF SlotsOf
<1>6. ASSUME NEW v \in Writers  PROVE WriterSound(v)'
  <2>1. CASE v = w \/ writer[v].at = "idle"
    <3>1. writer'[v].at = "idle"
      BY <1>3, <2>1 DEF Resting
    <3> QED  BY <3>1 DEF WriterSound, Recounts
  <2>2. CASE ~(v = w \/ writer[v].at = "idle")
    <3>1. WriterSound(v) /\ writer[v] \in Writer /\ writer[v].slot \in Slots
      BY <1>2, <2>2 DEF Writer
    <3>2. Recalculates(writer'[v]) <=> Recalculates(writer[v])
      BY <1>2, <2>2 DEF Recalculates
    <3>3. writer[v].slot # writer[w].slot => review'[writer[v].slot] = review[writer[v].slot]
      BY <1>1, <3>1
    <3>4. ASSUME ItemOf[writer[v].slot] # ItemOf[writer[w].slot]
          PROVE  StatsOf(Mine(v)', SlotsOf(ItemOf[writer[v].slot]))
                   = StatsOf(Mine(v), SlotsOf(ItemOf[writer[v].slot]))
      <4>1. \A s \in Slots :
              Mine(v)[s] = IF s = writer[v].slot THEN Changes(writer[v], review[s]) ELSE review[s]
        BY <3>1 DEF Mine, ReviewsTypeOK
      <4>2. \A s \in Slots :
              Mine(v)'[s] = IF s = writer[v].slot THEN Changes(writer'[v], review'[s]) ELSE review'[s]
        BY <1>1, <1>2, <2>2, <3>1 DEF Mine
      <4>3. \A r : Changes(writer'[v], r) = Changes(writer[v], r)
        BY <1>2, <2>2 DEF Changes
      <4>4. \A s \in SlotsOf(ItemOf[writer[v].slot]) : s \in Slots /\ s # writer[w].slot
        BY <3>4 DEF SlotsOf
      <4>5. \A s \in SlotsOf(ItemOf[writer[v].slot]) : Mine(v)'[s] = Mine(v)[s]
        BY <1>1, <4>1, <4>2, <4>3, <4>4
      <4> QED  BY <4>5, SameStats
    <3>5. writer'[v].at \in Recounts /\ ~writer'[v].passed =>
            writer'[v].sums = StatsOf(Mine(v)', SlotsOf(ItemOf[writer'[v].slot]))
      BY <1>2, <2>2, <3>1, <3>4 DEF WriterSound
    <3>6. writer'[v].at = "summed" => writer'[v].passedAll
      BY <1>2, <2>2
    <3>7. writer'[v].at # "idle" /\ ~Recalculates(writer'[v]) /\ ~writer'[v].stale =>
            review'[writer'[v].slot].rating = writer'[v].rating
      BY <1>2, <2>2, <3>1, <3>2, <3>3 DEF WriterSound
    <3> QED  BY <3>5, <3>6, <3>7 DEF WriterSound, StatsOf
  <2> QED  BY <2>1, <2>2
<1> QED  BY <1>1, <1>4, <1>5, <1>6

LEMMA CommitsRatingsStep ==
  ASSUME RatingsInv, NEW w \in Writers, CommitsRatings(w)
  PROVE  RatingsInv'
<1> DEFINE p == ItemOf[writer[w].slot]
<1>1. /\ writer[w].at = "summed"
      /\ review' = Mine(w) /\ writer' = Overtaken(w) /\ requests' = requests
      /\ rated' = [rated EXCEPT ![p] = writer[w].sums] /\ esteem' = writer[w].total
      /\ exact' = IF writer[w].passed THEN exact \ { p } ELSE exact \cup { p }
      /\ exactAll' = ~writer[w].passedAll
  BY DEF CommitsRatings
<1>2. writer[w].at # "idle" /\ writer[w].at \in Recounts
  BY <1>1 DEF Recounts
<1>3. /\ writer[w] \in Writer /\ p \in Items
  BY <1>2, ChangedReview DEF RatingsInv
<1>4. /\ review' \in [Slots -> Review]
      /\ writer' \in [Writers -> Writer \cup { Resting }]
      /\ \A q : q # p => StatsOf(review', SlotsOf(q)) = StatsOf(review, SlotsOf(q))
      /\ \A v \in Writers : WriterSound(v)'
  BY <1>1, <1>2, CommitStep
<1>5. ReviewsTypeOK'
  <2>1. writer[w].sums \in Stats /\ writer[w].total \in Stats /\ writer[w].passedAll \in BOOLEAN
    BY <1>3 DEF Writer
  <2> QED  BY <1>1, <1>3, <1>4, <2>1 DEF RatingsInv, ReviewsTypeOK
<1>6. WriterSound(w)
  BY DEF RatingsInv
<1>7. ASSUME NEW q \in exact'  PROVE rated'[q] = StatsOf(review', SlotsOf(q))
  <2>1. CASE q = p
    BY <1>1, <1>2, <1>3, <1>6, <1>7, <2>1 DEF RatingsInv, ReviewsTypeOK, WriterSound
  <2>2. CASE q # p
    BY <1>1, <1>3, <1>4, <1>7, <2>2 DEF RatingsInv, ReviewsTypeOK
  <2> QED  BY <2>1, <2>2
<1>8. exactAll' => esteem' = StatsOf(review', Slots)
  BY <1>1, <1>6 DEF WriterSound
<1> QED  BY <1>4, <1>5, <1>7, <1>8 DEF RatingsInv, StatsOf, SlotsOf

LEMMA CommitsWordingStep ==
  ASSUME RatingsInv, NEW w \in Writers, CommitsWording(w)
  PROVE  RatingsInv'
<1> DEFINE p == ItemOf[writer[w].slot]
<1>1. /\ writer[w].at = "written" /\ ~Recalculates(writer[w])
      /\ review' = Mine(w) /\ writer' = Overtaken(w)
      /\ rated' = rated /\ esteem' = esteem /\ requests' = requests
      /\ exact' = IF writer[w].stale THEN exact \ { p } ELSE exact
      /\ exactAll' = (exactAll /\ ~writer[w].stale)
  BY DEF CommitsWording
<1>2. /\ writer[w] \in Writer /\ p \in Items /\ writer[w].slot \in Slots /\ WriterSound(w)
      /\ writer[w].at # "idle"
  BY <1>1, ChangedReview DEF RatingsInv
<1>3. /\ review' \in [Slots -> Review]
      /\ writer' \in [Writers -> Writer \cup { Resting }]
      /\ \A q : q # p => StatsOf(review', SlotsOf(q)) = StatsOf(review, SlotsOf(q))
      /\ \A v \in Writers : WriterSound(v)'
  BY <1>1, <1>2, CommitStep
<1>4. ReviewsTypeOK'
  BY <1>1, <1>3 DEF RatingsInv, ReviewsTypeOK
<1>5. ~writer[w].stale => review' = review
  <2>1. SUFFICES ASSUME ~writer[w].stale  PROVE review' = review
    OBVIOUS
  <2>2. review[writer[w].slot].rating = writer[w].rating
    BY <1>1, <1>2, <2>1 DEF WriterSound
  <2>3. review \in [Slots -> Review] /\ review[writer[w].slot] \in Review
    BY <1>2 DEF RatingsInv, ReviewsTypeOK
  <2>4. Changes(writer[w], review[writer[w].slot]) = review[writer[w].slot]
    BY <1>1, <2>2, <2>3 DEF Changes, Recalculates, Review
  <2> QED  BY <1>1, <1>2, <2>3, <2>4 DEF Mine
<1>6. ASSUME NEW q \in exact'  PROVE rated'[q] = StatsOf(review', SlotsOf(q))
  <2>1. q \in exact /\ (q = p => ~writer[w].stale)
    BY <1>1, <1>6
  <2>2. rated[q] = StatsOf(review, SlotsOf(q))
    BY <2>1 DEF RatingsInv
  <2> QED  BY <1>1, <1>3, <1>5, <2>1, <2>2
<1>7. exactAll' => esteem' = StatsOf(review', Slots)
  BY <1>1, <1>5 DEF RatingsInv
<1> QED  BY <1>3, <1>4, <1>6, <1>7 DEF RatingsInv, StatsOf, SlotsOf

LEMMA RatingsInitially == ReviewsInit => RatingsInv
<1> SUFFICES ASSUME ReviewsInit  PROVE RatingsInv
  OBVIOUS
<1>1. \A S \in SUBSET Slots : StatsOf(review, S) = Nil
  <2> SUFFICES ASSUME NEW S \in SUBSET Slots  PROVE StatsOf(review, S) = Nil
    OBVIOUS
  <2>1. { s \in S : Counted(review[s]) } = {}
    BY DEF ReviewsInit, NoReview, Counted
  <2>2. Cardinality({}) = 0
    BY FS_EmptySet
  <2>3. SumFunction([s \in {} |-> review[s].rating]) = 0
    BY SumOfNothing
  <2> QED  BY <2>1, <2>2, <2>3 DEF StatsOf, Nil
<1>2. NoReview \in Review /\ Nil \in Stats
  BY DEF NoReview, Review, Nil, Stats
<1>3. ReviewsTypeOK
  BY <1>2, ReviewConstants DEF ReviewsInit, ReviewsTypeOK
<1>4. \A w \in Writers : WriterSound(w)
  BY DEF ReviewsInit, WriterSound, Resting, Recounts
<1>5. \A p : SlotsOf(p) \in SUBSET Slots
  BY DEF SlotsOf
<1> QED  BY <1>1, <1>3, <1>4, <1>5 DEF ReviewsInit, RatingsInv

LEMMA RatingsInvariant == ReviewsSpec => []RatingsInv
<1>1. RatingsInv /\ [ReviewsNext]_reviewVars => RatingsInv'
  <2> SUFFICES ASSUME RatingsInv, [ReviewsNext]_reviewVars  PROVE RatingsInv'
    OBVIOUS
  <2>1. CASE UNCHANGED reviewVars
    <3>1. /\ review' = review /\ rated' = rated /\ esteem' = esteem /\ writer' = writer
          /\ requests' = requests /\ exact' = exact /\ exactAll' = exactAll
      BY <2>1 DEF reviewVars
    <3>2. \A w \in Writers : Mine(w)' = Mine(w)
      BY <3>1 DEF Mine
    <3>3. \A w \in Writers : WriterSound(w)'
      BY <3>1, <3>2 DEF RatingsInv, WriterSound, StatsOf
    <3>4. ReviewsTypeOK'
      BY <3>1 DEF RatingsInv, ReviewsTypeOK
    <3> QED  BY <3>1, <3>3, <3>4 DEF RatingsInv, StatsOf
  <2>2. ASSUME NEW w \in Writers, NEW s \in Slots, NEW n \in Ratings, NEW op \in WriterOps,
               ReadsReview(w, op, s, n)
        PROVE  RatingsInv'
    BY <2>2, ReadsReviewStep
  <2>3. (CHOOSE n \in Ratings : TRUE) \in Ratings
    BY ReviewConstants
  <2>4. ASSUME NEW w \in Writers, CommitsRatings(w)  PROVE RatingsInv'
    BY <2>4, CommitsRatingsStep
  <2>5. ASSUME NEW w \in Writers, CommitsWording(w)  PROVE RatingsInv'
    BY <2>5, CommitsWordingStep
  <2>6. ASSUME NEW w \in Writers,
               \/ WritesReview(w) \/ RefusesDuplicate(w) \/ CountsProduct(w) \/ StoresProduct(w)
               \/ CountsSeller(w) \/ Abandons(w)
        PROVE  RatingsInv'
    BY <2>6, RequestStep
  <2> QED  BY <2>1, <2>2, <2>3, <2>4, <2>5, <2>6 DEF ReviewsNext, WriterOps
<1> QED  BY <1>1, RatingsInitially, PTL DEF ReviewsSpec

\* After any interleaving of reviews, edits, deletions and moderation the stored
\* ratings are those of the listed reviews, unless two recounts overlapped
\* (recalculateRatings).
THEOREM RatingsAreOfTheListed == ReviewsSpec => []RatingsFollowVisible
<1>1. RatingsInv => RatingsFollowVisible
  <2> SUFFICES ASSUME RatingsInv  PROVE RatingsFollowVisible
    OBVIOUS
  <2>1. \A stats, S : stats = StatsOf(review, S) => Summarises(stats, Listed(S))
    BY DEF StatsOf, Summarises, Listed, Counted
  <2> QED  BY <2>1 DEF RatingsInv, RatingsFollowVisible
<1> QED  BY <1>1, RatingsInvariant, PTL

=============================================================================

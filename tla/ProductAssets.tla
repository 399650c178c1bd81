----------------------------- MODULE ProductAssets -----------------------------
(***************************************************************************)
(* The pictures of products: rows in the database, files at an external    *)
(* store.  A duplicated product shares the files of its source, so a file  *)
(* is destroyed only when no row names it any more; but rows are counted,  *)
(* copied and removed in statements of their own.                          *)
(***************************************************************************)
EXTENDS Naturals, FiniteSets

CONSTANTS
  Workers,    \* requests in flight
  Goods,      \* products; those that are not there yet can be clones
  Files,      \* files the store can hold
  MaxImages,  \* the ceiling of uploadImage, 8 in the code
  NoGood

ASSUME AssetsConstants ==
  /\ Goods # {} /\ NoGood \notin Goods
  /\ IsFiniteSet(Workers)
  /\ MaxImages \in Nat \ {0}

VARIABLES
  goods,     \* products that exist
  born,      \* products that ever existed
  image,     \* product_images rows
  kept,      \* files in the store
  taken,     \* files that were ever uploaded
  job        \* the requests

assetVars == << goods, born, image, kept, taken, job >>

\* late: inserted when a deletion had already looked for the rows of the file.
Image == [ of : Goods, file : Files, late : BOOLEAN ]

\* counted, stored: uploadImage before its upload and before its insert;
\* copying: duplicate before its insert; removed, condemned: a deletion before
\* it looks for rows and before it destroys.
Job ==
  [ phase : { "idle", "counted", "stored", "copying", "removed", "condemned" },
    of : Goods \cup { NoGood }, files : SUBSET Files ]

NoJob == [ phase |-> "idle", of |-> NoGood, files |-> {} ]

ImagesOf(p) == { i \in image : i.of = p }

FilesOf(p) == { i.file : i \in ImagesOf(p) }

Condemned == UNION { job[w].files : w \in { v \in Workers : job[v].phase = "condemned" } }

Late(f) == f \notin kept \/ f \in Condemned

Row(p, f) == [ of |-> p, file |-> f, late |-> Late(f) ]

To(w, phase, p, files) == job' = [job EXCEPT ![w] = [ phase |-> phase, of |-> p, files |-> files ]]

Ends(w) == job' = [job EXCEPT ![w] = NoJob]

-----------------------------------------------------------------------------
(* uploadImage                                                               *)

\* Variant: one more than the ceiling passes.
BelowCeiling_OffByOne(p) == Cardinality(ImagesOf(p)) <= MaxImages

BelowCeiling(p) == Cardinality(ImagesOf(p)) < MaxImages

CountsImages(w, p) ==
  /\ job[w] = NoJob
  /\ p \in goods /\ BelowCeiling(p)
  /\ To(w, "counted", p, {})
  /\ UNCHANGED << goods, born, image, kept, taken >>

StoresFile(w, f) ==
  /\ job[w].phase = "counted"
  /\ f \notin taken
  /\ kept' = kept \cup { f } /\ taken' = taken \cup { f }
  /\ To(w, "stored", job[w].of, { f })
  /\ UNCHANGED << goods, born, image >>

InsertsImage(w) ==
  /\ job[w].phase = "stored" /\ job[w].of \in goods
  /\ image' = image \cup { Row(job[w].of, f) : f \in job[w].files }
  /\ Ends(w)
  /\ UNCHANGED << goods, born, kept, taken >>

-----------------------------------------------------------------------------
(* duplicate                                                                 *)

ReadsSource(w, p) ==
  /\ job[w] = NoJob
  /\ p \in goods
  /\ To(w, "copying", p, FilesOf(p))
  /\ UNCHANGED << goods, born, image, kept, taken >>

InsertsClone(w, q) ==
  /\ job[w].phase = "copying" /\ q \notin born
  /\ goods' = goods \cup { q } /\ born' = born \cup { q }
  /\ image' = image \cup { Row(q, f) : f \in job[w].files }
  /\ Ends(w)
  /\ UNCHANGED << kept, taken >>

-----------------------------------------------------------------------------
(* deleteImage, hardDelete, hardDeleteProduct, resetCatalog                  *)

DeletesImage(w, i) ==
  /\ job[w] = NoJob
  /\ image' = image \ { i }
  /\ To(w, "removed", NoGood, { i.file })
  /\ UNCHANGED << goods, born, kept, taken >>

\* The images are read with the products, before they go with them.
DeletesGoods(w, ps) ==
  /\ job[w] = NoJob
  /\ ps # {} /\ ps \subseteq goods
  /\ goods' = goods \ ps
  /\ image' = { i \in image : i.of \notin ps }
  /\ To(w, "removed", NoGood, UNION { FilesOf(p) : p \in ps })
  /\ UNCHANGED << born, kept, taken >>

\* Variant: every file of what was deleted goes.
Unreferenced_All(files) == files

\* unreferencedProductAssetIds
Unreferenced(files) == files \ { i.file : i \in image }

LooksForRows(w) ==
  /\ job[w].phase = "removed"
  /\ To(w, "condemned", NoGood, Unreferenced(job[w].files))
  /\ UNCHANGED << goods, born, image, kept, taken >>

\* The store may fail for some files: they stay, at a cost.
Destroys(w) ==
  /\ job[w].phase = "condemned"
  /\ \E gone \in SUBSET job[w].files : kept' = kept \ gone
  /\ Ends(w)
  /\ UNCHANGED << goods, born, image, taken >>

\* An error or a crash between two statements.
Stops(w) ==
  /\ job[w] # NoJob
  /\ Ends(w)
  /\ UNCHANGED << goods, born, image, kept, taken >>

-----------------------------------------------------------------------------

\* The others are clones.
FirstGood == CHOOSE p \in Goods : TRUE

AssetsInit ==
  /\ goods = { FirstGood } /\ born = goods
  /\ image = {} /\ kept = {} /\ taken = {}
  /\ job = [w \in Workers |-> NoJob]

AssetsNext ==
  \E w \in Workers :
    \/ \E p \in Goods : CountsImages(w, p) \/ ReadsSource(w, p) \/ InsertsClone(w, p)
    \/ \E f \in Files : StoresFile(w, f)
    \/ \E i \in image : DeletesImage(w, i)
    \/ \E ps \in SUBSET goods : DeletesGoods(w, ps)
    \/ InsertsImage(w) \/ LooksForRows(w) \/ Destroys(w) \/ Stops(w)

AssetsSpec == AssetsInit /\ [][AssetsNext]_assetVars

-----------------------------------------------------------------------------
(* Properties                                                                *)

AssetsTypeOK ==
  /\ goods \subseteq born /\ born \subseteq Goods /\ image \subseteq Image
  /\ kept \subseteq taken /\ taken \subseteq Files
  /\ job \in [Workers -> Job]

\* "A row pointing at a destroyed file is a broken product", so a file is kept
\* "while any other image row still references it": whatever is uploaded,
\* duplicated and deleted at once, no row names a destroyed file (deleteImage,
\* unreferencedProductAssetIds).
FilesOutliveTheirRows == \A i \in image : i.file \in kept

\* What the code keeps of that: no deletion of an image or of a product, nor two
\* of them at once, destroys a file that a row names when it looks for rows; only
\* a row inserted after that look can lose its file, and it is never one of the
\* product the clones were made from, whose rows are all of uploads.
FoundRowsKeepTheirFiles ==
  \A i \in image : i.file \notin kept => i.late /\ i.of # FirstGood

\* Counting and inserting apart, uploads overrun the ceiling of a product by
\* no more than the other uploads that were in flight (uploadImage).
CeilingHolds ==
  \A p \in Goods : Cardinality(ImagesOf(p)) <= MaxImages + Cardinality(Workers) - 1

=============================================================================

---------------------------- MODULE PlatformProofs ----------------------------
(***************************************************************************)
(* The platform keeps every promise of its parts: each of its behaviours   *)
(* is one of the specification of every part, so that what is proved of a  *)
(* part alone holds of the whole, for any values of the constants.         *)
(***************************************************************************)
EXTENDS Platform, CheckoutProofs, CatalogueProofs, AccountProofs, AdministrationProofs

-----------------------------------------------------------------------------
(* Refinement                                                                *)

\* Only the part whose turn it is moves, and it moves as its own specification
\* allows.
LEMMA OnePartMoves ==
  ASSUME PlatformNext
  PROVE  /\ [CheckoutNext]_checkoutVars /\ [CatalogueNext]_catalogueVars
         /\ [AssetsNext]_assetVars /\ [VerificationNext]_verificationVars
         /\ [SessionsNext]_sessionVars /\ [OtpNext]_otpVars /\ [ReviewsNext]_reviewVars
         /\ [DeskNext]_deskVars /\ [TaxonomyNext]_taxonomyVars
         /\ [PlacesNext]_placeVars /\ [BroadcastsNext]_broadcastVars
         /\ part' = part
<1>1. OthersRest
  BY DEF PlatformNext
<1>2. \/ part = "checkout" /\ CheckoutNext
      \/ part = "catalogue" /\ CatalogueNext
      \/ part = "assets" /\ AssetsNext
      \/ part = "verification" /\ VerificationNext
      \/ part = "sessions" /\ SessionsNext
      \/ part = "otp" /\ OtpNext
      \/ part = "reviews" /\ ReviewsNext
      \/ part = "desk" /\ DeskNext
      \/ part = "taxonomy" /\ TaxonomyNext
      \/ part = "places" /\ PlacesNext
      \/ part = "broadcasts" /\ BroadcastsNext
  BY DEF PlatformNext
<1> QED  BY <1>1, <1>2 DEF OthersRest

LEMMA PartsStep ==
  ASSUME [PlatformNext]_platformVars
  PROVE  /\ [CheckoutNext]_checkoutVars /\ [CatalogueNext]_catalogueVars
         /\ [AssetsNext]_assetVars /\ [VerificationNext]_verificationVars
         /\ [SessionsNext]_sessionVars /\ [OtpNext]_otpVars /\ [ReviewsNext]_reviewVars
         /\ [DeskNext]_deskVars /\ [TaxonomyNext]_taxonomyVars
         /\ [PlacesNext]_placeVars /\ [BroadcastsNext]_broadcastVars
         /\ part' = part
BY OnePartMoves DEF platformVars

\* A behaviour of the platform is one of each of its parts.
THEOREM PlatformImplementsItsParts ==
  PlatformSpec =>
    /\ CheckoutSpec /\ CatalogueSpec /\ AssetsSpec /\ VerificationSpec /\ SessionsSpec
    /\ OtpSpec /\ ReviewsSpec /\ DeskSpec /\ TaxonomySpec /\ PlacesSpec /\ BroadcastsSpec
<1>1. PlatformInit =>
        /\ CheckoutInit /\ CatalogueInit /\ AssetsInit /\ VerificationInit /\ SessionsInit
        /\ OtpInit /\ ReviewsInit /\ DeskInit /\ TaxonomyInit /\ PlacesInit /\ BroadcastsInit
  BY DEF PlatformInit
<1> QED
  BY <1>1, PartsStep, PTL
     DEF PlatformSpec, CheckoutSpec, CatalogueSpec, AssetsSpec, VerificationSpec, SessionsSpec,
         OtpSpec, ReviewsSpec, DeskSpec, TaxonomySpec, PlacesSpec, BroadcastsSpec

-----------------------------------------------------------------------------
(* What follows                                                              *)

LEMMA PartIsAPart == PlatformSpec => [](part \in Parts)
<1>1. PlatformInit => part \in Parts
  BY DEF PlatformInit
<1>2. part \in Parts /\ [PlatformNext]_platformVars => (part \in Parts)'
  BY PartsStep DEF Parts
<1> QED  BY <1>1, <1>2, PTL DEF PlatformSpec

\* Every component keeps the shapes of its rows and the bounds its type states:
\* no stock below zero, no commission above its line, nobody twice on a roll.
THEOREM PlatformTypeCorrect == PlatformSpec => []PlatformTypeOK
<1>1. CatalogueInv => CatalogueTypeOK
  BY DEF CatalogueInv
<1>2. FilesInv => AssetsTypeOK
  BY DEF FilesInv
<1>3. PapersInv => VerificationTypeOK
  BY DEF PapersInv
<1>4. SessionsInv => SessionsTypeOK
  BY DEF SessionsInv
<1>5. SpentInv => OtpTypeOK
  BY DEF SpentInv
<1>6. RatingsInv => ReviewsTypeOK
  BY DEF RatingsInv
<1>7. TreeInv => TaxonomyTypeOK
  BY DEF TreeInv
<1>8. AddressInv => PlacesTypeOK
  BY DEF AddressInv
<1>9. /\ CartTypeOK /\ CatalogueTypeOK /\ AssetsTypeOK /\ VerificationTypeOK
      /\ SessionsTypeOK /\ OtpTypeOK /\ ReviewsTypeOK /\ DeskTypeOK /\ TaxonomyTypeOK
      /\ PlacesTypeOK /\ BroadcastsTypeOK /\ part \in Parts
      => PlatformTypeOK
  BY DEF PlatformTypeOK
<1> QED
  BY <1>1, <1>2, <1>3, <1>4, <1>5, <1>6, <1>7, <1>8, <1>9, PlatformImplementsItsParts,
     PartIsAPart, CartTypeCorrect, CatalogueInvariant, FilesInvariant, PapersInvariant,
     SessionsInvariant, SpentInvariant, RatingsInvariant, DeskTypeCorrect, ReadsInvariant,
     AddressInvariant, BroadcastTypeCorrect, PTL

\* What no part may break alone, no behaviour of the platform breaks: an intent
\* orders a product once, and a retry never meets the emptied cart; edits erase no
\* sale, an ordered product keeps its row and a row that a deletion finds its file;
\* races end no session and no code is spent twice; ratings, rates, addresses and
\* broadcasts are those of the rows they count, each with the exceptions that its
\* own property states; and no circle closes in the tree without crossing moves.
THEOREM PlatformKeepsItsPromises ==
  PlatformSpec =>
    [](/\ OncePerIntent /\ RetryFindsItsOrders
       /\ StockEditsKeepSales /\ OrderedProductKeepsItsRow
       /\ FoundRowsKeepTheirFiles /\ CeilingHolds /\ LiveDocumentHasItsFile
       /\ RacesKeepTheSession /\ SpentCodeStaysSpent /\ RatingsFollowVisible
       /\ OverridesChain /\ OneDeliveryAddress /\ SentReachesAll
       /\ CirclesTakeCrossingMoves)
BY PlatformImplementsItsParts, IntentsOrderOnce, RetriesFindTheirOrders, EditsKeepSales,
   OrderedProductsStay, RowsKeepTheirFiles, OverrunIsBounded, EvidenceHasItsFile,
   RacesNeverSignOut, SpentCodesStaySpent, RatingsAreOfTheListed, OverridesNeverLost,
   BuyersHaveOneAddress, SentBroadcastsReach, OnlyCrossingMovesCloseCircles, PTL

\* The checkout of the platform implements the ledger of intents: no request buys
\* half a basket, and no retry buys again.
THEOREM PlatformImplementsIntents == PlatformSpec => ImplementsIntents
BY PlatformImplementsItsParts, CheckoutImplementsIntents, PTL

\* As long as the edits of the platform's tree are written in turn, it stays a
\* forest and its leaves stand.
THEOREM PlatformKeepsTheTree == MaxDepth = 3 => (PlatformSpec => EditsInTurnKeepTheTree)
<1> SUFFICES ASSUME MaxDepth = 3  PROVE PlatformSpec => EditsInTurnKeepTheTree
  OBVIOUS
<1>1. TaxonomySpec => EditsInTurnKeepTheTree
  BY TurnsKeepTheForest
<1> QED  BY <1>1, PlatformImplementsItsParts, PTL

=============================================================================

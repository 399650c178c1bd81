------------------------------- MODULE Platform -------------------------------
(***************************************************************************)
(* The parts of the platform beside the life of an order: cart and         *)
(* checkout, the catalogue, its pictures and its categories, the           *)
(* verification of sellers, sessions and one-time codes, reviews,          *)
(* commission rates, addresses, and broadcasts.                            *)
(*                                                                         *)
(* Where two parts meet in a row, each has the moves of the other as moves *)
(* of its own (the sales of the catalogue, the catalogue of the checkout). *)
(* So a property of one part holds of the whole as soon as it holds while  *)
(* the others rest, and a behaviour of this module has one part that moves.*)
(***************************************************************************)
EXTENDS CartCheckout, ProductCatalogue, ProductAssets, SellerVerification, Sessions,
        OtpCodes, Reviews, CommissionDesk, Taxonomy, Places, Broadcasts

VARIABLE part   \* the one that moves

Parts ==
  { "checkout", "catalogue", "assets", "verification", "sessions", "otp", "reviews",
    "desk", "taxonomy", "places", "broadcasts" }

platformVars ==
  << checkoutVars, catalogueVars, assetVars, verificationVars, sessionVars, otpVars,
     reviewVars, deskVars, taxonomyVars, placeVars, broadcastVars, part >>

\* While a part rests its tables are empty.
PlatformInit ==
  /\ part \in Parts
  /\ CheckoutInit /\ (part # "checkout" => shelf = NoLines)
  /\ CatalogueInit /\ AssetsInit /\ VerificationInit /\ SessionsInit /\ OtpInit
  /\ ReviewsInit /\ DeskInit
  /\ TaxonomyInit /\ (part # "taxonomy" => Present = {})
  /\ PlacesInit /\ (part # "places" => role = "BUYER" /\ \A c \in Communes : commune[c] = "none")
  /\ BroadcastsInit

OthersRest ==
  /\ part # "checkout" => UNCHANGED checkoutVars
  /\ part # "catalogue" => UNCHANGED catalogueVars
  /\ part # "assets" => UNCHANGED assetVars
  /\ part # "verification" => UNCHANGED verificationVars
  /\ part # "sessions" => UNCHANGED sessionVars
  /\ part # "otp" => UNCHANGED otpVars
  /\ part # "reviews" => UNCHANGED reviewVars
  /\ part # "desk" => UNCHANGED deskVars
  /\ part # "taxonomy" => UNCHANGED taxonomyVars
  /\ part # "places" => UNCHANGED placeVars
  /\ part # "broadcasts" => UNCHANGED broadcastVars
  /\ UNCHANGED part

PlatformNext ==
  \/ part = "checkout" /\ OthersRest /\ CheckoutNext
  \/ part = "catalogue" /\ OthersRest /\ CatalogueNext
  \/ part = "assets" /\ OthersRest /\ AssetsNext
  \/ part = "verification" /\ OthersRest /\ VerificationNext
  \/ part = "sessions" /\ OthersRest /\ SessionsNext
  \/ part = "otp" /\ OthersRest /\ OtpNext
  \/ part = "reviews" /\ OthersRest /\ ReviewsNext
  \/ part = "desk" /\ OthersRest /\ DeskNext
  \/ part = "taxonomy" /\ OthersRest /\ TaxonomyNext
  \/ part = "places" /\ OthersRest /\ PlacesNext
  \/ part = "broadcasts" /\ OthersRest /\ BroadcastsNext

PlatformSpec == PlatformInit /\ [][PlatformNext]_platformVars

\* Every component keeps the shapes of its rows, and the bounds that its own
\* type invariant states: no stock below zero, no commission above its line.
PlatformTypeOK ==
  /\ CartTypeOK /\ CatalogueTypeOK /\ AssetsTypeOK /\ VerificationTypeOK
  /\ SessionsTypeOK /\ OtpTypeOK /\ ReviewsTypeOK /\ DeskTypeOK /\ TaxonomyTypeOK
  /\ PlacesTypeOK /\ BroadcastsTypeOK
  /\ part \in Parts

=============================================================================

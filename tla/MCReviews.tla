------------------------------- MODULE MCReviews -------------------------------
(***************************************************************************)
(* An instance of Reviews for TLC: two buyers have received g1 and one g2. *)
(***************************************************************************)
EXTENDS Reviews, TLC

CONSTANTS b1, b2, b3, g1, g2

MCItemOf == b1 :> g1 @@ b2 :> g1 @@ b3 :> g2

=============================================================================

------------------------------ MODULE MCPlatform ------------------------------
(***************************************************************************)
(* An instance of Platform for TLC: in every part two requests meet.       *)
(***************************************************************************)
EXTENDS Platform, MCReviews

CONSTANTS p1, p2, s1, s2, m1, tA

\* Two products of two sellers.
MCSellerOf == p1 :> s1 @@ p2 :> s2

\* A commune of one of two towns.
MCTownOf == m1 :> tA

\* Edits of the content, of the quantity from a stale and from a fresh form, and
\* of both.
NoEdit == [ text |-> FALSE, quantity |-> None, expected |-> None ]
MCEdits ==
  { [ NoEdit EXCEPT !.text = TRUE ],
    [ NoEdit EXCEPT !.quantity = 0 ],
    [ NoEdit EXCEPT !.quantity = 2, !.expected = 1 ],
    [ NoEdit EXCEPT !.text = TRUE, !.quantity = 1, !.expected = 1 ] }

=============================================================================

------------------------------ MODULE MCLockOrder ------------------------------
(* Two connections, two orders of one seller ; the lines of one cover both products.     *)
EXTENDS LockOrder, TLC

CONSTANTS o1, o2, s1, r1

MCProducts == 1 .. 2
MCOrderProducts == (o1 :> MCProducts) @@ (o2 :> { 2 })
MCSellerOf == (o1 :> s1) @@ (o2 :> s1)
MCRequestOrder == r1 :> o1

=============================================================================

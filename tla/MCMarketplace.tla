---------------------------- MODULE MCMarketplace ----------------------------
(***************************************************************************)
(* Small instances of Marketplace for TLC.                                 *)
(***************************************************************************)
EXTENDS Marketplace, TLC

CONSTANTS s1

MCQty == [o \in Orders |-> [p \in Products |-> 1]]

MCInitialStock == [p \in Products |-> Cardinality(Orders)]

MCSellerOf == [o \in Orders |-> s1]

DeskSymmetry ==
  Permutations(Orders) \cup Permutations(Payouts) \cup Permutations(Requesters)
  \cup Permutations(Requests)

MCNet == [o \in Orders |-> 1]

=============================================================================

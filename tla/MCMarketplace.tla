---------------------------- MODULE MCMarketplace ---------------------------
(* Instances of Marketplace for TLC. *)
EXTENDS Marketplace, TLC

Symmetry ==
  Permutations(Users) \cup Permutations(Organizations) \cup Permutations(Rfps)
    \cup Permutations(Handlers)
=============================================================================

----------------------------- MODULE MCListings -----------------------------
(* An instance of Listings for TLC: every list, two organizations. *)
EXTENDS Listings, TLC

Symmetry == Permutations(Organizations)
=============================================================================

-------------------------- MODULE MCFeedModeration --------------------------
(* Instances of FeedModeration for TLC. *)
EXTENDS FeedModeration, TLC

Symmetry ==
  Permutations(Users) \cup Permutations(Problems) \cup Permutations(Posts)
    \cup Permutations(Comments) \cup Permutations(Handlers)
=============================================================================

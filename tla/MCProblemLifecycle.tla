------------------------- MODULE MCProblemLifecycle -------------------------
(* Instances of ProblemLifecycle for TLC. *)
EXTENDS ProblemLifecycle

MCTier == [p \in Problems |-> "D"]

Symmetry == Permutations(Ids) \cup Permutations(Users) \cup Permutations(Objectors)
=============================================================================

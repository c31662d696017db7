---------------------------- MODULE MCCommitments ---------------------------
(* Instances of Commitments and CommitmentsSerial for TLC. *)
EXTENDS CommitmentsSerial, TLC

CONSTANT p1

\* One problem of the lowest tier, the others of the highest.
MCTier == [p \in Problems |-> IF p = p1 THEN "D" ELSE "S"]

\* Keys, handlers, users and the problems of the same tier are interchangeable.
Symmetry ==
  Permutations(Ids) \cup Permutations(Threads) \cup Permutations(Users)
    \cup Permutations(Problems \ {p1})
=============================================================================

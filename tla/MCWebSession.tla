---------------------------- MODULE MCWebSession ----------------------------
(* An instance of WebSession for TLC. *)
EXTENDS WebSession, TLC

Symmetry == Permutations(Tabs) \cup Permutations(Emails)
=============================================================================

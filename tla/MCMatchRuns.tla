----------------------------- MODULE MCMatchRuns -----------------------------
(* Instances of MatchRuns for TLC. *)
EXTENDS MatchRuns
=============================================================================

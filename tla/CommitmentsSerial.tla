-------------------------- MODULE CommitmentsSerial -------------------------
(***************************************************************************)
(* What the commitment engine promises when its requests do not overlap:   *)
(* the documented rules, exactly.  Each of these properties is false with  *)
(* two handlers at a time; Commitments states what is left of it then.     *)
(***************************************************************************)
EXTENDS Commitments, FiniteSetsExt

\* latest_history_status_and_note: the last event that is not the creation.
HistoryStatus(i) ==
  LET relevant == {k \in DOMAIN checkpoints[i] : checkpoints[i][k] # "created"}
  IN  IF relevant = {} THEN "none" ELSE checkpoints[i][Max(relevant)]

\* list_for_user_with_checkpoint_history: a commitment without such an event has
\* no place in the history.
WithHistory(u) ==
  {i \in Ids : /\ Exists(i) /\ commitments[i].user_id = u
               /\ \E k \in DOMAIN checkpoints[i] : checkpoints[i][k] # "created"}

\* What a profile shows of the past and of the present.
CommitmentHistory(u) == {[id |-> i, status |-> HistoryStatus(i)] : i \in WithHistory(u)}
CommittedProblems(u) == {commitments[i].problem_id : i \in Active(u)}

----------------------------------------------------------------------------

\* A user has one active commitment at most on a problem: the lookup that every
\* gated write makes fails for good as soon as there are two.
OneActivePerProblem ==
  \A u \in Users, p \in Problems : Cardinality(ActiveOn(u, p)) <= 1

\* "Terminal states never re-open -- no un-resolving/un-abandoning": the status
\* a commitment ended with is the one it keeps.
TerminalIsFinal ==
  [][\A i \in Ids : commitments[i].status \in Terminal
                      => commitments'[i].status = commitments[i].status]_vars

\* "The latest transition is what's currently true of the commitment": unless a
\* handler is at work on it or died on it, the history of its user shows an ended
\* commitment with the status it has, and an active one as continued or not at all.
HistoryAgreesWithStatus ==
  \A i \in Ids : Exists(i) /\ ~Busy(i) /\ i \notin interrupted =>
    LET shown == {h.status : h \in {g \in CommitmentHistory(commitments[i].user_id) : g.id = i}}
    IN  IF commitments[i].status = "active" THEN shown \subseteq {"continued"}
        ELSE shown = {commitments[i].status}

Earned(i) ==
  CASE commitments[i].status = "resolved"  -> DeltaFor("resolve", commitments[i].problem_id)
    [] commitments[i].status = "abandoned" -> DeltaFor("abandon", commitments[i].problem_id)
    [] OTHER -> 0

\* A user's reputation is what the outcomes of the user's own commitments are
\* worth, each counted once, unless a handler is at work on one or died on one.
ReputationIsEarned ==
  \A u \in Users :
    LET own == {i \in Ids : Exists(i) /\ commitments[i].user_id = u}
    IN  (\A i \in own : ~Busy(i) /\ i \notin interrupted)
          => reputation[u] = MapThenSumSet(Earned, own)

----------------------------------------------------------------------------
(* The promise it implements *)

Promise == INSTANCE FocusSlots WITH
  slots <- [u \in Users |-> CommittedProblems(u)],
  lock  <- [u \in Users |-> [p \in Problems |->
              Max({0} \cup {commitments[i].lock_expires_at : i \in ActiveOn(u, p)})]]

\* Whatever the handlers do, one at a time, looks to a user like an atomic use
\* of focus slots.
KeepsPromise == Promise!Spec
=============================================================================

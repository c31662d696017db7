--------------------------- MODULE ProblemLifecycle --------------------------
(***************************************************************************)
(* The aggregate resolution status of a problem, computed on every read    *)
(* from the commitments on it and their audit rows, and the objections     *)
(* that members raise against a resolution.  It runs beside the handlers   *)
(* of Commitments, on the same tables: the steps of both interleave.  The  *)
(* objection handler commits once, at its end, so one that dies before     *)
(* that leaves nothing behind.                                             *)
(***************************************************************************)
EXTENDS Commitments, SequencesExt

CONSTANTS
  Objectors,  \* handlers of raise_objection in progress at the same time
  Window      \* OBJECTION_WINDOW (7 days in the code), in ticks of the clock

ASSUME WindowAssumption == Window \in Nat \ {0} /\ IsFiniteSet(Objectors)

VARIABLES
  latest_at,   \* occurred_at of the latest audit row of each commitment
  objections,  \* the resolution_objections rows of each problem
  objecting    \* what each handler of raise_objection is doing

lifecycleVars == <<vars, latest_at, objections, objecting>>

----------------------------------------------------------------------------
(* compute_resolution_status *)

\* list_non_abandoned_for_problem: commitments, not users.
Members(p) ==
  {i \in Ids : Exists(i) /\ commitments[i].problem_id = p
                         /\ commitments[i].status # "abandoned"}

Claims(members) ==
  {i \in members : checkpoints[i] # <<>> /\ Last(checkpoints[i]) = "resolved"}

Majority(n) == n \div 2 + 1

\* The literal reading of the rule, which lets a lone member through.
BadThresholdMet(k, n) == k >= Min({2, Majority(n)})
\* Out of reach with fewer than two members.
ThresholdMet(k, n) == n >= 2 /\ k >= Min({2, Majority(n)})

\* Anchored on the last claim instead of the first.
BadWindowOf(members) ==
  LET claims == Claims(members)
      start  == Max({latest_at[i] : i \in claims})
  IN  IF ThresholdMet(Cardinality(claims), Cardinality(members))
      THEN start .. start + Window - 1 ELSE {}
\* The moments from window_start to window_ends_at, none below the threshold.
WindowOf(members) ==
  LET claims == Claims(members)
      start  == Min({latest_at[i] : i \in claims})
  IN  IF ThresholdMet(Cardinality(claims), Cardinality(members))
      THEN start .. start + Window - 1 ELSE {}

Objected(p, window) == {o \in ToSet(objections[p]) : o.raised_at \in window}

Status(p) ==
  LET window == WindowOf(Members(p))
  IN  CASE window = {} -> "open"
        [] Objected(p, window) # {} -> "disputed"
        [] Objected(p, window) = {} /\ now \in window -> "pending_resolution"
        [] OTHER -> "resolved"

----------------------------------------------------------------------------
(* raise_objection *)

LifecycleInit ==
  /\ Init
  /\ latest_at = [i \in Ids |-> 0]
  /\ objections = [p \in Problems |-> <<>>]
  /\ objecting = [o \in Objectors |-> Idle]

GoOn(o, r) == objecting' = [objecting EXCEPT ![o] = r]

StartObjection(o, u, p) ==
  /\ objecting[o] = Idle
  /\ \E i \in Members(p) : commitments[i].user_id = u
  /\ GoOn(o, [step |-> "members", user_id |-> u, problem_id |-> p])
  /\ UNCHANGED <<vars, latest_at, objections>>

\* The status computation reads the members again...
ReadMembers(o) ==
  LET r == objecting[o]
  IN  /\ r.step = "members"
      /\ GoOn(o, [step |-> "claims", user_id |-> r.user_id, problem_id |-> r.problem_id,
                  members |-> Members(r.problem_id)])
      /\ UNCHANGED <<vars, latest_at, objections>>

\* ...and then their latest audit rows; without a window the request ends here.
ReadClaims(o) ==
  LET r == objecting[o]
      w == WindowOf(r.members)
  IN  /\ r.step = "claims"
      /\ GoOn(o, IF w = {} THEN Idle
                 ELSE [step |-> "check", user_id |-> r.user_id,
                       problem_id |-> r.problem_id, window |-> w])
      /\ UNCHANGED <<vars, latest_at, objections>>

\* The check for an earlier objection is forgotten.
BadMayObject(r) == now \in r.window
MayObject(r) ==
  /\ now \in r.window
  /\ \A o \in Objected(r.problem_id, r.window) : o.user_id # r.user_id

CheckObjections(o) ==
  /\ objecting[o].step = "check"
  /\ GoOn(o, IF MayObject(objecting[o])
             THEN [objecting[o] EXCEPT !.step = "insert"] ELSE Idle)
  /\ UNCHANGED <<vars, latest_at, objections>>

\* Stamped with the end of the window it was checked against.
BadObjectionInWindow(r) ==
  [user_id |-> r.user_id, raised_at |-> CHOOSE n \in r.window : \A m \in r.window : m <= n]
\* raised_at is the time of the insert, not that of the check.
ObjectionOf(r) == [user_id |-> r.user_id, raised_at |-> now]

InsertObjection(o) ==
  LET r == objecting[o]
  IN  /\ r.step = "insert"
      /\ objections' = [objections EXCEPT ![r.problem_id] = Append(@, ObjectionOf(r))]
      /\ GoOn(o, Idle)
      /\ UNCHANGED <<vars, latest_at>>

----------------------------------------------------------------------------

\* A step of the commitment engine; the audit row it may add carries the time.
CommitmentStep ==
  /\ Next
  /\ latest_at' = [i \in Ids |-> IF checkpoints'[i] # checkpoints[i] THEN now
                                 ELSE latest_at[i]]
  /\ UNCHANGED <<objections, objecting>>

LifecycleNext ==
  \/ CommitmentStep
  \/ \E o \in Objectors :
       \/ \E u \in Users, p \in Problems : StartObjection(o, u, p)
       \/ ReadMembers(o)
       \/ ReadClaims(o)
       \/ CheckObjections(o)
       \/ InsertObjection(o)

LifecycleSpec == LifecycleInit /\ [][LifecycleNext]_lifecycleVars

----------------------------------------------------------------------------

\* "A lone claim is definitionally not independent corroboration": a problem
\* leaves "open" only when two commitments on it ended as resolved.
Corroborated ==
  \A p \in Problems : Status(p) # "open" =>
    Cardinality({i \in Ids : Exists(i) /\ commitments[i].problem_id = p
                               /\ commitments[i].status = "resolved"}) >= 2

\* A window that has opened never moves and never closes early: no later claim,
\* member or departure changes the days on which an objection counts.
WindowNeverMoves ==
  [][\A p \in Problems : WindowOf(Members(p)) # {}
                           => WindowOf(Members(p))' = WindowOf(Members(p))]_lifecycleVars

\* A verdict is final: a problem shown as resolved or disputed is never shown as
\* anything else, also when an objection is inserted after the window closed.
VerdictIsFinal ==
  [][\A p \in Problems : Status(p) \in {"resolved", "disputed"}
                           => Status(p)' = Status(p)]_lifecycleVars

\* The rows of a user's objections to the present resolution of a problem.
Raised(u, p) ==
  {k \in DOMAIN objections[p] : /\ objections[p][k].user_id = u
                               /\ objections[p][k].raised_at \in WindowOf(Members(p))}

\* "Any committed member may raise exactly ONE objection during that window".  False
\* when two requests of one user overlap: both find no objection, both insert one.
OneObjection == \A p \in Problems, u \in Users : Cardinality(Raised(u, p)) <= 1

\* What is left of it then: one objection for each handler whose check ran before the
\* first insert, however often the user asks again.  Exactly one is promised only to
\* a single handler.
ObjectionsBounded ==
  \A p \in Problems, u \in Users : Cardinality(Raised(u, p)) <= Cardinality(Objectors)

\* No objection precedes the resolution it is raised against: two commitments
\* had claimed by then.
NoPrematureObjection ==
  \A p \in Problems : \A o \in ToSet(objections[p]) :
    Cardinality({i \in Claims(Members(p)) : latest_at[i] <= o.raised_at}) >= 2

\* "Resolution must require more than one user's claim": the claims behind a
\* resolution are those of two users at least.
IndependentClaims ==
  \A p \in Problems : Status(p) # "open" =>
    Cardinality({commitments[i].user_id : i \in Claims(Members(p))}) >= 2

=============================================================================

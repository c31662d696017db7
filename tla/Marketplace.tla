----------------------------- MODULE Marketplace -----------------------------
(***************************************************************************)
(* The marketplace's write paths: organizations and their memberships, the *)
(* RFPs they post against a free quota, the billing ledger, and the bridge *)
(* that promotes an RFP to a civic problem.                                *)
(*                                                                         *)
(* As in Commitments, a step is one database round trip of one handler,    *)
(* and a handler may die between two of its commits.  Solutions,           *)
(* requirements and attributes are left out: each is one insert behind the *)
(* membership gate, and no other write depends on it.                      *)
(***************************************************************************)
EXTENDS Integers, Sequences, FiniteSets

CONSTANTS
  Users, Organizations, Rfps,  \* the last two are primary keys (bounds)
  Handlers,                    \* requests that may be in progress at the same time
  Modes,                       \* resolution modes in use
  QuotaLimit,                  \* rfp_free_quota_limit (100 by default)
  MaxMemberships,              \* bound of the membership rows of a user
  MaxFailures                  \* bound of the handlers that die half way

ASSUME MarketplaceAssumption ==
  /\ Modes \subseteq {"marketplace", "community", "both"}
  /\ QuotaLimit \in Nat /\ MaxMemberships \in Nat /\ MaxFailures \in Nat
  /\ IsFiniteSet(Rfps) /\ IsFiniteSet(Handlers)
  /\ "nothing" \notin Organizations  \* stands for no organization

VARIABLES
  organizations,  \* organizations that exist
  memberships,    \* roles in the membership rows of a user in an organization
  quota_used,     \* rfp_free_quota_used
  rfps,
  billing_events, \* the billing_events rows of each RFP
  promotions,     \* how many problems each RFP was promoted to
  requests,       \* what each handler is doing
  interrupted     \* history: organizations and RFPs whose handler died half way

vars == <<organizations, memberships, quota_used, rfps, billing_events, promotions,
          requests, interrupted>>

orgs == <<organizations, memberships>>
ledger == <<quota_used, billing_events>>
tables == <<orgs, ledger, rfps, promotions, interrupted>>

NoRow == [organization_id |-> "none"]
Idle  == [step |-> "idle"]

Exists(r) == rfps[r] # NoRow
PostedBy(o) == {r \in Rfps : Exists(r) /\ rfps[r].organization_id = o}

Proceed(h, r) == requests' = [requests EXCEPT ![h] = r]

GoTo(h, step) == Proceed(h, [requests[h] EXCEPT !.step = step])

Init ==
  /\ organizations = {}
  /\ memberships = [o \in Organizations |-> [u \in Users |-> <<>>]]
  /\ quota_used = [o \in Organizations |-> 0]
  /\ rfps = [r \in Rfps |-> NoRow]
  /\ billing_events = [r \in Rfps |-> <<>>]
  /\ promotions = [r \in Rfps |-> 0]
  /\ requests = [h \in Handlers |-> Idle]
  /\ interrupted = <<>>

----------------------------------------------------------------------------
(* Organizations and members *)

\* get_membership fails when it finds more than one row.
IsMember(o, u) == o \in organizations /\ Len(memberships[o][u]) = 1
IsAdmin(o, u) == o \in organizations /\ memberships[o][u] = <<"admin">>

\* The creator joins as a member like any other.
BadCreatorRole == "member"
CreatorRole == "admin"

CreateOrganization(h, u) ==
  /\ requests[h] = Idle
  /\ \E o \in Organizations \ organizations :
       /\ organizations' = organizations \cup {o}
       /\ Proceed(h, [step |-> "add_member", organization_id |-> o, user_id |-> u,
                      role |-> CreatorRole, subject |-> o])
  /\ UNCHANGED <<ledger, memberships, rfps, promotions, interrupted>>

\* add_member: an admin's request, which no check keeps from adding a user again.
AdmitMember(h, admin, o, u, role) ==
  /\ requests[h] = Idle
  /\ IsAdmin(o, admin)
  /\ Proceed(h, [step |-> "add_member", organization_id |-> o, user_id |-> u,
                 role |-> role, subject |-> "nothing"])
  /\ UNCHANGED tables

AddMembership(h) ==
  LET q == requests[h]
  IN  /\ q.step = "add_member"
      /\ Len(memberships[q.organization_id][q.user_id]) < MaxMemberships
      /\ memberships' = [memberships EXCEPT ![q.organization_id][q.user_id] = Append(@, q.role)]
      /\ Proceed(h, Idle)
      /\ UNCHANGED <<ledger, organizations, rfps, promotions, interrupted>>

----------------------------------------------------------------------------
(* create_rfp *)

StartRfp(h, u, o) ==
  /\ requests[h] = Idle
  /\ IsMember(o, u)
  /\ Proceed(h, [step |-> "insert_rfp", organization_id |-> o])
  /\ UNCHANGED tables

InsertRfp(h) ==
  LET q == requests[h]
  IN  /\ q.step = "insert_rfp"
      /\ \E r \in Rfps, mode \in Modes :
           /\ ~Exists(r)
           /\ rfps' = [rfps EXCEPT ![r] =
                [organization_id |-> q.organization_id, resolution_mode |-> mode,
                 is_billable |-> FALSE, promoted_problem_id |-> 0]]
           /\ Proceed(h, [step |-> "read_quota", organization_id |-> q.organization_id,
                          subject |-> r, seen |-> 0])
      /\ UNCHANGED <<orgs, ledger, promotions, interrupted>>

\* increment_rfp_quota_used: a read...
ReadQuota(h) ==
  LET q == requests[h]
  IN  /\ q.step = "read_quota"
      /\ Proceed(h, [q EXCEPT !.step = "write_quota", !.seen = quota_used[q.organization_id]])
      /\ UNCHANGED tables

\* ...and an UPDATE to the value computed from it...
WriteQuota(h) ==
  LET q == requests[h]
  IN  /\ q.step = "write_quota"
      /\ quota_used' = [quota_used EXCEPT ![q.organization_id] = q.seen + 1]
      /\ GoTo(h, "compare")
      /\ UNCHANGED <<orgs, rfps, billing_events, promotions, interrupted>>

\* The RFP that uses up the quota is billed.
BadOverQuota(o) == quota_used[o] >= QuotaLimit
OverQuota(o) == quota_used[o] > QuotaLimit

\* ...which is refreshed after the commit, so the comparison sees whatever other
\* handlers have made of the counter.
CompareQuota(h) ==
  LET q == requests[h]
  IN  /\ q.step = "compare"
      /\ GoTo(h, IF OverQuota(q.organization_id) THEN "mark_billable" ELSE "bill_free")
      /\ UNCHANGED tables

MarkBillable(h) ==
  LET q == requests[h]
  IN  /\ q.step = "mark_billable"
      /\ rfps' = [rfps EXCEPT ![q.subject].is_billable = TRUE]
      /\ GoTo(h, "bill_billable")
      /\ UNCHANGED <<orgs, ledger, promotions, interrupted>>

\* One type of event for every posting.
BadEventType(step) == "free_rfp_posted"
EventType(step) == IF step = "bill_free" THEN "free_rfp_posted" ELSE "billable_rfp_posted"

RecordBilling(h) ==
  LET q == requests[h]
  IN  /\ q.step \in {"bill_free", "bill_billable"}
      /\ billing_events' = [billing_events EXCEPT ![q.subject] = Append(@, EventType(q.step))]
      /\ Proceed(h, Idle)
      /\ UNCHANGED <<orgs, quota_used, rfps, promotions, interrupted>>

----------------------------------------------------------------------------
(* promote_rfp_to_problem *)

\* The check for an earlier promotion is forgotten.
BadMayPromote(rfp) == rfp.resolution_mode \in {"community", "both"}
MayPromote(rfp) ==
  rfp.resolution_mode \in {"community", "both"} /\ rfp.promoted_problem_id = 0

StartPromotion(h, u, r) ==
  /\ requests[h] = Idle
  /\ Exists(r)
  /\ IsMember(rfps[r].organization_id, u)
  /\ MayPromote(rfps[r])
  /\ Proceed(h, [step |-> "add_problem", subject |-> r])
  /\ UNCHANGED tables

AddProblem(h) ==
  LET q == requests[h]
  IN  /\ q.step = "add_problem"
      /\ promotions' = [promotions EXCEPT ![q.subject] = @ + 1]
      /\ Proceed(h, [step |-> "link_problem", subject |-> q.subject,
                     problem |-> promotions[q.subject] + 1])
      /\ UNCHANGED <<orgs, ledger, rfps, interrupted>>

LinkProblem(h) ==
  LET q == requests[h]
  IN  /\ q.step = "link_problem"
      /\ rfps' = [rfps EXCEPT ![q.subject].promoted_problem_id = q.problem]
      /\ Proceed(h, Idle)
      /\ UNCHANGED <<orgs, ledger, promotions, interrupted>>

----------------------------------------------------------------------------

\* What a handler has written something of and still has something to write of.
HalfDone(h) ==
  IF requests[h].step \in {"read_quota", "write_quota", "compare", "mark_billable",
                           "bill_free", "bill_billable", "link_problem"}
       \/ (requests[h].step = "add_member" /\ requests[h].subject # "nothing")
  THEN {requests[h].subject} ELSE {}

\* The handler dies: what it committed stays.  One that has committed nothing
\* leaves nothing.
Fail(h) ==
  /\ HalfDone(h) # {}
  /\ Len(interrupted) < MaxFailures
  /\ interrupted' = Append(interrupted, requests[h].subject)
  /\ Proceed(h, Idle)
  /\ UNCHANGED <<orgs, ledger, rfps, promotions>>

Next ==
  \E h \in Handlers :
    \/ \E u \in Users :
         \/ CreateOrganization(h, u)
         \/ \E o \in Organizations :
              \/ StartRfp(h, u, o)
              \/ \E v \in Users, role \in {"admin", "member"} : AdmitMember(h, u, o, v, role)
         \/ \E r \in Rfps : StartPromotion(h, u, r)
    \/ AddMembership(h)
    \/ InsertRfp(h)
    \/ ReadQuota(h)
    \/ WriteQuota(h)
    \/ CompareQuota(h)
    \/ MarkBillable(h)
    \/ RecordBilling(h)
    \/ AddProblem(h)
    \/ LinkProblem(h)
    \/ Fail(h)

Spec == Init /\ [][Next]_vars

----------------------------------------------------------------------------
(* Properties *)

Died(x) == {k \in DOMAIN interrupted : interrupted[k] = x}

Settled(x) == Died(x) = {} /\ \A h \in Handlers : x \notin HalfDone(h)

\* "There is no path to a memberless Organization", except that the creating
\* handler dies: once it is done the organization has a member admitted as an
\* admin.
OrganizationHasAdmin ==
  \A o \in organizations : Settled(o) =>
    \E u \in Users : "admin" \in {memberships[o][u][k] : k \in DOMAIN memberships[o][u]}

\* Every posting writes exactly one billing event, and of the type that the RFP's
\* own flag says, unless the posting handler is at work on it or died on it.
OneTrueBillingEvent ==
  \A r \in Rfps : Exists(r) /\ Settled(r) =>
    billing_events[r] =
      <<IF rfps[r].is_billable THEN "billable_rfp_posted" ELSE "free_rfp_posted">>

\* However many postings overlap, with all the updates the counter then loses: an
\* organization is billed for an RFP only if it has posted more than its quota.
NobodyBilledEarly ==
  \A r \in Rfps : Exists(r) /\ rfps[r].is_billable
    => Cardinality(PostedBy(rfps[r].organization_id)) > QuotaLimit

\* Promotion is check-then-write, so overlapping requests duplicate the problem,
\* and so does one that dies before the link; no RFP is promoted more often than
\* there are such requests.
DuplicatesBounded ==
  \A r \in Rfps : promotions[r] <= Cardinality(Handlers) + Cardinality(Died(r))

=============================================================================

------------------------- MODULE Marketplace_proofs -------------------------
(***************************************************************************)
(* Theorems about organizations, postings, the free quota, the billing     *)
(* ledger and promotions, for any number of users, organizations, RFPs and *)
(* concurrent requests, and any quota.                                     *)
(***************************************************************************)
EXTENDS Marketplace, FiniteSetTheorems, TLAPS

----------------------------------------------------------------------------
(* Types *)

Role == {"admin", "member"}

Billed == {"free_rfp_posted", "billable_rfp_posted"}

Rfp == [organization_id : Organizations, resolution_mode : Modes, is_billable : BOOLEAN,
        promoted_problem_id : Nat]

Subjects == Organizations \cup Rfps \cup {"nothing"}

PostingSteps == {"read_quota", "write_quota", "compare", "mark_billable", "bill_free", "bill_billable"}

AddingMember == [step : {"add_member"}, organization_id : Organizations, user_id : Users,
                 role : Role, subject : Subjects]
Inserting    == [step : {"insert_rfp"}, organization_id : Organizations]
Posting      == [step : PostingSteps, organization_id : Organizations, subject : Rfps, seen : Nat]
Adding       == [step : {"add_problem"}, subject : Rfps]
Linking      == [step : {"link_problem"}, subject : Rfps, problem : Nat \ {0}]

Request == {Idle} \cup AddingMember \cup Inserting \cup Posting \cup Adding \cup Linking

Types ==
  /\ organizations \in SUBSET Organizations
  /\ memberships \in [Organizations -> [Users -> Seq(Role)]]
  /\ quota_used \in [Organizations -> Nat]
  /\ rfps \in [Rfps -> Rfp \cup {NoRow}]
  /\ billing_events \in [Rfps -> Seq(Billed)]
  /\ promotions \in [Rfps -> Nat]
  /\ requests \in [Handlers -> Request]
  /\ interrupted \in Seq(Subjects)

\* The step of a request tells what kind of request it is.
LEMMA RequestKinds ==
  ASSUME Types, NEW h \in Handlers
  PROVE  /\ requests[h] \in Request
         /\ requests[h].step = "add_member" => requests[h] \in AddingMember
         /\ requests[h].step = "insert_rfp" => requests[h] \in Inserting
         /\ requests[h].step \in PostingSteps => requests[h] \in Posting
         /\ requests[h].step = "add_problem" => requests[h] \in Adding
         /\ requests[h].step = "link_problem" => requests[h] \in Linking
<1>1. requests[h] \in Request
  BY DEF Types
<1> QED BY <1>1 DEF Request, Idle, AddingMember, Inserting, Posting, PostingSteps, Adding, Linking

\* A handler goes on; the others stay where they are.
LEMMA Proceeds ==
  ASSUME Types, NEW h \in Handlers, NEW r \in Request, Proceed(h, r)
  PROVE  /\ requests' \in [Handlers -> Request] /\ requests'[h] = r
         /\ \A g \in Handlers \ {h} : requests'[g] = requests[g]
BY DEF Types, Proceed

\* An RFP that exists is one.
LEMMA RfpType ==
  ASSUME Types, NEW r \in Rfps
  PROVE  /\ Exists(r) <=> rfps[r] \in Rfp
         /\ NoRow \notin Rfp
<1>1. NoRow \notin Rfp
  BY DEF NoRow, Rfp
<1>2. rfps[r] \in Rfp \/ rfps[r] = NoRow
  BY DEF Types
<1> QED BY <1>1, <1>2 DEF Exists

\* What may die half way, and on what.
LEMMA HalfDoneSubject ==
  ASSUME NEW h
  PROVE  HalfDone(h) # {} <=>
           \/ requests[h].step \in PostingSteps
           \/ requests[h].step = "link_problem"
           \/ requests[h].step = "add_member" /\ requests[h].subject # "nothing"
BY DEF HalfDone, PostingSteps

----------------------------------------------------------------------------
(* What each action does to requests and tables *)

LEMMA CreateOrganizationDoes ==
  ASSUME Types, NEW h \in Handlers, NEW u \in Users, CreateOrganization(h, u)
  PROVE  \E o \in Organizations, r \in AddingMember :
           /\ requests[h] = Idle /\ o \notin organizations
           /\ organizations' = organizations \cup {o}
           /\ r.organization_id = o /\ r.role = "admin" /\ r.subject = o
           /\ r.step = "add_member" /\ r \in Request /\ Proceed(h, r)
           /\ UNCHANGED <<ledger, memberships, rfps, promotions, interrupted>>
<1>1. PICK o \in Organizations \ organizations :
        /\ organizations' = organizations \cup {o}
        /\ Proceed(h, [step |-> "add_member", organization_id |-> o, user_id |-> u,
                       role |-> CreatorRole, subject |-> o])
  BY DEF CreateOrganization
<1>2. PICK r : r = [step |-> "add_member", organization_id |-> o, user_id |-> u,
                    role |-> CreatorRole, subject |-> o]
  OBVIOUS
<1>3. PICK s \in Subjects : s = o
  BY DEF Subjects
<1>4. r \in AddingMember
  BY <1>2, <1>3 DEF AddingMember, CreatorRole, Role
<1> QED BY <1>1, <1>2, <1>4 DEF CreateOrganization, CreatorRole, Request

LEMMA AdmitMemberDoes ==
  ASSUME Types, NEW h \in Handlers, NEW u \in Users, NEW o \in Organizations, NEW v \in Users,
         NEW role \in Role, AdmitMember(h, u, o, v, role)
  PROVE  \E r \in AddingMember :
           requests[h] = Idle /\ r.step = "add_member" /\ r \in Request /\ Proceed(h, r) /\ UNCHANGED tables
<1>1. PICK s \in Subjects : s = "nothing"
  BY DEF Subjects
<1>2. PICK r : r = [step |-> "add_member", organization_id |-> o, user_id |-> v,
                    role |-> role, subject |-> s]
  OBVIOUS
<1>3. r \in AddingMember /\ r.step = "add_member"
  BY <1>2 DEF AddingMember
<1> QED BY <1>1, <1>2, <1>3 DEF AdmitMember, Request

LEMMA PostingStepDoes ==
  ASSUME Types, NEW h \in Handlers, ReadQuota(h) \/ CompareQuota(h) \/ WriteQuota(h)
  PROVE  \E r \in Posting :
           /\ requests[h] \in Posting /\ r \in Request /\ Proceed(h, r)
           /\ r.subject = requests[h].subject /\ r.organization_id = requests[h].organization_id
           /\ \/ /\ ReadQuota(h) /\ requests[h].step = "read_quota" /\ r.step = "write_quota"
                 /\ r.seen = quota_used[requests[h].organization_id]
              \/ WriteQuota(h) /\ requests[h].step = "write_quota" /\ r.step = "compare"
              \/ /\ CompareQuota(h) /\ requests[h].step = "compare"
                 /\ r.step = IF OverQuota(requests[h].organization_id) THEN "mark_billable" ELSE "bill_free"
<1>1. requests[h] \in Posting
  BY RequestKinds DEF ReadQuota, WriteQuota, CompareQuota, PostingSteps
<1>2. PICK q \in Posting : q = requests[h]
  BY <1>1
<1>3. CASE ReadQuota(h)
  <2>1. PICK n \in Nat : n = quota_used[q.organization_id]
    BY DEF Types, Posting
  <2>2. PICK r : r = [q EXCEPT !.step = "write_quota", !.seen = n]
    OBVIOUS
  <2>3. /\ r \in Posting /\ r.subject = q.subject /\ r.organization_id = q.organization_id
        /\ r.step = "write_quota" /\ r.seen = n
    BY <2>2 DEF Posting, PostingSteps
  <2> QED BY <1>2, <1>3, <2>1, <2>2, <2>3 DEF ReadQuota, Request
<1>4. CASE WriteQuota(h)
  <2>1. PICK r : r = [q EXCEPT !.step = "compare"]
    OBVIOUS
  <2>2. /\ r \in Posting /\ r.subject = q.subject /\ r.organization_id = q.organization_id
        /\ r.step = "compare"
    BY <2>1 DEF Posting, PostingSteps
  <2> QED BY <1>2, <1>4, <2>1, <2>2 DEF WriteQuota, GoTo, Request
<1>5. CASE CompareQuota(h)
  <2>1. PICK s \in PostingSteps :
          s = IF OverQuota(q.organization_id) THEN "mark_billable" ELSE "bill_free"
    BY DEF PostingSteps
  <2>2. PICK r : r = [q EXCEPT !.step = s]
    OBVIOUS
  <2>3. r \in Posting /\ r.subject = q.subject /\ r.organization_id = q.organization_id /\ r.step = s
    BY <2>2 DEF Posting
  <2> QED BY <1>2, <1>5, <2>1, <2>2, <2>3 DEF CompareQuota, GoTo, Request
<1> QED BY <1>3, <1>4, <1>5

LEMMA InsertRfpDoes ==
  ASSUME Types, NEW h \in Handlers, InsertRfp(h)
  PROVE  \E n \in Rfps, row \in Rfp, r \in Posting :
           /\ requests[h].step = "insert_rfp"
           /\ ~Exists(n) /\ rfps' = [rfps EXCEPT ![n] = row]
           /\ ~row.is_billable /\ row.promoted_problem_id = 0
           /\ row.organization_id = r.organization_id
           /\ r.step = "read_quota" /\ r.subject = n /\ r \in Request /\ Proceed(h, r)
           /\ UNCHANGED <<orgs, ledger, promotions, interrupted>>
<1>1. requests[h] \in Inserting /\ requests[h].step = "insert_rfp"
  BY RequestKinds DEF InsertRfp
<1>2. PICK o \in Organizations : o = requests[h].organization_id
  BY <1>1 DEF Inserting
<1>3. PICK n \in Rfps, mode \in Modes :
        /\ ~Exists(n)
        /\ rfps' = [rfps EXCEPT ![n] = [organization_id |-> o, resolution_mode |-> mode,
                                        is_billable |-> FALSE, promoted_problem_id |-> 0]]
        /\ Proceed(h, [step |-> "read_quota", organization_id |-> o, subject |-> n, seen |-> 0])
  BY <1>2 DEF InsertRfp
<1>4. PICK row : row = [organization_id |-> o, resolution_mode |-> mode,
                        is_billable |-> FALSE, promoted_problem_id |-> 0]
  OBVIOUS
<1>5. row \in Rfp /\ ~row.is_billable /\ row.promoted_problem_id = 0 /\ row.organization_id = o
  BY <1>4 DEF Rfp
<1>6. PICK r : r = [step |-> "read_quota", organization_id |-> o, subject |-> n, seen |-> 0]
  OBVIOUS
<1>7. r \in Posting /\ r.step = "read_quota" /\ r.subject = n /\ r.organization_id = o
  BY <1>6 DEF Posting, PostingSteps
<1> QED BY <1>1, <1>3, <1>4, <1>5, <1>6, <1>7 DEF InsertRfp, Request

LEMMA MarkBillableDoes ==
  ASSUME Types, NEW h \in Handlers, MarkBillable(h)
  PROVE  \E n \in Rfps, r \in Posting :
           /\ requests[h] \in Posting /\ requests[h].step = "mark_billable" /\ requests[h].subject = n
           /\ r.step = "bill_billable" /\ r.subject = n
           /\ r.organization_id = requests[h].organization_id
           /\ r \in Request /\ Proceed(h, r)
           /\ rfps' = [rfps EXCEPT ![n].is_billable = TRUE]
           /\ UNCHANGED <<orgs, ledger, promotions, interrupted>>
<1>1. requests[h] \in Posting /\ requests[h].step = "mark_billable"
  BY RequestKinds DEF MarkBillable, PostingSteps
<1>2. PICK q \in Posting : q = requests[h]
  BY <1>1
<1>3. PICK r : r = [q EXCEPT !.step = "bill_billable"]
  OBVIOUS
<1>4. /\ r \in Posting /\ r.subject = q.subject /\ r.organization_id = q.organization_id
      /\ r.step = "bill_billable" /\ q.subject \in Rfps
  BY <1>3 DEF Posting, PostingSteps
<1> QED BY <1>1, <1>2, <1>3, <1>4 DEF MarkBillable, GoTo, Request

LEMMA RecordBillingDoes ==
  ASSUME Types, NEW h \in Handlers, RecordBilling(h)
  PROVE  \E n \in Rfps, ev \in Billed :
           /\ requests[h] \in Posting /\ requests[h].subject = n
           /\ \/ requests[h].step = "bill_free" /\ ev = "free_rfp_posted"
              \/ requests[h].step = "bill_billable" /\ ev = "billable_rfp_posted"
           /\ Idle \in Request /\ Proceed(h, Idle)
           /\ billing_events' = [billing_events EXCEPT ![n] = Append(@, ev)]
           /\ UNCHANGED <<orgs, quota_used, rfps, promotions, interrupted>>
<1>1. requests[h] \in Posting
  BY RequestKinds DEF RecordBilling, PostingSteps
<1>2. PICK n \in Rfps : n = requests[h].subject
  BY <1>1 DEF Posting
<1>3. PICK ev \in Billed : ev = EventType(requests[h].step)
  BY DEF Billed, EventType
<1> QED BY <1>1, <1>2, <1>3 DEF RecordBilling, EventType, Request

LEMMA StartRfpDoes ==
  ASSUME Types, NEW h \in Handlers, NEW u \in Users, NEW o \in Organizations, StartRfp(h, u, o)
  PROVE  \E r \in Inserting :
           requests[h] = Idle /\ r.step = "insert_rfp" /\ r \in Request /\ Proceed(h, r) /\ UNCHANGED tables
<1>1. PICK r : r = [step |-> "insert_rfp", organization_id |-> o]
  OBVIOUS
<1>2. r \in Inserting
  BY <1>1 DEF Inserting
<1> QED BY <1>1, <1>2 DEF StartRfp, Request

LEMMA StartPromotionDoes ==
  ASSUME Types, NEW h \in Handlers, NEW u \in Users, NEW n \in Rfps, StartPromotion(h, u, n)
  PROVE  \E r \in Adding :
           /\ requests[h] = Idle /\ r.step = "add_problem" /\ r.subject = n
           /\ r \in Request /\ Proceed(h, r) /\ UNCHANGED tables
           /\ Exists(n) /\ rfps[n].promoted_problem_id = 0
<1>1. PICK r : r = [step |-> "add_problem", subject |-> n]
  OBVIOUS
<1>2. r \in Adding
  BY <1>1 DEF Adding
<1> QED BY <1>1, <1>2 DEF StartPromotion, MayPromote, Request

LEMMA AddProblemDoes ==
  ASSUME Types, NEW h \in Handlers, AddProblem(h)
  PROVE  \E n \in Rfps, r \in Linking :
           /\ requests[h] \in Adding /\ requests[h].step = "add_problem" /\ requests[h].subject = n
           /\ r.step = "link_problem" /\ r.subject = n /\ r \in Request /\ Proceed(h, r)
           /\ promotions' = [promotions EXCEPT ![n] = @ + 1]
           /\ UNCHANGED <<orgs, ledger, rfps, interrupted>>
<1>1. requests[h] \in Adding /\ requests[h].step = "add_problem"
  BY RequestKinds DEF AddProblem
<1>2. PICK n \in Rfps : n = requests[h].subject
  BY <1>1 DEF Adding
<1>3. PICK p \in Nat \ {0} : p = promotions[n] + 1
  BY DEF Types
<1>4. PICK r : r = [step |-> "link_problem", subject |-> n, problem |-> p]
  OBVIOUS
<1>5. r \in Linking
  BY <1>4 DEF Linking
<1> QED BY <1>1, <1>2, <1>3, <1>4, <1>5 DEF AddProblem, Request

LEMMA LinkProblemDoes ==
  ASSUME Types, NEW h \in Handlers, LinkProblem(h)
  PROVE  \E n \in Rfps, p \in Nat \ {0} :
           /\ requests[h] \in Linking /\ requests[h].step = "link_problem" /\ requests[h].subject = n
           /\ Idle \in Request /\ Proceed(h, Idle)
           /\ rfps' = [rfps EXCEPT ![n].promoted_problem_id = p]
           /\ UNCHANGED <<orgs, ledger, promotions, interrupted>>
<1>1. requests[h] \in Linking /\ requests[h].step = "link_problem"
  BY RequestKinds DEF LinkProblem
<1>2. PICK n \in Rfps, p \in Nat \ {0} : n = requests[h].subject /\ p = requests[h].problem
  BY <1>1 DEF Linking
<1> QED BY <1>1, <1>2 DEF LinkProblem, Request

LEMMA AddMembershipDoes ==
  ASSUME Types, NEW h \in Handlers, AddMembership(h)
  PROVE  \E o \in Organizations, u \in Users, role \in Role :
           /\ requests[h] \in AddingMember /\ requests[h].step = "add_member"
           /\ requests[h].organization_id = o /\ requests[h].role = role
           /\ Idle \in Request /\ Proceed(h, Idle)
           /\ memberships' = [memberships EXCEPT ![o][u] = Append(@, role)]
           /\ UNCHANGED <<ledger, organizations, rfps, promotions, interrupted>>
<1>1. requests[h] \in AddingMember /\ requests[h].step = "add_member"
  BY RequestKinds DEF AddMembership
<1>2. PICK o \in Organizations, u \in Users, role \in Role :
        o = requests[h].organization_id /\ u = requests[h].user_id /\ role = requests[h].role
  BY <1>1 DEF AddingMember
<1> QED BY <1>1, <1>2 DEF AddMembership, Request

LEMMA FailDoes ==
  ASSUME Types, NEW h \in Handlers, Fail(h)
  PROVE  \E x \in Subjects :
           /\ x = requests[h].subject
           /\ \/ requests[h].step \in PostingSteps
              \/ requests[h].step = "link_problem"
              \/ requests[h].step = "add_member" /\ x # "nothing"
           /\ Idle \in Request /\ Proceed(h, Idle)
           /\ interrupted' = Append(interrupted, x)
           /\ UNCHANGED <<orgs, ledger, rfps, promotions>>
<1>1. \/ requests[h].step \in PostingSteps
      \/ requests[h].step = "link_problem"
      \/ requests[h].step = "add_member" /\ requests[h].subject # "nothing"
  BY HalfDoneSubject DEF Fail
<1>2. PICK x \in Subjects : x = requests[h].subject
  <2>1. CASE requests[h].step \in PostingSteps
    BY <2>1, RequestKinds DEF Posting, Subjects
  <2>2. CASE requests[h].step = "link_problem"
    BY <2>2, RequestKinds DEF Linking, Subjects
  <2>3. CASE requests[h].step = "add_member"
    BY <2>3, RequestKinds DEF AddingMember
  <2> QED BY <1>1, <2>1, <2>2, <2>3
<1> QED BY <1>1, <1>2 DEF Fail, Request

----------------------------------------------------------------------------
(* Type correctness *)

\* A handler that works on an RFP works on one that exists: needed to know that
\* what it updates is a row.
RowsExist ==
  \A h \in Handlers : requests[h].step \in PostingSteps \cup {"add_problem", "link_problem"}
    => Exists(requests[h].subject)

TypeInv == Types /\ RowsExist

\* An update of a row keeps the other rows, and what it does not name.
LEMMA RowUpdate ==
  ASSUME Types, NEW n \in Rfps, Exists(n), NEW row \in Rfp, rfps' = [rfps EXCEPT ![n] = row]
  PROVE  /\ rfps' \in [Rfps -> Rfp \cup {NoRow}]
         /\ rfps'[n] = row /\ row # NoRow
         /\ \A r \in Rfps \ {n} : rfps'[r] = rfps[r]
         /\ \A r \in Rfps : Exists(r) => rfps'[r] # NoRow
<1>1. row # NoRow
  BY RfpType
<1> QED BY <1>1 DEF Types, Exists

\* The row after MarkBillable and after LinkProblem.
LEMMA MarkedRow ==
  ASSUME TypeInv, NEW n \in Rfps, Exists(n), rfps' = [rfps EXCEPT ![n].is_billable = TRUE]
  PROVE  \E row \in Rfp : /\ rfps' = [rfps EXCEPT ![n] = row]
                          /\ row.organization_id = rfps[n].organization_id
                          /\ row.promoted_problem_id = rfps[n].promoted_problem_id
                          /\ row.is_billable
<1>1. PICK old \in Rfp : old = rfps[n]
  BY RfpType DEF TypeInv
<1>2. PICK row : row = [old EXCEPT !.is_billable = TRUE]
  OBVIOUS
<1>3. /\ row \in Rfp /\ row.organization_id = old.organization_id
      /\ row.promoted_problem_id = old.promoted_problem_id /\ row.is_billable
  BY <1>2 DEF Rfp
<1>4. rfps' = [rfps EXCEPT ![n] = row]
  BY <1>1, <1>2
<1> QED BY <1>1, <1>3, <1>4

LEMMA LinkedRow ==
  ASSUME TypeInv, NEW n \in Rfps, Exists(n), NEW p \in Nat,
         rfps' = [rfps EXCEPT ![n].promoted_problem_id = p]
  PROVE  \E row \in Rfp : /\ rfps' = [rfps EXCEPT ![n] = row]
                          /\ row.organization_id = rfps[n].organization_id
                          /\ row.promoted_problem_id = p
                          /\ row.is_billable <=> rfps[n].is_billable
<1>1. PICK old \in Rfp : old = rfps[n]
  BY RfpType DEF TypeInv
<1>2. PICK row : row = [old EXCEPT !.promoted_problem_id = p]
  OBVIOUS
<1>3. /\ row \in Rfp /\ row.organization_id = old.organization_id
      /\ row.promoted_problem_id = p /\ row.is_billable = old.is_billable
  BY <1>2 DEF Rfp
<1>4. rfps' = [rfps EXCEPT ![n] = row]
  BY <1>1, <1>2
<1> QED BY <1>1, <1>3, <1>4

\* A handler that goes on with an existing RFP, or with none.
LEMMA RowsStayExisting ==
  ASSUME TypeInv, NEW h \in Handlers, NEW r \in Request, Proceed(h, r),
         \A n \in Rfps : Exists(n) => rfps'[n] # NoRow,
         r.step \in PostingSteps \cup {"add_problem", "link_problem"} => rfps'[r.subject] # NoRow
  PROVE  RowsExist'
<1>1. \A g \in Handlers : requests[g].step \in PostingSteps \cup {"add_problem", "link_problem"}
        => requests[g].subject \in Rfps
  <2> SUFFICES ASSUME NEW g \in Handlers,
                      requests[g].step \in PostingSteps \cup {"add_problem", "link_problem"}
               PROVE  requests[g].subject \in Rfps
    OBVIOUS
  <2> QED BY RequestKinds DEF TypeInv, Posting, Adding, Linking
<1>2. /\ requests'[h] = r
      /\ \A g \in Handlers \ {h} : requests'[g] = requests[g]
  BY Proceeds DEF TypeInv
<1> QED BY <1>1, <1>2 DEF TypeInv, RowsExist, Exists, PostingSteps

\* TypeInv holds initially.
LEMMA InitTypes == Init => TypeInv
<1> SUFFICES ASSUME Init PROVE TypeInv
  OBVIOUS
<1>1. Types
  BY DEF Init, Types, Request
<1>2. RowsExist
  BY DEF Init, RowsExist, Idle, PostingSteps
<1> QED BY <1>1, <1>2 DEF TypeInv

\* TypeInv is inductive.
LEMMA NextTypes == TypeInv /\ [Next]_vars => TypeInv'
<1> SUFFICES ASSUME TypeInv, [Next]_vars PROVE TypeInv'
  OBVIOUS
<1> USE DEF TypeInv
<1>1. ASSUME NEW h \in Handlers, NEW u \in Users, CreateOrganization(h, u) PROVE TypeInv'
  <2>1. PICK o \in Organizations, r \in Request :
          /\ organizations' = organizations \cup {o} /\ r.step = "add_member" /\ Proceed(h, r)
          /\ UNCHANGED <<ledger, memberships, rfps, promotions, interrupted>>
    BY <1>1, CreateOrganizationDoes
  <2>2. RowsExist'
    BY <2>1, RowsStayExisting DEF Exists, PostingSteps
  <2> QED BY <2>1, <2>2, Proceeds DEF Types, ledger
<1>2. ASSUME NEW h \in Handlers, NEW r \in Request, Proceed(h, r), UNCHANGED tables,
             r.step \in PostingSteps \cup {"add_problem", "link_problem"} => Exists(r.subject)
      PROVE  TypeInv'
  <2>1. RowsExist'
    BY <1>2, RowsStayExisting DEF Exists, tables
  <2> QED BY <1>2, <2>1, Proceeds DEF Types, tables, orgs, ledger
<1>3. ASSUME NEW h \in Handlers, AddMembership(h) PROVE TypeInv'
  <2>1. PICK o \in Organizations, u \in Users, role \in Role :
          /\ Idle \in Request /\ Proceed(h, Idle)
          /\ memberships' = [memberships EXCEPT ![o][u] = Append(@, role)]
          /\ UNCHANGED <<ledger, organizations, rfps, promotions, interrupted>>
    BY <1>3, AddMembershipDoes
  <2>2. memberships' \in [Organizations -> [Users -> Seq(Role)]]
    <3>1. PICK m \in [Users -> Seq(Role)] : m = memberships[o]
      BY DEF Types
    <3>2. PICK roles \in Seq(Role) : roles = m[u]
      BY <3>1
    <3>3. [m EXCEPT ![u] = Append(roles, role)] \in [Users -> Seq(Role)]
      BY <3>2
    <3>4. memberships' = [memberships EXCEPT ![o] = [m EXCEPT ![u] = Append(roles, role)]]
      BY <2>1, <3>1, <3>2
    <3> QED BY <3>3, <3>4 DEF Types
  <2>3. RowsExist'
    BY <2>1, RowsStayExisting DEF Exists, PostingSteps, Idle
  <2> QED BY <2>1, <2>2, <2>3, Proceeds DEF Types, ledger
<1>4. ASSUME NEW h \in Handlers, NEW u \in Users, NEW o \in Organizations, NEW v \in Users,
             NEW role \in Role, AdmitMember(h, u, o, v, role)
      PROVE  TypeInv'
  <2>1. PICK r \in Request : r.step = "add_member" /\ Proceed(h, r) /\ UNCHANGED tables
    BY <1>4, AdmitMemberDoes
  <2> QED BY <1>2, <2>1 DEF PostingSteps
<1>5. ASSUME NEW h \in Handlers, NEW u \in Users, NEW o \in Organizations, StartRfp(h, u, o)
      PROVE  TypeInv'
  <2>1. PICK r \in Request : r.step = "insert_rfp" /\ Proceed(h, r) /\ UNCHANGED tables
    BY <1>5, StartRfpDoes
  <2> QED BY <1>2, <2>1 DEF PostingSteps
<1>6. ASSUME NEW h \in Handlers, NEW u \in Users, NEW n \in Rfps, StartPromotion(h, u, n)
      PROVE  TypeInv'
  <2>1. PICK r \in Request : r.subject = n /\ Proceed(h, r) /\ UNCHANGED tables /\ Exists(n)
    BY <1>6, StartPromotionDoes
  <2> QED BY <1>2, <2>1
<1>7. ASSUME NEW h \in Handlers, InsertRfp(h) PROVE TypeInv'
  <2>1. PICK n \in Rfps, row \in Rfp, r \in Request :
          /\ rfps' = [rfps EXCEPT ![n] = row] /\ r.subject = n /\ Proceed(h, r)
          /\ UNCHANGED <<orgs, ledger, promotions, interrupted>>
    BY <1>7, InsertRfpDoes
  <2>2. /\ rfps' \in [Rfps -> Rfp \cup {NoRow}] /\ rfps'[n] = row /\ row # NoRow
        /\ \A m \in Rfps : Exists(m) => rfps'[m] # NoRow
    BY <2>1, RfpType DEF Types, Exists
  <2>3. RowsExist'
    BY <2>1, <2>2, RowsStayExisting
  <2> QED BY <2>1, <2>2, <2>3, Proceeds DEF Types, orgs, ledger
<1>8. ASSUME NEW h \in Handlers, ReadQuota(h) \/ CompareQuota(h) \/ WriteQuota(h) PROVE TypeInv'
  <2>1. PICK r \in Request :
          requests[h] \in Posting /\ r.subject = requests[h].subject /\ Proceed(h, r)
    BY <1>8, PostingStepDoes
  <2>2. /\ requests[h].organization_id \in Organizations /\ requests[h].seen \in Nat
        /\ requests[h].step \in PostingSteps
    BY <2>1 DEF Posting
  <2>3. Exists(requests[h].subject)
    BY <2>2 DEF RowsExist
  <2>4. CASE ReadQuota(h) \/ CompareQuota(h)
    BY <1>2, <2>1, <2>3, <2>4 DEF ReadQuota, CompareQuota
  <2>5. CASE WriteQuota(h)
    <3>1. quota_used' \in [Organizations -> Nat]
      BY <2>2, <2>5 DEF WriteQuota, Types
    <3>2. UNCHANGED <<orgs, rfps, billing_events, promotions, interrupted>>
      BY <2>5 DEF WriteQuota
    <3>3. RowsExist'
      BY <2>1, <2>3, <3>2, RowsStayExisting DEF Exists
    <3> QED BY <2>1, <3>1, <3>2, <3>3, Proceeds DEF Types, orgs
  <2> QED BY <1>8, <2>4, <2>5
<1>9. ASSUME NEW h \in Handlers, MarkBillable(h) PROVE TypeInv'
  <2>1. PICK n \in Rfps, r \in Request :
          /\ requests[h].step = "mark_billable" /\ requests[h].subject = n
          /\ r.subject = n /\ Proceed(h, r)
          /\ rfps' = [rfps EXCEPT ![n].is_billable = TRUE]
          /\ UNCHANGED <<orgs, ledger, promotions, interrupted>>
    BY <1>9, MarkBillableDoes
  <2>2. Exists(n)
    BY <2>1 DEF RowsExist, PostingSteps
  <2>3. PICK row \in Rfp : rfps' = [rfps EXCEPT ![n] = row]
    BY <2>1, <2>2, MarkedRow
  <2>4. /\ rfps' \in [Rfps -> Rfp \cup {NoRow}]
        /\ \A m \in Rfps : Exists(m) => rfps'[m] # NoRow
    BY <2>2, <2>3, RowUpdate
  <2>5. RowsExist'
    BY <2>1, <2>2, <2>4, RowsStayExisting
  <2> QED BY <2>1, <2>4, <2>5, Proceeds DEF Types, orgs, ledger
<1>10. ASSUME NEW h \in Handlers, RecordBilling(h) PROVE TypeInv'
  <2>1. PICK n \in Rfps, ev \in Billed :
          /\ Idle \in Request /\ Proceed(h, Idle)
          /\ billing_events' = [billing_events EXCEPT ![n] = Append(@, ev)]
          /\ UNCHANGED <<orgs, quota_used, rfps, promotions, interrupted>>
    BY <1>10, RecordBillingDoes
  <2>2. PICK events \in Seq(Billed) : events = billing_events[n]
    BY DEF Types
  <2>3. billing_events' \in [Rfps -> Seq(Billed)]
    BY <2>1, <2>2 DEF Types
  <2>4. RowsExist'
    BY <2>1, RowsStayExisting DEF Exists, PostingSteps, Idle
  <2> QED BY <2>1, <2>3, <2>4, Proceeds DEF Types, orgs
<1>11. ASSUME NEW h \in Handlers, AddProblem(h) PROVE TypeInv'
  <2>1. PICK n \in Rfps, r \in Request :
          /\ requests[h].step = "add_problem" /\ requests[h].subject = n
          /\ r.subject = n /\ Proceed(h, r)
          /\ promotions' = [promotions EXCEPT ![n] = @ + 1]
          /\ UNCHANGED <<orgs, ledger, rfps, interrupted>>
    BY <1>11, AddProblemDoes
  <2>2. Exists(n)
    BY <2>1 DEF RowsExist
  <2>3. RowsExist'
    BY <2>1, <2>2, RowsStayExisting DEF Exists
  <2> QED BY <2>1, <2>3, Proceeds DEF Types, orgs, ledger
<1>12. ASSUME NEW h \in Handlers, LinkProblem(h) PROVE TypeInv'
  <2>1. PICK n \in Rfps, p \in Nat :
          /\ requests[h].step = "link_problem" /\ requests[h].subject = n
          /\ Idle \in Request /\ Proceed(h, Idle)
          /\ rfps' = [rfps EXCEPT ![n].promoted_problem_id = p]
          /\ UNCHANGED <<orgs, ledger, promotions, interrupted>>
    BY <1>12, LinkProblemDoes
  <2>2. Exists(n)
    BY <2>1 DEF RowsExist
  <2>3. PICK row \in Rfp : rfps' = [rfps EXCEPT ![n] = row]
    BY <2>1, <2>2, LinkedRow
  <2>4. /\ rfps' \in [Rfps -> Rfp \cup {NoRow}]
        /\ \A m \in Rfps : Exists(m) => rfps'[m] # NoRow
    BY <2>2, <2>3, RowUpdate
  <2>5. RowsExist'
    BY <2>1, <2>4, RowsStayExisting DEF PostingSteps, Idle
  <2> QED BY <2>1, <2>4, <2>5, Proceeds DEF Types, orgs, ledger
<1>13. ASSUME NEW h \in Handlers, Fail(h) PROVE TypeInv'
  <2>1. PICK x \in Subjects :
          /\ Idle \in Request /\ Proceed(h, Idle)
          /\ interrupted' = Append(interrupted, x)
          /\ UNCHANGED <<orgs, ledger, rfps, promotions>>
    BY <1>13, FailDoes
  <2>2. interrupted' \in Seq(Subjects)
    BY <2>1 DEF Types
  <2>3. RowsExist'
    BY <2>1, RowsStayExisting DEF Exists, PostingSteps, Idle
  <2> QED BY <2>1, <2>2, <2>3, Proceeds DEF Types, orgs, ledger
<1>14. CASE UNCHANGED vars
  BY <1>14 DEF vars, orgs, ledger, Types, RowsExist, Exists
<1> QED
  BY <1>1, <1>3, <1>4, <1>5, <1>6, <1>7, <1>8, <1>9, <1>10, <1>11, <1>12, <1>13, <1>14 DEF Next, Role

LEMMA TypesInvariant == Spec => []TypeInv
BY InitTypes, NextTypes, PTL DEF Spec

----------------------------------------------------------------------------
(* Organizations have an admin *)

HasAdmin(o) == \E u \in Users : \E k \in DOMAIN memberships[o][u] : memberships[o][u][k] = "admin"

\* The creating request has yet to admit the creator.
AdminOwed(h, o) ==
  /\ requests[h].step = "add_member" /\ requests[h].role = "admin"
  /\ requests[h].organization_id = o /\ requests[h].subject = o

Interrupted(x) == \E k \in DOMAIN interrupted : interrupted[k] = x

Admins ==
  \A o \in organizations : HasAdmin(o) \/ Interrupted(o) \/ \E h \in Handlers : AdminOwed(h, o)

\* Appending to the history keeps what is in it and adds the one that died.
LEMMA InterruptedGrows ==
  ASSUME Types, NEW x \in Subjects, interrupted' = Append(interrupted, x)
  PROVE  /\ \E k \in DOMAIN interrupted' : interrupted'[k] = x
         /\ \A y : Interrupted(y) => \E k \in DOMAIN interrupted' : interrupted'[k] = y
<1>1. PICK s \in Seq(Subjects) : s = interrupted
  BY DEF Types
<1>2. /\ DOMAIN Append(s, x) = DOMAIN s \cup {Len(s) + 1} /\ Append(s, x)[Len(s) + 1] = x
      /\ \A k \in DOMAIN s : Append(s, x)[k] = s[k]
  OBVIOUS
<1> QED BY <1>1, <1>2 DEF Interrupted

\* A step of a request that admits nobody.
LEMMA AdminsStay ==
  ASSUME TypeInv, Admins, NEW h \in Handlers, NEW r \in Request, Proceed(h, r),
         requests[h].step # "add_member",
         UNCHANGED <<organizations, memberships, interrupted>>
  PROVE  Admins'
<1> SUFFICES ASSUME NEW o \in organizations
             PROVE  \/ \E u \in Users : \E k \in DOMAIN memberships[o][u] : memberships[o][u][k] = "admin"
                    \/ \E k \in DOMAIN interrupted : interrupted[k] = o
                    \/ \E g \in Handlers : /\ requests'[g].step = "add_member"
                                           /\ requests'[g].role = "admin"
                                           /\ requests'[g].organization_id = o
                                           /\ requests'[g].subject = o
  BY DEF Admins, HasAdmin, Interrupted, AdminOwed
<1>1. \A g \in Handlers : AdminOwed(g, o) => requests'[g] = requests[g]
  BY Proceeds DEF TypeInv, AdminOwed
<1> QED BY <1>1 DEF Admins, HasAdmin, Interrupted, AdminOwed

\* Admins holds initially and is inductive.
LEMMA InitAdmins == Init => Admins
BY DEF Init, Admins

LEMMA NextAdmins == TypeInv /\ Admins /\ [Next]_vars => Admins'
<1> SUFFICES ASSUME TypeInv, Admins, [Next]_vars PROVE Admins'
  OBVIOUS
<1> USE DEF TypeInv
<1>1. ASSUME NEW h \in Handlers, NEW u \in Users, CreateOrganization(h, u) PROVE Admins'
  <2>1. PICK o \in Organizations, r \in Request :
          /\ requests[h] = Idle /\ organizations' = organizations \cup {o}
          /\ r.organization_id = o /\ r.role = "admin" /\ r.subject = o /\ r.step = "add_member"
          /\ Proceed(h, r) /\ UNCHANGED <<ledger, memberships, rfps, promotions, interrupted>>
    BY <1>1, CreateOrganizationDoes
  <2>2. \A g \in Handlers : \A p : AdminOwed(g, p) => requests'[g] = requests[g]
    BY <2>1, Proceeds DEF AdminOwed, Idle
  <2>3. requests'[h] = r
    BY <2>1, Proceeds
  <2> SUFFICES ASSUME NEW p \in organizations \cup {o}
               PROVE  \/ \E v \in Users : \E k \in DOMAIN memberships[p][v] : memberships[p][v][k] = "admin"
                      \/ \E k \in DOMAIN interrupted : interrupted[k] = p
                      \/ \E g \in Handlers : /\ requests'[g].step = "add_member"
                                             /\ requests'[g].role = "admin"
                                             /\ requests'[g].organization_id = p
                                             /\ requests'[g].subject = p
    BY <2>1 DEF Admins, HasAdmin, Interrupted, AdminOwed
  <2>4. CASE p = o
    BY <2>1, <2>3, <2>4
  <2>5. CASE p \in organizations
    BY <2>2, <2>5 DEF Admins, HasAdmin, Interrupted, AdminOwed
  <2> QED BY <2>4, <2>5
<1>2. ASSUME NEW h \in Handlers, AddMembership(h) PROVE Admins'
  <2>1. PICK o \in Organizations, u \in Users, role \in Role :
          /\ requests[h].organization_id = o /\ requests[h].role = role
          /\ Idle \in Request /\ Proceed(h, Idle)
          /\ memberships' = [memberships EXCEPT ![o][u] = Append(@, role)]
          /\ UNCHANGED <<ledger, organizations, rfps, promotions, interrupted>>
    BY <1>2, AddMembershipDoes
  <2>2. PICK roles \in Seq(Role) : roles = memberships[o][u]
    BY DEF Types
  <2>3. PICK more : more = Append(roles, role)
    OBVIOUS
  <2>4. /\ memberships'[o][u] = more
        /\ \A p \in Organizations, v \in Users : p # o \/ v # u => memberships'[p][v] = memberships[p][v]
    BY <2>1, <2>2, <2>3 DEF Types
  <2>5. /\ Len(roles) + 1 \in DOMAIN more /\ more[Len(roles) + 1] = role
        /\ \A k \in DOMAIN roles : k \in DOMAIN more /\ more[k] = roles[k]
    BY <2>2, <2>3
  <2>6. \A p \in Organizations : HasAdmin(p) =>
          \E v \in Users : \E k \in DOMAIN memberships'[p][v] : memberships'[p][v][k] = "admin"
    <3> SUFFICES ASSUME NEW p \in Organizations, NEW v \in Users, NEW k \in DOMAIN memberships[p][v],
                        memberships[p][v][k] = "admin"
                 PROVE  k \in DOMAIN memberships'[p][v] /\ memberships'[p][v][k] = "admin"
      BY DEF HasAdmin
    <3> QED BY <2>2, <2>4, <2>5
  <2>7. \A g \in Handlers \ {h} : requests'[g] = requests[g]
    BY <2>1, Proceeds
  <2>8. ASSUME NEW p \in organizations
        PROVE  \/ \E v \in Users : \E k \in DOMAIN memberships'[p][v] : memberships'[p][v][k] = "admin"
               \/ \E k \in DOMAIN interrupted : interrupted[k] = p
               \/ \E g \in Handlers : /\ requests'[g].step = "add_member"
                                      /\ requests'[g].role = "admin"
                                      /\ requests'[g].organization_id = p
                                      /\ requests'[g].subject = p
    <3>1. p \in Organizations
      BY DEF Types
    <3>2. HasAdmin(p) \/ Interrupted(p) \/ \E g \in Handlers : AdminOwed(g, p)
      BY DEF Admins
    <3>3. CASE AdminOwed(h, p)
      <4>1. p = o /\ role = "admin"
        BY <2>1, <3>3 DEF AdminOwed
      <4>2. Len(roles) + 1 \in DOMAIN memberships'[o][u] /\ memberships'[o][u][Len(roles) + 1] = "admin"
        BY <2>4, <2>5, <4>1
      <4> QED BY <4>1, <4>2
    <3>4. CASE \E g \in Handlers \ {h} : AdminOwed(g, p)
      BY <2>7, <3>4 DEF AdminOwed
    <3> QED BY <2>6, <3>1, <3>2, <3>3, <3>4 DEF Interrupted
  <2> QED BY <2>1, <2>8 DEF Admins, HasAdmin, Interrupted, AdminOwed
<1>3. ASSUME NEW h \in Handlers, Fail(h) PROVE Admins'
  <2>1. PICK x \in Subjects :
          /\ x = requests[h].subject
          /\ \/ requests[h].step \in PostingSteps
             \/ requests[h].step = "link_problem"
             \/ requests[h].step = "add_member" /\ x # "nothing"
          /\ Idle \in Request /\ Proceed(h, Idle)
          /\ interrupted' = Append(interrupted, x)
          /\ UNCHANGED <<orgs, ledger, rfps, promotions>>
    BY <1>3, FailDoes
  <2>2. /\ \E k \in DOMAIN interrupted' : interrupted'[k] = x
        /\ \A y : Interrupted(y) => \E k \in DOMAIN interrupted' : interrupted'[k] = y
    BY <2>1, InterruptedGrows
  <2>3. \A g \in Handlers \ {h} : requests'[g] = requests[g]
    BY <2>1, Proceeds
  <2>4. ASSUME NEW p \in organizations
        PROVE  \/ \E v \in Users : \E k \in DOMAIN memberships[p][v] : memberships[p][v][k] = "admin"
               \/ \E k \in DOMAIN interrupted' : interrupted'[k] = p
               \/ \E g \in Handlers : /\ requests'[g].step = "add_member"
                                      /\ requests'[g].role = "admin"
                                      /\ requests'[g].organization_id = p
                                      /\ requests'[g].subject = p
    <3>1. HasAdmin(p) \/ Interrupted(p) \/ \E g \in Handlers : AdminOwed(g, p)
      BY DEF Admins
    <3>2. CASE AdminOwed(h, p)
      BY <2>1, <2>2, <3>2 DEF AdminOwed
    <3>3. CASE \E g \in Handlers \ {h} : AdminOwed(g, p)
      BY <2>3, <3>3 DEF AdminOwed
    <3> QED BY <2>2, <3>1, <3>2, <3>3 DEF HasAdmin
  <2> QED BY <2>1, <2>4 DEF Admins, HasAdmin, Interrupted, AdminOwed, orgs
<1>4. ASSUME NEW h \in Handlers,
             \/ \E u \in Users, o \in Organizations, v \in Users, role \in Role :
                  AdmitMember(h, u, o, v, role)
             \/ \E u \in Users, o \in Organizations : StartRfp(h, u, o)
             \/ \E u \in Users, n \in Rfps : StartPromotion(h, u, n)
      PROVE  Admins'
  <2>1. PICK r \in Request : requests[h] = Idle /\ Proceed(h, r) /\ UNCHANGED tables
    BY <1>4, AdmitMemberDoes, StartRfpDoes, StartPromotionDoes
  <2> QED BY <2>1, AdminsStay DEF tables, orgs, Idle
<1>5. ASSUME NEW h \in Handlers,
             \/ InsertRfp(h) \/ ReadQuota(h) \/ WriteQuota(h) \/ CompareQuota(h) \/ MarkBillable(h)
             \/ RecordBilling(h) \/ AddProblem(h) \/ LinkProblem(h)
      PROVE  Admins'
  <2>1. PICK r \in Request : Proceed(h, r)
    BY <1>5, InsertRfpDoes, PostingStepDoes, MarkBillableDoes, RecordBillingDoes, AddProblemDoes,
       LinkProblemDoes
  <2>2. requests[h].step # "add_member" /\ UNCHANGED <<organizations, memberships, interrupted>>
    BY <1>5 DEF InsertRfp, ReadQuota, WriteQuota, CompareQuota, MarkBillable, RecordBilling, AddProblem,
                LinkProblem, tables, orgs
  <2> QED BY <2>1, <2>2, AdminsStay
<1>6. CASE UNCHANGED vars
  BY <1>6 DEF vars, Admins, HasAdmin, Interrupted, AdminOwed
<1> QED BY <1>1, <1>2, <1>3, <1>4, <1>5, <1>6 DEF Next, Role

\* What the properties call settled.
LEMMA SettledMeans ==
  ASSUME NEW x, Settled(x)
  PROVE  ~Interrupted(x) /\ \A h \in Handlers : x \notin HalfDone(h)
BY DEF Settled, Died, Interrupted

\* An organization whose creating request has run to its end has an admin.
THEOREM AdminIsThere == Spec => []OrganizationHasAdmin
<1>1. TypeInv /\ Admins => OrganizationHasAdmin
  <2> SUFFICES ASSUME TypeInv, Admins, NEW o \in organizations, Settled(o)
               PROVE  \E u \in Users : "admin" \in {memberships[o][u][k] : k \in DOMAIN memberships[o][u]}
    BY DEF OrganizationHasAdmin
  <2>1. ~Interrupted(o) /\ \A h \in Handlers : o \notin HalfDone(h)
    BY SettledMeans
  <2>2. o # "nothing"
    BY MarketplaceAssumption DEF TypeInv, Types
  <2>3. \A h \in Handlers : ~AdminOwed(h, o)
    BY <2>1, <2>2 DEF AdminOwed, HalfDone
  <2> QED BY <2>1, <2>3 DEF Admins, HasAdmin
<1>2. Spec => []Admins
  BY InitAdmins, NextAdmins, TypesInvariant, PTL DEF Spec
<1> QED BY <1>1, <1>2, TypesInvariant, PTL

----------------------------------------------------------------------------
(* Every posting is billed once, as what it is *)

PostingAt(h, r) == requests[h].step \in PostingSteps /\ requests[h].subject = r

TypeTold(r) == IF rfps[r].is_billable THEN "billable_rfp_posted" ELSE "free_rfp_posted"

Unposted == \A r \in Rfps : ~Exists(r) => billing_events[r] = <<>>

\* An RFP is posted by one request, which bills it in its last step.
OnePosting ==
  \A h \in Handlers : requests[h].step \in PostingSteps =>
    /\ billing_events[requests[h].subject] = <<>>
    /\ \A g \in Handlers \ {h} : ~PostingAt(g, requests[h].subject)

FlagTold ==
  \A h \in Handlers : requests[h].step \in PostingSteps =>
    (rfps[requests[h].subject].is_billable <=> requests[h].step = "bill_billable")

OneEvent ==
  \A r \in Rfps : Exists(r) =>
    Interrupted(r) \/ (\E h \in Handlers : PostingAt(h, r)) \/ billing_events[r] = <<TypeTold(r)>>

Billing == Unposted /\ OnePosting /\ FlagTold /\ OneEvent

\* The RFP of a posting request.
LEMMA PostingSubject ==
  ASSUME Types, NEW h \in Handlers, requests[h].step \in PostingSteps
  PROVE  requests[h].subject \in Rfps
BY RequestKinds DEF Posting

\* A step of a request that does not post.
LEMMA BillingStays ==
  ASSUME TypeInv, Billing, NEW h \in Handlers, NEW r \in Request, Proceed(h, r),
         requests[h].step \notin PostingSteps, r.step \notin PostingSteps,
         UNCHANGED <<billing_events, interrupted>>,
         \A n \in Rfps : /\ rfps'[n] # NoRow <=> Exists(n)
                         /\ Exists(n) => (rfps'[n].is_billable <=> rfps[n].is_billable)
  PROVE  Billing'
<1>1. \A g \in Handlers : /\ requests'[g].step \in PostingSteps <=> requests[g].step \in PostingSteps
                          /\ requests[g].step \in PostingSteps => requests'[g] = requests[g]
  BY Proceeds DEF TypeInv
<1>2. Unposted'
  BY DEF Billing, Unposted, Exists
<1>3. OnePosting'
  BY <1>1 DEF Billing, OnePosting, PostingAt, PostingSteps
<1>4. FlagTold'
  <2> SUFFICES ASSUME NEW g \in Handlers, requests'[g].step \in PostingSteps
               PROVE  rfps'[requests'[g].subject].is_billable <=> requests'[g].step = "bill_billable"
    BY DEF FlagTold, PostingSteps
  <2>1. requests[g].step \in PostingSteps /\ requests'[g] = requests[g]
    BY <1>1
  <2>2. requests[g].subject \in Rfps /\ Exists(requests[g].subject)
    BY <2>1, PostingSubject DEF TypeInv, RowsExist
  <2>3. rfps[requests[g].subject].is_billable <=> requests[g].step = "bill_billable"
    BY <2>1 DEF Billing, FlagTold
  <2> QED BY <2>1, <2>2, <2>3
<1>5. OneEvent'
  <2> SUFFICES ASSUME NEW n \in Rfps, rfps'[n] # NoRow
               PROVE  \/ \E k \in DOMAIN interrupted : interrupted[k] = n
                      \/ \E g \in Handlers : requests'[g].step \in PostingSteps /\ requests'[g].subject = n
                      \/ billing_events[n] = <<TypeTold(n)'>>
    BY DEF OneEvent, Exists, Interrupted, PostingAt, PostingSteps, TypeTold
  <2>1. Exists(n) /\ (rfps'[n].is_billable <=> rfps[n].is_billable)
    OBVIOUS
  <2>2. TypeTold(n)' = TypeTold(n)
    BY <2>1 DEF TypeTold
  <2>3. Interrupted(n) \/ (\E g \in Handlers : PostingAt(g, n)) \/ billing_events[n] = <<TypeTold(n)>>
    BY <2>1 DEF Billing, OneEvent
  <2> QED BY <1>1, <2>2, <2>3 DEF Interrupted, PostingAt
<1> QED BY <1>2, <1>3, <1>4, <1>5 DEF Billing

\* A step of a posting request before it marks or bills.
LEMMA PostingMoves ==
  ASSUME TypeInv, Billing, NEW h \in Handlers, NEW r \in Request, Proceed(h, r),
         requests[h].step \in PostingSteps \ {"bill_billable"},
         r.step \in PostingSteps \ {"bill_billable"}, r.subject = requests[h].subject,
         UNCHANGED <<rfps, billing_events, interrupted>>
  PROVE  Billing'
<1>1. \A g \in Handlers :
        /\ requests'[g].step \in PostingSteps <=> requests[g].step \in PostingSteps
        /\ requests[g].step \in PostingSteps =>
             /\ requests'[g].subject = requests[g].subject
             /\ requests'[g].step = "bill_billable" <=> requests[g].step = "bill_billable"
  BY Proceeds DEF TypeInv
<1>2. Unposted'
  BY DEF Billing, Unposted, Exists
<1>3. OnePosting'
  BY <1>1 DEF Billing, OnePosting, PostingAt, PostingSteps
<1>4. FlagTold'
  BY <1>1 DEF Billing, FlagTold, PostingSteps
<1>5. OneEvent'
  BY <1>1 DEF Billing, OneEvent, Exists, Interrupted, PostingAt, PostingSteps, TypeTold
<1> QED BY <1>2, <1>3, <1>4, <1>5 DEF Billing

\* A new RFP is posted by the request that inserted it.
LEMMA InsertBilling == ASSUME TypeInv, Billing, NEW h \in Handlers, InsertRfp(h) PROVE Billing'
<1>1. PICK n \in Rfps, row \in Rfp, r \in Request :
        /\ requests[h].step = "insert_rfp"
        /\ ~Exists(n) /\ rfps' = [rfps EXCEPT ![n] = row] /\ ~row.is_billable
        /\ r.step = "read_quota" /\ r.subject = n /\ Proceed(h, r)
        /\ UNCHANGED <<orgs, ledger, promotions, interrupted>>
  BY InsertRfpDoes DEF TypeInv
<1>2. /\ rfps'[n] = row /\ row # NoRow
      /\ \A m \in Rfps \ {n} : rfps'[m] = rfps[m]
  BY <1>1, RfpType DEF TypeInv, Types
<1>3. /\ requests'[h] = r /\ r.step \in PostingSteps
      /\ \A g \in Handlers \ {h} : requests'[g] = requests[g]
  BY <1>1, Proceeds DEF TypeInv, PostingSteps
<1>4. \A g \in Handlers : requests[g].step \in PostingSteps =>
        g # h /\ requests[g].subject \in Rfps \ {n}
  BY <1>1, PostingSubject DEF TypeInv, RowsExist, PostingSteps
<1>5. UNCHANGED <<billing_events, interrupted>>
  BY <1>1 DEF ledger
<1>6. billing_events[n] = <<>>
  BY <1>1 DEF Billing, Unposted
<1>7. Unposted'
  BY <1>2, <1>5 DEF Billing, Unposted, Exists
<1>8. OnePosting'
  <2> SUFFICES ASSUME NEW g \in Handlers, requests'[g].step \in PostingSteps
               PROVE  /\ billing_events[requests'[g].subject] = <<>>
                      /\ \A f \in Handlers \ {g} : ~ (/\ requests'[f].step \in PostingSteps
                                                      /\ requests'[f].subject = requests'[g].subject)
    BY <1>5 DEF OnePosting, PostingAt, PostingSteps
  <2>1. CASE g = h
    BY <1>1, <1>3, <1>4, <1>6, <2>1
  <2>2. CASE g # h
    BY <1>1, <1>3, <1>4, <2>2 DEF Billing, OnePosting, PostingAt
  <2> QED BY <2>1, <2>2
<1>9. FlagTold'
  <2> SUFFICES ASSUME NEW g \in Handlers, requests'[g].step \in PostingSteps
               PROVE  rfps'[requests'[g].subject].is_billable <=> requests'[g].step = "bill_billable"
    BY DEF FlagTold, PostingSteps
  <2>1. CASE g = h
    BY <1>1, <1>2, <1>3, <2>1
  <2>2. CASE g # h
    BY <1>2, <1>3, <1>4, <2>2 DEF Billing, FlagTold
  <2> QED BY <2>1, <2>2
<1>10. OneEvent'
  <2> SUFFICES ASSUME NEW m \in Rfps, rfps'[m] # NoRow
               PROVE  \/ \E k \in DOMAIN interrupted : interrupted[k] = m
                      \/ \E g \in Handlers : requests'[g].step \in PostingSteps /\ requests'[g].subject = m
                      \/ billing_events[m] = <<TypeTold(m)'>>
    BY <1>5 DEF OneEvent, Exists, Interrupted, PostingAt, PostingSteps, TypeTold
  <2>1. CASE m = n
    BY <1>1, <1>3, <2>1
  <2>2. CASE m # n
    <3>1. Exists(m) /\ TypeTold(m)' = TypeTold(m)
      BY <1>2, <2>2 DEF Exists, TypeTold
    <3>2. Interrupted(m) \/ (\E g \in Handlers : PostingAt(g, m)) \/ billing_events[m] = <<TypeTold(m)>>
      BY <3>1 DEF Billing, OneEvent
    <3> QED BY <1>3, <1>4, <3>1, <3>2 DEF Interrupted, PostingAt
  <2> QED BY <2>1, <2>2
<1> QED BY <1>7, <1>8, <1>9, <1>10 DEF Billing

\* The flag is set by the only request that posts the RFP, before it bills it.
LEMMA MarkBilling == ASSUME TypeInv, Billing, NEW h \in Handlers, MarkBillable(h) PROVE Billing'
<1>1. PICK n \in Rfps, r \in Request :
        /\ requests[h].step = "mark_billable" /\ requests[h].subject = n
        /\ r.step = "bill_billable" /\ r.subject = n /\ Proceed(h, r)
        /\ rfps' = [rfps EXCEPT ![n].is_billable = TRUE]
        /\ UNCHANGED <<orgs, ledger, promotions, interrupted>>
  BY MarkBillableDoes DEF TypeInv
<1>2. Exists(n) /\ requests[h].step \in PostingSteps
  BY <1>1 DEF TypeInv, RowsExist, PostingSteps
<1>3. PICK row \in Rfp : rfps' = [rfps EXCEPT ![n] = row] /\ row.is_billable
  BY <1>1, <1>2, MarkedRow
<1>4. /\ rfps'[n] = row /\ row # NoRow
      /\ \A m \in Rfps \ {n} : rfps'[m] = rfps[m]
  BY <1>2, <1>3, RowUpdate DEF TypeInv
<1>5. /\ requests'[h] = r /\ r.step \in PostingSteps
      /\ \A g \in Handlers \ {h} : requests'[g] = requests[g]
  BY <1>1, Proceeds DEF TypeInv, PostingSteps
<1>6. UNCHANGED <<billing_events, interrupted>>
  BY <1>1 DEF ledger
<1>7. \A g \in Handlers : /\ requests'[g].step \in PostingSteps <=> requests[g].step \in PostingSteps
                          /\ requests[g].step \in PostingSteps => requests'[g].subject = requests[g].subject
  BY <1>1, <1>2, <1>5
<1>8. Unposted'
  BY <1>2, <1>4, <1>6 DEF Billing, Unposted, Exists
<1>9. OnePosting'
  BY <1>6, <1>7 DEF Billing, OnePosting, PostingAt, PostingSteps
<1>10. FlagTold'
  <2> SUFFICES ASSUME NEW g \in Handlers, requests'[g].step \in PostingSteps
               PROVE  rfps'[requests'[g].subject].is_billable <=> requests'[g].step = "bill_billable"
    BY DEF FlagTold, PostingSteps
  <2>1. CASE g = h
    BY <1>1, <1>3, <1>4, <1>5, <2>1
  <2>2. CASE g # h
    <3>1. requests[g].step \in PostingSteps /\ requests'[g] = requests[g]
      BY <1>5, <2>2
    <3>2. requests[g].subject \in Rfps \ {n}
      BY <1>1, <1>2, <2>2, <3>1, PostingSubject DEF TypeInv, Billing, OnePosting, PostingAt
    <3> QED BY <1>4, <3>1, <3>2 DEF Billing, FlagTold
  <2> QED BY <2>1, <2>2
<1>11. OneEvent'
  <2> SUFFICES ASSUME NEW m \in Rfps, rfps'[m] # NoRow
               PROVE  \/ \E k \in DOMAIN interrupted : interrupted[k] = m
                      \/ \E g \in Handlers : requests'[g].step \in PostingSteps /\ requests'[g].subject = m
                      \/ billing_events[m] = <<TypeTold(m)'>>
    BY <1>6 DEF OneEvent, Exists, Interrupted, PostingAt, PostingSteps, TypeTold
  <2>1. CASE m = n
    BY <1>1, <1>5, <2>1
  <2>2. CASE m # n
    <3>1. Exists(m) /\ TypeTold(m)' = TypeTold(m)
      BY <1>4, <2>2 DEF Exists, TypeTold
    <3>2. Interrupted(m) \/ (\E g \in Handlers : PostingAt(g, m)) \/ billing_events[m] = <<TypeTold(m)>>
      BY <3>1 DEF Billing, OneEvent
    <3> QED BY <1>7, <3>1, <3>2 DEF Interrupted, PostingAt
  <2> QED BY <2>1, <2>2
<1> QED BY <1>8, <1>9, <1>10, <1>11 DEF Billing

\* The one event of an RFP says what its flag says.
LEMMA RecordBillingBilling == ASSUME TypeInv, Billing, NEW h \in Handlers, RecordBilling(h) PROVE Billing'
<1>1. PICK n \in Rfps, ev \in Billed :
        /\ requests[h].subject = n
        /\ \/ requests[h].step = "bill_free" /\ ev = "free_rfp_posted"
           \/ requests[h].step = "bill_billable" /\ ev = "billable_rfp_posted"
        /\ Idle \in Request /\ Proceed(h, Idle)
        /\ billing_events' = [billing_events EXCEPT ![n] = Append(@, ev)]
        /\ UNCHANGED <<orgs, quota_used, rfps, promotions, interrupted>>
  BY RecordBillingDoes DEF TypeInv
<1>2. requests[h].step \in PostingSteps
  BY <1>1 DEF PostingSteps
<1>3. Exists(n) /\ billing_events[n] = <<>>
  BY <1>1, <1>2 DEF TypeInv, RowsExist, Billing, OnePosting
<1>4. ev = TypeTold(n)
  BY <1>1, <1>2 DEF Billing, FlagTold, TypeTold
<1>5. /\ billing_events'[n] = <<TypeTold(n)>>
      /\ \A m \in Rfps \ {n} : billing_events'[m] = billing_events[m]
  BY <1>1, <1>3, <1>4 DEF TypeInv, Types
<1>6. \A g \in Handlers : requests'[g].step \in PostingSteps =>
        /\ g # h /\ requests'[g] = requests[g] /\ requests[g].subject # n
        /\ requests[g].subject \in Rfps
  <2> SUFFICES ASSUME NEW g \in Handlers, requests'[g].step \in PostingSteps
               PROVE  /\ g # h /\ requests'[g] = requests[g] /\ requests[g].subject # n
                      /\ requests[g].subject \in Rfps
    OBVIOUS
  <2>1. g # h /\ requests'[g] = requests[g]
    BY <1>1, Proceeds DEF TypeInv, Idle, PostingSteps
  <2>2. requests[g].subject \in Rfps
    BY <2>1, PostingSubject DEF TypeInv
  <2>3. requests[g].subject # n
    BY <1>1, <1>2, <2>1 DEF Billing, OnePosting, PostingAt
  <2> QED BY <2>1, <2>2, <2>3
<1>7. Unposted'
  BY <1>1, <1>3, <1>5 DEF Billing, Unposted, Exists
<1>8. OnePosting'
  BY <1>5, <1>6 DEF Billing, OnePosting, PostingAt, PostingSteps
<1>9. FlagTold'
  BY <1>1, <1>6 DEF Billing, FlagTold, PostingSteps
<1>10. OneEvent'
  <2> SUFFICES ASSUME NEW m \in Rfps, Exists(m)
               PROVE  \/ \E k \in DOMAIN interrupted : interrupted[k] = m
                      \/ \E g \in Handlers : requests'[g].step \in PostingSteps /\ requests'[g].subject = m
                      \/ billing_events'[m] = <<TypeTold(m)>>
    BY <1>1 DEF OneEvent, Exists, Interrupted, PostingAt, PostingSteps, TypeTold
  <2>1. CASE m = n
    BY <1>5, <2>1
  <2>2. CASE m # n
    <3>1. Interrupted(m) \/ (\E g \in Handlers : PostingAt(g, m)) \/ billing_events[m] = <<TypeTold(m)>>
      BY DEF Billing, OneEvent
    <3>2. \A g \in Handlers : PostingAt(g, m) => g # h /\ requests'[g] = requests[g]
      BY <1>1, <2>2, Proceeds DEF PostingAt, TypeInv
    <3> QED BY <1>5, <2>2, <3>1, <3>2 DEF Interrupted, PostingAt
  <2> QED BY <2>1, <2>2
<1> QED BY <1>7, <1>8, <1>9, <1>10 DEF Billing

\* A request that dies while it posts leaves the RFP among the interrupted ones.
LEMMA FailBilling == ASSUME TypeInv, Billing, NEW h \in Handlers, Fail(h) PROVE Billing'
<1>1. PICK x \in Subjects :
        /\ x = requests[h].subject
        /\ Idle \in Request /\ Proceed(h, Idle)
        /\ interrupted' = Append(interrupted, x)
        /\ UNCHANGED <<orgs, ledger, rfps, promotions>>
  BY FailDoes DEF TypeInv
<1>2. /\ \E k \in DOMAIN interrupted' : interrupted'[k] = x
      /\ \A y : Interrupted(y) => \E k \in DOMAIN interrupted' : interrupted'[k] = y
  BY <1>1, InterruptedGrows DEF TypeInv
<1>3. \A g \in Handlers : /\ g # h => requests'[g] = requests[g]
                          /\ requests'[g].step \in PostingSteps => g # h /\ requests'[g] = requests[g]
  BY <1>1, Proceeds DEF TypeInv, Idle, PostingSteps
<1>4. Unposted'
  BY <1>1 DEF Billing, Unposted, Exists, ledger
<1>5. OnePosting'
  BY <1>1, <1>3 DEF Billing, OnePosting, PostingAt, PostingSteps, ledger
<1>6. FlagTold'
  BY <1>1, <1>3 DEF Billing, FlagTold, PostingSteps
<1>7. OneEvent'
  <2> SUFFICES ASSUME NEW m \in Rfps, Exists(m)
               PROVE  \/ \E k \in DOMAIN interrupted' : interrupted'[k] = m
                      \/ \E g \in Handlers : requests'[g].step \in PostingSteps /\ requests'[g].subject = m
                      \/ billing_events[m] = <<TypeTold(m)>>
    BY <1>1 DEF OneEvent, Exists, Interrupted, PostingAt, PostingSteps, TypeTold, ledger
  <2>1. Interrupted(m) \/ (\E g \in Handlers : PostingAt(g, m)) \/ billing_events[m] = <<TypeTold(m)>>
    BY DEF Billing, OneEvent
  <2>2. CASE PostingAt(h, m)
    BY <1>1, <1>2, <2>2 DEF PostingAt
  <2>3. CASE \E g \in Handlers \ {h} : PostingAt(g, m)
    BY <1>3, <2>3 DEF PostingAt
  <2> QED BY <1>2, <2>1, <2>2, <2>3
<1> QED BY <1>4, <1>5, <1>6, <1>7 DEF Billing

\* Billing holds initially and is inductive.
LEMMA InitBilling == Init => Billing
<1> SUFFICES ASSUME Init PROVE Billing
  OBVIOUS
<1>1. \A h \in Handlers : requests[h].step \notin PostingSteps
  BY DEF Init, Idle, PostingSteps
<1>2. Unposted /\ OnePosting /\ FlagTold /\ OneEvent
  BY <1>1 DEF Init, Unposted, OnePosting, FlagTold, OneEvent, Exists
<1> QED BY <1>2 DEF Billing

LEMMA NextBilling == TypeInv /\ Billing /\ [Next]_vars => Billing'
<1> SUFFICES ASSUME TypeInv, Billing, [Next]_vars PROVE Billing'
  OBVIOUS
<1>1. ASSUME NEW h \in Handlers, NEW u \in Users, CreateOrganization(h, u) PROVE Billing'
  <2>1. PICK r \in Request :
          /\ requests[h] = Idle /\ r.step = "add_member" /\ Proceed(h, r)
          /\ UNCHANGED <<ledger, memberships, rfps, promotions, interrupted>>
    BY <1>1, CreateOrganizationDoes DEF TypeInv
  <2> QED BY <2>1, BillingStays DEF Idle, PostingSteps, ledger, Exists
<1>2. ASSUME NEW h \in Handlers,
             \/ \E u \in Users, o \in Organizations, v \in Users, role \in Role :
                  AdmitMember(h, u, o, v, role)
             \/ \E u \in Users, o \in Organizations : StartRfp(h, u, o)
             \/ \E u \in Users, n \in Rfps : StartPromotion(h, u, n)
      PROVE  Billing'
  <2>1. PICK r \in Request :
          /\ requests[h] = Idle /\ r.step \in {"add_member", "insert_rfp", "add_problem"}
          /\ Proceed(h, r) /\ UNCHANGED tables
    BY <1>2, AdmitMemberDoes, StartRfpDoes, StartPromotionDoes DEF TypeInv
  <2> QED BY <2>1, BillingStays DEF Idle, PostingSteps, tables, ledger, Exists
<1>3. ASSUME NEW h \in Handlers, AddMembership(h) PROVE Billing'
  <2>1. /\ requests[h].step = "add_member" /\ Idle \in Request /\ Proceed(h, Idle)
        /\ UNCHANGED <<ledger, organizations, rfps, promotions, interrupted>>
    BY <1>3, AddMembershipDoes DEF TypeInv
  <2> QED BY <2>1, BillingStays DEF Idle, PostingSteps, ledger, Exists
<1>4. ASSUME NEW h \in Handlers, ReadQuota(h) \/ CompareQuota(h) \/ WriteQuota(h) PROVE Billing'
  <2>1. PICK r \in Request :
          /\ r.subject = requests[h].subject /\ Proceed(h, r)
          /\ requests[h].step \in {"read_quota", "write_quota", "compare"}
          /\ r.step \in {"write_quota", "compare", "mark_billable", "bill_free"}
    BY <1>4, PostingStepDoes DEF TypeInv
  <2>2. UNCHANGED <<rfps, billing_events, interrupted>>
    BY <1>4 DEF ReadQuota, CompareQuota, WriteQuota, tables, ledger
  <2> QED BY <2>1, <2>2, PostingMoves DEF PostingSteps
<1>5. ASSUME NEW h \in Handlers, AddProblem(h) PROVE Billing'
  <2>1. PICK r \in Request :
          /\ requests[h].step = "add_problem" /\ r.step = "link_problem" /\ Proceed(h, r)
          /\ UNCHANGED <<orgs, ledger, rfps, interrupted>>
    BY <1>5, AddProblemDoes DEF TypeInv
  <2> QED BY <2>1, BillingStays DEF PostingSteps, ledger, Exists
<1>6. ASSUME NEW h \in Handlers, LinkProblem(h) PROVE Billing'
  <2>1. PICK n \in Rfps, p \in Nat :
          /\ requests[h].step = "link_problem" /\ requests[h].subject = n
          /\ Idle \in Request /\ Proceed(h, Idle)
          /\ rfps' = [rfps EXCEPT ![n].promoted_problem_id = p]
          /\ UNCHANGED <<orgs, ledger, promotions, interrupted>>
    BY <1>6, LinkProblemDoes DEF TypeInv
  <2>2. Exists(n)
    BY <2>1 DEF TypeInv, RowsExist
  <2>3. PICK row \in Rfp : rfps' = [rfps EXCEPT ![n] = row] /\ (row.is_billable <=> rfps[n].is_billable)
    BY <2>1, <2>2, LinkedRow
  <2>4. /\ rfps'[n] = row /\ row # NoRow
        /\ \A m \in Rfps \ {n} : rfps'[m] = rfps[m]
    BY <2>2, <2>3, RowUpdate DEF TypeInv
  <2>5. \A m \in Rfps : /\ rfps'[m] # NoRow <=> Exists(m)
                        /\ Exists(m) => (rfps'[m].is_billable <=> rfps[m].is_billable)
    BY <2>2, <2>3, <2>4 DEF Exists
  <2> QED BY <2>1, <2>5, BillingStays DEF Idle, PostingSteps, ledger
<1>7. CASE UNCHANGED vars
  BY <1>7 DEF vars, ledger, Billing, Unposted, OnePosting, FlagTold, OneEvent, Exists, Interrupted,
              PostingAt, TypeTold, PostingSteps
<1> QED
  BY <1>1, <1>2, <1>3, <1>4, <1>5, <1>6, <1>7, InsertBilling, MarkBilling, RecordBillingBilling, FailBilling
     DEF Next, Role

\* However postings and promotions overlap, every RFP has exactly one billing event,
\* and of the type its flag tells, unless its posting is at work or died.
THEOREM OneTrueEvent == Spec => []OneTrueBillingEvent
<1>1. TypeInv /\ Billing => OneTrueBillingEvent
  <2> SUFFICES ASSUME TypeInv, Billing, NEW r \in Rfps, Exists(r), Settled(r)
               PROVE  billing_events[r] = <<TypeTold(r)>>
    BY DEF OneTrueBillingEvent, TypeTold
  <2>1. ~Interrupted(r) /\ \A h \in Handlers : r \notin HalfDone(h)
    BY SettledMeans
  <2>2. \A h \in Handlers : ~PostingAt(h, r)
    BY <2>1 DEF PostingAt, HalfDone, PostingSteps
  <2> QED BY <2>1, <2>2 DEF Billing, OneEvent
<1>2. Spec => []Billing
  BY InitBilling, NextBilling, TypesInvariant, PTL DEF Spec
<1> QED BY <1>1, <1>2, TypesInvariant, PTL

----------------------------------------------------------------------------
(* Nobody is billed before the quota is used up *)

\* The requests that have posted an RFP and not counted it yet.
Counting(o) ==
  {h \in Handlers : requests[h].step \in {"read_quota", "write_quota"} /\ requests[h].organization_id = o}

\* The counter lags behind the postings by at least the requests that have yet to
\* count, and so does the value that one of them has read: lost updates only ever
\* make the counter too small.
Counted ==
  \A o \in Organizations : quota_used[o] + Cardinality(Counting(o)) <= Cardinality(PostedBy(o))

SeenCounted ==
  \A h \in Handlers, o \in Organizations :
    requests[h].step = "write_quota" /\ requests[h].organization_id = o
      => requests[h].seen + Cardinality(Counting(o)) <= Cardinality(PostedBy(o))

OverSeen ==
  \A h \in Handlers, o \in Organizations :
    requests[h].step = "mark_billable" /\ requests[h].organization_id = o
      => Cardinality(PostedBy(o)) > QuotaLimit

BilledLate ==
  \A r \in Rfps, o \in Organizations :
    Exists(r) /\ rfps[r].is_billable /\ rfps[r].organization_id = o
      => Cardinality(PostedBy(o)) > QuotaLimit

OwnRfp ==
  \A h \in Handlers : requests[h].step \in PostingSteps =>
    rfps[requests[h].subject].organization_id = requests[h].organization_id

Quota == Counted /\ SeenCounted /\ OverSeen /\ OwnRfp /\ BilledLate

\* The sets that are counted are finite, before and after a step.
LEMMA CountsFinite ==
  ASSUME NEW o
  PROVE  /\ IsFiniteSet(Counting(o)) /\ Cardinality(Counting(o)) \in Nat
         /\ IsFiniteSet(PostedBy(o)) /\ Cardinality(PostedBy(o)) \in Nat
<1>1. Counting(o) \subseteq Handlers /\ PostedBy(o) \subseteq Rfps
  BY DEF Counting, PostedBy
<1> QED BY <1>1, MarketplaceAssumption, FS_Subset, FS_CardinalityType

LEMMA CountsFiniteNext ==
  ASSUME NEW o
  PROVE  /\ IsFiniteSet(Counting(o)') /\ Cardinality(Counting(o)') \in Nat
         /\ IsFiniteSet(PostedBy(o)') /\ Cardinality(PostedBy(o)') \in Nat
<1>1. Counting(o)' \subseteq Handlers /\ PostedBy(o)' \subseteq Rfps
  BY DEF Counting, PostedBy
<1> QED BY <1>1, MarketplaceAssumption, FS_Subset, FS_CardinalityType

\* Fewer requests that count and more postings: the counts move apart.
LEMMA CountsMove ==
  ASSUME NEW o, Counting(o)' \subseteq Counting(o), PostedBy(o) \subseteq PostedBy(o)'
  PROVE  /\ Cardinality(Counting(o)') <= Cardinality(Counting(o))
         /\ Cardinality(PostedBy(o)) <= Cardinality(PostedBy(o)')
BY CountsFinite, CountsFiniteNext, FS_Subset

\* Postings stay, as their organization's.
LEMMA PostedStay ==
  ASSUME NEW o,
         \A n \in Rfps : Exists(n) => /\ rfps'[n] # NoRow
                                      /\ rfps'[n].organization_id = rfps[n].organization_id
  PROVE  PostedBy(o) \subseteq PostedBy(o)'
BY DEF PostedBy, Exists

\* The numbers in a posting request.
LEMMA PostingTypes ==
  ASSUME Types, NEW h \in Handlers, requests[h].step \in PostingSteps
  PROVE  /\ requests[h].subject \in Rfps /\ requests[h].organization_id \in Organizations
         /\ requests[h].seen \in Nat
BY RequestKinds DEF Posting

\* A step after which the requests that count, mark and bill are some of those before.
LEMMA QuotaStays ==
  ASSUME TypeInv, Quota, UNCHANGED quota_used,
         \A g \in Handlers : requests'[g].step \in PostingSteps => requests'[g] = requests[g],
         \A n \in Rfps : /\ rfps'[n] # NoRow <=> Exists(n)
                         /\ Exists(n) => /\ rfps'[n].organization_id = rfps[n].organization_id
                                         /\ rfps'[n].is_billable <=> rfps[n].is_billable
  PROVE  Quota'
<1>1. ASSUME NEW o \in Organizations
      PROVE  /\ Cardinality(Counting(o)') <= Cardinality(Counting(o))
             /\ Cardinality(PostedBy(o)) <= Cardinality(PostedBy(o)')
             /\ Cardinality(Counting(o)') \in Nat /\ Cardinality(Counting(o)) \in Nat
             /\ Cardinality(PostedBy(o)') \in Nat /\ Cardinality(PostedBy(o)) \in Nat
  <2>1. Counting(o)' \subseteq Counting(o)
    BY DEF Counting, PostingSteps
  <2>2. PostedBy(o) \subseteq PostedBy(o)'
    BY PostedStay
  <2> QED BY <2>1, <2>2, CountsMove, CountsFinite, CountsFiniteNext
<1>2. QuotaLimit \in Nat
  BY MarketplaceAssumption
<1>3. Counted'
  <2> SUFFICES ASSUME NEW o \in Organizations
               PROVE  quota_used[o] + Cardinality(Counting(o)') <= Cardinality(PostedBy(o)')
    BY DEF Counted, Counting, PostedBy, Exists
  <2>1. quota_used[o] + Cardinality(Counting(o)) <= Cardinality(PostedBy(o)) /\ quota_used[o] \in Nat
    BY DEF Quota, Counted, TypeInv, Types
  <2> QED BY <1>1, <2>1
<1>4. SeenCounted'
  <2> SUFFICES ASSUME NEW g \in Handlers, NEW o \in Organizations,
                      requests'[g].step = "write_quota", requests'[g].organization_id = o
               PROVE  requests'[g].seen + Cardinality(Counting(o)') <= Cardinality(PostedBy(o)')
    BY DEF SeenCounted, Counting, PostedBy, Exists
  <2>1. requests'[g] = requests[g] /\ requests[g].step = "write_quota"
    BY DEF PostingSteps
  <2>2. requests[g].seen \in Nat
    BY <2>1, PostingTypes DEF TypeInv, PostingSteps
  <2>3. requests[g].seen + Cardinality(Counting(o)) <= Cardinality(PostedBy(o))
    BY <2>1 DEF Quota, SeenCounted
  <2> QED BY <1>1, <2>1, <2>2, <2>3
<1>5. OverSeen'
  <2> SUFFICES ASSUME NEW g \in Handlers, NEW o \in Organizations,
                      requests'[g].step = "mark_billable", requests'[g].organization_id = o
               PROVE  Cardinality(PostedBy(o)') > QuotaLimit
    BY DEF OverSeen, PostedBy, Exists
  <2>1. requests'[g] = requests[g]
    BY DEF PostingSteps
  <2>2. Cardinality(PostedBy(o)) > QuotaLimit
    BY <2>1 DEF Quota, OverSeen
  <2> QED BY <1>1, <1>2, <2>2
<1>6. OwnRfp'
  <2> SUFFICES ASSUME NEW g \in Handlers, requests'[g].step \in PostingSteps
               PROVE  rfps'[requests'[g].subject].organization_id = requests'[g].organization_id
    BY DEF OwnRfp, PostingSteps
  <2>1. requests'[g] = requests[g] /\ requests[g].step \in PostingSteps
    OBVIOUS
  <2>2. requests[g].subject \in Rfps /\ Exists(requests[g].subject)
    BY <2>1, PostingTypes DEF TypeInv, RowsExist
  <2> QED BY <2>1, <2>2 DEF Quota, OwnRfp
<1>7. BilledLate'
  <2> SUFFICES ASSUME NEW n \in Rfps, NEW o \in Organizations, rfps'[n] # NoRow,
                      rfps'[n].is_billable, rfps'[n].organization_id = o
               PROVE  Cardinality(PostedBy(o)') > QuotaLimit
    BY DEF BilledLate, PostedBy, Exists
  <2>1. Exists(n) /\ rfps[n].is_billable /\ rfps[n].organization_id = o
    OBVIOUS
  <2>2. Cardinality(PostedBy(o)) > QuotaLimit
    BY <2>1 DEF Quota, BilledLate
  <2> QED BY <1>1, <1>2, <2>2
<1> QED BY <1>3, <1>4, <1>5, <1>6, <1>7 DEF Quota

\* A new RFP, with one more request that has to count it.
LEMMA InsertQuota == ASSUME TypeInv, Quota, NEW h \in Handlers, InsertRfp(h) PROVE Quota'
<1>1. PICK n \in Rfps, row \in Rfp, r \in Posting :
        /\ requests[h].step = "insert_rfp"
        /\ ~Exists(n) /\ rfps' = [rfps EXCEPT ![n] = row] /\ ~row.is_billable
        /\ row.organization_id = r.organization_id
        /\ r.step = "read_quota" /\ r.subject = n /\ r \in Request /\ Proceed(h, r)
        /\ UNCHANGED <<orgs, ledger, promotions, interrupted>>
  BY InsertRfpDoes DEF TypeInv
<1>2. /\ rfps'[n] = row /\ row # NoRow
      /\ \A m \in Rfps \ {n} : rfps'[m] = rfps[m]
  BY <1>1, RfpType DEF TypeInv, Types
<1>3. /\ requests'[h] = r /\ r.step \in PostingSteps
      /\ \A g \in Handlers \ {h} : requests'[g] = requests[g]
  BY <1>1, Proceeds DEF TypeInv, PostingSteps
<1>4. UNCHANGED quota_used
  BY <1>1 DEF ledger
<1>5. QuotaLimit \in Nat
  BY MarketplaceAssumption
<1>6. ASSUME NEW o \in Organizations
      PROVE  /\ \/ /\ Cardinality(Counting(o)') = Cardinality(Counting(o)) + 1
                   /\ Cardinality(PostedBy(o)') = Cardinality(PostedBy(o)) + 1
                \/ /\ Cardinality(Counting(o)') = Cardinality(Counting(o))
                   /\ Cardinality(PostedBy(o)') = Cardinality(PostedBy(o))
             /\ Cardinality(Counting(o)') \in Nat /\ Cardinality(Counting(o)) \in Nat
             /\ Cardinality(PostedBy(o)') \in Nat /\ Cardinality(PostedBy(o)) \in Nat
  <2>1. CASE o = row.organization_id
    <3>1. Counting(o)' = Counting(o) \cup {h} /\ h \notin Counting(o)
      BY <1>1, <1>3, <2>1 DEF Counting
    <3>2. PostedBy(o)' = PostedBy(o) \cup {n} /\ n \notin PostedBy(o)
      BY <1>1, <1>2, <2>1 DEF PostedBy, Exists
    <3> QED BY <3>1, <3>2, CountsFinite, CountsFiniteNext, FS_AddElement
  <2>2. CASE o # row.organization_id
    <3>1. Counting(o)' = Counting(o)
      BY <1>1, <1>3, <2>2 DEF Counting
    <3>2. PostedBy(o)' = PostedBy(o)
      BY <1>1, <1>2, <2>2 DEF PostedBy, Exists
    <3> QED BY <3>1, <3>2, CountsFinite
  <2> QED BY <2>1, <2>2
<1>7. Counted'
  <2> SUFFICES ASSUME NEW o \in Organizations
               PROVE  quota_used[o] + Cardinality(Counting(o)') <= Cardinality(PostedBy(o)')
    BY <1>4 DEF Counted, Counting, PostedBy, Exists
  <2>1. quota_used[o] + Cardinality(Counting(o)) <= Cardinality(PostedBy(o)) /\ quota_used[o] \in Nat
    BY DEF Quota, Counted, TypeInv, Types
  <2> QED BY <1>6, <2>1
<1>8. SeenCounted'
  <2> SUFFICES ASSUME NEW g \in Handlers, NEW o \in Organizations,
                      requests'[g].step = "write_quota", requests'[g].organization_id = o
               PROVE  requests'[g].seen + Cardinality(Counting(o)') <= Cardinality(PostedBy(o)')
    BY DEF SeenCounted, Counting, PostedBy, Exists
  <2>1. requests'[g] = requests[g]
    BY <1>1, <1>3
  <2>2. requests[g].seen \in Nat
    BY <2>1, PostingTypes DEF TypeInv, PostingSteps
  <2>3. requests[g].seen + Cardinality(Counting(o)) <= Cardinality(PostedBy(o))
    BY <2>1 DEF Quota, SeenCounted
  <2> QED BY <1>6, <2>1, <2>2, <2>3
<1>9. OverSeen'
  <2> SUFFICES ASSUME NEW g \in Handlers, NEW o \in Organizations,
                      requests'[g].step = "mark_billable", requests'[g].organization_id = o
               PROVE  Cardinality(PostedBy(o)') > QuotaLimit
    BY DEF OverSeen, PostedBy, Exists
  <2>1. requests'[g] = requests[g]
    BY <1>1, <1>3
  <2>2. Cardinality(PostedBy(o)) > QuotaLimit
    BY <2>1 DEF Quota, OverSeen
  <2> QED BY <1>5, <1>6, <2>2
<1>10. OwnRfp'
  <2> SUFFICES ASSUME NEW g \in Handlers, requests'[g].step \in PostingSteps
               PROVE  rfps'[requests'[g].subject].organization_id = requests'[g].organization_id
    BY DEF OwnRfp, PostingSteps
  <2>1. CASE g = h
    BY <1>1, <1>2, <1>3, <2>1
  <2>2. CASE g # h
    <3>1. requests'[g] = requests[g] /\ requests[g].step \in PostingSteps
      BY <1>3, <2>2
    <3>2. requests[g].subject \in Rfps \ {n}
      BY <1>1, <3>1, PostingTypes DEF TypeInv, RowsExist
    <3> QED BY <1>2, <3>1, <3>2 DEF Quota, OwnRfp
  <2> QED BY <2>1, <2>2
<1>11. BilledLate'
  <2> SUFFICES ASSUME NEW m \in Rfps, NEW o \in Organizations, rfps'[m] # NoRow,
                      rfps'[m].is_billable, rfps'[m].organization_id = o
               PROVE  Cardinality(PostedBy(o)') > QuotaLimit
    BY DEF BilledLate, PostedBy, Exists
  <2>1. Exists(m) /\ rfps[m].is_billable /\ rfps[m].organization_id = o
    BY <1>1, <1>2 DEF Exists
  <2>2. Cardinality(PostedBy(o)) > QuotaLimit
    BY <2>1 DEF Quota, BilledLate
  <2> QED BY <1>5, <1>6, <2>2
<1> QED BY <1>7, <1>8, <1>9, <1>10, <1>11 DEF Quota

\* A posting request takes its next step, on rows that stay where they are.
LEMMA QuotaMoves ==
  ASSUME TypeInv, Quota, NEW h \in Handlers, NEW r \in Posting, r \in Request, Proceed(h, r),
         requests[h] \in Posting,
         r.subject = requests[h].subject, r.organization_id = requests[h].organization_id,
         r.step \in {"read_quota", "write_quota"} => requests[h].step \in {"read_quota", "write_quota"},
         \A n \in Rfps : /\ rfps'[n] # NoRow <=> Exists(n)
                         /\ Exists(n) => rfps'[n].organization_id = rfps[n].organization_id,
         \A n \in Rfps, o \in Organizations :
           Exists(n) /\ rfps[n].organization_id = o /\ rfps'[n].is_billable
             => rfps[n].is_billable \/ Cardinality(PostedBy(o)) > QuotaLimit,
         \A o \in Organizations : o # r.organization_id => quota_used'[o] = quota_used[o],
         quota_used'[r.organization_id] + Cardinality(Counting(r.organization_id)')
           <= Cardinality(PostedBy(r.organization_id)),
         r.step = "write_quota" =>
           r.seen + Cardinality(Counting(r.organization_id)) <= Cardinality(PostedBy(r.organization_id)),
         r.step = "mark_billable" => Cardinality(PostedBy(r.organization_id)) > QuotaLimit
  PROVE  Quota'
<1>1. /\ requests'[h] = r /\ r.step \in PostingSteps /\ requests[h].step \in PostingSteps
      /\ r.subject \in Rfps /\ r.organization_id \in Organizations /\ r.seen \in Nat
      /\ \A g \in Handlers \ {h} : requests'[g] = requests[g]
  BY Proceeds DEF TypeInv, Posting
<1>2. QuotaLimit \in Nat
  BY MarketplaceAssumption
<1>3. ASSUME NEW o \in Organizations
      PROVE  /\ Cardinality(Counting(o)') <= Cardinality(Counting(o))
             /\ PostedBy(o)' = PostedBy(o)
             /\ Cardinality(Counting(o)') \in Nat /\ Cardinality(Counting(o)) \in Nat
             /\ Cardinality(PostedBy(o)) \in Nat
  <2>1. Counting(o)' \subseteq Counting(o)
    BY <1>1 DEF Counting
  <2>2. PostedBy(o)' = PostedBy(o)
    BY DEF PostedBy, Exists
  <2> QED BY <2>1, <2>2, CountsMove, CountsFinite, CountsFiniteNext
<1>4. Counted'
  <2> SUFFICES ASSUME NEW o \in Organizations
               PROVE  quota_used'[o] + Cardinality(Counting(o)') <= Cardinality(PostedBy(o)')
    BY DEF Counted, Counting, PostedBy, Exists
  <2>1. CASE o = r.organization_id
    BY <1>3, <2>1
  <2>2. CASE o # r.organization_id
    <3>1. quota_used[o] + Cardinality(Counting(o)) <= Cardinality(PostedBy(o)) /\ quota_used[o] \in Nat
      BY DEF Quota, Counted, TypeInv, Types
    <3> QED BY <1>3, <2>2, <3>1
  <2> QED BY <2>1, <2>2
<1>5. SeenCounted'
  <2> SUFFICES ASSUME NEW g \in Handlers, NEW o \in Organizations,
                      requests'[g].step = "write_quota", requests'[g].organization_id = o
               PROVE  requests'[g].seen + Cardinality(Counting(o)') <= Cardinality(PostedBy(o)')
    BY DEF SeenCounted, Counting, PostedBy, Exists
  <2>1. CASE g = h
    BY <1>1, <1>3, <2>1
  <2>2. CASE g # h
    <3>1. requests'[g] = requests[g]
      BY <1>1, <2>2
    <3>2. requests[g].seen \in Nat
      BY <3>1, PostingTypes DEF TypeInv, PostingSteps
    <3>3. requests[g].seen + Cardinality(Counting(o)) <= Cardinality(PostedBy(o))
      BY <3>1 DEF Quota, SeenCounted
    <3> QED BY <1>3, <3>1, <3>2, <3>3
  <2> QED BY <2>1, <2>2
<1>6. OverSeen'
  <2> SUFFICES ASSUME NEW g \in Handlers, NEW o \in Organizations,
                      requests'[g].step = "mark_billable", requests'[g].organization_id = o
               PROVE  Cardinality(PostedBy(o)') > QuotaLimit
    BY DEF OverSeen, PostedBy, Exists
  <2>1. CASE g = h
    BY <1>1, <1>3, <2>1
  <2>2. CASE g # h
    <3>1. Cardinality(PostedBy(o)) > QuotaLimit
      BY <1>1, <2>2 DEF Quota, OverSeen
    <3> QED BY <1>3, <3>1
  <2> QED BY <2>1, <2>2
<1>7. OwnRfp'
  <2> SUFFICES ASSUME NEW g \in Handlers, requests'[g].step \in PostingSteps
               PROVE  rfps'[requests'[g].subject].organization_id = requests'[g].organization_id
    BY DEF OwnRfp, PostingSteps
  <2>1. /\ requests[g].step \in PostingSteps
        /\ requests'[g].subject = requests[g].subject
        /\ requests'[g].organization_id = requests[g].organization_id
    BY <1>1
  <2>2. requests[g].subject \in Rfps /\ Exists(requests[g].subject)
    BY <2>1, PostingTypes DEF TypeInv, RowsExist
  <2> QED BY <2>1, <2>2 DEF Quota, OwnRfp
<1>8. BilledLate'
  <2> SUFFICES ASSUME NEW n \in Rfps, NEW o \in Organizations, rfps'[n] # NoRow,
                      rfps'[n].is_billable, rfps'[n].organization_id = o
               PROVE  Cardinality(PostedBy(o)') > QuotaLimit
    BY DEF BilledLate, PostedBy, Exists
  <2>1. Exists(n) /\ rfps[n].organization_id = o
    OBVIOUS
  <2>2. Cardinality(PostedBy(o)) > QuotaLimit
    BY <2>1 DEF Quota, BilledLate
  <2> QED BY <1>3, <2>2
<1> QED BY <1>4, <1>5, <1>6, <1>7, <1>8 DEF Quota

\* The counter is read, written and compared.
LEMMA PostingQuota ==
  ASSUME TypeInv, Quota, NEW h \in Handlers, ReadQuota(h) \/ CompareQuota(h) \/ WriteQuota(h)
  PROVE  Quota'
<1>1. PICK r \in Posting :
        /\ requests[h] \in Posting /\ r \in Request /\ Proceed(h, r)
        /\ r.subject = requests[h].subject /\ r.organization_id = requests[h].organization_id
        /\ \/ /\ ReadQuota(h) /\ requests[h].step = "read_quota" /\ r.step = "write_quota"
              /\ r.seen = quota_used[requests[h].organization_id]
           \/ WriteQuota(h) /\ requests[h].step = "write_quota" /\ r.step = "compare"
           \/ /\ CompareQuota(h) /\ requests[h].step = "compare"
              /\ r.step = IF OverQuota(requests[h].organization_id) THEN "mark_billable" ELSE "bill_free"
  BY PostingStepDoes DEF TypeInv
<1>2. PICK o \in Organizations : o = r.organization_id
  BY DEF Posting
<1>3. /\ requests'[h] = r
      /\ \A g \in Handlers \ {h} : requests'[g] = requests[g]
  BY <1>1, Proceeds DEF TypeInv
<1>4. UNCHANGED rfps
  BY <1>1 DEF ReadQuota, WriteQuota, CompareQuota, tables
<1>5. /\ Cardinality(Counting(o)') \in Nat /\ Cardinality(Counting(o)) \in Nat
      /\ Cardinality(PostedBy(o)) \in Nat /\ quota_used[o] \in Nat
      /\ quota_used[o] + Cardinality(Counting(o)) <= Cardinality(PostedBy(o))
  BY CountsFinite, CountsFiniteNext DEF Quota, Counted, TypeInv, Types
<1>6. CASE ReadQuota(h) /\ requests[h].step = "read_quota"
  <2>1. r.step = "write_quota" /\ r.seen = quota_used[o]
    BY <1>1, <1>2, <1>6
  <2>2. UNCHANGED quota_used
    BY <1>6 DEF ReadQuota, tables, ledger
  <2>3. Counting(o)' = Counting(o)
    BY <1>1, <1>3, <1>6, <2>1 DEF Counting
  <2> QED BY <1>1, <1>2, <1>4, <1>5, <1>6, <2>1, <2>2, <2>3, QuotaMoves DEF Exists
<1>7. CASE WriteQuota(h) /\ requests[h].step = "write_quota"
  <2>1. r.step = "compare" /\ requests[h].organization_id = o
    BY <1>1, <1>2, <1>7
  <2>2. quota_used' = [quota_used EXCEPT ![o] = requests[h].seen + 1]
    BY <1>7, <2>1 DEF WriteQuota
  <2>3. requests[h].seen \in Nat /\ requests[h].seen + Cardinality(Counting(o)) <= Cardinality(PostedBy(o))
    BY <1>1, <1>7, <2>1 DEF Quota, SeenCounted, Posting
  <2>4. Counting(o)' = Counting(o) \ {h} /\ h \in Counting(o)
    BY <1>3, <1>7, <2>1 DEF Counting
  <2>5. Cardinality(Counting(o)') = Cardinality(Counting(o)) - 1
    BY <2>4, CountsFinite, FS_RemoveElement
  <2>6. /\ quota_used'[o] = requests[h].seen + 1
        /\ \A p \in Organizations : p # o => quota_used'[p] = quota_used[p]
    BY <2>2 DEF TypeInv, Types
  <2>7. quota_used'[o] + Cardinality(Counting(o)') <= Cardinality(PostedBy(o))
    BY <1>5, <2>3, <2>5, <2>6
  <2> QED BY <1>1, <1>2, <1>4, <2>1, <2>6, <2>7, QuotaMoves DEF Exists
<1>8. CASE CompareQuota(h) /\ requests[h].step = "compare"
  <2>1. r.step = IF OverQuota(o) THEN "mark_billable" ELSE "bill_free"
    BY <1>1, <1>2, <1>8
  <2>2. UNCHANGED quota_used
    BY <1>8 DEF CompareQuota, tables, ledger
  <2>3. Counting(o)' = Counting(o)
    BY <1>3, <1>8, <2>1 DEF Counting
  <2>4. r.step = "mark_billable" => Cardinality(PostedBy(o)) > QuotaLimit
    BY <1>5, <2>1, MarketplaceAssumption DEF OverQuota
  <2> QED BY <1>1, <1>2, <1>4, <1>5, <2>1, <2>2, <2>3, <2>4, QuotaMoves DEF Exists
<1> QED BY <1>1, <1>6, <1>7, <1>8

\* The flag is set by a request that saw the counter above the quota.
LEMMA MarkQuota == ASSUME TypeInv, Quota, NEW h \in Handlers, MarkBillable(h) PROVE Quota'
<1>1. PICK n \in Rfps, r \in Posting :
        /\ requests[h] \in Posting /\ requests[h].step = "mark_billable" /\ requests[h].subject = n
        /\ r.step = "bill_billable" /\ r.subject = n
        /\ r.organization_id = requests[h].organization_id
        /\ r \in Request /\ Proceed(h, r)
        /\ rfps' = [rfps EXCEPT ![n].is_billable = TRUE]
        /\ UNCHANGED <<orgs, ledger, promotions, interrupted>>
  BY MarkBillableDoes DEF TypeInv
<1>2. PICK o \in Organizations : o = r.organization_id
  BY DEF Posting
<1>3. Exists(n) /\ rfps[n].organization_id = o /\ Cardinality(PostedBy(o)) > QuotaLimit
  BY <1>1, <1>2 DEF TypeInv, RowsExist, PostingSteps, Quota, OwnRfp, OverSeen
<1>4. PICK row \in Rfp :
        rfps' = [rfps EXCEPT ![n] = row] /\ row.organization_id = rfps[n].organization_id
  BY <1>1, <1>3, MarkedRow
<1>5. /\ rfps'[n] = row /\ row # NoRow
      /\ \A m \in Rfps \ {n} : rfps'[m] = rfps[m]
  BY <1>3, <1>4, RowUpdate DEF TypeInv
<1>6. \A m \in Rfps : /\ rfps'[m] # NoRow <=> Exists(m)
                      /\ Exists(m) => rfps'[m].organization_id = rfps[m].organization_id
  BY <1>3, <1>4, <1>5 DEF Exists
<1>7. \A m \in Rfps, p \in Organizations :
        Exists(m) /\ rfps[m].organization_id = p /\ rfps'[m].is_billable
          => rfps[m].is_billable \/ Cardinality(PostedBy(p)) > QuotaLimit
  BY <1>3, <1>5
<1>8. UNCHANGED quota_used
  BY <1>1 DEF ledger
<1>9. Counting(o)' = Counting(o)
  BY <1>1, Proceeds DEF TypeInv, Counting
<1>10. quota_used[o] + Cardinality(Counting(o)) <= Cardinality(PostedBy(o))
  BY DEF Quota, Counted
<1> QED BY <1>1, <1>2, <1>6, <1>7, <1>8, <1>9, <1>10, QuotaMoves

LEMMA InitQuota == Init => Quota
<1> SUFFICES ASSUME Init PROVE Quota
  OBVIOUS
<1>1. ASSUME NEW o \in Organizations
      PROVE  quota_used[o] + Cardinality(Counting(o)) <= Cardinality(PostedBy(o))
  <2>1. Counting(o) = {} /\ PostedBy(o) = {} /\ quota_used[o] = 0
    BY DEF Init, Counting, PostedBy, Exists, Idle
  <2> QED BY <2>1, FS_EmptySet
<1> QED BY <1>1 DEF Init, Quota, Counted, SeenCounted, OverSeen, OwnRfp, BilledLate, Exists, Idle, PostingSteps

LEMMA NextQuota == TypeInv /\ Quota /\ [Next]_vars => Quota'
<1> SUFFICES ASSUME TypeInv, Quota, [Next]_vars PROVE Quota'
  OBVIOUS
<1> USE DEF TypeInv
<1>1. ASSUME NEW h \in Handlers, NEW r \in Request, r.step \notin PostingSteps, Proceed(h, r),
             UNCHANGED <<quota_used, rfps>>
      PROVE  Quota'
  <2>1. \A g \in Handlers : requests'[g].step \in PostingSteps => requests'[g] = requests[g]
    BY <1>1, Proceeds
  <2> QED BY <1>1, <2>1, QuotaStays DEF Exists
<1>2. ASSUME NEW h \in Handlers, NEW u \in Users, CreateOrganization(h, u) PROVE Quota'
  BY <1>1, <1>2, CreateOrganizationDoes DEF PostingSteps, ledger
<1>3. ASSUME NEW h \in Handlers, NEW u \in Users, NEW o \in Organizations, NEW v \in Users,
             NEW role \in Role, AdmitMember(h, u, o, v, role)
      PROVE  Quota'
  BY <1>1, <1>3, AdmitMemberDoes DEF PostingSteps, tables, ledger
<1>4. ASSUME NEW h \in Handlers, NEW u \in Users, NEW o \in Organizations, StartRfp(h, u, o)
      PROVE  Quota'
  BY <1>1, <1>4, StartRfpDoes DEF PostingSteps, tables, ledger
<1>5. ASSUME NEW h \in Handlers, NEW u \in Users, NEW n \in Rfps, StartPromotion(h, u, n) PROVE Quota'
  BY <1>1, <1>5, StartPromotionDoes DEF PostingSteps, tables, ledger
<1>6. ASSUME NEW h \in Handlers, AddMembership(h) \/ RecordBilling(h) \/ Fail(h) PROVE Quota'
  <2>1. Idle \in Request /\ Proceed(h, Idle) /\ UNCHANGED <<quota_used, rfps>>
    BY <1>6, AddMembershipDoes, RecordBillingDoes, FailDoes DEF ledger
  <2> QED BY <1>1, <2>1 DEF Idle, PostingSteps
<1>7. ASSUME NEW h \in Handlers, AddProblem(h) PROVE Quota'
  BY <1>1, <1>7, AddProblemDoes DEF PostingSteps, ledger
<1>8. ASSUME NEW h \in Handlers, LinkProblem(h) PROVE Quota'
  <2>1. PICK n \in Rfps, p \in Nat :
          /\ requests[h].step = "link_problem" /\ requests[h].subject = n
          /\ Idle \in Request /\ Proceed(h, Idle)
          /\ rfps' = [rfps EXCEPT ![n].promoted_problem_id = p]
          /\ UNCHANGED <<orgs, ledger, promotions, interrupted>>
    BY <1>8, LinkProblemDoes
  <2>2. Exists(n)
    BY <2>1 DEF RowsExist
  <2>3. PICK row \in Rfp : /\ rfps' = [rfps EXCEPT ![n] = row]
                           /\ row.organization_id = rfps[n].organization_id
                           /\ row.is_billable <=> rfps[n].is_billable
    BY <2>1, <2>2, LinkedRow
  <2>4. /\ rfps'[n] = row /\ row # NoRow
        /\ \A m \in Rfps \ {n} : rfps'[m] = rfps[m]
    BY <2>2, <2>3, RowUpdate
  <2>5. \A m \in Rfps : /\ rfps'[m] # NoRow <=> Exists(m)
                        /\ Exists(m) => /\ rfps'[m].organization_id = rfps[m].organization_id
                                        /\ rfps'[m].is_billable <=> rfps[m].is_billable
    BY <2>2, <2>3, <2>4 DEF Exists
  <2>6. \A g \in Handlers : requests'[g].step \in PostingSteps => requests'[g] = requests[g]
    BY <2>1, Proceeds DEF Idle, PostingSteps
  <2> QED BY <2>1, <2>5, <2>6, QuotaStays DEF ledger
<1>9. CASE UNCHANGED vars
  BY <1>9, QuotaStays DEF vars, ledger, Exists
<1> QED
  BY <1>2, <1>3, <1>4, <1>5, <1>6, <1>7, <1>8, <1>9, InsertQuota, PostingQuota, MarkQuota DEF Next, Role

\* However postings overlap, and whatever updates of the counter are lost: nobody is
\* billed for an RFP before the quota is used up.
THEOREM NobodyIsBilledEarly == Spec => []NobodyBilledEarly
<1>1. TypeInv /\ Quota => NobodyBilledEarly
  <2> SUFFICES ASSUME TypeInv, Quota, NEW r \in Rfps, Exists(r), rfps[r].is_billable
               PROVE  Cardinality(PostedBy(rfps[r].organization_id)) > QuotaLimit
    BY DEF NobodyBilledEarly
  <2>1. PICK o \in Organizations : o = rfps[r].organization_id
    BY RfpType DEF TypeInv, Rfp
  <2> QED BY <2>1 DEF Quota, BilledLate
<1>2. Spec => []Quota
  BY InitQuota, NextQuota, TypesInvariant, PTL DEF Spec
<1> QED BY <1>1, <1>2, TypesInvariant, PTL

----------------------------------------------------------------------------
(* Promotions *)

\* The requests that are past the check for an earlier promotion: they have yet to
\* add the problem, or to link it.
ToAdd(r) == {h \in Handlers : requests[h].step = "add_problem" /\ requests[h].subject = r}
ToLink(r) == {h \in Handlers : requests[h].step = "link_problem" /\ requests[h].subject = r}

Unlinked(r) == Exists(r) => rfps[r].promoted_problem_id = 0

\* Until the first link, whoever added a problem has still to link it or died; and
\* only until then do requests pass the check.
UnlinkedBounded ==
  \A r \in Rfps : Unlinked(r) => promotions[r] <= Cardinality(ToLink(r)) + Cardinality(Died(r))

AddsBounded ==
  \A r \in Rfps :
    promotions[r] + Cardinality(ToAdd(r)) <= Cardinality(Handlers) + Cardinality(Died(r))

Promoted == UnlinkedBounded /\ AddsBounded

LEMMA PromotersFinite ==
  ASSUME Types, NEW r
  PROVE  /\ IsFiniteSet(ToAdd(r)) /\ Cardinality(ToAdd(r)) \in Nat
         /\ IsFiniteSet(ToLink(r)) /\ Cardinality(ToLink(r)) \in Nat
         /\ IsFiniteSet(Died(r)) /\ Cardinality(Died(r)) \in Nat
         /\ Cardinality(ToAdd(r)) + Cardinality(ToLink(r)) <= Cardinality(Handlers)
         /\ Cardinality(Handlers) \in Nat
<1>1. ToAdd(r) \subseteq Handlers /\ ToLink(r) \subseteq Handlers /\ ToAdd(r) \cap ToLink(r) = {}
  BY DEF ToAdd, ToLink
<1>2. IsFiniteSet(Handlers) /\ IsFiniteSet(ToAdd(r)) /\ IsFiniteSet(ToLink(r))
  BY <1>1, MarketplaceAssumption, FS_Subset
<1>3. Cardinality(ToAdd(r) \cup ToLink(r)) <= Cardinality(Handlers)
  BY <1>1, <1>2, FS_Subset
<1>4. /\ Cardinality(ToAdd(r) \cup ToLink(r)) = Cardinality(ToAdd(r)) + Cardinality(ToLink(r))
                                               - Cardinality(ToAdd(r) \cap ToLink(r))
      /\ Cardinality(ToAdd(r) \cap ToLink(r)) = 0
  BY <1>1, <1>2, FS_Union, FS_EmptySet
<1>5. IsFiniteSet(Died(r))
  <2>1. Died(r) \subseteq 1..Len(interrupted) /\ Len(interrupted) \in Nat
    BY DEF Died, Types
  <2>2. IsFiniteSet(1..Len(interrupted))
    BY <2>1, FS_Interval
  <2> QED BY <2>1, <2>2, FS_Subset
<1>6. /\ Cardinality(ToAdd(r)) \in Nat /\ Cardinality(ToLink(r)) \in Nat
      /\ Cardinality(Died(r)) \in Nat /\ Cardinality(Handlers) \in Nat
  BY <1>2, <1>5, FS_CardinalityType
<1> QED BY <1>2, <1>3, <1>4, <1>5, <1>6

\* A handler that dies is one more, for what it worked on.
LEMMA DiedGrows ==
  ASSUME Types, NEW x \in Subjects, interrupted' = Append(interrupted, x), NEW r
  PROVE  /\ Cardinality(Died(r)') \in Nat
         /\ r # x => Cardinality(Died(r)') = Cardinality(Died(r))
         /\ r = x => Cardinality(Died(r)') = Cardinality(Died(r)) + 1
<1>1. PICK n \in Nat : n = Len(interrupted) /\ DOMAIN interrupted = 1..n
  BY DEF Types
<1>2. /\ DOMAIN interrupted' = 1..(n + 1) /\ interrupted'[n + 1] = x
      /\ \A k \in 1..n : interrupted'[k] = interrupted[k]
  BY <1>1 DEF Types
<1>3. n + 1 \notin Died(r)
  BY <1>1 DEF Died
<1>4. CASE r = x
  <2>1. Died(r)' = Died(r) \cup {n + 1}
    BY <1>1, <1>2, <1>4 DEF Died
  <2>2. Cardinality(Died(r) \cup {n + 1}) = Cardinality(Died(r)) + 1 /\ Cardinality(Died(r)) \in Nat
    BY <1>3, PromotersFinite, FS_AddElement
  <2> QED BY <1>4, <2>1, <2>2
<1>5. CASE r # x
  <2>1. Died(r)' = Died(r)
    BY <1>1, <1>2, <1>5 DEF Died
  <2> QED BY <1>5, <2>1, PromotersFinite
<1> QED BY <1>4, <1>5

\* A step after which the same requests add and link.
LEMMA PromotedStays ==
  ASSUME TypeInv, Promoted, UNCHANGED promotions,
         \A g \in Handlers :
           \/ requests'[g] = requests[g]
           \/ {requests[g].step, requests'[g].step} \cap {"add_problem", "link_problem"} = {},
         \A n \in Rfps : rfps'[n] # NoRow => Exists(n) \/ rfps'[n].promoted_problem_id = 0,
         \A n \in Rfps : Exists(n) =>
           rfps'[n] # NoRow /\ rfps'[n].promoted_problem_id = rfps[n].promoted_problem_id,
         UNCHANGED interrupted \/ \E x \in Subjects : interrupted' = Append(interrupted, x)
  PROVE  Promoted'
<1> SUFFICES ASSUME NEW r \in Rfps
             PROVE  /\ (rfps'[r] # NoRow => rfps'[r].promoted_problem_id = 0)
                         => promotions[r] <= Cardinality(ToLink(r)') + Cardinality(Died(r)')
                    /\ promotions[r] + Cardinality(ToAdd(r)')
                         <= Cardinality(Handlers) + Cardinality(Died(r)')
  BY DEF Promoted, UnlinkedBounded, AddsBounded, Unlinked, Exists, ToAdd, ToLink, Died
<1>1. ToAdd(r)' = ToAdd(r) /\ ToLink(r)' = ToLink(r)
  BY DEF ToAdd, ToLink
<1>2. /\ Cardinality(ToAdd(r)) \in Nat /\ Cardinality(ToLink(r)) \in Nat
      /\ Cardinality(Died(r)) \in Nat /\ Cardinality(Handlers) \in Nat /\ promotions[r] \in Nat
  BY PromotersFinite DEF TypeInv, Types
<1>3. Cardinality(Died(r)') \in Nat /\ Cardinality(Died(r)) <= Cardinality(Died(r)')
  <2>1. CASE UNCHANGED interrupted
    BY <1>2, <2>1 DEF Died
  <2>2. CASE \E x \in Subjects : interrupted' = Append(interrupted, x)
    BY <1>2, <2>2, DiedGrows DEF TypeInv
  <2> QED BY <2>1, <2>2
<1>4. /\ Unlinked(r) => promotions[r] <= Cardinality(ToLink(r)) + Cardinality(Died(r))
      /\ promotions[r] + Cardinality(ToAdd(r)) <= Cardinality(Handlers) + Cardinality(Died(r))
  BY DEF Promoted, UnlinkedBounded, AddsBounded
<1> QED BY <1>1, <1>2, <1>3, <1>4 DEF Unlinked, Exists

\* Steps of a promotion concern one RFP: what remains to show is about it.
LEMMA PromotedElsewhere ==
  ASSUME TypeInv, Promoted, NEW h \in Handlers, NEW n \in Rfps,
         \A g \in Handlers \ {h} : requests'[g] = requests[g],
         requests[h].step \in {"add_problem", "link_problem"} => requests[h].subject = n,
         requests'[h].step \in {"add_problem", "link_problem"} => requests'[h].subject = n,
         \A m \in Rfps \ {n} : rfps'[m] = rfps[m] /\ promotions'[m] = promotions[m],
         \A m \in Rfps \ {n} : Cardinality(Died(m)') = Cardinality(Died(m)),
         Exists(n), rfps'[n] # NoRow,
         rfps'[n].promoted_problem_id = 0
           => promotions'[n] <= Cardinality(ToLink(n)') + Cardinality(Died(n)'),
         promotions'[n] + Cardinality(ToAdd(n)') <= Cardinality(Handlers) + Cardinality(Died(n)')
  PROVE  Promoted'
<1> SUFFICES ASSUME NEW r \in Rfps
             PROVE  /\ (rfps'[r] # NoRow => rfps'[r].promoted_problem_id = 0)
                         => promotions'[r] <= Cardinality(ToLink(r)') + Cardinality(Died(r)')
                    /\ promotions'[r] + Cardinality(ToAdd(r)')
                         <= Cardinality(Handlers) + Cardinality(Died(r)')
  BY DEF Promoted, UnlinkedBounded, AddsBounded, Unlinked, Exists, ToAdd, ToLink, Died
<1>1. CASE r = n
  BY <1>1
<1>2. CASE r # n
  <2>1. ToAdd(r)' = ToAdd(r) /\ ToLink(r)' = ToLink(r)
    BY <1>2 DEF ToAdd, ToLink
  <2>2. /\ Unlinked(r) => promotions[r] <= Cardinality(ToLink(r)) + Cardinality(Died(r))
        /\ promotions[r] + Cardinality(ToAdd(r)) <= Cardinality(Handlers) + Cardinality(Died(r))
    BY DEF Promoted, UnlinkedBounded, AddsBounded
  <2> QED BY <1>2, <2>1, <2>2 DEF Unlinked, Exists
<1> QED BY <1>1, <1>2

\* The check is passed while no promotion is linked.
LEMMA StartPromoted ==
  ASSUME TypeInv, Promoted, NEW h \in Handlers, NEW u \in Users, NEW n \in Rfps, StartPromotion(h, u, n)
  PROVE  Promoted'
<1>1. PICK r \in Request :
        /\ requests[h] = Idle /\ r.step = "add_problem" /\ r.subject = n /\ Proceed(h, r)
        /\ UNCHANGED tables /\ Exists(n) /\ rfps[n].promoted_problem_id = 0
  BY StartPromotionDoes DEF TypeInv
<1>2. requests'[h] = r /\ \A g \in Handlers \ {h} : requests'[g] = requests[g]
  BY <1>1, Proceeds DEF TypeInv
<1>3. UNCHANGED <<rfps, promotions, interrupted>>
  BY <1>1 DEF tables
<1>4. \A m : Cardinality(Died(m)') = Cardinality(Died(m))
  BY <1>3 DEF Died
<1>5. promotions[n] <= Cardinality(ToLink(n)) + Cardinality(Died(n))
  BY <1>1 DEF Promoted, UnlinkedBounded, Unlinked
<1>6. ToLink(n)' = ToLink(n)
  BY <1>1, <1>2 DEF ToLink, Idle
<1>7. Cardinality(ToAdd(n)') + Cardinality(ToLink(n)') <= Cardinality(Handlers)
  <2>1. ToAdd(n)' = ToAdd(n) \cup {h} /\ h \notin ToAdd(n) \cup ToLink(n)
    BY <1>1, <1>2 DEF ToAdd, ToLink, Idle
  <2>2. /\ ToAdd(n) \cup {h} \subseteq Handlers /\ ToLink(n) \subseteq Handlers
        /\ (ToAdd(n) \cup {h}) \cap ToLink(n) = {}
    BY <2>1 DEF ToAdd, ToLink
  <2> HIDE DEF ToAdd, ToLink
  <2>3. PICK A : A = ToAdd(n) \cup {h}
    OBVIOUS
  <2>4. IsFiniteSet(A) /\ IsFiniteSet(ToLink(n)) /\ A \cap ToLink(n) = {}
    BY <2>2, <2>3, MarketplaceAssumption, FS_Subset
  <2>5. Cardinality(A \cup ToLink(n)) = Cardinality(A) + Cardinality(ToLink(n)) - 0
    BY <2>4, FS_Union, FS_EmptySet
  <2>6. Cardinality(A \cup ToLink(n)) <= Cardinality(Handlers)
    BY <2>2, <2>3, MarketplaceAssumption, FS_Subset
  <2>7. Cardinality(A) \in Nat /\ Cardinality(ToLink(n)) \in Nat
    BY <2>4, FS_CardinalityType
  <2> QED BY <1>6, <2>1, <2>3, <2>5, <2>6, <2>7
<1>8. /\ Cardinality(ToLink(n)) \in Nat /\ Cardinality(Died(n)) \in Nat /\ promotions[n] \in Nat
      /\ Cardinality(Handlers) \in Nat
  BY PromotersFinite DEF TypeInv, Types
<1>9. Cardinality(ToAdd(n)') \in Nat
  <2>1. ToAdd(n)' \subseteq Handlers
    BY DEF ToAdd
  <2> QED BY <2>1, MarketplaceAssumption, FS_Subset, FS_CardinalityType
<1>10. promotions'[n] + Cardinality(ToAdd(n)') <= Cardinality(Handlers) + Cardinality(Died(n)')
  BY <1>3, <1>4, <1>5, <1>6, <1>7, <1>8, <1>9
<1> QED BY <1>1, <1>2, <1>3, <1>4, <1>5, <1>6, <1>10, PromotedElsewhere DEF Idle, Exists

\* A problem more, and a request more that has to link it.
LEMMA AddPromoted == ASSUME TypeInv, Promoted, NEW h \in Handlers, AddProblem(h) PROVE Promoted'
<1>1. PICK n \in Rfps, r \in Request :
        /\ requests[h].step = "add_problem" /\ requests[h].subject = n
        /\ r.step = "link_problem" /\ r.subject = n /\ Proceed(h, r)
        /\ promotions' = [promotions EXCEPT ![n] = @ + 1]
        /\ UNCHANGED <<orgs, ledger, rfps, interrupted>>
  BY AddProblemDoes DEF TypeInv
<1>2. requests'[h] = r /\ \A g \in Handlers \ {h} : requests'[g] = requests[g]
  BY <1>1, Proceeds DEF TypeInv
<1>3. promotions'[n] = promotions[n] + 1 /\ \A m \in Rfps \ {n} : promotions'[m] = promotions[m]
  BY <1>1 DEF TypeInv, Types
<1>4. \A m : Cardinality(Died(m)') = Cardinality(Died(m))
  BY <1>1 DEF Died
<1>5. Cardinality(ToAdd(n)') = Cardinality(ToAdd(n)) - 1
  <2>1. ToAdd(n)' = ToAdd(n) \ {h} /\ h \in ToAdd(n)
    BY <1>1, <1>2 DEF ToAdd
  <2> QED BY <2>1, PromotersFinite, FS_RemoveElement DEF TypeInv
<1>6. Cardinality(ToLink(n)') = Cardinality(ToLink(n)) + 1
  <2>1. ToLink(n)' = ToLink(n) \cup {h} /\ h \notin ToLink(n)
    BY <1>1, <1>2 DEF ToLink
  <2> QED BY <2>1, PromotersFinite, FS_AddElement DEF TypeInv
<1>7. /\ Cardinality(ToAdd(n)) \in Nat /\ Cardinality(ToLink(n)) \in Nat
      /\ Cardinality(Died(n)) \in Nat /\ Cardinality(Handlers) \in Nat /\ promotions[n] \in Nat
  BY PromotersFinite DEF TypeInv, Types
<1>8. /\ Unlinked(n) => promotions[n] <= Cardinality(ToLink(n)) + Cardinality(Died(n))
      /\ promotions[n] + Cardinality(ToAdd(n)) <= Cardinality(Handlers) + Cardinality(Died(n))
  BY DEF Promoted, UnlinkedBounded, AddsBounded
<1>9. Exists(n)
  BY <1>1 DEF TypeInv, RowsExist
<1>10. rfps'[n].promoted_problem_id = 0
         => promotions'[n] <= Cardinality(ToLink(n)') + Cardinality(Died(n)')
  BY <1>1, <1>3, <1>4, <1>6, <1>7, <1>8 DEF Unlinked
<1>11. promotions'[n] + Cardinality(ToAdd(n)') <= Cardinality(Handlers) + Cardinality(Died(n)')
  BY <1>3, <1>4, <1>5, <1>7, <1>8
<1> QED BY <1>1, <1>2, <1>3, <1>4, <1>9, <1>10, <1>11, PromotedElsewhere DEF Exists

\* From the first link on, no request passes the check.
LEMMA LinkPromoted == ASSUME TypeInv, Promoted, NEW h \in Handlers, LinkProblem(h) PROVE Promoted'
<1>1. PICK n \in Rfps, p \in Nat \ {0} :
        /\ requests[h].step = "link_problem" /\ requests[h].subject = n
        /\ Idle \in Request /\ Proceed(h, Idle)
        /\ rfps' = [rfps EXCEPT ![n].promoted_problem_id = p]
        /\ UNCHANGED <<orgs, ledger, promotions, interrupted>>
  BY LinkProblemDoes DEF TypeInv
<1>2. Exists(n)
  BY <1>1 DEF TypeInv, RowsExist
<1>3. PICK row \in Rfp : /\ rfps' = [rfps EXCEPT ![n] = row]
                         /\ row.promoted_problem_id = p
  <2>1. p \in Nat /\ rfps' = [rfps EXCEPT ![n].promoted_problem_id = p]
    BY <1>1
  <2>2. \E row \in Rfp : /\ rfps' = [rfps EXCEPT ![n] = row]
                         /\ row.organization_id = rfps[n].organization_id
                         /\ row.promoted_problem_id = p
                         /\ row.is_billable <=> rfps[n].is_billable
    BY <1>2, <2>1, LinkedRow
  <2> QED BY <2>2
<1>4. /\ rfps'[n] = row /\ row # NoRow
      /\ \A m \in Rfps \ {n} : rfps'[m] = rfps[m]
  BY <1>2, <1>3, RowUpdate DEF TypeInv
<1>5. requests'[h] = Idle /\ \A g \in Handlers \ {h} : requests'[g] = requests[g]
  BY <1>1, Proceeds DEF TypeInv
<1>6. \A m : Cardinality(Died(m)') = Cardinality(Died(m))
  BY <1>1 DEF Died
<1>7. ToAdd(n)' = ToAdd(n)
  BY <1>1, <1>5 DEF ToAdd, Idle
<1>8. promotions[n] + Cardinality(ToAdd(n)) <= Cardinality(Handlers) + Cardinality(Died(n))
  BY DEF Promoted, AddsBounded
<1> QED BY <1>1, <1>2, <1>3, <1>4, <1>5, <1>6, <1>7, <1>8, PromotedElsewhere DEF Idle

\* A promotion that dies before the link is one of those that count.
LEMMA FailPromoted == ASSUME TypeInv, Promoted, NEW h \in Handlers, Fail(h) PROVE Promoted'
<1>1. PICK x \in Subjects :
        /\ x = requests[h].subject
        /\ requests[h].step \in PostingSteps \cup {"link_problem", "add_member"}
        /\ Idle \in Request /\ Proceed(h, Idle)
        /\ interrupted' = Append(interrupted, x)
        /\ UNCHANGED <<orgs, ledger, rfps, promotions>>
  BY FailDoes DEF TypeInv
<1>2. requests'[h] = Idle /\ \A g \in Handlers \ {h} : requests'[g] = requests[g]
  BY <1>1, Proceeds DEF TypeInv
<1>3. CASE requests[h].step # "link_problem"
  <2>1. {requests[h].step, requests'[h].step} \cap {"add_problem", "link_problem"} = {}
    BY <1>1, <1>2, <1>3 DEF PostingSteps, Idle
  <2> QED BY <1>1, <1>2, <2>1, PromotedStays DEF Exists
<1>4. CASE requests[h].step = "link_problem"
  <2>1. PICK n \in Rfps : n = x
    BY <1>1, <1>4, RequestKinds DEF TypeInv, Linking
  <2>2. Exists(n)
    BY <1>1, <1>4, <2>1 DEF TypeInv, RowsExist
  <2>3. ToAdd(n)' = ToAdd(n)
    BY <1>2, <1>4 DEF ToAdd, Idle
  <2>4. Cardinality(ToLink(n)') = Cardinality(ToLink(n)) - 1
    <3>1. ToLink(n)' = ToLink(n) \ {h} /\ h \in ToLink(n)
      BY <1>1, <1>2, <1>4, <2>1 DEF ToLink, Idle
    <3> QED BY <3>1, PromotersFinite, FS_RemoveElement DEF TypeInv
  <2>5. /\ Cardinality(Died(n)') = Cardinality(Died(n)) + 1
        /\ \A m \in Rfps \ {n} : Cardinality(Died(m)') = Cardinality(Died(m))
    BY <1>1, <2>1, DiedGrows DEF TypeInv
  <2>6. /\ Cardinality(ToAdd(n)) \in Nat /\ Cardinality(ToLink(n)) \in Nat
        /\ Cardinality(Died(n)) \in Nat /\ Cardinality(Handlers) \in Nat /\ promotions[n] \in Nat
    BY PromotersFinite DEF TypeInv, Types
  <2>7. /\ Unlinked(n) => promotions[n] <= Cardinality(ToLink(n)) + Cardinality(Died(n))
        /\ promotions[n] + Cardinality(ToAdd(n)) <= Cardinality(Handlers) + Cardinality(Died(n))
    BY DEF Promoted, UnlinkedBounded, AddsBounded
  <2>8. rfps'[n].promoted_problem_id = 0
          => promotions'[n] <= Cardinality(ToLink(n)') + Cardinality(Died(n)')
    BY <1>1, <2>4, <2>5, <2>6, <2>7 DEF Unlinked
  <2>9. promotions'[n] + Cardinality(ToAdd(n)') <= Cardinality(Handlers) + Cardinality(Died(n)')
    BY <1>1, <2>3, <2>5, <2>6, <2>7
  <2> QED BY <1>1, <1>2, <2>1, <2>2, <2>5, <2>8, <2>9, PromotedElsewhere DEF Idle, Exists
<1> QED BY <1>3, <1>4

LEMMA InitPromoted == Init => Promoted
<1> SUFFICES ASSUME Init, NEW r \in Rfps
             PROVE  /\ promotions[r] <= Cardinality(ToLink(r)) + Cardinality(Died(r))
                    /\ promotions[r] + Cardinality(ToAdd(r)) <= Cardinality(Handlers) + Cardinality(Died(r))
  BY DEF Promoted, UnlinkedBounded, AddsBounded
<1>1. ToAdd(r) = {} /\ promotions[r] = 0
  BY DEF Init, ToAdd, Idle
<1>2. Types
  BY InitTypes DEF TypeInv
<1> QED BY <1>1, <1>2, PromotersFinite, FS_EmptySet

LEMMA NextPromoted == TypeInv /\ Promoted /\ [Next]_vars => Promoted'
<1> SUFFICES ASSUME TypeInv, Promoted, [Next]_vars PROVE Promoted'
  OBVIOUS
<1> USE DEF TypeInv
<1>1. ASSUME NEW h \in Handlers, NEW r \in Request, Proceed(h, r),
             {requests[h].step, r.step} \cap {"add_problem", "link_problem"} = {},
             UNCHANGED <<promotions, interrupted>>,
             \A n \in Rfps : rfps'[n] # NoRow => Exists(n) \/ rfps'[n].promoted_problem_id = 0,
             \A n \in Rfps : Exists(n) =>
               rfps'[n] # NoRow /\ rfps'[n].promoted_problem_id = rfps[n].promoted_problem_id
      PROVE  Promoted'
  BY <1>1, Proceeds, PromotedStays
<1>2. ASSUME NEW h \in Handlers, NEW u \in Users, CreateOrganization(h, u) PROVE Promoted'
  BY <1>1, <1>2, CreateOrganizationDoes DEF Idle, Exists
<1>3. ASSUME NEW h \in Handlers, NEW u \in Users, NEW o \in Organizations, NEW v \in Users,
             NEW role \in Role, AdmitMember(h, u, o, v, role)
      PROVE  Promoted'
  BY <1>1, <1>3, AdmitMemberDoes DEF Idle, Exists, tables
<1>4. ASSUME NEW h \in Handlers, NEW u \in Users, NEW o \in Organizations, StartRfp(h, u, o)
      PROVE  Promoted'
  BY <1>1, <1>4, StartRfpDoes DEF Idle, Exists, tables
<1>5. ASSUME NEW h \in Handlers, AddMembership(h) \/ RecordBilling(h) PROVE Promoted'
  <2>1. requests[h].step \in {"add_member", "bill_free", "bill_billable"}
    BY <1>5 DEF AddMembership, RecordBilling
  <2>2. Idle \in Request /\ Proceed(h, Idle) /\ UNCHANGED <<rfps, promotions, interrupted>>
    BY <1>5, AddMembershipDoes, RecordBillingDoes
  <2> QED BY <1>1, <2>1, <2>2 DEF Idle, Exists
<1>6. ASSUME NEW h \in Handlers, InsertRfp(h) PROVE Promoted'
  <2>1. PICK n \in Rfps, row \in Rfp, r \in Request :
          /\ requests[h].step = "insert_rfp"
          /\ ~Exists(n) /\ rfps' = [rfps EXCEPT ![n] = row] /\ row.promoted_problem_id = 0
          /\ r.step = "read_quota" /\ Proceed(h, r)
          /\ UNCHANGED <<orgs, ledger, promotions, interrupted>>
    BY <1>6, InsertRfpDoes
  <2>2. rfps'[n] = row /\ \A m \in Rfps \ {n} : rfps'[m] = rfps[m]
    BY <2>1 DEF Types
  <2> QED BY <1>1, <2>1, <2>2 DEF Exists
<1>7. ASSUME NEW h \in Handlers, ReadQuota(h) \/ CompareQuota(h) \/ WriteQuota(h) PROVE Promoted'
  <2>1. PICK r \in Request :
          /\ Proceed(h, r) /\ requests[h].step \in PostingSteps
          /\ r.step \in {"write_quota", "compare", "mark_billable", "bill_free"}
    BY <1>7, PostingStepDoes DEF PostingSteps
  <2>2. UNCHANGED <<rfps, promotions, interrupted>>
    BY <1>7 DEF ReadQuota, CompareQuota, WriteQuota, tables
  <2> QED BY <1>1, <2>1, <2>2 DEF Exists, PostingSteps
<1>8. ASSUME NEW h \in Handlers, MarkBillable(h) PROVE Promoted'
  <2>1. PICK n \in Rfps, r \in Request :
          /\ requests[h].step = "mark_billable" /\ requests[h].subject = n
          /\ r.step = "bill_billable" /\ Proceed(h, r)
          /\ rfps' = [rfps EXCEPT ![n].is_billable = TRUE]
          /\ UNCHANGED <<orgs, ledger, promotions, interrupted>>
    BY <1>8, MarkBillableDoes
  <2>2. Exists(n)
    BY <2>1 DEF RowsExist, PostingSteps
  <2>3. PICK row \in Rfp :
          /\ rfps' = [rfps EXCEPT ![n] = row]
          /\ row.promoted_problem_id = rfps[n].promoted_problem_id
    BY <2>1, <2>2, MarkedRow
  <2>4. /\ rfps'[n] = row /\ row # NoRow
        /\ \A m \in Rfps \ {n} : rfps'[m] = rfps[m]
    BY <2>2, <2>3, RowUpdate
  <2> QED BY <1>1, <2>1, <2>2, <2>3, <2>4 DEF Exists
<1>9. CASE UNCHANGED vars
  BY <1>9, PromotedStays DEF vars, Exists
<1> QED
  BY <1>2, <1>3, <1>4, <1>5, <1>6, <1>7, <1>8, <1>9, StartPromoted, AddPromoted, LinkPromoted,
     FailPromoted
     DEF Next, Role

\* However requests to promote an RFP overlap and die, it is promoted no more often
\* than there are requests at a time and requests that died on it.
THEOREM PromotionsAreBounded == Spec => []DuplicatesBounded
<1>1. TypeInv /\ Promoted => DuplicatesBounded
  <2> SUFFICES ASSUME TypeInv, Promoted, NEW r \in Rfps
               PROVE  promotions[r] <= Cardinality(Handlers) + Cardinality(Died(r))
    BY DEF DuplicatesBounded
  <2>1. /\ Cardinality(ToAdd(r)) \in Nat /\ Cardinality(Died(r)) \in Nat
        /\ Cardinality(Handlers) \in Nat /\ promotions[r] \in Nat
    BY PromotersFinite DEF TypeInv, Types
  <2> QED BY <2>1 DEF Promoted, AddsBounded
<1>2. Spec => []Promoted
  BY InitPromoted, NextPromoted, TypesInvariant, PTL DEF Spec
<1> QED BY <1>1, <1>2, TypesInvariant, PTL

=============================================================================

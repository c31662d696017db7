----------------------------- MODULE WebSession -----------------------------
(***************************************************************************)
(* The web client's session, in several tabs of one browser, against       *)
(* backend-api's accounts and commitments.  The tabs share localStorage,   *)
(* which holds the token and, by problem, the id of the last commitment    *)
(* made in the browser; each has its own AuthContext.  Requests and their  *)
(* answers take their time, overtake each other and may be lost, and       *)
(* reloading a page forgets the requests it has made, not what they do.    *)
(*                                                                         *)
(* The commitments are those to one problem.  Those to others share with   *)
(* them only the map in localStorage, which a storage that throws may cost *)
(* an id: ForgetMap is all that is left of them.  Focus slots and locks    *)
(* are in Commitments; here a checkpoint may be refused at any time.       *)
(***************************************************************************)
EXTENDS Accounts

CONSTANTS
  Tabs,
  MaxPending,      \* bound of the requests that are under way
  MaxCommitments   \* bound of the commitments

ASSUME WebSessionAssumption ==
  /\ MaxTokens \in Nat /\ MaxPending \in Nat /\ MaxCommitments \in Nat
  /\ IsFiniteSet(Emails) /\ IsFiniteSet(Tabs)

VARIABLES
  commitments,  \* user, whether active, and who ended it (0 if nobody has)
  token,        \* localStorage: avadhana_token
  cached,       \* localStorage: the problem's id in avadhana_commitment_ids, 0 if none
  tabs,         \* each tab's AuthContext
  pending,      \* the requests each tab has under way
  unanswered,   \* history: commitments whose creator's page never got the answer
  unsaved       \* history: whether a fault of the storage has cost the problem's id

vars == <<accounts, commitments, token, cached, tabs, pending, unanswered, unsaved>>
server == <<accounts, commitments>>
storage == <<token, cached, unsaved>>

LoggedOut == [authenticated |-> FALSE, user |-> 0, fetch_failed |-> FALSE]
LoggedIn(u) == [authenticated |-> TRUE, user |-> u, fetch_failed |-> FALSE]

Init ==
  /\ AccountsInit
  /\ commitments = <<>>
  /\ token = NoToken
  /\ cached = 0
  /\ tabs = [t \in Tabs |-> LoggedOut]
  /\ pending = [t \in Tabs |-> {}]
  /\ unanswered = {}
  /\ unsaved = FALSE

----------------------------------------------------------------------------
(* Sending *)

\* status 0: not answered yet.
Request(kind, sent_token, arg) ==
  [kind |-> kind, token |-> sent_token, arg |-> arg, page |-> "open",
   cancelled |-> FALSE, status |-> 0, body |-> 0]

MaySend == Cardinality(UNION {{<<t, r>> : r \in pending[t]} : t \in Tabs}) < MaxPending

\* apiFetch takes whatever token is stored when it is called.
Send(t, kind, sent_token, arg) ==
  /\ MaySend
  /\ pending' = [pending EXCEPT ![t] = @ \cup {Request(kind, sent_token, arg)}]
  /\ UNCHANGED <<server, storage, tabs, unanswered>>

\* The pages to log in and sign up have one button, disabled meanwhile.
Authenticating(t) ==
  \E r \in pending[t] : r.page = "open" /\ r.kind \in {"login", "signup", "insert_user"}

Login(t, email) ==
  /\ ~tabs[t].authenticated /\ ~Authenticating(t)
  /\ Send(t, "login", NoToken, email)

Signup(t, email) ==
  /\ ~tabs[t].authenticated /\ ~Authenticating(t)
  /\ Send(t, "signup", NoToken, email)

Commit(t) ==
  /\ tabs[t].authenticated
  /\ Send(t, "create", token, 0)

\* CheckpointModal: the id cached for the problem, whoever's it is.  Without one, or
\* if the map cannot be read, nothing is sent.
Checkpoint(t) ==
  /\ tabs[t].authenticated
  /\ cached # 0
  /\ Send(t, "checkpoint", token, cached)

\* The effect's cleanup: the answer of a fetch for the session before is ignored.
WithoutFetches(requests) == {[r EXCEPT !.cancelled = (@ \/ r.kind = "me")] : r \in requests}

Logout(t) ==
  /\ tabs[t].authenticated
  /\ token' = NoToken
  /\ tabs' = [tabs EXCEPT ![t] = LoggedOut]
  /\ pending' = [pending EXCEPT ![t] = WithoutFetches(@)]
  /\ UNCHANGED <<server, cached, unanswered, unsaved>>

\* The user is fetched only where none was known.
BadFirstRequests(t) == IF tabs[t].user = 0 THEN {Request("me", token, 0)} ELSE {}
FirstRequests(t) == {Request("me", token, 0)}

\* The page is loaded again: with a token stored the tab counts as authenticated
\* and fetches its user once.  Of the page that is gone there remain the requests
\* that are yet to be served and may have an effect on the server.
Reload(t) ==
  LET gone == {[r EXCEPT !.page = "gone"] :
                 r \in {q \in pending[t] : q.status = 0 /\ q.kind # "me"}}
  IN  /\ IF token = NoToken
         THEN /\ tabs' = [tabs EXCEPT ![t] = LoggedOut]
              /\ pending' = [pending EXCEPT ![t] = gone]
         ELSE /\ MaySend
              /\ tabs' = [tabs EXCEPT ![t] = LoggedIn(0)]
              /\ pending' = [pending EXCEPT ![t] = gone \cup FirstRequests(t)]
      /\ UNCHANGED <<server, storage, unanswered>>

----------------------------------------------------------------------------
(* Serving *)

\* A page that is gone has no use for its answer.
Answer(t, r, status, body) ==
  /\ pending' = [pending EXCEPT ![t] = (@ \ {r}) \cup
       IF r.page = "gone" THEN {} ELSE {[r EXCEPT !.status = status, !.body = body]}]
  /\ UNCHANGED <<storage, tabs>>

Unserved(t, kind) == {r \in pending[t] : r.kind = kind /\ r.status = 0}

\* A wrong password, or an email nobody has, is answered with 401.
ServeLogin(t, r) ==
  \/ /\ WithEmail(r.arg) # {} /\ MayIssue
     /\ \E u \in WithEmail(r.arg) : Issue(u)
     /\ Answer(t, r, 200, Len(issued'))
     /\ UNCHANGED <<users, expired, commitments, unanswered>>
  \/ /\ Answer(t, r, 401, 0)
     /\ UNCHANGED <<server, unanswered>>

\* The check of the email...
ServeSignup(t, r) ==
  /\ IF WithEmail(r.arg) # {} THEN Answer(t, r, 409, 0)
     ELSE /\ pending' = [pending EXCEPT ![t] = (@ \ {r}) \cup {[r EXCEPT !.kind = "insert_user"]}]
          /\ UNCHANGED <<storage, tabs>>
  /\ UNCHANGED <<server, unanswered>>

\* ...and the insert, which the unique index may fail.
ServeInsertUser(t, r) ==
  \/ /\ MayIssue
     /\ InsertUser(r.arg)
     /\ Issue(Len(users'))
     /\ Answer(t, r, 200, Len(issued'))
     /\ UNCHANGED <<expired, commitments, unanswered>>
  \/ /\ WithEmail(r.arg) # {}
     /\ Answer(t, r, 500, 0)
     /\ UNCHANGED <<server, unanswered>>

ServeMe(t, r) ==
  /\ IF Authenticated(r.token) THEN Answer(t, r, 200, issued[r.token]) ELSE Answer(t, r, 401, 0)
  /\ UNCHANGED <<server, unanswered>>

ActiveOf(u) == {c \in DOMAIN commitments : commitments[c].user = u /\ commitments[c].active}

ServeCreate(t, r) ==
  LET u == issued[r.token]
  IN  \/ /\ ~Authenticated(r.token)
         /\ Answer(t, r, 401, 0)
         /\ UNCHANGED <<server, unanswered>>
      \/ /\ Authenticated(r.token) /\ ActiveOf(u) # {}
         /\ Answer(t, r, 409, 0)
         /\ UNCHANGED <<server, unanswered>>
      \/ /\ Authenticated(r.token) /\ ActiveOf(u) = {}
         /\ Len(commitments) < MaxCommitments
         /\ commitments' = Append(commitments, [user |-> u, active |-> TRUE, ended_by |-> 0])
         /\ unanswered' = unanswered \cup {Len(commitments')}
         /\ Answer(t, r, 200, Len(commitments'))
         /\ UNCHANGED accounts

\* The owner is not checked.
BadMayCheckpoint(u, c) == commitments[c].active
MayCheckpoint(u, c) == commitments[c].user = u /\ commitments[c].active

\* A refusal (403, 409), a continue, or an end of the commitment.
ServeCheckpoint(t, r) ==
  LET u == issued[r.token]
  IN  \/ /\ ~Authenticated(r.token)
         /\ Answer(t, r, 401, 0)
         /\ UNCHANGED <<server, unanswered>>
      \/ /\ Authenticated(r.token)
         /\ \E status \in {409} \cup IF MayCheckpoint(u, r.arg) THEN {200} ELSE {403} :
              Answer(t, r, status, 0)
         /\ UNCHANGED <<server, unanswered>>
      \/ /\ Authenticated(r.token) /\ MayCheckpoint(u, r.arg)
         /\ commitments' = [commitments EXCEPT ![r.arg].active = FALSE, ![r.arg].ended_by = u]
         /\ Answer(t, r, 200, 0)
         /\ UNCHANGED <<accounts, unanswered>>

Serve(t) ==
  \/ \E r \in Unserved(t, "login") : ServeLogin(t, r)
  \/ \E r \in Unserved(t, "signup") : ServeSignup(t, r)
  \/ \E r \in Unserved(t, "insert_user") : ServeInsertUser(t, r)
  \/ \E r \in Unserved(t, "me") : ServeMe(t, r)
  \/ \E r \in Unserved(t, "create") : ServeCreate(t, r)
  \/ \E r \in Unserved(t, "checkpoint") : ServeCheckpoint(t, r)

----------------------------------------------------------------------------
(* Receiving *)

Answered(t, statuses) == {r \in pending[t] : r.page = "open" /\ r.status \in statuses}

\* apiFetch on a 401, whichever request it answers: the stored token goes, and the
\* tab is logged out.
ReceiveUnauthorized(t) ==
  \E r \in Answered(t, {401}) :
    /\ token' = NoToken
    /\ tabs' = [tabs EXCEPT ![t] = LoggedOut]
    /\ pending' = [pending EXCEPT ![t] = WithoutFetches(@ \ {r})]
    /\ UNCHANGED <<server, cached, unanswered, unsaved>>

ReceiveToken(t) ==
  \E r \in Answered(t, {200}) :
    /\ r.kind \in {"login", "insert_user"}
    /\ token' = r.body
    /\ tabs' = [tabs EXCEPT ![t] = LoggedIn(issued[r.body])]
    /\ pending' = [pending EXCEPT ![t] = @ \ {r}]
    /\ UNCHANGED <<server, cached, unanswered, unsaved>>

ReceiveUser(t) ==
  \E r \in Answered(t, {200}) :
    /\ r.kind = "me"
    /\ tabs' = IF r.cancelled THEN tabs ELSE [tabs EXCEPT ![t].user = r.body]
    /\ pending' = [pending EXCEPT ![t] = @ \ {r}]
    /\ UNCHANGED <<server, storage, unanswered>>

\* The first commitment's id is kept for the problem.
BadRemembered(id) == IF cached = 0 THEN id ELSE cached
Remembered(id) == id

\* rememberCommitmentId.  A map that cannot be read is taken for an empty one, which
\* makes no difference to the id that is put in; a write that fails is passed over.
Remember(id) ==
  \/ /\ cached' = Remembered(id)
     /\ unsaved' = FALSE
  \/ /\ unsaved' = TRUE
     /\ UNCHANGED cached

ReceiveCommitment(t) ==
  \E r \in Answered(t, {200}) :
    /\ r.kind = "create"
    /\ Remember(r.body)
    /\ unanswered' = unanswered \ {r.body}
    /\ pending' = [pending EXCEPT ![t] = @ \ {r}]
    /\ UNCHANGED <<server, token, tabs>>

\* rememberCommitmentId for another problem, when the map cannot be read: what is
\* written in its place has the id of that problem alone.
ForgetMap ==
  /\ cached # 0
  /\ cached' = 0
  /\ unsaved' = TRUE
  /\ UNCHANGED <<server, token, tabs, pending, unanswered>>

\* What is only shown: an error, or the success of a checkpoint.
ReceiveOther(t) ==
  \E r \in Answered(t, {200, 403, 409, 500}) :
    /\ r.status = 200 => r.kind = "checkpoint"
    /\ pending' = [pending EXCEPT ![t] = @ \ {r}]
    /\ UNCHANGED <<server, storage, tabs, unanswered>>

\* A request or its answer is lost.  No caller retries, and a fetch of the user
\* that fails is passed over in silence.
Lose(t) ==
  \E r \in pending[t] :
    /\ pending' = [pending EXCEPT ![t] = @ \ {r}]
    /\ tabs' = IF r.kind = "me" /\ r.page = "open" /\ ~r.cancelled
               THEN [tabs EXCEPT ![t].fetch_failed = TRUE] ELSE tabs
    /\ UNCHANGED <<server, storage, unanswered>>

----------------------------------------------------------------------------

Next ==
  \/ Expire /\ UNCHANGED <<commitments, storage, tabs, pending, unanswered>>
  \/ ForgetMap
  \/ \E t \in Tabs :
       \/ \E email \in Emails : Login(t, email) \/ Signup(t, email)
       \/ Commit(t)
       \/ Checkpoint(t)
       \/ Logout(t)
       \/ Reload(t)
       \/ Serve(t)
       \/ ReceiveUnauthorized(t)
       \/ ReceiveToken(t)
       \/ ReceiveUser(t)
       \/ ReceiveCommitment(t)
       \/ ReceiveOther(t)
       \/ Lose(t)

Spec == Init /\ [][Next]_vars

----------------------------------------------------------------------------
(* Properties *)

\* Whatever id the browser has cached, and whoever uses it now: a commitment is
\* ended by its own user alone.
OnlyOwnersEnd ==
  \A c \in DOMAIN commitments : commitments[c].ended_by \in {0, commitments[c].user}

\* A user finds the active commitment made in this browser again, unless the answer
\* to its creation was lost or is under way, another user's took its place, or the
\* storage failed: when its id was to be written, or, with the map unreadable, when
\* that of another problem was, and no id has been written for this problem since.
SlotReachable ==
  \A c \in DOMAIN commitments : commitments[c].active =>
    \/ cached = c \/ c \in unanswered \/ unsaved
    \/ cached # 0 /\ commitments[cached].user # commitments[c].user

\* A tab that counts as authenticated and does not know its user is waiting for
\* the answer, or the network lost it: then it waits for good.
UserIsAwaited ==
  \A t \in Tabs : tabs[t].authenticated /\ tabs[t].user = 0 =>
    \/ tabs[t].fetch_failed
    \/ \E r \in pending[t] : r.kind = "me" /\ r.page = "open" /\ ~r.cancelled

\* A live token leaves the browser by a logout, by a newer token, or by the 401 of
\* a request that was sent without it.
LiveTokenIsKept ==
  [][Decodes(token) /\ token' = NoToken =>
       \E t \in Tabs :
         \/ Logout(t)
         \/ \E r \in Answered(t, {401}) : r.token # token /\ r \notin pending'[t]]_vars

=============================================================================

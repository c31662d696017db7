-------------------------- MODULE WebSession_proofs --------------------------
(***************************************************************************)
(* Theorems about the web client's session, for any number of emails,      *)
(* tabs, tokens, requests under way and commitments.                       *)
(***************************************************************************)
EXTENDS WebSession, TLAPS

----------------------------------------------------------------------------
(* Types, and what the requests under way say *)

Commitment == [user : Nat, active : BOOLEAN, ended_by : Nat]

Tab == [authenticated : BOOLEAN, user : Nat, fetch_failed : BOOLEAN]

Args == Emails \cup Nat

Row == [kind : {"login", "signup", "insert_user", "me", "create", "checkpoint"},
        token : Nat, arg : Args, page : {"open", "gone"},
        cancelled : BOOLEAN, status : Nat, body : Nat]

AccountsInv ==
  /\ users \in Seq(Args)
  /\ issued \in Seq(Nat)
  /\ \A n \in DOMAIN issued : issued[n] \in DOMAIN users

\* What a request carries and what its answer says: only a token that does not decode
\* is answered with 401, and tokens and users in answers exist.
Sound(r) ==
  /\ r.token <= Len(issued)
  /\ r.kind \in {"login", "signup", "insert_user"} => r.token = NoToken
  /\ r.status = 401 => ~Decodes(r.token)
  /\ r.kind \in {"login", "insert_user"} /\ r.status = 200 => r.body \in DOMAIN issued
  /\ r.kind = "me" => r.status \in {0, 200, 401} /\ (r.status = 200 => r.body # 0)

PendingInv ==
  /\ pending \in [Tabs -> SUBSET Row]
  /\ \A t \in Tabs : \A r \in pending[t] : Sound(r)

SessionInv ==
  /\ AccountsInv
  /\ PendingInv
  /\ commitments \in Seq(Commitment)
  /\ token \in Nat /\ token <= Len(issued)
  /\ cached \in Nat
  /\ tabs \in [Tabs -> Tab]
  /\ OnlyOwnersEnd
  /\ UserIsAwaited

\* Accounts, tokens and expiries are only added to.
Grows ==
  /\ AccountsInv'
  /\ Len(issued) <= Len(issued')
  /\ expired \subseteq expired'

\* SessionInv holds initially.
LEMMA InitSession == Init => SessionInv
<1> SUFFICES ASSUME Init PROVE SessionInv
  OBVIOUS
<1>1. AccountsInv
  BY DEF Init, AccountsInit, AccountsInv
<1>2. PendingInv
  BY DEF Init, PendingInv
<1>3. tabs \in [Tabs -> Tab] /\ UserIsAwaited
  BY DEF Init, Tab, LoggedOut, UserIsAwaited
<1>4. commitments \in Seq(Commitment) /\ OnlyOwnersEnd
  BY DEF Init, OnlyOwnersEnd
<1>5. token \in Nat /\ token <= Len(issued) /\ cached \in Nat
  BY DEF Init, AccountsInit, NoToken
<1> QED BY <1>1, <1>2, <1>3, <1>4, <1>5 DEF SessionInv

\* What a request says stays so.
LEMMA SoundStays ==
  ASSUME AccountsInv, Grows, NEW r \in Row, Sound(r)
  PROVE  Sound(r)'
<1>1. Len(issued) \in Nat /\ Len(issued') \in Nat /\ DOMAIN issued = 1 .. Len(issued)
      /\ DOMAIN issued' = 1 .. Len(issued')
  BY DEF AccountsInv, Grows
<1>2. r.token \in Nat /\ r.body \in Nat
  BY DEF Row
<1> QED BY <1>1, <1>2 DEF Sound, Grows, Decodes, NoToken

\* A token is answered with 401 only if it does not decode.
LEMMA UnauthorizedIsDead ==
  ASSUME AccountsInv, NEW n \in Nat, n <= Len(issued), ~Authenticated(n)
  PROVE  ~Decodes(n)
<1>1. Len(issued) \in Nat /\ DOMAIN issued = 1 .. Len(issued)
  BY DEF AccountsInv
<1> QED BY <1>1 DEF AccountsInv, Authenticated, Decodes, NoToken

\* The user of an authenticated token is there.
LEMMA AuthenticatedUser ==
  ASSUME AccountsInv, NEW n \in Nat, Authenticated(n)
  PROVE  issued[n] \in Nat \ {0}
BY DEF AccountsInv, Authenticated

\* Issuing a token to a user who is there adds it and nothing else.
LEMMA IssueGrows ==
  ASSUME AccountsInv, NEW u \in DOMAIN users', Issue(u), expired' = expired,
         users' = users \/ \E email \in Args : InsertUser(email)
  PROVE  Grows /\ Len(issued') \in DOMAIN issued'
<1>1. users' \in Seq(Args) /\ DOMAIN users \subseteq DOMAIN users'
  <2>1. CASE users' = users
    BY <2>1 DEF AccountsInv
  <2>2. ASSUME NEW email \in Args, users' = Append(users, email)
        PROVE  users' \in Seq(Args) /\ DOMAIN users \subseteq DOMAIN users'
    BY <2>2 DEF AccountsInv
  <2> QED BY <2>1, <2>2 DEF InsertUser
<1>2. u \in Nat
  BY <1>1
<1>3. issued' = Append(issued, u) /\ issued \in Seq(Nat)
  BY DEF Issue, AccountsInv
<1>4. /\ issued' \in Seq(Nat) /\ Len(issued') = Len(issued) + 1 /\ Len(issued) \in Nat
      /\ DOMAIN issued' = 1 .. Len(issued) + 1 /\ DOMAIN issued = 1 .. Len(issued)
      /\ \A n \in DOMAIN issued : issued'[n] = issued[n]
      /\ issued'[Len(issued) + 1] = u
  BY <1>2, <1>3
<1>5. \A n \in DOMAIN issued' : issued'[n] \in DOMAIN users'
  BY <1>1, <1>4 DEF AccountsInv
<1> QED BY <1>1, <1>4, <1>5 DEF Grows, AccountsInv
\* Without a new token or user, accounts are as sound as they were.
LEMMA SameGrows ==
  ASSUME AccountsInv, UNCHANGED <<users, issued>>, expired \subseteq expired'
  PROVE  Grows
<1>1. Len(issued) \in Nat
  BY DEF AccountsInv
<1> QED BY <1>1 DEF AccountsInv, Grows

\* Two requests that carry and are answered the same.
Alike(q, r) ==
  q.kind = r.kind /\ q.token = r.token /\ q.status = r.status /\ q.body = r.body

\* A step by which the requests become ones like those there were, and one more that
\* is sound, keeps all requests sound.
LEMMA ReplacedPending ==
  ASSUME SessionInv, Grows, pending' \in [Tabs -> SUBSET Row],
         NEW a \in Row, Sound(a)',
         \A s \in Tabs : \A q \in pending'[s] : q = a \/ \E r \in pending[s] : Alike(q, r)
  PROVE  PendingInv'
<1>1. ASSUME NEW s \in Tabs, NEW q \in pending'[s] PROVE Sound(q)'
  <2>1. q = a \/ \E r \in Row : Sound(r) /\ Alike(q, r)
    BY <1>1 DEF SessionInv, PendingInv, Alike
  <2>2. CASE q = a
    BY <2>2 DEF Sound, Decodes
  <2>3. ASSUME NEW r \in Row, Sound(r), Alike(q, r) PROVE Sound(q)'
    <3>1. Sound(r)'
      BY <2>3, SoundStays DEF SessionInv
    <3> QED BY <2>3, <3>1 DEF Sound, Alike, Decodes
  <2> QED BY <2>1, <2>2, <2>3
<1> QED BY <1>1 DEF PendingInv

\* A user who is awaited goes on being awaited by every tab whose state and whose
\* fetches a step leaves alone.
Awaited(t) ==
  tabs[t].authenticated /\ tabs[t].user = 0 =>
    \/ tabs[t].fetch_failed
    \/ \E r \in pending[t] : r.kind = "me" /\ r.page = "open" /\ ~r.cancelled

\* UserIsAwaited says it of every tab.
LEMMA AwaitedEverywhere == UserIsAwaited <=> \A t \in Tabs : Awaited(t)
BY DEF UserIsAwaited, Awaited

\* A step of one tab does not matter to the others.
LEMMA OtherTabsAwait ==
  ASSUME SessionInv, NEW t \in Tabs, Awaited(t)',
         \A s \in Tabs \ {t} : tabs'[s] = tabs[s] /\ pending'[s] = pending[s]
  PROVE  UserIsAwaited'
<1>1. ASSUME NEW s \in Tabs \ {t} PROVE Awaited(s)'
  <2>1. tabs'[s] = tabs[s] /\ pending'[s] = pending[s]
    OBVIOUS
  <2>2. Awaited(s)
    BY AwaitedEverywhere DEF SessionInv
  <2> QED BY <2>1, <2>2 DEF Awaited
<1>2. \A s \in Tabs : Awaited(s)'
  BY <1>1
<1> QED BY <1>2 DEF UserIsAwaited, Awaited

\* A request is answered: its row is replaced by the answer, or dropped.
LEMMA AnswerKeeps ==
  ASSUME SessionInv, Grows, NEW t \in Tabs, NEW r \in pending[t],
         NEW status \in {200, 401, 403, 409, 500}, NEW body \in Nat, Answer(t, r, status, body),
         status = 401 => ~Decodes(r.token),
         r.kind \in {"login", "insert_user"} /\ status = 200 => body \in DOMAIN issued',
         r.kind = "me" => status \in {200, 401} /\ (status = 200 => body # 0),
         commitments' \in Seq(Commitment), OnlyOwnersEnd'
  PROVE  SessionInv'
<1>1. r \in Row /\ Sound(r) /\ pending[t] \in SUBSET Row
  BY DEF SessionInv, PendingInv
<1>2. PICK a \in Row : a = [r EXCEPT !.status = status, !.body = body]
  <2>1. status \in Nat
    OBVIOUS
  <2> QED BY <1>1, <2>1 DEF Row
<1>3. /\ a.kind = r.kind /\ a.token = r.token /\ a.status = status /\ a.body = body
      /\ a.page = r.page /\ a.cancelled = r.cancelled
  BY <1>1, <1>2 DEF Row
<1> DEFINE Q == (pending[t] \ {r}) \cup IF r.page = "gone" THEN {} ELSE {a}
<1>4. Sound(r)' /\ (~Decodes(r.token) => ~Decodes(r.token)')
  BY <1>1, SoundStays DEF SessionInv, Grows, Decodes
<1>5. Sound(a)'
  BY <1>3, <1>4 DEF Sound
<1>6. Q \in SUBSET Row /\ \A q \in Q : q = a \/ \E p \in pending[t] : Alike(q, p)
  BY <1>1, <1>3 DEF Alike
<1>7. pending' = [pending EXCEPT ![t] = Q] /\ tabs' = tabs /\ token' = token /\ cached' = cached
  BY <1>2 DEF Answer, storage
<1>8. PendingInv'
  <2>1. pending' \in [Tabs -> SUBSET Row]
    BY <1>1, <1>7 DEF SessionInv, PendingInv
  <2>2. \A s \in Tabs : \A q \in pending'[s] : q = a \/ \E p \in pending[s] : Alike(q, p)
    <3>1. pending'[t] = Q /\ \A s \in Tabs \ {t} : pending'[s] = pending[s]
      BY <1>7 DEF SessionInv, PendingInv
    <3>2. \A q \in Q : q = a \/ \E p \in pending[t] : Alike(q, p)
      BY <1>6
    <3> HIDE DEF Q
    <3> QED BY <3>1, <3>2 DEF Alike
  <2> QED BY <1>5, <2>1, <2>2, ReplacedPending
<1>9. Awaited(t)'
  <2>1. Awaited(t)
    BY AwaitedEverywhere DEF SessionInv
  <2>2. ASSUME NEW q \in pending[t], q.kind = "me", q.page = "open", ~q.cancelled
        PROVE  \E p \in Q : p.kind = "me" /\ p.page = "open" /\ ~p.cancelled
    <3>1. CASE q = r
      <4>1. a \in Q /\ a.kind = "me" /\ a.page = "open"
        BY <1>3, <2>2, <3>1
      <4>2. ~a.cancelled
        BY <1>3, <2>2, <3>1
      <4> HIDE DEF Q
      <4> QED BY <4>1, <4>2
    <3>2. CASE q # r
      BY <2>2, <3>2
    <3> QED BY <3>1, <3>2
  <2>3. pending'[t] = Q /\ tabs'[t] = tabs[t]
    BY <1>7 DEF SessionInv, PendingInv
  <2> HIDE DEF Q
  <2> QED BY <2>1, <2>2, <2>3 DEF Awaited
<1>10. UserIsAwaited'
  <2>1. \A s \in Tabs \ {t} : tabs'[s] = tabs[s] /\ pending'[s] = pending[s]
    BY <1>7 DEF SessionInv, PendingInv
  <2> QED BY <1>9, <2>1, OtherTabsAwait
<1>11. token' \in Nat /\ token' <= Len(issued')
  <2>1. Len(issued) \in Nat /\ Len(issued') \in Nat /\ Len(issued) <= Len(issued')
    BY DEF SessionInv, AccountsInv, Grows
  <2> QED BY <1>7, <2>1 DEF SessionInv
<1> QED BY <1>7, <1>8, <1>10, <1>11 DEF SessionInv, Grows

\* Requests that are only marked or dropped remain sound.
LEMMA MarkedPending ==
  ASSUME SessionInv, Grows, pending' \in [Tabs -> SUBSET Row],
         \A s \in Tabs : \A q \in pending'[s] : \E r \in pending[s] : Alike(q, r)
  PROVE  PendingInv'
<1>1. PICK a \in Row : a = Request("me", NoToken, 0)
  BY DEF Request, Row, Args, NoToken
<1>2. a.token = 0 /\ a.kind = "me" /\ a.status = 0
  BY <1>1 DEF Request, NoToken
<1>3. Len(issued') \in Nat
  BY DEF Grows, AccountsInv
<1>4. Sound(a)'
  BY <1>2, <1>3 DEF Sound
<1> QED BY <1>4, ReplacedPending

\* A step of a tab by which its requests are only marked or dropped.
LEMMA TabKeeps ==
  ASSUME SessionInv, NEW t \in Tabs, UNCHANGED server,
         pending' \in [Tabs -> SUBSET Row], tabs' \in [Tabs -> Tab],
         \A s \in Tabs \ {t} : tabs'[s] = tabs[s] /\ pending'[s] = pending[s],
         \A q \in pending'[t] : \E r \in pending[t] : Alike(q, r),
         token' \in Nat, token' <= Len(issued), cached' \in Nat,
         Awaited(t)'
  PROVE  SessionInv'
<1>1. Grows
  BY SameGrows DEF SessionInv, server, accounts
<1>2. \A s \in Tabs : \A q \in pending'[s] : \E r \in pending[s] : Alike(q, r)
  BY DEF Alike
<1>3. PendingInv'
  BY <1>1, <1>2, MarkedPending
<1>4. UserIsAwaited'
  BY OtherTabsAwait
<1>5. commitments' \in Seq(Commitment) /\ OnlyOwnersEnd'
  BY DEF SessionInv, OnlyOwnersEnd, server
<1>6. issued' = issued
  BY DEF server, accounts
<1> QED BY <1>1, <1>3, <1>4, <1>5, <1>6 DEF SessionInv, Grows

\* Sending a request keeps SessionInv.
LEMMA SendKeeps ==
  ASSUME SessionInv, NEW t \in Tabs,
         NEW kind \in {"login", "signup", "me", "create", "checkpoint"},
         NEW n \in Nat, n <= Len(issued), kind \in {"login", "signup"} => n = NoToken,
         NEW arg \in Args, Send(t, kind, n, arg)
  PROVE  SessionInv'
<1>1. PICK a \in Row : a = Request(kind, n, arg)
  BY DEF Request, Row
<1>2. a.token = n /\ a.kind = kind /\ a.status = 0
  BY <1>1 DEF Request
<1>3. Grows
  BY SameGrows DEF SessionInv, Send, server, accounts
<1>4. /\ pending' \in [Tabs -> SUBSET Row] /\ pending'[t] = pending[t] \cup {a}
      /\ \A s \in Tabs \ {t} : pending'[s] = pending[s]
  BY <1>1 DEF SessionInv, PendingInv, Send
<1>5. issued' = issued /\ tabs' = tabs /\ token' = token /\ cached' = cached
  BY DEF Send, server, accounts, storage
<1>6. Sound(a)'
  BY <1>2, <1>5 DEF Sound
<1>7. \A s \in Tabs : \A q \in pending'[s] : q = a \/ \E r \in pending[s] : Alike(q, r)
  BY <1>4 DEF Alike
<1>8. PendingInv'
  BY <1>3, <1>4, <1>6, <1>7, ReplacedPending
<1>9. Awaited(t)'
  <2>1. Awaited(t)
    BY AwaitedEverywhere DEF SessionInv
  <2> QED BY <1>4, <1>5, <2>1 DEF Awaited
<1>10. UserIsAwaited'
  BY <1>4, <1>5, <1>9, OtherTabsAwait
<1>11. commitments' \in Seq(Commitment) /\ OnlyOwnersEnd'
  BY DEF SessionInv, OnlyOwnersEnd, Send, server
<1> QED BY <1>3, <1>5, <1>8, <1>10, <1>11 DEF SessionInv, Grows

----------------------------------------------------------------------------
(* The steps *)

\* Ignoring the fetches of a tab changes nothing that its requests carry or say.
LEMMA WithoutFetchesAlike ==
  ASSUME NEW Q \in SUBSET Row
  PROVE  /\ WithoutFetches(Q) \in SUBSET Row
         /\ \A q \in WithoutFetches(Q) : \E r \in Q : Alike(q, r)
<1> SUFFICES ASSUME NEW r \in Q
             PROVE  LET q == [r EXCEPT !.cancelled = (@ \/ r.kind = "me")]
                    IN  q \in Row /\ Alike(q, r)
  BY DEF WithoutFetches
<1> DEFINE q == [r EXCEPT !.cancelled = (r.cancelled \/ r.kind = "me")]
<1>1. r \in Row
  OBVIOUS
<1>2. (r.cancelled \/ r.kind = "me") \in BOOLEAN
  OBVIOUS
<1>3. q \in Row
  BY <1>1, <1>2 DEF Row
<1>4. Alike(q, r)
  BY <1>1 DEF Row, Alike
<1> QED BY <1>3, <1>4

\* A tab that is logged out waits for nobody.
LEMMA LoggedOutKeeps ==
  ASSUME SessionInv, NEW t \in Tabs, UNCHANGED <<server, cached>>, token' = NoToken,
         tabs' = [tabs EXCEPT ![t] = LoggedOut],
         NEW R \in SUBSET pending[t],
         pending' = [pending EXCEPT ![t] = WithoutFetches(R)]
  PROVE  SessionInv'
<1>1. R \in SUBSET Row
  BY DEF SessionInv, PendingInv
<1>2. /\ pending' \in [Tabs -> SUBSET Row]
      /\ pending'[t] = WithoutFetches(R)
      /\ \A s \in Tabs \ {t} : pending'[s] = pending[s]
  BY <1>1, WithoutFetchesAlike DEF SessionInv, PendingInv
<1>3. \A q \in pending'[t] : \E r \in pending[t] : Alike(q, r)
  BY <1>1, <1>2, WithoutFetchesAlike
<1>4. /\ tabs' \in [Tabs -> Tab] /\ tabs'[t] = LoggedOut
      /\ \A s \in Tabs \ {t} : tabs'[s] = tabs[s]
  BY DEF SessionInv, Tab, LoggedOut
<1>5. Awaited(t)'
  BY <1>4 DEF Awaited, LoggedOut
<1>6. token' \in Nat /\ token' <= Len(issued) /\ cached' \in Nat
  BY DEF SessionInv, AccountsInv, NoToken
<1> QED BY <1>2, <1>3, <1>4, <1>5, <1>6, TabKeeps

\* Loading the page again keeps SessionInv.
LEMMA ReloadKeeps ==
  ASSUME SessionInv, NEW t \in Tabs, Reload(t)
  PROVE  SessionInv'
<1> DEFINE gone == {[r EXCEPT !.page = "gone"] :
                     r \in {q \in pending[t] : q.status = 0 /\ q.kind # "me"}}
<1>1. pending[t] \in SUBSET Row
  BY DEF SessionInv, PendingInv
<1>2. gone \in SUBSET Row /\ \A q \in gone : \E r \in pending[t] : Alike(q, r)
  <2> SUFFICES ASSUME NEW r \in pending[t]
               PROVE  LET q == [r EXCEPT !.page = "gone"] IN q \in Row /\ Alike(q, r)
    OBVIOUS
  <2> QED BY <1>1 DEF Row, Alike
<1>3. UNCHANGED <<server, storage>>
  BY DEF Reload
<1>4. CASE token = NoToken
  <2>1. /\ pending' \in [Tabs -> SUBSET Row] /\ pending'[t] = gone
        /\ \A s \in Tabs \ {t} : pending'[s] = pending[s]
    BY <1>2, <1>4 DEF SessionInv, PendingInv, Reload
  <2>2. /\ tabs' \in [Tabs -> Tab] /\ tabs'[t] = LoggedOut
        /\ \A s \in Tabs \ {t} : tabs'[s] = tabs[s]
    <3>1. tabs' = [tabs EXCEPT ![t] = LoggedOut]
      BY <1>4 DEF Reload
    <3>2. LoggedOut \in Tab
      BY DEF LoggedOut, Tab
    <3> QED BY <3>1, <3>2 DEF SessionInv
  <2>3. Awaited(t)'
    BY <2>2 DEF Awaited, LoggedOut
  <2>4. token' \in Nat /\ token' <= Len(issued) /\ cached' \in Nat
    BY <1>3 DEF SessionInv, storage
  <2> HIDE DEF gone
  <2> QED BY <1>2, <1>3, <2>1, <2>2, <2>3, <2>4, TabKeeps
<1>5. CASE token # NoToken
  <2>1. PICK a \in Row : a = Request("me", token, 0)
    BY DEF Request, Row, Args, SessionInv
  <2>2. /\ a.kind = "me" /\ a.token = token /\ a.status = 0 /\ a.page = "open"
        /\ ~a.cancelled
    BY <2>1 DEF Request
  <2>3. /\ pending' \in [Tabs -> SUBSET Row] /\ pending'[t] = gone \cup {a}
        /\ \A s \in Tabs \ {t} : pending'[s] = pending[s]
    BY <1>2, <1>5, <2>1 DEF SessionInv, PendingInv, Reload, FirstRequests
  <2>4. /\ tabs' \in [Tabs -> Tab]
        /\ \A s \in Tabs \ {t} : tabs'[s] = tabs[s]
    <3>1. tabs' = [tabs EXCEPT ![t] = LoggedIn(0)]
      BY <1>5 DEF Reload
    <3>2. LoggedIn(0) \in Tab
      BY DEF LoggedIn, Tab
    <3> QED BY <3>1, <3>2 DEF SessionInv
  <2>5. Grows /\ issued' = issued
    BY <1>3, SameGrows DEF SessionInv, server, accounts
  <2>6. Sound(a)'
    BY <2>2, <2>5 DEF Sound, SessionInv
  <2>7. \A s \in Tabs : \A q \in pending'[s] : q = a \/ \E r \in pending[s] : Alike(q, r)
    <3> HIDE DEF gone
    <3> QED BY <1>2, <2>3 DEF Alike
  <2>8. PendingInv'
    BY <2>3, <2>5, <2>6, <2>7, ReplacedPending
  <2>9. Awaited(t)'
    BY <2>2, <2>3 DEF Awaited
  <2>10. UserIsAwaited'
    BY <2>3, <2>4, <2>9, OtherTabsAwait
  <2>11. commitments' \in Seq(Commitment) /\ OnlyOwnersEnd'
    BY <1>3 DEF SessionInv, OnlyOwnersEnd, server
  <2> QED BY <1>3, <2>4, <2>5, <2>8, <2>10, <2>11 DEF SessionInv, Grows, storage
<1> QED BY <1>4, <1>5

\* Receiving an answer that does not log out keeps SessionInv, provided the tab has
\* or still awaits its user.
LEMMA ReceivedKeeps ==
  ASSUME SessionInv, NEW t \in Tabs, UNCHANGED server,
         NEW r \in pending[t], pending' = [pending EXCEPT ![t] = @ \ {r}],
         tabs' \in [Tabs -> Tab], \A s \in Tabs \ {t} : tabs'[s] = tabs[s],
         token' \in Nat, token' <= Len(issued), cached' \in Nat,
         \/ tabs'[t].user # 0
         \/ tabs'[t].fetch_failed
         \/ tabs'[t] = tabs[t] /\ (r.kind # "me" \/ r.page # "open" \/ r.cancelled)
  PROVE  SessionInv'
<1>1. /\ pending' \in [Tabs -> SUBSET Row] /\ pending'[t] = pending[t] \ {r}
      /\ \A s \in Tabs \ {t} : pending'[s] = pending[s]
  BY DEF SessionInv, PendingInv
<1>2. Awaited(t)
  BY AwaitedEverywhere DEF SessionInv
<1>3. Awaited(t)'
  BY <1>1, <1>2 DEF Awaited
<1>4. \A q \in pending'[t] : \E p \in pending[t] : Alike(q, p)
  BY <1>1 DEF Alike
<1> QED BY <1>1, <1>3, <1>4, TabKeeps

\* Every way to serve a request keeps SessionInv.
LEMMA ServeKeeps ==
  ASSUME SessionInv, NEW t \in Tabs, Serve(t)
  PROVE  SessionInv'
<1>c. UNCHANGED commitments => commitments' \in Seq(Commitment) /\ OnlyOwnersEnd'
  BY DEF SessionInv, OnlyOwnersEnd
<1>s. UNCHANGED accounts => Grows
  BY SameGrows DEF SessionInv, accounts
<1>r. ASSUME NEW kind, NEW r \in Unserved(t, kind)
      PROVE  /\ r \in pending[t] /\ r \in Row /\ Sound(r) /\ r.kind = kind /\ r.status = 0
             /\ r.token \in Nat /\ r.token <= Len(issued)
  BY <1>r DEF Unserved, SessionInv, PendingInv, Sound, Row
<1>1. ASSUME NEW r \in Unserved(t, "login"), ServeLogin(t, r) PROVE SessionInv'
  <2>1. r \in pending[t] /\ r.kind = "login" /\ ~Decodes(r.token)
    BY <1>r DEF Sound, Decodes
  <2>2. CASE Answer(t, r, 401, 0) /\ UNCHANGED server
    BY <1>c, <1>s, <2>1, <2>2, AnswerKeeps DEF server
  <2>3. ASSUME NEW u \in WithEmail(r.arg), Issue(u), Answer(t, r, 200, Len(issued')),
               UNCHANGED <<users, expired, commitments>>
        PROVE  SessionInv'
    <3>1. u \in DOMAIN users'
      BY <2>3 DEF WithEmail
    <3>2. Grows /\ Len(issued') \in DOMAIN issued'
      BY <2>3, <3>1, IssueGrows DEF SessionInv
    <3>3. Len(issued') \in Nat
      BY <3>2 DEF Grows, AccountsInv
    <3> QED BY <1>c, <2>1, <2>3, <3>2, <3>3, AnswerKeeps
  <2> QED BY <1>1, <2>2, <2>3 DEF ServeLogin
<1>2. ASSUME NEW r \in Unserved(t, "signup"), ServeSignup(t, r) PROVE SessionInv'
  <2>1. r \in pending[t] /\ r \in Row /\ r.kind = "signup" /\ r.token = NoToken /\ r.status = 0
    BY <1>r DEF Sound
  <2>2. UNCHANGED server
    BY <1>2 DEF ServeSignup
  <2>3. CASE Answer(t, r, 409, 0)
    BY <1>c, <1>s, <2>1, <2>2, <2>3, AnswerKeeps DEF server
  <2>4. CASE /\ pending' = [pending EXCEPT ![t] = (@ \ {r}) \cup {[r EXCEPT !.kind = "insert_user"]}]
             /\ UNCHANGED <<storage, tabs>>
    <3>1. PICK a \in Row : a = [r EXCEPT !.kind = "insert_user"]
      BY <2>1 DEF Row
    <3>2. a.token = NoToken /\ a.kind = "insert_user" /\ a.status = 0
      BY <2>1, <3>1 DEF Row
    <3>3. Len(issued') \in Nat /\ issued' = issued
      BY <2>2 DEF SessionInv, AccountsInv, server, accounts
    <3>4. Sound(a)'
      BY <3>2, <3>3 DEF Sound, NoToken
    <3>5. /\ pending' \in [Tabs -> SUBSET Row] /\ pending'[t] = (pending[t] \ {r}) \cup {a}
          /\ \A s \in Tabs \ {t} : pending'[s] = pending[s]
      BY <2>4, <3>1 DEF SessionInv, PendingInv
    <3>6. \A s \in Tabs : \A q \in pending'[s] : q = a \/ \E p \in pending[s] : Alike(q, p)
      BY <3>5 DEF Alike
    <3>7. Grows
      BY <1>s, <2>2 DEF server
    <3>8. PendingInv'
      BY <3>4, <3>5, <3>6, <3>7, ReplacedPending
    <3>9. Awaited(t)'
      <4>1. Awaited(t)
        BY AwaitedEverywhere DEF SessionInv
      <4> QED BY <2>1, <2>4, <3>5, <4>1 DEF Awaited
    <3>10. UserIsAwaited'
      BY <2>4, <3>5, <3>9, OtherTabsAwait
    <3> QED BY <1>c, <2>2, <2>4, <3>3, <3>7, <3>8, <3>10 DEF SessionInv, Grows, storage, server
  <2> QED BY <1>2, <2>3, <2>4 DEF ServeSignup
<1>3. ASSUME NEW r \in Unserved(t, "insert_user"), ServeInsertUser(t, r) PROVE SessionInv'
  <2>1. r \in pending[t] /\ r \in Row /\ r.kind = "insert_user"
    BY <1>r
  <2>2. CASE Answer(t, r, 500, 0) /\ UNCHANGED server
    BY <1>c, <1>s, <2>1, <2>2, AnswerKeeps DEF server
  <2>3. CASE /\ InsertUser(r.arg) /\ Issue(Len(users')) /\ Answer(t, r, 200, Len(issued'))
             /\ UNCHANGED <<expired, commitments>>
    <3>1. r.arg \in Args
      BY <2>1 DEF Row
    <3>2. Len(users') \in DOMAIN users'
      BY <2>3, <3>1 DEF InsertUser, SessionInv, AccountsInv
    <3>3. Grows /\ Len(issued') \in DOMAIN issued'
      BY <2>3, <3>1, <3>2, IssueGrows DEF SessionInv
    <3>4. Len(issued') \in Nat
      BY <3>3 DEF Grows, AccountsInv
    <3> QED BY <1>c, <2>1, <2>3, <3>3, <3>4, AnswerKeeps
  <2> QED BY <1>3, <2>2, <2>3 DEF ServeInsertUser
<1>4. ASSUME NEW r \in Unserved(t, "me"), ServeMe(t, r) PROVE SessionInv'
  <2>1. r \in pending[t] /\ r.kind = "me" /\ r.token \in Nat /\ r.token <= Len(issued)
    BY <1>r
  <2>2. UNCHANGED server
    BY <1>4 DEF ServeMe
  <2>3. CASE Authenticated(r.token)
    <3>1. issued[r.token] \in Nat \ {0}
      BY <2>1, <2>3, AuthenticatedUser DEF SessionInv
    <3>2. Answer(t, r, 200, issued[r.token])
      BY <1>4, <2>3 DEF ServeMe
    <3> QED BY <1>c, <1>s, <2>1, <2>2, <3>1, <3>2, AnswerKeeps DEF server
  <2>4. CASE ~Authenticated(r.token)
    <3>1. ~Decodes(r.token)
      BY <2>1, <2>4, UnauthorizedIsDead DEF SessionInv
    <3>2. Answer(t, r, 401, 0)
      BY <1>4, <2>4 DEF ServeMe
    <3> QED BY <1>c, <1>s, <2>1, <2>2, <3>1, <3>2, AnswerKeeps DEF server
  <2> QED BY <2>3, <2>4
<1>5. ASSUME NEW r \in Unserved(t, "create"), ServeCreate(t, r) PROVE SessionInv'
  <2> DEFINE u == issued[r.token]
  <2>1. r \in pending[t] /\ r.kind = "create" /\ r.token \in Nat /\ r.token <= Len(issued)
    BY <1>r
  <2>2. CASE ~Authenticated(r.token) /\ Answer(t, r, 401, 0) /\ UNCHANGED server
    <3>1. ~Decodes(r.token)
      BY <2>1, <2>2, UnauthorizedIsDead DEF SessionInv
    <3> QED BY <1>c, <1>s, <2>1, <2>2, <3>1, AnswerKeeps DEF server
  <2>3. CASE Answer(t, r, 409, 0) /\ UNCHANGED server
    BY <1>c, <1>s, <2>1, <2>3, AnswerKeeps DEF server
  <2>4. CASE /\ Authenticated(r.token)
             /\ commitments' = Append(commitments, [user |-> u, active |-> TRUE, ended_by |-> 0])
             /\ Answer(t, r, 200, Len(commitments'))
             /\ UNCHANGED accounts
    <3>1. u \in Nat
      BY <2>1, <2>4, AuthenticatedUser DEF SessionInv
    <3> DEFINE row == [user |-> u, active |-> TRUE, ended_by |-> 0]
    <3>2. row \in Commitment /\ row.ended_by = 0
      BY <3>1 DEF Commitment
    <3> HIDE DEF row
    <3>3. commitments' = Append(commitments, row) /\ commitments \in Seq(Commitment)
      BY <2>4 DEF SessionInv, row
    <3>4. commitments' \in Seq(Commitment) /\ Len(commitments') \in Nat
      BY <3>2, <3>3
    <3>5. \A c \in DOMAIN commitments' :
             \/ c \in DOMAIN commitments /\ commitments'[c] = commitments[c]
             \/ commitments'[c] = row
      BY <3>2, <3>3
    <3>6. OnlyOwnersEnd'
      BY <3>2, <3>5 DEF SessionInv, OnlyOwnersEnd
    <3>7. Grows /\ Answer(t, r, 200, Len(commitments'))
      BY <1>s, <2>4
    <3> QED BY <2>1, <3>4, <3>6, <3>7, AnswerKeeps
  <2> QED BY <1>5, <2>2, <2>3, <2>4 DEF ServeCreate
<1>6. ASSUME NEW r \in Unserved(t, "checkpoint"), ServeCheckpoint(t, r) PROVE SessionInv'
  <2> DEFINE u == issued[r.token]
  <2>1. r \in pending[t] /\ r.kind = "checkpoint" /\ r.token \in Nat /\ r.token <= Len(issued)
    BY <1>r
  <2>2. CASE ~Authenticated(r.token) /\ Answer(t, r, 401, 0) /\ UNCHANGED server
    <3>1. ~Decodes(r.token)
      BY <2>1, <2>2, UnauthorizedIsDead DEF SessionInv
    <3> QED BY <1>c, <1>s, <2>1, <2>2, <3>1, AnswerKeeps DEF server
  <2>3. ASSUME NEW status \in {200, 403, 409}, Answer(t, r, status, 0), UNCHANGED server
        PROVE  SessionInv'
    BY <1>c, <1>s, <2>1, <2>3, AnswerKeeps DEF server
  <2>4. CASE /\ Authenticated(r.token) /\ MayCheckpoint(u, r.arg)
             /\ commitments' = [commitments EXCEPT ![r.arg].active = FALSE, ![r.arg].ended_by = u]
             /\ Answer(t, r, 200, 0)
             /\ UNCHANGED accounts
    <3>1. u \in Nat
      BY <2>1, <2>4, AuthenticatedUser DEF SessionInv
    <3> DEFINE ended(c) == [commitments[c] EXCEPT !.active = FALSE, !.ended_by = u]
    <3>2. commitments \in Seq(Commitment) /\ DOMAIN commitments = 1 .. Len(commitments)
      BY DEF SessionInv
    <3>3. /\ DOMAIN commitments' = DOMAIN commitments
          /\ \A c \in DOMAIN commitments : c # r.arg => commitments'[c] = commitments[c]
          /\ \A c \in DOMAIN commitments : c = r.arg => commitments'[c] = ended(c)
      BY <2>4, <3>2
    <3>4. \A c \in DOMAIN commitments :
             /\ ended(c) \in Commitment
             /\ ended(c).user = commitments[c].user /\ ended(c).ended_by = u
      <4> SUFFICES ASSUME NEW c \in DOMAIN commitments
                   PROVE  /\ ended(c) \in Commitment
                          /\ ended(c).user = commitments[c].user /\ ended(c).ended_by = u
        OBVIOUS
      <4>1. commitments[c] \in Commitment
        BY <3>2
      <4> HIDE DEF u
      <4> QED BY <3>1, <4>1 DEF Commitment
    <3> HIDE DEF ended
    <3>5. commitments' \in Seq(Commitment)
      <4>1. commitments' = [c \in 1 .. Len(commitments) |-> commitments'[c]]
        BY <2>4, <3>2
      <4>2. \A c \in 1 .. Len(commitments) : commitments'[c] \in Commitment
        BY <3>2, <3>3, <3>4
      <4> QED BY <3>2, <4>1, <4>2
    <3>6. OnlyOwnersEnd'
      BY <2>4, <3>3, <3>4 DEF SessionInv, OnlyOwnersEnd, MayCheckpoint
    <3>7. Grows /\ Answer(t, r, 200, 0)
      BY <1>s, <2>4
    <3> QED BY <2>1, <3>5, <3>6, <3>7, AnswerKeeps
  <2> QED BY <1>6, <2>2, <2>3, <2>4 DEF ServeCheckpoint
<1> QED BY <1>1, <1>2, <1>3, <1>4, <1>5, <1>6 DEF Serve

\* Every step keeps SessionInv.
LEMMA NextSession == SessionInv /\ [Next]_vars => SessionInv'
<1> SUFFICES ASSUME SessionInv, [Next]_vars PROVE SessionInv'
  OBVIOUS
<1>1. CASE Expire /\ UNCHANGED <<commitments, storage, tabs, pending, unanswered>>
  <2>1. Grows
    BY <1>1, SameGrows DEF Expire, SessionInv
  <2>2. pending' \in [Tabs -> SUBSET Row]
        /\ \A s \in Tabs : \A q \in pending'[s] : \E r \in pending[s] : Alike(q, r)
    BY <1>1 DEF SessionInv, PendingInv, Alike
  <2>3. PendingInv'
    BY <2>1, <2>2, MarkedPending
  <2> QED BY <1>1, <2>1, <2>3 DEF SessionInv, Grows, Expire, storage, OnlyOwnersEnd, UserIsAwaited
<1>2. ASSUME NEW t \in Tabs, NEW email \in Emails, Login(t, email) \/ Signup(t, email)
      PROVE  SessionInv'
  <2>1. email \in Args /\ NoToken \in Nat /\ NoToken <= Len(issued)
    BY DEF Args, NoToken, SessionInv, AccountsInv
  <2>2. Send(t, "login", NoToken, email) \/ Send(t, "signup", NoToken, email)
    BY <1>2 DEF Login, Signup
  <2> QED BY <2>1, <2>2, SendKeeps
<1>3. ASSUME NEW t \in Tabs, Commit(t) \/ Checkpoint(t) PROVE SessionInv'
  <2>1. 0 \in Args /\ cached \in Args /\ token \in Nat /\ token <= Len(issued)
    BY DEF Args, SessionInv
  <2>2. Send(t, "create", token, 0) \/ Send(t, "checkpoint", token, cached)
    BY <1>3 DEF Commit, Checkpoint
  <2> QED BY <2>1, <2>2, SendKeeps
<1>4. ASSUME NEW t \in Tabs, Logout(t) PROVE SessionInv'
  BY <1>4, LoggedOutKeeps DEF Logout
<1>5. ASSUME NEW t \in Tabs, Reload(t) PROVE SessionInv'
  BY <1>5, ReloadKeeps
<1>6. ASSUME NEW t \in Tabs, Serve(t) PROVE SessionInv'
  BY <1>6, ServeKeeps
<1>7. ASSUME NEW t \in Tabs, ReceiveUnauthorized(t) PROVE SessionInv'
  <2>1. PICK r \in Answered(t, {401}) :
          /\ token' = NoToken /\ tabs' = [tabs EXCEPT ![t] = LoggedOut]
          /\ pending' = [pending EXCEPT ![t] = WithoutFetches(pending[t] \ {r})]
          /\ UNCHANGED <<server, cached>>
    BY <1>7 DEF ReceiveUnauthorized
  <2>2. pending[t] \ {r} \in SUBSET pending[t]
    OBVIOUS
  <2> QED BY <2>1, <2>2, LoggedOutKeeps
<1>8. ASSUME NEW t \in Tabs, ReceiveToken(t) PROVE SessionInv'
  <2>1. PICK r \in Answered(t, {200}) :
          /\ r.kind \in {"login", "insert_user"} /\ token' = r.body
          /\ tabs' = [tabs EXCEPT ![t] = LoggedIn(issued[r.body])]
          /\ pending' = [pending EXCEPT ![t] = @ \ {r}]
          /\ UNCHANGED <<server, cached>>
    BY <1>8 DEF ReceiveToken
  <2>2. r \in pending[t] /\ r.body \in DOMAIN issued
    BY <2>1 DEF Answered, SessionInv, PendingInv, Sound
  <2>3. token' \in Nat /\ token' <= Len(issued) /\ issued[r.body] \in Nat \ {0}
    BY <2>1, <2>2 DEF SessionInv, AccountsInv
  <2>4. LoggedIn(issued[r.body]) \in Tab /\ LoggedIn(issued[r.body]).user # 0
    BY <2>3 DEF LoggedIn, Tab
  <2>5. /\ tabs' \in [Tabs -> Tab] /\ tabs'[t].user # 0
        /\ \A s \in Tabs \ {t} : tabs'[s] = tabs[s]
    BY <2>1, <2>4 DEF SessionInv
  <2>6. cached' \in Nat /\ UNCHANGED server
    BY <2>1 DEF SessionInv
  <2> QED BY <2>1, <2>2, <2>3, <2>5, <2>6, ReceivedKeeps
<1>9. ASSUME NEW t \in Tabs, ReceiveUser(t) PROVE SessionInv'
  <2>1. PICK r \in Answered(t, {200}) :
          /\ r.kind = "me"
          /\ tabs' = IF r.cancelled THEN tabs ELSE [tabs EXCEPT ![t].user = r.body]
          /\ pending' = [pending EXCEPT ![t] = @ \ {r}]
          /\ UNCHANGED <<server, storage>>
    BY <1>9 DEF ReceiveUser
  <2>2. r \in pending[t] /\ r.body \in Nat \ {0}
    BY <2>1 DEF Answered, SessionInv, PendingInv, Sound, Row
  <2>3. token' \in Nat /\ token' <= Len(issued) /\ cached' \in Nat /\ UNCHANGED server
    BY <2>1 DEF SessionInv, storage
  <2>4. /\ tabs' \in [Tabs -> Tab]
        /\ tabs'[t].user # 0 \/ (tabs'[t] = tabs[t] /\ r.cancelled)
        /\ \A s \in Tabs \ {t} : tabs'[s] = tabs[s]
    <3>1. CASE r.cancelled
      BY <2>1, <3>1 DEF SessionInv
    <3>2. CASE ~r.cancelled
      <4> DEFINE b == [tabs[t] EXCEPT !.user = r.body]
      <4>1. tabs[t] \in Tab
        BY DEF SessionInv
      <4>2. b \in Tab /\ b.user = r.body
        BY <2>2, <4>1 DEF Tab
      <4>3. tabs' = [tabs EXCEPT ![t] = b]
        BY <2>1, <3>2
      <4> HIDE DEF b
      <4> QED BY <2>2, <4>2, <4>3 DEF SessionInv
    <3> QED BY <3>1, <3>2
  <2> QED BY <2>1, <2>2, <2>3, <2>4, ReceivedKeeps
<1>10. ASSUME NEW t \in Tabs, ReceiveCommitment(t) PROVE SessionInv'
  <2>1. PICK r \in Answered(t, {200}) :
          /\ r.kind = "create" /\ cached' \in {cached, r.body}
          /\ pending' = [pending EXCEPT ![t] = @ \ {r}]
          /\ UNCHANGED <<server, token, tabs>>
    BY <1>10 DEF ReceiveCommitment, Remember, Remembered
  <2>2. r \in pending[t] /\ r.body \in Nat
    BY DEF Answered, SessionInv, PendingInv, Row
  <2>3. /\ token' \in Nat /\ token' <= Len(issued) /\ cached' \in Nat /\ UNCHANGED server
        /\ tabs' \in [Tabs -> Tab] /\ tabs' = tabs
    BY <2>1, <2>2 DEF SessionInv
  <2> QED BY <2>1, <2>2, <2>3, ReceivedKeeps
<1>11. ASSUME NEW t \in Tabs, ReceiveOther(t) PROVE SessionInv'
  <2>1. PICK r \in Answered(t, {200, 403, 409, 500}) :
          /\ r.status = 200 => r.kind = "checkpoint"
          /\ pending' = [pending EXCEPT ![t] = @ \ {r}]
          /\ UNCHANGED <<server, storage, tabs>>
    BY <1>11 DEF ReceiveOther
  <2>2. r \in pending[t] /\ r.kind # "me"
    BY <2>1 DEF Answered, SessionInv, PendingInv, Sound
  <2>3. /\ token' \in Nat /\ token' <= Len(issued) /\ cached' \in Nat /\ UNCHANGED server
        /\ tabs' \in [Tabs -> Tab] /\ tabs' = tabs
    BY <2>1 DEF SessionInv, storage
  <2> QED BY <2>1, <2>2, <2>3, ReceivedKeeps
<1>12. ASSUME NEW t \in Tabs, Lose(t) PROVE SessionInv'
  <2>1. PICK r \in pending[t] :
          /\ pending' = [pending EXCEPT ![t] = @ \ {r}]
          /\ tabs' = IF r.kind = "me" /\ r.page = "open" /\ ~r.cancelled
                      THEN [tabs EXCEPT ![t].fetch_failed = TRUE] ELSE tabs
          /\ UNCHANGED <<server, storage>>
    BY <1>12 DEF Lose
  <2>2. token' \in Nat /\ token' <= Len(issued) /\ cached' \in Nat /\ UNCHANGED server
    BY <2>1 DEF SessionInv, storage
  <2>3. /\ tabs' \in [Tabs -> Tab]
        /\ \/ tabs'[t].fetch_failed
           \/ tabs'[t] = tabs[t] /\ (r.kind # "me" \/ r.page # "open" \/ r.cancelled)
        /\ \A s \in Tabs \ {t} : tabs'[s] = tabs[s]
    <3>1. CASE r.kind = "me" /\ r.page = "open" /\ ~r.cancelled
      <4> DEFINE b == [tabs[t] EXCEPT !.fetch_failed = TRUE]
      <4>1. tabs[t] \in Tab
        BY DEF SessionInv
      <4>2. b \in Tab /\ b.fetch_failed
        BY <4>1 DEF Tab
      <4>3. tabs' = [tabs EXCEPT ![t] = b]
        BY <2>1, <3>1
      <4> HIDE DEF b
      <4> QED BY <4>2, <4>3 DEF SessionInv
    <3>2. CASE ~(r.kind = "me" /\ r.page = "open" /\ ~r.cancelled)
      BY <2>1, <3>2 DEF SessionInv
    <3> QED BY <3>1, <3>2
  <2> QED BY <2>1, <2>2, <2>3, ReceivedKeeps
<1>13. CASE ForgetMap
  BY <1>13 DEF ForgetMap, server, accounts, SessionInv, AccountsInv, PendingInv, Sound, Decodes,
     OnlyOwnersEnd, UserIsAwaited
<1>14. CASE UNCHANGED vars
  BY <1>14 DEF vars, accounts, SessionInv, AccountsInv, PendingInv, Sound, Decodes,
     OnlyOwnersEnd, UserIsAwaited
<1> QED
  BY <1>1, <1>2, <1>3, <1>4, <1>5, <1>6, <1>7, <1>8, <1>9, <1>10, <1>11, <1>12, <1>13, <1>14 DEF Next

\* SessionInv is an invariant.
LEMMA SessionInvariant == Spec => []SessionInv
BY InitSession, NextSession, PTL DEF Spec

\* Whatever id is cached in the browser and whoever uses it: commitments are ended by
\* their own users alone.
THEOREM OwnersEnd == Spec => []OnlyOwnersEnd
<1>1. SessionInv => OnlyOwnersEnd
  BY DEF SessionInv
<1> QED BY <1>1, SessionInvariant, PTL

\* A tab that is authenticated and does not know its user awaits the answer, or has
\* lost it to the network.
THEOREM UsersAreAwaited == Spec => []UserIsAwaited
<1>1. SessionInv => UserIsAwaited
  BY DEF SessionInv
<1> QED BY <1>1, SessionInvariant, PTL

\* The 401 that removes a live token answers a request sent without it.
LEMMA StaleUnauthorized ==
  ASSUME SessionInv, NEW t \in Tabs, ReceiveUnauthorized(t), Decodes(token)
  PROVE  \E r \in Answered(t, {401}) : r.token # token /\ r \notin pending'[t]
<1>1. PICK r \in Answered(t, {401}) :
        pending' = [pending EXCEPT ![t] = WithoutFetches(pending[t] \ {r})]
  BY DEF ReceiveUnauthorized
<1>2. r \in pending[t] /\ pending[t] \in SUBSET Row
  BY DEF Answered, SessionInv, PendingInv
<1>3. pending'[t] = WithoutFetches(pending[t] \ {r})
  BY <1>1 DEF SessionInv, PendingInv
<1>4. \A q \in Answered(t, {401}) : q.token # token
  BY DEF Answered, SessionInv, PendingInv, Sound
<1>5. CASE r \notin pending'[t]
  BY <1>4, <1>5
<1>6. CASE r \in pending'[t]
  \* then it was cancelled, and its twin that was not is gone
  <2>1. PICK q \in pending[t] \ {r} : r = [q EXCEPT !.cancelled = (@ \/ q.kind = "me")]
    BY <1>3, <1>6 DEF WithoutFetches
  <2>2. q \in Row /\ r \in Row
    BY <1>2
  <2>3. q.kind = "me" /\ ~q.cancelled
    <3>1. CASE q.cancelled \/ q.kind # "me"
      <4>1. (q.cancelled \/ q.kind = "me") = q.cancelled
        BY <2>2, <3>1 DEF Row
      <4>2. r = [q EXCEPT !.cancelled = q.cancelled]
        BY <2>1, <4>1
      <4>3. r = q
        BY <2>2, <4>2 DEF Row
      <4> QED BY <2>1, <4>3
    <3> QED BY <3>1
  <2>4. q \in Answered(t, {401})
    BY <1>2, <2>1, <2>2 DEF Answered, Row
  <2>5. \A p \in WithoutFetches(pending[t] \ {r}) : p.kind = "me" => p.cancelled
    <3> SUFFICES ASSUME NEW s \in WithoutFetches(pending[t] \ {r}), s.kind = "me"
                 PROVE  s.cancelled
      OBVIOUS
    <3>1. PICK p \in pending[t] \ {r} : s = [p EXCEPT !.cancelled = (@ \/ p.kind = "me")]
      BY DEF WithoutFetches
    <3>2. p \in Row
      BY <1>2
    <3> QED BY <3>1, <3>2 DEF Row
  <2>6. q \notin pending'[t]
    BY <1>3, <2>3, <2>5
  <2> QED BY <1>4, <2>4, <2>6
<1> QED BY <1>5, <1>6

\* A live token leaves the browser by a logout, by a newer token, or by the 401 of a
\* request that was sent without it.
THEOREM LiveTokensStay == Spec => LiveTokenIsKept
<1> DEFINE Kept == Decodes(token) /\ token' = NoToken =>
                     \E t \in Tabs :
                       \/ Logout(t)
                       \/ \E r \in Answered(t, {401}) : r.token # token /\ r \notin pending'[t]
<1>1. SessionInv /\ [Next]_vars => [Kept]_vars
  <2> SUFFICES ASSUME SessionInv, Next, Decodes(token), token' = NoToken
               PROVE  \E t \in Tabs :
                        \/ Logout(t)
                        \/ \E r \in Answered(t, {401}) : r.token # token /\ r \notin pending'[t]
    OBVIOUS
  <2>1. token' # token
    BY DEF Decodes
  <2>2. ASSUME NEW t \in Tabs PROVE ~ReceiveToken(t)
    BY DEF ReceiveToken, Answered, SessionInv, PendingInv, Sound, AccountsInv, NoToken
  <2>3. ASSUME NEW t \in Tabs PROVE ~Serve(t)
    BY <2>1 DEF Serve, ServeLogin, ServeSignup, ServeInsertUser, ServeMe, ServeCreate,
       ServeCheckpoint, Answer, storage
  <2>4. ASSUME NEW t \in Tabs
        PROVE  /\ \A email \in Emails : ~Login(t, email) /\ ~Signup(t, email)
               /\ ~Commit(t) /\ ~Checkpoint(t) /\ ~Reload(t) /\ ~ReceiveUser(t)
               /\ ~ReceiveCommitment(t) /\ ~ReceiveOther(t) /\ ~Lose(t)
    BY <2>1 DEF Login, Signup, Commit, Checkpoint, Send, Reload, ReceiveUser,
       ReceiveCommitment, ReceiveOther, Lose, storage
  <2>5. \E t \in Tabs : Logout(t) \/ ReceiveUnauthorized(t)
    BY <2>1, <2>2, <2>3, <2>4 DEF Next, ForgetMap, storage
  <2> QED BY <2>5, StaleUnauthorized
<1> QED BY <1>1, SessionInvariant, PTL DEF Spec, LiveTokenIsKept

----------------------------------------------------------------------------
(* The slot stays within reach *)

\* The answer that tells a page of the commitment it has made.
Creation(r) == r.kind = "create" /\ r.status = 200

\* A user has one active commitment at most.
OneActive ==
  \A c, d \in DOMAIN commitments :
    /\ commitments[c].active /\ commitments[d].active
    /\ commitments[c].user = commitments[d].user
    => c = d

\* Nobody can end a commitment before its id has come to a page: until then it is
\* neither cached nor in a request, and it is active.
Untold ==
  /\ \A c \in unanswered : c \in DOMAIN commitments /\ commitments[c].active
  /\ cached # 0 => cached \in DOMAIN commitments \ unanswered
  /\ \A t \in Tabs : \A r \in pending[t] :
       r.kind = "checkpoint" => r.arg \in DOMAIN commitments \ unanswered

\* Each commitment is told of by one answer at most, until it is received.
ToldOnce ==
  /\ \A t \in Tabs : \A r \in pending[t] : Creation(r) => r.body \in unanswered
  /\ \A s, t \in Tabs : \A q \in pending[s], r \in pending[t] :
       Creation(q) /\ Creation(r) /\ q.body = r.body => s = t /\ q = r

ReachInv == OneActive /\ Untold /\ ToldOnce /\ SlotReachable

\* ReachInv holds initially.
LEMMA InitReach == Init => ReachInv
<1> SUFFICES ASSUME Init PROVE ReachInv
  OBVIOUS
<1>1. OneActive /\ SlotReachable
  BY DEF Init, OneActive, SlotReachable
<1>2. Untold
  BY DEF Init, Untold
<1>3. ToldOnce
  BY DEF Init, ToldOnce
<1> QED BY <1>1, <1>2, <1>3 DEF ReachInv

\* A step that leaves commitments and cached id alone, brings no new answer about a
\* commitment and asks for no checkpoint but of the cached one.
LEMMA ReachStays ==
  ASSUME ReachInv, UNCHANGED <<commitments, cached, unanswered, unsaved>>,
         \A t \in Tabs : \A q \in pending'[t] :
           /\ Creation(q) => q \in pending[t]
           /\ q.kind = "checkpoint" =>
                \/ \E r \in pending[t] : r.kind = "checkpoint" /\ r.arg = q.arg
                \/ cached # 0 /\ q.arg = cached
  PROVE  ReachInv'
<1>1. OneActive' /\ SlotReachable'
  BY DEF ReachInv, OneActive, SlotReachable
<1>2. Untold'
  BY DEF ReachInv, Untold
<1>3. ToldOnce'
  BY DEF ReachInv, ToldOnce, Creation
<1> QED BY <1>1, <1>2, <1>3 DEF ReachInv

\* What an answer does to the requests of its tab.
LEMMA AnswerDoes ==
  ASSUME SessionInv, NEW t \in Tabs, NEW r \in pending[t],
         NEW status \in {200, 401, 403, 409, 500}, NEW body \in Nat, Answer(t, r, status, body)
  PROVE  /\ UNCHANGED <<cached, unsaved>>
         /\ \A s \in Tabs \ {t} : pending'[s] = pending[s]
         /\ \A q \in pending'[t] :
              \/ q \in pending[t]
              \/ q.kind = r.kind /\ q.arg = r.arg /\ q.status = status /\ q.body = body
         /\ \A p, q \in pending'[t] : p \notin pending[t] /\ q \notin pending[t] => p = q
<1>1. r \in Row
  BY DEF SessionInv, PendingInv
<1>2. PICK a : a = [r EXCEPT !.status = status, !.body = body]
  OBVIOUS
<1>3. a.kind = r.kind /\ a.arg = r.arg /\ a.status = status /\ a.body = body
  BY <1>1, <1>2 DEF Row
<1>4. /\ UNCHANGED <<cached, unsaved>>
      /\ pending' = [pending EXCEPT ![t] =
           (pending[t] \ {r}) \cup IF r.page = "gone" THEN {} ELSE {a}]
  BY <1>2 DEF Answer, storage
<1>5. /\ \A s \in Tabs \ {t} : pending'[s] = pending[s]
      /\ pending'[t] = (pending[t] \ {r}) \cup IF r.page = "gone" THEN {} ELSE {a}
  BY <1>4 DEF SessionInv, PendingInv
<1>6. \A q \in pending'[t] : q \in pending[t] \/ q = a
  BY <1>5
<1> QED BY <1>3, <1>4, <1>5, <1>6

\* An answer that tells of no commitment keeps ReachInv.
LEMMA OtherAnswerKeeps ==
  ASSUME SessionInv, ReachInv, NEW t \in Tabs, NEW r \in pending[t],
         NEW status \in {200, 401, 403, 409, 500}, NEW body \in Nat, Answer(t, r, status, body),
         r.kind # "create" \/ status # 200,
         UNCHANGED <<commitments, unanswered>>
  PROVE  ReachInv'
<1>1. ASSUME NEW s \in Tabs, NEW q \in pending'[s]
      PROVE  /\ Creation(q) => q \in pending[s]
             /\ q.kind = "checkpoint" => \E p \in pending[s] : p.kind = "checkpoint" /\ p.arg = q.arg
  BY AnswerDoes DEF Creation
<1> QED BY <1>1, AnswerDoes, ReachStays

\* Every way to serve a request keeps ReachInv.
LEMMA ServeReaches ==
  ASSUME SessionInv, SessionInv', ReachInv, NEW t \in Tabs, Serve(t)
  PROVE  ReachInv'
<1>r. ASSUME NEW kind, NEW r \in Unserved(t, kind)
      PROVE  r \in pending[t] /\ r \in Row /\ r.kind = kind /\ r.status = 0
  BY <1>r DEF Unserved, SessionInv, PendingInv
<1>n. Len(issued') \in Nat
  BY DEF SessionInv, AccountsInv
<1>1. ASSUME NEW r \in Unserved(t, "login"), ServeLogin(t, r) PROVE ReachInv'
  <2>1. /\ UNCHANGED <<commitments, unanswered>>
        /\ Answer(t, r, 200, Len(issued')) \/ Answer(t, r, 401, 0)
    BY <1>1 DEF ServeLogin, server
  <2> QED BY <1>r, <1>n, <2>1, OtherAnswerKeeps
<1>2. ASSUME NEW r \in Unserved(t, "signup"), ServeSignup(t, r) PROVE ReachInv'
  <2>1. UNCHANGED <<commitments, unanswered>>
    BY <1>2 DEF ServeSignup, server
  <2>2. CASE Answer(t, r, 409, 0)
    BY <1>r, <2>1, <2>2, OtherAnswerKeeps
  <2>3. CASE /\ pending' = [pending EXCEPT ![t] = (@ \ {r}) \cup {[r EXCEPT !.kind = "insert_user"]}]
             /\ UNCHANGED <<storage, tabs>>
    <3>1. PICK a : a = [r EXCEPT !.kind = "insert_user"]
      OBVIOUS
    <3>2. a.kind = "insert_user"
      BY <1>r, <3>1 DEF Row
    <3>3. /\ pending'[t] = (pending[t] \ {r}) \cup {a} /\ UNCHANGED <<cached, unsaved>>
          /\ \A s \in Tabs \ {t} : pending'[s] = pending[s]
      BY <2>3, <3>1 DEF SessionInv, PendingInv, storage
    <3> QED BY <2>1, <3>2, <3>3, ReachStays DEF Creation
  <2> QED BY <1>2, <2>2, <2>3 DEF ServeSignup
<1>3. ASSUME NEW r \in Unserved(t, "insert_user"), ServeInsertUser(t, r) PROVE ReachInv'
  <2>1. /\ UNCHANGED <<commitments, unanswered>>
        /\ Answer(t, r, 200, Len(issued')) \/ Answer(t, r, 500, 0)
    BY <1>3 DEF ServeInsertUser, server
  <2> QED BY <1>r, <1>n, <2>1, OtherAnswerKeeps
<1>4. ASSUME NEW r \in Unserved(t, "me"), ServeMe(t, r) PROVE ReachInv'
  <2>1. UNCHANGED <<commitments, unanswered>>
    BY <1>4 DEF ServeMe, server
  <2>2. r.token \in Nat
    BY <1>r DEF Row
  <2>3. Authenticated(r.token) => issued[r.token] \in Nat
    BY <2>2, AuthenticatedUser DEF SessionInv
  <2>4. \E n \in Nat : Answer(t, r, 200, n) \/ Answer(t, r, 401, n)
    BY <1>4, <2>3 DEF ServeMe
  <2> QED BY <1>r, <2>1, <2>4, OtherAnswerKeeps
<1>5. ASSUME NEW r \in Unserved(t, "create"), ServeCreate(t, r) PROVE ReachInv'
  <2> DEFINE u == issued[r.token]
             n == Len(commitments) + 1
  <2>1. CASE /\ Answer(t, r, 401, 0) \/ Answer(t, r, 409, 0)
             /\ UNCHANGED <<commitments, unanswered>>
    BY <1>r, <2>1, OtherAnswerKeeps
  <2>2. CASE /\ Authenticated(r.token) /\ ActiveOf(u) = {}
             /\ commitments' = Append(commitments, [user |-> u, active |-> TRUE, ended_by |-> 0])
             /\ unanswered' = unanswered \cup {Len(commitments')}
             /\ Answer(t, r, 200, Len(commitments'))
    <3>1. u \in Nat
      BY <1>r, <2>2, AuthenticatedUser DEF SessionInv, Row
    <3> DEFINE row == [user |-> u, active |-> TRUE, ended_by |-> 0]
    <3>2. row \in Commitment /\ row.user = u /\ row.active
      BY <3>1 DEF Commitment
    <3> HIDE DEF row, u
    <3>3. /\ commitments \in Seq(Commitment) /\ Len(commitments) \in Nat
          /\ DOMAIN commitments = 1 .. Len(commitments) /\ commitments' = Append(commitments, row)
      BY <2>2 DEF SessionInv, row, u
    <3>4. /\ n \in Nat \ {0} /\ n \notin DOMAIN commitments /\ Len(commitments') = n
          /\ DOMAIN commitments' = DOMAIN commitments \cup {n} /\ commitments'[n] = row
          /\ \A c \in DOMAIN commitments : commitments'[c] = commitments[c]
      BY <3>2, <3>3
    <3> HIDE DEF n
    <3>5. n \notin unanswered /\ cached # n /\ unanswered' = unanswered \cup {n}
      BY <2>2, <3>4 DEF ReachInv, Untold
    <3>6. \A c \in DOMAIN commitments : commitments[c].active => commitments[c].user # u
      BY <2>2 DEF ActiveOf, u
    <3>7. OneActive'
      BY <3>2, <3>4, <3>6 DEF ReachInv, OneActive
    <3>8. /\ UNCHANGED <<cached, unsaved>>
          /\ \A s \in Tabs \ {t} : pending'[s] = pending[s]
          /\ \A q \in pending'[t] : q \in pending[t] \/ (q.kind = "create" /\ q.body = n)
          /\ \A p, q \in pending'[t] : p \notin pending[t] /\ q \notin pending[t] => p = q
      BY <1>r, <2>2, <3>4, AnswerDoes
    <3>9. Untold'
      <4>1. \A c \in unanswered' : c \in DOMAIN commitments' /\ commitments'[c].active
        BY <3>2, <3>4, <3>5 DEF ReachInv, Untold
      <4>2. cached' # 0 => cached' \in DOMAIN commitments' \ unanswered'
        BY <3>4, <3>5, <3>8 DEF ReachInv, Untold
      <4>3. ASSUME NEW s \in Tabs, NEW q \in pending'[s], q.kind = "checkpoint"
            PROVE  q.arg \in DOMAIN commitments' \ unanswered'
        <5>1. q \in pending[s]
          BY <3>8, <4>3
        <5> QED BY <3>4, <3>5, <4>3, <5>1 DEF ReachInv, Untold
      <4> QED BY <4>1, <4>2, <4>3 DEF Untold
    <3>10. ToldOnce'
      <4>1. \A s \in Tabs : \A q \in pending'[s] :
              Creation(q) => \/ q \in pending[s] /\ q.body \in unanswered
                             \/ s = t /\ q \notin pending[s] /\ q.body = n
        BY <3>8 DEF ReachInv, ToldOnce, Creation
      <4>2. \A s \in Tabs : \A q \in pending'[s] : Creation(q) => q.body \in unanswered'
        BY <3>5, <4>1
      <4>3. ASSUME NEW s1 \in Tabs, NEW s2 \in Tabs, NEW p \in pending'[s1], NEW q \in pending'[s2],
                   Creation(p), Creation(q), p.body = q.body
            PROVE  s1 = s2 /\ p = q
        <5>1. CASE p.body = n
          BY <3>5, <3>8, <4>1, <4>3, <5>1
        <5>2. CASE p.body # n
          <6>1. p \in pending[s1] /\ q \in pending[s2]
            BY <4>1, <4>3, <5>2
          <6> QED BY <4>3, <6>1 DEF ReachInv, ToldOnce
        <5> QED BY <5>1, <5>2
      <4> QED BY <4>2, <4>3 DEF ToldOnce, Creation
    <3>11. SlotReachable'
      <4> SUFFICES ASSUME NEW c \in DOMAIN commitments', commitments'[c].active,
                          c \notin unanswered', ~unsaved'
                   PROVE  cached' = c \/ (cached' # 0 /\ commitments'[cached'].user # commitments'[c].user)
        BY DEF SlotReachable
      <4>1. c \in DOMAIN commitments /\ c \notin unanswered /\ commitments[c].active
        BY <3>4, <3>5
      <4>2. cached = c \/ (cached # 0 /\ commitments[cached].user # commitments[c].user)
        BY <3>8, <4>1 DEF ReachInv, SlotReachable
      <4>3. cached # 0 => cached \in DOMAIN commitments
        BY DEF ReachInv, Untold
      <4> QED BY <3>4, <3>8, <4>1, <4>2, <4>3
    <3> QED BY <3>7, <3>9, <3>10, <3>11 DEF ReachInv
  <2> QED BY <1>5, <2>1, <2>2 DEF ServeCreate, server
<1>6. ASSUME NEW r \in Unserved(t, "checkpoint"), ServeCheckpoint(t, r) PROVE ReachInv'
  <2> DEFINE u == issued[r.token]
  <2>1. CASE /\ \E status \in {200, 401, 403, 409} : Answer(t, r, status, 0)
             /\ UNCHANGED <<commitments, unanswered>>
    BY <1>r, <2>1, OtherAnswerKeeps
  <2>2. CASE /\ commitments' = [commitments EXCEPT ![r.arg].active = FALSE, ![r.arg].ended_by = u]
             /\ Answer(t, r, 200, 0) /\ UNCHANGED unanswered
    <3>1. r.arg \in DOMAIN commitments \ unanswered
      BY <1>r DEF ReachInv, Untold
    <3>2. /\ UNCHANGED <<cached, unsaved>>
          /\ \A s \in Tabs : \A q \in pending'[s] :
               \/ q \in pending[s]
               \/ q.kind = "checkpoint" /\ q.arg = r.arg
      BY <1>r, <2>2, AnswerDoes
    <3>3. commitments \in Seq(Commitment) /\ DOMAIN commitments = 1 .. Len(commitments)
      BY DEF SessionInv
    <3> DEFINE row == [commitments[r.arg] EXCEPT !.active = FALSE, !.ended_by = u]
    <3>4. commitments[r.arg] \in Commitment
      BY <3>1, <3>3
    <3> HIDE DEF u
    <3>5. row.user = commitments[r.arg].user /\ ~row.active
      BY <3>4 DEF Commitment
    <3>6. commitments' = [commitments EXCEPT ![r.arg] = row]
      BY <2>2 DEF u
    <3> HIDE DEF row
    <3>7. /\ DOMAIN commitments' = DOMAIN commitments
          /\ \A c \in DOMAIN commitments : /\ commitments'[c].user = commitments[c].user
                                           /\ c # r.arg => commitments'[c] = commitments[c]
          /\ ~commitments'[r.arg].active
      BY <3>1, <3>3, <3>5, <3>6
    <3>8. OneActive'
      BY <3>7 DEF ReachInv, OneActive
    <3>9. Untold'
      BY <2>2, <3>1, <3>2, <3>7 DEF ReachInv, Untold
    <3>10. ToldOnce'
      BY <2>2, <3>2 DEF ReachInv, ToldOnce, Creation
    <3>11. SlotReachable'
      <4> SUFFICES ASSUME NEW c \in DOMAIN commitments', commitments'[c].active,
                          c \notin unanswered', ~unsaved'
                   PROVE  cached' = c \/ (cached' # 0 /\ commitments'[cached'].user # commitments'[c].user)
        BY DEF SlotReachable
      <4>1. c \in DOMAIN commitments /\ c \notin unanswered /\ commitments[c].active
        BY <2>2, <3>7
      <4>2. cached = c \/ (cached # 0 /\ commitments[cached].user # commitments[c].user)
        BY <3>2, <4>1 DEF ReachInv, SlotReachable
      <4>3. cached # 0 => cached \in DOMAIN commitments
        BY DEF ReachInv, Untold
      <4> QED BY <3>2, <3>7, <4>1, <4>2, <4>3
    <3> QED BY <3>8, <3>9, <3>10, <3>11 DEF ReachInv
  <2> QED BY <1>6, <2>1, <2>2 DEF ServeCheckpoint, server
<1> QED BY <1>1, <1>2, <1>3, <1>4, <1>5, <1>6 DEF Serve

\* Requests whose commitments are told of by the same answers: fetches of the user may
\* be marked, and a row may go.
SameTold(Q, R) ==
  \A q \in Q :
    /\ Creation(q) => q \in R
    /\ q.kind = "checkpoint" => \E r \in R : r.kind = "checkpoint" /\ r.arg = q.arg

\* Marking the fetches of the user leaves all other requests as they are.
LEMMA WithoutFetchesTold ==
  ASSUME NEW Q \in SUBSET Row, NEW R \in SUBSET Q
  PROVE  SameTold(WithoutFetches(R), Q)
<1> SUFFICES ASSUME NEW r \in R
             PROVE  LET q == [r EXCEPT !.cancelled = (@ \/ r.kind = "me")]
                    IN  /\ Creation(q) => q \in Q
                        /\ q.kind = "checkpoint" => r.kind = "checkpoint" /\ r.arg = q.arg
  BY DEF WithoutFetches, SameTold
<1>1. r \in Row /\ r \in Q
  OBVIOUS
<1>2. CASE r.kind = "me"
  BY <1>1, <1>2 DEF Row, Creation
<1>3. CASE r.kind # "me"
  <2>1. r.cancelled \/ r.kind = "me" <=> r.cancelled
    BY <1>3
  <2>2. [r EXCEPT !.cancelled = (r.cancelled \/ r.kind = "me")] = r
    BY <1>1, <2>1 DEF Row
  <2> QED BY <1>1, <2>2
<1> QED BY <1>2, <1>3

\* A step of a tab that sends nothing but the fetch of its user.
LEMMA ToldStays ==
  ASSUME ReachInv, UNCHANGED <<commitments, cached, unanswered, unsaved>>,
         \A s \in Tabs : SameTold(pending'[s], pending[s])
  PROVE  ReachInv'
BY ReachStays DEF SameTold

\* Loading a page again forgets no answer and makes none.
LEMMA ReloadReaches ==
  ASSUME SessionInv, ReachInv, NEW t \in Tabs, Reload(t)
  PROVE  ReachInv'
<1> DEFINE Gone(r) == [r EXCEPT !.page = "gone"]
           Left == {q \in pending[t] : q.status = 0 /\ q.kind # "me"}
<1>1. /\ UNCHANGED <<commitments, cached, unanswered, unsaved>>
      /\ \E Q : /\ pending' = [pending EXCEPT ![t] = Q]
                /\ \A q \in Q : q.kind = "me" \/ \E r \in pending[t] : q = Gone(r)
  <2>1. Request("me", token, 0).kind = "me"
    BY DEF Request
  <2>2. pending' = [pending EXCEPT ![t] = {Gone(r) : r \in Left}]
        \/ pending' = [pending EXCEPT ![t] = {Gone(r) : r \in Left} \cup FirstRequests(t)]
    BY DEF Reload
  <2>3. \A q \in {Gone(r) : r \in Left} \cup FirstRequests(t) :
          q.kind = "me" \/ \E r \in pending[t] : q = Gone(r)
    BY <2>1 DEF FirstRequests
  <2> HIDE DEF Gone
  <2>4. UNCHANGED <<commitments, cached, unanswered, unsaved>>
    BY DEF Reload, server, storage
  <2> QED BY <2>2, <2>3, <2>4
<1>2. ASSUME NEW r \in pending[t]
      PROVE  Gone(r).kind = r.kind /\ Gone(r).arg = r.arg /\ Gone(r).body = r.body
             /\ Gone(r).status = r.status
  BY DEF SessionInv, PendingInv, Row
<1> HIDE DEF Gone
<1>3. /\ \A s \in Tabs \ {t} : pending'[s] = pending[s]
      /\ \A q \in pending'[t] : q.kind = "me" \/ \E r \in pending[t] : q = Gone(r)
  BY <1>1 DEF SessionInv, PendingInv
<1>4. OneActive' /\ SlotReachable'
  BY <1>1 DEF ReachInv, OneActive, SlotReachable
<1>5. Untold'
  BY <1>1, <1>2, <1>3 DEF ReachInv, Untold
<1> DEFINE From(s, q, r) == r \in pending[s] /\ Creation(r) /\ r.body = q.body
                            /\ q = IF s = t THEN Gone(r) ELSE r
<1>6. ASSUME NEW s \in Tabs, NEW q \in pending'[s], Creation(q)
      PROVE  \E r \in pending[s] : From(s, q, r)
  BY <1>2, <1>3, <1>6 DEF Creation
<1>7. \A s \in Tabs : \A q \in pending'[s] : Creation(q) => q.body \in unanswered
  BY <1>6 DEF ReachInv, ToldOnce
<1>8. ASSUME NEW s1 \in Tabs, NEW s2 \in Tabs, NEW p \in pending'[s1], NEW q \in pending'[s2],
             Creation(p), Creation(q), p.body = q.body
      PROVE  s1 = s2 /\ p = q
  <2>1. PICK a \in pending[s1] : From(s1, p, a)
    BY <1>6, <1>8
  <2>2. PICK b \in pending[s2] : From(s2, q, b)
    BY <1>6, <1>8
  <2>3. s1 = s2 /\ a = b
    BY <1>8, <2>1, <2>2 DEF ReachInv, ToldOnce
  <2> QED BY <2>1, <2>2, <2>3
<1>9. ToldOnce'
  BY <1>1, <1>7, <1>8 DEF ToldOnce, Creation
<1> QED BY <1>4, <1>5, <1>9 DEF ReachInv

\* The id that comes to the page is cached, unless the storage fails: it is that of an
\* active commitment, and no other active one is its user's.
LEMMA ReceiveCommitmentReaches ==
  ASSUME SessionInv, ReachInv, NEW t \in Tabs, ReceiveCommitment(t)
  PROVE  ReachInv'
<1>1. PICK r \in pending[t] :
        /\ Creation(r) /\ unanswered' = unanswered \ {r.body}
        /\ (cached' = r.body /\ ~unsaved') \/ (cached' = cached /\ unsaved')
        /\ pending' = [pending EXCEPT ![t] = @ \ {r}] /\ UNCHANGED commitments
  BY DEF ReceiveCommitment, Remember, Answered, Creation, Remembered, server
<1>2. r.body \in unanswered /\ r.body \in DOMAIN commitments /\ commitments[r.body].active
  BY <1>1 DEF ReachInv, ToldOnce, Untold
<1>3. r.body # 0
  BY <1>2 DEF SessionInv
<1>4. /\ pending'[t] = pending[t] \ {r}
      /\ \A s \in Tabs \ {t} : pending'[s] = pending[s]
  BY <1>1 DEF SessionInv, PendingInv
<1>5. OneActive'
  BY <1>1 DEF ReachInv, OneActive
<1>6. Untold'
  BY <1>1, <1>2, <1>3, <1>4 DEF ReachInv, Untold
<1>7. ASSUME NEW s \in Tabs, NEW q \in pending'[s], Creation(q)
      PROVE  q \in pending[s] /\ q.body \in unanswered \ {r.body}
  <2>1. q \in pending[s] /\ (s = t => q # r)
    BY <1>4
  <2> QED BY <1>1, <1>7, <2>1 DEF ReachInv, ToldOnce
<1>8. ToldOnce'
  BY <1>1, <1>7 DEF ReachInv, ToldOnce, Creation
<1>9. SlotReachable'
  <2>1. CASE unsaved'
    BY <2>1 DEF SlotReachable
  <2>2. CASE ~unsaved'
    <3> SUFFICES ASSUME NEW c \in DOMAIN commitments, commitments[c].active, c # r.body
                 PROVE  commitments[r.body].user # commitments[c].user
      BY <1>1, <1>3, <2>2 DEF SlotReachable
    <3> QED BY <1>2 DEF ReachInv, OneActive
  <2> QED BY <2>1, <2>2
<1> QED BY <1>5, <1>6, <1>8, <1>9 DEF ReachInv

\* ReachInv is inductive.
LEMMA NextReach ==
  ASSUME SessionInv, SessionInv', ReachInv, [Next]_vars
  PROVE  ReachInv'
<1>p. \A t \in Tabs : pending[t] \in SUBSET Row
  BY DEF SessionInv, PendingInv
<1>s. ASSUME NEW t \in Tabs, NEW kind, NEW n, NEW arg, Send(t, kind, n, arg),
             kind = "checkpoint" => cached # 0 /\ arg = cached
      PROVE  ReachInv'
  <2>1. PICK a : a = Request(kind, n, arg)
    OBVIOUS
  <2>2. a.kind = kind /\ a.arg = arg /\ a.status = 0
    BY <2>1 DEF Request
  <2>3. /\ pending'[t] = pending[t] \cup {a} /\ \A s \in Tabs \ {t} : pending'[s] = pending[s]
        /\ UNCHANGED <<commitments, cached, unanswered, unsaved>>
    BY <1>s, <2>1 DEF Send, SessionInv, PendingInv, server, storage
  <2> QED BY <1>s, <2>2, <2>3, ReachStays DEF Creation
<1>d. ASSUME NEW t \in Tabs, NEW r, pending' = [pending EXCEPT ![t] = @ \ {r}],
             UNCHANGED <<commitments, cached, unanswered, unsaved>>
      PROVE  ReachInv'
  <2>1. \A s \in Tabs : SameTold(pending'[s], pending[s])
    BY <1>d DEF SessionInv, PendingInv, SameTold
  <2> QED BY <1>d, <2>1, ToldStays
<1>w. ASSUME NEW t \in Tabs, NEW R \in SUBSET pending[t],
             pending' = [pending EXCEPT ![t] = WithoutFetches(R)],
             UNCHANGED <<commitments, cached, unanswered, unsaved>>
      PROVE  ReachInv'
  <2>1. SameTold(WithoutFetches(R), pending[t])
    BY <1>p, WithoutFetchesTold
  <2>2. \A s \in Tabs : SameTold(pending'[s], pending[s])
    BY <1>w, <2>1 DEF SessionInv, PendingInv, SameTold
  <2> QED BY <1>w, <2>2, ToldStays
<1>1. CASE Expire /\ UNCHANGED <<commitments, storage, tabs, pending, unanswered>>
  BY <1>1, ToldStays DEF SameTold, storage
<1>2. ASSUME NEW t \in Tabs, \E email \in Emails : Login(t, email) \/ Signup(t, email)
      PROVE  ReachInv'
  BY <1>2, <1>s DEF Login, Signup
<1>3. ASSUME NEW t \in Tabs, Commit(t) PROVE ReachInv'
  BY <1>3, <1>s DEF Commit
<1>4. ASSUME NEW t \in Tabs, Checkpoint(t) PROVE ReachInv'
  BY <1>4, <1>s DEF Checkpoint
<1>5. ASSUME NEW t \in Tabs, Logout(t) PROVE ReachInv'
  BY <1>5, <1>w DEF Logout, server
<1>6. ASSUME NEW t \in Tabs, ReceiveUnauthorized(t) PROVE ReachInv'
  <2>1. \E R \in SUBSET pending[t] : pending' = [pending EXCEPT ![t] = WithoutFetches(R)]
    BY <1>6 DEF ReceiveUnauthorized
  <2>2. UNCHANGED <<commitments, cached, unanswered, unsaved>>
    BY <1>6 DEF ReceiveUnauthorized, server
  <2> QED BY <2>1, <2>2, <1>w
<1>7. ASSUME NEW t \in Tabs, ReceiveToken(t) PROVE ReachInv'
  BY <1>7, <1>d DEF ReceiveToken, server
<1>8. ASSUME NEW t \in Tabs, ReceiveUser(t) PROVE ReachInv'
  BY <1>8, <1>d DEF ReceiveUser, server, storage
<1>9. ASSUME NEW t \in Tabs, ReceiveOther(t) PROVE ReachInv'
  BY <1>9, <1>d DEF ReceiveOther, server, storage
<1>10. ASSUME NEW t \in Tabs, Lose(t) PROVE ReachInv'
  BY <1>10, <1>d DEF Lose, server, storage
<1>11. CASE ForgetMap
  <2>1. /\ cached' = 0 /\ unsaved'
        /\ UNCHANGED <<commitments, pending, unanswered>>
    BY <1>11 DEF ForgetMap, server
  <2> QED BY <2>1 DEF ReachInv, OneActive, Untold, ToldOnce, Creation, SlotReachable
<1>12. CASE UNCHANGED vars
  BY <1>12, ToldStays DEF SameTold, vars, server, storage
<1> QED BY <1>1, <1>2, <1>3, <1>4, <1>5, <1>6, <1>7, <1>8, <1>9, <1>10, <1>11, <1>12,
           ReloadReaches, ServeReaches, ReceiveCommitmentReaches DEF Next

\* A user finds the active commitment made in this browser again, unless the answer to
\* its creation was lost or is under way, another user's took its place, or the storage
\* failed since its entry was last written.
THEOREM SlotIsReachable == Spec => []SlotReachable
<1>1. SessionInv /\ SessionInv' /\ ReachInv /\ [Next]_vars => ReachInv'
  BY NextReach
<1>2. ReachInv => SlotReachable
  BY DEF ReachInv
<1> QED BY <1>1, <1>2, InitReach, SessionInvariant, PTL DEF Spec

=============================================================================

------------------------------ MODULE Accounts ------------------------------
(***************************************************************************)
(* backend-api's accounts: users with a unique email, and tokens that name *)
(* a user and expire.  There is no table of sessions, so nothing revokes a *)
(* token, and every token of a user is as good as the others.              *)
(***************************************************************************)
EXTENDS Integers, Sequences, FiniteSets

CONSTANTS
  Emails,
  MaxTokens     \* bound of the tokens that are issued

VARIABLES
  users,        \* the email of each user row
  issued,       \* the user that each token names, in its sub claim
  expired       \* the tokens whose exp has passed

accounts == <<users, issued, expired>>

AccountsInit ==
  /\ users = <<>>
  /\ issued = <<>>
  /\ expired = {}

NoToken == 0

\* create_access_token
Issue(u) == issued' = Append(issued, u)

MayIssue == Len(issued) < MaxTokens

\* decode_access_token
Decodes(token) == token # NoToken /\ token \notin expired

\* One session for each user: a login ends the earlier ones.
BadAuthenticated(token) ==
  Decodes(token) /\ \A n \in DOMAIN issued : issued[n] = issued[token] => n <= token
\* get_current_user: users are never deleted.
Authenticated(token) == Decodes(token) /\ issued[token] \in DOMAIN users

\* get_by_email
WithEmail(email) == {u \in DOMAIN users : users[u] = email}

\* The unique index on the email decides between overlapping signups.
InsertUser(email) == WithEmail(email) = {} /\ users' = Append(users, email)

\* The minutes of a token have passed.
Expire ==
  \E n \in DOMAIN issued \ expired :
    /\ expired' = expired \cup {n}
    /\ UNCHANGED <<users, issued>>

=============================================================================

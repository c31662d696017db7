--------------------------- MODULE FeedModeration ---------------------------
(***************************************************************************)
(* The feed of a problem (posts, likes, threaded comments), which only     *)
(* committed members may write to, and the moderation override, by which   *)
(* platform admins hide and restore what was written.                      *)
(*                                                                         *)
(* As in Commitments, a step is one database round trip of one handler.    *)
(* Posts and comments are never deleted and never move, so that reading    *)
(* one of them once more before a write is part of that write.  A handler  *)
(* that dies before its first commit leaves nothing behind; only the       *)
(* moderation handlers commit twice.                                       *)
(***************************************************************************)
EXTENDS Integers, Sequences, FiniteSets, FiniteSetsExt

CONSTANTS
  Users, Problems,
  Posts,      \* primary keys of feed_posts (bounds them)
  Comments,   \* primary keys of comments (bounds them)
  Handlers,   \* requests that may be in progress at the same time
  MaxEvents,  \* moderation starts only while there are fewer events than this
  MaxFailures \* bound of the targets on which a moderation handler dies

Targets == Posts \cup Comments

VARIABLES
  member,      \* who has an active commitment on which problem
  committed,   \* history: who ever had one
  posts, comments,
  likes,       \* how many post_likes rows a post and a user have
  hidden,      \* the hidden column of posts and comments
  events,      \* the moderation_override_events rows of each target, in order
  requests,    \* what each handler is doing
  interrupted  \* history: targets on which a moderation handler died half way

vars == <<member, committed, posts, comments, likes, hidden, events, requests, interrupted>>

content == <<posts, comments, likes>>
moderation == <<hidden, events, interrupted>>
commitment == <<member, committed>>

NoRow == [kind |-> "none"]
TopLevel == [kind |-> "top level"]
Idle == [step |-> "idle"]

\* Null is no key.
ASSUME KeyAssumption == TopLevel \notin Comments

Proceed(h, r) == requests' = [requests EXCEPT ![h] = r]

Init ==
  /\ member = {} /\ committed = {}
  /\ posts = [p \in Posts |-> NoRow]
  /\ comments = [c \in Comments |-> NoRow]
  /\ likes = [l \in Posts \X Users |-> 0]
  /\ hidden = [x \in Targets |-> FALSE]
  /\ events = [x \in Targets |-> <<>>]
  /\ requests = [h \in Handlers |-> Idle]
  /\ interrupted = {}

----------------------------------------------------------------------------
(* The commitment engine, and the gate before every write *)

Commit(u, p) ==
  /\ <<u, p>> \notin member
  /\ member' = member \cup {<<u, p>>}
  /\ committed' = committed \cup {<<u, p>>}
  /\ UNCHANGED <<content, moderation, requests>>

EndCommitment(u, p) ==
  /\ member' = member \ {<<u, p>>}
  /\ member' # member
  /\ UNCHANGED <<committed, content, moderation, requests>>

\* A route without the gate.
BadMayWrite(u, p) == TRUE
MayWrite(u, p) == <<u, p>> \in member

\* require_committed_member: checked once, before the handler proper.  The post
\* that a like or a comment is for must be a post of the problem in the path.
PassGate(h, u, p, r) ==
  /\ requests[h] = Idle
  /\ MayWrite(u, p)
  /\ Proceed(h, r)
  /\ UNCHANGED <<commitment, content, moderation>>

StartPost(h, u, p) == PassGate(h, u, p, [step |-> "post", user_id |-> u, problem_id |-> p])

StartComment(h, u, f) ==
  /\ posts[f] # NoRow
  /\ PassGate(h, u, posts[f].problem_id, [step |-> "comment", user_id |-> u, post_id |-> f])

StartLike(h, u, f) ==
  /\ posts[f] # NoRow
  /\ PassGate(h, u, posts[f].problem_id, [step |-> "like", user_id |-> u, post_id |-> f])

----------------------------------------------------------------------------
(* Posts, comments and likes *)

InsertPost(h) ==
  LET r == requests[h]
  IN  /\ r.step = "post"
      /\ \E f \in Posts :
           /\ posts[f] = NoRow
           /\ posts' = [posts EXCEPT ![f] =
                [author_user_id |-> r.user_id, problem_id |-> r.problem_id]]
      /\ Proceed(h, Idle)
      /\ UNCHANGED <<commitment, comments, likes, moderation>>

\* Any existing comment will do.
BadParents(f) == {TopLevel} \cup {k \in Comments : comments[k] # NoRow}
\* A reply needs a parent on the same post.
Parents(f) ==
  {TopLevel} \cup {k \in Comments : comments[k] # NoRow /\ comments[k].post_id = f}

InsertComment(h) ==
  LET r == requests[h]
  IN  /\ r.step = "comment"
      /\ \E c \in Comments, parent \in Parents(r.post_id) :
           /\ comments[c] = NoRow
           /\ comments' = [comments EXCEPT ![c] =
                [author_user_id |-> r.user_id, post_id |-> r.post_id,
                 parent_comment_id |-> parent]]
      /\ Proceed(h, Idle)
      /\ UNCHANGED <<commitment, posts, likes, moderation>>

\* toggle_like looks for the row...
FindLike(h) ==
  LET r == requests[h]
  IN  /\ r.step = "like"
      /\ Proceed(h, [step |-> IF likes[<<r.post_id, r.user_id>>] = 0 THEN "like_it" ELSE "unlike_it",
                     user_id |-> r.user_id, post_id |-> r.post_id])
      /\ UNCHANGED <<commitment, content, moderation>>

\* An insert that finds the row there breaks the constraint and is rolled back.
LikesAfterInsert(n) == IF n = 0 THEN 1 ELSE n

\* ...and inserts or deletes it; a delete may find it gone.
ToggleLike(h) ==
  LET r == requests[h]
  IN  /\ r.step \in {"like_it", "unlike_it"}
      /\ likes' = [likes EXCEPT ![<<r.post_id, r.user_id>>] =
                     IF r.step = "like_it" THEN LikesAfterInsert(@) ELSE 0]
      /\ Proceed(h, Idle)
      /\ UNCHANGED <<commitment, posts, comments, moderation>>

----------------------------------------------------------------------------
(* moderation_service *)

TargetExists(x) == IF x \in Posts THEN posts[x] # NoRow ELSE comments[x] # NoRow

\* The route reads the row, which the session keeps.
StartModeration(h, x, hide) ==
  /\ requests[h] = Idle
  /\ TargetExists(x)
  /\ MapThenSumSet(LAMBDA y : Len(events[y]), Targets) < MaxEvents
  /\ Proceed(h, [step |-> "set_hidden", target_id |-> x, hide |-> hide, seen |-> hidden[x]])
  /\ UNCHANGED <<commitment, content, moderation>>

\* set_post_hidden, set_comment_hidden: a flag that the session has seen with the
\* wanted value is not written.
SetHidden(h) ==
  LET r == requests[h]
  IN  /\ r.step = "set_hidden"
      /\ hidden' = [hidden EXCEPT ![r.target_id] = IF r.hide = r.seen THEN @ ELSE r.hide]
      /\ Proceed(h, [step |-> "record", target_id |-> r.target_id, hide |-> r.hide])
      /\ UNCHANGED <<commitment, content, events, interrupted>>

\* The same action whatever was done.
BadActionFor(hide) == "hidden"
ActionFor(hide) == IF hide THEN "hidden" ELSE "restored"

RecordOverride(h) ==
  LET r == requests[h]
  IN  /\ r.step = "record"
      /\ events' = [events EXCEPT ![r.target_id] = Append(@, ActionFor(r.hide))]
      /\ Proceed(h, Idle)
      /\ UNCHANGED <<commitment, content, hidden, interrupted>>

\* The handler dies between its two commits.
Fail(h) ==
  /\ requests[h].step = "record"
  /\ interrupted' = interrupted \cup {requests[h].target_id}
  /\ Cardinality(interrupted') <= MaxFailures
  /\ Proceed(h, Idle)
  /\ UNCHANGED <<commitment, content, hidden, events>>

Next ==
  \/ \E u \in Users, p \in Problems : Commit(u, p) \/ EndCommitment(u, p)
  \/ \E h \in Handlers :
       \/ \E u \in Users, p \in Problems : StartPost(h, u, p)
       \/ \E u \in Users, f \in Posts : StartComment(h, u, f) \/ StartLike(h, u, f)
       \/ InsertPost(h)
       \/ InsertComment(h)
       \/ FindLike(h)
       \/ ToggleLike(h)
       \/ \E x \in Targets, hide \in BOOLEAN : StartModeration(h, x, hide)
       \/ SetHidden(h)
       \/ RecordOverride(h)
       \/ Fail(h)

Spec == Init /\ [][Next]_vars

----------------------------------------------------------------------------
(* What the readers of the feed and of the moderation log see *)

\* The targets the moderation log of a problem is about: its posts and their comments.
OnProblem(p) ==
  LET post_ids == {f \in Posts : posts[f] # NoRow /\ posts[f].problem_id = p}
  IN  post_ids \cup {c \in Comments : comments[c] # NoRow /\ comments[c].post_id \in post_ids}

ModerationLog(p) ==
  UNION {{[target_id |-> x, action |-> events[x][k]] : k \in DOMAIN events[x]} : x \in OnProblem(p)}

\* list_comments_for_post, without its page limit.
VisibleComments(f) == {c \in Comments : comments[c] # NoRow /\ comments[c].post_id = f /\ ~hidden[c]}

\* A reply whose parent was not fetched is dropped.
BadRoots(fetched) == {c \in fetched : comments[c].parent_comment_id = TopLevel}
\* buildCommentTree: a reply whose parent was not fetched becomes a root.
Roots(fetched) == {c \in fetched : comments[c].parent_comment_id \notin fetched}

\* What the tree shows: the roots, and the replies to what it shows, no more.
Rendered(fetched) ==
  {c \in fetched : \A tree \in SUBSET fetched :
     /\ Roots(fetched) \subseteq tree
     /\ \A k \in fetched : comments[k].parent_comment_id \in tree => k \in tree
     => c \in tree}

----------------------------------------------------------------------------
(* Properties *)

\* Commitment-gated voice: whoever posted, commented or liked on a problem had,
\* at some time, a commitment on that very problem.  (At the time of the write
\* it may have ended: the gate is checked in a transaction of its own.)
VoiceIsGated ==
  /\ \A f \in Posts : posts[f] # NoRow
       => <<posts[f].author_user_id, posts[f].problem_id>> \in committed
  /\ \A c \in Comments : comments[c] # NoRow
       => <<comments[c].author_user_id, posts[comments[c].post_id].problem_id>> \in committed
  /\ \A f \in Posts, u \in Users : likes[<<f, u>>] > 0
       => <<u, posts[f].problem_id>> \in committed

\* A thread never spreads over two posts.
ThreadStaysOnPost ==
  \A c \in Comments : comments[c] # NoRow /\ comments[c].parent_comment_id # TopLevel
    => comments[comments[c].parent_comment_id].post_id = comments[c].post_id

\* Whatever part of a thread a reader fetches (hidden parents are left out, and
\* pages cut threads), the tree built from it shows every comment of that part.
NoReplyLost ==
  \A f \in Posts : \A fetched \in SUBSET VisibleComments(f) : Rendered(fetched) = fetched

AtWork(x) == \E h \in Handlers : requests[h].step = "record" /\ requests[h].target_id = x

Recorded(x) ==
  {e.action : e \in {d \in UNION {ModerationLog(p) : p \in Problems} : d.target_id = x}}

\* The log explains the flag: unless a handler is at work on it or died on it, the
\* moderation log has, for a hidden target, an event that hides it, and for one
\* that was hidden and is no longer an event that restores it.
LogExplainsFlag ==
  \A x \in Targets \ interrupted : ~AtWork(x) =>
    /\ hidden[x] => "hidden" \in Recorded(x)
    /\ "hidden" \in Recorded(x) /\ ~hidden[x] => "restored" \in Recorded(x)

=============================================================================

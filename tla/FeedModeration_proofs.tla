------------------------ MODULE FeedModeration_proofs ------------------------
(***************************************************************************)
(* Theorems about the feed and its moderation, for any number of users,    *)
(* problems, posts, comments and concurrent handlers, however many         *)
(* moderation events and failures there are.                               *)
(***************************************************************************)
EXTENDS FeedModeration, WellFoundedInduction, TLAPS

----------------------------------------------------------------------------
(* Rows and requests *)

Post == [author_user_id : Users, problem_id : Problems]

Comment == [author_user_id : Users, post_id : Posts,
            parent_comment_id : Comments \cup {TopLevel}]

Posting == [step : {"post"}, user_id : Users, problem_id : Problems]

\* Handlers that comment on a post or like it.
Answering == [step : {"comment", "like", "like_it", "unlike_it"},
              user_id : Users, post_id : Posts]

Deciding == [step : {"set_hidden"}, target_id : Targets, hide : BOOLEAN, seen : BOOLEAN]

Recording == [step : {"record"}, target_id : Targets, hide : BOOLEAN]

Request == {Idle} \cup Posting \cup Answering \cup Deciding \cup Recording

Types ==
  /\ posts \in [Posts -> Post \cup {NoRow}]
  /\ comments \in [Comments -> Comment \cup {NoRow}]
  /\ likes \in [Posts \X Users -> Nat]
  /\ hidden \in [Targets -> BOOLEAN]
  /\ events \in [Targets -> Seq({"hidden", "restored"})]
  /\ requests \in [Handlers -> Request]

\* The step of a request tells what kind of handler it is.
LEMMA RequestKinds ==
  ASSUME NEW r \in Request
  PROVE  /\ r.step = "post" => r \in Posting
         /\ r.step \in {"comment", "like", "like_it", "unlike_it"} => r \in Answering
         /\ r.step = "set_hidden" => r \in Deciding
         /\ r.step = "record" => r \in Recording
BY DEF Request, Idle, Posting, Answering, Deciding, Recording

\* An unused key holds neither a post nor a comment.
LEMMA NoRowIsNoContent == NoRow \notin Post /\ NoRow \notin Comment
BY DEF NoRow, Post, Comment

\* The variables have their types initially.
LEMMA InitTypes == Init => Types
BY DEF Init, Types, Request

\* Every step keeps the types.
LEMMA NextTypes == Types /\ [Next]_vars => Types'
<1> SUFFICES ASSUME Types, [Next]_vars PROVE Types'
  OBVIOUS
<1> USE DEF Types
<1>1. ASSUME NEW u \in Users, NEW p \in Problems, Commit(u, p) \/ EndCommitment(u, p)
      PROVE  Types'
  BY <1>1 DEF Commit, EndCommitment, content, moderation
<1>2. ASSUME NEW h \in Handlers, NEW u \in Users, NEW p \in Problems, StartPost(h, u, p)
      PROVE  Types'
  BY <1>2 DEF StartPost, PassGate, Proceed, Request, Posting, content, moderation
<1>3. ASSUME NEW h \in Handlers, NEW u \in Users, NEW f \in Posts,
             StartComment(h, u, f) \/ StartLike(h, u, f)
      PROVE  Types'
  BY <1>3 DEF StartComment, StartLike, PassGate, Proceed, Request, Answering, content, moderation
<1>4. ASSUME NEW h \in Handlers, InsertPost(h) PROVE Types'
  <2>1. requests[h] \in Posting
    BY <1>4, RequestKinds DEF InsertPost
  <2>2. [author_user_id |-> requests[h].user_id, problem_id |-> requests[h].problem_id] \in Post
    BY <2>1 DEF Posting, Post
  <2> QED BY <1>4, <2>2 DEF InsertPost, Proceed, Request, moderation
<1>5. ASSUME NEW h \in Handlers, InsertComment(h) PROVE Types'
  <2>1. requests[h] \in Answering
    BY <1>5, RequestKinds DEF InsertComment
  <2>2. \A parent \in Parents(requests[h].post_id) :
          [author_user_id |-> requests[h].user_id, post_id |-> requests[h].post_id,
           parent_comment_id |-> parent] \in Comment
    BY <2>1 DEF Answering, Comment, Parents
  <2> QED BY <1>5, <2>2 DEF InsertComment, Proceed, Request, moderation
<1>6. ASSUME NEW h \in Handlers, FindLike(h) PROVE Types'
  <2>1. requests[h] \in Answering
    BY <1>6, RequestKinds DEF FindLike
  <2> QED BY <1>6, <2>1 DEF FindLike, Proceed, Request, Answering, content, moderation
<1>7. ASSUME NEW h \in Handlers, ToggleLike(h) PROVE Types'
  BY <1>7 DEF ToggleLike, LikesAfterInsert, Proceed, Request, moderation
<1>8. ASSUME NEW h \in Handlers, NEW x \in Targets, NEW hide \in BOOLEAN,
             StartModeration(h, x, hide)
      PROVE  Types'
  BY <1>8 DEF StartModeration, Proceed, Request, Deciding, content, moderation
<1>9. ASSUME NEW h \in Handlers, SetHidden(h) PROVE Types'
  <2>1. requests[h] \in Deciding
    BY <1>9, RequestKinds DEF SetHidden
  <2>2. [step |-> "record", target_id |-> requests[h].target_id, hide |-> requests[h].hide]
          \in Recording
    BY <2>1 DEF Deciding, Recording
  <2>3. requests[h].hide \in BOOLEAN
    BY <2>1 DEF Deciding
  <2>4. hidden' \in [Targets -> BOOLEAN]
    BY <1>9, <2>3 DEF SetHidden
  <2> QED BY <1>9, <2>2, <2>4 DEF SetHidden, Proceed, Request, content
<1>10. ASSUME NEW h \in Handlers, RecordOverride(h) PROVE Types'
  <2>1. ActionFor(requests[h].hide) \in {"hidden", "restored"}
    BY DEF ActionFor
  <2>2. \A x \in Targets :
          Append(events[x], ActionFor(requests[h].hide)) \in Seq({"hidden", "restored"})
    BY <2>1
  <2>3. events' \in [Targets -> Seq({"hidden", "restored"})]
    BY <1>10, <2>2 DEF RecordOverride
  <2> QED BY <1>10, <2>3 DEF RecordOverride, Proceed, Request, content
<1>11. ASSUME NEW h \in Handlers, Fail(h) PROVE Types'
  BY <1>11 DEF Fail, Proceed, Request, content
<1>12. CASE UNCHANGED vars
  BY <1>12 DEF vars
<1> QED BY <1>1, <1>2, <1>3, <1>4, <1>5, <1>6, <1>7, <1>8, <1>9, <1>10, <1>11, <1>12 DEF Next

----------------------------------------------------------------------------
(* Commitment-gated voice, and threads *)

\* A handler past the gate writes for somebody who passed it, on a post that is there.
PassedGate ==
  \A h \in Handlers :
    LET r == requests[h]
    IN  /\ r \in Posting => <<r.user_id, r.problem_id>> \in committed
        /\ r \in Answering =>
             /\ posts[r.post_id] # NoRow
             /\ <<r.user_id, posts[r.post_id].problem_id>> \in committed

\* Comments and likes are on posts that are there, replies under comments that are.
ContentHangs ==
  /\ \A c \in Comments : comments[c] # NoRow =>
       /\ posts[comments[c].post_id] # NoRow
       /\ comments[c].parent_comment_id # TopLevel =>
            comments[comments[c].parent_comment_id] # NoRow
  /\ \A f \in Posts, u \in Users : likes[<<f, u>>] > 0 => posts[f] # NoRow

VoiceInv ==
  /\ Types
  /\ member \subseteq committed
  /\ PassedGate
  /\ ContentHangs
  /\ VoiceIsGated
  /\ ThreadStaysOnPost

\* VoiceInv holds initially.
LEMMA InitVoice == Init => VoiceInv
<1> SUFFICES ASSUME Init PROVE VoiceInv
  OBVIOUS
<1>1. Types
  BY InitTypes
<1>2. PassedGate
  BY DEF Init, PassedGate, Idle, Posting, Answering
<1>3. ContentHangs /\ ThreadStaysOnPost
  BY DEF Init, ContentHangs, ThreadStaysOnPost
<1>4. VoiceIsGated
  BY DEF Init, VoiceIsGated
<1> QED BY <1>1, <1>2, <1>3, <1>4 DEF VoiceInv, Init

\* What moderation does leaves posts, comments, likes and commitments alone.
LEMMA UnrelatedVoice ==
  ASSUME VoiceInv, Types', NEW h \in Handlers, NEW r \in Request \ (Posting \cup Answering),
         Proceed(h, r), UNCHANGED <<commitment, content>>
  PROVE  VoiceInv'
<1>1. PassedGate'
  BY DEF VoiceInv, PassedGate, Types, Proceed, commitment, content
<1>2. ContentHangs' /\ ThreadStaysOnPost' /\ VoiceIsGated'
  BY DEF VoiceInv, ContentHangs, ThreadStaysOnPost, VoiceIsGated, commitment, content
<1> QED BY <1>1, <1>2 DEF VoiceInv, commitment

\* Every step keeps VoiceInv.
LEMMA NextVoice == VoiceInv /\ [Next]_vars => VoiceInv'
<1> SUFFICES ASSUME VoiceInv, [Next]_vars PROVE VoiceInv'
  OBVIOUS
<1>t. Types /\ Types'
  BY NextTypes DEF VoiceInv
<1>i. Idle \in Request \ (Posting \cup Answering)
  BY DEF Idle, Request, Posting, Answering
<1>1. ASSUME NEW u \in Users, NEW p \in Problems, Commit(u, p) \/ EndCommitment(u, p)
      PROVE  VoiceInv'
  <2>1. committed \subseteq committed' /\ member' \subseteq committed'
    BY <1>1 DEF Commit, EndCommitment, VoiceInv
  <2>2. UNCHANGED <<posts, comments, likes, requests>>
    BY <1>1 DEF Commit, EndCommitment, content
  <2>3. PassedGate'
    BY <2>1, <2>2 DEF VoiceInv, PassedGate
  <2>4. ContentHangs' /\ ThreadStaysOnPost' /\ VoiceIsGated'
    BY <2>1, <2>2 DEF VoiceInv, ContentHangs, ThreadStaysOnPost, VoiceIsGated
  <2> QED BY <1>t, <2>1, <2>3, <2>4 DEF VoiceInv
<1>2. ASSUME NEW h \in Handlers, NEW u \in Users, NEW p \in Problems, StartPost(h, u, p)
      PROVE  VoiceInv'
  <2> DEFINE r == [step |-> "post", user_id |-> u, problem_id |-> p]
  <2>1. <<u, p>> \in committed /\ Proceed(h, r) /\ UNCHANGED <<commitment, content>>
    BY <1>2 DEF StartPost, PassGate, MayWrite, VoiceInv
  <2>2. r \notin Answering /\ r.user_id = u /\ r.problem_id = p
    BY DEF Answering
  <2>3. PassedGate'
    BY <1>t, <2>1, <2>2 DEF VoiceInv, PassedGate, Types, Proceed, commitment, content
  <2>4. ContentHangs' /\ ThreadStaysOnPost' /\ VoiceIsGated'
    BY <2>1 DEF VoiceInv, ContentHangs, ThreadStaysOnPost, VoiceIsGated, commitment, content
  <2> QED BY <1>t, <2>1, <2>3, <2>4 DEF VoiceInv, commitment
<1>3. ASSUME NEW h \in Handlers, NEW u \in Users, NEW f \in Posts,
             StartComment(h, u, f) \/ StartLike(h, u, f)
      PROVE  VoiceInv'
  <2>1. PICK r \in {[step |-> "comment", user_id |-> u, post_id |-> f],
                    [step |-> "like", user_id |-> u, post_id |-> f]} :
          /\ posts[f] # NoRow
          /\ <<u, posts[f].problem_id>> \in committed
          /\ Proceed(h, r)
          /\ UNCHANGED <<commitment, content>>
    BY <1>3 DEF StartComment, StartLike, PassGate, MayWrite, VoiceInv
  <2>2. r \notin Posting /\ r.user_id = u /\ r.post_id = f
    BY DEF Posting
  <2>3. PassedGate'
    BY <1>t, <2>1, <2>2 DEF VoiceInv, PassedGate, Types, Proceed, commitment, content
  <2>4. ContentHangs' /\ ThreadStaysOnPost' /\ VoiceIsGated'
    BY <2>1 DEF VoiceInv, ContentHangs, ThreadStaysOnPost, VoiceIsGated, commitment, content
  <2> QED BY <1>t, <2>1, <2>3, <2>4 DEF VoiceInv, commitment
<1>4. ASSUME NEW h \in Handlers, InsertPost(h) PROVE VoiceInv'
  <2> DEFINE r == requests[h]
  <2>1. r \in Posting
    BY <1>t, <1>4, RequestKinds DEF InsertPost, Types
  <2>2. PICK f \in Posts :
          /\ posts[f] = NoRow
          /\ posts' = [posts EXCEPT ![f] =
               [author_user_id |-> r.user_id, problem_id |-> r.problem_id]]
    BY <1>4 DEF InsertPost
  <2>3. posts'[f] # NoRow
    BY <1>t, <2>2 DEF Types, NoRow
  <2>4. \A g \in Posts : posts[g] # NoRow => posts'[g] = posts[g]
    BY <1>t, <2>2 DEF Types
  <2>5. /\ <<r.user_id, r.problem_id>> \in committed
        /\ Proceed(h, Idle) /\ UNCHANGED <<commitment, comments, likes>>
    BY <1>4, <2>1 DEF InsertPost, VoiceInv, PassedGate
  <2>6. PassedGate'
    <3> SUFFICES ASSUME NEW k \in Handlers
                 PROVE  /\ requests'[k] \in Posting =>
                             <<requests'[k].user_id, requests'[k].problem_id>> \in committed'
                        /\ requests'[k] \in Answering =>
                             /\ posts'[requests'[k].post_id] # NoRow
                             /\ <<requests'[k].user_id, posts'[requests'[k].post_id].problem_id>>
                                  \in committed'
      BY DEF PassedGate
    <3>1. CASE k = h
      BY <1>t, <1>i, <2>5, <3>1 DEF Types, Proceed
    <3>2. CASE k # h
      <4>1. requests'[k] = requests[k]
        BY <1>t, <2>5, <3>2 DEF Types, Proceed
      <4>2. requests[k] \in Answering => requests[k].post_id \in Posts
        BY DEF Answering
      <4> QED BY <2>4, <2>5, <4>1, <4>2 DEF VoiceInv, PassedGate, commitment
    <3> QED BY <3>1, <3>2
  <2>7. \A c \in Comments : comments[c] # NoRow => comments[c].post_id \in Posts
    BY <1>t DEF Types, Comment
  <2>8. ContentHangs' /\ ThreadStaysOnPost'
    BY <2>4, <2>5, <2>7 DEF VoiceInv, ContentHangs, ThreadStaysOnPost
  <2>9. VoiceIsGated'
    <3>1. \A g \in Posts : posts'[g] # NoRow =>
             <<posts'[g].author_user_id, posts'[g].problem_id>> \in committed
      BY <1>t, <2>2, <2>5 DEF VoiceInv, VoiceIsGated, Types
    <3>2. \A c \in Comments : comments[c] # NoRow =>
             posts'[comments[c].post_id] = posts[comments[c].post_id]
      BY <2>4, <2>7 DEF VoiceInv, ContentHangs
    <3>3. \A g \in Posts, u \in Users : likes[<<g, u>>] > 0 => posts'[g] = posts[g]
      BY <2>4 DEF VoiceInv, ContentHangs
    <3> QED BY <2>5, <3>1, <3>2, <3>3 DEF VoiceInv, VoiceIsGated, commitment
  <2> QED BY <1>t, <2>5, <2>6, <2>8, <2>9 DEF VoiceInv, commitment
<1>5. ASSUME NEW h \in Handlers, InsertComment(h) PROVE VoiceInv'
  <2> DEFINE r == requests[h]
  <2>1. r \in Answering
    BY <1>t, <1>5, RequestKinds DEF InsertComment, Types
  <2>2. PICK c \in Comments, parent \in Parents(r.post_id) :
          /\ comments[c] = NoRow
          /\ comments' = [comments EXCEPT ![c] =
               [author_user_id |-> r.user_id, post_id |-> r.post_id,
                parent_comment_id |-> parent]]
    BY <1>5 DEF InsertComment
  <2>3. /\ comments'[c].author_user_id = r.user_id
        /\ comments'[c].post_id = r.post_id
        /\ comments'[c].parent_comment_id = parent
        /\ comments'[c] # NoRow
    BY <1>t, <2>2 DEF Types, NoRow
  <2>4. \A d \in Comments \ {c} : comments'[d] = comments[d]
    BY <1>t, <2>2 DEF Types
  <2>5. /\ r.post_id \in Posts /\ posts[r.post_id] # NoRow
        /\ <<r.user_id, posts[r.post_id].problem_id>> \in committed
        /\ Proceed(h, Idle) /\ UNCHANGED <<commitment, posts, likes>>
    BY <1>5, <2>1 DEF InsertComment, VoiceInv, PassedGate, Answering
  <2>6. PassedGate'
    BY <1>t, <1>i, <2>5 DEF VoiceInv, PassedGate, Types, Proceed, commitment
  <2>7. parent # TopLevel =>
          parent \in Comments \ {c} /\ comments[parent] # NoRow /\ comments[parent].post_id = r.post_id
    BY <2>2 DEF Parents
  <2>8. \A d \in Comments \ {c} : comments[d] # NoRow /\ comments[d].parent_comment_id # TopLevel =>
          /\ comments[d].parent_comment_id \in Comments \ {c}
          /\ comments[comments[d].parent_comment_id] # NoRow
    <3> SUFFICES ASSUME NEW d \in Comments \ {c}, comments[d] # NoRow,
                        comments[d].parent_comment_id # TopLevel
                 PROVE  /\ comments[d].parent_comment_id \in Comments \ {c}
                        /\ comments[comments[d].parent_comment_id] # NoRow
      OBVIOUS
    <3>1. comments[d] \in Comment
      BY <1>t DEF Types
    <3>2. comments[d].parent_comment_id \in Comments
      BY <3>1 DEF Comment
    <3>3. comments[comments[d].parent_comment_id] # NoRow
      BY DEF VoiceInv, ContentHangs
    <3> QED BY <2>2, <3>2, <3>3
  <2>9. ContentHangs'
    <3>1. ASSUME NEW d \in Comments, comments'[d] # NoRow
          PROVE  /\ posts'[comments'[d].post_id] # NoRow
                 /\ comments'[d].parent_comment_id # TopLevel =>
                      comments'[comments'[d].parent_comment_id] # NoRow
      <4>1. CASE d = c
        BY <2>3, <2>4, <2>5, <2>7, <4>1
      <4>2. CASE d # c
        BY <2>4, <2>5, <2>8, <3>1, <4>2 DEF VoiceInv, ContentHangs
      <4> QED BY <4>1, <4>2
    <3> QED BY <2>5, <3>1 DEF VoiceInv, ContentHangs
  <2>10. ThreadStaysOnPost'
    <3>1. ASSUME NEW d \in Comments, comments'[d] # NoRow, comments'[d].parent_comment_id # TopLevel
          PROVE  comments'[comments'[d].parent_comment_id].post_id = comments'[d].post_id
      <4>1. CASE d = c
        BY <2>3, <2>4, <2>7, <3>1, <4>1
      <4>2. CASE d # c
        BY <2>4, <2>8, <3>1, <4>2 DEF VoiceInv, ThreadStaysOnPost
      <4> QED BY <4>1, <4>2
    <3> QED BY <3>1 DEF ThreadStaysOnPost
  <2>11. VoiceIsGated'
    <3>1. ASSUME NEW d \in Comments, comments'[d] # NoRow
          PROVE  <<comments'[d].author_user_id, posts[comments'[d].post_id].problem_id>> \in committed
      BY <2>3, <2>4, <2>5, <3>1 DEF VoiceInv, VoiceIsGated
    <3> QED BY <2>5, <3>1 DEF VoiceInv, VoiceIsGated, commitment
  <2> QED BY <1>t, <2>5, <2>6, <2>9, <2>10, <2>11 DEF VoiceInv, commitment
<1>6. ASSUME NEW h \in Handlers, FindLike(h) PROVE VoiceInv'
  <2> DEFINE r == requests[h]
  <2>1. r \in Answering
    BY <1>t, <1>6, RequestKinds DEF FindLike, Types
  <2>2. PICK step \in {"like_it", "unlike_it"} :
          Proceed(h, [step |-> step, user_id |-> r.user_id, post_id |-> r.post_id])
    BY <1>6 DEF FindLike
  <2>3. UNCHANGED <<commitment, content>>
    BY <1>6 DEF FindLike
  <2>4. [step |-> step, user_id |-> r.user_id, post_id |-> r.post_id] \notin Posting
    BY DEF Posting
  <2>5. PassedGate'
    BY <1>t, <2>1, <2>2, <2>3, <2>4 DEF VoiceInv, PassedGate, Types, Proceed, commitment, content
  <2>6. ContentHangs' /\ ThreadStaysOnPost' /\ VoiceIsGated'
    BY <2>3 DEF VoiceInv, ContentHangs, ThreadStaysOnPost, VoiceIsGated, commitment, content
  <2> QED BY <1>t, <2>3, <2>5, <2>6 DEF VoiceInv, commitment
<1>7. ASSUME NEW h \in Handlers, ToggleLike(h) PROVE VoiceInv'
  <2> DEFINE r == requests[h]
  <2>1. r \in Answering
    BY <1>t, <1>7, RequestKinds DEF ToggleLike, Types
  <2>2. posts[r.post_id] # NoRow /\ <<r.user_id, posts[r.post_id].problem_id>> \in committed
    BY <2>1 DEF VoiceInv, PassedGate
  <2>3. Proceed(h, Idle) /\ UNCHANGED <<commitment, posts, comments>>
    BY <1>7 DEF ToggleLike
  <2>4. \A f \in Posts, u \in Users :
          <<f, u>> # <<r.post_id, r.user_id>> => likes'[<<f, u>>] = likes[<<f, u>>]
    BY <1>t, <1>7 DEF ToggleLike, Types
  <2>5. PassedGate'
    BY <1>t, <1>i, <2>3 DEF VoiceInv, PassedGate, Types, Proceed, commitment
  <2>6. \A f \in Posts, u \in Users : likes'[<<f, u>>] > 0 =>
          posts[f] # NoRow /\ <<u, posts[f].problem_id>> \in committed
    BY <2>2, <2>4 DEF VoiceInv, ContentHangs, VoiceIsGated
  <2>7. ContentHangs' /\ ThreadStaysOnPost' /\ VoiceIsGated'
    BY <2>3, <2>6 DEF VoiceInv, ContentHangs, ThreadStaysOnPost, VoiceIsGated, commitment
  <2> QED BY <1>t, <2>3, <2>5, <2>7 DEF VoiceInv, commitment
<1>8. ASSUME NEW h \in Handlers, NEW x \in Targets, NEW hide \in BOOLEAN,
             StartModeration(h, x, hide)
      PROVE  VoiceInv'
  <2>1. PICK r : /\ r.step = "set_hidden" /\ Proceed(h, r)
                 /\ r = [step |-> "set_hidden", target_id |-> x, hide |-> hide, seen |-> hidden[x]]
    BY <1>8 DEF StartModeration
  <2>2. r \in Request \ (Posting \cup Answering)
    BY <1>t, <2>1 DEF Request, Posting, Answering, Deciding, Types
  <2> QED BY <1>t, <1>8, <2>1, <2>2, UnrelatedVoice DEF StartModeration
<1>9. ASSUME NEW h \in Handlers, SetHidden(h) PROVE VoiceInv'
  <2>1. requests[h] \in Deciding
    BY <1>t, <1>9, RequestKinds DEF SetHidden, Types
  <2>2. PICK r : /\ r.step = "record" /\ Proceed(h, r)
                 /\ r = [step |-> "record", target_id |-> requests[h].target_id,
                         hide |-> requests[h].hide]
    BY <1>9 DEF SetHidden
  <2>3. r \in Request \ (Posting \cup Answering)
    BY <2>1, <2>2 DEF Request, Posting, Answering, Deciding, Recording
  <2> QED BY <1>t, <1>9, <2>2, <2>3, UnrelatedVoice DEF SetHidden
<1>10. ASSUME NEW h \in Handlers, RecordOverride(h) \/ Fail(h) PROVE VoiceInv'
  BY <1>t, <1>i, <1>10, UnrelatedVoice DEF RecordOverride, Fail
<1>11. CASE UNCHANGED vars
  BY <1>t, <1>11 DEF vars, commitment, VoiceInv, PassedGate, ContentHangs, ThreadStaysOnPost, VoiceIsGated
<1> QED BY <1>1, <1>2, <1>3, <1>4, <1>5, <1>6, <1>7, <1>8, <1>9, <1>10, <1>11 DEF Next

\* VoiceInv is an invariant.
LEMMA VoiceInvariant == Spec => []VoiceInv
BY InitVoice, NextVoice, PTL DEF Spec

\* Commitment-gated voice: nobody has a post, a comment or a like on a problem who
\* never had a commitment on it, whatever requests overlap.
THEOREM VoiceGated == Spec => []VoiceIsGated
<1>1. VoiceInv => VoiceIsGated
  BY DEF VoiceInv
<1> QED BY <1>1, VoiceInvariant, PTL

\* Threads: a reply is on the post of the comment it replies to.
THEOREM ThreadsStay == Spec => []ThreadStaysOnPost
<1>1. VoiceInv => ThreadStaysOnPost
  BY DEF VoiceInv
<1> QED BY <1>1, VoiceInvariant, PTL
----------------------------------------------------------------------------
(* The comment tree *)

\* A reply is younger than the comment it replies to: replies never run in circles.
Younger(age) ==
  \A c \in Comments : comments[c] # NoRow /\ comments[c].parent_comment_id # TopLevel =>
    /\ comments[c].parent_comment_id \in Comments
    /\ comments[comments[c].parent_comment_id] # NoRow
    /\ age[comments[c].parent_comment_id] < age[c]

RepliesFollow == \E age \in [Comments -> Nat] : Younger(age)

LEMMA InitReplies == Init => RepliesFollow
<1>1. [c \in Comments |-> 0] \in [Comments -> Nat]
  OBVIOUS
<1>2. Init => Younger([c \in Comments |-> 0])
  BY DEF Init, Younger
<1> QED BY <1>1, <1>2 DEF RepliesFollow

\* A new comment is younger than the one it replies to, and nothing replies to it yet.
LEMMA InsertedReplies ==
  ASSUME Types, RepliesFollow, NEW h \in Handlers, InsertComment(h)
  PROVE  RepliesFollow'
<1>0. PICK c \in Comments, parent \in Parents(requests[h].post_id) :
        /\ comments[c] = NoRow
        /\ comments' = [comments EXCEPT ![c] =
             [author_user_id |-> requests[h].user_id, post_id |-> requests[h].post_id,
              parent_comment_id |-> parent]]
  BY DEF InsertComment
<1>1. PICK row : /\ comments[c] = NoRow /\ comments' = [comments EXCEPT ![c] = row]
                 /\ row.parent_comment_id = parent
  <2>1. PICK row : row = [author_user_id |-> requests[h].user_id,
                          post_id |-> requests[h].post_id, parent_comment_id |-> parent]
    OBVIOUS
  <2>2. row.parent_comment_id = parent
    BY <2>1
  <2> QED BY <1>0, <2>1, <2>2
<1>2. PICK age \in [Comments -> Nat] : Younger(age)
  BY DEF RepliesFollow
<1>3. PICK n \in Nat : parent # TopLevel => parent \in Comments /\ comments[parent] # NoRow /\ age[parent] < n
  <2>1. CASE parent = TopLevel
    BY <2>1
  <2>2. CASE parent # TopLevel
    <3>1. parent \in Comments /\ comments[parent] # NoRow
      BY <2>2 DEF Parents
    <3>2. age[parent] + 1 \in Nat /\ age[parent] < age[parent] + 1
      BY <3>1
    <3> QED BY <3>1, <3>2
  <2> QED BY <2>1, <2>2
<1>4. PICK next : next = [age EXCEPT ![c] = n]
  OBVIOUS
<1>5. next \in [Comments -> Nat] /\ next[c] = n /\ \A d \in Comments \ {c} : next[d] = age[d]
  BY <1>4
<1>6. comments'[c] = row /\ \A d \in Comments \ {c} : comments'[d] = comments[d]
  BY <1>1 DEF Types
<1>7. ASSUME NEW d \in Comments, comments'[d] # NoRow, comments'[d].parent_comment_id # TopLevel
      PROVE  /\ comments'[d].parent_comment_id \in Comments
             /\ comments'[comments'[d].parent_comment_id] # NoRow
             /\ next[comments'[d].parent_comment_id] < next[d]
  <2>1. CASE d = c
    <3>1. parent \in Comments \ {c} /\ comments[parent] # NoRow /\ age[parent] < n
      BY <1>1, <1>3, <1>6, <1>7, <2>1
    <3> QED BY <1>1, <1>5, <1>6, <2>1, <3>1
  <2>2. CASE d # c
    <3>1. PICK k : k = comments[d].parent_comment_id
      OBVIOUS
    <3>2. k \in Comments /\ comments[k] # NoRow /\ age[k] < age[d] /\ k # c
      BY <1>1, <1>2, <1>6, <1>7, <2>2, <3>1 DEF Younger
    <3> QED BY <1>5, <1>6, <1>7, <2>2, <3>1, <3>2
  <2> QED BY <2>1, <2>2
<1>8. Younger(next)'
  BY <1>7 DEF Younger
<1> QED BY <1>5, <1>8 DEF RepliesFollow

\* Every step keeps the order.
LEMMA NextReplies == Types /\ RepliesFollow /\ [Next]_vars => RepliesFollow'
<1> SUFFICES ASSUME Types, RepliesFollow, [Next]_vars PROVE RepliesFollow'
  OBVIOUS
<1>1. CASE UNCHANGED comments
  BY <1>1 DEF RepliesFollow, Younger
<1>2. ASSUME NEW h \in Handlers, InsertComment(h) PROVE RepliesFollow'
  BY <1>2, InsertedReplies
<1>3. UNCHANGED comments \/ \E h \in Handlers : InsertComment(h)
  BY DEF Next, Commit, EndCommitment, StartPost, StartComment, StartLike, PassGate, InsertPost,
         FindLike, ToggleLike, StartModeration, SetHidden, RecordOverride, Fail, vars, content
<1> QED BY <1>1, <1>2, <1>3

\* Whatever part of a thread is fetched, the tree shows all of it: what is not shown
\* would have an oldest comment, neither a root nor a reply to something shown.
LEMMA TreeIsWhole ==
  ASSUME RepliesFollow, NEW fetched \in SUBSET Comments, \A c \in fetched : comments[c] # NoRow
  PROVE  Rendered(fetched) = fetched
<1> SUFFICES ASSUME NEW tree \in SUBSET fetched, Roots(fetched) \subseteq tree,
                    \A k \in fetched : comments[k].parent_comment_id \in tree => k \in tree
             PROVE  fetched \subseteq tree
  BY DEF Rendered
<1> SUFFICES ASSUME fetched \ tree # {} PROVE FALSE
  OBVIOUS
<1>1. PICK age \in [Comments -> Nat] : Younger(age)
  BY DEF RepliesFollow
<1>2. PICK c \in fetched \ tree : \A d \in fetched \ tree : ~ (age[d] < age[c])
  <2> DEFINE less == {ss \in Nat \X Nat : ss[1] < ss[2]}
             Ages == {age[d] : d \in fetched \ tree}
  <2>1. IsWellFoundedOn(less, Nat)
    BY NatLessThanWellFounded DEF OpToRel
  <2>2. Ages \subseteq Nat /\ Ages # {}
    OBVIOUS
  <2>3. PICK n \in Ages : \A m \in Ages : <<m, n>> \notin less
    <3> HIDE DEF less, Ages
    <3> QED BY <2>1, <2>2, WFMin
  <2>4. \A m \in Ages : ~ (m < n)
    BY <2>2, <2>3
  <2> QED BY <2>4
<1>3. comments[c].parent_comment_id \in fetched
  BY <1>2 DEF Roots
<1>4. PICK k \in fetched : k = comments[c].parent_comment_id
  BY <1>3
<1>5. age[k] < age[c]
  BY <1>1, <1>2, <1>4, KeyAssumption DEF Younger
<1>6. k \in tree
  BY <1>2, <1>5
<1> QED BY <1>2, <1>4, <1>6

\* No reply is lost, whatever of a thread is hidden or cut off by the pages.
THEOREM RepliesAreShown == Spec => []NoReplyLost
<1>1. Types /\ [Next]_vars => Types'
  BY NextTypes
<1>2. RepliesFollow => NoReplyLost
  <2> SUFFICES ASSUME RepliesFollow, NEW f \in Posts, NEW fetched \in SUBSET VisibleComments(f)
               PROVE  Rendered(fetched) = fetched
    BY DEF NoReplyLost
  <2>1. fetched \in SUBSET Comments /\ \A c \in fetched : comments[c] # NoRow
    BY DEF VisibleComments
  <2> QED BY <2>1, TreeIsWhole
<1> QED BY <1>1, <1>2, InitTypes, InitReplies, NextReplies, PTL DEF Spec

----------------------------------------------------------------------------
(* The moderation log and the hidden flag *)

Actions(x) == {events[x][k] : k \in DOMAIN events[x]}

\* A handler has set the flag of x, and has still to record it.
ToRecord(h, x) == requests[h] \in Recording /\ requests[h].target_id = x
ToRecordHidden(h, x) == ToRecord(h, x) /\ requests[h].hide
ToRecordRestored(h, x) == ToRecord(h, x) /\ ~requests[h].hide

\* A handler that moderates x has seen it hidden.
SawHidden(h, x) ==
  requests[h] \in Deciding /\ requests[h].target_id = x /\ requests[h].seen

Moderates(h, x) ==
  requests[h] \in Deciding \cup Recording /\ requests[h].target_id = x

\* Only what is there is moderated.
TargetsExist ==
  \A x \in Targets :
    hidden[x] \/ Actions(x) # {} \/ (\E h \in Handlers : Moderates(h, x)) => TargetExists(x)

\* Whoever hid x recorded it or is about to.
HiddenIsExplained(x) ==
  hidden[x] => "hidden" \in Actions(x) \/ \E h \in Handlers : ToRecordHidden(h, x)

\* If x was ever hidden, as a record, a handler about to write one or one that saw it
\* proves, and is hidden no longer, then whoever restored it recorded it or is about to.
RestoredIsExplained(x) ==
  /\ \/ "hidden" \in Actions(x)
     \/ \E h \in Handlers : ToRecordHidden(h, x) \/ SawHidden(h, x)
  /\ ~hidden[x]
  => "restored" \in Actions(x) \/ \E h \in Handlers : ToRecordRestored(h, x)

Explained == \A x \in Targets \ interrupted : HiddenIsExplained(x) /\ RestoredIsExplained(x)

\* The log of a problem tells every action on what belongs to the problem.
LEMMA LogTells ==
  ASSUME NEW x, NEW p \in Problems, x \in OnProblem(p)
  PROVE  Actions(x) \subseteq Recorded(x)
<1> SUFFICES ASSUME NEW k \in DOMAIN events[x] PROVE events[x][k] \in Recorded(x)
  BY DEF Actions
<1> DEFINE e == [target_id |-> x, action |-> events[x][k]]
<1>1. e \in ModerationLog(p)
  BY DEF ModerationLog
<1>2. e \in {d \in UNION {ModerationLog(q) : q \in Problems} : d.target_id = x}
  BY <1>1
<1>3. e.action = events[x][k]
  OBVIOUS
<1> HIDE DEF e
<1> QED BY <1>2, <1>3 DEF Recorded

\* Of what is there, the log of its problem tells every action; of all else, none
\* that was not recorded.
LEMMA LogTellsAll ==
  ASSUME VoiceInv, NEW x \in Targets
  PROVE  /\ Recorded(x) \subseteq Actions(x)
         /\ TargetExists(x) => Recorded(x) = Actions(x)
<1>1. Recorded(x) \subseteq Actions(x)
  BY DEF Recorded, ModerationLog, Actions
<1>2. ASSUME TargetExists(x) PROVE Actions(x) \subseteq Recorded(x)
  <2>1. CASE x \in Posts
    <3>1. posts[x] # NoRow /\ posts[x].problem_id \in Problems
      BY <1>2, <2>1 DEF TargetExists, VoiceInv, Types, Post
    <3>2. x \in OnProblem(posts[x].problem_id)
      BY <2>1, <3>1 DEF OnProblem
    <3> QED BY <3>1, <3>2, LogTells
  <2>2. CASE x \notin Posts
    <3> DEFINE f == comments[x].post_id
    <3>1. x \in Comments /\ comments[x] # NoRow /\ f \in Posts
      BY <1>2, <2>2 DEF TargetExists, Targets, VoiceInv, Types, Comment
    <3>2. posts[f] # NoRow /\ posts[f].problem_id \in Problems
      BY <3>1 DEF VoiceInv, ContentHangs, Types, Post
    <3>3. x \in OnProblem(posts[f].problem_id)
      BY <3>1, <3>2 DEF OnProblem
    <3> QED BY <3>2, <3>3, LogTells
  <2> QED BY <2>1, <2>2
<1> QED BY <1>1, <1>2

\* Explained is what the log has to say.
LEMMA ExplainedLog == VoiceInv /\ TargetsExist /\ Explained => LogExplainsFlag
<1> SUFFICES ASSUME VoiceInv, TargetsExist, Explained,
                    NEW x \in Targets \ interrupted, ~AtWork(x)
             PROVE  /\ hidden[x] => "hidden" \in Recorded(x)
                    /\ "hidden" \in Recorded(x) /\ ~hidden[x] => "restored" \in Recorded(x)
  BY DEF LogExplainsFlag
<1>1. \A h \in Handlers : ~ToRecordHidden(h, x) /\ ~ToRecordRestored(h, x)
  BY DEF AtWork, ToRecordHidden, ToRecordRestored, ToRecord, Recording
<1>2. hidden[x] => "hidden" \in Actions(x)
  BY <1>1 DEF Explained, HiddenIsExplained
<1>3. "hidden" \in Actions(x) /\ ~hidden[x] => "restored" \in Actions(x)
  BY <1>1 DEF Explained, RestoredIsExplained
<1>4. hidden[x] \/ Actions(x) # {} => Recorded(x) = Actions(x)
  BY LogTellsAll DEF TargetsExist
<1> QED BY <1>2, <1>3, <1>4, LogTellsAll

LogInv == VoiceInv /\ TargetsExist /\ Explained

\* LogInv holds initially.
LEMMA InitLog == Init => LogInv
<1> SUFFICES ASSUME Init PROVE LogInv
  OBVIOUS
<1>1. \A x \in Targets : ~hidden[x] /\ Actions(x) = {}
  BY DEF Init, Actions
<1>2. \A h \in Handlers, x \in Targets :
        ~Moderates(h, x) /\ ~ToRecordHidden(h, x) /\ ~SawHidden(h, x)
  BY DEF Init, Idle, Moderates, ToRecordHidden, ToRecord, SawHidden, Deciding, Recording
<1>3. TargetsExist /\ Explained
  BY <1>1, <1>2 DEF TargetsExist, Explained, HiddenIsExplained, RestoredIsExplained
<1> QED BY <1>3, InitVoice DEF LogInv

\* What is there stays there.
LEMMA TargetsStay ==
  ASSUME VoiceInv, [Next]_vars, NEW x \in Targets, TargetExists(x)
  PROVE  TargetExists(x)'
<1> SUFFICES /\ \A f \in Posts : posts[f] # NoRow => posts'[f] # NoRow
             /\ \A c \in Comments : comments[c] # NoRow => comments'[c] # NoRow
  BY DEF TargetExists, Targets
<1> USE DEF VoiceInv, Types
<1>1. ASSUME NEW h \in Handlers, InsertPost(h)
      PROVE  /\ \A f \in Posts : posts[f] # NoRow => posts'[f] # NoRow
             /\ \A c \in Comments : comments[c] # NoRow => comments'[c] # NoRow
  BY <1>1 DEF InsertPost
<1>2. ASSUME NEW h \in Handlers, InsertComment(h)
      PROVE  /\ \A f \in Posts : posts[f] # NoRow => posts'[f] # NoRow
             /\ \A c \in Comments : comments[c] # NoRow => comments'[c] # NoRow
  BY <1>2 DEF InsertComment
<1>3. UNCHANGED <<posts, comments>>
        \/ \E h \in Handlers : InsertPost(h) \/ InsertComment(h)
  BY DEF Next, Commit, EndCommitment, StartPost, StartComment, StartLike, PassGate, FindLike,
         ToggleLike, StartModeration, SetHidden, RecordOverride, Fail, content, vars
<1> QED BY <1>1, <1>2, <1>3

\* A step that neither sets a flag nor records an action leaves the log as well
\* explained as it was; a moderation that starts sees the flag as it is.
LEMMA UnrelatedLog ==
  ASSUME LogInv, VoiceInv', [Next]_vars, NEW h \in Handlers, NEW r \in Request,
         Proceed(h, r), UNCHANGED <<hidden, events, interrupted>>,
         requests[h] \notin Recording, r \notin Recording,
         r \in Deciding => TargetExists(r.target_id) /\ r.seen = hidden[r.target_id]
  PROVE  LogInv'
<1>1. requests' = [requests EXCEPT ![h] = r] /\ requests \in [Handlers -> Request]
  BY DEF Proceed, LogInv, VoiceInv, Types
<1>2. \A x \in Targets : Actions(x)' = Actions(x)
  BY DEF Actions
<1>3. ASSUME NEW k \in Handlers, NEW x \in Targets
      PROVE  /\ ToRecordHidden(k, x)' <=> ToRecordHidden(k, x)
             /\ ToRecordRestored(k, x)' <=> ToRecordRestored(k, x)
             /\ SawHidden(k, x)' => SawHidden(k, x) \/ hidden[x]
             /\ Moderates(k, x)' => Moderates(k, x) \/ TargetExists(x)
  <2>1. CASE k = h
    <3>1. requests'[h] = r /\ requests[h] \in Request
      BY <1>1
    <3> QED BY <2>1, <3>1 DEF ToRecordHidden, ToRecordRestored, ToRecord, SawHidden, Moderates
  <2>2. CASE k # h
    <3>1. requests'[k] = requests[k]
      BY <1>1, <2>2
    <3> QED BY <3>1 DEF ToRecordHidden, ToRecordRestored, ToRecord, SawHidden, Moderates
  <2> QED BY <2>1, <2>2
<1>4. TargetsExist'
  <2> SUFFICES ASSUME NEW x \in Targets,
                      hidden[x] \/ Actions(x) # {} \/ (\E k \in Handlers : Moderates(k, x)')
               PROVE  TargetExists(x)'
    BY <1>2 DEF TargetsExist
  <2>1. TargetExists(x)
    BY <1>3 DEF LogInv, TargetsExist
  <2> QED BY <2>1, TargetsStay DEF LogInv
<1>5. ASSUME NEW x \in Targets \ interrupted
      PROVE  HiddenIsExplained(x)' /\ RestoredIsExplained(x)'
  <2>1. HiddenIsExplained(x) /\ RestoredIsExplained(x)
    BY DEF LogInv, Explained
  <2> QED BY <1>2, <1>3, <2>1 DEF HiddenIsExplained, RestoredIsExplained
<1>6. Explained'
  BY <1>5 DEF Explained
<1> QED BY <1>4, <1>6 DEF LogInv

\* Setting a flag keeps LogInv: whoever sets it is going to record it.
LEMMA SetHiddenLog ==
  ASSUME LogInv, VoiceInv', [Next]_vars, NEW h \in Handlers, SetHidden(h)
  PROVE  LogInv'
<1> DEFINE r == requests[h]
           y == r.target_id
           s == [step |-> "record", target_id |-> y, hide |-> r.hide]
<1>1. r \in Deciding /\ y \in Targets /\ s \in Recording /\ s.hide = r.hide /\ s.target_id = y
  BY RequestKinds DEF SetHidden, LogInv, VoiceInv, Types, Deciding, Recording
<1>2. Proceed(h, s) /\ UNCHANGED <<events, interrupted, posts, comments>>
  BY DEF SetHidden, content
<1>3. s \in Request /\ s \notin Deciding
  BY <1>1 DEF Request, Recording, Deciding
<1>4. \A x \in Targets : Actions(x)' = Actions(x)
  BY <1>2 DEF Actions
<1>5. requests'[h] = s /\ \A k \in Handlers \ {h} : requests'[k] = requests[k]
  BY <1>2 DEF Proceed, LogInv, VoiceInv, Types
<1>6. Moderates(h, y) /\ (ToRecordHidden(h, y)' <=> r.hide) /\ (ToRecordRestored(h, y)' <=> ~r.hide)
  BY <1>1, <1>5 DEF Moderates, ToRecordHidden, ToRecordRestored, ToRecord
<1>7. \A k \in Handlers \ {h}, x \in Targets :
        /\ ToRecordHidden(k, x)' <=> ToRecordHidden(k, x)
        /\ ToRecordRestored(k, x)' <=> ToRecordRestored(k, x)
        /\ SawHidden(k, x)' <=> SawHidden(k, x)
        /\ Moderates(k, x)' <=> Moderates(k, x)
  BY <1>5 DEF ToRecordHidden, ToRecordRestored, ToRecord, SawHidden, Moderates
<1>8. \A x \in Targets : ~ToRecordHidden(h, x) /\ ~ToRecordRestored(h, x) /\ ~SawHidden(h, x)'
  BY <1>1, <1>3, <1>5 DEF ToRecordHidden, ToRecordRestored, ToRecord, SawHidden, Deciding, Recording
<1>9. \A x \in Targets \ {y} : hidden'[x] = hidden[x] /\ ~Moderates(h, x)'
  BY <1>1, <1>3, <1>5 DEF SetHidden, LogInv, VoiceInv, Types, Moderates
<1>h. hidden'[y] = (IF r.hide = r.seen THEN hidden[y] ELSE r.hide)
  BY <1>1 DEF SetHidden, LogInv, VoiceInv, Types
<1>b. r.hide \in BOOLEAN /\ r.seen \in BOOLEAN
  BY <1>1 DEF Deciding
<1>m. /\ r.hide /\ ~hidden'[y] => r.seen /\ ~hidden[y]
      /\ ~r.hide /\ hidden'[y] => hidden[y]
  <2>1. CASE r.hide = r.seen
    <3>1. hidden'[y] = hidden[y]
      BY <1>h, <2>1
    <3>2. r.hide => r.seen
      BY <2>1, Zenon
    <3> HIDE DEF r, y
    <3> QED BY <3>1, <3>2, Zenon
  <2>2. CASE r.hide # r.seen
    <3>1. hidden'[y] = r.hide
      BY <1>h, <2>2
    <3> HIDE DEF r, y
    <3> QED BY <3>1, Zenon
  <2> QED BY <2>1, <2>2
<1>10. TargetsExist'
  <2> SUFFICES ASSUME NEW x \in Targets,
                      hidden'[x] \/ Actions(x) # {} \/ (\E k \in Handlers : Moderates(k, x)')
               PROVE  TargetExists(x)'
    BY <1>4 DEF TargetsExist
  <2>1. CASE x = y
    BY <1>6, <2>1, TargetsStay DEF LogInv, TargetsExist
  <2>2. CASE x # y
    <3>1. TargetExists(x)
      BY <1>7, <1>9, <2>2 DEF LogInv, TargetsExist
    <3> QED BY <3>1, TargetsStay DEF LogInv
  <2> QED BY <2>1, <2>2
<1>11. ASSUME NEW x \in Targets \ interrupted
       PROVE  HiddenIsExplained(x)' /\ RestoredIsExplained(x)'
  <2>1. HiddenIsExplained(x) /\ RestoredIsExplained(x)
    BY DEF LogInv, Explained
  <2>2. CASE x # y
    <3>1. ~ToRecordHidden(h, x)' /\ ~ToRecordRestored(h, x)'
      BY <1>9, <2>2 DEF Moderates, ToRecordHidden, ToRecordRestored, ToRecord
    <3> QED BY <1>4, <1>7, <1>8, <1>9, <2>1, <2>2, <3>1 DEF HiddenIsExplained, RestoredIsExplained
  <2>3. CASE x = y /\ r.hide
    <3>1. ToRecordHidden(h, x)'
      BY <1>1, <1>5, <2>3 DEF ToRecordHidden, ToRecord
    <3>2. ~hidden'[x] => r.seen /\ ~hidden[x]
      BY <1>m, <2>3
    <3>3. r.seen => SawHidden(h, x)
      BY <1>1, <2>3 DEF SawHidden
    <3>4. HiddenIsExplained(x)'
      BY <3>1 DEF HiddenIsExplained
    <3>5. RestoredIsExplained(x)'
      BY <1>4, <1>7, <1>8, <2>1, <3>2, <3>3 DEF RestoredIsExplained
    <3> QED BY <3>4, <3>5
  <2>4. CASE x = y /\ ~r.hide
    <3>1. ToRecordRestored(h, x)'
      BY <1>1, <1>5, <2>4 DEF ToRecordRestored, ToRecord
    <3>2. hidden'[x] => hidden[x]
      BY <1>m, <2>4
    <3>3. HiddenIsExplained(x)'
      BY <1>4, <1>7, <1>8, <2>1, <3>2 DEF HiddenIsExplained
    <3>4. RestoredIsExplained(x)'
      BY <3>1 DEF RestoredIsExplained
    <3> QED BY <3>3, <3>4
  <2> QED BY <2>2, <2>3, <2>4
<1>12. Explained'
  BY <1>2, <1>11 DEF Explained
<1> QED BY <1>10, <1>12 DEF LogInv

\* One more action is one more of the actions there are.
LEMMA ActionsAppend ==
  ASSUME NEW e \in Seq({"hidden", "restored"}), NEW a \in {"hidden", "restored"}
  PROVE  {Append(e, a)[k] : k \in DOMAIN Append(e, a)} = {e[k] : k \in DOMAIN e} \cup {a}
<1> DEFINE f == Append(e, a)
<1>1. /\ Len(f) = Len(e) + 1 /\ Len(e) \in Nat /\ f[Len(e) + 1] = a
      /\ \A k \in 1 .. Len(e) : f[k] = e[k]
      /\ DOMAIN e = 1 .. Len(e) /\ DOMAIN f = 1 .. Len(e) + 1
  OBVIOUS
<1> HIDE DEF f
<1>2. ASSUME NEW k \in DOMAIN f PROVE f[k] \in {e[j] : j \in DOMAIN e} \cup {a}
  <2>1. k = Len(e) + 1 \/ (k \in DOMAIN e /\ f[k] = e[k])
    BY <1>1
  <2> QED BY <1>1, <2>1
<1>3. ASSUME NEW k \in DOMAIN e PROVE e[k] \in {f[j] : j \in DOMAIN f}
  <2>1. k \in DOMAIN f /\ f[k] = e[k]
    BY <1>1
  <2> QED BY <2>1
<1>4. a \in {f[j] : j \in DOMAIN f}
  <2>1. Len(e) + 1 \in DOMAIN f
    BY <1>1
  <2> QED BY <1>1, <2>1
<1>5. {f[j] : j \in DOMAIN f} = {e[j] : j \in DOMAIN e} \cup {a}
  BY <1>2, <1>3, <1>4
<1> QED BY <1>5 DEF f

\* Recording what was done keeps LogInv.
LEMMA RecordOverrideLog ==
  ASSUME LogInv, VoiceInv', [Next]_vars, NEW h \in Handlers, RecordOverride(h)
  PROVE  LogInv'
<1> DEFINE r == requests[h]
           y == r.target_id
<1>1. r \in Recording /\ y \in Targets /\ r.hide \in BOOLEAN
  BY RequestKinds DEF RecordOverride, LogInv, VoiceInv, Types, Recording
<1>2. Proceed(h, Idle) /\ UNCHANGED <<hidden, interrupted, posts, comments>>
  BY DEF RecordOverride, content
<1>3. requests'[h] = Idle /\ \A k \in Handlers \ {h} : requests'[k] = requests[k]
  BY <1>2 DEF Proceed, LogInv, VoiceInv, Types
<1>4. \A x \in Targets \ {y} : Actions(x)' = Actions(x)
  BY DEF RecordOverride, LogInv, VoiceInv, Types, Actions
<1>5. ASSUME NEW x \in Targets, x = y
      PROVE  Actions(x)' = Actions(x) \cup {ActionFor(r.hide)}
  <2>1. ActionFor(r.hide) \in {"hidden", "restored"}
    BY DEF ActionFor
  <2>2. events'[x] = Append(events[x], ActionFor(r.hide)) /\ events[x] \in Seq({"hidden", "restored"})
    BY <1>5 DEF RecordOverride, LogInv, VoiceInv, Types
  <2> QED BY <2>1, <2>2, ActionsAppend DEF Actions
<1>6. ActionFor(r.hide) = IF r.hide THEN "hidden" ELSE "restored"
  BY DEF ActionFor
<1>7. \A x \in Targets : ~ToRecordHidden(h, x)' /\ ~ToRecordRestored(h, x)' /\ ~SawHidden(h, x)'
                         /\ ~Moderates(h, x)'
  BY <1>3 DEF ToRecordHidden, ToRecordRestored, ToRecord, SawHidden, Moderates, Idle, Deciding, Recording
<1>8. \A k \in Handlers \ {h}, x \in Targets :
        /\ ToRecordHidden(k, x)' <=> ToRecordHidden(k, x)
        /\ ToRecordRestored(k, x)' <=> ToRecordRestored(k, x)
        /\ SawHidden(k, x)' <=> SawHidden(k, x)
        /\ Moderates(k, x)' <=> Moderates(k, x)
  BY <1>3 DEF ToRecordHidden, ToRecordRestored, ToRecord, SawHidden, Moderates
<1>9. Moderates(h, y) /\ (ToRecordHidden(h, y) <=> r.hide) /\ (ToRecordRestored(h, y) <=> ~r.hide)
  BY <1>1 DEF Moderates, ToRecordHidden, ToRecordRestored, ToRecord
<1>10. \A x \in Targets \ {y} : ~ToRecordHidden(h, x) /\ ~ToRecordRestored(h, x)
  BY DEF ToRecordHidden, ToRecordRestored, ToRecord
<1>11. \A x \in Targets : ~SawHidden(h, x)
  BY <1>1 DEF SawHidden, Deciding, Recording
<1>12. TargetsExist'
  <2> SUFFICES ASSUME NEW x \in Targets,
                      hidden[x] \/ Actions(x)' # {} \/ (\E k \in Handlers : Moderates(k, x)')
               PROVE  TargetExists(x)'
    BY <1>2 DEF TargetsExist
  <2>1. CASE x = y
    BY <1>9, <2>1, TargetsStay DEF LogInv, TargetsExist
  <2>2. CASE x # y
    <3>1. TargetExists(x)
      BY <1>4, <1>7, <1>8, <2>2 DEF LogInv, TargetsExist
    <3> QED BY <3>1, TargetsStay DEF LogInv
  <2> QED BY <2>1, <2>2
<1>13. ASSUME NEW x \in Targets \ interrupted
       PROVE  HiddenIsExplained(x)' /\ RestoredIsExplained(x)'
  <2>1. HiddenIsExplained(x) /\ RestoredIsExplained(x)
    BY DEF LogInv, Explained
  <2>2. CASE x # y
    BY <1>2, <1>4, <1>7, <1>8, <1>10, <2>1, <2>2 DEF HiddenIsExplained, RestoredIsExplained
  <2>3. CASE x = y /\ r.hide
    <3>1. Actions(x)' = Actions(x) \cup {"hidden"}
      BY <1>5, <1>6, <2>3
    <3>2. ToRecordHidden(h, x) /\ ~ToRecordRestored(h, x)
      BY <1>1, <2>3 DEF ToRecordHidden, ToRecordRestored, ToRecord
    <3> QED BY <1>2, <1>7, <1>8, <2>1, <3>1, <3>2 DEF HiddenIsExplained, RestoredIsExplained
  <2>4. CASE x = y /\ ~r.hide
    <3>1. Actions(x)' = Actions(x) \cup {"restored"}
      BY <1>5, <1>6, <2>4
    <3>2. ~ToRecordHidden(h, x)
      BY <1>1, <2>4 DEF ToRecordHidden, ToRecord
    <3> QED BY <1>2, <1>7, <1>8, <2>1, <3>1, <3>2 DEF HiddenIsExplained, RestoredIsExplained
  <2> QED BY <2>2, <2>3, <2>4
<1>14. Explained'
  BY <1>2, <1>13 DEF Explained
<1> QED BY <1>12, <1>14 DEF LogInv

\* A handler that dies leaves its target to the exception the property makes.
LEMMA FailLog ==
  ASSUME LogInv, VoiceInv', [Next]_vars, NEW h \in Handlers, Fail(h)
  PROVE  LogInv'
<1>1. requests'[h] = Idle /\ \A k \in Handlers \ {h} : requests'[k] = requests[k]
  BY DEF Fail, Proceed, LogInv, VoiceInv, Types
<1>2. /\ interrupted' = interrupted \cup {requests[h].target_id}
      /\ hidden' = hidden /\ \A x \in Targets : Actions(x)' = Actions(x)
  BY DEF Fail, Actions
<1>3. \A x \in Targets : ~ToRecordHidden(h, x)' /\ ~ToRecordRestored(h, x)' /\ ~SawHidden(h, x)'
                         /\ ~Moderates(h, x)'
  BY <1>1 DEF ToRecordHidden, ToRecordRestored, ToRecord, SawHidden, Moderates, Idle, Deciding, Recording
<1>4. \A k \in Handlers \ {h}, x \in Targets :
        /\ ToRecordHidden(k, x)' <=> ToRecordHidden(k, x)
        /\ ToRecordRestored(k, x)' <=> ToRecordRestored(k, x)
        /\ SawHidden(k, x)' <=> SawHidden(k, x)
        /\ Moderates(k, x)' <=> Moderates(k, x)
  BY <1>1 DEF ToRecordHidden, ToRecordRestored, ToRecord, SawHidden, Moderates
<1>5. \A x \in Targets \ interrupted' : ~ToRecordHidden(h, x) /\ ~ToRecordRestored(h, x)
  BY <1>2 DEF ToRecordHidden, ToRecordRestored, ToRecord
<1>6. TargetsExist'
  <2> SUFFICES ASSUME NEW x \in Targets,
                      hidden[x] \/ Actions(x) # {} \/ (\E k \in Handlers : Moderates(k, x)')
               PROVE  TargetExists(x)'
    BY <1>2 DEF TargetsExist
  <2>1. TargetExists(x)
    BY <1>3, <1>4 DEF LogInv, TargetsExist
  <2> QED BY <2>1, TargetsStay DEF LogInv
<1>7. ASSUME NEW x \in Targets \ interrupted'
      PROVE  HiddenIsExplained(x)' /\ RestoredIsExplained(x)'
  <2>1. HiddenIsExplained(x) /\ RestoredIsExplained(x)
    BY <1>2 DEF LogInv, Explained
  <2> QED BY <1>2, <1>3, <1>4, <1>5, <2>1 DEF HiddenIsExplained, RestoredIsExplained
<1>8. Explained'
  BY <1>7 DEF Explained
<1> QED BY <1>6, <1>8 DEF LogInv

\* Every step keeps LogInv.
LEMMA NextLog == LogInv /\ [Next]_vars => LogInv'
<1> SUFFICES ASSUME LogInv, [Next]_vars PROVE LogInv'
  OBVIOUS
<1>v. VoiceInv /\ VoiceInv' /\ Types /\ Types'
  BY NextVoice DEF LogInv, VoiceInv
<1>1. ASSUME NEW h \in Handlers, NEW u \in Users, NEW p \in Problems, StartPost(h, u, p)
      PROVE  LogInv'
  <2>1. PICK r : Proceed(h, r) /\ r \in Posting
    BY <1>1 DEF StartPost, PassGate, Posting
  <2>2. r \in Request /\ r \notin Recording \cup Deciding /\ requests[h] \notin Recording
    BY <1>1, <2>1 DEF StartPost, PassGate, Posting, Request, Recording, Deciding, Idle
  <2> QED BY <1>v, <1>1, <2>1, <2>2, UnrelatedLog DEF StartPost, PassGate, moderation
<1>2. ASSUME NEW h \in Handlers, NEW u \in Users, NEW f \in Posts,
             StartComment(h, u, f) \/ StartLike(h, u, f)
      PROVE  LogInv'
  <2>1. PICK r : Proceed(h, r) /\ r \in Answering
    BY <1>2 DEF StartComment, StartLike, PassGate, Answering
  <2>2. r \in Request /\ r \notin Recording \cup Deciding /\ requests[h] \notin Recording
    BY <1>2, <2>1 DEF StartComment, StartLike, PassGate, Answering, Request, Recording, Deciding, Idle
  <2> QED BY <1>v, <1>2, <2>1, <2>2, UnrelatedLog DEF StartComment, StartLike, PassGate, moderation
<1>3. ASSUME NEW h \in Handlers, InsertPost(h) \/ InsertComment(h) \/ ToggleLike(h) PROVE LogInv'
  <2>1. Proceed(h, Idle) /\ UNCHANGED moderation
    BY <1>3 DEF InsertPost, InsertComment, ToggleLike
  <2>2. Idle \in Request /\ Idle \notin Recording \cup Deciding /\ requests[h] \notin Recording
    BY <1>3 DEF InsertPost, InsertComment, ToggleLike, Request, Recording, Deciding, Idle
  <2> QED BY <1>v, <2>1, <2>2, UnrelatedLog DEF moderation
<1>4. ASSUME NEW h \in Handlers, FindLike(h) PROVE LogInv'
  <2>1. requests[h] \in Answering
    BY <1>v, <1>4, RequestKinds DEF FindLike, Types
  <2>2. PICK step \in {"like_it", "unlike_it"} :
          Proceed(h, [step |-> step, user_id |-> requests[h].user_id,
                      post_id |-> requests[h].post_id])
    BY <1>4 DEF FindLike
  <2> DEFINE r == [step |-> step, user_id |-> requests[h].user_id, post_id |-> requests[h].post_id]
  <2>3. r \in Request /\ r \notin Recording \cup Deciding
    BY <2>1 DEF Answering, Request, Recording, Deciding
  <2>4. requests[h] \notin Recording
    BY <1>4 DEF FindLike, Recording
  <2> HIDE DEF r
  <2> QED BY <1>v, <1>4, <2>2, <2>3, <2>4, UnrelatedLog DEF FindLike, moderation, r
<1>5. ASSUME NEW h \in Handlers, NEW x \in Targets, NEW hide \in BOOLEAN,
             StartModeration(h, x, hide)
      PROVE  LogInv'
  <2> DEFINE r == [step |-> "set_hidden", target_id |-> x, hide |-> hide, seen |-> hidden[x]]
  <2>1. Proceed(h, r) /\ TargetExists(x) /\ UNCHANGED moderation
    BY <1>5 DEF StartModeration
  <2>2. r.target_id = x /\ r.seen = hidden[x]
    OBVIOUS
  <2>3. r \in Request /\ r \notin Recording
    BY <1>v DEF Types, Request, Deciding, Recording
  <2>4. requests[h] \notin Recording
    <3>1. requests[h] = Idle
      BY <1>5 DEF StartModeration
    <3>2. Idle \notin Recording
      BY DEF Idle, Recording
    <3> QED BY <3>1, <3>2
  <2> HIDE DEF r
  <2> QED BY <1>v, <2>1, <2>2, <2>3, <2>4, UnrelatedLog DEF moderation
<1>6. CASE \/ UNCHANGED vars
           \/ \E u \in Users, p \in Problems : Commit(u, p) \/ EndCommitment(u, p)
  <2>1. UNCHANGED <<posts, comments, hidden, events, requests, interrupted>>
    BY <1>6 DEF vars, Commit, EndCommitment, content, moderation
  <2>2. \A x \in Targets : Actions(x)' = Actions(x) /\ (TargetExists(x)' <=> TargetExists(x))
    BY <2>1 DEF Actions, TargetExists
  <2>3. \A h \in Handlers, x \in Targets :
          /\ ToRecordHidden(h, x)' <=> ToRecordHidden(h, x)
          /\ ToRecordRestored(h, x)' <=> ToRecordRestored(h, x)
          /\ SawHidden(h, x)' <=> SawHidden(h, x)
          /\ Moderates(h, x)' <=> Moderates(h, x)
    BY <2>1 DEF ToRecordHidden, ToRecordRestored, ToRecord, SawHidden, Moderates
  <2>4. TargetsExist'
    BY <2>1, <2>2, <2>3 DEF LogInv, TargetsExist
  <2>5. Explained'
    BY <2>1, <2>2, <2>3 DEF LogInv, Explained, HiddenIsExplained, RestoredIsExplained
  <2> QED BY <1>v, <2>4, <2>5 DEF LogInv
<1> QED
  BY <1>v, <1>1, <1>2, <1>3, <1>4, <1>5, <1>6, SetHiddenLog, RecordOverrideLog, FailLog DEF Next

\* The moderation log explains the hidden flag of every post and comment that no
\* moderation is at work on or has died on: one that is hidden was recorded as hidden,
\* and one that was hidden and is not was recorded as restored.
THEOREM LogExplains == Spec => []LogExplainsFlag
<1>1. LogInv => LogExplainsFlag
  BY ExplainedLog DEF LogInv
<1> QED BY <1>1, InitLog, NextLog, PTL DEF Spec

=============================================================================

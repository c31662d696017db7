---------------------------- MODULE MCMatchingJob ---------------------------
(* An instance of MatchingJob for TLC: three solutions, two attribute pairs, *)
(* one embedding space, and vectors of two dimensions.                       *)
EXTENDS MatchingJob

MCSolutionIds == 1 .. 3

\* Solution 1 is the youngest; 2 and 3 are created at the same moment.
MCCreatedAt == <<2, 1, 1>>

Row(p, w, hard) == [pair |-> p, weight |-> w, is_hard_constraint |-> hard]

MCRequirementRows == {Row("p1", 1, TRUE), Row("p2", 2, FALSE)}

RequirementLists ==
  {<<>>, <<Row("p1", 0, FALSE)>>,
   <<Row("p1", 1, FALSE), Row("p2", 2, FALSE)>>,
   <<Row("p1", 1, TRUE), Row("p2", 0, TRUE)>>}

Embedding(o, v, t) ==
  [owner_id |-> o, embedding_space |-> "summary", vector |-> v, generated_at |-> t]

Far == <<0, 1>>
Near == <<2, 1>>

MCEmbeddingRows ==
  {Embedding(0, <<1, 0>>, 1), Embedding(1, Far, 1), Embedding(1, Near, 2),
   Embedding(2, Near, 1), Embedding(2, <<-1, 0>>, 1), Embedding(3, <<0, 0>>, 1),
   Embedding(3, Near, 1), Embedding(3, Far, 2)}

EmbeddingSets ==
  {{}} \cup {{Embedding(0, <<1, 0>>, 1)} \cup A \cup B \cup C :
     A \in {{}, {Embedding(1, Far, 1)}, {Embedding(1, Far, 1), Embedding(1, Near, 2)}},
     B \in {{}, {Embedding(2, Near, 1), Embedding(2, <<-1, 0>>, 1)}},
     C \in {{}, {Embedding(3, <<0, 0>>, 1)}, {Embedding(3, Near, 1), Embedding(3, Far, 2)}}}

MCCatalogs ==
  {c \in [requirements : RequirementLists,
          status : {<<"published", "published", third>> :
                      third \in {"absent", "draft", "published"}},
          attributes : {<<a, b, {}>> : a, b \in {{}, {"p1"}, {"p1", "p2"}}}
                         \cup {<<{"p1"}, {"p1", "p2"}, {"p1", "p2"}>>},
          embeddings : EmbeddingSets] :
     c.status[3] = "absent" => c.attributes[3] = {}}
=============================================================================

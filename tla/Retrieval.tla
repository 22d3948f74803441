----------------------------- MODULE Retrieval -----------------------------
(***************************************************************************)
(* How a question finds chunks: by the similarity of their vectors and by  *)
(* the words they share, fused by reciprocal ranks, and scored again by a  *)
(* reranker if there is one.  There are two implementations, of the store  *)
(* in memory (hybrid_search.py) and in PostgreSQL (pgvector_store.py).     *)
(*                                                                         *)
(* Chunks are numbered in the order they were indexed; Id is the order of  *)
(* their chunk_ids.  Similarities are compared, never added.               *)
(***************************************************************************)
EXTENDS SequencesExt, Ordering

CONSTANTS
  Chunks,        \* what is published: 1 .. n
  Id,            \* their order by chunk_id
  Relevance,     \* the score a reranker gives to the text of each
  Similarities,  \* of a chunk to the question
  Threshold,     \* MIN_SEMANTIC_SIMILARITY
  Overlaps,      \* words a chunk shares with the question
  MaxResults,    \* largest limit asked for
  Wide, Deep,    \* candidates per result, of a search (3) and of a list (3)
  Common         \* the unit of the fused scores is 1 / Common

RankConstant == 60

\* The ids are unique: chunk_id is the key of the table.
ASSUME ChunksAssumption ==
  /\ IsFiniteSet(Chunks) /\ Chunks = 1 .. Cardinality(Chunks)
  /\ Id \in [Chunks -> Chunks] /\ \A a, b \in Chunks : Id[a] = Id[b] => a = b
ASSUME ScoresAssumption ==
  /\ Relevance \in [Chunks -> Int] /\ Threshold \in Int
  /\ Similarities \subseteq Int /\ Overlaps \subseteq Nat
ASSUME LimitsAssumption == MaxResults \in Nat /\ Wide \in Nat /\ Deep \in Nat
\* Every 1 / (RankConstant + rank) is a number of these units.
ASSUME CommonAssumption ==
  Common \in Nat \ {0} /\ \A rank \in Chunks : Common % (RankConstant + rank) = 0

VARIABLES
  lookup,        \* the search: how many, in which store, with a reranker or not
  match,         \* similarity, words and identifiers shared, of each chunk
  found          \* what is returned, or <<>> before

retrievalVars == <<lookup, match, found>>

Candidates(limit) == limit * Wide
Listed(limit) == Candidates(limit) * Deep

\* Seeded fault: the threshold is not passed on to the search.
SimilarWithout == Chunks

Similar == {c \in Chunks : match[c].similarity >= Threshold}

\* Those that name an identifier of the question.
Naming == {c \in Chunks : match[c].named}

\* keyword_search, and the same ORDER BY in SQL.
Lexical(limit) ==
  LET sharing == {c \in Chunks : match[c].words > 0}
  IN  FirstItems(Ordered([b \in sharing |-> {a \in sharing :
                    \/ match[a].words > match[b].words
                    \/ match[a].words = match[b].words /\ Id[a] < Id[b]}]),
                 Listed(limit))

----------------------------------------------------------------------------
(* hybrid_search: all that are similar enough are known, then cut.         *)

\* sorted is stable, so that of equals the one indexed first is better.
MemoryAdmitted ==
  Ordered([b \in Similar |-> {a \in Similar :
             \/ match[a].similarity > match[b].similarity
             \/ match[a].similarity = match[b].similarity /\ a < b}])

\* Seeded fault: what is not in the list by similarity counts as not similar.
MemoryListsTop(limit) ==
  LET semantic == FirstItems(MemoryAdmitted, Listed(limit))
  IN  <<semantic, KeptItems(Lexical(limit), ToSet(semantic) \cup Naming)>>

MemoryLists(limit) ==
  <<FirstItems(MemoryAdmitted, Listed(limit)),
    KeptItems(Lexical(limit), ToSet(MemoryAdmitted) \cup Naming)>>

----------------------------------------------------------------------------
(* search_hybrid: both lists are cut in SQL; then every row is admitted    *)
(* by its own similarity.                                                  *)

PostgresLists(limit) ==
  LET semantic == FirstItems(Ordered([b \in Chunks |-> {a \in Chunks :
                                \/ match[a].similarity > match[b].similarity
                                \/ match[a].similarity = match[b].similarity /\ Id[a] < Id[b]}]),
                             Listed(limit))
  IN  <<KeptItems(semantic, Similar), KeptItems(Lexical(limit), Similar \cup Naming)>>

----------------------------------------------------------------------------
(* reciprocal_rank_fusion                                                  *)

\* 1 / (RankConstant + rank), in units of 1 / Common.
RankScore(list, c) ==
  IF c \in ToSet(list) THEN Common \div (RankConstant + CHOOSE rank \in DOMAIN list : list[rank] = c) ELSE 0

Fused(lists, limit) ==
  LET score == [c \in Chunks |-> RankScore(lists[1], c) + RankScore(lists[2], c)]
      words == [c \in Chunks |-> IF c \in ToSet(lists[2]) THEN match[c].words ELSE 0]
      ranked == {c \in Chunks : score[c] > 0}
  IN  FirstItems(Ordered([b \in ranked |-> {a \in ranked :
                    \/ score[a] > score[b]
                    \/ score[a] = score[b] /\ words[a] > words[b]
                    \/ score[a] = score[b] /\ words[a] = words[b] /\ Id[a] < Id[b]}]),
                 Listed(limit))

Fusion(store, limit) == Fused(IF store = "memory" THEN MemoryLists(limit) ELSE PostgresLists(limit), limit)

----------------------------------------------------------------------------
(* The reranker.                                                           *)

Replied(candidates, reply) == [n \in DOMAIN reply |-> Relevance[candidates[reply[n]]]]

\* Seeded fault: the scores are taken in the order of the reply.
ScoresAsReplied(candidates, reply) == Replied(candidates, reply)

\* The reply is sorted as the reranker likes; an index tells which text a
\* score is of.
Scores(candidates, reply) ==
  [i \in DOMAIN candidates |-> Replied(candidates, reply)[CHOOSE n \in DOMAIN reply : reply[n] = i]]

Reranked(candidates, reply, limit) ==
  LET score == Scores(candidates, reply)
      order == Ordered([j \in DOMAIN candidates |-> {i \in DOMAIN candidates :
                 \/ score[i] > score[j]
                 \/ score[i] = score[j] /\ Id[candidates[i]] < Id[candidates[j]]}])
  IN  FirstItems([n \in DOMAIN order |-> candidates[order[n]]], Candidates(limit))

\* A reply without a score for each candidate is no reply, and neither are
\* an error or a timeout: the search goes on without the reranker.
Complete(candidates, reply) == {reply[n] : n \in DOMAIN reply} = DOMAIN candidates

----------------------------------------------------------------------------
AskStore ==
  /\ lookup.limit = 0
  /\ lookup' \in [limit : 1 .. MaxResults, store : {"memory", "postgres"}, rerank : BOOLEAN]
  /\ match' \in [Chunks -> {m \in [similarity : Similarities, words : Overlaps, named : BOOLEAN] :
                               m.named => m.words > 0}]
  /\ UNCHANGED found

FindChunks ==
  /\ lookup.limit > 0 /\ found = <<>> /\ Fusion(lookup.store, lookup.limit) # <<>>
  /\ LET candidates == Fusion(lookup.store, lookup.limit)
         n == Len(candidates)
     IN  \/ found' = FirstItems(candidates, Candidates(lookup.limit))
         \/ /\ lookup.rerank
            /\ \E reply \in [1 .. n -> 1 .. n] :
                 /\ Complete(candidates, reply)
                 /\ found' = Reranked(candidates, reply, lookup.limit)
  /\ UNCHANGED <<lookup, match>>

RetrievalInit ==
  /\ lookup = [limit |-> 0, store |-> "memory", rerank |-> FALSE]
  /\ match = [c \in Chunks |-> [similarity |-> 0, words |-> 0, named |-> FALSE]]
  /\ found = <<>>

RetrievalNext == AskStore \/ FindChunks
RetrievalSpec == RetrievalInit /\ [][RetrievalNext]_retrievalVars

----------------------------------------------------------------------------
(* Correctness.                                                            *)

\* No chunk is returned only because it shares common words: it is similar
\* enough, or names an identifier of the question ("ordinary two-character
\* pieces cannot bypass admission", search_hybrid).
OnlyAdmissible ==
  \A c \in ToSet(found) : match[c].similarity >= Threshold \/ match[c].named

\* The store in memory, which knows every similarity, and the one that only
\* sees the rows of two queries find the same ("the same contract",
\* vector_search.py), unless equally similar chunks were indexed in another
\* order than that of their ids.
StoresAgree ==
  (lookup.limit > 0 /\ \A a, b \in Chunks :
      match[a].similarity = match[b].similarity => (a < b) = (Id[a] < Id[b]))
    => Fusion("memory", lookup.limit) = Fusion("postgres", lookup.limit)

\* A reranker, in whatever order it replies, puts the texts it scores best
\* first; failing, it leaves the order of the fusion.
RerankedByOwnScore ==
  LET candidates == Fusion(lookup.store, lookup.limit)
      before(i) == {found[j] : j \in 1 .. i - 1}
  IN  found # <<>> /\ found # FirstItems(candidates, Candidates(lookup.limit)) =>
        /\ lookup.rerank
        /\ \A i \in DOMAIN found, c \in ToSet(candidates) :
             c \in before(i) \/ Relevance[found[i]] >= Relevance[c]

\* A search finds what it may, in either store, in the order of its scores.
FoundInv == OnlyAdmissible /\ StoresAgree /\ RerankedByOwnScore
=============================================================================

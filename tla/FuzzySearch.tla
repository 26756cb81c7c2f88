---------------------------- MODULE FuzzySearch -----------------------------
(***************************************************************************)
(* FuzzySearch (src/core/search/fuzzy.go): a full-text query, a vector     *)
(* query if the embedding model answers, reciprocal rank fusion, a lookup  *)
(* of the chunks, with recency intent and decay switched on a query for    *)
(* the newest memories, and the vector coverage.                           *)
(*                                                                         *)
(* How well chunks match is an input: the order in which each of the two   *)
(* indexes would return them.  A score is an integer in units of One, and  *)
(* decay divides it.  Rows with equal scores come in any order             *)
(* (sort.Slice over a map).                                                *)
(***************************************************************************)
EXTENDS SearchTables

CONSTANTS
  Limits,       \* limits of a request
  LexicalOrders,   \* inputs: matching chunks by bm25
  NearestOrders,   \* inputs: all chunks by distance
  Decay,        \* what the age of each memory divides its score by
  OnTopic       \* memories that match the topic terms of the query

ASSUME FuzzySearchAssumption ==
  /\ Limits \subseteq Nat \ {0}
  /\ {} \notin {Limits, LexicalOrders, NearestOrders}
  /\ \A s \in LexicalOrders \cup NearestOrders :
       s \in Seq(Chunks) /\ IsInjective(s)
  /\ Decay \in [Memories -> Nat \ {0}]

VARIABLES
  request,    \* limit, project, and whether recency counts
  byRank,     \* input: chunks that match, best first
  byDistance, \* input: chunks, nearest first
  fpc,        \* the query FuzzySearch does next
  lexical, vector,  \* lexicalResults, vectorResults
  vectorAvailable,
  found,      \* memoryScores, memoryStatus, memoryHighlights
  candidates, \* what recencyCandidates returned
  results

inputs    == <<request, byRank, byDistance>>
fuzzyVars == <<inputs, fpc, lexical, vector, vectorAvailable, found, candidates, results>>

One       == 64 * 1000000
Flags     == {"complete", "partial", "none"}
Projects  == Range(Project) \cup {AnyProject}

FuzzyTypeOK ==
  /\ request \in [limit : Limits, project : Projects, recency : BOOLEAN]
  /\ fpc \in {"lexical", "embed", "vector", "lookup", "recency", "coverage", "done"}
  /\ \A s \in {lexical, vector} : Range(s) \subseteq Chunks /\ IsInjective(s)
  /\ Len(lexical) <= 2 * request.limit
  /\ vectorAvailable \in BOOLEAN
  /\ DOMAIN found \subseteq Memories
  /\ \A m \in DOMAIN found :
       /\ found[m].score \in 0..One /\ found[m].superseded \in BOOLEAN
       /\ Len(found[m].highlights) <= 3 /\ Range(found[m].highlights) \subseteq Chunks
  /\ Range(candidates) \subseteq Memories
  /\ Len(results) <= request.limit

FuzzyBlank ==
  /\ lexical = <<>> /\ vector = <<>> /\ vectorAvailable = FALSE
  /\ found = <<>> /\ candidates = <<>> /\ results = <<>>

FuzzyInputs ==
  [limit : Limits, project : Projects, recency : BOOLEAN] \X LexicalOrders \X NearestOrders

FuzzyInit(allowed) ==
  /\ \E i \in allowed : request = i[1] /\ byRank = i[2] /\ byDistance = i[3]
  /\ fpc = "lexical"
  /\ FuzzyBlank

-----------------------------------------------------------------------------
\* RRF: 1 / (k + rank), k = 60
Reciprocal(s, c) ==
  IF c \in Range(s) THEN One \div (60 + (CHOOSE i \in DOMAIN s : s[i] = c)) ELSE 0
Fused(c) == Reciprocal(lexical, c) + Reciprocal(vector, c)

Sorted(S, Score(_)) ==
  {s \in SetToSeqs(S) : \A i, j \in DOMAIN s : i < j => Score(s[i]) >= Score(s[j])}

RRF(n) == {First(n, s) : s \in Sorted(Range(lexical) \cup Range(vector), Fused)}

\* DecayFactor
Decayed(score, m) == IF request.recency THEN score \div Decay[m] ELSE score

Of(m, chunks) == Filtered(chunks, {c \in Chunks : Owner[c] = m})

-----------------------------------------------------------------------------
LexicalSearch ==
  /\ fpc = "lexical"
  /\ lexical' = First(2 * request.limit,
                      Filtered(byRank, Visible(request.project)))
  /\ fpc' = "embed"
  /\ UNCHANGED <<inputs, vector, vectorAvailable, found, candidates, results>>

(* GenerateVector: there is no embedder, or it fails or takes too long.    *)
EmbedQuery ==
  /\ fpc = "embed"
  /\ fpc' \in {"vector", "lookup"}
  /\ UNCHANGED <<inputs, lexical, vector, vectorAvailable, found, candidates, results>>

(* With a project, the nearest chunks of all projects are filtered, in the *)
(* order of their ids.                                                     *)
VectorSearch ==
  LET near(n) == First(n, Filtered(byDistance, vectors))
      limit   == 2 * request.limit
  IN  /\ fpc = "vector"
      /\ vector' = IF request.project = AnyProject THEN near(limit)
                   ELSE Ascending(Range(near(10 * limit)) \cap Visible(request.project))
      /\ vectorAvailable' = TRUE
      /\ fpc' = "lookup"
      /\ UNCHANGED <<inputs, lexical, found, candidates, results>>

(* An error of the vector query is reported and the search goes on.        *)
VectorFails ==
  /\ fpc = "vector"
  /\ fpc' = "lookup"
  /\ UNCHANGED <<inputs, lexical, vector, vectorAvailable, found, candidates, results>>

(* Mutant: the status is not read.                                         *)
StatusMissing(m) == FALSE

Status(m) == m \in superseded

(* RRF and the batch lookup of the chunks.  A memory has the score of its  *)
(* best chunk; its first three are shown.                                  *)
Lookup ==
  /\ fpc = "lookup"
  /\ \E fused \in RRF(2 * request.limit) :
       found' = [m \in {Owner[c] : c \in Range(fused)} |->
                  LET best == Of(m, fused)
                  IN  [score      |-> Decayed(Fused(best[1]), m),
                       superseded |-> Status(m),
                       highlights |-> First(3, best)]]
  /\ fpc' = IF DOMAIN found' = {} THEN "done"
            ELSE IF request.recency THEN "recency" ELSE "coverage"
  /\ UNCHANGED <<inputs, lexical, vector, vectorAvailable, candidates, results>>

\* JOIN memory_chunks ... ORDER BY created_at DESC, id DESC LIMIT limit
Newest ==
  LET current == {m \in stored \cap OnTopic \cap Range(Owner) :
                    m \notin superseded /\ request.project \in {AnyProject, Project[m]}}
  IN  First(request.limit, Descending(current))

Boost(i) == One - (i - 1) * (One \div 1000)

(* Mutant: a memory that was found keeps its score.                        *)
MergedOnlyNew(m, old, i, chunk) ==
  IF m \in DOMAIN found THEN old
  ELSE [score |-> Boost(i), superseded |-> FALSE, highlights |-> <<chunk>>]

\* The i-th candidate is merged with what was found of it.
Merged(m, old, i, chunk) ==
  [score      |-> IF Boost(i) > old.score THEN Boost(i) ELSE old.score,
   superseded |-> FALSE,
   highlights |-> First(3, Append(old.highlights, chunk))]

Recency ==
  /\ fpc = "recency"
  /\ candidates' = Newest
  /\ found' = [m \in DOMAIN found \cup Range(Newest) |->
      LET old == IF m \in DOMAIN found THEN found[m]
                 ELSE [score |-> 0, superseded |-> FALSE, highlights |-> <<>>]
      IN  IF m \notin Range(Newest) THEN old
          ELSE Merged(m, old, CHOOSE i \in DOMAIN Newest : Newest[i] = m,
                      CHOOSE c \in Chunks : Owner[c] = m /\ \A d \in Chunks :
                                              Owner[d] = m => c <= d)]
  /\ fpc' = "coverage"
  /\ UNCHANGED <<inputs, lexical, vector, vectorAvailable, results>>

(* The query for the coverage, the penalty of superseded memories, the     *)
(* final order.                                                            *)
Covered(m) ==
  LET all  == {c \in Chunks : Owner[c] = m}
      with == all \cap vectors
  IN  IF with = all /\ vectorAvailable THEN "complete"
      ELSE IF with # {} THEN "partial" ELSE "none"

Final(m) == IF found[m].superseded THEN found[m].score \div 2 ELSE found[m].score

Coverage ==
  /\ fpc = "coverage"
  /\ \E s \in Sorted(DOMAIN found, Final) :
       results' = [i \in DOMAIN First(request.limit, s) |->
                    [memory     |-> s[i],
                     superseded |-> found[s[i]].superseded,
                     coverage   |-> Covered(s[i])]]
  /\ fpc' = "done"
  /\ UNCHANGED <<inputs, lexical, vector, vectorAvailable, found, candidates>>

Fuzzy == \/ LexicalSearch \/ EmbedQuery \/ VectorSearch \/ VectorFails
         \/ Lookup \/ Recency \/ Coverage

-----------------------------------------------------------------------------
(* One answer never presents a memory and its replacement both as current, *)
(* whenever the replacement is stored.  (With recency it can: the status   *)
(* of what was found first is not read again with the candidates.)         *)
OneVersionIsCurrent ==
  ~request.recency =>
    \A i, j \in DOMAIN results :
      Replaces[results[j].memory] = results[i].memory => results[i].superseded

(* With recency, the newest current memory on the topic comes first,       *)
(* however old matches scored and whatever is superseded meanwhile.        *)
NewestFirst ==
  results # <<>> /\ candidates # <<>> => results[1].memory = candidates[1]
=============================================================================

---------------------------- MODULE SearchTables ----------------------------
(***************************************************************************)
(* What the search functions of src/core/search read, and how it changes   *)
(* under them: memories are stored, perhaps in place of an older one       *)
(* (StoreTx), chunks get their vectors (EmbedTask), edges are extracted    *)
(* (GraphTask).  A search is a sequence of queries that share no           *)
(* transaction, so each of these can happen between two of them.           *)
(***************************************************************************)
EXTENDS Integers, FiniteSets, Sequences, SequencesExt

CONSTANTS
  Owner,       \* memory of each chunk; chunk ids are 1..Len(Owner)
  Project,     \* project of each memory; memory ids are 1..Len(Project)
  Replaces,    \* the memory each one supersedes, or 0
  AnyProject,  \* the empty string: no filter
  Graph        \* edges there may be, pairs of node ids

ASSUME SearchTablesAssumption ==
  /\ Project \in Seq(Range(Project))
  /\ Owner \in Seq(DOMAIN Project)
  /\ DOMAIN Replaces = DOMAIN Project
  /\ \A m \in DOMAIN Replaces : Replaces[m] \in 0..m - 1
  /\ AnyProject \notin Range(Project)

VARIABLES
  stored,      \* memories in the table
  superseded,  \* those with status 'superseded'
  vectors,     \* chunks with a row in memory_chunks_vec
  edges        \* kg_edge_evidence

tables == <<stored, superseded, vectors, edges>>

Chunks   == DOMAIN Owner
Memories == DOMAIN Project

TablesTypeOK ==
  /\ stored \subseteq Memories /\ superseded \subseteq stored
  /\ vectors \subseteq Chunks
  /\ edges \subseteq Graph

\* The rows of memory_chunks a query with this project filter joins.
Visible(project) ==
  {c \in Chunks : /\ Owner[c] \in stored
                  /\ project \in {AnyProject, Project[Owner[c]]}}

\* LIMIT
First(n, s) == SubSeq(s, 1, IF n < Len(s) THEN n ELSE Len(s))

\* The elements of S in the order R, a set of pairs: the i-th one has i - 1
\* before it.
Ordered(S, R) ==
  [i \in 1..Cardinality(S) |->
     CHOOSE x \in S : Cardinality({y \in S : <<y, x>> \in R}) = i - 1]

\* ORDER BY id, and ORDER BY id DESC
Ascending(S)  == Ordered(S, {r \in S \X S : r[1] < r[2]})
Descending(S) == Ordered(S, {r \in S \X S : r[1] > r[2]})

\* WHERE: the members of s that are in S, in their order.
Filtered(s, S) ==
  LET kept == Ascending({i \in DOMAIN s : s[i] \in S})
  IN  [k \in DOMAIN kept |-> s[kept[k]]]

-----------------------------------------------------------------------------
(* StoreContext commits: ids are handed out in order.                      *)
StoreMemory ==
  \E m \in Memories :
    /\ stored = 1..m - 1
    /\ stored' = stored \cup {m}
    /\ superseded' = superseded \cup ({Replaces[m]} \ {0})
    /\ UNCHANGED <<vectors, edges>>

(* The worker stores a vector.                                             *)
EmbedChunk ==
  \E c \in Chunks :
    /\ Owner[c] \in stored
    /\ vectors' = vectors \cup {c}
    /\ vectors' # vectors
    /\ UNCHANGED <<stored, superseded, edges>>

(* The worker writes evidence of an edge.                                  *)
AddEdge ==
  \E e \in Graph \ edges :
    /\ edges' = edges \cup {e}
    /\ UNCHANGED <<stored, superseded, vectors>>
=============================================================================

------------------------- MODULE TraceDependencies --------------------------
(***************************************************************************)
(* TraceDependencies (src/core/search/graph.go), behind the tool           *)
(* explore_knowledge_graph: a recursive query for the nodes within a       *)
(* distance of those that bear the name, cut off at max_nodes, and a       *)
(* second query for the edges between them, while a worker adds edges.     *)
(***************************************************************************)
EXTENDS SearchTables, FiniteSetsExt

CONSTANTS
  Nodes,      \* ids of kg_nodes, numbers
  Roots,      \* inputs: sets of nodes that bear the name
  Depths,     \* inputs: max_depth
  NodeCaps    \* inputs: max_nodes

ASSUME TraceAssumption ==
  /\ Nodes \subseteq Int /\ IsFiniteSet(Nodes)
  /\ Roots \subseteq SUBSET Nodes
  /\ Depths \subseteq Nat /\ NodeCaps \subseteq Nat
  /\ {} \notin {Roots, Depths, NodeCaps}

VARIABLES
  asked,      \* roots, direction, depth, nodes
  tpc,        \* the query TraceDependencies does next
  selected,   \* selectedIDs
  truncated,
  traced,     \* the edges of the answer
  before      \* history: the edges the first query saw

traceVars == <<asked, tpc, selected, truncated, traced, before>>

TraceInputs == [roots : Roots, direction : {"downstream", "upstream", "both"},
              depth : Depths, nodes : NodeCaps]

TraceTypeOK ==
  /\ asked \in TraceInputs
  /\ tpc \in {"nodes", "edges", "done"}
  /\ Range(selected) \subseteq Nodes /\ Len(selected) <= asked.nodes
  /\ truncated \in BOOLEAN
  /\ traced \subseteq edges /\ before \subseteq Graph

TraceBlank ==
  /\ selected = <<>> /\ truncated = FALSE /\ traced = {} /\ before = {}

TraceInit(allowed) ==
  /\ asked \in allowed
  /\ tpc = "nodes"
  /\ TraceBlank

-----------------------------------------------------------------------------
\* One step of the recursive query from a to b.
Leads(a, b, graph) ==
  \/ asked.direction \in {"both", "downstream"} /\ <<a, b>> \in graph
  \/ asked.direction \in {"both", "upstream"} /\ <<b, a>> \in graph

(* Mutant: t.depth < ? - 1.                                                *)
RowsShort ==
  LET level[d \in 0..asked.depth] ==
        IF d = 0 THEN asked.roots
        ELSE IF d = asked.depth THEN {}
        ELSE {b \in Nodes : \E a \in level[d - 1] : Leads(a, b, edges)}
  IN  UNION {level[d] \X {d} : d \in 0..asked.depth}

\* trace(id, depth): UNION, so each pair once, and cycles end at max_depth.
Level[d \in 0..asked.depth] ==
  IF d = 0 THEN asked.roots
  ELSE {b \in Nodes : \E a \in Level[d - 1] : Leads(a, b, edges)}

Rows == UNION {Level[d] \X {d} : d \in 0..asked.depth}

Distance(n) == Min({row[2] : row \in {r \in Rows : r[1] = n}})

(* Mutant: ORDER BY id.                                                    *)
ByIdOnly == Ascending({row[1] : row \in Rows})

Nearer(a, b) == Distance(a) < Distance(b) \/ (Distance(a) = Distance(b) /\ a < b)

\* GROUP BY id ORDER BY min_depth, id
ByDistance ==
  LET ids == {row[1] : row \in Rows}
  IN  Ordered(ids, {r \in ids \X ids : Nearer(r[1], r[2])})

TraceNodes ==
  /\ tpc = "nodes"
  /\ selected' = First(asked.nodes, ByDistance)
  /\ truncated' = (Len(ByDistance) > asked.nodes)
  /\ before' = edges
  /\ tpc' = IF selected' = <<>> THEN "done" ELSE "edges"
  /\ UNCHANGED <<asked, traced>>

TraceEdges ==
  /\ tpc = "edges"
  /\ traced' = {e \in edges : e[1] \in Range(selected) /\ e[2] \in Range(selected)}
  /\ tpc' = "done"
  /\ UNCHANGED <<asked, selected, truncated, before>>

Trace == TraceNodes \/ TraceEdges

-----------------------------------------------------------------------------
(* The answer hangs together: cut off or not, every node in it is reached  *)
(* from one that bears the name over edges and nodes of the answer.        *)
TraceConnected ==
  tpc = "done" =>
    \A i \in DOMAIN selected :
      selected[i] \in asked.roots \/ \E j \in 1..i - 1 : Leads(selected[j], selected[i], traced)

(* An answer that is not cut off has exactly the nodes to which a path of  *)
(* at most max_depth edges led.                                            *)
TraceExact ==
  tpc = "done" /\ ~truncated =>
    Range(selected) =
      {n \in Nodes :
         \E k \in 0..asked.depth : \E p \in [0..k -> Nodes] :
           /\ p[0] \in asked.roots /\ p[k] = n
           /\ \A i \in 0..k - 1 : Leads(p[i], p[i + 1], before)}
=============================================================================

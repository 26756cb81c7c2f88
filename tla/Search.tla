------------------------------- MODULE Search -------------------------------
(***************************************************************************)
(* The three searches of src/core/search over tables that change, one      *)
(* search at a time (they do not write, so they do not meet).              *)
(***************************************************************************)
EXTENDS FuzzySearch, ExactSearch, TraceDependencies

VARIABLE search    \* the one that runs

searchVars == <<tables, fuzzyVars, exactVars, traceVars, search>>

SearchTypeOK == TablesTypeOK /\ FuzzyTypeOK /\ ExactTypeOK /\ TraceTypeOK

Pick(S) == {CHOOSE x \in S : TRUE}

\* Of the searches that do not run, the inputs do not matter.
SearchInit ==
  /\ search \in {"fuzzy", "exact", "trace"}
  /\ \E n \in {0} \cup Memories : stored = 1..n
  /\ search = "trace" => stored = {}
  /\ superseded = {Replaces[m] : m \in stored} \ {0}
  /\ vectors \in SUBSET (IF search = "fuzzy" THEN Visible(AnyProject) ELSE {})
  /\ edges \in SUBSET (IF search = "trace" THEN Graph ELSE {})
  /\ FuzzyInit(IF search = "fuzzy" THEN FuzzyInputs ELSE Pick(FuzzyInputs))
  /\ ExactInit(IF search = "exact" THEN ExactInputs ELSE Pick(ExactInputs))
  /\ TraceInit(IF search = "trace" THEN TraceInputs ELSE Pick(TraceInputs))

SearchNext ==
  \/ /\ search = "fuzzy"
     /\ \/ Fuzzy /\ UNCHANGED tables
        \/ fpc # "done" /\ (StoreMemory \/ EmbedChunk) /\ UNCHANGED fuzzyVars
     /\ UNCHANGED <<exactVars, traceVars, search>>
  \/ /\ search = "exact"
     /\ \/ Exact /\ UNCHANGED tables
        \/ epc # "done" /\ StoreMemory /\ UNCHANGED exactVars
     /\ UNCHANGED <<fuzzyVars, traceVars, search>>
  \/ /\ search = "trace"
     /\ \/ Trace /\ UNCHANGED tables
        \/ tpc # "done" /\ AddEdge /\ UNCHANGED traceVars
     /\ UNCHANGED <<fuzzyVars, exactVars, search>>

SearchSpec == SearchInit /\ [][SearchNext]_searchVars
=============================================================================

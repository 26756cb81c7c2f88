---------------------------- MODULE ExactSearch -----------------------------
(***************************************************************************)
(* ExactSearch (src/core/search/fuzzy.go): the full-text index first, then *)
(* a scan for the substring that fills up what is missing, skipping what   *)
(* the first query has returned.  With decay both read more rows and the   *)
(* combination is sorted by score, which here may be any order.            *)
(***************************************************************************)
EXTENDS SearchTables

CONSTANTS
  ExactLimits,    \* limits of a request
  FullText,       \* inputs: the chunks the full-text index matches ...
  Containing      \* ... and those that contain the keyword as a substring

ASSUME ExactSearchAssumption ==
  /\ ExactLimits \subseteq Nat \ {0}
  /\ {} \notin {ExactLimits, FullText, Containing}

VARIABLES
  wanted,     \* limit, project, decay, and the two sets of matches
  epc,        \* the query ExactSearch does next
  exact,      \* results
  matched     \* history: matches that were there when the search started

exactVars == <<wanted, epc, exact, matched>>

ExactInputs ==
  [limit : ExactLimits, project : Range(Project) \cup {AnyProject},
   decay : BOOLEAN, fts : FullText, sub : Containing]

ExactTypeOK ==
  /\ wanted \in ExactInputs
  /\ epc \in {"fts", "substring", "done"}
  /\ Range(exact) \subseteq wanted.fts \cup wanted.sub
  /\ epc = "done" => Len(exact) <= wanted.limit
  /\ matched \subseteq Chunks

Matches(S) == S \cap Visible(wanted.project)

ExactInit(allowed) ==
  /\ wanted \in allowed
  /\ epc = "fts"
  /\ exact = <<>>
  /\ matched = Matches(wanted.fts \cup wanted.sub)

(* exactSearchFTS, and the early return of ExactSearch.                    *)
ExactFTS ==
  /\ epc = "fts"
  /\ exact' = First(IF wanted.decay THEN 5 * wanted.limit ELSE wanted.limit,
                    Ascending(Matches(wanted.fts)))
  /\ epc' = IF ~wanted.decay /\ Len(exact') >= wanted.limit THEN "done" ELSE "substring"
  /\ UNCHANGED <<wanted, matched>>

Missing == wanted.limit - Len(exact)

(* Mutant: rows the first query returned are not allowed for.              *)
ScanLimitShort == IF wanted.decay THEN 5 * (5 * wanted.limit) ELSE Missing

\* LIMIT of exactSearchSubstring: fallbackLimit + len(seen), or five times
\* the five-fold fallbackLimit.
ScanLimit == IF wanted.decay THEN 5 * (5 * wanted.limit) ELSE Missing + Len(exact)

\* The rows of the scan that are new, as many as are missing.
Fallback ==
  LET rows  == First(ScanLimit, Ascending(Matches(wanted.sub)))
      fresh == Filtered(rows, Chunks \ Range(exact))
  IN  IF wanted.decay THEN fresh ELSE First(Missing, fresh)

ExactSubstring ==
  LET combined == exact \o Fallback
  IN  /\ epc = "substring"
      /\ IF wanted.decay
         THEN \E order \in SetToSeqs(DOMAIN combined) :
                exact' = First(wanted.limit, [i \in DOMAIN combined |-> combined[order[i]]])
         ELSE exact' = First(wanted.limit, combined)
      /\ epc' = "done"
      /\ UNCHANGED <<wanted, matched>>

Exact == ExactFTS \/ ExactSubstring

-----------------------------------------------------------------------------
(* The answer is full, or it has as many chunks as matched, each once:     *)
(* neither the limit of the scan nor memories stored between the queries   *)
(* push out a match.                                                       *)
ExactComplete ==
  epc = "done" =>
    /\ Cardinality(Range(exact)) = Len(exact)
    /\ Len(exact) < wanted.limit => matched \subseteq Range(exact)
=============================================================================

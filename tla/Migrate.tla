------------------------------ MODULE Migrate -------------------------------
(***************************************************************************)
(* The cutover from the legacy memory server (cmd/migrate-legacy).  An     *)
(* earlier import left rows in memories that carry no metadata of their    *)
(* source; a run of the migrator matches them with the observations of     *)
(* the legacy database, retags, deletes garbage, and ingests what is       *)
(* missing.  Each phase is one transaction; the last one is a loop of      *)
(* three statements per observation.  The MCP server stores memories       *)
(* meanwhile, the legacy database still grows, and a run can die anywhere. *)
(*                                                                         *)
(* A statement may fail, and a loop over rows may end early: nothing looks *)
(* at rows.Err().  Much of that is in no report.                           *)
(*                                                                         *)
(* StoreContext is one step here: the migrator opens the database without  *)
(* _txlock=immediate, so its transaction either commits on the state its   *)
(* SELECT saw or fails.  Chunks and tasks are in StoreTx.                  *)
(***************************************************************************)
EXTENDS Integers, Sequences, FiniteSets, FiniteSetsExt

CONSTANTS
  NObs,          \* observations that may come to exist, ids 1..NObs
  AtStart,       \* how many the legacy database holds at the start
  CreatedAt,     \* created_at of each, as a positive number
  ObsText,       \* content of each
  Wrapper,       \* BuildWrapper of each: a document
  Docs,          \* documents that may be stored in memories
  Text,          \* ParseWrapper(doc).Content, or NoText if it does not parse
  NoText,
  Garbage,       \* documents that are short or have an empty title
  Imported,      \* what the earlier import left: rows with doc and tag
  ClientDocs,    \* documents the clients of the MCP server store
  Percent,       \* --unmatched-threshold, in percent
  MaxRuns,       \* bound: runs of the migrator
  MaxClientOps   \* bound: calls of the clients

Obs   == 1..NObs
Tags  == {"engram_migration", "engram_session_migration", "session_summary",
          "legacy", "client"}
Modes == {"full", "delta", "dry-run"}

ASSUME MigrateAssumption ==
  /\ NObs \in Nat
  /\ AtStart \in Obs
  /\ CreatedAt \in [Obs -> Nat \ {0}]
  /\ DOMAIN ObsText = Obs
  /\ Wrapper \in [Obs -> Docs]
  /\ DOMAIN Text = Docs
  /\ \A o \in Obs : ObsText[o] # NoText
  /\ Garbage \subseteq Docs
  /\ Imported \in Seq([doc : Docs, tag : {"engram_migration", "engram_session_migration"}])
  \* The text the import read was there at the start, or never comes back.
  /\ \A j \in DOMAIN Imported, o \in Obs :
       Text[Imported[j].doc] = ObsText[o] => \E p \in 1..AtStart : ObsText[p] = ObsText[o]
  /\ ClientDocs \subseteq Docs
  /\ Percent \in 0..100
  /\ MaxRuns \in Nat
  /\ MaxClientOps \in Nat

VARIABLES
  legacy,        \* observations 1..legacy exist
  memories,      \* rows of memories by id; a deleted row keeps its place
  mode,          \* the mode of the run, or "none"
  phase,         \* what the run does next
  at,            \* ingest loop: the observation it is at
  last,          \* ingest loop: the last observation of its query
  id,            \* the memory whose metadata it is about to write
  maxCreatedAt,  \* MaxCreatedAt of the report, 0 if empty
  baseline,      \* the newest report.json: its MaxCreatedAt, 0 if none, and
                 \* whether it is of a full run in which nothing failed
  runs,          \* how many runs were started
  clientOps,     \* how many calls of clients changed memories
  failed,        \* history: something failed in this run, reported or not
  unread,        \* history: the check of the observation it is at failed
  covered,       \* history: observations a flawless full run has seen
  inserted,      \* history: how often the migrator inserted each observation
  undated        \* history: rows whose last statement was not executed

data    == <<legacy, memories, clientOps>>
cursor  == <<at, last, id>>
report  == <<mode, maxCreatedAt, baseline, runs>>
flaws   == <<failed, unread>>
history == <<covered, inserted, undated>>
vars    == <<data, cursor, report, phase, flaws, history>>

(* from: the observation whose type and project the row carries; date: the *)
(* one whose created_at it carries (0: its own).                           *)
Row == [doc : Docs, tag : Tags, from : 0..NObs, date : 0..NObs,
        state : {"active", "superseded", "deleted"}]

NewRow(doc, tag, from) ==
  [doc |-> doc, tag |-> tag, from |-> from, date |-> 0, state |-> "active"]

(* DELETE removes the row and AUTOINCREMENT never gives its id again.      *)
Rows == {i \in DOMAIN memories : memories[i].state # "deleted"}

(* Mutant: only active rows are looked at, as the dedup check does.        *)
StoredActive(o) ==
  \E i \in Rows : memories[i].doc = Wrapper[o] /\ memories[i].state = "active"

(* SELECT 1 FROM memories WHERE content_hash = ?, whatever the status.     *)
Stored(o) == \E i \in Rows : memories[i].doc = Wrapper[o]

-----------------------------------------------------------------------------
Init ==
  /\ legacy = AtStart
  /\ memories = [i \in DOMAIN Imported |-> NewRow(Imported[i].doc, Imported[i].tag, 0)]
  /\ mode = "none"
  /\ phase = "idle"
  /\ at = 0 /\ last = 0 /\ id = 0
  /\ maxCreatedAt = 0
  /\ baseline = [max |-> 0, full |-> FALSE]
  /\ runs = 0
  /\ clientOps = 0
  /\ failed = FALSE /\ unread = FALSE
  /\ covered = 0
  /\ inserted = [o \in Obs |-> 0]
  /\ undated = {}

Goto(p) == phase' = p

(* Preflight, backup and schema change no row; when one of them fails, the *)
(* run stops as in PhaseFails.                                             *)
Start(m) ==
  /\ phase = "idle"
  /\ runs < MaxRuns
  /\ runs' = runs + 1
  /\ mode' = m
  /\ maxCreatedAt' = 0
  /\ Goto(IF m = "delta" THEN "baseline" ELSE "backfill")
  /\ UNCHANGED <<data, cursor, baseline, flaws, history>>

(* LoadLegacyObservations, of the rows it got: a map by content, in which  *)
(* the last of several observations with one content stays.                *)
Sources(loaded, text) == {o \in 1..loaded : ObsText[o] = text}

Tagged(tag) == {i \in Rows : memories[i].tag = tag}

(* The UPDATE of phase 3: type, project and date of the legacy row.        *)
Restored(loaded, r) ==
  LET o == Max(Sources(loaded, Text[r.doc]))
  IN  [r EXCEPT !.tag = "legacy", !.from = o, !.date = o]

(* The rows of one phase whose UPDATE went through; a dry run has none.    *)
Updated(new) ==
  [i \in DOMAIN memories |->
     IF mode # "dry-run" /\ i \in DOMAIN new THEN new[i] ELSE memories[i]]

(* Rows whose text is that of a loaded observation.                        *)
Matched(loaded) ==
  {i \in Tagged("engram_migration") : Sources(loaded, Text[memories[i].doc]) # {}}

(* Phase 3.  Not all observations may be loaded, any row may be missing    *)
(* from the loop or its UPDATE fail.  The commit comes before the test of  *)
(* the threshold.                                                          *)
RunRestoreMatched ==
  LET imported == Tagged("engram_migration")
  IN  /\ phase = "backfill"
      /\ \E loaded \in 0..legacy, seen \in SUBSET imported :
           \E done \in SUBSET (seen \cap Matched(loaded)) :
             LET unmatched == Cardinality(seen \ Matched(loaded))
                 total     == Cardinality(done) + unmatched
             IN  /\ memories' = Updated([i \in done |-> Restored(loaded, memories[i])])
                 /\ failed' = (failed \/ loaded # legacy \/ seen # imported
                                      \/ done # Matched(loaded))
                 /\ Goto(IF mode # "dry-run" /\ unmatched * 100 > Percent * total
                         THEN "stopped" ELSE "retag")
      /\ UNCHANGED <<legacy, clientOps, cursor, report, unread, history>>

Retagged(r) == [r EXCEPT !.tag = "session_summary"]

(* Phase 4, likewise; what fails is not even counted.  The project in the  *)
(* wrapper is left out.                                                    *)
RunRetagBornInHSME ==
  LET parsed == {i \in Tagged("engram_session_migration") : Text[memories[i].doc] # NoText}
  IN  /\ phase = "retag"
      /\ \E done \in SUBSET parsed :
           /\ memories' = Updated([i \in done |-> Retagged(memories[i])])
           /\ failed' = (failed \/ done # parsed)
      /\ Goto("cleanup")
      /\ UNCHANGED <<legacy, clientOps, cursor, report, unread, history>>

(* Mutant: the rule does not look at the tag.                              *)
GarbageAnyTag == {i \in Rows : memories[i].doc \in Garbage}

GarbageRows == {i \in Tagged("engram_migration") : memories[i].doc \in Garbage}

(* Phase 5.                                                                *)
RunDeleteGarbage ==
  /\ phase = "cleanup"
  /\ memories' = IF mode = "dry-run" THEN memories
                 ELSE [i \in DOMAIN memories |->
                         IF i \in GarbageRows THEN [memories[i] EXCEPT !.state = "deleted"]
                         ELSE memories[i]]
  /\ Goto("snapshot")
  /\ UNCHANGED <<legacy, clientOps, cursor, report, flaws, history>>

(* findLatestBaseline: the newest report of any run, also of a dry run and *)
(* of one that failed; nothing, if it cannot be read.                      *)
ReadBaseline ==
  /\ phase = "baseline"
  /\ maxCreatedAt' \in {0, baseline.max}
  /\ Goto("snapshot")
  /\ UNCHANGED <<data, cursor, mode, baseline, runs, flaws, history>>

(* Phase 6; what was read from the baseline is overwritten.                *)
RunSnapshotLegacy ==
  /\ phase = "snapshot"
  /\ maxCreatedAt' = Max({CreatedAt[o] : o \in 1..legacy})
  /\ Goto("query")
  /\ UNCHANGED <<data, cursor, mode, baseline, runs, flaws, history>>

(* Phase 7: its query, then the loop over the rows.                        *)
QueryObservations ==
  /\ phase = "query"
  /\ at' = 1
  /\ last' = legacy
  /\ Goto("check")
  /\ UNCHANGED <<data, id, report, flaws, history>>

(* Mutant: every mode skips what is not newer than the snapshot.           *)
SkippedOld(o) ==
  \/ maxCreatedAt # 0 /\ CreatedAt[o] <= maxCreatedAt
  \/ Stored(o)
  \/ mode = "dry-run"

(* The delta check.                                                        *)
TooOld(o) == mode = "delta" /\ maxCreatedAt # 0 /\ CreatedAt[o] <= maxCreatedAt

Skipped(o) == TooOld(o) \/ Stored(o) \/ mode = "dry-run"

CheckObservation ==
  /\ phase = "check"
  /\ at <= last
  /\ \/ Skipped(at) /\ at' = at + 1 /\ UNCHANGED phase
     \/ ~Skipped(at) /\ Goto("store") /\ UNCHANGED at
  /\ UNCHANGED <<data, last, id, report, flaws, history>>

(* Its SELECT fails: only err == nil counts as stored, so that the error   *)
(* means the same as no row, and the observation is ingested.              *)
CheckFails ==
  /\ phase = "check"
  /\ at <= last
  /\ ~TooOld(at)
  /\ failed' = TRUE
  /\ \/ mode = "dry-run" /\ at' = at + 1 /\ UNCHANGED <<phase, unread>>
     \/ mode # "dry-run" /\ Goto("store") /\ unread' = TRUE /\ UNCHANGED at
  /\ UNCHANGED <<data, last, id, report, history>>

ActiveRows(doc) ==
  {i \in Rows : memories[i].doc = doc /\ memories[i].state = "active"}

(* StoreContext returns the active row with the document, or inserts one.  *)
StoreObservation ==
  LET existing == ActiveRows(Wrapper[at])
  IN  /\ phase = "store"
      /\ \/ /\ existing # {}
            /\ id' \in existing
            /\ UNCHANGED <<memories, inserted>>
         \/ /\ existing = {}
            /\ memories' = Append(memories, NewRow(Wrapper[at], "legacy", at))
            /\ id' = Len(memories) + 1
            /\ inserted' = [inserted EXCEPT ![at] = @ + 1]
      /\ Goto("date")
      /\ UNCHANGED <<legacy, clientOps, at, last, report, flaws, covered, undated>>

(* Mutant: the loop counts rows instead of keeping the id it was given.    *)
DateNewest ==
  /\ phase = "date"
  /\ memories' = [memories EXCEPT ![Len(memories)] =
                    [@ EXCEPT !.tag = "legacy", !.from = at, !.date = at]]
  /\ at' = at + 1
  /\ Goto("check")
  /\ unread' = FALSE
  /\ UNCHANGED <<legacy, clientOps, last, id, report, failed, history>>

(* The UPDATE that restores date, project and type.                        *)
DateObservation ==
  /\ phase = "date"
  /\ memories' = [memories EXCEPT ![id] =
                    [@ EXCEPT !.tag = "legacy", !.from = at, !.date = at]]
  /\ at' = at + 1
  /\ Goto("check")
  /\ unread' = FALSE
  /\ UNCHANGED <<legacy, clientOps, last, id, report, failed, history>>

(* The row cannot be read, or StoreContext or the UPDATE fails: that is    *)
(* counted and the loop goes on.                                           *)
ObservationFails ==
  /\ phase \in {"check", "store", "date"}
  /\ at <= last
  /\ undated' = IF phase = "date" THEN undated \cup {id} ELSE undated
  /\ failed' = TRUE /\ unread' = FALSE
  /\ at' = at + 1
  /\ Goto("check")
  /\ UNCHANGED <<data, last, id, report, covered, inserted>>

(* No more rows, or rows.Next() failed, which looks the same.              *)
LoopEnds ==
  /\ phase = "check"
  /\ Goto("completed")
  /\ failed' = (failed \/ at <= last)
  /\ covered' = IF mode = "full" /\ ~failed' THEN last ELSE covered
  /\ UNCHANGED <<data, cursor, report, unread, inserted, undated>>

(* A phase returns an error: its transaction is rolled back, later phases  *)
(* do not run.                                                             *)
PhaseFails ==
  /\ phase \in {"backfill", "retag", "cleanup", "baseline", "snapshot", "query"}
  /\ Goto("stopped")
  /\ UNCHANGED <<data, cursor, report, flaws, history>>

(* The loop variables do not outlive the process.                          *)
Exit ==
  /\ mode' = "none"
  /\ Goto("idle")
  /\ at' = 0 /\ last' = 0 /\ id' = 0
  /\ maxCreatedAt' = 0
  /\ failed' = FALSE /\ unread' = FALSE

(* The report is saved whether the run succeeded or not.                   *)
SaveReport ==
  /\ phase \in {"completed", "stopped"}
  /\ baseline' = [max |-> maxCreatedAt,
                  full |-> phase = "completed" /\ mode = "full" /\ ~failed]
  /\ Exit
  /\ UNCHANGED <<data, runs, history>>

Crash ==
  /\ phase # "idle"
  /\ undated' = IF phase = "date" THEN undated \cup {id} ELSE undated
  /\ Exit
  /\ UNCHANGED <<data, baseline, runs, covered, inserted>>

(* Somebody still writes to the legacy database.                           *)
LegacyGrows ==
  /\ legacy < NObs
  /\ legacy' = legacy + 1
  /\ UNCHANGED <<memories, clientOps, cursor, report, phase, flaws, history>>

(* A client of the MCP server stores a document, possibly in place of an   *)
(* active memory i (0: of none).                                           *)
ClientStores(doc, i) ==
  /\ clientOps < MaxClientOps
  /\ ActiveRows(doc) = {}
  /\ i # 0 => i \in Rows /\ memories[i].state = "active"
  /\ memories' = Append([j \in DOMAIN memories |->
                           IF j = i THEN [memories[j] EXCEPT !.state = "superseded"]
                           ELSE memories[j]],
                        NewRow(doc, "client", 0))
  /\ clientOps' = clientOps + 1
  /\ UNCHANGED <<legacy, cursor, report, phase, flaws, history>>

Migrator ==
  \/ \E m \in Modes : Start(m)
  \/ RunRestoreMatched
  \/ RunRetagBornInHSME
  \/ RunDeleteGarbage
  \/ ReadBaseline
  \/ RunSnapshotLegacy
  \/ QueryObservations
  \/ CheckObservation
  \/ CheckFails
  \/ StoreObservation
  \/ DateObservation
  \/ ObservationFails
  \/ LoopEnds
  \/ PhaseFails
  \/ SaveReport
  \/ Crash

Next ==
  \/ Migrator
  \/ LegacyGrows
  \/ \E doc \in ClientDocs, i \in 0..Len(memories) : ClientStores(doc, i)

Spec == Init /\ [][Next]_vars

-----------------------------------------------------------------------------
(* Once a full run went through without an error, every observation it saw *)
(* is in memories for good: no later run, crash or client loses it again.  *)
(* The danger is phase 5, which deletes rows by the look of their text:    *)
(* what it deletes had no source, or the same run ingests it again.        *)
LegacyKept == \A o \in 1..covered : Stored(o)

(* However often the migrator dies, is run again in whatever mode, and     *)
(* whatever clients store or supersede meanwhile, it inserts an            *)
(* observation again only where the check before (orphans.go, outside any  *)
(* transaction) failed with an error.  Then it does, if clients superseded *)
(* the first row: "Not double-apply any change" (migrator-cli.md) is kept  *)
(* up to that.                                                             *)
IngestedOnce ==
  [][\A o \in Obs : inserted'[o] # inserted[o] => inserted[o] = 0 \/ unread]_vars

(* A row that carries type and project of an observation has its text and, *)
(* unless a run was cut between the two statements, its date too.          *)
MetadataOfItsText ==
  \A i \in DOMAIN memories :
    LET r == memories[i]
    IN  r.from # 0 =>
          /\ r.doc = Wrapper[r.from] \/ Text[r.doc] = ObsText[r.from]
          /\ r.date = r.from \/ i \in undated \/ (phase = "date" /\ i = id)

(* Idempotence: after a full run in which nothing failed, and while no     *)
(* observation is added, no run in any mode changes any memory, whatever   *)
(* the clients do, but for an observation whose check failed with an       *)
(* error; and a dry run never does.  (A run may fail without saying so, as *)
(* in phase 4; what it left is done by the next one.)                      *)
NothingToRedo ==
  [][(legacy = covered /\ ~unread) \/ mode = "dry-run"
       => clientOps' # clientOps \/ memories' = memories]_vars

(* Delta mode "runs phase 7 (ingest orphans WHERE created_at >             *)
(* pre_snapshot_max)", the maximum of the previous run's report: when that *)
(* was a full run in which nothing failed, and nothing fails in the delta  *)
(* either, nothing newer than the baseline is missing afterwards.          *)
DeltaCatchesUp ==
  phase = "completed" /\ mode = "delta" /\ ~failed /\ baseline.full =>
    \A o \in 1..last : CreatedAt[o] > baseline.max => Stored(o)
=============================================================================

--------------------------- MODULE MigrateProofs ----------------------------
(***************************************************************************)
(* Proofs about Migrate: for any legacy database, any earlier import and   *)
(* any number of runs, failures, crashes and clients, nothing is ingested  *)
(* twice unless the check for it fails, no row carries metadata of another *)
(* text, and what a flawless full run has covered stays and needs no       *)
(* further run.                                                            *)
(*                                                                         *)
(* The argument has two parts.  StepEvolves says how any step may change   *)
(* the table: documents stay, the tags of the earlier import are only ever *)
(* removed, and only garbage that still has such a tag is deleted.  The    *)
(* invariant says what each phase of a run leaves behind; since nothing    *)
(* recreates it, it stays that way for all later runs.                     *)
(***************************************************************************)
EXTENDS Migrate, SequenceTheorems, WellFoundedInduction, TLAPS

USE DEF Obs

(***************************************************************************)
(* The largest observation of a set, which Restored chooses.               *)
(***************************************************************************)
LEMMA LeastNatural ==
  ASSUME NEW T \in SUBSET Nat, T # {}
  PROVE  \E b \in T : \A m \in T : b <= m
<1>1. PICK b \in T : \A m \in T : <<m, b>> \notin OpToRel(<, Nat)
  BY NatLessThanWellFounded, WFMin
<1>2. \A m \in T : ~(m < b)
  BY <1>1 DEF OpToRel
<1>3. \A m \in T : b <= m
  BY <1>2
<1>4. QED
  BY <1>3

LEMMA MaxIsMember ==
  ASSUME NEW n \in Nat, NEW S \in SUBSET (1..n), S # {}
  PROVE  Max(S) \in S
<1> DEFINE Bounds == {m \in Nat : \A x \in S : x <= m}
<1>1. n \in Bounds
  OBVIOUS
<1>2. PICK b \in Bounds : \A m \in Bounds : b <= m
  BY <1>1, LeastNatural
<1>3. b \in S
  <2>1. SUFFICES ASSUME b \notin S PROVE FALSE
    OBVIOUS
  <2>2. PICK x \in S : TRUE
    OBVIOUS
  <2>3. b >= 1
    BY <1>2, <2>2
  <2>4. \A y \in S : y <= b - 1
    BY <1>2, <2>1
  <2>5. b - 1 \in Bounds
    BY <1>2, <2>3, <2>4
  <2>6. QED
    BY <1>2, <2>5
<1>4. \A y \in S : b >= y
  BY <1>2
<1>5. QED
  BY <1>3, <1>4 DEF Max

LEMMA FunctionIsSequence ==
  ASSUME NEW S, NEW n \in Nat, NEW f \in [1..n -> S]
  PROVE  f \in Seq(S) /\ Len(f) = n
<1>1. f \in Seq(S)
  BY SeqDef
<1>2. Len(f) \in Nat /\ DOMAIN f = 1..Len(f)
  BY <1>1, LenProperties
<1>3. 1..Len(f) = 1..n => Len(f) = n
  BY <1>2
<1>4. QED
  BY <1>1, <1>2, <1>3

(***************************************************************************)
(* The invariant.                                                          *)
(***************************************************************************)
Shape ==
  /\ memories \in Seq(Row)
  /\ legacy \in AtStart..NObs
  /\ last \in 0..legacy
  /\ at \in Nat
  /\ phase = "check" => at \in 1..last + 1
  /\ phase \in {"store", "date"} => at \in 1..last
  /\ phase = "date" => id \in 1..Len(memories) /\ memories[id].doc = Wrapper[at]
  /\ failed \in BOOLEAN
  /\ covered \in 0..legacy
  /\ clientOps \in Nat
  /\ inserted \in [Obs -> Nat]

ImportTags == {"engram_migration", "engram_session_migration"}

(* Rows that still have the tag of the import are what it left.            *)
FromImport ==
  \A i \in Tagged("engram_migration") :
    \E j \in DOMAIN Imported : Imported[j].doc = memories[i].doc

(* What phases 3 and 4 leave when nothing failed.                          *)
NoMatched ==
  \A i \in Tagged("engram_migration"), o \in Obs : ObsText[o] # Text[memories[i].doc]
NoSession ==
  \A i \in Tagged("engram_session_migration") : Text[memories[i].doc] = NoText
NoGarbage == GarbageRows = {}

AfterIngest  == {"completed"}
AfterQuery   == {"check", "store", "date"} \cup AfterIngest
AfterCleanup == {"snapshot", "query"} \cup AfterQuery
AfterRetag   == {"cleanup"} \cup AfterCleanup
AfterRestore == {"retag"} \cup AfterRetag

(* Which mode is where: a dry run stores nothing, and what a run stores    *)
(* was not covered, or its check failed.                                   *)
ModeFits ==
  /\ mode = "full" => phase # "baseline"
  /\ phase \in {"store", "date"} => mode # "dry-run" /\ (at > covered \/ unread)

(* A failed check excuses only what is done with its observation.          *)
UnreadFits == unread => phase \in {"store", "date"}

(* A full run without errors, as far as it has come.                       *)
RunSoFar ==
  mode = "full" /\ ~failed =>
    /\ phase \in AfterRestore => NoMatched
    /\ phase \in AfterRetag => NoSession
    /\ phase \in AfterCleanup => NoGarbage
    /\ phase \in AfterQuery => \A o \in 1..at - 1 : o <= last => Stored(o)
    /\ phase = "date" => Stored(at)
    /\ phase = "completed" => at > last

(* What the last such run has left.                                        *)
CoveredSoFar ==
  /\ covered # 0 => NoMatched /\ NoSession /\ NoGarbage
  /\ LegacyKept

(* A row the migrator inserted has no tag of the import, so phase 5 spares *)
(* it and the check of phase 7 finds it.                                   *)
Kept(o) ==
  \E i \in 1..Len(memories) :
    /\ memories[i].doc = Wrapper[o]
    /\ memories[i].state # "deleted"
    /\ memories[i].tag \notin ImportTags

InsertedIsKept ==
  /\ \A o \in Obs : inserted[o] # 0 => Kept(o)
  /\ phase = "store" => inserted[at] = 0 \/ unread

Inv ==
  /\ Shape
  /\ FromImport
  /\ ModeFits
  /\ UnreadFits
  /\ RunSoFar
  /\ CoveredSoFar
  /\ InsertedIsKept
  /\ MetadataOfItsText

-----------------------------------------------------------------------------
(***************************************************************************)
(* How a step may change the table.                                        *)
(***************************************************************************)
Evolves ==
  /\ memories' \in Seq(Row)
  /\ Len(memories) <= Len(memories')
  /\ \A i \in 1..Len(memories) :
       /\ memories'[i].doc = memories[i].doc
       /\ memories'[i].tag \in ImportTags => memories'[i].tag = memories[i].tag
       /\ memories[i].state = "deleted" => memories'[i].state = "deleted"
       /\ memories'[i].state = "deleted" => memories[i].state = "deleted" \/ i \in GarbageRows
  /\ \A i \in Len(memories) + 1..Len(memories') :
       memories'[i].tag \notin ImportTags /\ memories'[i].state = "active"

LEMMA Unchanged ==
  ASSUME Shape, UNCHANGED memories
  PROVE  Evolves
<1>1. Len(memories) \in Nat
  BY LenProperties DEF Shape
<1>2. QED
  BY <1>1 DEF Shape, Evolves

LEMMA NewRowIsRow ==
  ASSUME NEW doc \in Docs, NEW tag \in Tags, NEW from \in 0..NObs
  PROVE  /\ NewRow(doc, tag, from) \in Row
         /\ NewRow(doc, tag, from).doc = doc
         /\ NewRow(doc, tag, from).tag = tag
         /\ NewRow(doc, tag, from).from = from
         /\ NewRow(doc, tag, from).date = 0
         /\ NewRow(doc, tag, from).state = "active"
  BY MigrateAssumption DEF NewRow, Row

(* Steps that write some rows and add none.                                *)
LEMMA Rewriting ==
  ASSUME Shape,
         NEW f \in [1..Len(memories) -> Row], memories' = f,
         \A i \in 1..Len(memories) :
           /\ f[i].doc = memories[i].doc
           /\ f[i].tag \in ImportTags => f[i].tag = memories[i].tag
           /\ memories[i].state = "deleted" => f[i].state = "deleted"
           /\ f[i].state = "deleted" => memories[i].state = "deleted" \/ i \in GarbageRows
  PROVE  Evolves
<1>1. Len(memories) \in Nat
  BY LenProperties DEF Shape
<1>2. memories' \in Seq(Row) /\ Len(memories') = Len(memories)
  BY <1>1, FunctionIsSequence
<1>3. QED
  BY <1>1, <1>2 DEF Evolves

LEMMA Lengths ==
  ASSUME Shape
  PROVE  /\ Len(memories) \in Nat
         /\ DOMAIN memories = 1..Len(memories)
         /\ \A i \in 1..Len(memories) : memories[i] \in Row
  BY LenProperties, ElementOfSeq DEF Shape

Dated(r, o) == [r EXCEPT !.tag = "legacy", !.from = o, !.date = o]

LEMMA DatedRow ==
  ASSUME NEW r \in Row, NEW o \in Obs
  PROVE  /\ Dated(r, o) \in Row
         /\ Dated(r, o).doc = r.doc
         /\ Dated(r, o).tag = "legacy"
         /\ Dated(r, o).state = r.state
         /\ Dated(r, o).from = o
         /\ Dated(r, o).date = o
<1>1. NObs \in Nat
  BY MigrateAssumption
<1>2. /\ Dated(r, o).doc = r.doc /\ Dated(r, o).tag = "legacy"
      /\ Dated(r, o).from = o /\ Dated(r, o).date = o /\ Dated(r, o).state = r.state
  BY DEF Dated, Row
<1>3. o \in 0..NObs
  BY <1>1
<1>4. Dated(r, o) \in Row
  <2>1. [r EXCEPT !.tag = "legacy"] \in Row
    BY DEF Row, Tags
  <2>2. \A q \in Row : [q EXCEPT !.from = o] \in Row
    BY <1>3 DEF Row
  <2>3. \A q \in Row : [q EXCEPT !.date = o] \in Row
    BY <1>3 DEF Row
  <2>4. QED
    BY <2>1, <2>2, <2>3 DEF Dated
<1>5. QED
  BY <1>2, <1>4

LEMMA RestoredRow ==
  ASSUME Shape, NEW n \in 0..legacy, NEW r \in Row, Sources(n, Text[r.doc]) # {}
  PROVE  /\ Restored(n, r) \in Row
         /\ Restored(n, r).doc = r.doc
         /\ Restored(n, r).tag = "legacy"
         /\ Restored(n, r).state = r.state
         /\ Restored(n, r).from \in Obs
         /\ Text[r.doc] = ObsText[Restored(n, r).from]
         /\ Restored(n, r).date = Restored(n, r).from
<1> DEFINE o == Max(Sources(n, Text[r.doc]))
<1>1. n \in Nat /\ Sources(n, Text[r.doc]) \in SUBSET (1..n)
  BY MigrateAssumption DEF Shape, Sources
<1>2. o \in Sources(n, Text[r.doc])
  BY <1>1, MaxIsMember
<1>3. o \in Obs /\ ObsText[o] = Text[r.doc]
  BY <1>2, MigrateAssumption DEF Sources, Shape
<1> HIDE DEF o
<1>4. Restored(n, r) = Dated(r, o)
  BY DEF Restored, Dated, o
<1>5. QED
  BY <1>3, <1>4, DatedRow

(* What RunRestoreMatched writes, if anything.                             *)
LEMMA RestoreWrites ==
  ASSUME Shape, RunRestoreMatched
  PROVE  \E n \in 0..legacy : \E done \in SUBSET Matched(n) :
           /\ memories' = Updated([i \in done |-> Restored(n, memories[i])])
           /\ ~failed' => n = legacy /\ done = Matched(legacy)
           /\ \A i \in done :
                /\ i \in 1..Len(memories)
                /\ Restored(n, memories[i]) \in Row
                /\ Restored(n, memories[i]).doc = memories[i].doc
                /\ Restored(n, memories[i]).tag = "legacy"
                /\ Restored(n, memories[i]).state = memories[i].state
                /\ Restored(n, memories[i]).date = Restored(n, memories[i]).from
                /\ Text[memories[i].doc] = ObsText[Restored(n, memories[i]).from]
<1>1. PICK n \in 0..legacy, seen \in SUBSET Tagged("engram_migration") :
        \E done \in SUBSET (seen \cap Matched(n)) :
          /\ memories' = Updated([i \in done |-> Restored(n, memories[i])])
          /\ failed' = (failed \/ n # legacy \/ seen # Tagged("engram_migration")
                              \/ done # Matched(n))
  BY DEF RunRestoreMatched
<1>2. PICK done \in SUBSET (seen \cap Matched(n)) :
        /\ memories' = Updated([i \in done |-> Restored(n, memories[i])])
        /\ failed' = (failed \/ n # legacy \/ seen # Tagged("engram_migration")
                            \/ done # Matched(n))
  BY <1>1
<1>3. \A i \in done : i \in 1..Len(memories) /\ Sources(n, Text[memories[i].doc]) # {}
  BY <1>2, Lengths DEF Matched, Tagged, Rows
<1>4. \A i \in done :
        /\ Restored(n, memories[i]) \in Row
        /\ Restored(n, memories[i]).doc = memories[i].doc
        /\ Restored(n, memories[i]).tag = "legacy"
        /\ Restored(n, memories[i]).state = memories[i].state
        /\ Restored(n, memories[i]).date = Restored(n, memories[i]).from
        /\ Text[memories[i].doc] = ObsText[Restored(n, memories[i]).from]
  BY <1>3, Lengths, RestoredRow
<1>5. ~failed' => n = legacy /\ done = Matched(legacy)
  BY <1>2
<1>6. QED
  BY <1>2, <1>3, <1>4, <1>5

LEMMA RestoreEvolves ==
  ASSUME Shape, RunRestoreMatched
  PROVE  Evolves
<1>1. PICK n \in 0..legacy : \E done \in SUBSET Matched(n) :
        /\ memories' = Updated([i \in done |-> Restored(n, memories[i])])
        /\ \A i \in done :
             /\ i \in 1..Len(memories)
             /\ Restored(n, memories[i]) \in Row
             /\ Restored(n, memories[i]).doc = memories[i].doc
             /\ Restored(n, memories[i]).tag = "legacy"
             /\ Restored(n, memories[i]).state = memories[i].state
  BY RestoreWrites
<1>2. PICK done \in SUBSET Matched(n) :
        /\ memories' = Updated([i \in done |-> Restored(n, memories[i])])
        /\ \A i \in done :
             /\ i \in 1..Len(memories)
             /\ Restored(n, memories[i]) \in Row
             /\ Restored(n, memories[i]).doc = memories[i].doc
             /\ Restored(n, memories[i]).tag = "legacy"
             /\ Restored(n, memories[i]).state = memories[i].state
  BY <1>1
<1> DEFINE new == [i \in done |-> Restored(n, memories[i])]
<1>3. DOMAIN new = done
  OBVIOUS
<1>4. \A i \in done :
        /\ i \in 1..Len(memories)
        /\ new[i] \in Row /\ new[i].doc = memories[i].doc
        /\ new[i].tag = "legacy" /\ new[i].state = memories[i].state
  BY <1>2
<1>5. memories' = Updated(new)
  BY <1>2
<1> HIDE DEF new
<1>6. QED
  BY <1>3, <1>4, <1>5, Lengths, Rewriting DEF Updated, ImportTags

(* What RunRetagBornInHSME writes, if anything.                            *)
Parsed == {i \in Tagged("engram_session_migration") : Text[memories[i].doc] # NoText}

LEMMA RetagWrites ==
  ASSUME Shape, RunRetagBornInHSME
  PROVE  \E done \in SUBSET Parsed :
           /\ memories' = Updated([i \in done |-> Retagged(memories[i])])
           /\ ~failed' => done = Parsed
           /\ \A i \in done :
                /\ i \in 1..Len(memories)
                /\ Retagged(memories[i]) \in Row
                /\ Retagged(memories[i]).doc = memories[i].doc
                /\ Retagged(memories[i]).tag = "session_summary"
                /\ Retagged(memories[i]).state = memories[i].state
                /\ Retagged(memories[i]).from = memories[i].from
                /\ Retagged(memories[i]).date = memories[i].date
<1>1. PICK done \in SUBSET Parsed :
        /\ memories' = Updated([i \in done |-> Retagged(memories[i])])
        /\ failed' = (failed \/ done # Parsed)
  BY DEF RunRetagBornInHSME, Parsed
<1>2. \A i \in done : i \in 1..Len(memories)
  BY Lengths DEF Parsed, Tagged, Rows
<1>3. \A r \in Row :
        /\ Retagged(r) \in Row /\ Retagged(r).doc = r.doc
        /\ Retagged(r).tag = "session_summary" /\ Retagged(r).state = r.state
        /\ Retagged(r).from = r.from /\ Retagged(r).date = r.date
  BY DEF Retagged, Row, Tags
<1>4. QED
  BY <1>1, <1>2, <1>3, Lengths

LEMMA RetagEvolves ==
  ASSUME Shape, RunRetagBornInHSME
  PROVE  Evolves
<1>1. PICK done \in SUBSET Parsed :
        /\ memories' = Updated([i \in done |-> Retagged(memories[i])])
        /\ \A i \in done :
             /\ i \in 1..Len(memories)
             /\ Retagged(memories[i]) \in Row
             /\ Retagged(memories[i]).doc = memories[i].doc
             /\ Retagged(memories[i]).tag = "session_summary"
             /\ Retagged(memories[i]).state = memories[i].state
  BY RetagWrites
<1> DEFINE new == [i \in done |-> Retagged(memories[i])]
<1>2. DOMAIN new = done
  OBVIOUS
<1>3. \A i \in done :
        /\ i \in 1..Len(memories)
        /\ new[i] \in Row /\ new[i].doc = memories[i].doc
        /\ new[i].tag = "session_summary" /\ new[i].state = memories[i].state
  BY <1>1
<1>4. memories' = Updated(new)
  BY <1>1
<1> HIDE DEF new
<1>5. QED
  BY <1>2, <1>3, <1>4, Lengths, Rewriting DEF Updated, ImportTags

LEMMA DeleteEvolves ==
  ASSUME Shape, RunDeleteGarbage
  PROVE  Evolves
<1>1. CASE mode = "dry-run"
  BY <1>1, Unchanged DEF RunDeleteGarbage
<1>2. CASE mode # "dry-run"
  <2> DEFINE f == [i \in DOMAIN memories |->
                     IF i \in GarbageRows THEN [memories[i] EXCEPT !.state = "deleted"]
                     ELSE memories[i]]
  <2>1. memories' = f
    BY <1>2 DEF RunDeleteGarbage
  <2>2. f \in [1..Len(memories) -> Row]
    BY Lengths DEF Row
  <2>3. \A i \in 1..Len(memories) :
          /\ f[i].doc = memories[i].doc
          /\ f[i].tag = memories[i].tag
          /\ memories[i].state = "deleted" => f[i].state = "deleted"
          /\ f[i].state = "deleted" => memories[i].state = "deleted" \/ i \in GarbageRows
    BY Lengths DEF Row
  <2> HIDE DEF f
  <2>4. QED
    BY <2>1, <2>2, <2>3, Rewriting
<1>3. QED
  BY <1>1, <1>2

LEMMA AppendEvolves ==
  ASSUME Shape, NEW r \in Row, r.tag \notin ImportTags, r.state = "active",
         memories' = Append(memories, r)
  PROVE  /\ Evolves
         /\ Len(memories') = Len(memories) + 1
         /\ memories'[Len(memories) + 1] = r
         /\ \A i \in 1..Len(memories) : memories'[i] = memories[i]
<1>1. /\ memories' \in Seq(Row)
      /\ Len(memories') = Len(memories) + 1
      /\ memories'[Len(memories) + 1] = r
      /\ \A i \in 1..Len(memories) : memories'[i] = memories[i]
  BY AppendProperties DEF Shape
<1>2. QED
  BY <1>1, Lengths DEF Evolves

LEMMA StoreObservationEvolves ==
  ASSUME Shape, StoreObservation
  PROVE  Evolves
<1>1. at \in Obs
  BY MigrateAssumption DEF Shape, StoreObservation
<1>2. CASE UNCHANGED memories
  BY <1>2, Unchanged
<1>3. CASE memories' = Append(memories, NewRow(Wrapper[at], "legacy", at))
  BY <1>1, <1>3, NewRowIsRow, AppendEvolves, MigrateAssumption DEF Tags, ImportTags
<1>4. QED
  BY <1>2, <1>3 DEF StoreObservation

LEMMA DateObservationEvolves ==
  ASSUME Shape, DateObservation
  PROVE  Evolves
<1>1. at \in Obs /\ id \in 1..Len(memories)
  BY MigrateAssumption DEF Shape, DateObservation
<1> DEFINE f == [memories EXCEPT ![id] = Dated(@, at)]
<1>2. memories' = f
  BY <1>1, Lengths DEF DateObservation, Dated
<1>3. f \in [1..Len(memories) -> Row]
  BY <1>1, Lengths, DatedRow
<1>4. \A i \in 1..Len(memories) :
        /\ f[i].doc = memories[i].doc
        /\ f[i].tag \in ImportTags => f[i].tag = memories[i].tag
        /\ f[i].state = memories[i].state
  BY <1>1, Lengths, DatedRow DEF ImportTags
<1> HIDE DEF f
<1>5. QED
  BY <1>2, <1>3, <1>4, Rewriting

LEMMA ClientStoresEvolves ==
  ASSUME Shape, NEW doc \in ClientDocs, NEW i \in 0..Len(memories), ClientStores(doc, i)
  PROVE  Evolves
<1> DEFINE f == [j \in DOMAIN memories |->
                   IF j = i THEN [memories[j] EXCEPT !.state = "superseded"]
                   ELSE memories[j]]
           r == NewRow(doc, "client", 0)
<1>1. memories' = Append(f, r)
  BY DEF ClientStores
<1>2. f \in [1..Len(memories) -> Row]
  BY Lengths DEF Row
<1>3. f \in Seq(Row) /\ Len(f) = Len(memories)
  BY <1>2, Lengths, FunctionIsSequence
<1>4. r \in Row /\ r.tag = "client" /\ r.state = "active"
  BY MigrateAssumption, NewRowIsRow DEF Tags
<1>5. \A j \in 1..Len(memories) :
        /\ f[j].doc = memories[j].doc
        /\ f[j].tag = memories[j].tag
        /\ memories[j].state = "deleted" => f[j].state = "deleted"
        /\ f[j].state = "deleted" => memories[j].state = "deleted"
  BY Lengths DEF Row, ClientStores, Rows
<1> HIDE DEF f, r
<1>6. /\ memories' \in Seq(Row) /\ Len(memories') = Len(memories) + 1
      /\ memories'[Len(memories) + 1] = r
      /\ \A j \in 1..Len(memories) : memories'[j] = f[j]
  BY <1>1, <1>3, <1>4, AppendProperties
<1>7. QED
  BY <1>4, <1>5, <1>6, Lengths DEF Evolves, ImportTags

LEMMA StepEvolves ==
  ASSUME Shape, Next
  PROVE  Evolves
<1>1. CASE RunRestoreMatched
  BY <1>1, RestoreEvolves
<1>2. CASE RunRetagBornInHSME
  BY <1>2, RetagEvolves
<1>3. CASE RunDeleteGarbage
  BY <1>3, DeleteEvolves
<1>4. CASE StoreObservation
  BY <1>4, StoreObservationEvolves
<1>5. CASE DateObservation
  BY <1>5, DateObservationEvolves
<1>6. CASE \E doc \in ClientDocs, i \in 0..Len(memories) : ClientStores(doc, i)
  BY <1>6, ClientStoresEvolves
<1>7. CASE UNCHANGED memories
  BY <1>7, Unchanged
<1>8. QED
  BY <1>1, <1>2, <1>3, <1>4, <1>5, <1>6, <1>7
     DEF Next, Migrator, Start, ReadBaseline, RunSnapshotLegacy, QueryObservations,
         CheckObservation, CheckFails, ObservationFails, LoopEnds, PhaseFails, SaveReport, Crash,
         LegacyGrows, data

(***************************************************************************)
(* What follows for the rows the invariant speaks of.                      *)
(***************************************************************************)
LEMMA TagsOnlyGo ==
  ASSUME Shape, Evolves, NEW tag \in ImportTags, NEW i \in Tagged(tag)'
  PROVE  i \in Tagged(tag) /\ memories'[i].doc = memories[i].doc
<1>1. Len(memories') \in Nat /\ DOMAIN memories' = 1..Len(memories')
  BY LenProperties DEF Evolves
<1>2. i \in 1..Len(memories') /\ memories'[i].tag = tag /\ memories'[i].state # "deleted"
  BY <1>1 DEF Tagged, Rows
<1>3. i \in 1..Len(memories)
  BY <1>1, <1>2, Lengths DEF Evolves
<1>4. QED
  BY <1>2, <1>3, Lengths DEF Evolves, Tagged, Rows

LEMMA CleanStays ==
  ASSUME Shape, Evolves
  PROVE  /\ FromImport => FromImport'
         /\ NoMatched => NoMatched'
         /\ NoSession => NoSession'
         /\ NoGarbage => NoGarbage'
<1>1. "engram_migration" \in ImportTags /\ "engram_session_migration" \in ImportTags
  BY DEF ImportTags
<1>2. QED
  BY <1>1, TagsOnlyGo DEF FromImport, NoMatched, NoSession, NoGarbage, GarbageRows

LEMMA StoredStays ==
  ASSUME Shape, Evolves, NoGarbage, NEW o, Stored(o)
  PROVE  Stored(o)'
<1>1. Len(memories') \in Nat /\ DOMAIN memories' = 1..Len(memories')
  BY LenProperties DEF Evolves
<1>2. PICK i \in Rows : memories[i].doc = Wrapper[o]
  BY DEF Stored
<1>3. i \in 1..Len(memories) /\ memories[i].state # "deleted"
  BY <1>2, Lengths DEF Rows
<1>4. i \in 1..Len(memories') /\ memories'[i].doc = Wrapper[o]
      /\ memories'[i].state # "deleted"
  BY <1>1, <1>2, <1>3, Lengths DEF Evolves, NoGarbage
<1>5. QED
  BY <1>1, <1>4 DEF Stored, Rows

LEMMA KeptStays ==
  ASSUME Shape, Evolves, NEW o, Kept(o)
  PROVE  Kept(o)'
<1>1. Len(memories') \in Nat /\ Len(memories) <= Len(memories')
  BY LenProperties DEF Evolves
<1>2. PICK i \in 1..Len(memories) : /\ memories[i].doc = Wrapper[o]
                                    /\ memories[i].state # "deleted"
                                    /\ memories[i].tag \notin ImportTags
  BY DEF Kept
<1>3. i \notin GarbageRows
  BY <1>2 DEF GarbageRows, Tagged, ImportTags
<1>4. i \in 1..Len(memories')
  BY <1>1, Lengths
<1>5. QED
  BY <1>2, <1>3, <1>4 DEF Evolves, Kept

-----------------------------------------------------------------------------
(***************************************************************************)
(* The invariant holds at the start and in every step.                     *)
(***************************************************************************)
LEMMA InitInv ==
  ASSUME Init
  PROVE  Inv
<1> DEFINE f == [i \in DOMAIN Imported |-> NewRow(Imported[i].doc, Imported[i].tag, 0)]
<1>1. /\ Len(Imported) \in Nat /\ DOMAIN Imported = 1..Len(Imported)
      /\ \A j \in DOMAIN Imported : Imported[j].doc \in Docs /\ Imported[j].tag \in Tags
  <2> DEFINE R == [doc : Docs, tag : {"engram_migration", "engram_session_migration"}]
  <2>1. Imported \in Seq(R)
    BY MigrateAssumption
  <2>2. Len(Imported) \in Nat /\ DOMAIN Imported = 1..Len(Imported)
    BY <2>1, LenProperties
  <2>3. \A j \in DOMAIN Imported : Imported[j] \in R
    BY <2>1, <2>2, ElementOfSeq
  <2>4. QED
    BY <2>2, <2>3 DEF Tags
<1>2. \A j \in DOMAIN Imported :
        f[j] \in Row /\ f[j].doc = Imported[j].doc /\ f[j].from = 0
  BY <1>1, NewRowIsRow, MigrateAssumption
<1>3. f \in [1..Len(Imported) -> Row]
  BY <1>1, <1>2
<1>4. f \in Seq(Row) /\ DOMAIN f = DOMAIN Imported
  BY <1>1, <1>3, FunctionIsSequence
<1>5. memories = f
  BY DEF Init
<1> HIDE DEF f
<1>6. Shape
  <2>1. NObs \in Nat /\ AtStart \in 1..NObs
    BY MigrateAssumption
  <2>2. memories \in Seq(Row)
    BY <1>4, <1>5
  <2>3. /\ legacy = AtStart /\ last = 0 /\ at = 0 /\ phase = "idle" /\ failed = FALSE
        /\ covered = 0 /\ clientOps = 0 /\ inserted = [o \in Obs |-> 0]
    BY DEF Init
  <2>4. inserted \in [Obs -> Nat]
    BY <2>3
  <2>5. legacy \in AtStart..NObs /\ last \in 0..legacy /\ covered \in 0..legacy
    BY <2>1, <2>3
  <2>6. phase \notin {"check", "store", "date"} /\ at \in Nat /\ failed \in BOOLEAN
       /\ clientOps \in Nat
    BY <2>3
  <2>7. QED
    BY <2>2, <2>4, <2>5, <2>6 DEF Shape
<1>7. FromImport
  BY <1>2, <1>4, <1>5 DEF FromImport, Tagged, Rows
<1>8. RunSoFar /\ ModeFits /\ UnreadFits
  BY DEF Init, RunSoFar, ModeFits, UnreadFits
<1>9. CoveredSoFar
  BY DEF Init, CoveredSoFar, LegacyKept
<1>10. InsertedIsKept
  BY DEF Init, InsertedIsKept
<1>11. MetadataOfItsText
  BY <1>2, <1>4, <1>5 DEF MetadataOfItsText
<1>12. QED
  BY <1>6, <1>7, <1>8, <1>9, <1>10, <1>11 DEF Inv

LEMMA StoreObservationShape ==
  ASSUME Shape, StoreObservation
  PROVE  /\ id' \in 1..Len(memories')
         /\ memories'[id'].doc = Wrapper[at]
         /\ memories'[id'].state = "active"
         /\ \A i \in 1..Len(memories) : memories'[i] = memories[i]
         /\ \/ memories' = memories
            \/ /\ Len(memories') = Len(memories) + 1
               /\ id' = Len(memories) + 1
               /\ memories'[id'].from = at
               /\ memories'[id'].tag = "legacy"
<1>1. at \in Obs
  BY MigrateAssumption DEF Shape, StoreObservation
<1>2. CASE id' \in ActiveRows(Wrapper[at]) /\ UNCHANGED memories
  BY <1>2, Lengths DEF ActiveRows, Rows
<1>3. CASE /\ memories' = Append(memories, NewRow(Wrapper[at], "legacy", at))
           /\ id' = Len(memories) + 1
  <2> DEFINE r == NewRow(Wrapper[at], "legacy", at)
  <2>1. /\ r \in Row /\ r.doc = Wrapper[at] /\ r.from = at /\ r.tag = "legacy"
        /\ r.state = "active"
    BY <1>1, NewRowIsRow, MigrateAssumption DEF Tags
  <2> HIDE DEF r
  <2>2. /\ Len(memories') = Len(memories) + 1
        /\ memories'[Len(memories) + 1] = r
        /\ \A i \in 1..Len(memories) : memories'[i] = memories[i]
    BY <1>3, <2>1, AppendEvolves DEF ImportTags, r
  <2>3. id' = Len(memories) + 1 /\ Len(memories) \in Nat
    BY <1>3, Lengths
  <2>4. id' \in 1..Len(memories') /\ memories'[id'] = r
    BY <2>2, <2>3
  <2>5. QED
    BY <2>1, <2>2, <2>3, <2>4
<1>4. QED
  BY <1>2, <1>3 DEF StoreObservation

LEMMA StepShape ==
  ASSUME Shape, Next
  PROVE  Shape'
<1>1. Evolves
  BY StepEvolves
<1>2. memories' \in Seq(Row)
  BY <1>1 DEF Evolves
<1>3. Len(memories') \in Nat
  BY <1>2, LenProperties
<1>4. \A i \in 1..Len(memories) :
        i \in 1..Len(memories') /\ memories'[i].doc = memories[i].doc
  BY <1>1, <1>3, Lengths DEF Evolves
<1> USE DEF Shape
<1>5. CASE \E m \in Modes : Start(m)
  BY <1>5 DEF Start, Goto, data, cursor, flaws, history
<1>6. CASE RunRestoreMatched
  <2>1. failed' \in BOOLEAN /\ phase' \in {"stopped", "retag"}
    BY <1>6 DEF RunRestoreMatched, Goto
  <2>2. UNCHANGED <<legacy, clientOps, at, last, covered, inserted>>
    BY <1>6 DEF RunRestoreMatched, cursor, flaws, history
  <2>3. QED
    BY <1>2, <2>1, <2>2
<1>7. CASE RunRetagBornInHSME
  <2>1. failed' \in BOOLEAN /\ phase' = "cleanup"
    BY <1>7 DEF RunRetagBornInHSME, Goto
  <2>2. UNCHANGED <<legacy, clientOps, at, last, covered, inserted>>
    BY <1>7 DEF RunRetagBornInHSME, cursor, flaws, history
  <2>3. QED
    BY <1>2, <2>1, <2>2
<1>8. CASE RunDeleteGarbage
  <2>1. phase' = "snapshot"
        /\ UNCHANGED <<legacy, clientOps, at, last, failed, covered, inserted>>
    BY <1>8 DEF RunDeleteGarbage, Goto, cursor, flaws, history
  <2>2. QED
    BY <1>2, <2>1
<1>9. CASE ReadBaseline \/ RunSnapshotLegacy \/ PhaseFails
  BY <1>9 DEF ReadBaseline, RunSnapshotLegacy, PhaseFails, Goto, data, cursor, flaws, history
<1>10. CASE QueryObservations
  BY <1>10, MigrateAssumption DEF QueryObservations, Goto, data, flaws, history
<1>11. CASE CheckObservation
  <2>1. /\ phase = "check" /\ at <= last
        /\ \/ phase' = "check" /\ at' = at + 1
           \/ phase' = "store" /\ at' = at
        /\ UNCHANGED <<memories, legacy, clientOps, last, failed, covered, inserted>>
    BY <1>11 DEF CheckObservation, Goto, data, flaws, history
  <2>2. QED
    BY <2>1, MigrateAssumption
<1>12. CASE StoreObservation
  <2>1. /\ phase = "store" /\ phase' = "date"
        /\ UNCHANGED <<legacy, clientOps, at, last, failed, covered>>
        /\ inserted' \in {inserted, [inserted EXCEPT ![at] = @ + 1]}
    BY <1>12 DEF StoreObservation, Goto, flaws
  <2>2. at \in Obs
    BY <2>1, MigrateAssumption
  <2>3. inserted' \in [Obs -> Nat]
    BY <2>1, <2>2
  <2>4. QED
    BY <1>2, <1>12, <2>1, <2>3, StoreObservationShape
<1>13. CASE DateObservation
  <2>1. /\ phase = "date" /\ phase' = "check" /\ at' = at + 1
        /\ UNCHANGED <<legacy, clientOps, last, failed, covered, inserted>>
    BY <1>13 DEF DateObservation, Goto, flaws, history
  <2>2. QED
    BY <1>2, <2>1, MigrateAssumption
<1>14. CASE ObservationFails
  <2>1. /\ phase \in {"check", "store", "date"} /\ phase' = "check" /\ at' = at + 1
        /\ at <= last
        /\ UNCHANGED <<memories, legacy, clientOps, last, covered, inserted>>
    BY <1>14 DEF ObservationFails, Goto, data
  <2>2. failed' \in BOOLEAN
    BY <1>14 DEF ObservationFails
  <2>3. QED
    BY <2>1, <2>2, MigrateAssumption
<1>15. CASE LoopEnds
  <2>1. /\ phase' = "completed" /\ covered' \in {last, covered}
        /\ UNCHANGED <<memories, legacy, clientOps, at, last, inserted>>
    BY <1>15 DEF LoopEnds, Goto, data, cursor
  <2>2. failed' \in BOOLEAN
    BY <1>15 DEF LoopEnds
  <2>3. QED
    BY <2>1, <2>2
<1>16. CASE SaveReport \/ Crash
  <2>1. /\ phase' = "idle" /\ at' = 0 /\ last' = 0 /\ failed' = FALSE
        /\ UNCHANGED <<memories, legacy, clientOps, covered, inserted>>
    BY <1>16 DEF SaveReport, Crash, Exit, Goto, data, flaws, history
  <2>2. 0 \in 0..legacy
    BY MigrateAssumption
  <2>3. phase' \notin {"check", "store", "date"} /\ failed' \in BOOLEAN
    BY <2>1
  <2>4. QED
    BY <2>1, <2>2, <2>3
<1>17. CASE LegacyGrows
  <2>1. /\ legacy' = legacy + 1 /\ legacy < NObs
        /\ UNCHANGED <<memories, clientOps, at, last, id, phase, failed, covered, inserted>>
    BY <1>17 DEF LegacyGrows, cursor, flaws, history
  <2>2. QED
    BY <2>1, MigrateAssumption
<1>18. CASE \E doc \in ClientDocs, i \in 0..Len(memories) : ClientStores(doc, i)
  <2>1. /\ UNCHANGED <<legacy, at, last, id, phase, failed, covered, inserted>>
        /\ clientOps' = clientOps + 1
    BY <1>18 DEF ClientStores, cursor, flaws, history
  <2>2. QED
    BY <1>2, <1>4, <2>1
<1>19. CASE CheckFails
  <2>1. /\ phase = "check" /\ at <= last
        /\ \/ phase' = "check" /\ at' = at + 1
           \/ phase' = "store" /\ at' = at
        /\ UNCHANGED <<memories, legacy, clientOps, last, covered, inserted>>
    BY <1>19 DEF CheckFails, Goto, data, flaws, history
  <2>2. failed' \in BOOLEAN
    BY <1>19 DEF CheckFails
  <2>3. QED
    BY <2>1, <2>2, MigrateAssumption
<1>20. QED
  BY <1>5, <1>6, <1>7, <1>8, <1>9, <1>10, <1>11, <1>12, <1>13, <1>14, <1>15, <1>16,
     <1>17, <1>18, <1>19 DEF Next, Migrator

(***************************************************************************)
(* The metadata.                                                           *)
(***************************************************************************)
(* What MetadataOfItsText says of row i of table m.                        *)
RightMetadata(r, excused) ==
  r.from # 0 => /\ r.doc = Wrapper[r.from] \/ Text[r.doc] = ObsText[r.from]
                /\ r.date = r.from \/ excused

Excused(i) == i \in undated \/ (phase = "date" /\ i = id)

LEMMA MetadataByRow ==
  ASSUME Shape
  PROVE  MetadataOfItsText <=>
           \A i \in 1..Len(memories) : RightMetadata(memories[i], Excused(i))
  BY Lengths DEF MetadataOfItsText, RightMetadata, Excused

LEMMA RestoreMetadata ==
  ASSUME Shape, MetadataOfItsText, RunRestoreMatched
  PROVE  /\ Len(memories') = Len(memories)
         /\ \A i \in 1..Len(memories) : RightMetadata(memories'[i], Excused(i)')
<1>1. PICK n \in 0..legacy : \E done \in SUBSET Matched(n) :
        /\ memories' = Updated([i \in done |-> Restored(n, memories[i])])
        /\ \A i \in done :
             /\ Restored(n, memories[i]) \in Row
             /\ Restored(n, memories[i]).doc = memories[i].doc
             /\ Restored(n, memories[i]).date = Restored(n, memories[i]).from
             /\ Text[memories[i].doc] = ObsText[Restored(n, memories[i]).from]
  BY RestoreWrites
<1>2. PICK done \in SUBSET Matched(n) :
        /\ memories' = Updated([i \in done |-> Restored(n, memories[i])])
        /\ \A i \in done :
             /\ Restored(n, memories[i]) \in Row
             /\ Restored(n, memories[i]).doc = memories[i].doc
             /\ Restored(n, memories[i]).date = Restored(n, memories[i]).from
             /\ Text[memories[i].doc] = ObsText[Restored(n, memories[i]).from]
  BY <1>1
<1> DEFINE new == [i \in done |-> Restored(n, memories[i])]
<1>3. DOMAIN new = done
  OBVIOUS
<1>4. \A i \in done :
        /\ new[i] \in Row /\ new[i].doc = memories[i].doc /\ new[i].date = new[i].from
        /\ Text[memories[i].doc] = ObsText[new[i].from]
  BY <1>2
<1>5. memories' = Updated(new)
  BY <1>2
<1>6. \A i \in 1..Len(memories) : Excused(i)' = Excused(i)
  BY DEF RunRestoreMatched, Goto, Excused, history, cursor
<1> HIDE DEF new
<1>7. memories' \in [1..Len(memories) -> Row]
  BY <1>3, <1>4, <1>5, Lengths DEF Updated
<1>8. Len(memories') = Len(memories)
  BY <1>7, Lengths, FunctionIsSequence
<1>9. \A i \in 1..Len(memories) :
        memories'[i] = memories[i] \/ (i \in done /\ memories'[i] = new[i])
  BY <1>3, <1>5, Lengths DEF Updated
<1>10. \A i \in done : \A excused : RightMetadata(new[i], excused)
  BY <1>4 DEF RightMetadata
<1>11. QED
  BY <1>6, <1>8, <1>9, <1>10, MetadataByRow

LEMMA MetadataByRowAfter ==
  ASSUME Shape', \A i \in 1..Len(memories') : RightMetadata(memories'[i], Excused(i)')
  PROVE  MetadataOfItsText'
<1>1. DOMAIN memories' = 1..Len(memories')
  BY LenProperties DEF Shape
<1>2. QED
  BY <1>1 DEF MetadataOfItsText, RightMetadata, Excused

(* Steps that touch neither text nor metadata of a row.                    *)
LEMMA SameMetadata ==
  ASSUME Shape, Shape', MetadataOfItsText, Len(memories) <= Len(memories'),
         \A i \in 1..Len(memories) :
           /\ memories'[i].doc = memories[i].doc
           /\ memories'[i].from = memories[i].from
           /\ memories'[i].date = memories[i].date
           /\ Excused(i) => Excused(i)',
         \A i \in Len(memories) + 1..Len(memories') : memories'[i].from = 0
  PROVE  MetadataOfItsText'
<1>1. Len(memories) \in Nat /\ Len(memories') \in Nat
  BY LenProperties DEF Shape
<1>2. \A i \in 1..Len(memories) : RightMetadata(memories'[i], Excused(i)')
  BY MetadataByRow DEF RightMetadata
<1>3. \A i \in Len(memories) + 1..Len(memories') : RightMetadata(memories'[i], Excused(i)')
  BY DEF RightMetadata
<1>4. \A i \in 1..Len(memories') : RightMetadata(memories'[i], Excused(i)')
  BY <1>1, <1>2, <1>3
<1>5. QED
  BY <1>4, MetadataByRowAfter

LEMMA StepMetadata ==
  ASSUME Shape, MetadataOfItsText, Next
  PROVE  MetadataOfItsText'
<1>1. Shape'
  BY StepShape
<1>2. Len(memories) \in Nat /\ \A i \in 1..Len(memories) : memories[i] \in Row
  BY Lengths
<1>3. CASE RunRestoreMatched
  BY <1>1, <1>3, RestoreMetadata, MetadataByRowAfter
<1>4. CASE RunRetagBornInHSME
  <2>1. PICK done \in SUBSET Parsed :
          /\ memories' = Updated([i \in done |-> Retagged(memories[i])])
          /\ \A i \in done :
               /\ Retagged(memories[i]) \in Row
               /\ Retagged(memories[i]).doc = memories[i].doc
               /\ Retagged(memories[i]).from = memories[i].from
               /\ Retagged(memories[i]).date = memories[i].date
    BY <1>4, RetagWrites
  <2> DEFINE new == [i \in done |-> Retagged(memories[i])]
  <2>2. DOMAIN new = done
    OBVIOUS
  <2>3. \A i \in done :
          /\ new[i] \in Row /\ new[i].doc = memories[i].doc
          /\ new[i].from = memories[i].from /\ new[i].date = memories[i].date
    BY <2>1
  <2>4. memories' = Updated(new)
    BY <2>1
  <2>5. \A i \in 1..Len(memories) : Excused(i)' = Excused(i)
    BY <1>4 DEF RunRetagBornInHSME, Goto, Excused, history, cursor
  <2> HIDE DEF new
  <2>6. memories' \in [1..Len(memories) -> Row]
    BY <1>2, <2>2, <2>3, <2>4, Lengths DEF Updated
  <2>7. Len(memories') = Len(memories)
    BY <1>2, <2>6, FunctionIsSequence
  <2>8. \A i \in 1..Len(memories) :
          /\ memories'[i].doc = memories[i].doc
          /\ memories'[i].from = memories[i].from
          /\ memories'[i].date = memories[i].date
    BY <2>2, <2>3, <2>4, Lengths DEF Updated
  <2>9. QED
    BY <1>1, <1>2, <2>5, <2>7, <2>8, SameMetadata
<1>5. CASE RunDeleteGarbage
  <2> DEFINE f == [i \in DOMAIN memories |->
                     IF i \in GarbageRows THEN [memories[i] EXCEPT !.state = "deleted"]
                     ELSE memories[i]]
  <2>1. memories' \in {memories, f}
    BY <1>5 DEF RunDeleteGarbage
  <2>2. f \in [1..Len(memories) -> Row]
    BY <1>2, Lengths DEF Row
  <2>3. \A i \in 1..Len(memories) :
          f[i].doc = memories[i].doc /\ f[i].from = memories[i].from
          /\ f[i].date = memories[i].date
    BY <1>2, Lengths DEF Row
  <2>4. \A i \in 1..Len(memories) : Excused(i)' = Excused(i)
    BY <1>5 DEF RunDeleteGarbage, Goto, Excused, history, cursor
  <2> HIDE DEF f
  <2>5. Len(memories') = Len(memories)
    BY <1>2, <2>1, <2>2, FunctionIsSequence
  <2>6. QED
    BY <1>1, <1>2, <2>1, <2>3, <2>4, <2>5, SameMetadata
<1>6. CASE StoreObservation
  <2>1. /\ phase = "store" /\ phase' = "date" /\ UNCHANGED undated
    BY <1>6 DEF StoreObservation, Goto
  <2>2. at # 0
    BY <2>1, MigrateAssumption DEF Shape
  <2>3. \A i \in 1..Len(memories) : RightMetadata(memories'[i], Excused(i)')
    BY <1>6, <2>1, StoreObservationShape, MetadataByRow DEF RightMetadata, Excused
  <2>4. CASE memories' = memories
    BY <1>1, <2>3, <2>4, MetadataByRowAfter
  <2>5. CASE Len(memories') = Len(memories) + 1 /\ id' = Len(memories) + 1
             /\ memories'[id'].from = at
    <3>1. \A i : i = id' => Excused(i)'
      BY <2>1 DEF Excused
    <3>2. \A i : i = id' => RightMetadata(memories'[i], Excused(i)')
      BY <1>6, <2>5, <3>1, StoreObservationShape DEF RightMetadata
    <3>3. \A i \in 1..Len(memories') : RightMetadata(memories'[i], Excused(i)')
      BY <1>2, <2>3, <2>5, <3>2
    <3>4. QED
      BY <1>1, <3>3, MetadataByRowAfter
  <2>6. QED
    BY <1>6, <2>4, <2>5, StoreObservationShape
<1>7. CASE DateObservation
  <2>1. /\ phase = "date" /\ phase' = "check" /\ UNCHANGED <<id, undated>>
        /\ memories' = [memories EXCEPT ![id] = Dated(@, at)]
    BY <1>7 DEF DateObservation, Goto, history, Dated
  <2>2. at \in Obs /\ id \in 1..Len(memories) /\ memories[id].doc = Wrapper[at]
    BY <2>1, MigrateAssumption DEF Shape
  <2>3. \A i : i = id => RightMetadata(memories'[i], Excused(i)')
    BY <1>2, <2>1, <2>2, Lengths, DatedRow DEF RightMetadata
  <2>4. \A i \in 1..Len(memories) : i # id => RightMetadata(memories'[i], Excused(i)')
    BY <2>1, Lengths, MetadataByRow DEF RightMetadata, Excused
  <2>5. memories' \in [1..Len(memories) -> Row]
    BY <1>2, <2>1, <2>2, Lengths, DatedRow
  <2>6. Len(memories') = Len(memories)
    BY <1>2, <2>5, FunctionIsSequence
  <2>7. QED
    BY <1>1, <2>3, <2>4, <2>6, MetadataByRowAfter
<1>8. ASSUME NEW doc \in ClientDocs, NEW n \in 0..Len(memories), ClientStores(doc, n)
      PROVE  MetadataOfItsText'
  <2> DEFINE f == [j \in DOMAIN memories |->
                     IF j = n THEN [memories[j] EXCEPT !.state = "superseded"]
                     ELSE memories[j]]
             r == NewRow(doc, "client", 0)
  <2>1. memories' = Append(f, r)
    BY <1>8 DEF ClientStores
  <2>2. f \in [1..Len(memories) -> Row]
    BY <1>2, Lengths DEF Row
  <2>3. f \in Seq(Row) /\ Len(f) = Len(memories)
    BY <1>2, <2>2, FunctionIsSequence
  <2>4. r \in Row /\ r.from = 0
    BY MigrateAssumption, NewRowIsRow DEF Tags
  <2>5. \A j \in 1..Len(memories) :
          f[j].doc = memories[j].doc /\ f[j].from = memories[j].from
          /\ f[j].date = memories[j].date
    BY <1>2, Lengths DEF Row
  <2> HIDE DEF f, r
  <2>6. /\ Len(memories') = Len(memories) + 1 /\ memories'[Len(memories) + 1] = r
        /\ \A j \in 1..Len(memories) : memories'[j] = f[j]
    BY <2>1, <2>3, <2>4, AppendProperties
  <2>7. \A i \in 1..Len(memories) : Excused(i)' = Excused(i)
    BY <1>8 DEF ClientStores, Excused, history, cursor
  <2>8. \A i \in Len(memories) + 1..Len(memories') : memories'[i].from = 0
    BY <1>2, <2>4, <2>6
  <2>9. QED
    BY <1>1, <1>2, <2>5, <2>6, <2>7, <2>8, SameMetadata
<1>9. CASE UNCHANGED memories /\ \A i \in 1..Len(memories) : Excused(i) => Excused(i)'
  BY <1>1, <1>2, <1>9, SameMetadata
<1>10. CASE ObservationFails \/ Crash
  BY <1>9, <1>10 DEF ObservationFails, Crash, Exit, Excused, data
<1>11. CASE \/ \E m \in Modes : Start(m)
            \/ ReadBaseline \/ RunSnapshotLegacy \/ QueryObservations \/ CheckObservation
            \/ CheckFails \/ LoopEnds \/ PhaseFails \/ SaveReport \/ LegacyGrows
  BY <1>9, <1>11 DEF Start, ReadBaseline, RunSnapshotLegacy, QueryObservations,
     CheckObservation, CheckFails, LoopEnds, PhaseFails, SaveReport, LegacyGrows, Exit,
     Goto, Excused, data, cursor, history
<1>12. QED
  BY <1>3, <1>4, <1>5, <1>6, <1>7, <1>8, <1>10, <1>11 DEF Next, Migrator

(***************************************************************************)
(* What the migrator has inserted.                                         *)
(***************************************************************************)
LEMMA KeptIsStored ==
  ASSUME Shape, NEW o, Kept(o)
  PROVE  Stored(o)
  BY Lengths DEF Kept, Stored, Rows

LEMMA StepInserted ==
  ASSUME Shape, InsertedIsKept, Next
  PROVE  InsertedIsKept'
<1>1. \A o : Kept(o) => Kept(o)'
  BY StepEvolves, KeptStays
<1>2. CASE StoreObservation
  <2>1. phase = "store" /\ phase' = "date" /\ at \in Obs
    BY <1>2, MigrateAssumption DEF StoreObservation, Goto, Shape
  <2>2. CASE UNCHANGED inserted
    BY <1>1, <2>1, <2>2 DEF InsertedIsKept
  <2>3. CASE /\ memories' = Append(memories, NewRow(Wrapper[at], "legacy", at))
             /\ inserted' = [inserted EXCEPT ![at] = @ + 1]
    <3>2. \A o \in Obs : o # at => inserted'[o] = inserted[o]
      BY <2>1, <2>3 DEF Shape
    <3>3. Len(memories') = Len(memories) + 1 /\ id' = Len(memories) + 1
          /\ memories'[id'].tag = "legacy"
      <4> DEFINE r == NewRow(Wrapper[at], "legacy", at)
      <4>a. r \in Row /\ r.tag = "legacy" /\ r.state = "active"
        BY <2>1, NewRowIsRow, MigrateAssumption DEF Tags
      <4>b. memories' = Append(memories, r)
        BY <2>3
      <4> HIDE DEF r
      <4>c. Len(memories') = Len(memories) + 1
        BY <4>a, <4>b, AppendEvolves DEF ImportTags
      <4>1. memories' # memories
        BY <4>c, Lengths
      <4>2. QED
        BY <1>2, <4>1, StoreObservationShape
    <3>4. Kept(at)'
      <4>1. UNCHANGED at
        BY <1>2 DEF StoreObservation
      <4>2. id' \in 1..Len(memories') /\ memories'[id'].doc = Wrapper[at]
            /\ memories'[id'].state = "active"
        BY <1>2, StoreObservationShape
      <4>3. QED
        BY <3>3, <4>1, <4>2 DEF Kept, ImportTags
    <3>5. UNCHANGED at
      BY <1>2 DEF StoreObservation
    <3>6. QED
      BY <1>1, <2>1, <3>2, <3>4, <3>5 DEF InsertedIsKept, Kept
  <2>4. QED
    BY <1>2, <2>2, <2>3 DEF StoreObservation
<1>3. CASE CheckObservation
  <2>1. /\ UNCHANGED inserted
        /\ phase' = "store" => ~Stored(at) /\ at' = at
        /\ at \in Obs
    BY <1>3, MigrateAssumption DEF CheckObservation, Goto, Skipped, history, Shape
  <2>2. phase' = "store" => inserted[at] = 0
    BY <2>1, KeptIsStored DEF InsertedIsKept
  <2>3. QED
    BY <1>1, <2>1, <2>2 DEF InsertedIsKept
<1>4. CASE /\ UNCHANGED inserted
           /\ phase' = "store" => unread' \/ (phase = "store" /\ UNCHANGED <<at, unread>>)
  BY <1>1, <1>4 DEF InsertedIsKept
<1>5. CASE LegacyGrows \/ \E doc \in ClientDocs, i \in 0..Len(memories) : ClientStores(doc, i)
  BY <1>4, <1>5 DEF LegacyGrows, ClientStores, cursor, flaws, history
<1>6. CASE \/ \E m \in Modes : Start(m)
           \/ RunRestoreMatched \/ RunRetagBornInHSME \/ RunDeleteGarbage
           \/ ReadBaseline \/ RunSnapshotLegacy \/ QueryObservations
           \/ DateObservation \/ ObservationFails \/ LoopEnds \/ PhaseFails
  <2>1. UNCHANGED inserted /\ phase' # "store"
    BY <1>6 DEF Start, RunRestoreMatched, RunRetagBornInHSME, RunDeleteGarbage,
       ReadBaseline, RunSnapshotLegacy, QueryObservations, DateObservation,
       ObservationFails, LoopEnds, PhaseFails, Goto, history
  <2>2. QED
    BY <1>4, <2>1
<1>7. CASE SaveReport \/ Crash
  BY <1>4, <1>7 DEF SaveReport, Crash, Exit, Goto, history
<1>8. CASE CheckFails
  BY <1>4, <1>8 DEF CheckFails, Goto, history
<1>9. QED
  BY <1>2, <1>3, <1>5, <1>6, <1>7, <1>8 DEF Next, Migrator

(***************************************************************************)
(* The modes and the full run.                                             *)
(***************************************************************************)
LEMMA StepMode ==
  ASSUME Shape, ModeFits, CoveredSoFar, Next
  PROVE  ModeFits'
<1>1. CASE \E m \in Modes : Start(m)
  BY <1>1 DEF Start, Goto, ModeFits
<1>2. CASE CheckObservation
  <2>1. /\ phase = "check" /\ UNCHANGED <<mode, covered>>
        /\ phase' = "check" \/ (phase' = "store" /\ at' = at /\ ~Skipped(at))
    BY <1>2 DEF CheckObservation, Goto, report, history
  <2>2. at \in 1..last + 1 /\ last \in Nat /\ covered \in Nat
    BY <2>1, MigrateAssumption DEF Shape
  <2>3. ~Skipped(at) => mode # "dry-run" /\ at > covered
    BY <2>2 DEF Skipped, CoveredSoFar, LegacyKept
  <2>4. QED
    BY <2>1, <2>3 DEF ModeFits
<1>3. CASE StoreObservation
  BY <1>3 DEF StoreObservation, Goto, ModeFits, report, flaws
<1>4. CASE \/ RunRestoreMatched \/ RunRetagBornInHSME \/ RunDeleteGarbage
           \/ ReadBaseline \/ RunSnapshotLegacy \/ QueryObservations
           \/ DateObservation \/ ObservationFails \/ LoopEnds \/ PhaseFails
  BY <1>4 DEF RunRestoreMatched, RunRetagBornInHSME, RunDeleteGarbage,
     ReadBaseline, RunSnapshotLegacy, QueryObservations, DateObservation,
     ObservationFails, LoopEnds, PhaseFails, Goto, ModeFits, report
<1>5. CASE SaveReport \/ Crash
  BY <1>5 DEF SaveReport, Crash, Exit, Goto, ModeFits
<1>6. CASE LegacyGrows \/ \E doc \in ClientDocs, i \in 0..Len(memories) : ClientStores(doc, i)
  BY <1>6 DEF LegacyGrows, ClientStores, ModeFits, report, cursor, flaws, history
<1>7. CASE CheckFails
  BY <1>7 DEF CheckFails, Goto, ModeFits, report
<1>8. QED
  BY <1>1, <1>2, <1>3, <1>4, <1>5, <1>6, <1>7 DEF Next, Migrator

LEMMA StepUnread ==
  ASSUME UnreadFits, Next
  PROVE  UnreadFits'
<1>1. CASE CheckFails
  BY <1>1 DEF CheckFails, Goto, UnreadFits
<1>2. CASE DateObservation \/ ObservationFails \/ SaveReport \/ Crash
  BY <1>2 DEF DateObservation, ObservationFails, SaveReport, Crash, Exit, UnreadFits
<1>3. CASE StoreObservation
  BY <1>3 DEF StoreObservation, Goto, UnreadFits
<1>4. CASE UNCHANGED unread /\ (phase' = phase \/ phase \notin {"store", "date"})
  BY <1>4 DEF UnreadFits
<1>5. CASE \/ \E m \in Modes : Start(m)
           \/ RunRestoreMatched \/ RunRetagBornInHSME \/ RunDeleteGarbage
           \/ ReadBaseline \/ RunSnapshotLegacy \/ QueryObservations
           \/ CheckObservation \/ LoopEnds \/ PhaseFails
  BY <1>4, <1>5 DEF Start, RunRestoreMatched, RunRetagBornInHSME, RunDeleteGarbage,
     ReadBaseline, RunSnapshotLegacy, QueryObservations, CheckObservation, LoopEnds,
     PhaseFails, flaws
<1>6. CASE LegacyGrows \/ \E doc \in ClientDocs, i \in 0..Len(memories) : ClientStores(doc, i)
  BY <1>4, <1>6 DEF LegacyGrows, ClientStores, flaws
<1>7. QED
  BY <1>1, <1>2, <1>3, <1>5, <1>6 DEF Next, Migrator

(* What the three phases before the ingestion do when nothing fails.       *)
LEMMA RestoreMatchesAll ==
  ASSUME Shape, FromImport, mode # "dry-run", RunRestoreMatched, ~failed'
  PROVE  NoMatched'
<1> DEFINE new == [i \in Matched(legacy) |-> Restored(legacy, memories[i])]
<1>1. /\ memories' = Updated(new)
      /\ \A i \in Matched(legacy) : i \in 1..Len(memories) /\ new[i].tag = "legacy"
  BY RestoreWrites
<1>2. \A i \in Matched(legacy) : memories'[i].tag = "legacy"
  <2>1. DOMAIN new = Matched(legacy)
    OBVIOUS
  <2> HIDE DEF new
  <2>2. QED
    BY <1>1, <2>1, Lengths DEF Updated
<1>3. SUFFICES ASSUME NEW i \in Tagged("engram_migration")', NEW o \in Obs,
                      ObsText[o] = Text[memories'[i].doc]
               PROVE  FALSE
  BY DEF NoMatched
<1>4. i \in Tagged("engram_migration") /\ memories'[i].doc = memories[i].doc
  BY RestoreEvolves, TagsOnlyGo DEF ImportTags
<1>5. PICK j \in DOMAIN Imported : Imported[j].doc = memories[i].doc
  BY <1>4 DEF FromImport
<1>6. PICK p \in 1..AtStart : ObsText[p] = ObsText[o]
  <2>1. Text[Imported[j].doc] = ObsText[o]
    BY <1>3, <1>4, <1>5
  <2>2. Text[Imported[j].doc] = ObsText[o] => \E p \in 1..AtStart : ObsText[p] = ObsText[o]
    BY MigrateAssumption
  <2>3. QED
    BY <2>1, <2>2
<1>7. p \in Sources(legacy, Text[memories[i].doc])
  BY <1>3, <1>4, <1>6, MigrateAssumption DEF Sources, Shape
<1>8. i \in Matched(legacy)
  BY <1>4, <1>7 DEF Matched
<1>9. memories'[i].tag = "engram_migration"
  BY <1>3 DEF Tagged
<1>10. QED
  BY <1>2, <1>8, <1>9

LEMMA RetagsAll ==
  ASSUME Shape, mode # "dry-run", RunRetagBornInHSME, ~failed'
  PROVE  NoSession'
<1> DEFINE new == [i \in Parsed |-> Retagged(memories[i])]
<1>1. /\ memories' = Updated(new)
      /\ \A i \in Parsed : i \in 1..Len(memories) /\ new[i].tag = "session_summary"
  BY RetagWrites
<1>2. \A i \in Parsed : memories'[i].tag = "session_summary"
  <2>1. DOMAIN new = Parsed
    OBVIOUS
  <2> HIDE DEF new
  <2>2. QED
    BY <1>1, <2>1, Lengths DEF Updated
<1>3. SUFFICES ASSUME NEW i \in Tagged("engram_session_migration")',
                      Text[memories'[i].doc] # NoText
               PROVE  FALSE
  BY DEF NoSession
<1>4. i \in Tagged("engram_session_migration") /\ memories'[i].doc = memories[i].doc
  BY RetagEvolves, TagsOnlyGo DEF ImportTags
<1>5. i \in Parsed
  BY <1>3, <1>4 DEF Parsed
<1>6. memories'[i].tag = "engram_session_migration"
  BY <1>3 DEF Tagged
<1>7. QED
  BY <1>2, <1>5, <1>6

LEMMA DeletesAll ==
  ASSUME Shape, mode # "dry-run", RunDeleteGarbage
  PROVE  NoGarbage'
<1>1. memories' = [i \in DOMAIN memories |->
                     IF i \in GarbageRows THEN [memories[i] EXCEPT !.state = "deleted"]
                     ELSE memories[i]]
  BY DEF RunDeleteGarbage
<1>2. SUFFICES ASSUME NEW i \in GarbageRows' PROVE FALSE
  BY DEF NoGarbage
<1>3. /\ i \in Tagged("engram_migration")' /\ memories'[i].doc \in Garbage
      /\ memories'[i].state # "deleted"
  BY <1>2 DEF GarbageRows, Tagged, Rows
<1>4. i \in Tagged("engram_migration") /\ memories'[i].doc = memories[i].doc
  BY <1>3, DeleteEvolves, TagsOnlyGo DEF ImportTags
<1>5. i \in GarbageRows /\ i \in 1..Len(memories)
  BY <1>3, <1>4, Lengths DEF GarbageRows, Tagged, Rows
<1>6. memories'[i].state = "deleted"
  BY <1>1, <1>5, Lengths DEF Row
<1>7. QED
  BY <1>3, <1>6

LEMMA StepRun ==
  ASSUME Shape, FromImport, ModeFits, RunSoFar, Next
  PROVE  RunSoFar'
<1>1. Evolves
  BY StepEvolves
<1>2. SUFFICES ASSUME mode' = "full", ~failed'
               PROVE  /\ phase' \in AfterRestore => NoMatched'
                      /\ phase' \in AfterRetag => NoSession'
                      /\ phase' \in AfterCleanup => NoGarbage'
                      /\ phase' \in AfterQuery =>
                           \A o \in 1..at' - 1 : o <= last' => Stored(o)'
                      /\ phase' = "date" => \A o : o = at' => Stored(o)'
                      /\ phase' = "completed" => at' > last'
  BY DEF RunSoFar, AfterRestore, AfterRetag, AfterCleanup, AfterQuery, AfterIngest,
         Stored, Rows
<1>3. /\ NoMatched => NoMatched'
      /\ NoSession => NoSession'
      /\ NoGarbage => NoGarbage' /\ \A o : Stored(o) => Stored(o)'
  BY <1>1, CleanStays, StoredStays
<1> USE DEF AfterRestore, AfterRetag, AfterCleanup, AfterQuery, AfterIngest
<1>4. CASE \E m \in Modes : Start(m)
  BY <1>4 DEF Start, Goto
<1>5. CASE RunRestoreMatched
  <2>1. phase' \in {"stopped", "retag"} /\ mode = "full"
    BY <1>2, <1>5 DEF RunRestoreMatched, Goto, report
  <2>2. NoMatched'
    BY <1>2, <1>5, <2>1, RestoreMatchesAll
  <2>3. QED
    BY <2>1, <2>2
<1>6. CASE RunRetagBornInHSME
  <2>1. phase = "retag" /\ phase' = "cleanup" /\ mode = "full" /\ ~failed
    BY <1>2, <1>6 DEF RunRetagBornInHSME, Goto, report
  <2>2. NoMatched' /\ NoSession'
    BY <1>2, <1>3, <1>6, <2>1, RetagsAll DEF RunSoFar
  <2>3. QED
    BY <2>1, <2>2
<1>7. CASE RunDeleteGarbage
  <2>1. phase = "cleanup" /\ phase' = "snapshot" /\ mode = "full" /\ ~failed
    BY <1>2, <1>7 DEF RunDeleteGarbage, Goto, report, flaws
  <2>2. NoMatched' /\ NoSession' /\ NoGarbage'
    BY <1>3, <1>7, <2>1, DeletesAll DEF RunSoFar
  <2>3. QED
    BY <2>1, <2>2
<1>8. CASE ReadBaseline
  BY <1>2, <1>8 DEF ReadBaseline, ModeFits
<1>9. CASE RunSnapshotLegacy
  <2>1. phase = "snapshot" /\ phase' = "query" /\ mode = "full" /\ ~failed
    BY <1>2, <1>9 DEF RunSnapshotLegacy, Goto, flaws
  <2>2. QED
    BY <1>3, <2>1 DEF RunSoFar
<1>10. CASE QueryObservations
  <2>1. phase = "query" /\ phase' = "check" /\ mode = "full" /\ ~failed /\ at' = 1
    BY <1>2, <1>10 DEF QueryObservations, Goto, report, flaws
  <2>2. QED
    BY <1>3, <2>1 DEF RunSoFar
<1>11. CASE CheckObservation
  <2>1. /\ phase = "check" /\ mode = "full" /\ ~failed /\ UNCHANGED last
        /\ \/ phase' = "check" /\ at' = at + 1 /\ Skipped(at)
           \/ phase' = "store" /\ at' = at
    BY <1>2, <1>11 DEF CheckObservation, Goto, report, flaws
  <2>2. Skipped(at) => Stored(at)
    BY <2>1 DEF Skipped, TooOld
  <2>3. at \in Nat
    BY DEF Shape
  <2>4. \A o \in 1..at' - 1 : o <= last' => Stored(o)
    BY <2>1, <2>2, <2>3 DEF RunSoFar
  <2>5. QED
    BY <1>3, <2>1, <2>4 DEF RunSoFar
<1>12. CASE StoreObservation
  <2>1. /\ phase = "store" /\ phase' = "date" /\ mode = "full" /\ ~failed
        /\ UNCHANGED <<at, last>>
    BY <1>2, <1>12 DEF StoreObservation, Goto, report, flaws
  <2>2. \A o : o = at => Stored(o)'
    <3>1. DOMAIN memories' = 1..Len(memories')
      BY <1>1, LenProperties DEF Evolves
    <3>2. QED
      BY <1>12, <3>1, StoreObservationShape DEF Stored, Rows
  <2>3. QED
    BY <1>3, <2>1, <2>2 DEF RunSoFar
<1>13. CASE DateObservation
  <2>1. /\ phase = "date" /\ phase' = "check" /\ mode = "full" /\ ~failed
        /\ at' = at + 1 /\ UNCHANGED last
    BY <1>2, <1>13 DEF DateObservation, Goto, report
  <2>2. at \in Nat
    BY DEF Shape
  <2>3. \A o \in 1..at' - 1 : o <= last' => Stored(o)
    BY <2>1, <2>2 DEF RunSoFar
  <2>4. QED
    BY <1>3, <2>1, <2>3 DEF RunSoFar
<1>14. CASE ObservationFails \/ CheckFails
  BY <1>2, <1>14 DEF ObservationFails, CheckFails
<1>15. CASE LoopEnds
  <2>1. /\ phase = "check" /\ phase' = "completed" /\ mode = "full" /\ ~failed
        /\ ~(at <= last) /\ UNCHANGED <<at, last>>
    BY <1>2, <1>15 DEF LoopEnds, Goto, cursor, report
  <2>2. at \in Nat /\ last \in Nat
    BY MigrateAssumption DEF Shape
  <2>3. QED
    BY <1>3, <2>1, <2>2 DEF RunSoFar
<1>16. CASE PhaseFails
  BY <1>16 DEF PhaseFails, Goto
<1>17. CASE SaveReport \/ Crash
  BY <1>17 DEF SaveReport, Crash, Exit, Goto
<1>18. CASE LegacyGrows \/ \E doc \in ClientDocs, i \in 0..Len(memories) : ClientStores(doc, i)
  <2>1. UNCHANGED <<phase, mode, failed, at, last>>
    BY <1>18 DEF LegacyGrows, ClientStores, cursor, report, flaws
  <2>2. QED
    BY <1>2, <1>3, <2>1 DEF RunSoFar
<1>19. QED
  BY <1>4, <1>5, <1>6, <1>7, <1>8, <1>9, <1>10, <1>11, <1>12, <1>13, <1>14, <1>15,
     <1>16, <1>17, <1>18 DEF Next, Migrator

LEMMA StepCovered ==
  ASSUME Shape, RunSoFar, CoveredSoFar, Next
  PROVE  CoveredSoFar'
<1>1. Evolves
  BY StepEvolves
<1>2. /\ NoMatched => NoMatched'
      /\ NoSession => NoSession'
      /\ NoGarbage => NoGarbage' /\ \A o : Stored(o) => Stored(o)'
  BY <1>1, CleanStays, StoredStays
<1>3. covered \in Nat
  BY MigrateAssumption DEF Shape
<1>4. CASE covered' = covered
  <2>1. CASE covered = 0
    BY <1>4, <2>1 DEF CoveredSoFar, LegacyKept
  <2>2. CASE covered # 0
    BY <1>2, <1>4, <2>2 DEF CoveredSoFar, LegacyKept, Stored, Rows
  <2>3. QED
    BY <2>1, <2>2
<1>5. CASE LoopEnds /\ covered' # covered
  <2>1. /\ phase = "check" /\ mode = "full" /\ ~failed /\ ~(at <= last)
        /\ covered' = last /\ UNCHANGED memories
    BY <1>5 DEF LoopEnds, data
  <2>2. NoMatched /\ NoSession /\ NoGarbage /\ \A o \in 1..last : Stored(o)
    <3>1. at \in Nat /\ last \in Nat
      BY MigrateAssumption DEF Shape
    <3>2. \A o \in 1..last : o \in 1..at - 1
      BY <2>1, <3>1
    <3>3. QED
      BY <2>1, <3>2 DEF RunSoFar, AfterRestore, AfterRetag, AfterCleanup, AfterQuery
  <2>3. QED
    BY <1>2, <2>1, <2>2 DEF CoveredSoFar, LegacyKept, Stored, Rows
<1>6. QED
  BY <1>4, <1>5 DEF Next, Migrator, Start, RunRestoreMatched, RunRetagBornInHSME,
     RunDeleteGarbage, ReadBaseline, RunSnapshotLegacy, QueryObservations,
     CheckObservation, CheckFails, StoreObservation, DateObservation, ObservationFails,
     PhaseFails, SaveReport, Crash, LegacyGrows, ClientStores, history

LEMMA InvStep ==
  ASSUME Inv, Next
  PROVE  Inv'
<1>1. FromImport'
  BY StepEvolves, CleanStays DEF Inv
<1>2. QED
  BY <1>1, StepShape, StepMode, StepUnread, StepRun, StepCovered, StepInserted, StepMetadata DEF Inv

LEMMA InvStutter ==
  ASSUME Inv, UNCHANGED vars
  PROVE  Inv'
<1>1. UNCHANGED <<legacy, memories, clientOps, at, last, id, mode, maxCreatedAt, baseline,
                  runs, phase, failed, unread, covered, inserted, undated>>
  BY DEF vars, data, cursor, report, flaws, history
<1>2. Shape' /\ ModeFits' /\ UnreadFits'
  BY <1>1 DEF Inv, Shape, ModeFits, UnreadFits
<1>3. FromImport' /\ (NoMatched => NoMatched') /\ (NoSession => NoSession')
      /\ (NoGarbage => NoGarbage') /\ \A o : Stored(o) => Stored(o)'
  BY <1>1 DEF Inv, FromImport, NoMatched, NoSession, NoGarbage, GarbageRows, Tagged, Rows,
              Stored
<1>4. RunSoFar' /\ CoveredSoFar'
  BY <1>1, <1>3 DEF Inv, RunSoFar, CoveredSoFar, LegacyKept, Stored, Rows
<1>5. InsertedIsKept'
  BY <1>1 DEF Inv, InsertedIsKept, Kept
<1>6. MetadataOfItsText'
  BY <1>1 DEF Inv, MetadataOfItsText
<1>7. QED
  BY <1>2, <1>3, <1>4, <1>5, <1>6 DEF Inv

(* Inv is an inductive invariant of the migration.                         *)
THEOREM InvHolds == Spec => []Inv
<1>1. Inv /\ [Next]_vars => Inv'
  BY InvStep, InvStutter
<1>2. QED
  BY <1>1, InitInv, PTL DEF Spec

-----------------------------------------------------------------------------
LEMMA InsertsAreNew ==
  ASSUME Inv, Next, NEW o \in Obs, inserted'[o] # inserted[o]
  PROVE  inserted[o] = 0 \/ unread
<1>1. CASE StoreObservation
  <2>1. phase = "store" /\ inserted' \in {inserted, [inserted EXCEPT ![at] = @ + 1]}
    BY <1>1 DEF StoreObservation
  <2>2. o = at
    BY <2>1 DEF Inv, Shape
  <2>3. QED
    BY <2>1, <2>2 DEF Inv, InsertedIsKept
<1>2. CASE UNCHANGED inserted
  BY <1>2
<1>3. QED
  BY <1>1, <1>2 DEF Next, Migrator, Start, RunRestoreMatched, RunRetagBornInHSME,
     RunDeleteGarbage, ReadBaseline, RunSnapshotLegacy, QueryObservations,
     CheckObservation, CheckFails, DateObservation, ObservationFails, LoopEnds,
     PhaseFails, SaveReport, Crash, LegacyGrows, ClientStores, history

(* Whatever the runs, their modes, failures, crashes and clients: the      *)
(* migrator inserts an observation again only when its check, which        *)
(* orphans.go makes outside of any transaction, failed with an error.      *)
THEOREM NothingIngestedTwice == Spec => IngestedOnce
<1>1. Inv /\ [Next]_vars =>
        [\A o \in Obs : inserted'[o] # inserted[o] => inserted[o] = 0 \/ unread]_vars
  BY InsertsAreNew
<1>2. QED
  BY <1>1, InvHolds, PTL DEF Spec, IngestedOnce

(* A row with type and project of an observation has its text and, unless  *)
(* a run was cut between StoreContext and its UPDATE, its date.            *)
THEOREM MetadataFits == Spec => []MetadataOfItsText
<1>1. Inv => MetadataOfItsText
  BY DEF Inv
<1>2. QED
  BY <1>1, InvHolds, PTL

(* What a full run without errors has covered is never lost again, not     *)
(* even by the phase that deletes rows by the look of their text.          *)
THEOREM CoveredIsKept == Spec => []LegacyKept
<1>1. Inv => LegacyKept
  BY DEF Inv, CoveredSoFar
<1>2. QED
  BY <1>1, InvHolds, PTL

LEMMA DryRunWritesNothing ==
  ASSUME Inv, Next, mode = "dry-run", clientOps' = clientOps
  PROVE  memories' = memories
<1>1. /\ phase \notin {"store", "date"}
      /\ Shape
  BY DEF Inv, ModeFits
<1>2. memories = [i \in DOMAIN memories |-> memories[i]]
  BY <1>1 DEF Shape
<1>3. CASE RunRestoreMatched \/ RunRetagBornInHSME \/ RunDeleteGarbage
  BY <1>2, <1>3 DEF RunRestoreMatched, RunRetagBornInHSME, RunDeleteGarbage, Updated
<1>4. CASE \E doc \in ClientDocs, i \in 0..Len(memories) : ClientStores(doc, i)
  BY <1>1, <1>4 DEF ClientStores, Shape
<1>5. QED
  BY <1>1, <1>3, <1>4
     DEF Next, Migrator, Start, ReadBaseline, RunSnapshotLegacy, QueryObservations,
         CheckObservation, CheckFails, StoreObservation, DateObservation,
         ObservationFails, LoopEnds, PhaseFails, SaveReport, Crash, LegacyGrows, data

LEMMA NothingLeftToDo ==
  ASSUME Inv, Next, legacy = covered, ~unread, clientOps' = clientOps
  PROVE  memories' = memories
<1>1. Shape /\ covered # 0
  BY MigrateAssumption DEF Inv, Shape
<1>2. NoMatched /\ NoSession /\ NoGarbage
  BY <1>1 DEF Inv, CoveredSoFar
<1>3. memories = [i \in DOMAIN memories |-> memories[i]]
  BY <1>1 DEF Shape
<1>4. CASE RunRestoreMatched
  <2>1. \A n \in 0..legacy : Matched(n) = {}
    BY <1>1, <1>2, MigrateAssumption DEF Matched, NoMatched, Sources, Shape
  <2>2. PICK n \in 0..legacy : \E done \in SUBSET Matched(n) :
          memories' = Updated([i \in done |-> Restored(n, memories[i])])
    BY <1>1, <1>4, RestoreWrites
  <2> DEFINE new == [i \in {} |-> Restored(n, memories[i])]
  <2>3. memories' = Updated(new)
    BY <2>1, <2>2
  <2>4. DOMAIN new = {}
    OBVIOUS
  <2> HIDE DEF new
  <2>5. QED
    BY <1>3, <2>3, <2>4 DEF Updated
<1>5. CASE RunRetagBornInHSME
  <2>1. Parsed = {}
    BY <1>2 DEF Parsed, NoSession
  <2> DEFINE new == [i \in {} |-> Retagged(memories[i])]
  <2>2. memories' = Updated(new)
    BY <1>1, <1>5, <2>1, RetagWrites
  <2>3. DOMAIN new = {}
    OBVIOUS
  <2> HIDE DEF new
  <2>4. QED
    BY <1>3, <2>2, <2>3 DEF Updated
<1>6. CASE RunDeleteGarbage
  BY <1>2, <1>3, <1>6 DEF RunDeleteGarbage, NoGarbage
<1>7. phase \notin {"store", "date"}
  <2>1. phase \in {"store", "date"} => at > covered /\ at \in 1..last /\ last \in 0..legacy
    BY DEF Inv, ModeFits, Shape
  <2>2. legacy \in Nat
    BY <1>1, MigrateAssumption DEF Shape
  <2>3. QED
    BY <2>1, <2>2
<1>8. CASE \E doc \in ClientDocs, i \in 0..Len(memories) : ClientStores(doc, i)
  BY <1>1, <1>8 DEF ClientStores, Shape
<1>9. QED
  BY <1>4, <1>5, <1>6, <1>7, <1>8
     DEF Next, Migrator, Start, ReadBaseline, RunSnapshotLegacy, QueryObservations,
         CheckObservation, CheckFails, StoreObservation, DateObservation,
         ObservationFails, LoopEnds, PhaseFails, SaveReport, Crash, LegacyGrows, data

(* A dry run changes no memory, and neither does any run after a full one  *)
(* in which nothing failed, while the legacy database stays as it was and  *)
(* but for an observation whose check failed with an error.                *)
THEOREM MigrationIsIdempotent == Spec => NothingToRedo
<1>1. Inv /\ [Next]_vars =>
        [(legacy = covered /\ ~unread) \/ mode = "dry-run"
           => clientOps' # clientOps \/ memories' = memories]_vars
  BY DryRunWritesNothing, NothingLeftToDo
<1>2. QED
  BY <1>1, InvHolds, PTL DEF Spec, NothingToRedo
=============================================================================

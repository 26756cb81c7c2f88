---------------------------- MODULE MemoryStore -----------------------------
(***************************************************************************)
(* What store_context promises about the tables memories, memory_chunks    *)
(* and async_tasks: a call that creates a memory does all of its work in   *)
(* one step, and every other call changes nothing (StoreContext,           *)
(* src/core/indexer/ingest.go).  StoreTx shows that the transaction of     *)
(* the code keeps this promise.                                            *)
(***************************************************************************)
EXTENDS Integers, Sequences

CONSTANTS
  Contents,     \* documents a caller may store
  HashOf,       \* ComputeHash of each: two documents that differ only in
                \* their Unicode normal form have the same hash
  Pieces,       \* how many chunks Split makes of each
  MaxMemories   \* bound: rows of memories

ASSUME MemoryStoreAssumption ==
  /\ Contents # {}
  /\ DOMAIN HashOf = Contents
  /\ Pieces \in [Contents -> Nat]
  /\ MaxMemories \in Nat

VARIABLES
  memories,     \* the rows of memories; the id of a row is its position
  chunks,       \* rows of memory_chunks: <<memory_id, chunk_index>>
  tasks         \* rows of async_tasks: <<memory_id, task_type>>

storeVars == <<memories, chunks, tasks>>

Hashes    == {HashOf[d] : d \in Contents}
TaskTypes == {"embed", "graph_extract"}
Memory    == [hash : Hashes, status : {"active", "superseded"}, superseded_by : Nat]
None      == 0  \* NULL, for a memory id

Request == [content : Contents, supersedes : 0..MaxMemories + 1, force : BOOLEAN]

StoreTypeOK ==
  /\ memories \in Seq(Memory)
  /\ chunks \in SUBSET (Nat \X Nat)
  /\ tasks \in SUBSET (Nat \X TaskTypes)

-----------------------------------------------------------------------------
(* The statements of StoreContext, as functions of the rows of memories.   *)

(* Mutant: only the newest row is compared.                                *)
ActiveNewest(mems, h) ==
  {i \in DOMAIN mems :
     i = Len(mems) /\ mems[i].hash = h /\ mems[i].status = "active"}

(* SELECT id FROM memories WHERE content_hash = ? AND status = 'active'    *)
Active(mems, h) ==
  {i \in DOMAIN mems : mems[i].hash = h /\ mems[i].status = "active"}

(* UPDATE memories SET status = 'superseded' WHERE id = ?  (none if NULL)  *)
Superseding(mems, old) ==
  [i \in DOMAIN mems |->
     IF i = old THEN [mems[i] EXCEPT !.status = "superseded"] ELSE mems[i]]

(* INSERT INTO memories (..., status) VALUES (..., 'active')               *)
Inserting(mems, h) ==
  Append(mems, [hash |-> h, status |-> "active", superseded_by |-> None])

(* UPDATE memories SET superseded_by = ? WHERE id = ?                      *)
Linking(mems, old, new) ==
  [i \in DOMAIN mems |->
     IF i = old THEN [mems[i] EXCEPT !.superseded_by = new] ELSE mems[i]]

ChunkRows(id, content) == {<<id, i>> : i \in 0..Pieces[content] - 1}
TaskRows(id)           == {<<id, k>> : k \in TaskTypes}

(* May the call create a memory?  A document that is already stored and    *)
(* active is stored again only if the caller forces it and supersedes it.  *)
Admitted(mems, r) ==
  LET existing == Active(mems, HashOf[r.content])
  IN  existing = {} \/ (r.force /\ r.supersedes \in existing)

-----------------------------------------------------------------------------
StoreInit ==
  /\ memories = <<>>
  /\ chunks = {}
  /\ tasks = {}

Store(r) ==
  LET new == Len(memories) + 1
  IN  /\ Len(memories) < MaxMemories
      /\ Admitted(memories, r)
      /\ memories' = Linking(Inserting(Superseding(memories, r.supersedes),
                                       HashOf[r.content]),
                             r.supersedes, new)
      /\ chunks' = chunks \cup ChunkRows(new, r.content)
      /\ tasks' = tasks \cup TaskRows(new)

StoreNext == \E r \in Request : Store(r)

StoreSpec == StoreInit /\ [][StoreNext]_storeVars

-----------------------------------------------------------------------------
(* A document is active at most once, for every order of calls, forced or  *)
(* not, whatever memory they claim to supersede (the dedup check of        *)
(* StoreContext and the partial unique index on content_hash).             *)
UniqueActive ==
  \A i, j \in DOMAIN memories :
    /\ memories[i].status = "active"
    /\ memories[j].status = "active"
    /\ memories[i].hash = memories[j].hash
    => i = j

(* A superseded memory always points to a memory stored after it, so the   *)
(* chain of replacements leads to an active one and cannot be circular;    *)
(* an active one points nowhere, or to itself when the caller guessed the  *)
(* id its own call was about to create.                                    *)
SupersededLeadsForward ==
  \A i \in DOMAIN memories :
    IF memories[i].status = "superseded"
    THEN memories[i].superseded_by \in i + 1..Len(memories)
    ELSE memories[i].superseded_by \in {None, i}

(* History is never rewritten: rows stay, a superseded memory is not       *)
(* revived, and a replacement is only ever replaced by a later one.        *)
HistoryKept ==
  [][/\ Len(memories') >= Len(memories)
     /\ \A i \in DOMAIN memories :
          /\ memories'[i].hash = memories[i].hash
          /\ memories[i].status = "superseded" => memories'[i].status = "superseded"
          /\ memories'[i].superseded_by >= memories[i].superseded_by]_storeVars
=============================================================================

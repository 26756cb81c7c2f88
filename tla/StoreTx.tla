------------------------------ MODULE StoreTx -------------------------------
(***************************************************************************)
(* StoreContext (src/core/indexer/ingest.go) statement by statement, run   *)
(* by several callers at once: goroutines of the MCP server and the        *)
(* processes of hsme-cli share one SQLite database.  BEGIN IMMEDIATE takes *)
(* the write lock (src/storage/sqlite/db.go); the transaction works on a   *)
(* copy of the tables that COMMIT publishes, and an error or the death of  *)
(* the process discards it.                                                *)
(***************************************************************************)
EXTENDS MemoryStore

CONSTANTS Callers, NoCaller

ASSUME StoreTxAssumption == NoCaller \notin Callers

VARIABLES
  lock,     \* who holds the write lock of the database
  pc,       \* the statement each caller executes next
  req,      \* the arguments of its call
  draft,    \* the tables as its transaction sees them
  acked     \* history: <<hash, id>> of every call that returned an id

txVars == <<memories, chunks, tasks, lock, pc, req, draft, acked>>

Tables  == [memories : Seq(Memory), chunks : SUBSET (Nat \X Nat),
            tasks : SUBSET (Nat \X TaskTypes)]
Saved   == [memories |-> memories, chunks |-> chunks, tasks |-> tasks]
Empty   == [memories |-> <<>>, chunks |-> {}, tasks |-> {}]
Labels  == {"idle", "dedup", "supersede", "insert", "link", "chunks",
            "embed", "graph", "commit"}
NoRequest == [content |-> CHOOSE d \in Contents : TRUE,
              supersedes |-> None, force |-> FALSE]

TxTypeOK ==
  /\ StoreTypeOK
  /\ lock \in Callers \cup {NoCaller}
  /\ pc \in [Callers -> Labels]
  /\ req \in [Callers -> Request]
  /\ draft \in [Callers -> Tables]
  /\ acked \in SUBSET (Hashes \X Nat)

HashArg(c) == HashOf[req[c].content]
NewId(c)   == Len(draft[c].memories)  \* LastInsertId, once the row is there

-----------------------------------------------------------------------------
TxInit ==
  /\ StoreInit
  /\ lock = NoCaller
  /\ pc = [c \in Callers |-> "idle"]
  /\ req = [c \in Callers |-> NoRequest]
  /\ draft = [c \in Callers |-> Empty]
  /\ acked = {}

Goto(c, label) == pc' = [pc EXCEPT ![c] = label]

(* The transaction is over, one way or the other.                          *)
Finish(c) ==
  /\ Goto(c, "idle")
  /\ req' = [req EXCEPT ![c] = NoRequest]
  /\ draft' = [draft EXCEPT ![c] = Empty]
  /\ lock' = NoCaller

Ack(c, id) == acked' = acked \cup {<<HashArg(c), id>>}

(* ROLLBACK: a statement failed, the call was rejected, or the process     *)
(* died.                                                                   *)
Rollback(c) == Finish(c) /\ UNCHANGED <<storeVars, acked>>

(* Mutant: BEGIN without the immediate lock.                               *)
BeginDeferred(c, r) ==
  /\ pc[c] = "idle"
  /\ lock' = c
  /\ req' = [req EXCEPT ![c] = r]
  /\ draft' = [draft EXCEPT ![c] = Saved]
  /\ Goto(c, "dedup")
  /\ UNCHANGED <<storeVars, acked>>

(* db.Begin with _txlock=immediate: waits until nobody else writes.        *)
Begin(c, r) ==
  /\ pc[c] = "idle"
  /\ lock = NoCaller
  /\ lock' = c
  /\ req' = [req EXCEPT ![c] = r]
  /\ draft' = [draft EXCEPT ![c] = Saved]
  /\ Goto(c, "dedup")
  /\ UNCHANGED <<storeVars, acked>>

(* The dedup check: return the existing id, reject the call, or go on.     *)
Dedup(c) ==
  LET existing == Active(draft[c].memories, HashArg(c))
  IN  /\ pc[c] = "dedup"
      /\ \/ /\ existing # {}
            /\ ~req[c].force
            /\ \E id \in existing : Ack(c, id)
            /\ Finish(c)
            /\ UNCHANGED storeVars
         \/ /\ existing # {}
            /\ req[c].force
            /\ req[c].supersedes \notin existing  \* DUPLICATE_CONTENT
            /\ Rollback(c)
         \/ /\ Admitted(draft[c].memories, req[c])
            /\ Len(draft[c].memories) < MaxMemories
            /\ Goto(c, "supersede")
            /\ UNCHANGED <<storeVars, lock, req, draft, acked>>

(* One statement of the transaction: it changes the caller's copy.         *)
Statement(c, from, to, tables) ==
  /\ pc[c] = from
  /\ Goto(c, to)
  /\ draft' = [draft EXCEPT ![c] = tables]
  /\ UNCHANGED <<storeVars, lock, req, acked>>

Supersede(c) ==
  Statement(c, "supersede", "insert",
    [draft[c] EXCEPT !.memories = Superseding(@, req[c].supersedes)])

(* The partial unique index rejects a second active row with the hash; the *)
(* call then ends as in Abort.                                             *)
InsertMemory(c) ==
  /\ Active(draft[c].memories, HashArg(c)) = {}
  /\ Statement(c, "insert", "link",
       [draft[c] EXCEPT !.memories = Inserting(@, HashArg(c))])

(* Mutant: the link is written to the new row instead of the old one.      *)
LinkWrongRow(c) ==
  Statement(c, "link", "chunks",
    [draft[c] EXCEPT !.memories = Linking(@, NewId(c), req[c].supersedes)])

Link(c) ==
  Statement(c, "link", "chunks",
    [draft[c] EXCEPT !.memories = Linking(@, req[c].supersedes, NewId(c))])

InsertChunks(c) ==
  Statement(c, "chunks", "embed",
    [draft[c] EXCEPT !.chunks = @ \cup ChunkRows(NewId(c), req[c].content)])

EnqueueEmbed(c) ==
  Statement(c, "embed", "graph",
    [draft[c] EXCEPT !.tasks = @ \cup {<<NewId(c), "embed">>}])

(* Mutant: the memory is committed before its second task is enqueued.     *)
EnqueueGraphLate(c) ==
  /\ pc[c] = "graph"
  /\ Goto(c, "commit")
  /\ memories' = draft[c].memories
  /\ chunks' = draft[c].chunks
  /\ tasks' = draft[c].tasks
  /\ draft' = [draft EXCEPT ![c].tasks = @ \cup {<<NewId(c), "graph_extract">>}]
  /\ UNCHANGED <<lock, req, acked>>

EnqueueGraph(c) ==
  Statement(c, "graph", "commit",
    [draft[c] EXCEPT !.tasks = @ \cup {<<NewId(c), "graph_extract">>}])

Commit(c) ==
  /\ pc[c] = "commit"
  /\ memories' = draft[c].memories
  /\ chunks' = draft[c].chunks
  /\ tasks' = draft[c].tasks
  /\ Ack(c, NewId(c))
  /\ Finish(c)

(* Any statement may fail and the process may die between two of them.     *)
Abort(c) == pc[c] # "idle" /\ Rollback(c)

TxNext ==
  \E c \in Callers :
    \/ \E r \in Request : Begin(c, r)
    \/ Dedup(c)
    \/ Supersede(c)
    \/ InsertMemory(c)
    \/ Link(c)
    \/ InsertChunks(c)
    \/ EnqueueEmbed(c)
    \/ EnqueueGraph(c)
    \/ Commit(c)
    \/ Abort(c)

TxSpec == TxInit /\ [][TxNext]_txVars

-----------------------------------------------------------------------------
(* Other connections never see half of an ingestion: a memory is there     *)
(* together with both of its tasks and all chunks of one document with its *)
(* hash, and no task or chunk row is there without its memory.             *)
AllOrNothing ==
  LET ids == DOMAIN memories
  IN  /\ tasks = UNION {TaskRows(i) : i \in ids}
      /\ \A i \in ids : \E d \in Contents :
           /\ HashOf[d] = memories[i].hash
           /\ {k \in chunks : k[1] = i} = ChunkRows(i, d)
      /\ \A k \in chunks : k[1] \in ids

(* A caller that was given an id can rely on it: the memory is stored and  *)
(* holds the caller's document, also after crashes of other callers and    *)
(* whether the call created it or found it.                                *)
AckedIsStored ==
  \A a \in acked : a[2] \in DOMAIN memories /\ memories[a[2]].hash = a[1]

(* What the dedup check found stays true of the tables everybody sees      *)
(* until the call commits or fails: no other caller, thread or process,    *)
(* commits an active copy of the document, or changes the one the call is  *)
(* about to replace, between its SELECT and its COMMIT ("closes the race   *)
(* between SELECT and INSERT", ingest.go).                                 *)
DedupStaysTrue ==
  \A c \in Callers :
    pc[c] \notin {"idle", "dedup"} => Admitted(memories, req[c])
=============================================================================

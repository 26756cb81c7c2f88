----------------------------- MODULE EmbedTask ------------------------------
(***************************************************************************)
(* The embed branch of ExecuteTask (src/core/worker/tasks.go): a worker    *)
(* reads the chunks of a memory, asks the model for a vector of each and   *)
(* stores it, every INSERT on its own.  A chunk the model finds too long   *)
(* is split in place, in a transaction, and the loop starts over from the  *)
(* new rows.  Meanwhile other workers may lease the same task, because its *)
(* holder died or because the lease ran out under it.                      *)
(*                                                                         *)
(* A document is a range of segments 1..Length; a text is the range        *)
(* <<lo, hi>> of the segments it holds.  The model takes one segment at a  *)
(* time, and none of those in stubborn: a text with no delimiter.          *)
(***************************************************************************)
EXTENDS Integers, Sequences

CONSTANTS
  Workers,
  Length,       \* segments of the document
  Cuts,         \* the texts of the chunks that StoreContext made of it
  Stubborn,     \* segments that may be too long and have no delimiter
  MaxAttempts,  \* attempt_count < 5, in the WHERE of LeaseNextTask
  MaxOverruns   \* bound: leases that run out under a live worker

Text == {t \in (1..Length) \X (1..Length) : t[1] <= t[2]}

ASSUME EmbedTaskAssumption ==
  /\ Length \in Nat
  /\ Cuts \in Seq(Text)
  /\ \A i, j \in DOMAIN Cuts : i < j => Cuts[i][2] < Cuts[j][1]
  /\ \A k \in 1..Length : \E i \in DOMAIN Cuts : k \in Cuts[i][1]..Cuts[i][2]
  /\ Stubborn \subseteq 1..Length
  /\ MaxAttempts \in Nat
  /\ MaxOverruns \in Nat

VARIABLES
  stubborn,     \* those that are, in the document at hand
  chunks,       \* rows of memory_chunks, by id: [index, text]
  vectors,      \* rows of memory_chunks_vec: the text embedded, by rowid
  status,       \* of the task
  attempts,     \* attempt_count
  overruns,     \* leases that ran out under a live worker so far
  pc,           \* what each worker does
  attempt,      \* the attempt_count its lease returned
  todo          \* the chunk records it read and has not embedded yet

taskVars == <<status, attempts, overruns>>
vars     == <<stubborn, chunks, vectors, taskVars, pc, attempt, todo>>

Ids    == DOMAIN chunks
Record == [id : Nat, index : Nat, text : Text]

TypeOK ==
  /\ stubborn \subseteq Stubborn
  /\ chunks \in Seq([index : Nat, text : Text])
  /\ DOMAIN vectors \subseteq Ids
  /\ \A id \in DOMAIN vectors : vectors[id] \in Text
  /\ status \in {"pending", "processing", "completed", "failed"}
  /\ attempts \in 0..MaxAttempts
  /\ overruns \in 0..MaxOverruns
  /\ pc \in [Workers -> {"idle", "load", "embed"}]
  /\ attempt \in [Workers -> 0..MaxAttempts]
  /\ todo \in [Workers -> SUBSET Record]

-----------------------------------------------------------------------------
(* loadChunks: SELECT id, chunk_index, chunk_text.                         *)
Loaded ==
  {[id |-> id, index |-> chunks[id].index, text |-> chunks[id].text] : id \in Ids}

(* ... ORDER BY chunk_index: the record the loop has come to.              *)
IsCurrent(w, chunk) ==
  /\ pc[w] = "embed"
  /\ \A other \in todo[w] : chunk.index <= other.index

(* Split, for the texts the model rejects.                                 *)
Split(text) ==
  [k \in 1..text[2] - text[1] + 1 |-> <<text[1] + k - 1, text[1] + k - 1>>]

(* "input length exceeds the context length"                               *)
TooLong(text) == text[1] < text[2] \/ text[1] \in stubborn

Init ==
  /\ stubborn \in SUBSET Stubborn
  /\ chunks = [k \in DOMAIN Cuts |-> [index |-> k - 1, text |-> Cuts[k]]]
  /\ vectors = <<>>
  /\ status = "pending"
  /\ attempts = 0
  /\ overruns = 0
  /\ pc = [w \in Workers |-> "idle"]
  /\ attempt = [w \in Workers |-> 0]
  /\ todo = [w \in Workers |-> {}]

Busy(w) == pc[w] # "idle"

(* The worker is done with the task: it loops, or it is gone.              *)
Leave(w) ==
  /\ pc' = [pc EXCEPT ![w] = "idle"]
  /\ attempt' = [attempt EXCEPT ![w] = 0]
  /\ todo' = [todo EXCEPT ![w] = {}]

(* LeaseNextTask.  A task that is processing is leased again once its      *)
(* lease is over; if its holder still runs, that is an overrun.            *)
Lease(w) ==
  /\ ~Busy(w)
  /\ status \in {"pending", "processing"}
  /\ attempts < MaxAttempts
  /\ IF status = "processing" /\ \E v \in Workers : Busy(v)
     THEN overruns < MaxOverruns /\ overruns' = overruns + 1
     ELSE UNCHANGED overruns
  /\ status' = "processing"
  /\ attempts' = attempts + 1
  /\ attempt' = [attempt EXCEPT ![w] = attempts + 1]
  /\ pc' = [pc EXCEPT ![w] = "load"]
  /\ UNCHANGED <<stubborn, chunks, vectors, todo>>

(* chunks, err := w.loadChunks(...), before the loop and after each split  *)
(* (where i = -1 starts it over).                                          *)
Load(w) ==
  /\ pc[w] = "load"
  /\ todo' = [todo EXCEPT ![w] = Loaded]
  /\ pc' = [pc EXCEPT ![w] = "embed"]
  /\ UNCHANGED <<stubborn, chunks, vectors, taskVars, attempt>>

(* INSERT OR REPLACE INTO memory_chunks_vec(rowid, embedding)              *)
PutVector(id, text) ==
  vectors' = [x \in DOMAIN vectors \cup {id} |-> IF x = id THEN text ELSE vectors[x]]

(* Mutant: the vector is written to the row at the position of the chunk.  *)
EmbedByPosition(w) ==
  \E chunk \in todo[w] :
    /\ IsCurrent(w, chunk)
    /\ ~TooLong(chunk.text)
    /\ PutVector(chunk.index + 1, chunk.text)
    /\ todo' = [todo EXCEPT ![w] = @ \ {chunk}]
    /\ UNCHANGED <<stubborn, chunks, taskVars, pc, attempt>>

(* GenerateVector succeeds and the vector is stored.                       *)
EmbedChunk(w) ==
  \E chunk \in todo[w] :
    /\ IsCurrent(w, chunk)
    /\ ~TooLong(chunk.text)
    /\ PutVector(chunk.id, chunk.text)
    /\ todo' = [todo EXCEPT ![w] = @ \ {chunk}]
    /\ UNCHANGED <<stubborn, chunks, taskVars, pc, attempt>>

(* Mutant: the rows that follow are moved one place too few.               *)
SplicedShort(chunk, parts) ==
  [id \in 1..Len(chunks) + Len(parts) - 1 |->
     IF id > Len(chunks)
     THEN [index |-> chunk.index + id - Len(chunks),
           text  |-> parts[id - Len(chunks) + 1]]
     ELSE [index |-> IF chunks[id].index > chunk.index
                     THEN chunks[id].index + Len(parts) - 2
                     ELSE chunks[id].index,
           text  |-> IF id = chunk.id THEN parts[1] ELSE chunks[id].text]]

(* Mutant: the new parts are put at the end, nothing is moved.             *)
SplicedLast(chunk, parts) ==
  [id \in 1..Len(chunks) + Len(parts) - 1 |->
     IF id > Len(chunks)
     THEN [index |-> id - 1, text |-> parts[id - Len(chunks) + 1]]
     ELSE [index |-> chunks[id].index,
           text  |-> IF id = chunk.id THEN parts[1] ELSE chunks[id].text]]

(* Mutant: the parts are inserted from the first, the last is forgotten.   *)
SplicedShifted(chunk, parts) ==
  [id \in 1..Len(chunks) + Len(parts) - 1 |->
     IF id > Len(chunks)
     THEN [index |-> chunk.index + id - Len(chunks), text |-> parts[id - Len(chunks)]]
     ELSE [index |-> IF chunks[id].index > chunk.index
                     THEN chunks[id].index + Len(parts) - 1
                     ELSE chunks[id].index,
           text  |-> IF id = chunk.id THEN parts[1] ELSE chunks[id].text]]

(* What the transaction of rechunkOversizedChunk makes of memory_chunks:   *)
(* rows behind the index the worker read move up, the row is cut to its    *)
(* first part and the other parts are inserted behind that index.          *)
Spliced(chunk, parts) ==
  [id \in 1..Len(chunks) + Len(parts) - 1 |->
     IF id > Len(chunks)
     THEN [index |-> chunk.index + id - Len(chunks),
           text  |-> parts[id - Len(chunks) + 1]]
     ELSE [index |-> IF chunks[id].index > chunk.index
                     THEN chunks[id].index + Len(parts) - 1
                     ELSE chunks[id].index,
           text  |-> IF id = chunk.id THEN parts[1] ELSE chunks[id].text]]

(* Mutant: a text that cannot be split counts as split.                    *)
RechunkAlways(w) ==
  \E chunk \in todo[w] :
    /\ IsCurrent(w, chunk)
    /\ TooLong(chunk.text)
    /\ chunks' = Spliced(chunk, Split(chunk.text))
    /\ pc' = [pc EXCEPT ![w] = "load"]
    /\ UNCHANGED <<stubborn, vectors, taskVars, attempt, todo>>

(* The model rejects the text for its length and it can be split.          *)
Rechunk(w) ==
  \E chunk \in todo[w] :
    /\ IsCurrent(w, chunk)
    /\ TooLong(chunk.text)
    /\ Len(Split(chunk.text)) > 1
    /\ chunks' = Spliced(chunk, Split(chunk.text))
    /\ pc' = [pc EXCEPT ![w] = "load"]
    /\ UNCHANGED <<stubborn, vectors, taskVars, attempt, todo>>

(* Mutant: the loop stops before the last chunk.                           *)
CompleteEarly(w) ==
  /\ pc[w] = "embed"
  /\ \A a, b \in todo[w] : a = b
  /\ status' = "completed"
  /\ Leave(w)
  /\ UNCHANGED <<stubborn, chunks, vectors, attempts, overruns>>

(* Every chunk of the list has its vector: the task is marked completed,   *)
(* by id, whoever holds it now.                                            *)
Complete(w) ==
  /\ pc[w] = "embed"
  /\ todo[w] = {}
  /\ status' = "completed"
  /\ Leave(w)
  /\ UNCHANGED <<stubborn, chunks, vectors, attempts, overruns>>

(* A call to the model or to the database fails: the loop of               *)
(* cmd/worker/main.go gives the task back or gives it up.                  *)
Fail(w) ==
  /\ Busy(w)
  /\ status' = IF attempt[w] >= MaxAttempts THEN "failed" ELSE "pending"
  /\ Leave(w)
  /\ UNCHANGED <<stubborn, chunks, vectors, attempts, overruns>>

(* SIGTERM or a crash in the middle of the task.                           *)
Die(w) ==
  /\ Busy(w)
  /\ Leave(w)
  /\ UNCHANGED <<stubborn, chunks, vectors, taskVars>>

Step(w) == Load(w) \/ EmbedChunk(w) \/ Rechunk(w) \/ Complete(w) \/ Fail(w)

Next == \E w \in Workers : Lease(w) \/ Step(w) \/ Die(w)

Spec == Init /\ [][Next]_vars

(* A worker that stays alive makes progress: every call has a deadline.    *)
FairSpec == Spec /\ \A w \in Workers : WF_vars(Lease(w)) /\ WF_vars(Step(w))

-----------------------------------------------------------------------------
(* UNIQUE(memory_id, chunk_index) never rejects the transaction that       *)
(* splits a chunk, not even when another worker has split the same chunk   *)
(* or an earlier one since its index was read.                             *)
IndexesDistinct ==
  \A a, b \in Ids : chunks[a].index = chunks[b].index => a = b

(* A stored vector is that of the text the row holds now: splitting a row  *)
(* never leaves the vector of its old text behind, also when two workers   *)
(* embed the same memory from lists they read at different times.          *)
VectorsCurrent == \A id \in DOMAIN vectors : vectors[id] = chunks[id].text

(* No split loses text: every segment of the document is in some chunk,    *)
(* also when a worker splits the text it read before another one cut the   *)
(* row.  (The text behind the cut is then there twice.)                    *)
NoTextLost ==
  \A k \in 1..Length : \E a \in Ids : k \in chunks[a].text[1]..chunks[a].text[2]

(* As long as no lease runs out under a live worker, the chunks spell the  *)
(* document: in the order of their index, every segment once, through      *)
(* splits, failures, crashes and new attempts.                             *)
ChunksSpellDocument ==
  overruns = 0 =>
    /\ NoTextLost
    /\ \A a, b \in Ids :
         chunks[a].index < chunks[b].index => chunks[a].text[2] < chunks[b].text[1]

(* A completed task leaves no chunk without a vector (semantic search      *)
(* would not see it), as long as no lease runs out under a live worker.    *)
CompletedIsSearchable ==
  overruns = 0 /\ status = "completed" => DOMAIN vectors = Ids

(* The loop that starts over after each split comes to an end: every       *)
(* worker leaves the task, which is decided or out of attempts, also for a *)
(* text that can never be embedded.                                        *)
EmbeddingEnds ==
  <>(/\ \A w \in Workers : ~Busy(w)
     /\ status \in {"completed", "failed"} \/ attempts = MaxAttempts)
=============================================================================

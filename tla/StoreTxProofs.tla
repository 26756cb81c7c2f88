--------------------------- MODULE StoreTxProofs ----------------------------
(***************************************************************************)
(* Proofs about MemoryStore and StoreTx: the transaction of StoreContext   *)
(* implements the one-step store, and what the one-step store guarantees   *)
(* therefore holds of the code, for any number of callers.                 *)
(***************************************************************************)
EXTENDS StoreTx, SequenceTheorems, TLAPS

-----------------------------------------------------------------------------
(* The statements of StoreContext keep memories a sequence of rows and     *)
(* change only what they say.                                              *)

LEMMA FunctionIsSeq ==
  ASSUME NEW S, NEW n \in Nat, NEW f \in [1..n -> S]
  PROVE  f \in Seq(S) /\ Len(f) = n /\ DOMAIN f = 1..n
<1>1. f \in Seq(S)
  BY SeqDef
<1>2. Len(f) \in Nat /\ DOMAIN f = 1..Len(f)
  BY <1>1, LenProperties
<1>3. 1..Len(f) = 1..n => Len(f) = n
  BY <1>2
<1>4. QED
  BY <1>1, <1>2, <1>3

LEMMA MemoryFields ==
  ASSUME NEW m \in Memory
  PROVE  /\ m.hash \in Hashes
         /\ m.status \in {"active", "superseded"}
         /\ m.superseded_by \in Nat
         /\ m = [hash |-> m.hash, status |-> m.status, superseded_by |-> m.superseded_by]
  BY DEF Memory

LEMMA MemoryRecord ==
  ASSUME NEW h \in Hashes, NEW st \in {"active", "superseded"}, NEW by \in Nat
  PROVE  [hash |-> h, status |-> st, superseded_by |-> by] \in Memory
  BY DEF Memory

LEMMA SupersedingRows ==
  ASSUME NEW mems \in Seq(Memory), NEW old \in Nat
  PROVE  /\ Superseding(mems, old) \in Seq(Memory)
         /\ Len(Superseding(mems, old)) = Len(mems)
         /\ \A i \in 1..Len(mems) :
              Superseding(mems, old)[i] =
                [hash |-> mems[i].hash,
                 status |-> IF i = old THEN "superseded" ELSE mems[i].status,
                 superseded_by |-> mems[i].superseded_by]
<1>1. \A i \in 1..Len(mems) : mems[i] \in Memory
  OBVIOUS
<1>2. \A i \in 1..Len(mems) :
        Superseding(mems, old)[i] =
          [hash |-> mems[i].hash,
           status |-> IF i = old THEN "superseded" ELSE mems[i].status,
           superseded_by |-> mems[i].superseded_by]
  BY <1>1 DEF Superseding, Memory
<1>3. ASSUME NEW i \in 1..Len(mems) PROVE Superseding(mems, old)[i] \in Memory
  <2> DEFINE st == IF i = old THEN "superseded" ELSE mems[i].status
  <2>1. /\ mems[i].hash \in Hashes /\ mems[i].superseded_by \in Nat
        /\ st \in {"active", "superseded"}
    BY <1>1, MemoryFields
  <2>2. Superseding(mems, old)[i] =
          [hash |-> mems[i].hash, status |-> st, superseded_by |-> mems[i].superseded_by]
    BY <1>2
  <2>3. QED
    BY <2>1, <2>2, MemoryRecord
<1>4. Superseding(mems, old) \in [1..Len(mems) -> Memory]
  <2>1. Superseding(mems, old) = [i \in 1..Len(mems) |-> Superseding(mems, old)[i]]
    BY DEF Superseding
  <2>2. QED
    BY <1>3, <2>1
<1>5. QED
  BY <1>2, <1>4, FunctionIsSeq

LEMMA InsertingRows ==
  ASSUME NEW mems \in Seq(Memory), NEW h \in Hashes
  PROVE  /\ Inserting(mems, h) \in Seq(Memory)
         /\ Len(Inserting(mems, h)) = Len(mems) + 1
         /\ \A i \in 1..Len(mems) : Inserting(mems, h)[i] = mems[i]
         /\ Inserting(mems, h)[Len(mems) + 1] =
              [hash |-> h, status |-> "active", superseded_by |-> None]
  BY DEF Inserting, Memory, None

LEMMA LinkingRows ==
  ASSUME NEW mems \in Seq(Memory), NEW old \in Nat, NEW new \in Nat
  PROVE  /\ Linking(mems, old, new) \in Seq(Memory)
         /\ Len(Linking(mems, old, new)) = Len(mems)
         /\ \A i \in 1..Len(mems) :
              Linking(mems, old, new)[i] =
                [hash |-> mems[i].hash,
                 status |-> mems[i].status,
                 superseded_by |-> IF i = old THEN new ELSE mems[i].superseded_by]
<1>1. \A i \in 1..Len(mems) : mems[i] \in Memory
  OBVIOUS
<1>2. \A i \in 1..Len(mems) :
        Linking(mems, old, new)[i] =
          [hash |-> mems[i].hash,
           status |-> mems[i].status,
           superseded_by |-> IF i = old THEN new ELSE mems[i].superseded_by]
  BY <1>1 DEF Linking, Memory
<1>3. ASSUME NEW i \in 1..Len(mems) PROVE Linking(mems, old, new)[i] \in Memory
  <2> DEFINE by == IF i = old THEN new ELSE mems[i].superseded_by
  <2>1. /\ mems[i].hash \in Hashes /\ mems[i].status \in {"active", "superseded"}
        /\ by \in Nat
    BY <1>1, MemoryFields
  <2>2. Linking(mems, old, new)[i] =
          [hash |-> mems[i].hash, status |-> mems[i].status, superseded_by |-> by]
    BY <1>2
  <2>3. QED
    BY <2>1, <2>2, MemoryRecord
<1>4. Linking(mems, old, new) \in [1..Len(mems) -> Memory]
  <2>1. Linking(mems, old, new) = [i \in 1..Len(mems) |-> Linking(mems, old, new)[i]]
    BY DEF Linking
  <2>2. QED
    BY <1>3, <2>1
<1>5. QED
  BY <1>2, <1>4, FunctionIsSeq

(* The rows of memories after a call that creates one.                     *)
Stored(mems, r) ==
  Linking(Inserting(Superseding(mems, r.supersedes), HashOf[r.content]),
          r.supersedes, Len(mems) + 1)

LEMMA StoredRows ==
  ASSUME NEW mems \in Seq(Memory), NEW r \in Request
  PROVE  /\ Stored(mems, r) \in Seq(Memory)
         /\ Len(Stored(mems, r)) = Len(mems) + 1
         /\ \A i \in 1..Len(mems) :
              Stored(mems, r)[i] =
                IF i = r.supersedes
                THEN [hash |-> mems[i].hash, status |-> "superseded",
                      superseded_by |-> Len(mems) + 1]
                ELSE mems[i]
         /\ Stored(mems, r)[Len(mems) + 1] =
              [hash |-> HashOf[r.content], status |-> "active",
               superseded_by |->
                 IF r.supersedes = Len(mems) + 1 THEN Len(mems) + 1 ELSE None]
<1> DEFINE n == Len(mems)
           A == Superseding(mems, r.supersedes)
           B == Inserting(A, HashOf[r.content])
<1>1. r.supersedes \in Nat /\ HashOf[r.content] \in Hashes /\ n \in Nat
  BY MemoryStoreAssumption DEF Request, Hashes
<1>2. /\ A \in Seq(Memory) /\ Len(A) = n
      /\ \A i \in 1..n :
           A[i] = [hash |-> mems[i].hash,
                   status |-> IF i = r.supersedes THEN "superseded" ELSE mems[i].status,
                   superseded_by |-> mems[i].superseded_by]
  BY <1>1, SupersedingRows
<1>3. /\ B \in Seq(Memory) /\ Len(B) = n + 1
      /\ \A i \in 1..n : B[i] = A[i]
      /\ B[n + 1] = [hash |-> HashOf[r.content], status |-> "active",
                     superseded_by |-> None]
  BY <1>1, <1>2, InsertingRows
<1>4. /\ Stored(mems, r) \in Seq(Memory) /\ Len(Stored(mems, r)) = n + 1
      /\ \A i \in 1..n + 1 :
           Stored(mems, r)[i] =
             [hash |-> B[i].hash, status |-> B[i].status,
              superseded_by |-> IF i = r.supersedes THEN n + 1 ELSE B[i].superseded_by]
  BY <1>1, <1>3, LinkingRows DEF Stored
<1>5. ASSUME NEW i \in 1..n
      PROVE  Stored(mems, r)[i] =
               IF i = r.supersedes
               THEN [hash |-> mems[i].hash, status |-> "superseded",
                     superseded_by |-> n + 1]
               ELSE mems[i]
  <2>1. mems[i] = [hash |-> mems[i].hash, status |-> mems[i].status,
                   superseded_by |-> mems[i].superseded_by]
    BY ElementOfSeq, MemoryFields
  <2>2. i \in 1..n + 1
    BY <1>1
  <2>3. B[i] = [hash |-> mems[i].hash,
                status |-> IF i = r.supersedes THEN "superseded" ELSE mems[i].status,
                superseded_by |-> mems[i].superseded_by]
    BY <1>2, <1>3
  <2>4. Stored(mems, r)[i] =
          [hash |-> mems[i].hash,
           status |-> IF i = r.supersedes THEN "superseded" ELSE mems[i].status,
           superseded_by |-> IF i = r.supersedes THEN n + 1 ELSE mems[i].superseded_by]
    BY <1>4, <2>2, <2>3
  <2>5. CASE i = r.supersedes
    BY <2>4, <2>5
  <2>6. CASE i # r.supersedes
    BY <2>1, <2>4, <2>6
  <2>7. QED
    BY <2>5, <2>6
<1>6. Stored(mems, r)[n + 1] =
        [hash |-> HashOf[r.content], status |-> "active",
         superseded_by |-> IF r.supersedes = n + 1 THEN n + 1 ELSE None]
  <2>1. n + 1 \in 1..n + 1
    BY <1>1
  <2>2. QED
    BY <1>3, <1>4, <2>1
<1>7. QED
  BY <1>4, <1>5, <1>6

-----------------------------------------------------------------------------
(* The one-step store.                                                     *)

StoreInv == StoreTypeOK /\ UniqueActive /\ SupersededLeadsForward

LEMMA StoreKeepsInv ==
  ASSUME StoreInv, NEW r \in Request, Store(r)
  PROVE  StoreInv'
<1> DEFINE n == Len(memories)
<1>1. memories \in Seq(Memory) /\ n \in Nat
  BY DEF StoreInv, StoreTypeOK
<1>2. memories' = Stored(memories, r)
  BY DEF Store, Stored
<1>3. /\ memories' \in Seq(Memory)
      /\ Len(memories') = n + 1
      /\ \A i \in 1..n :
           memories'[i] =
             IF i = r.supersedes
             THEN [hash |-> memories[i].hash, status |-> "superseded",
                   superseded_by |-> n + 1]
             ELSE memories[i]
      /\ memories'[n + 1] =
           [hash |-> HashOf[r.content], status |-> "active",
            superseded_by |-> IF r.supersedes = n + 1 THEN n + 1 ELSE None]
  BY <1>1, <1>2, StoredRows
<1>4. \A i \in DOMAIN memories' : i \in 1..n \/ i = n + 1
  BY <1>1, <1>3
<1>a. ASSUME NEW i \in 1..n, i = r.supersedes
      PROVE  memories'[i].status = "superseded" /\ memories'[i].superseded_by = n + 1
  <2>1. memories'[i] = [hash |-> memories[i].hash, status |-> "superseded",
                        superseded_by |-> n + 1]
    BY <1>3, <1>a
  <2>2. QED
    BY <2>1
<1>b. ASSUME NEW i \in 1..n, i # r.supersedes
      PROVE  memories'[i] = memories[i]
  BY <1>3, <1>b
<1>5. StoreTypeOK'
  <2>1. ChunkRows(n + 1, r.content) \in SUBSET (Nat \X Nat)
    BY <1>1, MemoryStoreAssumption DEF ChunkRows, Request
  <2>2. TaskRows(n + 1) \in SUBSET (Nat \X TaskTypes)
    BY <1>1 DEF TaskRows
  <2>3. QED
    BY <1>3, <2>1, <2>2 DEF StoreInv, StoreTypeOK, Store
<1>6. UniqueActive'
  <2> SUFFICES ASSUME NEW i \in DOMAIN memories', NEW j \in DOMAIN memories',
                      memories'[i].status = "active",
                      memories'[j].status = "active",
                      memories'[i].hash = memories'[j].hash
               PROVE  i = j
    BY DEF UniqueActive
  <2>1. ASSUME NEW k \in 1..n, memories'[k].status = "active"
        PROVE  k # r.supersedes /\ memories'[k] = memories[k]
    BY <1>a, <1>b, <2>1
  <2>2. ASSUME NEW k \in 1..n, memories'[k].status = "active"
        PROVE  memories'[k].hash # HashOf[r.content]
    <3>1. SUFFICES ASSUME memories[k].hash = HashOf[r.content] PROVE FALSE
      BY <2>1, <2>2
    <3>2. k \in Active(memories, HashOf[r.content])
      BY <1>1, <2>1, <2>2, <3>1 DEF Active
    <3>3. r.supersedes \in Active(memories, HashOf[r.content])
      BY <3>2 DEF Store, Admitted
    <3>4. k = r.supersedes
      BY <3>2, <3>3 DEF Active, StoreInv, UniqueActive
    <3>5. QED
      BY <2>1, <2>2, <3>4
  <2>3. CASE i \in 1..n /\ j \in 1..n
    BY <1>1, <2>1, <2>3 DEF StoreInv, UniqueActive
  <2>4. CASE i = n + 1 /\ j \in 1..n
    BY <1>3, <2>2, <2>4
  <2>5. CASE i \in 1..n /\ j = n + 1
    BY <1>3, <2>2, <2>5
  <2>6. QED
    BY <1>4, <2>3, <2>4, <2>5
<1>7. SupersededLeadsForward'
  <2> SUFFICES ASSUME NEW i \in DOMAIN memories'
               PROVE  IF memories'[i].status = "superseded"
                      THEN memories'[i].superseded_by \in i + 1..n + 1
                      ELSE memories'[i].superseded_by \in {None, i}
    BY <1>3 DEF SupersededLeadsForward
  <2>1. CASE i = n + 1
    BY <1>3, <2>1
  <2>2. CASE i \in 1..n /\ i = r.supersedes
    <3>1. memories'[i].status = "superseded" /\ memories'[i].superseded_by = n + 1
      BY <1>a, <2>2
    <3>2. n + 1 \in i + 1..n + 1
      BY <1>1, <2>2
    <3>3. QED
      BY <3>1, <3>2
  <2>3. CASE i \in 1..n /\ i # r.supersedes
    <3>1. memories'[i] = memories[i]
      BY <1>b, <2>3
    <3>2. IF memories[i].status = "superseded"
          THEN memories[i].superseded_by \in i + 1..n
          ELSE memories[i].superseded_by \in {None, i}
      BY <1>1, <2>3 DEF StoreInv, SupersededLeadsForward
    <3>3. QED
      BY <1>1, <2>3, <3>1, <3>2
  <2>4. QED
    BY <1>4, <2>1, <2>2, <2>3
<1>8. QED
  BY <1>5, <1>6, <1>7 DEF StoreInv

LEMMA StoreInvariant == StoreSpec => []StoreInv
<1>1. StoreInit => StoreInv
  BY DEF StoreInit, StoreInv, StoreTypeOK, UniqueActive, SupersededLeadsForward
<1>2. StoreInv /\ [StoreNext]_storeVars => StoreInv'
  <2>1. CASE UNCHANGED storeVars
    BY <2>1 DEF storeVars, StoreInv, StoreTypeOK, UniqueActive, SupersededLeadsForward
  <2>2. QED
    BY <2>1, StoreKeepsInv DEF StoreNext
<1>3. QED
  BY <1>1, <1>2, PTL DEF StoreSpec

-----------------------------------------------------------------------------
(* Type correctness of the transaction.                                    *)

LEMMA NoRequestType == NoRequest \in Request
  BY MemoryStoreAssumption DEF NoRequest, Request, None

LEMMA FinishTypes ==
  ASSUME TxTypeOK, NEW c \in Callers, Finish(c)
  PROVE  /\ lock' \in Callers \cup {NoCaller}
         /\ pc' \in [Callers -> Labels]
         /\ req' \in [Callers -> Request]
         /\ draft' \in [Callers -> Tables]
<1>1. Empty \in Tables
  BY DEF Empty, Tables
<1>2. QED
  BY <1>1, NoRequestType DEF TxTypeOK, Finish, Goto, Labels

LEMMA ReqTypes ==
  ASSUME TxTypeOK, NEW c \in Callers
  PROVE  /\ req[c].supersedes \in Nat
         /\ req[c].content \in Contents
         /\ HashArg(c) \in Hashes
         /\ draft[c].memories \in Seq(Memory)
         /\ draft[c].chunks \in SUBSET (Nat \X Nat)
         /\ draft[c].tasks \in SUBSET (Nat \X TaskTypes)
         /\ NewId(c) \in Nat
<1>1. req[c] \in Request /\ draft[c] \in Tables
  BY DEF TxTypeOK
<1>2. req[c].supersedes \in Nat /\ req[c].content \in Contents
  BY <1>1, MemoryStoreAssumption DEF Request
<1>3. draft[c].memories \in Seq(Memory)
  BY <1>1 DEF Tables
<1>4. NewId(c) \in Nat
  BY <1>3, LenProperties DEF NewId
<1>5. QED
  BY <1>1, <1>2, <1>3, <1>4 DEF Tables, HashArg, Hashes

LEMMA ActiveIds ==
  ASSUME NEW mems \in Seq(Memory), NEW h
  PROVE  Active(mems, h) \subseteq 1..Len(mems)
  BY DEF Active

LEMMA TablesUpdate ==
  ASSUME NEW t \in Tables, NEW m \in Seq(Memory), NEW k \in SUBSET (Nat \X TaskTypes)
  PROVE  /\ [t EXCEPT !.memories = m] \in Tables
         /\ [t EXCEPT !.tasks = k] \in Tables
  BY DEF Tables

LEMMA StatementTypes ==
  ASSUME TxTypeOK, NEW c \in Callers, NEW from, NEW to \in Labels,
         NEW tables \in Tables, Statement(c, from, to, tables)
  PROVE  TxTypeOK'
  BY DEF TxTypeOK, StoreTypeOK, Statement, Goto, storeVars

LEMMA RollbackTypes ==
  ASSUME TxTypeOK, NEW c \in Callers, Rollback(c)
  PROVE  TxTypeOK'
  BY FinishTypes DEF TxTypeOK, StoreTypeOK, Rollback, storeVars

LEMMA StepTxTypeOK == TxTypeOK /\ [TxNext]_txVars => TxTypeOK'
<1> SUFFICES ASSUME TxTypeOK, [TxNext]_txVars PROVE TxTypeOK'
  OBVIOUS
<1>1. ASSUME NEW c \in Callers, NEW r \in Request, Begin(c, r) PROVE TxTypeOK'
  <2>1. Saved \in Tables
    BY DEF Saved, Tables, TxTypeOK, StoreTypeOK
  <2>2. QED
    BY <1>1, <2>1 DEF TxTypeOK, StoreTypeOK, Begin, Goto, Labels, storeVars
<1>2. ASSUME NEW c \in Callers, Dedup(c) PROVE TxTypeOK'
  <2>1. CASE Rollback(c)
    BY <2>1, RollbackTypes
  <2>2. CASE /\ \E id \in Active(draft[c].memories, HashArg(c)) : Ack(c, id)
             /\ Finish(c)
             /\ UNCHANGED storeVars
    <3>1. PICK id \in Active(draft[c].memories, HashArg(c)) : Ack(c, id)
      BY <2>2
    <3>2. id \in Nat /\ HashArg(c) \in Hashes
      BY ReqTypes, ActiveIds, LenProperties
    <3>3. acked' \in SUBSET (Hashes \X Nat)
      BY <3>1, <3>2 DEF Ack, TxTypeOK
    <3>4. QED
      BY <2>2, <3>3, FinishTypes DEF TxTypeOK, StoreTypeOK, storeVars
  <2>3. CASE Goto(c, "supersede") /\ UNCHANGED <<storeVars, lock, req, draft, acked>>
    BY <2>3 DEF TxTypeOK, StoreTypeOK, Goto, Labels, storeVars
  <2>4. QED
    BY <1>2, <2>1, <2>2, <2>3 DEF Dedup
<1>3. ASSUME NEW c \in Callers, Supersede(c) PROVE TxTypeOK'
  <2> DEFINE after == [draft[c] EXCEPT !.memories = Superseding(@, req[c].supersedes)]
  <2>1. after \in Tables
    BY ReqTypes, SupersedingRows, TablesUpdate DEF TxTypeOK
  <2>2. Statement(c, "supersede", "insert", after)
    BY <1>3 DEF Supersede
  <2>3. "insert" \in Labels
    BY DEF Labels
  <2> HIDE DEF after
  <2>4. QED
    BY <2>1, <2>2, <2>3, StatementTypes
<1>4. ASSUME NEW c \in Callers, InsertMemory(c) PROVE TxTypeOK'
  <2> DEFINE after == [draft[c] EXCEPT !.memories = Inserting(@, HashArg(c))]
  <2>1. after \in Tables
    BY ReqTypes, InsertingRows, TablesUpdate DEF TxTypeOK
  <2>2. Statement(c, "insert", "link", after)
    BY <1>4 DEF InsertMemory
  <2>3. "link" \in Labels
    BY DEF Labels
  <2> HIDE DEF after
  <2>4. QED
    BY <2>1, <2>2, <2>3, StatementTypes
<1>5. ASSUME NEW c \in Callers, Link(c) PROVE TxTypeOK'
  <2> DEFINE after == [draft[c] EXCEPT !.memories = Linking(@, req[c].supersedes, NewId(c))]
  <2>1. after \in Tables
    BY ReqTypes, LinkingRows, TablesUpdate DEF TxTypeOK
  <2>2. Statement(c, "link", "chunks", after)
    BY <1>5 DEF Link
  <2>3. "chunks" \in Labels
    BY DEF Labels
  <2> HIDE DEF after
  <2>4. QED
    BY <2>1, <2>2, <2>3, StatementTypes
<1>6. ASSUME NEW c \in Callers, InsertChunks(c) PROVE TxTypeOK'
  <2>1. ChunkRows(NewId(c), req[c].content) \in SUBSET (Nat \X Nat)
    BY ReqTypes, MemoryStoreAssumption DEF ChunkRows
  <2>2. [draft[c] EXCEPT !.chunks = @ \cup ChunkRows(NewId(c), req[c].content)] \in Tables
    BY <2>1, ReqTypes DEF TxTypeOK, Tables
  <2>3. QED
    BY <1>6, <2>2, StatementTypes DEF InsertChunks, Labels
<1>7. ASSUME NEW c \in Callers, EnqueueEmbed(c) PROVE TxTypeOK'
  <2> DEFINE after == [draft[c] EXCEPT !.tasks = @ \cup {<<NewId(c), "embed">>}]
  <2>1. after \in Tables
    <3>1. draft[c] \in Tables
      BY DEF TxTypeOK
    <3>2. draft[c].tasks \cup {<<NewId(c), "embed">>} \in SUBSET (Nat \X TaskTypes)
      BY ReqTypes DEF TaskTypes
    <3>3. QED
      BY <3>1, <3>2, TablesUpdate, ReqTypes
  <2>2. Statement(c, "embed", "graph", after)
    BY <1>7 DEF EnqueueEmbed
  <2>3. "graph" \in Labels
    BY DEF Labels
  <2> HIDE DEF after
  <2>4. QED
    BY <2>1, <2>2, <2>3, StatementTypes
<1>8. ASSUME NEW c \in Callers, EnqueueGraph(c) PROVE TxTypeOK'
  <2> DEFINE after == [draft[c] EXCEPT !.tasks = @ \cup {<<NewId(c), "graph_extract">>}]
  <2>1. after \in Tables
    <3>1. draft[c] \in Tables
      BY DEF TxTypeOK
    <3>2. draft[c].tasks \cup {<<NewId(c), "graph_extract">>} \in SUBSET (Nat \X TaskTypes)
      BY ReqTypes DEF TaskTypes
    <3>3. QED
      BY <3>1, <3>2, TablesUpdate, ReqTypes
  <2>2. Statement(c, "graph", "commit", after)
    BY <1>8 DEF EnqueueGraph
  <2>3. "commit" \in Labels
    BY DEF Labels
  <2> HIDE DEF after
  <2>4. QED
    BY <2>1, <2>2, <2>3, StatementTypes
<1>9. ASSUME NEW c \in Callers, Commit(c) PROVE TxTypeOK'
  <2>1. acked' \in SUBSET (Hashes \X Nat)
    BY <1>9, ReqTypes DEF Commit, Ack, TxTypeOK
  <2>2. StoreTypeOK'
    BY <1>9, ReqTypes DEF Commit, StoreTypeOK
  <2>3. QED
    BY <1>9, <2>1, <2>2, FinishTypes DEF Commit, TxTypeOK
<1>10. ASSUME NEW c \in Callers, Abort(c) PROVE TxTypeOK'
  BY <1>10, RollbackTypes DEF Abort
<1>11. CASE UNCHANGED txVars
  BY <1>11 DEF txVars, TxTypeOK, StoreTypeOK
<1>12. QED
  BY <1>1, <1>2, <1>3, <1>4, <1>5, <1>6, <1>7, <1>8, <1>9, <1>10, <1>11 DEF TxNext

(* Every variable of the transaction keeps its type.                       *)
THEOREM TxTypeCorrect == TxSpec => []TxTypeOK
<1>1. TxInit => TxTypeOK
  BY NoRequestType
     DEF TxInit, TxTypeOK, StoreInit, StoreTypeOK, Labels, Empty, Tables
<1>2. QED
  BY <1>1, StepTxTypeOK, PTL DEF TxSpec

-----------------------------------------------------------------------------
(* The refinement.  Whoever is past BEGIN holds the lock, so nobody else   *)
(* changes the tables under it, and its copy is what the statements so far *)
(* make of them.                                                           *)

Progress(c) ==
  LET r == req[c]
      n == Len(memories)
  IN  /\ pc[c] # "dedup" => Admitted(memories, r) /\ n < MaxMemories
      /\ pc[c] \in {"dedup", "supersede"} => draft[c].memories = memories
      /\ pc[c] = "insert" => draft[c].memories = Superseding(memories, r.supersedes)
      /\ pc[c] = "link" =>
           draft[c].memories =
             Inserting(Superseding(memories, r.supersedes), HashOf[r.content])
      /\ pc[c] \in {"chunks", "embed", "graph", "commit"} =>
           draft[c].memories = Stored(memories, r)
      /\ pc[c] \notin {"embed", "graph", "commit"} => draft[c].chunks = chunks
      /\ pc[c] \in {"embed", "graph", "commit"} =>
           draft[c].chunks = chunks \cup ChunkRows(n + 1, r.content)
      /\ pc[c] \notin {"graph", "commit"} => draft[c].tasks = tasks
      /\ pc[c] = "graph" => draft[c].tasks = tasks \cup {<<n + 1, "embed">>}
      /\ pc[c] = "commit" => draft[c].tasks = tasks \cup TaskRows(n + 1)

TxInv ==
  /\ TxTypeOK
  /\ \A c \in Callers : pc[c] # "idle" => lock = c /\ Progress(c)

LEMMA StatementKeepsTxInv ==
  ASSUME TxInv, TxTypeOK', NEW c \in Callers, NEW from, NEW to, NEW tables,
         from # "idle", Statement(c, from, to, tables), Progress(c)'
  PROVE  TxInv'
<1> SUFFICES ASSUME NEW d \in Callers, pc'[d] # "idle"
             PROVE  lock' = d /\ Progress(d)'
  BY DEF TxInv
<1>1. lock = c /\ lock' = lock
  BY DEF TxInv, Statement
<1>2. CASE d = c
  BY <1>1, <1>2
<1>3. CASE d # c
  <2>1. pc[d] = pc'[d]
    BY <1>3 DEF TxInv, TxTypeOK, Statement, Goto
  <2>2. lock = d
    BY <2>1 DEF TxInv
  <2>3. QED
    BY <1>1, <1>3, <2>2
<1>4. QED
  BY <1>2, <1>3

LEMMA FinishKeepsTxInv ==
  ASSUME TxInv, TxTypeOK', NEW c \in Callers, pc[c] # "idle", Finish(c)
  PROVE  TxInv'
<1> SUFFICES ASSUME NEW d \in Callers PROVE pc'[d] = "idle"
  BY DEF TxInv
<1>1. lock = c
  BY DEF TxInv
<1>2. d # c => pc[d] = "idle"
  BY <1>1 DEF TxInv
<1>3. QED
  BY <1>2 DEF Finish, Goto, TxInv, TxTypeOK

LEMMA BeginKeepsTxInv ==
  ASSUME TxInv, TxTypeOK', NEW c \in Callers, NEW r \in Request, Begin(c, r)
  PROVE  TxInv'
<1> SUFFICES ASSUME NEW d \in Callers, pc'[d] # "idle"
             PROVE  lock' = d /\ Progress(d)'
  BY DEF TxInv
<1>1. lock = NoCaller /\ lock' = c
  BY DEF Begin
<1>2. \A e \in Callers : pc[e] = "idle"
  BY <1>1, StoreTxAssumption DEF TxInv
<1>3. d = c
  BY <1>2 DEF Begin, Goto, TxInv, TxTypeOK
<1>4. pc'[c] = "dedup" /\ draft'[c] = Saved /\ UNCHANGED storeVars
  BY DEF Begin, Goto, TxInv, TxTypeOK
<1>5. Progress(c)'
  BY <1>4 DEF Progress, Saved, storeVars
<1>6. QED
  BY <1>1, <1>3, <1>5

LEMMA DraftFields ==
  ASSUME NEW t \in Tables, NEW m, NEW k
  PROVE  /\ [t EXCEPT !.memories = m].memories = m
         /\ [t EXCEPT !.memories = m].chunks = t.chunks
         /\ [t EXCEPT !.memories = m].tasks = t.tasks
         /\ [t EXCEPT !.chunks = k].memories = t.memories
         /\ [t EXCEPT !.chunks = k].chunks = k
         /\ [t EXCEPT !.chunks = k].tasks = t.tasks
         /\ [t EXCEPT !.tasks = k].memories = t.memories
         /\ [t EXCEPT !.tasks = k].chunks = t.chunks
         /\ [t EXCEPT !.tasks = k].tasks = k
  BY DEF Tables

(* The row the transaction has inserted is the one after those committed.  *)
LEMMA NewIdIsNext ==
  ASSUME TxInv, NEW c \in Callers, pc[c] \in {"link", "chunks", "embed", "graph", "commit"}
  PROVE  NewId(c) = Len(memories) + 1
<1>1. /\ Progress(c) /\ memories \in Seq(Memory) /\ req[c] \in Request
  BY DEF TxInv, TxTypeOK, StoreTypeOK
<1>2. req[c].supersedes \in Nat /\ HashOf[req[c].content] \in Hashes
  BY <1>1, MemoryStoreAssumption DEF Request, Hashes
<1>3. CASE pc[c] = "link"
  <2>1. draft[c].memories =
          Inserting(Superseding(memories, req[c].supersedes), HashOf[req[c].content])
    BY <1>1, <1>3 DEF Progress
  <2>2. /\ Superseding(memories, req[c].supersedes) \in Seq(Memory)
        /\ Len(Superseding(memories, req[c].supersedes)) = Len(memories)
    BY <1>1, <1>2, SupersedingRows
  <2>3. QED
    BY <1>2, <2>1, <2>2, InsertingRows DEF NewId
<1>4. CASE pc[c] # "link"
  <2>1. draft[c].memories = Stored(memories, req[c])
    <3>1. pc[c] \in {"chunks", "embed", "graph", "commit"}
      BY <1>4
    <3>2. QED
      BY <1>1, <3>1 DEF Progress
  <2>2. Len(Stored(memories, req[c])) = Len(memories) + 1
    BY <1>1, StoredRows
  <2>3. QED
    BY <2>1, <2>2 DEF NewId
<1>5. QED
  BY <1>3, <1>4

LEMMA StepTxInv == TxInv /\ [TxNext]_txVars => TxInv'
<1> SUFFICES ASSUME TxInv, [TxNext]_txVars PROVE TxInv'
  OBVIOUS
<1> USE StepTxTypeOK DEF TxInv
<1>1. ASSUME NEW c \in Callers, NEW r \in Request, Begin(c, r) PROVE TxInv'
  BY <1>1, BeginKeepsTxInv
<1>2. ASSUME NEW c \in Callers, Dedup(c) PROVE TxInv'
  <2>1. CASE Finish(c)
    BY <1>2, <2>1, FinishKeepsTxInv DEF Dedup
  <2>2. CASE /\ Admitted(draft[c].memories, req[c])
             /\ Len(draft[c].memories) < MaxMemories
             /\ Goto(c, "supersede")
             /\ UNCHANGED <<storeVars, lock, req, draft, acked>>
    <3>1. pc[c] = "dedup" /\ pc'[c] = "supersede" /\ Progress(c)
      BY <1>2, <2>2 DEF Dedup, Goto, TxTypeOK
    <3>2. Progress(c)'
      BY <2>2, <3>1 DEF Progress, storeVars
    <3>3. Statement(c, "dedup", "supersede", draft[c])
      BY <2>2, <3>1 DEF Statement, TxTypeOK
    <3>4. QED
      BY <3>2, <3>3, StatementKeepsTxInv
  <2>3. QED
    BY <1>2, <2>1, <2>2 DEF Dedup, Rollback
<1>3. ASSUME NEW c \in Callers, Supersede(c) PROVE TxInv'
  <2> DEFINE after == [draft[c] EXCEPT !.memories = Superseding(@, req[c].supersedes)]
  <2>1. Statement(c, "supersede", "insert", after)
    BY <1>3 DEF Supersede
  <2>2. /\ Progress(c) /\ draft[c] \in Tables /\ req[c] \in Request
    BY <2>1 DEF TxInv, TxTypeOK, Statement
  <2>3. /\ pc[c] = "supersede" /\ pc'[c] = "insert" /\ draft'[c] = after
        /\ UNCHANGED <<storeVars, req>>
    BY <2>1 DEF Statement, Goto, TxInv, TxTypeOK
  <2>4. Progress(c)'
    BY <2>2, <2>3, DraftFields DEF Progress, storeVars
  <2> HIDE DEF after
  <2>5. QED
    BY <2>1, <2>4, StatementKeepsTxInv
<1>4. ASSUME NEW c \in Callers, InsertMemory(c) PROVE TxInv'
  <2> DEFINE after == [draft[c] EXCEPT !.memories = Inserting(@, HashArg(c))]
  <2>1. Statement(c, "insert", "link", after)
    BY <1>4 DEF InsertMemory
  <2>2. /\ Progress(c) /\ draft[c] \in Tables /\ req[c] \in Request
    BY <2>1 DEF TxInv, TxTypeOK, Statement
  <2>3. /\ pc[c] = "insert" /\ pc'[c] = "link" /\ draft'[c] = after
        /\ UNCHANGED <<storeVars, req>>
    BY <2>1 DEF Statement, Goto, TxInv, TxTypeOK
  <2>4. Progress(c)'
    BY <2>2, <2>3, DraftFields DEF Progress, storeVars, HashArg
  <2> HIDE DEF after
  <2>5. QED
    BY <2>1, <2>4, StatementKeepsTxInv
<1>5. ASSUME NEW c \in Callers, Link(c) PROVE TxInv'
  <2> DEFINE after == [draft[c] EXCEPT !.memories = Linking(@, req[c].supersedes, NewId(c))]
  <2>1. Statement(c, "link", "chunks", after)
    BY <1>5 DEF Link
  <2>2. /\ Progress(c) /\ draft[c] \in Tables /\ req[c] \in Request
    BY <2>1 DEF TxInv, TxTypeOK, Statement
  <2>3. /\ pc[c] = "link" /\ pc'[c] = "chunks" /\ draft'[c] = after
        /\ UNCHANGED <<storeVars, req>>
    BY <2>1 DEF Statement, Goto, TxInv, TxTypeOK
  <2>4. Progress(c)'
    BY <2>2, <2>3, DraftFields, NewIdIsNext DEF Progress, storeVars, Stored
  <2> HIDE DEF after
  <2>5. QED
    BY <2>1, <2>4, StatementKeepsTxInv
<1>6. ASSUME NEW c \in Callers, InsertChunks(c) PROVE TxInv'
  <2> DEFINE after == [draft[c] EXCEPT !.chunks = @ \cup ChunkRows(NewId(c), req[c].content)]
  <2>1. Statement(c, "chunks", "embed", after)
    BY <1>6 DEF InsertChunks
  <2>2. /\ Progress(c) /\ draft[c] \in Tables /\ req[c] \in Request
    BY <2>1 DEF TxInv, TxTypeOK, Statement
  <2>3. /\ pc[c] = "chunks" /\ pc'[c] = "embed" /\ draft'[c] = after
        /\ UNCHANGED <<storeVars, req>>
    BY <2>1 DEF Statement, Goto, TxInv, TxTypeOK
  <2>4. Progress(c)'
    BY <2>2, <2>3, DraftFields, NewIdIsNext DEF Progress, storeVars
  <2> HIDE DEF after
  <2>5. QED
    BY <2>1, <2>4, StatementKeepsTxInv
<1>7. ASSUME NEW c \in Callers, EnqueueEmbed(c) PROVE TxInv'
  <2> DEFINE after == [draft[c] EXCEPT !.tasks = @ \cup {<<NewId(c), "embed">>}]
  <2>1. Statement(c, "embed", "graph", after)
    BY <1>7 DEF EnqueueEmbed
  <2>2. /\ Progress(c) /\ draft[c] \in Tables /\ req[c] \in Request
    BY <2>1 DEF TxInv, TxTypeOK, Statement
  <2>3. /\ pc[c] = "embed" /\ pc'[c] = "graph" /\ draft'[c] = after
        /\ UNCHANGED <<storeVars, req>>
    BY <2>1 DEF Statement, Goto, TxInv, TxTypeOK
  <2>4. Progress(c)'
    BY <2>2, <2>3, DraftFields, NewIdIsNext DEF Progress, storeVars
  <2> HIDE DEF after
  <2>5. QED
    BY <2>1, <2>4, StatementKeepsTxInv
<1>8. ASSUME NEW c \in Callers, EnqueueGraph(c) PROVE TxInv'
  <2> DEFINE after == [draft[c] EXCEPT !.tasks = @ \cup {<<NewId(c), "graph_extract">>}]
  <2>1. Statement(c, "graph", "commit", after)
    BY <1>8 DEF EnqueueGraph
  <2>2. /\ Progress(c) /\ draft[c] \in Tables /\ req[c] \in Request
    BY <2>1 DEF TxInv, TxTypeOK, Statement
  <2>3. /\ pc[c] = "graph" /\ pc'[c] = "commit" /\ draft'[c] = after
        /\ UNCHANGED <<storeVars, req>>
    BY <2>1 DEF Statement, Goto, TxInv, TxTypeOK
  <2>4. after.tasks = tasks \cup TaskRows(Len(memories) + 1)
    <3>1. after.tasks = draft[c].tasks \cup {<<Len(memories) + 1, "graph_extract">>}
      BY <2>2, <2>3, DraftFields, NewIdIsNext
    <3>2. draft[c].tasks = tasks \cup {<<Len(memories) + 1, "embed">>}
      BY <2>2, <2>3 DEF Progress
    <3>3. TaskRows(Len(memories) + 1) =
            {<<Len(memories) + 1, "embed">>, <<Len(memories) + 1, "graph_extract">>}
      BY DEF TaskRows, TaskTypes
    <3>4. QED
      BY <3>1, <3>2, <3>3
  <2>5. Progress(c)'
    BY <2>2, <2>3, <2>4, DraftFields DEF Progress, storeVars
  <2> HIDE DEF after
  <2>6. QED
    BY <2>1, <2>5, StatementKeepsTxInv
<1>9. ASSUME NEW c \in Callers, Commit(c) PROVE TxInv'
  BY <1>9, FinishKeepsTxInv DEF Commit
<1>10. ASSUME NEW c \in Callers, Abort(c) PROVE TxInv'
  BY <1>10, FinishKeepsTxInv DEF Abort, Rollback
<1>11. CASE UNCHANGED txVars
  <2>1. ASSUME NEW c \in Callers PROVE Progress(c)' <=> Progress(c)
    BY <1>11 DEF txVars, Progress
  <2>2. QED
    BY <1>11, <2>1 DEF txVars
<1>12. QED
  BY <1>1, <1>2, <1>3, <1>4, <1>5, <1>6, <1>7, <1>8, <1>9, <1>10, <1>11 DEF TxNext

LEMMA TxInvariant == TxSpec => []TxInv
<1>1. TxInit => TxInv
  BY NoRequestType
     DEF TxInit, TxInv, TxTypeOK, StoreInit, StoreTypeOK, Labels, Empty, Tables
<1>2. QED
  BY <1>1, StepTxInv, PTL DEF TxSpec

(* Committing is the step the abstract store takes; every other statement  *)
(* leaves the tables alone.                                                *)
LEMMA CommitStores ==
  ASSUME TxInv, NEW c \in Callers, Commit(c)
  PROVE  req[c] \in Request /\ Store(req[c])
<1>1. /\ Progress(c) /\ req[c] \in Request /\ pc[c] = "commit"
  BY DEF Commit, TxInv, TxTypeOK
<1>2. QED
  BY <1>1 DEF Commit, Progress, Store, Stored

(* StoreContext behaves like the one-step store: any interleaving of any   *)
(* number of callers, with failures and crashes at every statement, shows  *)
(* the other connections either a whole ingestion or none of it.           *)
THEOREM TransactionIsAtomic == TxSpec => StoreSpec
<1>1. TxInit => StoreInit
  BY DEF TxInit
<1>2. TxInv /\ [TxNext]_txVars => [StoreNext]_storeVars
  <2> SUFFICES ASSUME TxInv, TxNext, storeVars' # storeVars
               PROVE  StoreNext
    BY DEF txVars, storeVars
  <2>1. PICK c \in Callers : Commit(c)
    BY DEF TxNext, Begin, Dedup, Supersede, InsertMemory, Link, InsertChunks,
           EnqueueEmbed, EnqueueGraph, Abort, Statement, Rollback
  <2>2. QED
    BY <2>1, CommitStores DEF StoreNext
<1>3. QED
  BY <1>1, <1>2, TxInvariant, PTL DEF TxSpec, StoreSpec

(* A document is active at most once, under every interleaving.            *)
THEOREM OneActiveCopy == TxSpec => []UniqueActive
<1>1. StoreInv => UniqueActive
  BY DEF StoreInv
<1>2. QED
  BY <1>1, TransactionIsAtomic, StoreInvariant, PTL

(* Replacements always lead forward, so no chain of them is circular.      *)
THEOREM ReplacementsLeadForward == TxSpec => []SupersededLeadsForward
<1>1. StoreInv => SupersededLeadsForward
  BY DEF StoreInv
<1>2. QED
  BY <1>1, TransactionIsAtomic, StoreInvariant, PTL

(* What one store does to the rows, field by field.                        *)
LEMMA StoredFields ==
  ASSUME StoreInv, NEW r \in Request, Store(r)
  PROVE  /\ Len(memories') = Len(memories) + 1
         /\ \A i \in 1..Len(memories) :
              /\ memories'[i].hash = memories[i].hash
              /\ i = r.supersedes =>
                   /\ memories'[i].status = "superseded"
                   /\ memories'[i].superseded_by = Len(memories) + 1
              /\ i # r.supersedes => memories'[i] = memories[i]
         /\ memories'[Len(memories) + 1].hash = HashOf[r.content]
<1>1. memories \in Seq(Memory) /\ memories' = Stored(memories, r)
  BY DEF StoreInv, StoreTypeOK, Store, Stored
<1>2. /\ Len(memories') = Len(memories) + 1
      /\ \A i \in 1..Len(memories) :
           memories'[i] =
             IF i = r.supersedes
             THEN [hash |-> memories[i].hash, status |-> "superseded",
                   superseded_by |-> Len(memories) + 1]
             ELSE memories[i]
      /\ memories'[Len(memories) + 1] =
           [hash |-> HashOf[r.content], status |-> "active",
            superseded_by |->
              IF r.supersedes = Len(memories) + 1 THEN Len(memories) + 1 ELSE None]
  BY <1>1, StoredRows
<1>3. ASSUME NEW i \in 1..Len(memories), i = r.supersedes
      PROVE  /\ memories'[i].hash = memories[i].hash
             /\ memories'[i].status = "superseded"
             /\ memories'[i].superseded_by = Len(memories) + 1
  <2>1. memories'[i] = [hash |-> memories[i].hash, status |-> "superseded",
                        superseded_by |-> Len(memories) + 1]
    BY <1>2, <1>3
  <2>2. QED
    BY <2>1
<1>4. ASSUME NEW i \in 1..Len(memories), i # r.supersedes
      PROVE  memories'[i] = memories[i]
  BY <1>2, <1>4
<1>5. memories'[Len(memories) + 1].hash = HashOf[r.content]
  BY <1>2
<1>6. QED
  BY <1>2, <1>3, <1>4, <1>5

(* Rows are never removed or revived, and replacements only move forward.  *)
THEOREM HistoryIsKept == TxSpec => HistoryKept
<1>1. StoreInv /\ [StoreNext]_storeVars =>
        [/\ Len(memories') >= Len(memories)
         /\ \A i \in DOMAIN memories :
              /\ memories'[i].hash = memories[i].hash
              /\ memories[i].status = "superseded" => memories'[i].status = "superseded"
              /\ memories'[i].superseded_by >= memories[i].superseded_by]_storeVars
  <2> SUFFICES ASSUME StoreInv, NEW r \in Request, Store(r)
               PROVE  /\ Len(memories') >= Len(memories)
                      /\ \A i \in DOMAIN memories :
                           /\ memories'[i].hash = memories[i].hash
                           /\ memories[i].status = "superseded" =>
                                memories'[i].status = "superseded"
                           /\ memories'[i].superseded_by >= memories[i].superseded_by
    BY DEF StoreNext
  <2>1. /\ memories \in Seq(Memory) /\ Len(memories) \in Nat
        /\ DOMAIN memories = 1..Len(memories)
    BY DEF StoreInv, StoreTypeOK
  <2>2. Len(memories') >= Len(memories)
    BY <2>1, StoredFields
  <2>3. ASSUME NEW i \in 1..Len(memories)
        PROVE  /\ memories[i].superseded_by \in Nat
               /\ memories[i].superseded_by <= Len(memories) + 1
    <3>1. memories[i].superseded_by \in Nat
      BY <2>1, MemoryFields
    <3>2. QED
      BY <2>1, <3>1 DEF StoreInv, SupersededLeadsForward, None
  <2>4. ASSUME NEW i \in 1..Len(memories)
        PROVE  /\ memories'[i].hash = memories[i].hash
               /\ memories[i].status = "superseded" => memories'[i].status = "superseded"
               /\ memories'[i].superseded_by >= memories[i].superseded_by
    <3>1. CASE i = r.supersedes
      BY <2>1, <2>3, <3>1, StoredFields
    <3>2. CASE i # r.supersedes
      BY <2>1, <2>3, <3>2, StoredFields
    <3>3. QED
      BY <3>1, <3>2
  <2>5. QED
    BY <2>1, <2>2, <2>4
<1>2. QED
  BY <1>1, TransactionIsAtomic, StoreInvariant, PTL DEF StoreSpec, HistoryKept

(* The write lock keeps the answer of the dedup check true of the tables   *)
(* all connections see until the call commits or fails, whatever the other *)
(* callers do meanwhile.                                                   *)
THEOREM DedupSeesEverything == TxSpec => []DedupStaysTrue
<1>1. TxInv => DedupStaysTrue
  <2> SUFFICES ASSUME TxInv, NEW c \in Callers, pc[c] \notin {"idle", "dedup"}
               PROVE  Admitted(memories, req[c])
    BY DEF DedupStaysTrue
  <2>1. Progress(c)
    BY DEF TxInv
  <2>2. QED
    BY <2>1 DEF Progress
<1>2. QED
  BY <1>1, TxInvariant, PTL

(* No connection ever sees a memory without its chunks and its two tasks,  *)
(* nor a chunk or a task without its memory.                               *)
THEOREM IngestionIsWhole == TxSpec => []AllOrNothing
<1>1. StoreInit => AllOrNothing
  BY DEF StoreInit, AllOrNothing
<1>2. StoreInv /\ AllOrNothing /\ [StoreNext]_storeVars => AllOrNothing'
  <2>1. ASSUME StoreInv, AllOrNothing, NEW r \in Request, Store(r)
        PROVE  AllOrNothing'
    <3> DEFINE n == Len(memories)
    <3>1. /\ memories \in Seq(Memory) /\ n \in Nat /\ DOMAIN memories = 1..n
          /\ memories' \in Seq(Memory) /\ DOMAIN memories' = 1..n + 1
          /\ r.content \in Contents
      BY <2>1, StoreKeepsInv, StoredFields DEF StoreInv, StoreTypeOK, Request
    <3>2. \A i \in 1..n + 1 : i \in 1..n \/ i = n + 1
      BY <3>1
    <3>3. tasks' = UNION {TaskRows(i) : i \in 1..n + 1}
      <4>1. tasks = UNION {TaskRows(i) : i \in 1..n} /\ tasks' = tasks \cup TaskRows(n + 1)
        BY <2>1, <3>1 DEF AllOrNothing, Store
      <4>2. n + 1 \in 1..n + 1 /\ \A i \in 1..n : i \in 1..n + 1
        BY <3>1
      <4>3. QED
        BY <3>2, <4>1, <4>2
    <3>4. /\ chunks' = chunks \cup ChunkRows(n + 1, r.content)
          /\ \A k \in ChunkRows(n + 1, r.content) : k[1] = n + 1
          /\ \A k \in chunks : k[1] \in 1..n
      BY <2>1, <3>1 DEF Store, ChunkRows, AllOrNothing
    <3>5. ASSUME NEW i \in 1..n
          PROVE  \E d \in Contents : /\ HashOf[d] = memories'[i].hash
                                     /\ {k \in chunks' : k[1] = i} = ChunkRows(i, d)
      <4>1. memories'[i].hash = memories[i].hash
        BY <2>1, StoredFields
      <4>2. {k \in chunks' : k[1] = i} = {k \in chunks : k[1] = i}
        BY <3>1, <3>4
      <4>3. QED
        BY <2>1, <3>1, <4>1, <4>2 DEF AllOrNothing
    <3>6. \E d \in Contents : /\ HashOf[d] = memories'[n + 1].hash
                              /\ {k \in chunks' : k[1] = n + 1} = ChunkRows(n + 1, d)
      <4>1. memories'[n + 1].hash = HashOf[r.content]
        BY <2>1, StoredFields
      <4>2. {k \in chunks' : k[1] = n + 1} = ChunkRows(n + 1, r.content)
        BY <3>1, <3>4
      <4>3. QED
        BY <3>1, <4>1, <4>2
    <3>7. \A k \in chunks' : k[1] \in 1..n + 1
      BY <3>1, <3>4
    <3>8. QED
      BY <3>1, <3>2, <3>3, <3>5, <3>6, <3>7 DEF AllOrNothing
  <2>2. CASE UNCHANGED storeVars
    BY <2>2 DEF storeVars, AllOrNothing
  <2>3. QED
    BY <2>1, <2>2 DEF StoreNext
<1>3. QED
  BY <1>1, <1>2, TransactionIsAtomic, StoreInvariant, PTL DEF StoreSpec

(* An id that a call returned stays good for the document of that call.    *)
THEOREM AcknowledgedIsStored == TxSpec => []AckedIsStored
<1>1. TxInit => AckedIsStored
  BY DEF TxInit, AckedIsStored
<1>2. TxInv /\ StoreInv /\ AckedIsStored /\ [TxNext]_txVars => AckedIsStored'
  <2> SUFFICES ASSUME TxInv, StoreInv, AckedIsStored, [TxNext]_txVars
               PROVE  AckedIsStored'
    OBVIOUS
  <2>1. DOMAIN memories = 1..Len(memories) /\ Len(memories) \in Nat
    BY DEF StoreInv, StoreTypeOK
  <2>2. CASE \E c \in Callers : Commit(c)
    <3>1. PICK c \in Callers : Commit(c)
      BY <2>2
    <3>2. req[c] \in Request /\ Store(req[c]) /\ NewId(c) = Len(memories) + 1
      BY <3>1, CommitStores, NewIdIsNext DEF Commit
    <3>3. /\ acked' = acked \cup {<<HashArg(c), Len(memories) + 1>>}
          /\ memories' \in Seq(Memory)
      BY <3>1, <3>2, StoreKeepsInv DEF Commit, Ack, StoreInv, StoreTypeOK
    <3>4. /\ Len(memories') = Len(memories) + 1
          /\ \A i \in 1..Len(memories) : memories'[i].hash = memories[i].hash
          /\ memories'[Len(memories) + 1].hash = HashArg(c)
      BY <3>2, StoredFields DEF HashArg
    <3>5. DOMAIN memories' = 1..Len(memories) + 1
      BY <3>3, <3>4
    <3>6. ASSUME NEW a \in acked
          PROVE  a[2] \in DOMAIN memories' /\ memories'[a[2]].hash = a[1]
      BY <2>1, <3>4, <3>5 DEF AckedIsStored
    <3>7. QED
      BY <2>1, <3>3, <3>4, <3>5, <3>6 DEF AckedIsStored
  <2>3. CASE \E c \in Callers : Dedup(c)
    <3>1. PICK c \in Callers : Dedup(c)
      BY <2>3
    <3>2. UNCHANGED storeVars /\ draft[c].memories = memories
      BY <3>1 DEF Dedup, Rollback, TxInv, Progress, storeVars
    <3>3. acked' = acked \/ \E id \in Active(memories, HashArg(c)) : Ack(c, id)
      BY <3>1, <3>2 DEF Dedup, Rollback
    <3>4. QED
      BY <3>2, <3>3 DEF storeVars, AckedIsStored, Ack, Active
  <2>4. CASE UNCHANGED <<storeVars, acked>>
    BY <2>4 DEF storeVars, AckedIsStored
  <2>5. QED
    BY <2>2, <2>3, <2>4
       DEF TxNext, Begin, Supersede, InsertMemory, Link, InsertChunks, EnqueueEmbed,
           EnqueueGraph, Abort, Statement, Rollback, txVars, storeVars
<1>3. QED
  BY <1>1, <1>2, TxInvariant, TransactionIsAtomic, StoreInvariant, PTL DEF TxSpec
=============================================================================

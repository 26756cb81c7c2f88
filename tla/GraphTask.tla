----------------------------- MODULE GraphTask ------------------------------
(***************************************************************************)
(* The graph_extract branch of ExecuteTask (src/core/worker/tasks.go).     *)
(* The language model names the nodes and the edges of a memory; the       *)
(* worker upserts the nodes one by one, then records each edge between two *)
(* known nodes as evidence and defers the others, and finally turns every  *)
(* deferred edge, of any memory, whose nodes have appeared into evidence.  *)
(* Each statement commits on its own and other workers run in between, so  *)
(* a node may appear between the lookup of an edge and its deferral.       *)
(*                                                                         *)
(* Names are canonical (CanonicalizeName); relations that are not allowed  *)
(* and the relation of an edge are left out.                               *)
(***************************************************************************)
EXTENDS Integers, Sequences

CONSTANTS
  Workers,
  Memories,      \* memories, each with its graph_extract task
  NoMemory,
  Names,         \* canonical names
  Blank,         \* the empty one
  AllowedTypes,  \* allowedNodeTypes
  Outputs,       \* what ExtractEntities may return for each memory:
                 \* records [nodes : set of <<type, name>>,
                 \*          edges : set of <<source name, target name>>]
  MaxAttempts,   \* attempt_count < 5, in the WHERE of LeaseNextTask
  MaxOverruns,   \* bound: leases that run out under a live worker
  MaxGlitches    \* bound: INSERTs whose error is only logged

ASSUME GraphTaskAssumption ==
  /\ NoMemory \notin Memories
  /\ Blank \in Names
  /\ \A m \in Memories : \A out \in Outputs[m] :
       /\ out.edges \subseteq Names \X Names
       /\ \A n \in out.nodes : n[1] \in AllowedTypes => n \in AllowedTypes \X Names
  /\ MaxAttempts \in Nat /\ MaxOverruns \in Nat /\ MaxGlitches \in Nat

VARIABLES
  nodes,         \* rows of kg_nodes, by id: <<type, canonical_name>>
  evidence,      \* rows of kg_edge_evidence: <<source id, target id, memory>>
  unresolved,    \* rows of kg_unresolved_edges: <<source, target, memory>>
  status,        \* of the task of each memory
  attempts,      \* its attempt_count
  overruns, glitches,
  pc,            \* what each worker does
  task,          \* the memory whose task it executes
  attempt,       \* the attempt_count its lease returned
  answer,        \* kg.Edges
  nodesLeft,     \* the nodes and edges it has not handled yet
  edgesLeft,
  nodeIDs,       \* set of <<name, id>>: the last upsert of each name
  hand,          \* the edge at hand: <<source, target, source id, target id>>
  claimed        \* history: edges of completed attempts, <<s, t, memory>>

tables == <<nodes, evidence, unresolved>>
queue  == <<status, attempts, overruns>>
local  == <<task, attempt, answer>>
work   == <<nodesLeft, edgesLeft, nodeIDs, hand>>
vars   == <<tables, queue, glitches, pc, local, work, claimed>>

Missing == -1                   \* okS or okT is false
Ids     == DOMAIN nodes
Edge    == Names \X Names
IdOrNone == Nat \cup {Missing}  \* 0 is the id of an upsert that failed
NoHand  == <<Blank, Blank, Missing, Missing>>

TypeOK ==
  /\ nodes \in Seq(AllowedTypes \X Names)
  /\ evidence \subseteq Nat \X Nat \X Memories
  /\ unresolved \subseteq Names \X Names \X Memories
  /\ status \in [Memories -> {"pending", "processing", "completed", "failed"}]
  /\ attempts \in [Memories -> 0..MaxAttempts]
  /\ overruns \in 0..MaxOverruns
  /\ glitches \in 0..MaxGlitches
  /\ pc \in [Workers -> {"idle", "extract", "nodes", "edges", "write", "complete"}]
  /\ task \in [Workers -> Memories \cup {NoMemory}]
  /\ attempt \in [Workers -> 0..MaxAttempts]
  /\ answer \in [Workers -> SUBSET Edge]
  /\ nodesLeft \in [Workers -> SUBSET (AllowedTypes \X Names)]
  /\ edgesLeft \in [Workers -> SUBSET Edge]
  /\ nodeIDs \in [Workers -> SUBSET (Names \X Nat)]
  /\ hand \in [Workers -> Names \X Names \X IdOrNone \X IdOrNone]
  /\ claimed \subseteq Names \X Names \X Memories

Named(name) == {id \in Ids : nodes[id][2] = name}

Init ==
  /\ nodes = <<>>
  /\ evidence = {}
  /\ unresolved = {}
  /\ status = [m \in Memories |-> "pending"]
  /\ attempts = [m \in Memories |-> 0]
  /\ overruns = 0
  /\ glitches = 0
  /\ pc = [w \in Workers |-> "idle"]
  /\ task = [w \in Workers |-> NoMemory]
  /\ attempt = [w \in Workers |-> 0]
  /\ answer = [w \in Workers |-> {}]
  /\ nodesLeft = [w \in Workers |-> {}]
  /\ edgesLeft = [w \in Workers |-> {}]
  /\ nodeIDs = [w \in Workers |-> {}]
  /\ hand = [w \in Workers |-> NoHand]
  /\ claimed = {}

Goto(w, label) == pc' = [pc EXCEPT ![w] = label]

Leave(w) ==
  /\ Goto(w, "idle")
  /\ task' = [task EXCEPT ![w] = NoMemory]
  /\ attempt' = [attempt EXCEPT ![w] = 0]
  /\ answer' = [answer EXCEPT ![w] = {}]
  /\ nodesLeft' = [nodesLeft EXCEPT ![w] = {}]
  /\ edgesLeft' = [edgesLeft EXCEPT ![w] = {}]
  /\ nodeIDs' = [nodeIDs EXCEPT ![w] = {}]
  /\ hand' = [hand EXCEPT ![w] = NoHand]

-----------------------------------------------------------------------------
(* LeaseNextTask; if the holder of the task still runs, that is an overrun *)
Lease(w, m) ==
  /\ pc[w] = "idle"
  /\ status[m] \in {"pending", "processing"}
  /\ attempts[m] < MaxAttempts
  /\ IF status[m] = "processing" /\ \E v \in Workers : task[v] = m
     THEN overruns < MaxOverruns /\ overruns' = overruns + 1
     ELSE UNCHANGED overruns
  /\ status' = [status EXCEPT ![m] = "processing"]
  /\ attempts' = [attempts EXCEPT ![m] = @ + 1]
  /\ task' = [task EXCEPT ![w] = m]
  /\ attempt' = [attempt EXCEPT ![w] = attempts[m] + 1]
  /\ Goto(w, "extract")
  /\ UNCHANGED <<tables, glitches, answer, work, claimed>>

(* ExtractEntities answers; nodes of other types or without a name are     *)
(* skipped by the first loop.                                              *)
Extract(w) ==
  /\ pc[w] = "extract"
  /\ \E out \in Outputs[task[w]] :
       /\ answer' = [answer EXCEPT ![w] = out.edges]
       /\ nodesLeft' = [nodesLeft EXCEPT ![w] =
                          {n \in out.nodes : n[1] \in AllowedTypes /\ n[2] # Blank}]
       /\ edgesLeft' = [edgesLeft EXCEPT ![w] = out.edges]
  /\ Goto(w, "nodes")
  /\ UNCHANGED <<tables, queue, glitches, task, attempt, nodeIDs, hand, claimed>>

Remember(w, name, id) ==
  nodeIDs' = [nodeIDs EXCEPT ![w] = {p \in @ : p[1] # name} \cup {<<name, id>>}]

(* INSERT INTO kg_nodes ... ON CONFLICT DO UPDATE ... RETURNING id         *)
Upsert(w) ==
  \E n \in nodesLeft[w] :
    /\ pc[w] = "nodes"
    /\ \/ \E id \in Ids : /\ nodes[id] = n
                          /\ Remember(w, n[2], id)
                          /\ UNCHANGED nodes
       \/ /\ \A id \in Ids : nodes[id] # n
          /\ nodes' = Append(nodes, n)
          /\ Remember(w, n[2], Len(nodes) + 1)
    /\ nodesLeft' = [nodesLeft EXCEPT ![w] = @ \ {n}]
    /\ UNCHANGED <<evidence, unresolved, queue, glitches, pc, local, edgesLeft,
                   hand, claimed>>

(* The upsert fails and so does the fallback: the id stays 0 and is kept.  *)
UpsertFails(w) ==
  \E n \in nodesLeft[w] :
    /\ pc[w] = "nodes"
    /\ glitches < MaxGlitches
    /\ glitches' = glitches + 1
    /\ Remember(w, n[2], 0)
    /\ nodesLeft' = [nodesLeft EXCEPT ![w] = @ \ {n}]
    /\ UNCHANGED <<tables, queue, pc, local, edgesLeft, hand, claimed>>

NodesDone(w) ==
  /\ pc[w] = "nodes"
  /\ nodesLeft[w] = {}
  /\ Goto(w, "edges")
  /\ UNCHANGED <<tables, queue, glitches, local, work, claimed>>

(* Mutant: a lookup that finds no row counts as found, with id 0.          *)
LookupZero(w, name) ==
  LET own == {p[2] : p \in {q \in nodeIDs[w] : q[1] = name}}
  IN  IF own # {} THEN own ELSE Named(name) \cup {0}

(* The id of a name: from the nodes of this answer, else of any node that  *)
(* has the name, whatever its type.  The error of the SELECT is dropped:   *)
(* if it fails, that is as if there were no such node.                     *)
Lookup(w, name) ==
  LET own == {p[2] : p \in {q \in nodeIDs[w] : q[1] = name}}
  IN  IF own # {} THEN own ELSE Named(name) \cup {Missing}

ResolveEdge(w) ==
  \E e \in edgesLeft[w] : \E s \in Lookup(w, e[1]), t \in Lookup(w, e[2]) :
    /\ pc[w] = "edges"
    /\ hand' = [hand EXCEPT ![w] = <<e[1], e[2], s, t>>]
    /\ edgesLeft' = [edgesLeft EXCEPT ![w] = @ \ {e}]
    /\ Goto(w, "write")
    /\ UNCHANGED <<tables, queue, glitches, local, nodesLeft, nodeIDs, claimed>>

Resolved(h) == h[3] # Missing /\ h[4] # Missing

(* Back to the loop over the edges.                                        *)
Written(w) ==
  /\ pc[w] = "write"
  /\ hand' = [hand EXCEPT ![w] = NoHand]
  /\ Goto(w, "edges")
  /\ UNCHANGED <<nodes, queue, local, nodesLeft, edgesLeft, nodeIDs, claimed>>

(* INSERT OR IGNORE INTO kg_edge_evidence, or deferUnresolvedEdge (which   *)
(* drops an edge without a name).                                          *)
WriteEdge(w) ==
  LET h == hand[w]
  IN  /\ Written(w)
      /\ IF Resolved(h)
         THEN /\ evidence' = evidence \cup {<<h[3], h[4], task[w]>>}
              /\ UNCHANGED unresolved
         ELSE /\ unresolved' = IF Blank \in {h[1], h[2]} THEN unresolved
                               ELSE unresolved \cup {<<h[1], h[2], task[w]>>}
              /\ UNCHANGED evidence
      /\ UNCHANGED glitches

(* The INSERT fails (also on a foreign key, where the connection checks    *)
(* them): the error is logged and the loop goes on.                        *)
WriteFails(w) ==
  /\ Written(w)
  /\ \/ 0 \in {hand[w][3], hand[w][4]} /\ UNCHANGED glitches
     \/ glitches < MaxGlitches /\ glitches' = glitches + 1
  /\ UNCHANGED <<evidence, unresolved>>

(* Mutant: one of the two nodes is enough.                                 *)
ReadyHalf == {u \in unresolved : Named(u[1]) # {} \/ Named(u[2]) # {}}

(* Deferred edges whose source and target nodes exist by now.              *)
Ready == {u \in unresolved : Named(u[1]) # {} /\ Named(u[2]) # {}}

(* Mutant: only deferred edges of the worker's own memory are looked at.   *)
ReconcileOwn(w) ==
  LET own == {u \in Ready : u[3] = task[w]}
  IN  /\ pc[w] = "edges"
      /\ edgesLeft[w] = {}
      /\ evidence' = evidence \cup
           UNION {Named(u[1]) \X Named(u[2]) \X {u[3]} : u \in own}
      /\ unresolved' = unresolved \ own
      /\ Goto(w, "complete")
      /\ UNCHANGED <<nodes, queue, glitches, local, work, claimed>>

(* reconcileUnresolvedEdges, one transaction: the join gives a row for     *)
(* every node of either name.                                              *)
Reconcile(w) ==
  /\ pc[w] = "edges"
  /\ edgesLeft[w] = {}
  /\ evidence' = evidence \cup
       UNION {Named(u[1]) \X Named(u[2]) \X {u[3]} : u \in Ready}
  /\ unresolved' = unresolved \ Ready
  /\ Goto(w, "complete")
  /\ UNCHANGED <<nodes, queue, glitches, local, work, claimed>>

(* UPDATE async_tasks SET status = 'completed' ... WHERE id = ?            *)
Complete(w) ==
  /\ pc[w] = "complete"
  /\ status' = [status EXCEPT ![task[w]] = "completed"]
  /\ claimed' = claimed \cup {<<e[1], e[2], task[w]>> : e \in answer[w]}
  /\ Leave(w)
  /\ UNCHANGED <<tables, attempts, overruns, glitches>>

(* The model or a transaction fails: back to the queue, or given up.       *)
Fail(w) ==
  /\ pc[w] \in {"extract", "edges", "complete"}
  /\ pc[w] = "edges" => edgesLeft[w] = {}
  /\ status' = [status EXCEPT ![task[w]] =
                  IF attempt[w] >= MaxAttempts THEN "failed" ELSE "pending"]
  /\ Leave(w)
  /\ UNCHANGED <<tables, attempts, overruns, glitches, claimed>>

(* SIGTERM or a crash in the middle of the task.                           *)
Die(w) ==
  /\ pc[w] # "idle"
  /\ Leave(w)
  /\ UNCHANGED <<tables, queue, glitches, claimed>>

Next ==
  \E w \in Workers :
    \/ \E m \in Memories : Lease(w, m)
    \/ Extract(w)
    \/ Upsert(w)
    \/ UpsertFails(w)
    \/ NodesDone(w)
    \/ ResolveEdge(w)
    \/ WriteEdge(w)
    \/ WriteFails(w)
    \/ Reconcile(w)
    \/ Complete(w)
    \/ Fail(w)
    \/ Die(w)

Spec == Init /\ [][Next]_vars

-----------------------------------------------------------------------------
Calm == overruns = 0 /\ glitches = 0

Evident(s, t, m) == \E i \in Named(s), j \in Named(t) : <<i, j, m>> \in evidence

(* "Cross-memory task ordering does not permanently lose valid KG          *)
(* evidence" (db.go): once every task is completed, each edge they         *)
(* extracted between two names that are nodes by now is evidence,          *)
(* whichever memory was handled first, and wherever other workers, crashes *)
(* and new attempts came in between, also if a lookup failed: that only    *)
(* defers the edge.  (Not so if a lease runs out under a live worker or    *)
(* the error of an INSERT is swallowed.)                                   *)
EvidenceComplete ==
  Calm /\ (\A m \in Memories : status[m] = "completed") =>
    \A c \in claimed :
      Named(c[1]) # {} /\ Named(c[2]) # {} => Evident(c[1], c[2], c[3])

(* Evidence is never invented: a row joins two nodes that exist and whose  *)
(* names the model may have connected for that memory, although ids are    *)
(* looked up by name alone and kept across statements of other workers.    *)
EvidenceSound ==
  glitches = 0 =>
    \A ev \in evidence :
      /\ ev[1] \in Ids /\ ev[2] \in Ids
      /\ \E out \in Outputs[ev[3]] :
           <<nodes[ev[1]][2], nodes[ev[2]][2]>> \in out.edges

(* A deferred edge leaves the table only by becoming evidence.             *)
DeferredNeverDropped ==
  [][\A u \in unresolved \ unresolved' : Evident(u[1], u[2], u[3])']_vars
=============================================================================

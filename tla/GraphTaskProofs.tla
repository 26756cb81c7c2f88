-------------------------- MODULE GraphTaskProofs ---------------------------
(***************************************************************************)
(* Proofs about GraphTask: for any set of workers, memories and answers of *)
(* the model, evidence is never invented, a deferred edge is never         *)
(* dropped, and once every task is completed no edge between two nodes is  *)
(* missing.                                                                *)
(*                                                                         *)
(* The argument for the last: an edge a worker has handled is evidence or  *)
(* deferred (Handled), and whenever both nodes of a deferred edge exist,   *)
(* some task is not completed whose worker has not reconciled since        *)
(* (SomeoneReconciles).  A worker that creates a node or defers an edge    *)
(* reconciles before it completes, and if it dies the task is leased       *)
(* again.                                                                  *)
(***************************************************************************)
EXTENDS GraphTask, SequenceTheorems, TLAPS

(* Who executes what.                                                      *)
Assigned ==
  \A w \in Workers : /\ pc[w] = "idle" <=> task[w] = NoMemory
                     /\ pc[w] # "idle" => task[w] \in Memories
                     /\ pc[w] = "complete" => edgesLeft[w] = {}

(* Nodes have names.                                                       *)
NoBlankNode ==
  /\ \A id \in Ids : nodes[id][2] # Blank
  /\ \A w \in Workers : \A n \in nodesLeft[w] : n[2] # Blank

Shape == TypeOK /\ Assigned /\ NoBlankNode

(* The ids in the memory of a worker are those of the names it keeps them  *)
(* under.                                                                  *)
IdOf(id, name) == id \in Ids /\ nodes[id][2] = name

IdsFit ==
  \A w \in Workers :
    /\ \A p \in nodeIDs[w] : IdOf(p[2], p[1])
    /\ hand[w][3] # Missing => IdOf(hand[w][3], hand[w][1])
    /\ hand[w][4] # Missing => IdOf(hand[w][4], hand[w][2])

(* Edges come from the model.                                              *)
Extracted(s, t, m) == \E out \in Outputs[m] : <<s, t>> \in out.edges

EdgesFit ==
  /\ \A w \in Workers : pc[w] \notin {"idle", "extract"} =>
       /\ \A e \in edgesLeft[w] : Extracted(e[1], e[2], task[w])
       /\ pc[w] = "write" => Extracted(hand[w][1], hand[w][2], task[w])
  /\ \A u \in unresolved : Extracted(u[1], u[2], u[3])

SoundInv == glitches = 0 => IdsFit /\ EdgesFit /\ EvidenceSound

(* Without an overrun a task has one worker, and is processing.            *)
Exclusive ==
  \A w \in Workers : pc[w] # "idle" =>
    /\ status[task[w]] = "processing"
    /\ \A v \in Workers : task[v] = task[w] => v = w

(* An edge that was handled is evidence, or deferred, or has no name.      *)
Settled(s, t, m) ==
  Evident(s, t, m) \/ <<s, t, m>> \in unresolved \/ Blank \in {s, t}

Handled ==
  /\ \A w \in Workers : pc[w] \notin {"idle", "extract"} =>
       \A e \in answer[w] :
         \/ e \in edgesLeft[w]
         \/ pc[w] = "write" /\ e = <<hand[w][1], hand[w][2]>>
         \/ Settled(e[1], e[2], task[w])
  /\ \A c \in claimed : Settled(c[1], c[2], c[3])

(* If a deferred edge can be resolved, there is a task that will do it     *)
(* before it can be completed.                                             *)
Reconciles(m) ==
  status[m] # "completed" /\ \A w \in Workers : task[w] = m => pc[w] # "complete"

SomeoneReconciles == Ready # {} => \E m \in Memories : Reconciles(m)

CompleteInv == Calm => Exclusive /\ Handled /\ SomeoneReconciles

Inv == Shape /\ SoundInv /\ CompleteInv

-----------------------------------------------------------------------------
(* Types, and what goes with them.                                         *)
LEMMA InitShape == Init => Shape
<1> SUFFICES ASSUME Init PROVE Shape
  OBVIOUS
<1> USE GraphTaskAssumption DEF Init
<1>1. nodes \in Seq(AllowedTypes \X Names) /\ Ids = {}
  BY EmptySeq DEF Ids
<1>2. TypeOK
  BY <1>1 DEF TypeOK, NoHand, Missing, IdOrNone
<1>3. Assigned /\ NoBlankNode
  BY <1>1 DEF Assigned, NoBlankNode
<1>4. QED
  BY <1>2, <1>3 DEF Shape

LEMMA NodesType ==
  ASSUME TypeOK
  PROVE  /\ Len(nodes) \in Nat /\ Ids = 1..Len(nodes) /\ Ids \subseteq Nat
         /\ \A id \in Ids : nodes[id] \in AllowedTypes \X Names
  BY LenProperties, ElementOfSeq DEF TypeOK, Ids

(* INSERT adds a row and leaves the others where they are.                 *)
LEMMA InsertNode ==
  ASSUME TypeOK, NEW n \in AllowedTypes \X Names, nodes' = Append(nodes, n)
  PROVE  /\ nodes' \in Seq(AllowedTypes \X Names)
         /\ Ids' = 1..Len(nodes) + 1
         /\ \A id \in Ids : id \in Ids' /\ nodes'[id] = nodes[id]
         /\ Len(nodes) + 1 \in Ids'
         /\ nodes'[Len(nodes) + 1] = n
<1>1. nodes \in Seq(AllowedTypes \X Names)
  BY DEF TypeOK
<1>2. /\ nodes' \in Seq(AllowedTypes \X Names)
      /\ Len(nodes') = Len(nodes) + 1
      /\ \A i \in 1..Len(nodes) : nodes'[i] = nodes[i]
      /\ nodes'[Len(nodes) + 1] = n
  BY <1>1, AppendProperties
<1>3. QED
  BY <1>2, NodesType, LenProperties DEF Ids

LEMMA LookupType ==
  ASSUME TypeOK, NEW w \in Workers, NEW name \in Names, NEW id \in Lookup(w, name)
  PROVE  id \in IdOrNone
<1>1. \A p \in nodeIDs[w] : p[2] \in Nat
  BY DEF TypeOK
<1>2. Named(name) \subseteq Nat
  BY NodesType DEF Named
<1>3. QED
  BY <1>1, <1>2 DEF Lookup, IdOrNone

LEMMA LeaveShape ==
  ASSUME TypeOK, Assigned, NEW w \in Workers, Leave(w)
  PROVE  /\ pc' \in [Workers -> {"idle", "extract", "nodes", "edges", "write", "complete"}]
         /\ task' \in [Workers -> Memories \cup {NoMemory}]
         /\ attempt' \in [Workers -> 0..MaxAttempts]
         /\ answer' \in [Workers -> SUBSET Edge]
         /\ nodesLeft' \in [Workers -> SUBSET (AllowedTypes \X Names)]
         /\ edgesLeft' \in [Workers -> SUBSET Edge]
         /\ nodeIDs' \in [Workers -> SUBSET (Names \X Nat)]
         /\ hand' \in [Workers -> Names \X Names \X IdOrNone \X IdOrNone]
         /\ Assigned'
<1> USE GraphTaskAssumption
<1>1. NoHand \in Names \X Names \X IdOrNone \X IdOrNone
  BY DEF NoHand, IdOrNone, Missing
<1>2. Assigned'
  BY DEF TypeOK, Assigned, Leave, Goto
<1>3. QED
  BY <1>1, <1>2 DEF TypeOK, Leave, Goto

LEMMA StepTypeOK == Shape /\ [Next]_vars => TypeOK'
<1> SUFFICES ASSUME Shape, [Next]_vars PROVE TypeOK'
  OBVIOUS
<1> USE GraphTaskAssumption
<1>0. TypeOK /\ Assigned
  BY DEF Shape
<1>1. ASSUME NEW w \in Workers, NEW m \in Memories, Lease(w, m) PROVE TypeOK'
  <2>1. overruns' \in 0..MaxOverruns
    BY <1>0, <1>1 DEF Lease, TypeOK
  <2>2. attempts[m] + 1 \in 0..MaxAttempts
    BY <1>0, <1>1 DEF Lease, TypeOK
  <2>3. QED
    BY <1>0, <1>1, <2>1, <2>2 DEF Lease, TypeOK, Goto, tables, work
<1>2. ASSUME NEW w \in Workers, Extract(w) PROVE TypeOK'
  <2>1. task[w] \in Memories
    BY <1>0, <1>2 DEF Extract, Assigned
  <2>2. PICK out \in Outputs[task[w]] :
          /\ answer' = [answer EXCEPT ![w] = out.edges]
          /\ nodesLeft' = [nodesLeft EXCEPT ![w] =
                             {n \in out.nodes : n[1] \in AllowedTypes /\ n[2] # Blank}]
          /\ edgesLeft' = [edgesLeft EXCEPT ![w] = out.edges]
    BY <1>2 DEF Extract
  <2>3. /\ out.edges \subseteq Edge
        /\ {n \in out.nodes : n[1] \in AllowedTypes /\ n[2] # Blank}
             \subseteq AllowedTypes \X Names
    BY <2>1 DEF Edge
  <2>4. QED
    BY <1>0, <1>2, <2>2, <2>3 DEF Extract, TypeOK, Goto, tables, queue
<1>3. ASSUME NEW w \in Workers, Upsert(w) PROVE TypeOK'
  <2>1. PICK n \in nodesLeft[w] :
          /\ \/ \E id \in Ids : Remember(w, n[2], id) /\ nodes' = nodes
             \/ nodes' = Append(nodes, n) /\ Remember(w, n[2], Len(nodes) + 1)
          /\ nodesLeft' = [nodesLeft EXCEPT ![w] = @ \ {n}]
    BY <1>3 DEF Upsert
  <2>2. n \in AllowedTypes \X Names /\ n[2] \in Names
    BY <1>0 DEF TypeOK
  <2>3. nodes' \in Seq(AllowedTypes \X Names)
    BY <1>0, <2>1, <2>2, InsertNode DEF TypeOK
  <2>4. PICK id \in Nat : Remember(w, n[2], id)
    BY <1>0, <2>1, NodesType
  <2>5. nodeIDs' \in [Workers -> SUBSET (Names \X Nat)]
    BY <1>0, <2>2, <2>4 DEF Remember, TypeOK
  <2>6. QED
    BY <1>0, <1>3, <2>1, <2>3, <2>5 DEF Upsert, TypeOK, queue, local
<1>4. ASSUME NEW w \in Workers, UpsertFails(w) PROVE TypeOK'
  <2>1. PICK n \in nodesLeft[w] :
          /\ Remember(w, n[2], 0)
          /\ nodesLeft' = [nodesLeft EXCEPT ![w] = @ \ {n}]
    BY <1>4 DEF UpsertFails
  <2>2. n[2] \in Names
    BY <1>0 DEF TypeOK
  <2>3. nodeIDs' \in [Workers -> SUBSET (Names \X Nat)]
    BY <1>0, <2>1, <2>2 DEF Remember, TypeOK
  <2>4. glitches' \in 0..MaxGlitches
    BY <1>0, <1>4 DEF UpsertFails, TypeOK
  <2>5. QED
    BY <1>0, <1>4, <2>1, <2>3, <2>4 DEF UpsertFails, TypeOK, tables, queue, local
<1>5. ASSUME NEW w \in Workers, NodesDone(w) PROVE TypeOK'
  BY <1>0, <1>5 DEF NodesDone, TypeOK, Goto, tables, queue, local, work
<1>6. ASSUME NEW w \in Workers, ResolveEdge(w) PROVE TypeOK'
  <2>1. PICK e \in edgesLeft[w] : \E s \in Lookup(w, e[1]), t \in Lookup(w, e[2]) :
          /\ hand' = [hand EXCEPT ![w] = <<e[1], e[2], s, t>>]
          /\ edgesLeft' = [edgesLeft EXCEPT ![w] = @ \ {e}]
    BY <1>6 DEF ResolveEdge
  <2>2. e[1] \in Names /\ e[2] \in Names
    BY <1>0 DEF TypeOK, Edge
  <2>3. PICK s \in Lookup(w, e[1]), t \in Lookup(w, e[2]) :
          hand' = [hand EXCEPT ![w] = <<e[1], e[2], s, t>>]
    BY <2>1
  <2>4. s \in IdOrNone /\ t \in IdOrNone
    BY <1>0, <2>2, LookupType
  <2>5. QED
    BY <1>0, <1>6, <2>1, <2>2, <2>3, <2>4 DEF ResolveEdge, TypeOK, Goto, tables, queue, local
<1>7. ASSUME NEW w \in Workers, Written(w)
      PROVE  /\ pc' \in [Workers -> {"idle", "extract", "nodes", "edges", "write", "complete"}]
             /\ hand' \in [Workers -> Names \X Names \X IdOrNone \X IdOrNone]
  BY <1>0, <1>7 DEF Written, TypeOK, Goto, NoHand, IdOrNone, Missing
<1>8. ASSUME NEW w \in Workers, WriteEdge(w) PROVE TypeOK'
  <2>1. /\ hand[w] \in Names \X Names \X IdOrNone \X IdOrNone
        /\ task[w] \in Memories
    BY <1>0, <1>8 DEF WriteEdge, Written, TypeOK, Assigned
  <2>2. evidence' \subseteq Nat \X Nat \X Memories
    BY <1>0, <1>8, <2>1 DEF WriteEdge, TypeOK, Resolved, IdOrNone
  <2>3. unresolved' \subseteq Names \X Names \X Memories
    BY <1>0, <1>8, <2>1 DEF WriteEdge, TypeOK
  <2>4. QED
    BY <1>0, <1>7, <1>8, <2>2, <2>3 DEF WriteEdge, Written, TypeOK, queue, local
<1>9. ASSUME NEW w \in Workers, WriteFails(w) PROVE TypeOK'
  <2>1. glitches' \in 0..MaxGlitches
    BY <1>0, <1>9 DEF WriteFails, TypeOK
  <2>2. QED
    BY <1>0, <1>7, <1>9, <2>1 DEF WriteFails, Written, TypeOK, queue, local
<1>10. ASSUME NEW w \in Workers, Reconcile(w) PROVE TypeOK'
  <2>1. \A name \in Names : Named(name) \subseteq Nat
    BY <1>0, NodesType DEF Named
  <2>2. \A u \in Ready : Named(u[1]) \X Named(u[2]) \X {u[3]} \subseteq Nat \X Nat \X Memories
    BY <1>0, <2>1 DEF Ready, TypeOK
  <2>3. evidence' \subseteq Nat \X Nat \X Memories
    BY <1>0, <1>10, <2>2 DEF Reconcile, TypeOK
  <2>4. QED
    BY <1>0, <1>10, <2>3 DEF Reconcile, TypeOK, Goto, queue, local, work
<1>11. ASSUME NEW w \in Workers, Complete(w) PROVE TypeOK'
  <2>1. /\ task[w] \in Memories /\ answer[w] \subseteq Edge
    BY <1>0, <1>11 DEF Complete, TypeOK, Assigned
  <2>2. claimed' \subseteq Names \X Names \X Memories
    BY <1>0, <1>11, <2>1 DEF Complete, TypeOK, Edge
  <2>3. QED
    BY <1>0, <1>11, <2>2, LeaveShape DEF Complete, TypeOK, tables
<1>12. ASSUME NEW w \in Workers, Fail(w) PROVE TypeOK'
  BY <1>0, <1>12, LeaveShape DEF Fail, TypeOK, tables
<1>13. ASSUME NEW w \in Workers, Die(w) PROVE TypeOK'
  BY <1>0, <1>13, LeaveShape DEF Die, TypeOK, tables, queue
<1>14. CASE UNCHANGED vars
  BY <1>0, <1>14 DEF TypeOK, vars, tables, queue, local, work
<1>15. QED
  BY <1>1, <1>2, <1>3, <1>4, <1>5, <1>6, <1>8, <1>9, <1>10, <1>11, <1>12, <1>13, <1>14
     DEF Next

LEMMA StepAssigned == Shape /\ [Next]_vars => Assigned'
<1> SUFFICES ASSUME Shape, [Next]_vars PROVE Assigned'
  OBVIOUS
<1> USE GraphTaskAssumption DEF Goto
<1>0. TypeOK /\ Assigned
  BY DEF Shape
<1>1. ASSUME NEW w \in Workers, NEW m \in Memories, Lease(w, m) PROVE Assigned'
  BY <1>0, <1>1 DEF Lease, TypeOK, Assigned, work
<1>2. ASSUME NEW w \in Workers, Extract(w) \/ NodesDone(w) \/ Reconcile(w) PROVE Assigned'
  BY <1>0, <1>2 DEF Extract, NodesDone, Reconcile, TypeOK, Assigned, work, local
<1>3. ASSUME NEW w \in Workers, ResolveEdge(w) PROVE Assigned'
  <2>1. PICK e \in edgesLeft[w] : edgesLeft' = [edgesLeft EXCEPT ![w] = @ \ {e}]
    BY <1>3 DEF ResolveEdge
  <2>2. QED
    BY <1>0, <1>3, <2>1 DEF ResolveEdge, TypeOK, Assigned, local
<1>4. ASSUME NEW w \in Workers, WriteEdge(w) \/ WriteFails(w) PROVE Assigned'
  BY <1>0, <1>4 DEF WriteEdge, WriteFails, Written, TypeOK, Assigned, local
<1>5. ASSUME NEW w \in Workers, Complete(w) \/ Fail(w) \/ Die(w) PROVE Assigned'
  BY <1>0, <1>5, LeaveShape DEF Complete, Fail, Die
<1>6. ASSUME UNCHANGED <<pc, task, edgesLeft>> PROVE Assigned'
  BY <1>0, <1>6 DEF Assigned
<1>7. QED
  BY <1>1, <1>2, <1>3, <1>4, <1>5, <1>6
     DEF Next, Upsert, UpsertFails, vars, local, work

LEMMA StepNoBlankNode == Shape /\ [Next]_vars => NoBlankNode'
<1> SUFFICES ASSUME Shape, [Next]_vars PROVE NoBlankNode'
  OBVIOUS
<1>0. TypeOK /\ NoBlankNode
  BY DEF Shape
<1>1. ASSUME nodes' = nodes, NEW w \in Workers, \A n \in nodesLeft'[w] : n[2] # Blank,
             \A v \in Workers \ {w} : nodesLeft'[v] = nodesLeft[v]
      PROVE  NoBlankNode'
  BY <1>0, <1>1 DEF NoBlankNode, Ids
<1>2. ASSUME NEW w \in Workers, Extract(w) PROVE NoBlankNode'
  <2>1. PICK out \in Outputs[task[w]] :
          nodesLeft' = [nodesLeft EXCEPT ![w] =
                          {n \in out.nodes : n[1] \in AllowedTypes /\ n[2] # Blank}]
    BY <1>2 DEF Extract
  <2>2. nodes' = nodes
    BY <1>2 DEF Extract, tables
  <2>3. /\ \A n \in nodesLeft'[w] : n[2] # Blank
        /\ \A v \in Workers \ {w} : nodesLeft'[v] = nodesLeft[v]
    BY <1>0, <2>1 DEF TypeOK
  <2>4. QED
    BY <1>1, <2>2, <2>3
<1>3. ASSUME NEW w \in Workers, Upsert(w) PROVE NoBlankNode'
  <2>1. PICK n \in nodesLeft[w] :
          /\ nodes' = nodes \/ nodes' = Append(nodes, n)
          /\ nodesLeft' = [nodesLeft EXCEPT ![w] = @ \ {n}]
    BY <1>3 DEF Upsert
  <2>2. n \in AllowedTypes \X Names /\ n[2] # Blank
    BY <1>0 DEF TypeOK, NoBlankNode
  <2>3. CASE nodes' = nodes
    <3>1. \A v \in Workers : nodesLeft'[v] \subseteq nodesLeft[v]
      BY <1>0, <2>1 DEF TypeOK
    <3>2. QED
      BY <1>0, <2>3, <3>1 DEF NoBlankNode, Ids
  <2>4. CASE nodes' = Append(nodes, n)
    <3>1. \A id \in Ids' : nodes'[id][2] # Blank
      BY <1>0, <2>2, <2>4, InsertNode, NodesType DEF NoBlankNode
    <3>2. \A v \in Workers : nodesLeft'[v] \subseteq nodesLeft[v]
      BY <1>0, <2>1 DEF TypeOK
    <3>3. QED
      BY <1>0, <3>1, <3>2 DEF NoBlankNode
  <2>5. QED
    BY <2>1, <2>3, <2>4
<1>4. ASSUME NEW w \in Workers, UpsertFails(w) PROVE NoBlankNode'
  <2>1. PICK n \in nodesLeft[w] : nodesLeft' = [nodesLeft EXCEPT ![w] = @ \ {n}]
    BY <1>4 DEF UpsertFails
  <2>2. nodes' = nodes
    BY <1>4 DEF UpsertFails, tables
  <2>3. \A v \in Workers : nodesLeft'[v] \subseteq nodesLeft[v]
    BY <1>0, <2>1 DEF TypeOK
  <2>4. QED
    BY <1>0, <2>2, <2>3 DEF NoBlankNode, Ids
<1>5. ASSUME NEW w \in Workers, Complete(w) \/ Fail(w) \/ Die(w) PROVE NoBlankNode'
  <2>1. nodes' = nodes /\ nodesLeft' = [nodesLeft EXCEPT ![w] = {}]
    BY <1>5 DEF Complete, Fail, Die, Leave, tables
  <2>2. /\ nodesLeft'[w] = {}
        /\ \A v \in Workers \ {w} : nodesLeft'[v] = nodesLeft[v]
    BY <1>0, <2>1 DEF TypeOK
  <2>3. QED
    BY <1>1, <2>1, <2>2
<1>6. ASSUME UNCHANGED <<nodes, nodesLeft>> PROVE NoBlankNode'
  BY <1>0, <1>6 DEF NoBlankNode, Ids
<1>7. QED
  BY <1>2, <1>3, <1>4, <1>5, <1>6
     DEF Next, Lease, NodesDone, ResolveEdge, WriteEdge, WriteFails, Written,
         Reconcile, vars, tables, work

LEMMA StepShape == Shape /\ [Next]_vars => Shape'
  BY StepTypeOK, StepAssigned, StepNoBlankNode DEF Shape

-----------------------------------------------------------------------------
(* Rows of kg_nodes stay, and so do the answers to questions about them.   *)
Grown == \A id \in Ids : id \in Ids' /\ nodes'[id] = nodes[id]

LEMMA StepGrown == Shape /\ [Next]_vars => Grown
<1> SUFFICES ASSUME Shape, [Next]_vars PROVE Grown
  OBVIOUS
<1>1. ASSUME NEW w \in Workers, Upsert(w) PROVE Grown
  <2>1. PICK n \in nodesLeft[w] : nodes' = nodes \/ nodes' = Append(nodes, n)
    BY <1>1 DEF Upsert
  <2>2. n \in AllowedTypes \X Names
    BY DEF Shape, TypeOK
  <2>3. QED
    BY <2>1, <2>2, InsertNode DEF Shape, Grown, Ids
<1>2. ASSUME nodes' = nodes PROVE Grown
  BY <1>2 DEF Grown, Ids
<1>3. QED
  BY <1>1, <1>2
     DEF Next, Lease, Extract, UpsertFails, NodesDone, ResolveEdge, WriteEdge,
         WriteFails, Written, Reconcile, Complete, Fail, Die, vars, tables

(* A calm state comes after calm states only.                              *)
LEMMA StepCounts ==
  ASSUME Shape, [Next]_vars
  PROVE  /\ glitches' = 0 => glitches = 0
         /\ overruns' = 0 => overruns = 0
<1>1. overruns \in Nat /\ glitches \in Nat
  BY GraphTaskAssumption DEF Shape, TypeOK
<1>2. overruns' \in {overruns, overruns + 1}
  BY DEF Next, Lease, Extract, Upsert, UpsertFails, NodesDone, ResolveEdge, WriteEdge,
         WriteFails, Written, Reconcile, Complete, Fail, Die, vars, queue
<1>3. glitches' \in {glitches, glitches + 1}
  BY DEF Next, Lease, Extract, Upsert, UpsertFails, NodesDone, ResolveEdge, WriteEdge,
         WriteFails, Reconcile, Complete, Fail, Die, vars
<1>4. QED
  BY <1>1, <1>2, <1>3

LEMMA NamedGrows ==
  ASSUME Grown, NEW name
  PROVE  Named(name) \subseteq Named(name)'
  BY DEF Grown, Named

LEMMA EvidentGrows ==
  ASSUME Grown, evidence \subseteq evidence', NEW s, NEW t, NEW m, Evident(s, t, m)
  PROVE  Evident(s, t, m)'
<1>1. PICK i \in Named(s), j \in Named(t) : <<i, j, m>> \in evidence
  BY DEF Evident
<1>2. i \in Named(s)' /\ j \in Named(t)'
  BY NamedGrows
<1>3. QED
  BY <1>1, <1>2 DEF Evident

(* What Reconcile takes from the deferred edges is evidence afterwards.    *)
LEMMA ReconcileResolves ==
  ASSUME NEW w \in Workers, Reconcile(w), NEW u \in Ready
  PROVE  Evident(u[1], u[2], u[3])'
<1>1. PICK i \in Named(u[1]), j \in Named(u[2]) : TRUE
  BY DEF Ready
<1>2. <<i, j, u[3]>> \in evidence'
  BY <1>1 DEF Reconcile
<1>3. i \in Named(u[1])' /\ j \in Named(u[2])'
  BY <1>1 DEF Reconcile, Named, Ids
<1>4. QED
  BY <1>2, <1>3 DEF Evident

(* No step but Reconcile takes anything from the deferred edges, and none  *)
(* takes evidence away.                                                    *)
LEMMA StepKeeps ==
  ASSUME [Next]_vars
  PROVE  /\ evidence \subseteq evidence'
         /\ unresolved \subseteq unresolved' \/ \E w \in Workers : Reconcile(w)
         /\ \A u \in unresolved \ unresolved' : Evident(u[1], u[2], u[3])'
<1>1. evidence \subseteq evidence'
  BY DEF Next, Lease, Extract, Upsert, UpsertFails, NodesDone, ResolveEdge, WriteEdge,
         WriteFails, Reconcile, Complete, Fail, Die, vars, tables
<1>2. unresolved \subseteq unresolved' \/ \E w \in Workers : Reconcile(w)
  BY DEF Next, Lease, Extract, Upsert, UpsertFails, NodesDone, ResolveEdge, WriteEdge,
         WriteFails, Complete, Fail, Die, vars, tables
<1>3. \A u \in unresolved \ unresolved' : Evident(u[1], u[2], u[3])'
  <2>1. CASE unresolved \subseteq unresolved'
    BY <2>1
  <2>2. ASSUME NEW w \in Workers, Reconcile(w), NEW u \in unresolved \ unresolved'
        PROVE  Evident(u[1], u[2], u[3])'
    <3>1. u \in Ready
      BY <2>2 DEF Reconcile
    <3>2. QED
      BY <2>2, <3>1, ReconcileResolves
  <2>3. QED
    BY <1>2, <2>1, <2>2
<1>4. QED
  BY <1>1, <1>2, <1>3

(* A deferred edge leaves the table only by becoming evidence, for any     *)
(* number of workers and whatever fails.                                   *)
THEOREM NoDeferredEdgeDropped == Spec => DeferredNeverDropped
<1>1. [Next]_vars => [\A u \in unresolved \ unresolved' : Evident(u[1], u[2], u[3])']_vars
  BY StepKeeps
<1>2. QED
  BY <1>1, PTL DEF Spec, DeferredNeverDropped

-----------------------------------------------------------------------------
(* Evidence is sound.                                                      *)
LEMMA InitSound == Init => SoundInv
<1> SUFFICES ASSUME Init PROVE IdsFit /\ EdgesFit /\ EvidenceSound
  BY DEF SoundInv
<1>1. IdsFit
  BY DEF Init, IdsFit, NoHand, Missing
<1>2. QED
  BY <1>1 DEF Init, EdgesFit, EvidenceSound

LEMMA IdOfGrows ==
  ASSUME Grown, NEW id, NEW name, IdOf(id, name)
  PROVE  IdOf(id, name)'
  BY DEF Grown, IdOf

(* A lookup finds ids of that name, or none.                               *)
LEMMA LookupFits ==
  ASSUME IdsFit, NEW w \in Workers, NEW name, NEW id \in Lookup(w, name), id # Missing
  PROVE  IdOf(id, name)
<1> DEFINE own == {p[2] : p \in {q \in nodeIDs[w] : q[1] = name}}
<1>1. CASE own # {}
  <2>1. id \in own
    BY <1>1 DEF Lookup
  <2>2. QED
    BY <2>1 DEF IdsFit
<1>2. CASE own = {}
  <2>1. id \in Named(name)
    BY <1>2 DEF Lookup
  <2>2. QED
    BY <2>1 DEF Named, IdOf
<1>3. QED
  BY <1>1, <1>2

LEMMA StepIdsFit == Shape /\ IdsFit /\ [Next]_vars /\ glitches' = 0 => IdsFit'
<1> SUFFICES ASSUME Shape, IdsFit, [Next]_vars, glitches' = 0 PROVE IdsFit'
  OBVIOUS
<1>0. Grown /\ TypeOK /\ glitches = 0 /\ glitches \in Nat
  <2>1. TypeOK
    BY DEF Shape
  <2>2. QED
    BY <2>1, StepGrown, StepCounts
<1>1. ASSUME UNCHANGED <<nodeIDs, hand>> PROVE IdsFit'
  BY <1>0, <1>1, IdOfGrows DEF IdsFit
<1>2. ASSUME NEW w \in Workers, Upsert(w) PROVE IdsFit'
  <2>1. PICK n \in nodesLeft[w] :
          \/ \E id \in Ids : nodes[id] = n /\ Remember(w, n[2], id) /\ nodes' = nodes
          \/ nodes' = Append(nodes, n) /\ Remember(w, n[2], Len(nodes) + 1)
    BY <1>2 DEF Upsert
  <2>2. n \in AllowedTypes \X Names
    BY <1>0 DEF TypeOK
  <2>3. PICK id \in Ids' : Remember(w, n[2], id) /\ nodes'[id] = n
    BY <1>0, <2>1, <2>2, InsertNode DEF Ids
  <2>4. IdOf(id, n[2])'
    BY <2>3 DEF IdOf
  <2>5. ASSUME NEW v \in Workers, NEW p \in nodeIDs'[v] PROVE IdOf(p[2], p[1])'
    <3>1. p \in nodeIDs[v] \/ p = <<n[2], id>>
      BY <1>0, <2>3, <2>5 DEF Remember, TypeOK
    <3>2. CASE p \in nodeIDs[v]
      <4>1. IdOf(p[2], p[1])
        BY <3>2 DEF IdsFit
      <4>2. QED
        BY <1>0, <4>1, IdOfGrows
    <3>3. CASE p = <<n[2], id>>
      BY <2>4, <3>3
    <3>4. QED
      BY <3>1, <3>2, <3>3
  <2>6. hand' = hand
    BY <1>2 DEF Upsert
  <2>7. QED
    BY <1>0, <2>5, <2>6, IdOfGrows DEF IdsFit
<1>3. ASSUME NEW w \in Workers, UpsertFails(w) PROVE IdsFit'
  BY <1>0, <1>3 DEF UpsertFails
<1>4. ASSUME NEW w \in Workers, ResolveEdge(w) PROVE IdsFit'
  <2>1. PICK e \in edgesLeft[w] :
          \E s \in Lookup(w, e[1]), t \in Lookup(w, e[2]) :
            hand' = [hand EXCEPT ![w] = <<e[1], e[2], s, t>>]
    BY <1>4 DEF ResolveEdge
  <2>2. PICK s \in Lookup(w, e[1]), t \in Lookup(w, e[2]) :
          hand' = [hand EXCEPT ![w] = <<e[1], e[2], s, t>>]
    BY <2>1
  <2>3. /\ s # Missing => IdOf(s, e[1])
        /\ t # Missing => IdOf(t, e[2])
    BY LookupFits
  <2>4. /\ s # Missing => IdOf(s, e[1])'
        /\ t # Missing => IdOf(t, e[2])'
    BY <1>0, <2>3, IdOfGrows
  <2>5. nodeIDs' = nodeIDs /\ hand'[w] = <<e[1], e[2], s, t>>
        /\ \A v \in Workers \ {w} : hand'[v] = hand[v]
    BY <1>0, <1>4, <2>2 DEF ResolveEdge, TypeOK
  <2>6. QED
    BY <1>0, <2>4, <2>5, IdOfGrows DEF IdsFit
<1>5. ASSUME NEW w \in Workers, hand' = [hand EXCEPT ![w] = NoHand],
             \A v \in Workers : nodeIDs'[v] \subseteq nodeIDs[v]
      PROVE  IdsFit'
  <2>1. hand'[w][3] = Missing /\ hand'[w][4] = Missing
        /\ \A v \in Workers \ {w} : hand'[v] = hand[v]
    BY <1>0, <1>5 DEF TypeOK, NoHand
  <2>2. QED
    BY <1>0, <1>5, <2>1, IdOfGrows DEF IdsFit
<1>6. ASSUME NEW w \in Workers, WriteEdge(w) \/ WriteFails(w) PROVE IdsFit'
  BY <1>5, <1>6 DEF WriteEdge, WriteFails, Written
<1>7. ASSUME NEW w \in Workers, Complete(w) \/ Fail(w) \/ Die(w) PROVE IdsFit'
  <2>1. Leave(w)
    BY <1>7 DEF Complete, Fail, Die
  <2>2. \A v \in Workers : nodeIDs'[v] \subseteq nodeIDs[v]
    BY <1>0, <2>1 DEF Leave, TypeOK
  <2>3. QED
    BY <1>5, <2>1, <2>2 DEF Leave
<1>8. QED
  BY <1>1, <1>2, <1>3, <1>4, <1>6, <1>7
     DEF Next, Lease, Extract, NodesDone, Reconcile, vars, work

LEMMA StepEdgesFit == Shape /\ EdgesFit /\ [Next]_vars => EdgesFit'
<1> SUFFICES ASSUME Shape, EdgesFit, [Next]_vars PROVE EdgesFit'
  OBVIOUS
<1> USE DEF Goto
<1>0. TypeOK /\ Assigned
  BY DEF Shape
<1>1. ASSUME NEW w \in Workers, pc'[w] \in {"idle", "extract"},
             \A v \in Workers \ {w} :
               /\ pc'[v] = pc[v] /\ task'[v] = task[v]
               /\ edgesLeft'[v] = edgesLeft[v] /\ hand'[v] = hand[v],
             unresolved' = unresolved
      PROVE  EdgesFit'
  BY <1>1 DEF EdgesFit
<1>2. ASSUME NEW w \in Workers, NEW m \in Memories, Lease(w, m) PROVE EdgesFit'
  <2>1. /\ pc'[w] = "extract"
        /\ \A v \in Workers \ {w} : pc'[v] = pc[v] /\ task'[v] = task[v]
        /\ UNCHANGED <<edgesLeft, hand, unresolved>>
    BY <1>0, <1>2 DEF Lease, TypeOK, tables, work
  <2>2. QED
    BY <1>1, <2>1
<1>3. ASSUME NEW w \in Workers, Complete(w) \/ Fail(w) \/ Die(w) PROVE EdgesFit'
  <2>1. Leave(w) /\ unresolved' = unresolved
    BY <1>3 DEF Complete, Fail, Die, tables
  <2>2. /\ pc'[w] = "idle"
        /\ \A v \in Workers \ {w} :
             /\ pc'[v] = pc[v] /\ task'[v] = task[v]
             /\ edgesLeft'[v] = edgesLeft[v] /\ hand'[v] = hand[v]
    BY <1>0, <2>1 DEF Leave, TypeOK
  <2>3. QED
    BY <1>1, <2>1, <2>2
<1>4. ASSUME NEW w \in Workers, Extract(w) PROVE EdgesFit'
  <2>1. PICK out \in Outputs[task[w]] : edgesLeft' = [edgesLeft EXCEPT ![w] = out.edges]
    BY <1>4 DEF Extract
  <2>2. task[w] \in Memories
    BY <1>0, <1>4 DEF Extract, Assigned
  <2>3. \A e \in out.edges : Extracted(e[1], e[2], task[w])
    BY <2>2, GraphTaskAssumption DEF Extracted
  <2>4. /\ pc'[w] = "nodes" /\ edgesLeft'[w] = out.edges
        /\ \A v \in Workers \ {w} : pc'[v] = pc[v] /\ edgesLeft'[v] = edgesLeft[v]
        /\ UNCHANGED <<task, hand, unresolved>>
    BY <1>0, <1>4, <2>1 DEF Extract, TypeOK, tables
  <2>5. QED
    BY <2>3, <2>4 DEF EdgesFit
<1>5. ASSUME NEW w \in Workers, NodesDone(w) PROVE EdgesFit'
  <2>1. /\ pc[w] = "nodes" /\ pc'[w] = "edges"
        /\ \A v \in Workers \ {w} : pc'[v] = pc[v]
        /\ UNCHANGED <<task, hand, unresolved, edgesLeft>>
    BY <1>0, <1>5 DEF NodesDone, TypeOK, tables, local, work
  <2>2. QED
    BY <2>1 DEF EdgesFit
<1>6. ASSUME NEW w \in Workers, ResolveEdge(w) PROVE EdgesFit'
  <2>1. PICK e \in edgesLeft[w] : \E s, t \in IdOrNone :
          /\ hand' = [hand EXCEPT ![w] = <<e[1], e[2], s, t>>]
          /\ edgesLeft' = [edgesLeft EXCEPT ![w] = @ \ {e}]
    <3>1. PICK e \in edgesLeft[w] : \E s \in Lookup(w, e[1]), t \in Lookup(w, e[2]) :
            /\ hand' = [hand EXCEPT ![w] = <<e[1], e[2], s, t>>]
            /\ edgesLeft' = [edgesLeft EXCEPT ![w] = @ \ {e}]
      BY <1>6 DEF ResolveEdge
    <3>2. e[1] \in Names /\ e[2] \in Names
      BY <1>0 DEF TypeOK, Edge
    <3>3. QED
      BY <1>0, <3>1, <3>2, LookupType
  <2>2. /\ pc[w] = "edges" /\ pc'[w] = "write"
        /\ hand'[w][1] = e[1] /\ hand'[w][2] = e[2]
        /\ edgesLeft'[w] \subseteq edgesLeft[w]
        /\ \A v \in Workers \ {w} :
             pc'[v] = pc[v] /\ edgesLeft'[v] = edgesLeft[v] /\ hand'[v] = hand[v]
        /\ UNCHANGED <<task, unresolved>>
    BY <1>0, <1>6, <2>1 DEF ResolveEdge, TypeOK, tables, local
  <2>3. Extracted(e[1], e[2], task[w])
    BY <2>2 DEF EdgesFit
  <2>4. QED
    BY <2>2, <2>3 DEF EdgesFit
<1>7. ASSUME NEW w \in Workers, WriteEdge(w) \/ WriteFails(w) PROVE EdgesFit'
  <2>1. /\ pc[w] = "write" /\ pc'[w] = "edges"
        /\ \A v \in Workers \ {w} : pc'[v] = pc[v] /\ hand'[v] = hand[v]
        /\ UNCHANGED <<task, edgesLeft>>
    BY <1>0, <1>7 DEF WriteEdge, WriteFails, Written, TypeOK, local
  <2>2. unresolved' \subseteq unresolved \cup {<<hand[w][1], hand[w][2], task[w]>>}
    BY <1>7 DEF WriteEdge, WriteFails
  <2>3. Extracted(hand[w][1], hand[w][2], task[w])
    BY <2>1 DEF EdgesFit
  <2>4. \A u \in unresolved' : Extracted(u[1], u[2], u[3])
    BY <2>2, <2>3 DEF EdgesFit
  <2>5. QED
    BY <2>1, <2>4 DEF EdgesFit
<1>8. ASSUME NEW w \in Workers, Reconcile(w) PROVE EdgesFit'
  <2>1. /\ pc[w] = "edges" /\ pc'[w] = "complete"
        /\ \A v \in Workers \ {w} : pc'[v] = pc[v]
        /\ unresolved' \subseteq unresolved
        /\ UNCHANGED <<task, hand, edgesLeft>>
    BY <1>0, <1>8 DEF Reconcile, TypeOK, local, work
  <2>2. QED
    BY <2>1 DEF EdgesFit
<1>9. ASSUME UNCHANGED <<pc, task, hand, edgesLeft, unresolved>> PROVE EdgesFit'
  BY <1>9 DEF EdgesFit
<1>10. QED
  BY <1>2, <1>3, <1>4, <1>5, <1>6, <1>7, <1>8, <1>9
     DEF Next, Upsert, UpsertFails, vars, tables, local, work

LEMMA StepEvidenceSound ==
  ASSUME Shape, IdsFit, EdgesFit, EvidenceSound, [Next]_vars, glitches' = 0
  PROVE  EvidenceSound'
<1> DEFINE Good(ev) == \E s, t \in Names : IdOf(ev[1], s) /\ IdOf(ev[2], t)
                                          /\ Extracted(s, t, ev[3])
<1>0. Grown /\ TypeOK /\ glitches = 0
  <2>1. TypeOK
    BY DEF Shape
  <2>2. QED
    BY <2>1, StepGrown, StepCounts
<1>1. \A ev \in evidence' : Good(ev)
  <2>1. \A ev \in evidence : Good(ev)
    <3>1. SUFFICES ASSUME NEW ev \in evidence PROVE Good(ev)
      OBVIOUS
    <3>2. /\ ev[1] \in Ids /\ ev[2] \in Ids
          /\ Extracted(nodes[ev[1]][2], nodes[ev[2]][2], ev[3])
      BY <1>0 DEF EvidenceSound, Extracted
    <3>3. nodes[ev[1]][2] \in Names /\ nodes[ev[2]][2] \in Names
      BY <1>0, <3>2, NodesType
    <3>4. QED
      BY <3>2, <3>3 DEF IdOf
  <2>2. ASSUME NEW w \in Workers, WriteEdge(w) PROVE \A ev \in evidence' : Good(ev)
    <3> DEFINE h == hand[w]
    <3>1. CASE ~Resolved(h)
      BY <2>1, <2>2, <3>1 DEF WriteEdge
    <3>2. CASE Resolved(h)
      <4>1. evidence' = evidence \cup {<<h[3], h[4], task[w]>>} /\ pc[w] = "write"
        BY <2>2, <3>2 DEF WriteEdge, Written
      <4>2. IdOf(h[3], h[1]) /\ IdOf(h[4], h[2]) /\ h[1] \in Names /\ h[2] \in Names
        BY <1>0, <3>2 DEF Resolved, IdsFit, TypeOK
      <4>3. Extracted(h[1], h[2], task[w])
        BY <4>1 DEF EdgesFit
      <4>4. Good(<<h[3], h[4], task[w]>>)
        BY <4>2, <4>3
      <4>5. QED
        BY <2>1, <4>1, <4>4
    <3>3. QED
      BY <3>1, <3>2
  <2>3. ASSUME NEW w \in Workers, Reconcile(w) PROVE \A ev \in evidence' : Good(ev)
    <3>1. SUFFICES ASSUME NEW ev \in evidence' \ evidence PROVE Good(ev)
      BY <2>1
    <3>2. PICK u \in Ready : ev \in Named(u[1]) \X Named(u[2]) \X {u[3]}
      BY <2>3 DEF Reconcile
    <3>3. u \in unresolved /\ u[1] \in Names /\ u[2] \in Names
      BY <1>0 DEF Ready, TypeOK
    <3>4. Extracted(u[1], u[2], u[3])
      BY <3>3 DEF EdgesFit
    <3>5. IdOf(ev[1], u[1]) /\ IdOf(ev[2], u[2]) /\ ev[3] = u[3]
      BY <3>2 DEF Named, IdOf
    <3>6. QED
      BY <3>3, <3>4, <3>5
  <2>4. ASSUME evidence' = evidence PROVE \A ev \in evidence' : Good(ev)
    BY <2>1, <2>4
  <2>5. QED
    BY <2>2, <2>3, <2>4
       DEF Next, Lease, Extract, Upsert, UpsertFails, NodesDone, ResolveEdge,
           WriteFails, Complete, Fail, Die, vars, tables
<1>2. SUFFICES ASSUME NEW ev \in evidence'
               PROVE  /\ ev[1] \in Ids' /\ ev[2] \in Ids'
                      /\ \E out \in Outputs[ev[3]] :
                           <<nodes'[ev[1]][2], nodes'[ev[2]][2]>> \in out.edges
  BY DEF EvidenceSound
<1>3. PICK s \in Names, t \in Names :
        IdOf(ev[1], s) /\ IdOf(ev[2], t) /\ Extracted(s, t, ev[3])
  BY <1>1
<1>4. IdOf(ev[1], s)' /\ IdOf(ev[2], t)'
  BY <1>0, <1>3, IdOfGrows
<1>5. QED
  BY <1>3, <1>4 DEF IdOf, Extracted

LEMMA StepSound == Shape /\ SoundInv /\ [Next]_vars => SoundInv'
<1> SUFFICES ASSUME Shape, SoundInv, [Next]_vars, glitches' = 0
             PROVE  IdsFit' /\ EdgesFit' /\ EvidenceSound'
  BY DEF SoundInv
<1>1. glitches = 0
  BY StepCounts
<1>2. QED
  BY <1>1, StepIdsFit, StepEdgesFit, StepEvidenceSound DEF SoundInv

-----------------------------------------------------------------------------
(* Evidence is complete.                                                   *)
LEMMA InitComplete == Init => CompleteInv
<1> SUFFICES ASSUME Init PROVE Exclusive /\ Handled /\ SomeoneReconciles
  BY DEF CompleteInv
<1>1. QED
  BY DEF Init, Exclusive, Handled, SomeoneReconciles, Ready

(* Only the lease and the end of a task touch its status, and without an   *)
(* overrun nobody else works on it.                                        *)
LEMMA StepExclusive == Shape /\ Exclusive /\ [Next]_vars /\ overruns' = 0 => Exclusive'
<1> SUFFICES ASSUME Shape, Exclusive, [Next]_vars, overruns' = 0 PROVE Exclusive'
  OBVIOUS
<1> USE DEF Goto
<1>0. TypeOK /\ Assigned /\ overruns = 0
  BY StepCounts DEF Shape
<1>1. ASSUME NEW w \in Workers, NEW m \in Memories, Lease(w, m) PROVE Exclusive'
  <2>1. \A v \in Workers : task[v] # m
    <3>1. status[m] = "processing" => ~\E v \in Workers : task[v] = m
      BY <1>0, <1>1 DEF Lease
    <3>2. \A v \in Workers : task[v] = m => status[m] = "processing"
      BY <1>0, GraphTaskAssumption DEF Assigned, Exclusive
    <3>3. QED
      BY <3>1, <3>2
  <2>2. /\ pc' = [pc EXCEPT ![w] = "extract"]
        /\ task' = [task EXCEPT ![w] = m]
        /\ status' = [status EXCEPT ![m] = "processing"]
    BY <1>1 DEF Lease
  <2>3. QED
    BY <1>0, <2>1, <2>2 DEF Exclusive, Assigned, TypeOK
<1>2. ASSUME NEW w \in Workers, Leave(w),
             \A m \in Memories : m # task[w] => status'[m] = status[m]
      PROVE  Exclusive'
  <2>1. /\ pc' = [pc EXCEPT ![w] = "idle"]
        /\ task' = [task EXCEPT ![w] = NoMemory]
    BY <1>2 DEF Leave
  <2>2. SUFFICES ASSUME NEW v \in Workers, pc'[v] # "idle"
                 PROVE  /\ status'[task'[v]] = "processing"
                        /\ \A x \in Workers : task'[x] = task'[v] => x = v
    BY DEF Exclusive
  <2>3. v # w /\ pc[v] # "idle" /\ task'[v] = task[v] /\ task[v] \in Memories
    BY <1>0, <2>1, <2>2 DEF TypeOK, Assigned
  <2>4. task[w] # task[v]
    BY <2>3 DEF Exclusive
  <2>5. \A x \in Workers : task'[x] = task[v] => task[x] = task[v]
    BY <1>0, <2>1, <2>3, GraphTaskAssumption DEF TypeOK
  <2>6. QED
    BY <1>2, <2>3, <2>4, <2>5 DEF Exclusive
<1>3. ASSUME NEW w \in Workers, Complete(w) \/ Fail(w) \/ Die(w) PROVE Exclusive'
  <2>1. \A m \in Memories : m # task[w] => status'[m] = status[m]
    BY <1>0, <1>3 DEF Complete, Fail, Die, queue, TypeOK
  <2>2. Leave(w)
    BY <1>3 DEF Complete, Fail, Die
  <2>3. QED
    BY <1>2, <2>1, <2>2
<1>4. ASSUME UNCHANGED <<status, task>>, \A w \in Workers : pc'[w] # "idle" => pc[w] # "idle"
      PROVE  Exclusive'
  BY <1>4 DEF Exclusive
<1>5. ASSUME NEW w \in Workers,
             Extract(w) \/ Upsert(w) \/ UpsertFails(w) \/ NodesDone(w) \/ ResolveEdge(w)
               \/ WriteEdge(w) \/ WriteFails(w) \/ Reconcile(w)
      PROVE  Exclusive'
  <2>1. UNCHANGED <<status, task>>
    BY <1>5 DEF Extract, Upsert, UpsertFails, NodesDone, ResolveEdge, WriteEdge, WriteFails,
                Written, Reconcile, queue, local
  <2>2. pc[w] # "idle"
    BY <1>5 DEF Extract, Upsert, UpsertFails, NodesDone, ResolveEdge, WriteEdge, WriteFails,
                Written, Reconcile
  <2>3. \A v \in Workers \ {w} : pc'[v] = pc[v]
    BY <1>0, <1>5 DEF Extract, Upsert, UpsertFails, NodesDone, ResolveEdge, WriteEdge,
                WriteFails, Written, Reconcile, TypeOK
  <2>4. QED
    BY <1>4, <2>1, <2>2, <2>3
<1>6. CASE UNCHANGED vars
  BY <1>4, <1>6 DEF vars, queue, local
<1>7. QED
  BY <1>1, <1>3, <1>5, <1>6 DEF Next

(* An edge that is settled stays settled.                                  *)
LEMMA StepSettled ==
  ASSUME Shape, [Next]_vars, NEW s, NEW t, NEW m, Settled(s, t, m)
  PROVE  Settled(s, t, m)'
<1>1. CASE Evident(s, t, m)
  BY <1>1, StepGrown, StepKeeps, EvidentGrows DEF Settled
<1>2. CASE <<s, t, m>> \in unresolved
  <2>1. CASE <<s, t, m>> \in unresolved'
    BY <2>1 DEF Settled
  <2>2. CASE <<s, t, m>> \notin unresolved'
    <3> DEFINE u == <<s, t, m>>
    <3>1. Evident(u[1], u[2], u[3])'
      BY <1>2, <2>2, StepKeeps
    <3>2. QED
      BY <3>1 DEF Settled
  <2>3. QED
    BY <2>1, <2>2
<1>3. CASE Blank \in {s, t}
  BY <1>3 DEF Settled
<1>4. QED
  BY <1>1, <1>2, <1>3 DEF Settled

(* Writing an edge settles it.                                             *)
LEMMA WriteSettles ==
  ASSUME Shape, IdsFit, NEW w \in Workers, WriteEdge(w),
         NEW s, NEW t, NEW m, s = hand[w][1], t = hand[w][2], m = task[w]
  PROVE  Settled(s, t, m)'
<1>1. ASSUME NEW i, NEW j, Resolved(hand[w]), i = hand[w][3], j = hand[w][4]
      PROVE  Settled(s, t, m)'
  <2>1. IdOf(i, s) /\ IdOf(j, t)
    BY <1>1 DEF Resolved, IdsFit
  <2>2. i \in Named(s)' /\ j \in Named(t)'
    BY <2>1 DEF WriteEdge, Written, IdOf, Named, Ids
  <2>3. <<i, j, m>> \in evidence'
    BY <1>1 DEF WriteEdge
  <2>4. QED
    BY <2>2, <2>3 DEF Evident, Settled
<1>2. CASE ~Resolved(hand[w])
  <2>1. Blank \in {s, t} \/ <<s, t, m>> \in unresolved'
    BY <1>2 DEF WriteEdge
  <2>2. QED
    BY <2>1 DEF Settled
<1>3. QED
  BY <1>1, <1>2

LEMMA StepHandled ==
  ASSUME Shape, SoundInv, Handled, [Next]_vars, glitches' = 0
  PROVE  Handled'
<1> USE DEF Goto
<1>0. /\ TypeOK /\ Assigned
      /\ glitches = 0 /\ IdsFit
  BY StepCounts DEF Shape, SoundInv
<1> DEFINE Open(w, e) == e \in edgesLeft[w] \/ (pc[w] = "write" /\ e = <<hand[w][1], hand[w][2]>>)
(* The edges of the answer of w are handled before and after the step.     *)
<1>1. ASSUME NEW w \in Workers, UNCHANGED <<answer, task, claimed>>,
             \A v \in Workers \ {w} :
               pc'[v] = pc[v] /\ edgesLeft'[v] = edgesLeft[v] /\ hand'[v] = hand[v],
             pc[w] \notin {"idle", "extract"},
             \A e \in answer[w] : Open(w, e) =>
               \/ Open(w, e)'
               \/ \E m : m = task[w] /\ Settled(e[1], e[2], m)'
      PROVE  Handled'
  <2>1. ASSUME NEW v \in Workers, pc'[v] \notin {"idle", "extract"}, NEW e \in answer[v]
        PROVE  Open(v, e)' \/ \E m : m = task[v] /\ Settled(e[1], e[2], m)'
    <3>1. pc[v] \notin {"idle", "extract"}
      BY <1>1, <2>1
    <3>2. Open(v, e) \/ Settled(e[1], e[2], task[v])
      BY <3>1 DEF Handled
    <3>3. Open(v, e) => Open(v, e)' \/ \E m : m = task[v] /\ Settled(e[1], e[2], m)'
      BY <1>1
    <3>4. ASSUME NEW m, m = task[v], Settled(e[1], e[2], task[v])
          PROVE  Settled(e[1], e[2], m)'
      BY <3>4, StepSettled
    <3>5. QED
      BY <3>2, <3>3, <3>4
  <2>2. \A c \in claimed : Settled(c[1], c[2], c[3])'
    BY StepSettled DEF Handled
  <2>3. QED
    BY <1>1, <2>1, <2>2 DEF Handled
<1>2. ASSUME NEW w \in Workers, pc'[w] \in {"idle", "extract"},
             \A v \in Workers \ {w} :
               /\ pc'[v] = pc[v] /\ task'[v] = task[v] /\ answer'[v] = answer[v]
               /\ edgesLeft'[v] = edgesLeft[v] /\ hand'[v] = hand[v],
             \A c \in claimed' : c \in claimed \/ Settled(c[1], c[2], c[3])
      PROVE  Handled'
  <2>1. ASSUME NEW v \in Workers \ {w}, pc'[v] \notin {"idle", "extract"}, NEW e \in answer[v]
        PROVE  Open(v, e)' \/ Settled(e[1], e[2], task[v])'
    <3>1. Open(v, e) \/ Settled(e[1], e[2], task[v])
      BY <1>2, <2>1 DEF Handled
    <3>2. Open(v, e) => Open(v, e)'
      BY <1>2
    <3>3. ASSUME NEW m, m = task[v], Settled(e[1], e[2], task[v])
          PROVE  Settled(e[1], e[2], m)'
      BY <3>3, StepSettled
    <3>4. task'[v] = task[v]
      BY <1>2
    <3>5. QED
      BY <3>1, <3>2, <3>3, <3>4
  <2>2. \A c \in claimed' : Settled(c[1], c[2], c[3])
    BY <1>2 DEF Handled
  <2>3. \A c \in claimed' : Settled(c[1], c[2], c[3])'
    BY <2>2, StepSettled
  <2>4. QED
    BY <1>2, <2>1, <2>3 DEF Handled
<1>3. ASSUME NEW w \in Workers, NEW m \in Memories, Lease(w, m) PROVE Handled'
  <2>1. /\ pc'[w] = "extract" /\ claimed' = claimed
        /\ \A v \in Workers \ {w} :
             /\ pc'[v] = pc[v] /\ task'[v] = task[v] /\ answer'[v] = answer[v]
             /\ edgesLeft'[v] = edgesLeft[v] /\ hand'[v] = hand[v]
    BY <1>0, <1>3 DEF Lease, TypeOK, work
  <2>2. QED
    BY <1>2, <2>1
<1>4. ASSUME NEW w \in Workers, Leave(w)
      PROVE  /\ pc'[w] = "idle"
             /\ \A v \in Workers \ {w} :
                  /\ pc'[v] = pc[v] /\ task'[v] = task[v] /\ answer'[v] = answer[v]
                  /\ edgesLeft'[v] = edgesLeft[v] /\ hand'[v] = hand[v]
  BY <1>0, <1>4 DEF Leave, TypeOK
<1>5. ASSUME NEW w \in Workers, Complete(w) PROVE Handled'
  <2>1. pc[w] = "complete" /\ edgesLeft[w] = {}
    BY <1>0, <1>5 DEF Complete, Assigned
  <2>2. \A e \in answer[w] : Settled(e[1], e[2], task[w])
    BY <2>1 DEF Handled
  <2>3. \A c \in claimed' : c \in claimed \/ Settled(c[1], c[2], c[3])
    BY <1>5, <2>2 DEF Complete
  <2>4. Leave(w)
    BY <1>5 DEF Complete
  <2>5. QED
    BY <1>2, <1>4, <2>3, <2>4
<1>6. ASSUME NEW w \in Workers, Fail(w) \/ Die(w) PROVE Handled'
  <2>1. Leave(w) /\ claimed' = claimed
    BY <1>6 DEF Fail, Die
  <2>2. QED
    BY <1>2, <1>4, <2>1
<1>7. ASSUME NEW w \in Workers, Extract(w) PROVE Handled'
  <2>1. PICK out \in Outputs[task[w]] :
          /\ answer' = [answer EXCEPT ![w] = out.edges]
          /\ edgesLeft' = [edgesLeft EXCEPT ![w] = out.edges]
    BY <1>7 DEF Extract
  <2>2. /\ answer'[w] = edgesLeft'[w]
        /\ \A v \in Workers \ {w} :
             pc'[v] = pc[v] /\ answer'[v] = answer[v] /\ edgesLeft'[v] = edgesLeft[v]
        /\ UNCHANGED <<task, hand, claimed>>
    BY <1>0, <1>7, <2>1 DEF Extract, TypeOK
  <2>3. ASSUME NEW v \in Workers \ {w}, pc'[v] \notin {"idle", "extract"}, NEW e \in answer[v]
        PROVE  Open(v, e)' \/ Settled(e[1], e[2], task[v])'
    <3>1. Open(v, e) \/ Settled(e[1], e[2], task[v])
      BY <2>2, <2>3 DEF Handled
    <3>2. Open(v, e) => Open(v, e)'
      BY <2>2
    <3>3. ASSUME NEW m, m = task[v], Settled(e[1], e[2], task[v])
          PROVE  Settled(e[1], e[2], m)'
      BY <3>3, StepSettled
    <3>4. QED
      BY <2>2, <3>1, <3>2, <3>3
  <2>4. \A c \in claimed : Settled(c[1], c[2], c[3])'
    BY StepSettled DEF Handled
  <2>5. QED
    BY <2>2, <2>3, <2>4 DEF Handled
<1>8. ASSUME NEW w \in Workers,
             Upsert(w) \/ UpsertFails(w) \/ NodesDone(w) \/ Reconcile(w)
      PROVE  Handled'
  <2>1. /\ UNCHANGED <<answer, task, claimed, edgesLeft, hand>>
        /\ \A v \in Workers \ {w} : pc'[v] = pc[v]
        /\ pc[w] \in {"nodes", "edges"}
    BY <1>0, <1>8 DEF Upsert, UpsertFails, NodesDone, Reconcile, TypeOK, local, work
  <2>2. QED
    BY <1>1, <2>1
<1>9. ASSUME NEW w \in Workers, ResolveEdge(w) PROVE Handled'
  <2>1. PICK e \in edgesLeft[w] : \E s, t \in IdOrNone :
          /\ hand' = [hand EXCEPT ![w] = <<e[1], e[2], s, t>>]
          /\ edgesLeft' = [edgesLeft EXCEPT ![w] = @ \ {e}]
    <3>1. PICK e \in edgesLeft[w] : \E s \in Lookup(w, e[1]), t \in Lookup(w, e[2]) :
            /\ hand' = [hand EXCEPT ![w] = <<e[1], e[2], s, t>>]
            /\ edgesLeft' = [edgesLeft EXCEPT ![w] = @ \ {e}]
      BY <1>9 DEF ResolveEdge
    <3>2. e[1] \in Names /\ e[2] \in Names
      BY <1>0 DEF TypeOK, Edge
    <3>3. QED
      BY <1>0, <3>1, <3>2, LookupType
  <2>2. /\ pc[w] = "edges" /\ pc'[w] = "write"
        /\ hand'[w][1] = e[1] /\ hand'[w][2] = e[2] /\ e = <<e[1], e[2]>>
        /\ edgesLeft'[w] = edgesLeft[w] \ {e}
        /\ \A v \in Workers \ {w} :
             pc'[v] = pc[v] /\ edgesLeft'[v] = edgesLeft[v] /\ hand'[v] = hand[v]
        /\ UNCHANGED <<answer, task, claimed>>
    BY <1>0, <1>9, <2>1 DEF ResolveEdge, TypeOK, local, Edge
  <2>3. \A d \in answer[w] : Open(w, d) => Open(w, d)'
    BY <2>2
  <2>4. QED
    BY <1>1, <2>2, <2>3
<1>10. ASSUME NEW w \in Workers, Written(w), claimed' = claimed
       PROVE  /\ pc[w] = "write" /\ pc'[w] = "edges"
              /\ \A v \in Workers \ {w} :
                   pc'[v] = pc[v] /\ edgesLeft'[v] = edgesLeft[v] /\ hand'[v] = hand[v]
              /\ UNCHANGED <<answer, task, claimed, edgesLeft>>
  BY <1>0, <1>10 DEF Written, TypeOK, local
<1>11. ASSUME NEW w \in Workers, WriteEdge(w) PROVE Handled'
  <2>1. Written(w) /\ claimed' = claimed
    BY <1>11 DEF WriteEdge, Written
  <2>2. ASSUME NEW e \in answer[w], Open(w, e)
        PROVE  Open(w, e)' \/ \E m : m = task[w] /\ Settled(e[1], e[2], m)'
    <3>1. CASE e \in edgesLeft[w]
      BY <1>10, <2>1, <3>1
    <3>2. CASE e = <<hand[w][1], hand[w][2]>>
      <4>1. e[1] = hand[w][1] /\ e[2] = hand[w][2]
        BY <3>2
      <4>2. ASSUME NEW m, m = task[w] PROVE Settled(e[1], e[2], m)'
        BY <1>0, <1>11, <4>1, <4>2, WriteSettles
      <4>3. QED
        BY <4>2
    <3>3. QED
      BY <2>2, <3>1, <3>2
  <2>3. QED
    BY <1>1, <1>10, <2>1, <2>2
<1>12. ASSUME NEW w \in Workers, WriteFails(w) PROVE Handled'
  <2>1. 0 \in {hand[w][3], hand[w][4]}
    BY <1>0, <1>12 DEF WriteFails
  <2>2. 0 \in Ids
    BY <1>0, <2>1 DEF IdsFit, IdOf, Missing
  <2>3. QED
    BY <1>0, <2>2, NodesType
<1>13. CASE UNCHANGED vars
  <2>2. UNCHANGED <<pc, answer, edgesLeft, hand, task, claimed>>
    BY <1>13 DEF vars, local, work
  <2>3. ASSUME NEW v \in Workers, pc'[v] \notin {"idle", "extract"}, NEW e \in answer[v]
        PROVE  Open(v, e)' \/ Settled(e[1], e[2], task[v])'
    <3>1. Open(v, e) \/ Settled(e[1], e[2], task[v])
      BY <2>2, <2>3 DEF Handled
    <3>2. ASSUME NEW m, m = task[v], Settled(e[1], e[2], task[v])
          PROVE  Settled(e[1], e[2], m)'
      BY <3>2, StepSettled
    <3>3. QED
      BY <2>2, <3>1, <3>2
  <2>4. \A c \in claimed : Settled(c[1], c[2], c[3])'
    BY StepSettled DEF Handled
  <2>5. QED
    BY <2>2, <2>3, <2>4 DEF Handled
<1>14. QED
  BY <1>3, <1>5, <1>6, <1>7, <1>8, <1>9, <1>11, <1>12, <1>13 DEF Next

(* Whoever creates the node a deferred edge waits for, or defers an edge   *)
(* whose nodes have appeared meanwhile, has its reconciliation before it.  *)
LEMMA StepReconciles ==
  ASSUME Shape, Exclusive, SomeoneReconciles, [Next]_vars
  PROVE  SomeoneReconciles'
<1> USE DEF Goto
<1>0. TypeOK /\ Assigned
  BY DEF Shape
(* The worker at the task m, with the reconciliation still to come.        *)
<1>1. ASSUME NEW w \in Workers, pc[w] # "idle", status' = status, task' = task,
             pc'[w] # "complete", \A v \in Workers \ {w} : pc'[v] = pc[v]
      PROVE  \E m \in Memories : Reconciles(m)'
  <2>1. task[w] \in Memories /\ status[task[w]] = "processing"
        /\ \A v \in Workers : task[v] = task[w] => v = w
    BY <1>0, <1>1 DEF Exclusive, Assigned
  <2>2. ASSUME NEW m, m = task[w] PROVE Reconciles(m)'
    BY <1>1, <2>1, <2>2 DEF Reconciles
  <2>3. QED
    BY <2>1, <2>2
(* No edge becomes ready, and nobody skips the reconciliation.             *)
<1>2. ASSUME Ready' \subseteq Ready, \A m \in Memories : Reconciles(m) => Reconciles(m)'
      PROVE  SomeoneReconciles'
  BY <1>2 DEF SomeoneReconciles
<1>3. ASSUME UNCHANGED <<nodes, unresolved>> PROVE Ready' = Ready
  BY <1>3 DEF Ready, Named, Ids
<1>4. ASSUME NEW w \in Workers, NEW n \in Memories, Lease(w, n) PROVE SomeoneReconciles'
  <2>1. /\ pc' = [pc EXCEPT ![w] = "extract"]
        /\ task' = [task EXCEPT ![w] = n]
        /\ status' = [status EXCEPT ![n] = "processing"]
        /\ UNCHANGED <<nodes, unresolved>>
    BY <1>4 DEF Lease, tables
  <2>2. \A m \in Memories : Reconciles(m) => Reconciles(m)'
    BY <1>0, <2>1 DEF Reconciles, TypeOK
  <2>3. QED
    BY <1>2, <1>3, <2>1, <2>2
<1>5. ASSUME NEW w \in Workers, Leave(w), UNCHANGED <<nodes, unresolved>>,
             \A m \in Memories : Reconciles(m) => status'[m] # "completed"
      PROVE  SomeoneReconciles'
  <2>1. /\ pc' = [pc EXCEPT ![w] = "idle"]
        /\ task' = [task EXCEPT ![w] = NoMemory]
    BY <1>5 DEF Leave
  <2>2. \A m \in Memories : Reconciles(m) => Reconciles(m)'
    BY <1>0, <1>5, <2>1, GraphTaskAssumption DEF Reconciles, TypeOK
  <2>3. QED
    BY <1>2, <1>3, <1>5, <2>2
<1>6. ASSUME NEW w \in Workers, Complete(w) PROVE SomeoneReconciles'
  <2>1. \A m \in Memories : Reconciles(m) => m # task[w]
    BY <1>6 DEF Reconciles, Complete
  <2>2. \A m \in Memories : Reconciles(m) => status'[m] # "completed"
    BY <1>0, <1>6, <2>1 DEF Reconciles, Complete, TypeOK
  <2>3. QED
    BY <1>5, <1>6, <2>2 DEF Complete, tables
<1>7. ASSUME NEW w \in Workers, Fail(w) \/ Die(w) PROVE SomeoneReconciles'
  <2>1. \A m \in Memories : Reconciles(m) => status'[m] # "completed"
    BY <1>0, <1>7 DEF Reconciles, Fail, Die, queue, TypeOK
  <2>2. QED
    BY <1>5, <1>7, <2>1 DEF Fail, Die, tables
<1>8. ASSUME NEW w \in Workers,
             Extract(w) \/ UpsertFails(w) \/ NodesDone(w) \/ ResolveEdge(w) \/ WriteFails(w)
      PROVE  SomeoneReconciles'
  <2>1. UNCHANGED <<nodes, unresolved, status, task>>
    BY <1>8 DEF Extract, UpsertFails, NodesDone, ResolveEdge, WriteFails, Written,
                tables, queue, local
  <2>2. pc'[w] # "complete" /\ \A v \in Workers \ {w} : pc'[v] = pc[v]
    BY <1>0, <1>8 DEF Extract, UpsertFails, NodesDone, ResolveEdge, WriteFails, Written, TypeOK
  <2>3. \A m \in Memories : Reconciles(m) => Reconciles(m)'
    BY <2>1, <2>2 DEF Reconciles
  <2>4. QED
    BY <1>2, <1>3, <2>1, <2>3
<1>9. ASSUME NEW w \in Workers, Upsert(w) \/ WriteEdge(w) PROVE SomeoneReconciles'
  <2>1. /\ pc[w] # "idle" /\ pc'[w] # "complete" /\ status' = status /\ task' = task
        /\ \A v \in Workers \ {w} : pc'[v] = pc[v]
    BY <1>0, <1>9 DEF Upsert, WriteEdge, Written, queue, local, TypeOK
  <2>2. QED
    BY <1>1, <2>1 DEF SomeoneReconciles
<1>10. ASSUME NEW w \in Workers, Reconcile(w) PROVE SomeoneReconciles'
  <2>1. nodes' = nodes /\ unresolved' = unresolved \ Ready
    BY <1>10 DEF Reconcile
  <2>2. \A name : Named(name)' = Named(name)
    BY <2>1 DEF Named, Ids
  <2>3. Ready' = {}
    BY <2>1, <2>2 DEF Ready
  <2>4. QED
    BY <2>3 DEF SomeoneReconciles
<1>11. CASE UNCHANGED vars
  <2>1. UNCHANGED <<nodes, unresolved, status, task, pc>>
    BY <1>11 DEF vars, tables, queue, local
  <2>2. \A m \in Memories : Reconciles(m) => Reconciles(m)'
    BY <2>1 DEF Reconciles
  <2>3. QED
    BY <1>2, <1>3, <2>1, <2>2
<1>12. QED
  BY <1>4, <1>6, <1>7, <1>8, <1>9, <1>10, <1>11 DEF Next

LEMMA StepComplete == Shape /\ SoundInv /\ CompleteInv /\ [Next]_vars => CompleteInv'
<1> SUFFICES ASSUME Shape, SoundInv, CompleteInv, [Next]_vars,
                    overruns' = 0, glitches' = 0
             PROVE  Exclusive' /\ Handled' /\ SomeoneReconciles'
  BY DEF CompleteInv, Calm
<1>1. Exclusive /\ Handled /\ SomeoneReconciles
  BY StepCounts DEF CompleteInv, Calm
<1>2. QED
  BY <1>1, StepExclusive, StepHandled, StepReconciles

LEMMA InvHolds == Spec => []Inv
<1>1. Init => Inv
  BY InitShape, InitSound, InitComplete DEF Inv
<1>2. Inv /\ [Next]_vars => Inv'
  BY StepShape, StepSound, StepComplete DEF Inv
<1>3. QED
  BY <1>1, <1>2, PTL DEF Spec

-----------------------------------------------------------------------------
(* Every variable keeps its type, for any set of workers and any answers.  *)
THEOREM GraphTypeCorrect == Spec => []TypeOK
<1>1. Inv => TypeOK
  BY DEF Inv, Shape
<1>2. QED
  BY <1>1, InvHolds, PTL

(* Whatever the model answers, in whatever order workers write, die and    *)
(* start again: an evidence row joins two nodes that exist and that the    *)
(* model may have connected, as long as no statement fails unnoticed.      *)
THEOREM NoEvidenceInvented == Spec => []EvidenceSound
<1>1. Inv => EvidenceSound
  <2>1. CASE glitches # 0
    BY <2>1 DEF EvidenceSound
  <2>2. CASE glitches = 0
    BY <2>2 DEF Inv, SoundInv
  <2>3. QED
    BY <2>1, <2>2
<1>2. QED
  BY <1>1, InvHolds, PTL

(* Once every task is completed, each edge that was extracted between two  *)
(* names that have nodes is evidence, for any number of memories, workers, *)
(* crashes and attempts: the order of the tasks does not matter.           *)
THEOREM NoEvidenceLost == Spec => []EvidenceComplete
<1>1. Inv => EvidenceComplete
  <2> SUFFICES ASSUME Inv, Calm, \A m \in Memories : status[m] = "completed",
                      NEW c \in claimed, Named(c[1]) # {}, Named(c[2]) # {}
               PROVE  Evident(c[1], c[2], c[3])
    BY DEF EvidenceComplete
  <2>1. Handled /\ SomeoneReconciles /\ Shape
    BY DEF Inv, CompleteInv
  <2>2. Ready = {}
    BY <2>1 DEF SomeoneReconciles, Reconciles
  <2>3. c \in Names \X Names \X Memories
    BY <2>1 DEF Shape, TypeOK
  <2>4. <<c[1], c[2], c[3]>> \notin unresolved
    BY <2>2 DEF Ready
  <2>5. c[1] # Blank /\ c[2] # Blank
    BY <2>1 DEF Shape, NoBlankNode, Named
  <2>6. QED
    BY <2>1, <2>4, <2>5 DEF Handled, Settled
<1>2. QED
  BY <1>1, InvHolds, PTL
=============================================================================

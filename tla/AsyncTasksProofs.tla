-------------------------- MODULE AsyncTasksProofs --------------------------
(***************************************************************************)
(* Proofs about AsyncTasks, for every set of rows and workers and every    *)
(* value of the bounds.                                                    *)
(***************************************************************************)
EXTENDS AsyncTasks, TLAPS

-----------------------------------------------------------------------------
(* Type correctness.                                                       *)

LEMMA InitTypeOK == Init => TypeOK
<1>1. Init => overrun \in BOOLEAN /\ lost \in BOOLEAN
  BY Zenon DEF Init
<1>2. QED
  BY <1>1, AsyncTasksAssumption DEF Init, TypeOK, Statuses, Remaining

LEMMA ReleaseTypes ==
  ASSUME TypeOK, NEW w \in Workers, Release(w)
  PROVE  /\ task' \in [Workers -> Tasks \cup {NoTask}]
         /\ attempt' \in [Workers -> 0..MaxAttempts]
         /\ due' \in [Workers -> Remaining]
  BY AsyncTasksAssumption DEF TypeOK, Release, Remaining

LEMMA StepTypeOK == TypeOK /\ [Next]_vars => TypeOK'
<1> SUFFICES ASSUME TypeOK, [Next]_vars PROVE TypeOK'
  OBVIOUS
<1> USE AsyncTasksAssumption
<1>1. ASSUME NEW t \in Tasks, Enqueue(CreatedAt[t]) PROVE TypeOK'
  BY <1>1 DEF TypeOK, Enqueue, Statuses, workers, history
<1>2. ASSUME NEW w \in Workers, LeaseNextTask(w) PROVE TypeOK'
  <2>1. PICK t \in Oldest(Eligible) :
           /\ status' = [status EXCEPT ![t] = "processing"]
           /\ left' = [left EXCEPT ![t] = LeaseTicks]
           /\ attempts' = [attempts EXCEPT ![t] = @ + 1]
           /\ task' = [task EXCEPT ![w] = t]
           /\ attempt' = [attempt EXCEPT ![w] = attempts[t] + 1]
           /\ due' = [due EXCEPT ![w] = LeaseTicks]
           /\ starts' = [starts EXCEPT ![t] = @ + 1]
    BY <1>2 DEF LeaseNextTask
  <2>2. t \in Tasks /\ attempts[t] + 1 \in 0..MaxAttempts
    BY DEF Oldest, Eligible, TypeOK
  <2>3. LeaseTicks \in Remaining
    BY DEF Remaining
  <2>4. QED
    BY <1>2, <2>1, <2>2, <2>3 DEF TypeOK, LeaseNextTask, Statuses
<1>3. ASSUME NEW w \in Workers, Complete(w) PROVE TypeOK'
  BY <1>3, ReleaseTypes DEF TypeOK, Complete, Busy, Statuses, history
<1>4. ASSUME NEW w \in Workers, Fail(w) PROVE TypeOK'
  BY <1>4, ReleaseTypes
     DEF TypeOK, Fail, NextStatus, Busy, Statuses, history
<1>5. ASSUME NEW w \in Workers, Abandon(w) PROVE TypeOK'
  BY <1>5, ReleaseTypes DEF TypeOK, Abandon, rows
<1>6. ASSUME RetryFailedTasks PROVE TypeOK'
  BY <1>6 DEF TypeOK, RetryFailedTasks, workers, history, Statuses
<1>7. ASSUME Tick PROVE TypeOK'
  BY <1>7 DEF TypeOK, Tick, Closer, Remaining
<1>8. CASE UNCHANGED vars
  BY <1>8 DEF TypeOK, vars
<1>9. QED
  BY <1>1, <1>2, <1>3, <1>4, <1>5, <1>6, <1>7, <1>8 DEF Next

(* Every variable keeps its type in every behaviour: attempt_count never   *)
(* leaves 0..MaxAttempts and a row only ever has a status of the schema.   *)
THEOREM TypeCorrect == Spec => []TypeOK
<1>1. QED
  BY InitTypeOK, StepTypeOK, PTL DEF Spec

-----------------------------------------------------------------------------
(* How often a row is started.                                             *)

BudgetInv ==
  \A t \in Tasks : starts[t] <= MaxAttempts * resets + attempts[t]

LEMMA StepBudget == TypeOK /\ BudgetInv /\ [Next]_vars => BudgetInv'
<1> SUFFICES ASSUME TypeOK, BudgetInv, [Next]_vars, NEW u \in Tasks
             PROVE  (starts[u] <= MaxAttempts * resets + attempts[u])'
  BY DEF BudgetInv
<1> USE AsyncTasksAssumption
<1>a. /\ starts[u] \in Nat /\ attempts[u] \in 0..MaxAttempts /\ resets \in Nat
      /\ MaxAttempts * resets \in Nat
      /\ starts[u] <= MaxAttempts * resets + attempts[u]
  BY DEF TypeOK, BudgetInv
<1>1. CASE UNCHANGED <<starts, resets, attempts>>
  BY <1>1, <1>a
<1>2. ASSUME NEW w \in Workers, LeaseNextTask(w)
      PROVE  (starts[u] <= MaxAttempts * resets + attempts[u])'
  <2>1. PICK t \in Tasks :
           /\ attempts' = [attempts EXCEPT ![t] = @ + 1]
           /\ starts' = [starts EXCEPT ![t] = @ + 1]
           /\ resets' = resets
    BY <1>2 DEF LeaseNextTask, Oldest, Eligible
  <2>2. CASE u = t
    BY <1>a, <2>1, <2>2 DEF TypeOK
  <2>3. CASE u # t
    BY <1>a, <2>1, <2>3 DEF TypeOK
  <2>4. QED
    BY <2>2, <2>3
<1>3. CASE RetryFailedTasks
  <2>1. resets' = resets + 1 /\ starts' = starts
    BY <1>3 DEF RetryFailedTasks, history
  <2>2. attempts'[u] \in {0, attempts[u]}
    BY <1>3 DEF RetryFailedTasks
  <2>3. MaxAttempts * (resets + 1) = MaxAttempts * resets + MaxAttempts
    BY <1>a
  <2>4. QED
    BY <1>a, <2>1, <2>2, <2>3
<1>4. QED
  BY <1>1, <1>2, <1>3
     DEF Next, Enqueue, Complete, Fail, Abandon, Tick, rows, history, vars

(* Between two runs of retry-failed no row is started more often than the  *)
(* code's limit, whatever crashes, expires or reports late.                *)
THEOREM StartsBounded == Spec => []StartBudget
<1>1. Init => BudgetInv
  BY AsyncTasksAssumption DEF Init, BudgetInv
<1>2. TypeOK /\ BudgetInv => StartBudget
  <2> SUFFICES ASSUME TypeOK, BudgetInv, NEW t \in Tasks
               PROVE  starts[t] <= MaxAttempts * (1 + resets)
    BY DEF StartBudget
  <2>1. /\ starts[t] \in Nat /\ attempts[t] \in 0..MaxAttempts /\ resets \in Nat
        /\ MaxAttempts * resets \in Nat
        /\ starts[t] <= MaxAttempts * resets + attempts[t]
    BY AsyncTasksAssumption DEF TypeOK, BudgetInv
  <2>2. MaxAttempts * (1 + resets) = MaxAttempts + MaxAttempts * resets
    BY <2>1, AsyncTasksAssumption
  <2>3. QED
    BY <2>1, <2>2, AsyncTasksAssumption
<1>3. QED
  BY <1>1, <1>2, StepBudget, TypeCorrect, PTL DEF Spec

-----------------------------------------------------------------------------
(* When a row is given up.                                                 *)

GiveUpInv ==
  /\ \A t \in Tasks : attempts[t] <= starts[t]
  /\ \A w \in Workers : Busy(w) => attempt[w] <= starts[task[w]]
  /\ NoEarlyGiveUp

LEMMA StepGiveUp == TypeOK /\ GiveUpInv /\ [Next]_vars => GiveUpInv'
<1> SUFFICES ASSUME TypeOK, GiveUpInv, [Next]_vars PROVE GiveUpInv'
  OBVIOUS
<1> USE AsyncTasksAssumption DEF Busy
<1>1. ASSUME NEW t \in Tasks, Enqueue(CreatedAt[t]) PROVE GiveUpInv'
  BY <1>1 DEF TypeOK, GiveUpInv, NoEarlyGiveUp, Enqueue, workers, history
<1>2. ASSUME NEW w \in Workers, LeaseNextTask(w) PROVE GiveUpInv'
  <2>1. PICK t \in Tasks :
           /\ status' = [status EXCEPT ![t] = "processing"]
           /\ attempts' = [attempts EXCEPT ![t] = @ + 1]
           /\ task' = [task EXCEPT ![w] = t]
           /\ attempt' = [attempt EXCEPT ![w] = attempts[t] + 1]
           /\ starts' = [starts EXCEPT ![t] = @ + 1]
    BY <1>2 DEF LeaseNextTask, Oldest, Eligible
  <2>2. \A u \in Tasks : /\ attempts[u] \in Nat /\ starts[u] \in Nat
                         /\ attempts[u] <= starts[u] /\ starts[u] <= starts'[u]
    BY <2>1 DEF TypeOK, GiveUpInv
  <2>3. \A u \in Tasks : attempts'[u] <= starts'[u]
    BY <2>1, <2>2 DEF TypeOK
  <2>4. ASSUME NEW v \in Workers, task'[v] # NoTask
        PROVE  attempt'[v] <= starts'[task'[v]]
    <3>1. CASE v = w
      BY <2>1, <2>2, <3>1 DEF TypeOK
    <3>2. CASE v # w
      <4>1. task'[v] = task[v] /\ attempt'[v] = attempt[v] /\ task[v] \in Tasks
        BY <2>1, <2>4, <3>2 DEF TypeOK
      <4>2. attempt[v] <= starts[task[v]] /\ attempt[v] \in Nat
        BY <2>4, <4>1 DEF GiveUpInv, TypeOK
      <4>3. starts'[task[v]] \in Nat /\ starts[task[v]] \in Nat
        BY <2>1, <4>1 DEF TypeOK
      <4>4. QED
        BY <2>2, <4>1, <4>2, <4>3
    <3>3. QED
      BY <3>1, <3>2
  <2>5. NoEarlyGiveUp'
    BY <2>1, <2>2 DEF TypeOK, GiveUpInv, NoEarlyGiveUp
  <2>6. QED
    BY <2>3, <2>4, <2>5 DEF GiveUpInv
<1>3. ASSUME NEW w \in Workers, Complete(w) PROVE GiveUpInv'
  BY <1>3 DEF TypeOK, GiveUpInv, NoEarlyGiveUp, Complete, Release, history
<1>4. ASSUME NEW w \in Workers, Fail(w) PROVE GiveUpInv'
  BY <1>4 DEF TypeOK, GiveUpInv, NoEarlyGiveUp, Fail, NextStatus, Release,
              history
<1>5. ASSUME NEW w \in Workers, Abandon(w) PROVE GiveUpInv'
  BY <1>5 DEF TypeOK, GiveUpInv, NoEarlyGiveUp, Abandon, Release, rows
<1>6. ASSUME RetryFailedTasks PROVE GiveUpInv'
  BY <1>6 DEF TypeOK, GiveUpInv, NoEarlyGiveUp, RetryFailedTasks, workers, history
<1>7. ASSUME Tick PROVE GiveUpInv'
  BY <1>7 DEF TypeOK, GiveUpInv, NoEarlyGiveUp, Tick
<1>8. CASE UNCHANGED vars
  BY <1>8 DEF GiveUpInv, NoEarlyGiveUp, vars
<1>9. QED
  BY <1>1, <1>2, <1>3, <1>4, <1>5, <1>6, <1>7, <1>8 DEF Next

(* A row is marked failed only after it was started MaxAttempts times.     *)
THEOREM NoTaskGivenUpEarly == Spec => []NoEarlyGiveUp
<1>1. Init => GiveUpInv
  BY AsyncTasksAssumption DEF Init, GiveUpInv, NoEarlyGiveUp, Busy
<1>2. GiveUpInv => NoEarlyGiveUp
  BY DEF GiveUpInv
<1>3. QED
  BY <1>1, <1>2, StepGiveUp, TypeCorrect, PTL DEF Spec

-----------------------------------------------------------------------------
(* The runs of a row and their attempt numbers, until retry-failed is used. *)

AttemptsDiffer ==
  \A v, w \in Workers :
    v # w /\ Busy(v) /\ task[v] = task[w] => attempt[v] # attempt[w]

FenceInv ==
  resets = 0 =>
    /\ \A w \in Workers : Busy(w) => attempt[w] <= attempts[task[w]]
    /\ AttemptsDiffer

LEMMA StepFence == TypeOK /\ FenceInv /\ [Next]_vars => FenceInv'
<1> SUFFICES ASSUME TypeOK, FenceInv, [Next]_vars, resets' = 0 PROVE FenceInv'
  BY DEF FenceInv
<1>r. resets = 0 \/ RetryFailedTasks
  BY DEF Next, Enqueue, LeaseNextTask, Complete, Fail, Abandon, Tick, vars
<1>s. ~RetryFailedTasks /\ resets = 0
  BY <1>r DEF RetryFailedTasks, TypeOK
<1> USE <1>s
<1> USE AsyncTasksAssumption DEF Busy
<1>1. ASSUME NEW w \in Workers, LeaseNextTask(w) PROVE FenceInv'
  <2>1. PICK t \in Tasks :
           /\ attempts' = [attempts EXCEPT ![t] = @ + 1]
           /\ task' = [task EXCEPT ![w] = t]
           /\ attempt' = [attempt EXCEPT ![w] = attempts[t] + 1]
    BY <1>1 DEF LeaseNextTask, Oldest, Eligible
  <2>2. /\ attempts[t] \in Nat
        /\ attempts'[t] = attempts[t] + 1
        /\ \A u \in Tasks : u # t => attempts'[u] = attempts[u]
        /\ task'[w] = t /\ attempt'[w] = attempts[t] + 1
    BY <2>1 DEF TypeOK
  <2>3. ASSUME NEW v \in Workers, v # w, task'[v] # NoTask
        PROVE  /\ task'[v] = task[v] /\ attempt'[v] = attempt[v]
               /\ task[v] \in Tasks /\ attempt[v] \in Nat
               /\ attempt[v] <= attempts[task[v]]
    BY <2>1, <2>3 DEF TypeOK, FenceInv
  <2>4. ASSUME NEW v \in Workers, task'[v] # NoTask
        PROVE  attempt'[v] <= attempts'[task'[v]]
    <3>1. CASE v = w
      BY <2>2, <3>1
    <3>2. CASE v # w
      <4>1. attempts[task[v]] \in Nat
        BY <2>3, <2>4, <3>2 DEF TypeOK
      <4>2. CASE task[v] = t
        BY <2>2, <2>3, <2>4, <3>2, <4>2
      <4>3. CASE task[v] # t
        BY <2>2, <2>3, <2>4, <3>2, <4>1, <4>3
      <4>4. QED
        BY <4>2, <4>3
    <3>3. QED
      BY <3>1, <3>2
  <2>5. ASSUME NEW v \in Workers, v # w, task'[v] = t
        PROVE  attempt'[v] # attempt'[w]
    <3>1. attempt'[v] = attempt[v] /\ attempt[v] \in Nat /\ attempt[v] <= attempts[t]
      BY <2>3, <2>5
    <3>2. QED
      BY <2>2, <3>1
  <2>6. ASSUME NEW u \in Workers, NEW v \in Workers,
               u # v, task'[u] # NoTask, task'[u] = task'[v]
        PROVE  attempt'[u] # attempt'[v]
    <3>1. CASE u = w
      BY <2>2, <2>5, <2>6, <3>1
    <3>2. CASE v = w
      BY <2>2, <2>5, <2>6, <3>2
    <3>3. CASE u # w /\ v # w
      BY <2>3, <2>6, <3>3 DEF FenceInv, AttemptsDiffer
    <3>4. QED
      BY <3>1, <3>2, <3>3
  <2>7. QED
    BY <2>4, <2>6 DEF FenceInv, AttemptsDiffer
<1>2. ASSUME NEW w \in Workers, Complete(w) PROVE FenceInv'
  BY <1>2 DEF TypeOK, FenceInv, AttemptsDiffer, Complete, Release
<1>3. ASSUME NEW w \in Workers, Fail(w) PROVE FenceInv'
  BY <1>3 DEF TypeOK, FenceInv, AttemptsDiffer, Fail, Release
<1>4. ASSUME NEW w \in Workers, Abandon(w) PROVE FenceInv'
  BY <1>4 DEF TypeOK, FenceInv, AttemptsDiffer, Abandon, Release, rows
<1>5. CASE UNCHANGED <<attempts, task, attempt>>
  BY <1>5 DEF FenceInv, AttemptsDiffer
<1>6. QED
  BY <1>1, <1>2, <1>3, <1>4, <1>5
     DEF Next, Enqueue, Tick, workers, vars

(* Until retry-failed is used, the attempt number a worker holds identifies *)
(* its run among all runs of that row, even when leases have expired.      *)
THEOREM AttemptIsAFence == Spec => []AttemptsTellRunsApart
<1>1. Init => FenceInv
  BY AsyncTasksAssumption DEF Init, FenceInv, AttemptsDiffer, Busy
<1>2. FenceInv => AttemptsTellRunsApart
  BY DEF FenceInv, AttemptsDiffer, AttemptsTellRunsApart
<1>3. QED
  BY <1>1, <1>2, StepFence, TypeCorrect, PTL DEF Spec

-----------------------------------------------------------------------------
(* Leases that are not outlived, until retry-failed is used.               *)

(* A worker's copy of its row is up to date and its lease has not expired. *)
CopyIsCurrent ==
  \A w \in Workers : Busy(w) =>
    /\ status[task[w]] = "processing"
    /\ left[task[w]] = due[w]
    /\ due[w] >= 0
    /\ attempt[w] = attempts[task[w]]

(* A row that does not exist yet has never been leased.                    *)
AbsentIsFresh == \A t \in Tasks : status[t] = "absent" => attempts[t] = 0

OneRunner == \A v, w \in Workers : v # w /\ Busy(v) => task[v] # task[w]

HasAttemptLeft ==
  \A t \in Tasks : status[t] = "pending" => attempts[t] < MaxAttempts

LeaseInv == CopyIsCurrent /\ OneRunner /\ HasAttemptLeft /\ AbsentIsFresh

(* What a step may do to the rows that are decided.                        *)
KeepsDecisions ==
  \A t \in Tasks :
    status[t] \in {"completed", "failed"} => status'[t] = status[t]

LEMMA LeaseStep ==
  ASSUME TypeOK, LeaseInv, NEW w \in Workers, LeaseNextTask(w)
  PROVE  LeaseInv' /\ KeepsDecisions
<1> USE AsyncTasksAssumption DEF Busy
<1>1. PICK t \in Eligible :
         /\ status' = [status EXCEPT ![t] = "processing"]
         /\ left' = [left EXCEPT ![t] = LeaseTicks]
         /\ attempts' = [attempts EXCEPT ![t] = @ + 1]
         /\ task' = [task EXCEPT ![w] = t]
         /\ attempt' = [attempt EXCEPT ![w] = attempts[t] + 1]
         /\ due' = [due EXCEPT ![w] = LeaseTicks]
  BY DEF LeaseNextTask, Oldest
<1>2. /\ t \in Tasks
      /\ status[t] = "pending" \/ (status[t] = "processing" /\ Expired(t))
  BY DEF Eligible
<1>3. ASSUME NEW v \in Workers, task[v] # NoTask PROVE task[v] # t
  <2>1. status[task[v]] = "processing" /\ left[task[v]] = due[v] /\ due[v] >= 0
    BY <1>3 DEF LeaseInv, CopyIsCurrent
  <2>2. due[v] \in Int
    BY DEF TypeOK, Remaining
  <2>3. QED
    BY <1>2, <2>1, <2>2 DEF Expired
<1>4. CopyIsCurrent'
  BY <1>1, <1>2, <1>3 DEF TypeOK, LeaseInv, CopyIsCurrent
<1>5. OneRunner'
  BY <1>1, <1>2, <1>3 DEF TypeOK, LeaseInv, OneRunner
<1>6. HasAttemptLeft' /\ AbsentIsFresh'
  BY <1>1, <1>2 DEF TypeOK, LeaseInv, HasAttemptLeft, AbsentIsFresh
<1>7. KeepsDecisions
  BY <1>1, <1>2 DEF TypeOK, KeepsDecisions
<1>8. QED
  BY <1>4, <1>5, <1>6, <1>7 DEF LeaseInv

LEMMA EndStep ==
  ASSUME TypeOK, LeaseInv, NEW w \in Workers, Complete(w) \/ Fail(w) \/ Abandon(w)
  PROVE  LeaseInv' /\ KeepsDecisions
<1> USE AsyncTasksAssumption DEF Busy
<1>1. /\ task[w] \in Tasks /\ status[task[w]] = "processing"
      /\ attempt[w] = attempts[task[w]] /\ attempt[w] \in 0..MaxAttempts
  BY DEF Complete, Fail, Abandon, TypeOK, LeaseInv, CopyIsCurrent
<1>2. \A v \in Workers : v # w /\ task[v] # NoTask => task[v] # task[w]
  BY DEF LeaseInv, OneRunner
<1>3. CASE Complete(w)
  <2>1. CopyIsCurrent'
    BY <1>1, <1>2, <1>3 DEF TypeOK, LeaseInv, CopyIsCurrent, Complete, Release
  <2>2. OneRunner'
    BY <1>3 DEF TypeOK, LeaseInv, OneRunner, Complete, Release
  <2>3. HasAttemptLeft' /\ AbsentIsFresh' /\ KeepsDecisions
    BY <1>1, <1>3 DEF TypeOK, LeaseInv, HasAttemptLeft, AbsentIsFresh,
                      KeepsDecisions, Complete
  <2>4. QED
    BY <2>1, <2>2, <2>3 DEF LeaseInv
<1>4. CASE Fail(w)
  <2>1. CopyIsCurrent'
    BY <1>1, <1>2, <1>4 DEF TypeOK, LeaseInv, CopyIsCurrent, Fail, Release
  <2>2. OneRunner'
    BY <1>4 DEF TypeOK, LeaseInv, OneRunner, Fail, Release
  <2>3. HasAttemptLeft' /\ AbsentIsFresh'
    BY <1>1, <1>4 DEF TypeOK, LeaseInv, HasAttemptLeft, AbsentIsFresh,
                      Fail, NextStatus
  <2>4. KeepsDecisions
    BY <1>1, <1>4 DEF TypeOK, KeepsDecisions, Fail
  <2>5. QED
    BY <2>1, <2>2, <2>3, <2>4 DEF LeaseInv
<1>5. CASE Abandon(w)
  BY <1>5 DEF TypeOK, LeaseInv, CopyIsCurrent, OneRunner, HasAttemptLeft,
              AbsentIsFresh, KeepsDecisions, Abandon, Release, rows
<1>6. QED
  BY <1>3, <1>4, <1>5

LEMMA TickStep ==
  ASSUME TypeOK, LeaseInv, Tick, ~overrun'
  PROVE  LeaseInv' /\ KeepsDecisions
<1> USE AsyncTasksAssumption DEF Busy
<1>0. \A w \in Workers : Busy(w) => ~(due[w] <= 0)
  BY Zenon DEF Tick
<1>1. CopyIsCurrent'
  BY <1>0 DEF TypeOK, LeaseInv, CopyIsCurrent, Tick, Closer, Remaining
<1>2. OneRunner' /\ HasAttemptLeft' /\ AbsentIsFresh' /\ KeepsDecisions
  BY DEF LeaseInv, OneRunner, HasAttemptLeft, AbsentIsFresh,
         KeepsDecisions, Tick
<1>3. QED
  BY <1>1, <1>2 DEF LeaseInv

LEMMA UndisturbedBefore ==
  ASSUME TypeOK, [Next]_vars, Undisturbed'
  PROVE  Undisturbed /\ ~RetryFailedTasks
<1>1. ~RetryFailedTasks
  BY DEF RetryFailedTasks, TypeOK, Undisturbed
<1>2. CASE Tick
  BY <1>1, <1>2, Zenon DEF Tick, Undisturbed
<1>3. CASE UNCHANGED <<resets, overrun>>
  BY <1>1, <1>3 DEF Undisturbed
<1>4. QED
  BY <1>1, <1>2, <1>3, Zenon
     DEF Next, Enqueue, LeaseNextTask, Complete, Fail, Abandon, history, vars

LEMMA StepLease ==
  ASSUME TypeOK, Undisturbed => LeaseInv, [Next]_vars, Undisturbed'
  PROVE  LeaseInv' /\ KeepsDecisions
<1>u. Undisturbed /\ LeaseInv /\ ~RetryFailedTasks
  BY UndisturbedBefore
<1> USE <1>u
<1>1. ASSUME NEW t \in Tasks, Enqueue(CreatedAt[t])
      PROVE  LeaseInv' /\ KeepsDecisions
  <2>1. \A u \in Tasks :
          \/ status'[u] = status[u]
          \/ status[u] = "absent" /\ status'[u] = "pending"
    BY <1>1 DEF TypeOK, Enqueue
  <2>2. UNCHANGED <<left, attempts, task, attempt, due>>
    BY <1>1 DEF Enqueue, workers
  <2>3. CopyIsCurrent'
    BY <2>1, <2>2 DEF TypeOK, LeaseInv, CopyIsCurrent, Busy
  <2>4. OneRunner'
    BY <2>2 DEF LeaseInv, OneRunner, Busy
  <2>5. HasAttemptLeft' /\ AbsentIsFresh'
    BY <2>1, <2>2, AsyncTasksAssumption
       DEF LeaseInv, HasAttemptLeft, AbsentIsFresh
  <2>6. KeepsDecisions
    BY <2>1 DEF KeepsDecisions
  <2>7. QED
    BY <2>3, <2>4, <2>5, <2>6 DEF LeaseInv
<1>2. ASSUME NEW w \in Workers, LeaseNextTask(w)
      PROVE  LeaseInv' /\ KeepsDecisions
  BY <1>2, LeaseStep
<1>3. ASSUME NEW w \in Workers, Complete(w) \/ Fail(w) \/ Abandon(w)
      PROVE  LeaseInv' /\ KeepsDecisions
  BY <1>3, EndStep
<1>4. ASSUME Tick PROVE LeaseInv' /\ KeepsDecisions
  BY <1>4, TickStep DEF Undisturbed
<1>5. CASE UNCHANGED vars
  BY <1>5 DEF vars, LeaseInv, CopyIsCurrent, OneRunner, HasAttemptLeft,
              AbsentIsFresh, KeepsDecisions, Busy
<1>6. QED
  BY <1>1, <1>2, <1>3, <1>4, <1>5 DEF Next

LEMMA InitLease == Init => LeaseInv
  BY AsyncTasksAssumption
     DEF Init, LeaseInv, CopyIsCurrent, OneRunner, HasAttemptLeft,
         AbsentIsFresh, Busy

(* What the theorems below rest on: the strengthening, while undisturbed.  *)
UndisturbedInv == Undisturbed => LeaseInv

LEMMA StepUndisturbed == TypeOK /\ UndisturbedInv /\ [Next]_vars => UndisturbedInv'
  BY StepLease DEF UndisturbedInv

(* As long as every run ended within its lease and retry-failed was not    *)
(* used, no two workers run the same row.                                  *)
THEOREM LeasesAreExclusive == Spec => []LeaseExclusive
<1>1. Init => UndisturbedInv
  BY InitLease DEF UndisturbedInv
<1>2. UndisturbedInv => LeaseExclusive
  BY DEF UndisturbedInv, LeaseInv, OneRunner, LeaseExclusive
<1>3. QED
  BY <1>1, <1>2, StepUndisturbed, TypeCorrect, PTL DEF Spec

(* Under the same conditions no row is stranded: a pending row always has  *)
(* an attempt left.                                                        *)
THEOREM PendingStaysRunnable == Spec => []PendingIsRunnable
<1>1. Init => UndisturbedInv
  BY InitLease DEF UndisturbedInv
<1>2. UndisturbedInv => PendingIsRunnable
  BY DEF UndisturbedInv, LeaseInv, HasAttemptLeft, PendingIsRunnable
<1>3. QED
  BY <1>1, <1>2, StepUndisturbed, TypeCorrect, PTL DEF Spec

(* Under the same conditions a row that is completed or failed keeps that  *)
(* status for ever.                                                        *)
THEOREM DecisionsAreFinal == Spec => DecisionFinal
<1>1. Init => UndisturbedInv
  BY InitLease DEF UndisturbedInv
<1>2. TypeOK /\ UndisturbedInv /\ [Next]_vars =>
        [Undisturbed' =>
           \A t \in Tasks : Decided(t) => status'[t] = status[t]]_vars
  BY StepLease DEF UndisturbedInv, KeepsDecisions, Decided
<1>3. QED
  BY <1>1, <1>2, StepUndisturbed, TypeCorrect, PTL DEF Spec, DecisionFinal

-----------------------------------------------------------------------------
(* The refinement: every step of the workers is a step of the abstract     *)
(* queue, or a disturbance.                                                *)

LEMMA InitQueue == Init => Queue!QueueInit
<1> SUFFICES ASSUME Init PROVE Queue!QueueInit
  OBVIOUS
<1>1. overrun = FALSE /\ resets = 0 /\ lost = FALSE
  BY Zenon DEF Init
<1>2. QueueState = [t \in Tasks |-> "absent"]
  <2>1. status = [t \in Tasks |-> "absent"]
    BY DEF Init
  <2>2. QED
    BY <2>1 DEF QueueState, Queued
<1>3. attempts = [t \in Tasks |-> 0]
  BY DEF Init
<1>4. (~Undisturbed) = FALSE
  BY <1>1 DEF Undisturbed
<1>5. QED
  BY <1>1, <1>2, <1>3, <1>4 DEF Queue!QueueInit

(* A step that changes neither a status nor who runs what.                 *)
LEMMA QueueUnchanged ==
  ASSUME TypeOK, UNCHANGED <<status, task>>
  PROVE  QueueState' = QueueState
  BY DEF QueueState, Queued, Runners

(* A step that concerns one row only.                                      *)
LEMMA QueueOneRow ==
  ASSUME TypeOK, NEW t \in Tasks,
         \A u \in Tasks \ {t} : status'[u] = status[u] /\ Runners(u)' = Runners(u)
  PROVE  QueueState' = [QueueState EXCEPT ![t] = QueueState'[t]]
  BY DEF QueueState, Queued

LEMMA TakeIsTake ==
  ASSUME TypeOK, LeaseInv, NEW w \in Workers, LeaseNextTask(w)
  PROVE  \E t \in Tasks : Queue!Take(t)
<1> USE AsyncTasksAssumption DEF Busy
<1>1. PICK t \in Eligible :
         /\ status' = [status EXCEPT ![t] = "processing"]
         /\ attempts' = [attempts EXCEPT ![t] = @ + 1]
         /\ task' = [task EXCEPT ![w] = t]
  BY DEF LeaseNextTask, Oldest
<1>2. /\ t \in Tasks /\ attempts[t] < MaxAttempts
      /\ status[t] = "pending" \/ (status[t] = "processing" /\ Expired(t))
      /\ task[w] = NoTask
  BY DEF Eligible, LeaseNextTask
<1>3. ASSUME NEW v \in Workers, task[v] # NoTask PROVE task[v] # t
  <2>1. status[task[v]] = "processing" /\ left[task[v]] = due[v] /\ due[v] >= 0
    BY <1>3 DEF LeaseInv, CopyIsCurrent
  <2>2. due[v] \in Int
    BY DEF TypeOK, Remaining
  <2>3. QED
    BY <1>2, <2>1, <2>2 DEF Expired
<1>4. Runners(t) = {} /\ w \in Runners(t)'
  BY <1>1, <1>2, <1>3 DEF Runners, TypeOK
<1>5. \A u \in Tasks \ {t} : status'[u] = status[u] /\ Runners(u)' = Runners(u)
  BY <1>1, <1>2 DEF Runners, TypeOK
<1>6. QueueState[t] = "queued" /\ QueueState'[t] = "running"
  BY <1>1, <1>2, <1>4 DEF QueueState, Queued, TypeOK
<1>7. QueueState' = [QueueState EXCEPT ![t] = "running"]
  BY <1>2, <1>5, <1>6, QueueOneRow
<1>8. UNCHANGED <<lost, Undisturbed>>
  BY Zenon DEF LeaseNextTask, Undisturbed
<1>9. Queue!Take(t)
  BY <1>1, <1>2, <1>6, <1>7, <1>8, Zenon DEF Queue!Take, Queue!Move
<1>10. QED
  BY <1>2, <1>9

(* A worker ends its run: success, failure, or nothing it could report.    *)
LEMMA EndIsEnd ==
  ASSUME TypeOK, LeaseInv, NEW w \in Workers, Complete(w) \/ Fail(w) \/ Abandon(w)
  PROVE  \E t \in Tasks : Queue!Succeed(t) \/ Queue!Miss(t) \/ Queue!Lose(t)
<1> USE AsyncTasksAssumption DEF Busy
<1>0. task[w] \in Tasks
  BY DEF Complete, Fail, Abandon, TypeOK
<1> PICK t \in Tasks : t = task[w]
  BY <1>0
<1>1. /\ status[t] = "processing"
      /\ attempt[w] = attempts[t] /\ attempts[t] \in 0..MaxAttempts
  BY <1>0 DEF TypeOK, LeaseInv, CopyIsCurrent
<1>2. task' = [task EXCEPT ![w] = NoTask]
  BY DEF Complete, Fail, Abandon, Release
<1>3. Runners(t) # {} /\ Runners(t)' = {}
  <2>1. w \in Runners(t)
    BY DEF Runners
  <2>2. task'[w] # t
    BY <1>2 DEF TypeOK
  <2>3. ASSUME NEW v \in Workers, v # w PROVE task'[v] # t
    BY <1>0, <1>2, <2>3 DEF TypeOK, LeaseInv, OneRunner
  <2>4. QED
    BY <2>1, <2>2, <2>3 DEF Runners
<1>4. \A u \in Tasks \ {t} : status'[u] = status[u] /\ Runners(u)' = Runners(u)
  BY <1>1, <1>2 DEF Runners, TypeOK, Complete, Fail, Abandon, rows
<1>5. QueueState[t] = "running"
  BY <1>1, <1>3 DEF QueueState, Queued
<1>6. QueueState' = [QueueState EXCEPT ![t] = QueueState'[t]]
  BY <1>1, <1>4, QueueOneRow
<1>7. attempts' = attempts /\ UNCHANGED Undisturbed
  <2>1. UNCHANGED <<attempts, resets, overrun>>
    BY DEF Complete, Fail, Abandon, rows, history
  <2>2. QED
    BY <2>1 DEF Undisturbed
<1>8. CASE Complete(w)
  <2>1. QueueState'[t] = "completed"
    BY <1>1, <1>8 DEF QueueState, Queued, Complete, TypeOK
  <2>2. UNCHANGED lost
    BY <1>8 DEF Complete, history
  <2>3. Queue!Succeed(t)
    BY <1>5, <1>6, <1>7, <2>1, <2>2, Zenon DEF Queue!Succeed, Queue!Move
  <2>4. QED
    BY <1>1, <2>3
<1>9. CASE Fail(w)
  <2>1. status'[t] = IF attempts[t] < MaxAttempts THEN "pending" ELSE "failed"
    BY <1>1, <1>9 DEF Fail, NextStatus, TypeOK
  <2>2. QueueState'[t] = IF attempts[t] < MaxAttempts THEN "queued" ELSE "failed"
    BY <1>1, <1>3, <2>1 DEF QueueState, Queued
  <2>3. UNCHANGED lost
    BY <1>9 DEF Fail, history
  <2>4. Queue!Miss(t)
    BY <1>5, <1>6, <1>7, <2>2, <2>3, Zenon DEF Queue!Miss, Queue!Move
  <2>5. QED
    BY <1>1, <2>4
<1>10. CASE Abandon(w)
  <2>1. status'[t] = "processing"
    BY <1>1, <1>10 DEF Abandon, rows
  <2>2. QueueState'[t] = "queued"
    BY <1>1, <1>3, <2>1 DEF QueueState, Queued
  <2>3. lost' = TRUE
    BY <1>10, Zenon DEF Abandon
  <2>4. Queue!Lose(t)
    BY <1>5, <1>6, <1>7, <2>2, <2>3, Zenon DEF Queue!Lose, Queue!Move
  <2>5. QED
    BY <1>1, <2>4
<1>11. QED
  BY <1>8, <1>9, <1>10

LEMMA EnqueueIsPut ==
  ASSUME TypeOK, LeaseInv, NEW at \in Nat, Enqueue(at)
  PROVE  \E S \in SUBSET Tasks : Queue!Put(S)
<1> DEFINE new == {t \in Tasks : CreatedAt[t] = at}
<1>1. /\ \A t \in new : status[t] = "absent"
      /\ status' = [t \in Tasks |-> IF t \in new THEN "pending" ELSE status[t]]
      /\ task' = task /\ attempts' = attempts
  BY DEF Enqueue, workers
<1>2. UNCHANGED <<lost, Undisturbed>>
  BY Zenon DEF Enqueue, history, Undisturbed
<1>3. ASSUME NEW t \in new PROVE Runners(t)' = {} /\ QueueState[t] = "absent"
  BY <1>1, AsyncTasksAssumption
     DEF Runners, LeaseInv, CopyIsCurrent, Busy, QueueState, Queued
<1>4. QueueState' = [t \in Tasks |-> IF t \in new THEN "queued" ELSE QueueState[t]]
  BY <1>1, <1>3 DEF QueueState, Queued, Runners
<1>5. Queue!Put(new)
  BY <1>1, <1>2, <1>3, <1>4, Zenon DEF Queue!Put
<1>6. QED
  BY <1>5

LEMMA StepQueue ==
  TypeOK /\ UndisturbedInv /\ [Next]_vars => [Queue!QueueNext]_(Queue!queueVars)
<1> SUFFICES ASSUME TypeOK, UndisturbedInv, [Next]_vars
             PROVE  [Queue!QueueNext]_(Queue!queueVars)
  OBVIOUS
<1>1. CASE ~Undisturbed'
  BY <1>1 DEF Queue!QueueNext, Queue!Disturb
<1>2. CASE Undisturbed'
  <2>1. Undisturbed /\ LeaseInv /\ ~RetryFailedTasks
    BY <1>2, UndisturbedBefore DEF UndisturbedInv
  <2>2. ASSUME NEW t \in Tasks, Enqueue(CreatedAt[t])
        PROVE  \E S \in SUBSET Tasks : Queue!Put(S)
    BY <2>1, <2>2, EnqueueIsPut, AsyncTasksAssumption
  <2>3. CASE Tick \/ UNCHANGED vars
    <3>1. UNCHANGED <<status, task, attempts>>
      BY <2>3 DEF Tick, vars
    <3>2. UNCHANGED lost
      BY <2>3, Zenon DEF Tick, vars
    <3>3. QED
      BY <1>2, <2>1, <3>1, <3>2, QueueUnchanged DEF Queue!queueVars
  <2>4. QED
    BY <2>1, <2>2, <2>3, TakeIsTake, EndIsEnd DEF Next, Queue!QueueNext
<1>3. QED
  BY <1>1, <1>2

(* Every behaviour of the workers, their leases, crashes and stale copies  *)
(* is a behaviour of the abstract queue.                                   *)
THEOREM WorkersImplementQueue == Spec => ImplementsQueue
<1>1. Init => UndisturbedInv
  BY InitLease DEF UndisturbedInv
<1>2. QED
  BY <1>1, InitQueue, StepQueue, StepUndisturbed, TypeCorrect, PTL
     DEF Spec, ImplementsQueue, Queue!QueueSpec
=============================================================================

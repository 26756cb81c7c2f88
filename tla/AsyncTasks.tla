----------------------------- MODULE AsyncTasks -----------------------------
(***************************************************************************)
(* The table async_tasks and the worker processes that lease and run its  *)
(* rows: LeaseNextTask and the completion UPDATE of ExecuteTask            *)
(* (src/core/worker/tasks.go), the main loop of cmd/worker/main.go and     *)
(* RetryFailedTasks (src/core/admin/retry.go).                             *)
(*                                                                         *)
(* Any number of workers may share the database.  A worker keeps the row   *)
(* it leased in a local copy and decides from that copy, so a worker whose *)
(* lease ran out still reports its outcome, and by row id only.            *)
(*                                                                         *)
(* What the task does while it runs (vectors, graph evidence) is in other  *)
(* modules; here a run ends in success, in an error, or not at all.        *)
(***************************************************************************)
EXTENDS Integers, FiniteSets

CONSTANTS
  Tasks,          \* rows of async_tasks that may come to exist
  CreatedAt,      \* created_at of each row; rows of one transaction share it
  Workers,        \* worker processes
  NoTask,         \* "the worker runs nothing"
  NoLease,        \* leased_until IS NULL
  MaxAttempts,    \* 5 in the code
  LeaseTicks,     \* the lease duration (5 minutes), in ticks of the clock
  MaxRetries      \* bound: how often the operator runs retry-failed

ASSUME AsyncTasksAssumption ==
  /\ CreatedAt \in [Tasks -> Nat]
  /\ NoTask \notin Tasks
  /\ NoLease \notin Int
  /\ MaxAttempts \in Nat \ {0}
  /\ LeaseTicks \in Nat
  /\ MaxRetries \in Nat

VARIABLES
  status,     \* status of each row, or "absent" before it is inserted
  left,       \* leased_until minus now (-1: any time in the past), or NoLease
  attempts,   \* attempt_count of each row
  task,       \* the row each worker runs, or NoTask
  attempt,    \* AttemptCount in each worker's copy of the row
  due,        \* LeasedUntil in each worker's copy, minus now
  resets,     \* how often retry-failed ran
  starts,     \* history: how often each row was leased
  overrun,    \* history: did a worker ever outlive its lease?
  lost        \* history: did a run ever end without reporting an outcome?

rows    == <<status, left, attempts>>
workers == <<task, attempt, due>>
history == <<starts, overrun, lost>>
vars    == <<status, left, attempts, task, attempt, due, resets,
             starts, overrun, lost>>

Statuses  == {"absent", "pending", "processing", "completed", "failed"}
Remaining == -1..LeaseTicks

TypeOK ==
  /\ status \in [Tasks -> Statuses]
  /\ left \in [Tasks -> Remaining \cup {NoLease}]
  /\ attempts \in [Tasks -> 0..MaxAttempts]
  /\ task \in [Workers -> Tasks \cup {NoTask}]
  /\ attempt \in [Workers -> 0..MaxAttempts]
  /\ due \in [Workers -> Remaining]
  /\ resets \in 0..MaxRetries
  /\ starts \in [Tasks -> Nat]
  /\ overrun \in BOOLEAN
  /\ lost \in BOOLEAN

Busy(w)     == task[w] # NoTask
Runners(t)  == {w \in Workers : task[w] = t}

-----------------------------------------------------------------------------
Init ==
  /\ status = [t \in Tasks |-> "absent"]
  /\ left = [t \in Tasks |-> NoLease]
  /\ attempts = [t \in Tasks |-> 0]
  /\ task = [w \in Workers |-> NoTask]
  /\ attempt = [w \in Workers |-> 0]
  /\ due = [w \in Workers |-> -1]
  /\ resets = 0
  /\ starts = [t \in Tasks |-> 0]
  /\ overrun = FALSE
  /\ lost = FALSE

(* StoreContext commits: the rows of its transaction appear together.  The *)
(* write lock serialises the transactions, so created_at never goes back.  *)
Enqueue(at) ==
  LET new == {t \in Tasks : CreatedAt[t] = at}
  IN  /\ new # {}
      /\ \A t \in new : status[t] = "absent"
      /\ \A t \in Tasks : CreatedAt[t] < at => status[t] # "absent"
      /\ status' = [t \in Tasks |-> IF t \in new THEN "pending" ELSE status[t]]
      /\ UNCHANGED <<left, attempts, workers, resets, history>>

(* Mutant: a lease counts as expired at its last instant.                  *)
ExpiredTooSoon(t) == left[t] # NoLease /\ left[t] <= 0

(* leased_until < now; the comparison is strict and false for NULL.        *)
Expired(t) == left[t] # NoLease /\ left[t] < 0

(* Mutant: the limit on attempts is forgotten.                             *)
EligibleNoLimit ==
  {t \in Tasks : status[t] = "pending" \/ (status[t] = "processing" /\ Expired(t))}

(* The WHERE clause of the sub-select of LeaseNextTask.                    *)
Eligible ==
  {t \in Tasks : /\ \/ status[t] = "pending"
                    \/ status[t] = "processing" /\ Expired(t)
                 /\ attempts[t] < MaxAttempts}

(* ORDER BY created_at LIMIT 1; SQL leaves the order of ties open.         *)
Oldest(S) == {t \in S : \A u \in S : CreatedAt[t] <= CreatedAt[u]}

(* Mutant: the leasing UPDATE does not count the attempt.                  *)
LeaseUncounted(w) ==
  /\ ~Busy(w)
  /\ \E t \in Oldest(Eligible) :
       /\ status' = [status EXCEPT ![t] = "processing"]
       /\ left' = [left EXCEPT ![t] = LeaseTicks]
       /\ task' = [task EXCEPT ![w] = t]
       /\ attempt' = [attempt EXCEPT ![w] = attempts[t]]
       /\ due' = [due EXCEPT ![w] = LeaseTicks]
       /\ starts' = [starts EXCEPT ![t] = @ + 1]
  /\ UNCHANGED <<attempts, resets, overrun, lost>>

(* LeaseNextTask, one immediate transaction: UPDATE ... RETURNING.         *)
LeaseNextTask(w) ==
  /\ ~Busy(w)
  /\ \E t \in Oldest(Eligible) :
       /\ status' = [status EXCEPT ![t] = "processing"]
       /\ left' = [left EXCEPT ![t] = LeaseTicks]
       /\ attempts' = [attempts EXCEPT ![t] = @ + 1]
       /\ task' = [task EXCEPT ![w] = t]
       /\ attempt' = [attempt EXCEPT ![w] = attempts[t] + 1]
       /\ due' = [due EXCEPT ![w] = LeaseTicks]
       /\ starts' = [starts EXCEPT ![t] = @ + 1]
  /\ UNCHANGED <<resets, overrun, lost>>

(* The worker forgets its copy of the row and polls again.                 *)
Release(w) ==
  /\ task' = [task EXCEPT ![w] = NoTask]
  /\ attempt' = [attempt EXCEPT ![w] = 0]
  /\ due' = [due EXCEPT ![w] = -1]

(* ExecuteTask reached its last statement: the row is completed whatever   *)
(* its status and its lease are by now.                                    *)
Complete(w) ==
  /\ Busy(w)
  /\ status' = [status EXCEPT ![task[w]] = "completed"]
  /\ Release(w)
  /\ UNCHANGED <<left, attempts, resets, history>>

(* Mutants: off by one, in either direction.                               *)
NextStatusEarly(w) == IF attempt[w] + 1 >= MaxAttempts THEN "failed" ELSE "pending"
NextStatusLate(w)  == IF attempt[w] > MaxAttempts THEN "failed" ELSE "pending"

(* ExecuteTask returned an error: the main loop chooses the next status    *)
(* from its own copy of attempt_count and writes it by id.                 *)
NextStatus(w) == IF attempt[w] >= MaxAttempts THEN "failed" ELSE "pending"

Fail(w) ==
  /\ Busy(w)
  /\ status' = [status EXCEPT ![task[w]] = NextStatus(w)]
  /\ left' = [left EXCEPT ![task[w]] = NoLease]
  /\ Release(w)
  /\ UNCHANGED <<attempts, resets, history>>

(* The process dies, SIGTERM calls os.Exit in the middle of a task, or the *)
(* UPDATE that records the error fails, which is only logged.              *)
Abandon(w) ==
  /\ Busy(w)
  /\ Release(w)
  /\ lost' = TRUE
  /\ UNCHANGED <<rows, resets, starts, overrun>>

(* hsme-cli admin retry-failed; leased_until stays as it is.               *)
Retryable(t) ==
  status[t] # "absent" /\ (status[t] = "failed" \/ attempts[t] >= MaxAttempts)

RetryFailedTasks ==
  /\ resets < MaxRetries
  /\ \E t \in Tasks : Retryable(t)
  /\ status' = [t \in Tasks |-> IF Retryable(t) THEN "pending" ELSE status[t]]
  /\ attempts' = [t \in Tasks |-> IF Retryable(t) THEN 0 ELSE attempts[t]]
  /\ resets' = resets + 1
  /\ UNCHANGED <<left, workers, history>>

(* The clock advances by one tick: every deadline comes one tick closer.   *)
Closer(r) == IF r < 0 THEN r ELSE r - 1

Tick ==
  /\ left' = [t \in Tasks |->
                IF left[t] = NoLease THEN NoLease ELSE Closer(left[t])]
  /\ due' = [w \in Workers |-> Closer(due[w])]
  /\ overrun' = (overrun \/ \E w \in Workers : Busy(w) /\ due[w] <= 0)
  /\ UNCHANGED <<status, attempts, task, attempt, resets, starts, lost>>

Work(w) == Complete(w) \/ Fail(w) \/ Abandon(w)

Next ==
  \/ \E t \in Tasks : Enqueue(CreatedAt[t])
  \/ \E w \in Workers : LeaseNextTask(w)
  \/ \E w \in Workers : Complete(w)
  \/ \E w \in Workers : Fail(w)
  \/ \E w \in Workers : Abandon(w)
  \/ RetryFailedTasks
  \/ Tick

Spec == Init /\ [][Next]_vars

(* Every worker keeps polling, every run of a task ends in some way (the   *)
(* model clients give up after a timeout), and time passes.                *)
Fairness ==
  /\ \A w \in Workers : WF_vars(LeaseNextTask(w)) /\ WF_vars(Work(w))
  /\ WF_vars(Tick)

FairSpec == Spec /\ Fairness

-----------------------------------------------------------------------------
(***************************************************************************)
(* What holds whatever the workers do.                                     *)
(***************************************************************************)

(* attempt_count bounds the cost of a task that never succeeds: between    *)
(* two runs of retry-failed a row is started at most MaxAttempts times,    *)
(* across crashes, expired leases and stale workers (LeaseNextTask).       *)
StartBudget ==
  \A t \in Tasks : starts[t] <= MaxAttempts * (1 + resets)

(* No task is given up early: a row marked failed was really started       *)
(* MaxAttempts times (the test on AttemptCount in the main loop).          *)
NoEarlyGiveUp ==
  \A t \in Tasks : status[t] = "failed" => starts[t] >= MaxAttempts

(* While nobody runs retry-failed, attempt_count tells the runs of a row   *)
(* apart: no two workers hold copies of it with the same count, however    *)
(* slow they are (LeaseNextTask increments it in the leasing UPDATE).      *)
AttemptsTellRunsApart ==
  resets = 0 =>
    \A v, w \in Workers :
      v # w /\ Busy(v) /\ task[v] = task[w] => attempt[v] # attempt[w]

Queued(t)  == status[t] \in {"pending", "processing"}
Decided(t) == status[t] \in {"completed", "failed"}

(***************************************************************************)
(* What holds as long as every run has ended within its lease and          *)
(* retry-failed was not used.                                              *)
(***************************************************************************)
Undisturbed == ~overrun /\ resets = 0

(* A lease is exclusive: two workers never run the same row (the WHERE of  *)
(* LeaseNextTask together with every UPDATE that ends a run).              *)
LeaseExclusive ==
  Undisturbed =>
    \A v, w \in Workers : v # w /\ Busy(v) => task[v] # task[w]

(* A decision is final: a row that is completed or failed never changes    *)
(* its status again, so finished work is not done twice.                   *)
DecisionFinal ==
  [][Undisturbed' =>
       \A t \in Tasks : Decided(t) => status'[t] = status[t]]_vars

(* A pending row can still be leased: no row waits with its attempts used  *)
(* up, where no poll would ever pick it.                                   *)
PendingIsRunnable ==
  Undisturbed =>
    \A t \in Tasks : status[t] = "pending" => attempts[t] < MaxAttempts

(* If no run is lost either, every queued row is completed or failed in    *)
(* the end.                                                                *)
EventuallyDecided ==
  \A t \in Tasks : Queued(t) ~> (Decided(t) \/ ~Undisturbed \/ lost)

(***************************************************************************)
(* The abstract queue: workers, leases and the clock are hidden.  A task   *)
(* is running while some worker holds a copy of its row; a row that is     *)
(* processing and that nobody runs is as good as queued.                   *)
(***************************************************************************)
QueueState ==
  [t \in Tasks |->
     IF ~Queued(t) THEN status[t]
     ELSE IF Runners(t) = {} THEN "queued" ELSE "running"]

Queue == INSTANCE TaskQueue WITH
           state <- QueueState, started <- attempts, disturbed <- ~Undisturbed

(* Any number of workers with leases, crashes and stale copies implement   *)
(* one simple queue, until a run outlives its lease or retry-failed is     *)
(* used.                                                                   *)
ImplementsQueue == Queue!QueueSpec

(***************************************************************************)
(* What the repository says of the program and the code does not do; the   *)
(* run that checks it must find it violated.                               *)
(***************************************************************************)

(* "After a maximum of attempts the task transitions to failed and is no   *)
(* longer polled": a row whose attempts are used up and that nobody runs   *)
(* is failed (or was completed).                                           *)
OutOfAttempts(t) == attempts[t] >= MaxAttempts /\ Runners(t) = {}

ExhaustedIsFailed ==
  \A t \in Tasks : OutOfAttempts(t) => Decided(t)
=============================================================================

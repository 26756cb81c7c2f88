----------------------------- MODULE TaskQueue ------------------------------
(***************************************************************************)
(* What the table async_tasks promises to those who enqueue and to those   *)
(* who run tasks, without workers, leases or a clock: a task is started at *)
(* most MaxAttempts times and by one runner at a time; a run ends in       *)
(* success, in failure, or is lost; a task is given up only by a failing   *)
(* run that was its last; and what is decided stays decided.  The promise  *)
(* ends with the first disturbance: a run that outlives its lease, or an   *)
(* operator who resets the table.  AsyncTasks implements it.               *)
(***************************************************************************)
EXTENDS Integers

CONSTANTS Tasks, MaxAttempts

VARIABLES
  state,      \* of each task
  started,    \* how often each was started
  lost,       \* was a run ever lost?
  disturbed   \* was there a disturbance?

queueVars == <<state, started, lost, disturbed>>

QueueInit ==
  /\ state = [t \in Tasks |-> "absent"]
  /\ started = [t \in Tasks |-> 0]
  /\ lost = FALSE
  /\ disturbed = FALSE

Move(t, from, to) ==
  /\ state[t] = from
  /\ state' = [state EXCEPT ![t] = to]

Put(S) ==
  /\ \A t \in S : state[t] = "absent"
  /\ state' = [t \in Tasks |-> IF t \in S THEN "queued" ELSE state[t]]
  /\ UNCHANGED <<started, lost, disturbed>>

Take(t) ==
  /\ Move(t, "queued", "running")
  /\ started[t] < MaxAttempts
  /\ started' = [started EXCEPT ![t] = @ + 1]
  /\ UNCHANGED <<lost, disturbed>>

Succeed(t) ==
  /\ Move(t, "running", "completed")
  /\ UNCHANGED <<started, lost, disturbed>>

Miss(t) ==
  /\ Move(t, "running", IF started[t] < MaxAttempts THEN "queued" ELSE "failed")
  /\ UNCHANGED <<started, lost, disturbed>>

Lose(t) ==
  /\ Move(t, "running", "queued")
  /\ lost' = TRUE
  /\ UNCHANGED <<started, disturbed>>

Disturb == disturbed' = TRUE

QueueNext ==
  \/ \E S \in SUBSET Tasks : Put(S)
  \/ \E t \in Tasks : Take(t) \/ Succeed(t) \/ Miss(t) \/ Lose(t)
  \/ Disturb

QueueSpec == QueueInit /\ [][QueueNext]_queueVars
=============================================================================

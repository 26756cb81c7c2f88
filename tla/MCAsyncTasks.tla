---------------------------- MODULE MCAsyncTasks ----------------------------
(* An instance of AsyncTasks for TLC: two rows, of two ingestions.         *)
EXTENDS AsyncTasks

CONSTANTS m1, n1

MCTasks == {m1, n1}
MCCreatedAt == [t \in Tasks |-> IF t = n1 THEN 2 ELSE 1]
=============================================================================

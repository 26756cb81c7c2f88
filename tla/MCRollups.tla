----------------------------- MODULE MCRollups ------------------------------
(* Instances of Rollups: two processes, minutes of two ticks, hours of two *)
(* minutes.                                                                *)
EXTENDS Rollups, TLC

OpsSymmetry == Permutations(Ops)
=============================================================================

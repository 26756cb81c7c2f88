----------------------------- MODULE MCDatabase -----------------------------
(* Instance of Database: two processes configured with different models.   *)
EXTENDS Database, TLC

CONSTANTS p1, p2, m1, m2

MCModel == p1 :> m1 @@ p2 :> m2
=============================================================================

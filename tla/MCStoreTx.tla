----------------------------- MODULE MCStoreTx ------------------------------
(* Three documents for TLC: a and b are two encodings of one text, so they   *)
(* hash alike; long is split into two chunks.                              *)
EXTENDS StoreTx

MCContents == {"a", "b", "long"}
MCHashOf   == [d \in MCContents |-> IF d = "long" THEN "h2" ELSE "h1"]
MCPieces   == [d \in MCContents |-> IF d = "long" THEN 2 ELSE 1]
=============================================================================

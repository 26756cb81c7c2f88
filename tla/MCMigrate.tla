----------------------------- MODULE MCMigrate ------------------------------
(* An instance of Migrate for TLC.  Observation 1 was imported as it is    *)
(* and looks like garbage; 2 and its later copy 3 share their text, which  *)
(* was imported under another title.  A third imported row is short and    *)
(* does not parse, a fourth is a session summary.  Clients may store       *)
(* observation 2 themselves, also in place of another memory.              *)
EXTENDS Migrate

CONSTANTS w1, w2, w3, titled, empty, session

MCDocs == {w1, w2, w3, titled, empty, session}
MCCreatedAt == <<1, 2, 3>>
MCObsText == <<"t1", "t2", "t2">>
MCWrapper == <<w1, w2, w3>>
MCText == [d \in Docs |-> CASE d = w1 -> "t1"
                            [] d \in {w2, w3, titled} -> "t2"
                            [] d = session -> "ts"
                            [] d = empty -> NoText]
MCImported == <<[doc |-> w1, tag |-> "engram_migration"],
                [doc |-> titled, tag |-> "engram_migration"],
                [doc |-> empty, tag |-> "engram_migration"],
                [doc |-> session, tag |-> "engram_session_migration"]>>

\* Observation 3 is another text, which nobody imported.
MCNewText == <<"t1", "t2", "t3">>
MCTextOfNew == [d \in Docs |-> IF d = w3 THEN "t3" ELSE MCText[d]]
=============================================================================

---------------------------- MODULE MCGraphTask -----------------------------
(* An instance of GraphTask: m1 speaks of an edge from a to b but names    *)
(* only the node a; m2 names b, with one or with two types, and an edge    *)
(* back, or only nodes and edges that the worker must skip.                *)
EXTENDS GraphTask, TLC

CONSTANTS m1, m2

TwoOutputs ==
  (m1 :> {[nodes |-> {<<"TECH", "a">>}, edges |-> {<<"a", "b">>}]}) @@
  (m2 :> {[nodes |-> {<<"TECH", "b">>, <<"FILE", "b">>}, edges |-> {<<"b", "a">>}],
          [nodes |-> {<<"MOOD", "b">>, <<"TECH", "">>}, edges |-> {<<"b", "">>}]})
=============================================================================

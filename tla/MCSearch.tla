------------------------------ MODULE MCSearch ------------------------------
(* Instance of Search: three memories of five chunks, the third one in     *)
(* place of the first; a graph of four nodes with a cycle.                 *)
EXTENDS Search

CONSTANTS pa, pb

MCOwner    == <<1, 2, 3, 3, 3>>
MCProject  == <<pa, pb, pa>>
MCReplaces == <<0, 0, 1>>
MCDecay    == <<4, 2, 1>>

MCLexicalOrders == {<<>>, <<1>>, <<5, 1, 3>>, <<2, 1, 4, 3, 5>>, <<3, 4, 5, 2>>}
MCNearestOrders == {<<1, 2, 3, 4, 5>>, <<5, 4, 3, 2, 1>>, <<3, 2, 4, 1, 5>>}
MCMatches       == {{}, {1, 2}, {2, 3, 4}, {1, 4}, {3, 4, 5}, {5}}

MCGraph == {<<1, 2>>, <<2, 3>>, <<3, 1>>, <<3, 4>>, <<1, 4>>, <<4, 4>>}
MCRoots == {{}, {2}, {1, 3}}
=============================================================================

----------------------------- MODULE MCKeyRefresh -----------------------------
(* Model values for KeyRefresh: two overlapping calls on node 2 of a       *)
(* 2-of-n sharing, with a peer that has a number and one that has none.    *)
EXTENDS KeyRefresh, TLC
CONSTANTS c1, c2, q1, qX

MCCall == {c1, c2}
MCPeer == {q1, qX}
MCIndex == (q1 :> 1) @@ (qX :> NoIndex)
==============================================================================

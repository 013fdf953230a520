------------------------------- MODULE MCRouter -------------------------------
(* Instances of RouterSys: a worker, and two servers that connect late. *)
EXTENDS RouterSys

CONSTANTS w1, s1, s2

\* The worker talks to both servers, and the first server replies.
MCPairs == {<<w1, s1>>, <<w1, s2>>, <<s1, w1>>}
=============================================================================

----------------------------- MODULE MCNetGraph -----------------------------
(* Every net of three layers, over groups of two and of three workers. *)
EXTENDS NetGraph

MCLayerNames == <<"a", "b", "c">>
MCGroupSizes == {2, 3}
=============================================================================

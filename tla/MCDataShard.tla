----------------------------- MODULE MCDataShard -----------------------------
(* Instances of DataShard: a small tuple, one with a value of two cells,   *)
(* one whose torn header is longer than the small tuple, and one that is   *)
(* larger than the writer's buffer.                                        *)
EXTENDS DataShard

MCTuples == { <<<<7>>, <<8>>>>, <<<<5, 5>>, <<9, 9>>>>,
              <<<<6, 6, 6, 6, 6>>, <<4>>>>, <<<<3>>, <<2, 2, 2, 2, 2, 2>>>> }
=============================================================================

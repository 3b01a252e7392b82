---------------------------- MODULE MCThreadPool ----------------------------
(* The loops that the runs of ThreadPool hand to parallelize_loop: upwards, and downwards in one block. *)
EXTENDS ThreadPool

MCLoops == {<<0, 3, 0>>, <<5, 3, 1>>}
=============================================================================

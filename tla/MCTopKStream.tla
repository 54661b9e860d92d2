---------------------------- MODULE MCTopKStream -----------------------------
(* Two warps of one thread, with room for two rows each, over every row of *)
(* five scores of two values.                                              *)
EXTENDS TopKStream

MCRows == [1 .. 5 -> {0, 1}]
=============================================================================

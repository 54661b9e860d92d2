---------------------------- MODULE MCLayerCache ----------------------------
(* Model values for checking LayerCache with TLC. *)
EXTENDS LayerCache, TLC
=============================================================================

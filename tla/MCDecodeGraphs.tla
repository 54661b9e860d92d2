--------------------------- MODULE MCDecodeGraphs ---------------------------
(***************************************************************************)
(* What a token leaves behind in a layer: the recorded launches of its     *)
(* pieces (DecodeGraphs) and the compressed rows it is pooled into         *)
(* (LayerCache).  They share nothing: the initial state chooses the one    *)
(* that moves, the other stays in its own.                                 *)
(***************************************************************************)
EXTENDS DecodeGraphs, LayerCache, TLC

MCLayers == {0}
MCNeeds == (0 :> (0 :> 1 @@ 1 :> 1))
ASSUME CacheAssumption

VARIABLE side
mcvars == <<vars, cachevars, side>>

MCInit ==
  /\ Init /\ CacheInit /\ side \in {"graphs", "compressor"}
  /\ side # "compressor" => ratio = 4
MCNext ==
  /\ UNCHANGED side
  /\ \/ side = "graphs" /\ Next /\ UNCHANGED cachevars
     \/ side = "compressor" /\ CacheNext /\ UNCHANGED vars

(* The fairness of DecodeGraphs: a token that is encoded goes on. *)
MCSpec == MCInit /\ [][MCNext]_mcvars /\ WF_vars(EncodeStep)
=============================================================================

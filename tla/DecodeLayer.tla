---------------------------- MODULE DecodeLayer ----------------------------
(***************************************************************************)
(* metal_graph_encode_decode_layer: one layer for one token, encoded as a  *)
(* whole or, where decode graphs record its ends, in phases.               *)
(***************************************************************************)
EXTENDS LayerStages

VARIABLE phase  \* the metal_decode_layer_phase that runs

Switches ==
  { o \in [ratio : {0, 4, 128}, emit : BOOLEAN, sparse : BOOLEAN, graphs : BOOLEAN,
           steer_attn : BOOLEAN, steer_ffn : BOOLEAN, materialize : BOOLEAN] :
      /\ o.sparse => o.ratio = 4
      /\ o.emit => o.ratio # 0
      /\ o.materialize => ~o.graphs }

Scratch == {"flat_hc", "hc_mix", "hc_split", "attn_cur", "attn_norm", "qr", "qr_norm", "q",
            "kv_raw", "kv", "comp_kv", "comp_sc", "attn_stage", "index_stage", "indexer_q",
            "indexer_weights", "selected", "heads", "attn_low", "attn_out", "after_attn_hc",
            "ffn_cur", "ffn_norm", "router_logits", "router_selected", "routed_out",
            "shared_gate", "shared_up", "shared_mid", "shared_out", "ffn_out", "after_ffn_hc",
            "output_pre", "output_weights", "output_embd", "output_norm", "logits"}
Kept == {"raw_row", "attn_state", "index_state", "attn_rows", "index_rows",
         "n_comp", "n_index_comp"}

Init ==
  /\ pc = "attn_pre" /\ phase = "full" /\ opt \in Switches
  /\ mem = [b \in Scratch |-> "stale"] @@ [b \in Kept |-> "old"] @@ [cur_hc |-> "in"]

At(stage) == pc = stage
Continue == UNCHANGED <<opt, phase>>

(* The first island is everything up to the normalised input: it is run    *)
(* here, or recorded or replayed by a decode graph and then continued in   *)
(* the phase after it.                                                     *)
AttnPre ==
  /\ At("attn_pre")
  /\ Encode(HcPre("attn", [cur_hc |-> "in"], "attn_cur", "attn_norm", FALSE), "qkv")
  /\ phase' \in {"full"} \cup (IF opt.graphs THEN {"from_attn_pre"} ELSE {})
  /\ UNCHANGED opt

(* Mutant: the row is rotated again after the launch that rotates it. *)
QkvRopeTwice ==
  Then({<<PairProj>>, <<Qr, KvRaw>>},
       {<<BothNorms("roped")>> \o <<QProj>> \o q \o <<KvRope>> : q \in QNormRope})

(* Query and key-value row: projected together or apart; normalised        *)
(* together, with or without the rotation of the row, or, by the           *)
(* reference, the row only after the query is done.                        *)
QkvEncodings ==
  LET query == Then(Just(QProj), QNormRope)
  IN Then({<<PairProj>>, <<Qr, KvRaw>>},
          Then(Just(BothNorms("roped")), query)
            \cup Then(Just(BothNorms("normed")), Then(query, Just(KvRope))))
     \cup Then({<<Qr, QrNorm>>}, Then(query, {<<KvRaw, KvNorm, KvRope>>}))

Qkv == At("qkv") /\ Encode(QkvEncodings, "kv_store") /\ Continue

(* metal_graph_decode_kv_store: quantized in place, then stored, or both. *)
KvStore ==
  /\ At("kv_store")
  /\ Encode({<<KvQuantize, Op([kv |-> "quantized", raw_row |-> "old"], [raw_row |-> "new"])>>,
             <<Op([kv |-> "roped", raw_row |-> "old"],
                  [kv |-> "quantized", raw_row |-> "new"])>>},
            IF opt.ratio = 0 THEN "attention" ELSE "attn_comp")
  /\ Continue

(* One token into a compressor.  The projection may store the token in the *)
(* recurrent state itself; the update is told.                             *)
CompToken(c) ==
  LET norm == [attn_norm |-> "attn"]
      update(stored) ==
        Op(CompPair(c) @@ c.state :> stored,
           c.state :> "new" @@ (IF opt.emit THEN c.stage :> "rows" ELSE <<>>))
  IN Then({<<Op(norm @@ c.state :> "old", CompPair(c) @@ c.state :> "stored"), update("stored")>>,
           <<Op(norm, CompPair(c)), update("old")>>}
            \cup Then(CompProject(c), Just(update("old"))),
          When(opt.emit, {Commit(c)}))

AttnCompressor ==
  /\ At("attn_comp")
  /\ Encode(CompToken(AttnComp), IF opt.ratio = 4 THEN "index_comp" ELSE "attention")
  /\ Continue

IndexCompressor ==
  /\ At("index_comp")
  /\ Encode(CompToken(IndexComp), IF opt.sparse THEN "top_k" ELSE "attention")
  /\ Continue

(* With more rows than DS4_N_INDEXER_TOP_K they are ranked. *)
TopK ==
  /\ At("top_k")
  /\ Encode({<<Op([qr_norm |-> "normed"], [indexer_q |-> "proj"]),
               Op([indexer_q |-> "proj"], [indexer_q |-> "roped"]),
               Op([indexer_q |-> "roped"], [indexer_q |-> "quantized"]),
               Op([attn_norm |-> "attn"], [indexer_weights |-> "index"]),
               IndexerScores>>}, "attention")
  /\ Continue

Attention ==
  /\ At("attention")
  /\ Encode(Just(Op([q |-> "roped", raw_row |-> "new"] @@ Grown(AttnComp)
                      @@ (IF opt.sparse THEN [selected |-> "index"] ELSE <<>>),
                    [heads |-> "attended"])), "inv_rope")
  /\ Continue

-----------------------------------------------------------------------------
(* The tail, which the second island records: its phase begins where the   *)
(* heads have been rotated back already.                                   *)

(* Mutant: the phase of the tail rotates them again. *)
InvRopeAlways ==
  /\ At("inv_rope")
  /\ Encode(Just(HeadsBack), "tail")
  /\ Continue

InvRope ==
  /\ At("inv_rope")
  /\ Encode(When(phase # "tail", Just(HeadsBack)), "tail")
  /\ Continue

(* Mutant: with steering too. *)
FuseAttnOutAlways == TRUE
FuseAttnOut == ~opt.steer_attn

IslandTail ==
  /\ At("tail") /\ phase # "tail" /\ opt.graphs /\ FuseAttnOut
  /\ phase' = "tail" /\ pc' = "inv_rope"
  /\ UNCHANGED <<mem, opt>>

AttnResidual == [cur_hc |-> "in", hc_split |-> "attn"]

AttnOutFused == {<<Op([heads |-> "back"], [attn_low |-> "attn"]),
                   Op([attn_low |-> "attn"] @@ AttnResidual,
                      [attn_out |-> "plain", after_attn_hc |-> "plain"])>>}
AttnOutSeparate ==
  Then(Then({<<Op([heads |-> "back"], [attn_low |-> "attn"]),
               Op([attn_low |-> "attn"], [attn_out |-> "plain"])>>,
             <<Op([heads |-> "back"], [attn_low |-> "attn", attn_out |-> "plain"])>>},
            Steer(opt.steer_attn, "attn_out")),
       Just(Op([attn_out |-> Steered(opt.steer_attn)] @@ AttnResidual, AfterAttn)))

AttnOut ==
  /\ At("tail")
  /\ Encode(AttnOutSeparate \cup (IF FuseAttnOut THEN AttnOutFused ELSE {}), "ffn_pre")
  /\ Continue

FfnPre ==
  /\ At("ffn_pre")
  /\ Encode(Then(HcPre("ffn", AfterAttn, "ffn_cur", "ffn_norm", FALSE), Router(<<>>)), "experts")
  /\ Continue

Experts ==
  /\ At("experts")
  /\ Encode(Then(RoutedMoe, {SharedFused, SharedGateUp}), "ffn_out")
  /\ Continue

FusedSharedDown ==
  Op(FfnResidual @@ [shared_mid |-> "ffn", routed_out |-> "ffn"],
     [shared_out |-> "ffn", after_ffn_hc |-> "plain"])

(* The shared expert's output is expanded by the launch that computes it   *)
(* unless the sum of the experts is kept or steered.                       *)
FfnOut ==
  /\ At("ffn_out")
  /\ Encode(Then(Just(SharedDown), Then(KeptSum, Just(Expand("after_ffn_hc"))))
              \cup (IF KeepFfnOut THEN {} ELSE {<<FusedSharedDown>>}), "swap")
  /\ Continue

(* metal_graph_encode_token_raw_swa makes the output the next input; after *)
(* the last layer the output head reads it.                                *)
Swap ==
  /\ At("swap")
  /\ mem' = [mem EXCEPT !.cur_hc = mem.after_ffn_hc, !.after_ffn_hc = mem.cur_hc]
  /\ pc' \in {"done", "head"}
  /\ Continue

Hidden == [cur_hc |-> Steered(opt.steer_ffn)]

OutputHead ==
  /\ At("head")
  /\ Encode(Then(OutputRows(Hidden, "output_pre", "output_weights", "output_embd", "output_norm"),
                 Just(Op([output_norm |-> "head"], [logits |-> "head"]))), "done")
  /\ Continue

Next ==
  \/ AttnPre \/ Qkv \/ KvStore \/ AttnCompressor \/ IndexCompressor \/ TopK \/ Attention
  \/ InvRope \/ IslandTail \/ AttnOut \/ FfnPre \/ Experts \/ FfnOut \/ Swap \/ OutputHead

(* The layer leaves its output, and every cache with exactly this token.   *)
LayerDone ==
  pc = "done" =>
    /\ Holding(mem, Hidden @@ [raw_row |-> "new"])
    /\ opt.ratio # 0 => Holding(mem, Grown(AttnComp) @@ [attn_state |-> "new"])
    /\ opt.ratio = 4 => Holding(mem, Grown(IndexComp) @@ [index_state |-> "new"])

=============================================================================

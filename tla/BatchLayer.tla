----------------------------- MODULE BatchLayer -----------------------------
(***************************************************************************)
(* metal_graph_encode_layer_batch: one layer for a chunk of a prompt or a  *)
(* draft that is verified.  The attention half takes one of many ways,     *)
(* after whether the chunk is the first, the layer's ratio, how many rows  *)
(* there are, and what the ring and the batched kernels can hold.          *)
(***************************************************************************)
EXTENDS LayerStages

Switches ==
  { o \in [zero : BOOLEAN,        \* zero_prefix
           ratio : {0, 4, 128},
           emit : BOOLEAN,        \* the chunk completes a row
           rows : BOOLEAN,        \* n_comp # 0 after the chunk
           sparse : BOOLEAN,      \* n_comp > DS4_N_INDEXER_TOP_K
           batched : BOOLEAN,     \* spark_packed_prefill_batch
           fits : BOOLEAN,        \* n_tokens <= raw_cap
           steer_attn : BOOLEAN, steer_ffn : BOOLEAN, materialize : BOOLEAN] :
      /\ o.ratio = 0 => ~o.rows
      /\ o.emit => o.rows
      /\ o.zero => (o.rows => o.emit)
      /\ o.sparse => o.ratio = 4 /\ o.rows }

Scratch == {"flat_hc", "hc_mix", "hc_split", "attn_cur", "attn_norm", "qr", "qr_norm", "q",
            "half", "kv_raw", "kv", "comp_kv", "comp_sc", "attn_stage", "index_stage",
            "indexer_q", "indexer_weights", "selected", "heads", "attn_low", "attn_out",
            "after_attn_hc", "ffn_cur", "ffn_norm", "router_logits", "router_selected",
            "routed_out", "shared_gate", "shared_up", "shared_mid", "shared_out", "ffn_out",
            "next_hc", "logits"}
Kept == {"raw_rows", "attn_state", "index_state", "attn_rows", "index_rows",
         "n_comp", "n_index_comp"}

Init ==
  /\ pc = "attn_pre" /\ opt \in Switches
  /\ mem = [b \in Scratch |-> "stale"] @@ [b \in Kept |-> "old"]
              @@ [cur_hc |-> "in", prefill_tokens |-> "rows"]

At(stage) == pc = stage /\ UNCHANGED opt

AttnPre ==
  At("attn_pre") /\ Encode(HcPre("attn", [cur_hc |-> "in"], "attn_cur", "attn_norm", TRUE), "qkv")

(* The query may come in one launch from the normalised low rank, by way   *)
(* of the buffer of half floats.                                           *)
QkvEncodings ==
  LET query == Then(Just(QProj), QNormRope)
                 \cup {<<Op([qr_norm |-> "normed"], [half |-> "q", q |-> "roped"])>>}
  IN Then(Then({<<Qr, KvRaw, BothNorms("normed")>>}, query)
            \cup Then({<<Qr, QrNorm>>}, Then(query, {<<KvRaw, KvNorm>>})),
          {<<KvRope, KvQuantize>>})

(* The first chunk goes to the ring at once; the others when their         *)
(* attention is encoded.                                                   *)
StoreRaw == Op([kv |-> "quantized", raw_rows |-> "old"], [raw_rows |-> "new"])

Qkv ==
  /\ At("qkv")
  /\ Encode(Then(QkvEncodings, When(opt.zero, Just(StoreRaw))),
            IF opt.ratio = 0 THEN "attention" ELSE "attn_comp")

(* A compressor takes the chunk in one launch or token by token; a chunk   *)
(* that completes no row commits none but still counts.                    *)
CompChunk(c) ==
  LET state == c.state :> "old"
      pooled == c.state :> "new" @@ (IF opt.emit THEN c.stage :> "rows" ELSE <<>>)
  IN Then(Then(CompProject(c), Just(Op(CompPair(c) @@ state, pooled))),
          When(opt.emit, {Commit(c)}))

AttnCompressor ==
  /\ At("attn_comp")
  /\ Encode(CompChunk(AttnComp), IF opt.ratio = 4 THEN "index_comp" ELSE "attention")

(* The indexer's query is made ready even where nothing will be ranked.    *)
(* Its compressor projects into the buffers of the attention's.            *)
IndexQuery ==
  {<<Op([qr_norm |-> "normed"], [indexer_q |-> "proj"]),
     Op([indexer_q |-> "proj"], [indexer_q |-> "roped"]),
     Op([indexer_q |-> "roped"], [indexer_q |-> "quantized"]),
     Op([attn_norm |-> "attn"], [indexer_weights |-> "index"])>>}

IndexCompressor ==
  At("index_comp") /\ Encode(Then(IndexQuery, CompChunk(IndexComp)), "attention")

-----------------------------------------------------------------------------
(* Attention *)

Query == [q |-> "roped"]
Ring == [raw_rows |-> "new"]
CompRows == IF opt.rows THEN Grown(AttnComp) ELSE <<>>
Ranked == IF opt.sparse THEN [selected |-> "index"] ELSE <<>>
Rank == When(opt.sparse, Just(IndexerScores))

(* The heads of a prefix that sees no compressed row come from the batch   *)
(* itself, the others from the ring and the rows.                          *)
RawHeads == Op(Query @@ [kv |-> "quantized"], [heads |-> "attended"])
RawPrefix == Op(Query @@ [kv |-> "quantized"], [heads |-> "prefix"])
Suffix == Op(Query @@ Ring @@ CompRows @@ Ranked @@ [heads |-> "prefix"], [heads |-> "attended"])
FromRing == Op(Query @@ Ring @@ CompRows @@ Ranked, [heads |-> "attended"])

RawBatch == opt.zero /\ opt.ratio = 0
RingBatch == ~opt.zero /\ opt.batched /\ opt.fits
ZeroBatch == opt.zero /\ opt.batched /\ opt.rows

(* Mutant: the token loop leaves the ring to the batch before it. *)
TokenLoopNoStore == Just(FromRing)
(* Token by token: a first chunk that fits has a prefix as above; a later  *)
(* one stores each row before its attention.                               *)
TokenLoop ==
  IF opt.zero /\ opt.ratio # 0 /\ opt.fits
  THEN IF opt.rows THEN Then(Just(RawPrefix), Then(Rank, Just(Suffix))) ELSE Just(RawHeads)
  ELSE Then(Rank, Then(When(~opt.zero, Just(StoreRaw)), Just(FromRing)))

AttentionEncodings ==
  CASE RawBatch -> Just(RawHeads)
    [] RingBatch -> Then(Just(StoreRaw), Then(Rank, Just(FromRing)))
    [] ZeroBatch -> Then(Rank, {<<RawPrefix, Suffix>>})
    [] OTHER -> TokenLoop

(* The ring must hold all rows that the suffix of a first chunk takes from *)
(* it: a longer chunk is refused there.                                    *)
SuffixRefused == ZeroBatch /\ ~opt.fits

Attention ==
  /\ At("attention")
  /\ IF SuffixRefused THEN Encode(Then(Rank, Just(RawPrefix)), "failed")
     ELSE Encode(Then(AttentionEncodings, Just(HeadsBack)), "attn_out")

-----------------------------------------------------------------------------
(* Outputs.  The buffer of half floats, which carried the query, carries   *)
(* the attention's output if nothing steers it.                            *)

AttnResidual == [cur_hc |-> "in", hc_split |-> "attn"]
AttnOutHalf == {<<Op([heads |-> "back"], [attn_low |-> "attn", half |-> "attn"]),
                  Op([half |-> "attn"] @@ AttnResidual, [after_attn_hc |-> "plain"])>>}
AttnOutFloat ==
  Then(Then({<<Op([heads |-> "back"], [attn_low |-> "attn", attn_out |-> "plain"])>>},
            Steer(opt.steer_attn, "attn_out")),
       Just(Op([attn_out |-> Steered(opt.steer_attn)] @@ AttnResidual, AfterAttn)))

(* Mutant: half floats whatever the steering. *)
HalfOutAlways == TRUE
HalfOut == ~opt.steer_attn

AttnOut ==
  /\ At("attn_out")
  /\ Encode(AttnOutFloat \cup (IF HalfOut THEN AttnOutHalf ELSE {}), "ffn_pre")

FfnPre == At("ffn_pre") /\ Encode(FfnBatchPre, "experts")
Experts == At("experts") /\ Encode(FfnBatchExperts, "swap")

Hidden == [cur_hc |-> Steered(opt.steer_ffn)]

Swap ==
  /\ At("swap")
  /\ mem' = [mem EXCEPT !.cur_hc = mem.next_hc, !.next_hc = mem.cur_hc]
  /\ pc' \in {"done", "head"}

(* metal_graph_encode_output_head_batch takes its buffers from the layer;  *)
(* rows of padding are cleared before the multiplication.                  *)
OutputHeadBatch ==
  /\ At("head")
  /\ Encode(Then(OutputRows(Hidden, "hc_mix", "hc_split", "ffn_cur", "ffn_norm"),
                 Just(Op([ffn_norm |-> "head"], [logits |-> "head"]))), "done")

Next ==
  \/ AttnPre \/ Qkv \/ AttnCompressor \/ IndexCompressor \/ Attention
  \/ AttnOut \/ FfnPre \/ Experts \/ Swap \/ OutputHeadBatch

LayerDone ==
  pc = "done" =>
    /\ Holding(mem, Hidden @@ Ring)
    /\ opt.ratio # 0 => Holding(mem, Grown(AttnComp) @@ [attn_state |-> "new"])
    /\ opt.ratio = 4 => Holding(mem, Grown(IndexComp) @@ [index_state |-> "new"])

=============================================================================

---------------------------- MODULE LayerStages ----------------------------
(***************************************************************************)
(* The transformer layer as its host code encodes it: a sequence of kernel *)
(* launches over work buffers that every layer uses again.  Each stage has *)
(* several encodings (fused, separate, reference), and which one runs is   *)
(* decided by many switches, while the next stages read whatever the one   *)
(* that ran has written.  A buffer holds the name of its content; a launch *)
(* that reads anything but the content it needs writes "junk".  This       *)
(* module has the machine and the stages that all encoders share.          *)
(***************************************************************************)
EXTENDS Integers, Sequences, SequencesExt, TLC

VARIABLES
  pc,    \* the next stage, "done" or "failed"
  mem,   \* the content of every buffer, cache row and counter
  opt    \* the switches, fixed while a layer is encoded

(* A launch that needs some contents and leaves others.                    *)
Op(reads, writes) == [reads |-> reads, writes |-> writes]
Holding(m, contents) == \A b \in DOMAIN contents : m[b] = contents[b]

Exec(m, op) ==
  LET fits == Holding(m, op.reads)
  IN [b \in DOMAIN m |-> IF b \notin DOMAIN op.writes THEN m[b]
                         ELSE IF fits THEN op.writes[b] ELSE "junk"]
Run(m, ops) == FoldLeft(Exec, m, ops)

(* A stage is one of its encodings.  Any launch of it may fail: the rest   *)
(* of the layer is skipped and the caller gets false.                      *)
Encode(encodings, next) ==
  \E ops \in encodings :
    \/ mem' = Run(mem, ops) /\ pc' = next
    \/ \E done \in 0 .. Len(ops) - 1 :
         mem' = Run(mem, SubSeq(ops, 1, done)) /\ pc' = "failed"

(* One encoding of each of two parts after the other. *)
Then(A, B) == {a \o b : a \in A, b \in B}
Just(op) == {<<op>>}
Nothing == {<<>>}
When(condition, A) == IF condition THEN A ELSE Nothing

-----------------------------------------------------------------------------
(* Hyper-connection input of a half: its mix is projected from the         *)
(* normalised residual (fold: in one launch), then split and summed.       *)

(* metal_graph_hc_rms_scale_project, or the two launches in its place *)
HcProject(half, residual, fold) ==
  {<<Op(residual, [flat_hc |-> half]), Op([flat_hc |-> half], [hc_mix |-> half])>>}
    \cup (IF fold THEN {<<Op(residual, [hc_mix |-> half])>>} ELSE {})

HcSplit(half, residual, cur, norm) ==
  LET mix == residual @@ [hc_mix |-> half]
      split == [hc_split |-> half]
      normed == Op(cur :> half, norm :> half)
  IN { <<Op(mix, split @@ cur :> half @@ norm :> half)>>,
       <<Op(mix, split @@ cur :> half), normed>>,
       <<Op([hc_mix |-> half], split), Op(residual @@ split, cur :> half), normed>> }

HcPre(half, residual, cur, norm, fold) ==
  Then(HcProject(half, residual, fold), HcSplit(half, residual, cur, norm))

(* Query and key-value row of the normalised input *)
Qr == Op([attn_norm |-> "attn"], [qr |-> "proj"])
KvRaw == Op([attn_norm |-> "attn"], [kv_raw |-> "proj"])
PairProj == Op([attn_norm |-> "attn"], [qr |-> "proj", kv_raw |-> "proj"])
QrNorm == Op([qr |-> "proj"], [qr_norm |-> "normed"])
KvNorm == Op([kv_raw |-> "proj"], [kv |-> "normed"])
BothNorms(kv) == Op([qr |-> "proj", kv_raw |-> "proj"], [qr_norm |-> "normed", kv |-> kv])
KvRope == Op([kv |-> "normed"], [kv |-> "roped"])
KvQuantize == Op([kv |-> "roped"], [kv |-> "quantized"])
QProj == Op([qr_norm |-> "normed"], [q |-> "proj"])
QNormRope == { <<Op([q |-> "proj"], [q |-> "roped"])>>,
               <<Op([q |-> "proj"], [q |-> "normed"]), Op([q |-> "normed"], [q |-> "roped"])>> }

HeadsBack == Op([heads |-> "attended"], [heads |-> "back"])

(* The content of an output to which a direction may be added in place. *)
Steered(on) == IF on THEN "steered" ELSE "plain"
Steer(on, out) == When(on, Just(Op(out :> "plain", out :> "steered")))

(* The residual of the attention half, as the FFN half must find it. *)
AfterAttn == [after_attn_hc |-> Steered(opt.steer_attn)]

-----------------------------------------------------------------------------
(* Router and experts *)

(* A layer that routes by token reads the tokens of the batch. *)
Router(tokens) == {<<Op([ffn_norm |-> "ffn"], [router_logits |-> "ffn"]),
                     Op([router_logits |-> "ffn"] @@ tokens, [router_selected |-> "ffn"])>>}
RoutedMoe == Just(Op([router_selected |-> "ffn", ffn_norm |-> "ffn"], [routed_out |-> "ffn"]))

SharedGateUp == <<Op([ffn_norm |-> "ffn"], [shared_gate |-> "ffn"]),
                  Op([ffn_norm |-> "ffn"], [shared_up |-> "ffn"]),
                  Op([shared_gate |-> "ffn", shared_up |-> "ffn"], [shared_mid |-> "ffn"])>>
SharedFused == <<Op([ffn_norm |-> "ffn"],
                    [shared_gate |-> "ffn", shared_up |-> "ffn", shared_mid |-> "ffn"])>>
SharedDown == Op([shared_mid |-> "ffn"], [shared_out |-> "ffn"])

FfnResidual == AfterAttn @@ [hc_split |-> "ffn"]
FfnSum == Op([shared_out |-> "ffn", routed_out |-> "ffn"], [ffn_out |-> "plain"])
ExpandFfnOut(result) ==
  Op(FfnResidual @@ [ffn_out |-> Steered(opt.steer_ffn)], result :> Steered(opt.steer_ffn))
ExpandSum(result) ==
  Op(FfnResidual @@ [routed_out |-> "ffn", shared_out |-> "ffn"], result :> "plain")

(* Mutant: the output is kept for tools only. *)
KeptForTools == opt.materialize
(* metal_graph_needs_ffn_out *)
KeepFfnOut == opt.steer_ffn \/ opt.materialize

(* A result is expanded from the kept sum where it is steered. *)
Expand(result) == IF opt.steer_ffn THEN ExpandFfnOut(result) ELSE ExpandSum(result)
KeptSum == Then(When(KeepFfnOut, Just(FfnSum)), Steer(opt.steer_ffn, "ffn_out"))

(* metal_graph_encode_layer_ffn_batch, of chunks, verified drafts and the  *)
(* drafter's own stages.  The buffer of half floats takes the shared       *)
(* expert if no sum is kept.                                               *)
FfnBatchPre == Then(HcPre("ffn", AfterAttn, "ffn_cur", "ffn_norm", TRUE),
                    Router([prefill_tokens |-> "rows"]))
HalfExpert ==
  {<<Op([shared_mid |-> "ffn"], [half |-> "shared"]),
     Op(FfnResidual @@ [routed_out |-> "ffn", half |-> "shared"], [next_hc |-> "plain"])>>}
FloatExpert == Then(Just(SharedDown), Then(KeptSum, Just(Expand("next_hc"))))
FfnBatchExperts == Then(Then(RoutedMoe, {SharedGateUp}),
                        FloatExpert \cup (IF KeepFfnOut THEN {} ELSE HalfExpert))

(* An output head: the residual is collapsed with weights of its own,      *)
(* normalised and, where a row of logits is wanted, multiplied.            *)
OutputRows(residual, pre, weights, embd, norm) ==
  {<<Op(residual, [flat_hc |-> "head"]), Op([flat_hc |-> "head"], pre :> "head"),
     Op(pre :> "head", weights :> "weights"),
     Op(residual @@ weights :> "weights", embd :> "head"),
     Op(embd :> "head", norm :> "head")>>}

-----------------------------------------------------------------------------
(* The compressors of a layer: the attention's, the indexer's. *)

AttnComp == [of |-> "attn", state |-> "attn_state", stage |-> "attn_stage",
             rows |-> "attn_rows", count |-> "n_comp"]
IndexComp == [of |-> "index", state |-> "index_state", stage |-> "index_stage",
              rows |-> "index_rows", count |-> "n_index_comp"]

CompPair(c) == [comp_kv |-> c.of, comp_sc |-> c.of]
CompProject(c) == {<<Op([attn_norm |-> "attn"], [comp_kv |-> c.of]),
                     Op([attn_norm |-> "attn"], [comp_sc |-> c.of])>>}

(* The rows that a chunk or token completes go to the stage, are quantized *)
(* there, are packed into the cache, and are counted after that.           *)
Quantize(c) == Op(c.stage :> "rows", c.stage :> "quantized")
Pack(c) == Op(c.stage :> "quantized" @@ c.rows :> "old", c.rows :> "new")
Count(c) == Op(c.count :> "old", c.count :> "new")

(* Mutant: counted before they are there. *)
CommitEarly(c) == <<Quantize(c), Count(c), Pack(c)>>
Commit(c) == <<Quantize(c), Pack(c), Count(c)>>

(* Rows and count as the layer must leave them. *)
Grown(c) == c.rows :> (IF opt.emit THEN "new" ELSE "old")
              @@ c.count :> (IF opt.emit THEN "new" ELSE "old")

(* ds4x_graph_indexer *)
IndexerScores ==
  Op(Grown(IndexComp) @@ [indexer_q |-> "quantized", indexer_weights |-> "index"],
     [selected |-> "index"])

-----------------------------------------------------------------------------
(* Nothing was read before it was written for this layer, and no cache was *)
(* updated twice.                                                          *)
NothingJunk == \A b \in DOMAIN mem : mem[b] # "junk"

(* A counter never covers rows that are not in the cache, not even when a  *)
(* launch has failed.                                                      *)
CountedRowsThere ==
  \A c \in {AttnComp, IndexComp} :
    c.count \in DOMAIN mem => (mem[c.count] = "new" => mem[c.rows] = "new")

=============================================================================

----------------------------- MODULE DraftBlock -----------------------------
(***************************************************************************)
(* One proposal of the drafter: its block is set up from the target row of *)
(* the last token and from the draft tokens, its rings may first be seeded *)
(* from captured rows, its stages run one after the other, and the last    *)
(* one's output gives the hidden rows, the confidence and the logits.  It  *)
(* works in the buffers of the target model's chunks.                      *)
(***************************************************************************)
EXTENDS LayerStages

Stages == <<"first", "last">>

Switches ==
  { o \in [fused : BOOLEAN,     \* runtime_fused_stage0_setup
           seed : BOOLEAN,      \* initial_cache_ready
           alias : BOOLEAN,     \* no DS4_DSPARK_DISABLE_FINAL_OUTPUT_ALIAS
           precheck : BOOLEAN,  \* runtime_confidence_precheck
           steer_attn : {FALSE}, steer_ffn : BOOLEAN, materialize : BOOLEAN,
           emit : {FALSE}] : TRUE }

Scratch == {"flat_hc", "hc_mix", "hc_split", "attn_cur", "attn_norm", "qr", "qr_norm", "q",
            "half", "kv_raw", "kv", "heads", "attn_low", "attn_out", "after_attn_hc",
            "ffn_cur", "ffn_norm", "router_logits", "router_selected", "routed_out",
            "shared_gate", "shared_up", "shared_mid", "shared_out", "ffn_out"}
(* Of the drafter alone: row 0 of its stages' input is the target's row,   *)
(* the rows after it the draft's.                                          *)
Own == {"draft_tokens", "stage0_proj", "main_x", "draft_hc", "target_hc", "input_target",
        "input_draft", "stage_output_hc", "stage0_packed", "confidence0", "spec_logits",
        "prefill_tokens", "next_hc", "cur_hc"}

(* Each ring: seeded to the target's last row or not, and then the block's *)
(* rows appended.                                                          *)
Init ==
  /\ pc = "setup" /\ opt \in Switches
  /\ mem = [b \in Scratch \cup Own |-> "stale"]
             @@ [s \in Range(Stages) |-> IF opt.seed THEN "reset" ELSE "support"]
             @@ [target_hidden |-> "captured", captured_batch |-> "captured", stage |-> "first"]

At(stage) == pc = stage /\ UNCHANGED opt

-----------------------------------------------------------------------------
(* The target's row, projected and normalised, and the draft's embeddings  *)
Stage0 == <<Op([target_hidden |-> "captured"], [stage0_proj |-> "row"]),
            Op([stage0_proj |-> "row"], [main_x |-> "row"])>>
WriteTokens == <<Op(<<>>, [draft_tokens |-> "rows"])>>
SetupBlock == <<Op([draft_tokens |-> "rows"], [draft_hc |-> "embedded"]),
                Op([main_x |-> "row"], [target_hc |-> "row"]),
                Op([target_hc |-> "row"], [input_target |-> "row"]),
                Op([draft_hc |-> "embedded"], [input_draft |-> "first"])>>

(* metal_graph_prepare_dspark_stage0_setup_block in one list of commands,  *)
(* or metal_graph_eval_dspark_stage0 before a list of its own.             *)
Setup ==
  /\ At("setup")
  /\ Encode({IF opt.fused THEN WriteTokens \o Stage0 \o SetupBlock
                          ELSE Stage0 \o WriteTokens \o SetupBlock},
            IF opt.seed THEN "seed" ELSE "chain")

(* Every stage's ring from the captured rows of a prompt, in the buffers   *)
(* of a chunk.                                                             *)
SeedRows ==
  {<<Op([captured_batch |-> "captured"], [stage0_packed |-> "seed"]),
     Op([stage0_packed |-> "seed"], [ffn_cur |-> "seed"]),
     Op([ffn_cur |-> "seed"], [ffn_norm |-> "seed"]),
     Op([ffn_norm |-> "seed"], [cur_hc |-> "seed"])>>}

(* Mutant: the ring is filled before its rows are quantized. *)
SeedStageRaw(stage) ==
  Then(HcPre("seed", [cur_hc |-> "seed"], "attn_cur", "attn_norm", FALSE),
       {<<Op([attn_norm |-> "seed"], [kv_raw |-> "proj"]), KvNorm, KvRope,
          Op([kv |-> "quantized"], stage :> "support"), KvQuantize>>})
SeedStage(stage) ==
  Then(HcPre("seed", [cur_hc |-> "seed"], "attn_cur", "attn_norm", FALSE),
       {<<Op([attn_norm |-> "seed"], [kv_raw |-> "proj"]), KvNorm, KvRope, KvQuantize,
          Op([kv |-> "quantized"], stage :> "support")>>})

(* A failed seed resets the window: no chain runs. *)
Seed ==
  /\ At("seed")
  /\ Encode(Then(SeedRows, Then(SeedStage("first"), SeedStage("last"))), "chain")

-----------------------------------------------------------------------------
(* The chain of stages.  A stage takes its draft rows from the stage       *)
(* before it and the target's row as it was set up; the rows of both are   *)
(* appended to its ring, and the draft's see them all.                     *)
Chain ==
  /\ At("chain")
  /\ Encode(Just(Op([draft_tokens |-> "rows"], [prefill_tokens |-> "rows"])), "block")

Input == [input_target |-> "row", input_draft |-> mem.stage]

BlockRows ==
  {<<Qr, QrNorm, QProj, Op([q |-> "proj"], [q |-> "normed"]),
     Op([q |-> "normed"], [q |-> "roped"]), KvRaw, KvNorm,
     Op([kv |-> "normed"], [kv |-> "target roped"]),
     Op([kv |-> "target roped"], [kv |-> "roped"]), KvQuantize,
     Op([kv |-> "quantized"] @@ mem.stage :> "support", mem.stage :> "block"),
     Op([q |-> "roped"] @@ mem.stage :> "block", [heads |-> "attended"]), HeadsBack,
     Op([heads |-> "back"], [attn_low |-> "attn", attn_out |-> "plain"]),
     Op([attn_out |-> "plain", hc_split |-> "attn", input_draft |-> mem.stage], AfterAttn)>>}

Block ==
  /\ At("block")
  /\ Encode(Then(HcPre("attn", Input, "attn_cur", "attn_norm", FALSE), BlockRows), "ffn_pre")

FfnPre == At("ffn_pre") /\ Encode(FfnBatchPre, "experts")
Experts == At("experts") /\ Encode(FfnBatchExperts, "output")

Output == [next_hc |-> Steered(opt.steer_ffn)]

(* The draft rows of the next stage.  What this stage left in the other    *)
(* buffers is nothing the next one may use.                                *)
NextStage ==
  /\ At("output") /\ mem.stage = "first"
  /\ \/ /\ mem' = [b \in Scratch |-> "stale"]
                   @@ [Run(mem, <<Op(Output, [input_draft |-> "last"])>>)
                         EXCEPT !.stage = "last", !.next_hc = "stale"]
        /\ pc' = "block"
     \/ pc' = "failed" /\ UNCHANGED mem

(* Mutant: the copy is left out whether or not the output is read there. *)
FinalCopyNever == Nothing
FinalCopy == When(~opt.alias, Just(Op(Output, [stage_output_hc |-> Output.next_hc])))

LastStage ==
  /\ At("output") /\ mem.stage = "last"
  /\ Encode(FinalCopy, IF opt.precheck THEN "hidden" ELSE "logits")

-----------------------------------------------------------------------------
(* metal_graph_dspark_final_output_hc *)
FinalOutput == (IF opt.alias THEN "next_hc" ELSE "stage_output_hc") :> Steered(opt.steer_ffn)

FinalHidden == OutputRows(FinalOutput, "hc_mix", "hc_split", "ffn_cur", "ffn_norm")
Logits == Op([ffn_norm |-> "head"], [spec_logits |-> "draft"])

(* With a precheck the hidden rows come first, in the chain's commands or  *)
(* after them; the confidence of the first decides whether the logits      *)
(* follow.  Without it they come together.                                 *)
Hidden ==
  /\ At("hidden")
  /\ Encode(Then(FinalHidden, Just(Op([ffn_norm |-> "head"], [confidence0 |-> "draft"]))),
            "decide")
Reject == At("decide") /\ pc' = "rejected" /\ UNCHANGED mem
Accept == At("decide") /\ Encode(Just(Logits), "done")
BaseLogits == At("logits") /\ Encode(Then(FinalHidden, Just(Logits)), "done")

Next == Setup \/ Seed \/ Chain \/ Block \/ FfnPre \/ Experts \/ NextStage \/ LastStage
          \/ Hidden \/ Reject \/ Accept \/ BaseLogits

(* The logits are those of the draft rows after every stage, and every     *)
(* ring has the block's rows after the support rows.                       *)
LayerDone ==
  /\ pc = "done" => mem.spec_logits = "draft"
  /\ pc \in {"done", "rejected"} => \A s \in Range(Stages) : mem[s] = "block"

=============================================================================

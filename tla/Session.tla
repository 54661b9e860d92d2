------------------------------- MODULE Session -------------------------------
(***************************************************************************)
(* One ds4_session: the live token checkpoint of an inference context, the *)
(* backend state that stands behind it, and the calls that move both.      *)
(*                                                                         *)
(* The backend state of a layer (raw KV rows, compressed rows, compressor  *)
(* frontier, row counters) is abstracted to the token sequence it was      *)
(* built from, its frontier, or to Torn when no token sequence explains    *)
(* it: a call that failed half-way, or a token evaluated at a position     *)
(* which is not the length of the frontier.  The logits are likewise the   *)
(* token sequence they were computed after.                                *)
(*                                                                         *)
(* A prefill runs in steps, because the code calls back into the program   *)
(* (progress, display progress, cancel) between them.                      *)
(***************************************************************************)
EXTENDS Integers, Sequences

CONSTANTS
  Token,        \* the vocabulary
  NLayers,      \* DS4_N_LAYER: number of transformer layers
  CtxSize,      \* s->ctx_size
  PrefillCap,   \* s->prefill_cap: largest prefill chunk
  RawCap,       \* g->raw_cap: rows of the raw KV ring
  ResumeMin,    \* metal_graph_resume_prefill_min_tokens()
  Prompts,      \* the prompts the program may ask for
  Dspark,       \* g->dspark_capture_enabled
  FaultSites,   \* where a CUDA call or a read may fail
  Rewinds,      \* the positions the program rewinds to (ds4_session_rewind)
  Torn,         \* backend state that no token sequence explains
  NoPayload     \* no payload has been saved yet

Sites == {"reset", "whole", "cold", "resume", "decode", "load"}

ASSUME SizesAssumption ==
  /\ NLayers \in Nat \ {0}
  /\ CtxSize \in Nat \ {0}
  /\ PrefillCap \in Nat \ {0}
  /\ RawCap \in Nat \ {0}
  /\ ResumeMin \in Nat \ {0}
ASSUME PromptsAssumption == Prompts \subseteq Seq(Token)
ASSUME TornAssumption == Torn \notin Seq(Token)
ASSUME FaultsAssumption ==
  FaultSites \subseteq Sites /\ Rewinds \subseteq Nat /\ Dspark \in BOOLEAN

Layers == 1 .. NLayers
Frontier == Seq(Token) \cup {Torn}

VARIABLES
  checkpoint,  \* s->checkpoint: the live tokens
  valid,       \* s->checkpoint_valid
  fed,         \* fed[l]: the frontier of layer l's cache
  logits,      \* s->logits: the tokens they follow
  capture,     \* the captured DSpark target hidden row
  pc,          \* where the running call stands
  op,          \* the last call made
  ret,         \* what it returned
  prompt,      \* the prompt of the running sync
  mode,        \* which way the running sync prefills
  start, pos,  \* first position of the range, and of the chunk, in prefill
  il,          \* next layer of the chunk
  saved        \* the payload last written by ds4_session_save_payload

live == <<checkpoint, valid>>
graph == <<fed, logits, capture>>
job == <<prompt, mode, start, pos, il>>
vars == <<live, graph, job, pc, op, ret, saved>>

-----------------------------------------------------------------------------
(* Frontiers *)

(* Evaluating token t at position p in a layer with frontier f. *)
FeedOne(f, t, p) ==
  IF f # Torn /\ Len(f) = p THEN Append(f, t) ELSE Torn

(* Prefilling tokens p+1 .. q of s in a layer with frontier f.  A chunk at *)
(* position zero rebuilds the layer whatever it held.                      *)
FeedRange(f, s, p, q) ==
  CASE p = 0 -> SubSeq(s, 1, q)
    [] p # 0 /\ f # Torn /\ Len(f) = p -> f \o SubSeq(s, p + 1, q)
    [] OTHER -> Torn

(* What the output head computes: meaningful when all layers agree. *)
Output(f) == IF \A l \in Layers : f[l] = f[1] THEN f[1] ELSE Torn

(* A failed call leaves any set of layers half-written. *)
TornSome(f, g) ==
  \E S \in SUBSET Layers : g = [l \in Layers |-> IF l \in S THEN Torn ELSE f[l]]

StartsWith(s, t) == Len(t) <= Len(s) /\ SubSeq(s, 1, Len(t)) = t

(* metal_graph_dspark_capture_invalidate *)
NoCapture == [ok |-> FALSE, len |-> 0, seq |-> <<>>]

(* ds4_session_dspark_capture_note_checkpoint, for the given checkpoint *)
Noted(c, tokens) ==
  IF c.ok /\ tokens # <<>> THEN [c EXCEPT !.len = Len(tokens)] ELSE NoCapture

(* Mutants: no stop at the boundary of the cap; the distance past the last *)
(* boundary taken for the distance to the next.                            *)
ChunkEndUnaligned(s, p, e) == IF e - p < PrefillCap THEN e ELSE p + PrefillCap
ChunkEndNoProgress(s, p, e) ==
  LET local == IF s # 0 THEN p % PrefillCap ELSE PrefillCap
  IN IF e - p < local THEN e ELSE p + local

(* The end of the chunk that starts at p of a range that starts at s and   *)
(* ends at e: resumed ranges stop at the multiples of PrefillCap.          *)
ChunkEnd(s, p, e) ==
  LET cap == IF s # 0 /\ PrefillCap > RawCap THEN RawCap ELSE PrefillCap
      toBoundary == PrefillCap - (p % PrefillCap)
      local == IF s # 0 /\ p % PrefillCap # 0 /\ toBoundary < cap
               THEN toBoundary ELSE cap
  IN IF e - p < local THEN e ELSE p + local

Fails(site) == site \in FaultSites

(* ds4_session_rewrite_from_common folds every failure of the sync it makes. *)
Told(who, what) == IF who = "rewrite" /\ what # "ok" THEN "error" ELSE what

(* A call that returns at once, and the end of a running sync. *)
Answer(who, what) == pc' = "idle" /\ ret' = Told(who, what) /\ UNCHANGED job
Return(what) ==
  /\ pc' = "idle" /\ ret' = Told(op, what)
  /\ prompt' = <<>> /\ mode' = "none"
  /\ start' = 0 /\ pos' = 0 /\ il' = 1
  /\ UNCHANGED op

Idle == pc = "idle"

-----------------------------------------------------------------------------
Init ==
  /\ checkpoint = <<>> /\ valid = FALSE
  /\ fed = [l \in Layers |-> <<>>]
  /\ logits = Torn
  /\ capture = NoCapture
  /\ pc = "idle" /\ op = "create" /\ ret = "none"
  /\ prompt = <<>> /\ mode = "none"
  /\ start = 0 /\ pos = 0 /\ il = 1
  /\ saved = NoPayload

-----------------------------------------------------------------------------
(* ds4_session_sync *)

Extends(p) == valid /\ StartsWith(p, checkpoint)
Suffix(p) == Len(p) - Len(checkpoint)
LongSuffix(p) == Suffix(p) > 0 /\ Suffix(p) >= ResumeMin

(* A prompt that is not empty and leaves room to generate. *)
Accepts(p) == p # <<>> /\ Len(p) < CtxSize

SyncReject(p, who) ==
  /\ ~Accepts(p)
  /\ Answer(who, "error")
  /\ UNCHANGED <<live, graph>>

(* The cancel callback asks to stop before anything is done. *)
SyncCancelled(p, who) ==
  /\ Accepts(p)
  /\ Answer(who, "interrupted")
  /\ UNCHANGED <<live, graph>>

(* A long enough suffix is prefilled in chunks from the live end.  The     *)
(* first progress report, at the live end, rewrites the same checkpoint.   *)
SyncResume(p) ==
  /\ Accepts(p) /\ Extends(p) /\ LongSuffix(p)
  /\ prompt' = p /\ mode' = "resume" /\ pc' = "report"
  /\ start' = Len(checkpoint) /\ pos' = Len(checkpoint)
  /\ capture' = IF checkpoint # <<>> THEN Noted(capture, checkpoint) ELSE capture
  /\ UNCHANGED <<live, fed, logits, il, ret>>

(* A short one is decoded token by token. *)
SyncExtend(p) ==
  /\ Accepts(p) /\ Extends(p) /\ ~LongSuffix(p)
  /\ prompt' = p /\ mode' = "extend" /\ pc' = "extend"
  /\ UNCHANGED <<live, graph, start, pos, il, ret>>

(* Mutant: the tokens of the dropped checkpoint are kept. *)
SyncColdKeepsTokens(p, who) ==
  /\ Accepts(p) /\ ~Extends(p)
  /\ valid' = FALSE /\ capture' = NoCapture
  /\ fed' = [l \in Layers |-> <<>>]
  /\ prompt' = p /\ pc' = "report" /\ start' = 0 /\ pos' = 0
  /\ mode' = IF PrefillCap < Len(p) THEN "cold" ELSE "whole"
  /\ UNCHANGED <<checkpoint, logits, il, ret>>

(* Otherwise the checkpoint is dropped and the prompt prefilled from zero, *)
(* in chunks or whole; metal_graph_reset_prefill_state may itself fail.    *)
SyncCold(p, who) ==
  /\ Accepts(p) /\ ~Extends(p)
  /\ checkpoint' = <<>> /\ valid' = FALSE
  /\ capture' = NoCapture
  /\ \/ /\ fed' = [l \in Layers |-> <<>>]
        /\ prompt' = p /\ pc' = "report"
        /\ mode' = IF PrefillCap < Len(p) THEN "cold" ELSE "whole"
        /\ start' = 0 /\ pos' = 0
        /\ UNCHANGED <<il, ret>>
     \/ /\ Fails("reset")
        /\ TornSome(fed, fed')
        /\ Answer(who, "error")
  /\ UNCHANGED logits

SyncStart(p, who) ==
  \/ SyncReject(p, who) \/ SyncCancelled(p, who)
  \/ SyncResume(p) \/ SyncExtend(p) \/ SyncCold(p, who)

SyncCall(p) ==
  /\ Idle
  /\ op' = "sync"
  /\ SyncStart(p, "sync")
  /\ UNCHANGED saved

(* ds4_session_rewrite_from_common: replace what follows the first common  *)
(* tokens of the checkpoint.  Only a pure extension is done in place.      *)
RewriteLegal(p, common) ==
  /\ Accepts(p) /\ valid
  /\ common <= Len(checkpoint) /\ common <= Len(p)
  /\ SubSeq(checkpoint, 1, common) = SubSeq(p, 1, common)

RewriteCall(p, common) ==
  /\ Idle
  /\ op' = "rewrite"
  /\ \/ /\ RewriteLegal(p, common) /\ common = Len(checkpoint)
        /\ SyncStart(p, "rewrite")
     \/ /\ RewriteLegal(p, common) /\ common # Len(checkpoint)
        /\ pc' = "idle" /\ ret' = "rebuild"
        /\ UNCHANGED <<live, graph, job>>
     \/ /\ ~RewriteLegal(p, common)
        /\ Answer("rewrite", "error")
        /\ UNCHANGED <<live, graph>>
  /\ UNCHANGED saved

-----------------------------------------------------------------------------
(* metal_graph_prefill_chunked_range and metal_graph_prefill_raw_swa.  At  *)
(* "report" the progress callback of the program has just been called.     *)

InChunks == mode \in {"resume", "cold"}
ThisEnd == ChunkEnd(start, pos, Len(prompt))

(* Mutant: a cancelled range goes back to where it started. *)
RangeCancelRestart ==
  /\ pc = "report" /\ InChunks
  /\ checkpoint' = SubSeq(prompt, 1, start)
  /\ valid' = IF mode = "cold" THEN start > 0 ELSE valid
  /\ Return("interrupted")
  /\ UNCHANGED <<graph, saved>>

(* Between chunks the program may cancel; what is done stays usable. *)
RangeCancel ==
  /\ pc = "report" /\ InChunks
  /\ valid' = IF mode = "cold" THEN checkpoint # <<>> ELSE valid
  /\ Return("interrupted")
  /\ UNCHANGED <<checkpoint, graph, saved>>

(* metal_graph_dspark_capture_begin_prefill, then the layers in order. *)
ChunkBegin ==
  /\ pc = "report" /\ pos < Len(prompt)
  /\ capture' = NoCapture
  /\ pc' = "layers" /\ il' = 1
  /\ UNCHANGED <<live, fed, logits, prompt, mode, start, pos, op, ret, saved>>

(* Mutant: one layer too many. *)
ChunkLayerPastEnd ==
  /\ pc = "layers" /\ il <= NLayers + 1
  /\ fed' = [l \in Layers |-> IF l = il THEN FeedRange(fed[l], prompt, pos, ThisEnd)
                                         ELSE fed[l]]
  /\ il' = il + 1
  /\ UNCHANGED <<live, logits, capture, prompt, mode, start, pos, pc, op, ret, saved>>

ChunkLayer ==
  /\ pc = "layers" /\ il <= NLayers
  /\ fed' = [fed EXCEPT ![il] = FeedRange(@, prompt, pos, ThisEnd)]
  /\ il' = il + 1
  /\ UNCHANGED <<live, logits, capture, prompt, mode, start, pos, pc, op, ret, saved>>

Captured == [ok |-> Dspark, len |-> 0, seq |-> IF Dspark THEN Output(fed) ELSE <<>>]

(* Mutant: the report of a chunk publishes the whole prompt. *)
ChunkHeadAhead ==
  /\ pc = "layers" /\ il = NLayers + 1 /\ InChunks
  /\ logits' = Output(fed)
  /\ checkpoint' = prompt /\ valid' = TRUE
  /\ capture' = Noted(Captured, prompt)
  /\ pos' = ThisEnd /\ il' = 1 /\ pc' = "report"
  /\ UNCHANGED <<fed, prompt, mode, start, op, ret, saved>>

(* The output head, and the progress report that publishes the chunk. *)
ChunkHead ==
  /\ pc = "layers" /\ il = NLayers + 1 /\ InChunks
  /\ logits' = Output(fed)
  /\ checkpoint' = SubSeq(prompt, 1, ThisEnd) /\ valid' = TRUE
  /\ capture' = Noted(Captured, SubSeq(prompt, 1, ThisEnd))
  /\ pos' = ThisEnd /\ il' = 1 /\ pc' = "report"
  /\ UNCHANGED <<fed, prompt, mode, start, op, ret, saved>>

(* The whole prompt in one chunk: no report, and no way to cancel it. *)
WholeHead ==
  /\ pc = "layers" /\ il = NLayers + 1 /\ mode = "whole"
  /\ logits' = Output(fed)
  /\ checkpoint' = prompt /\ valid' = TRUE
  /\ capture' = Noted(Captured, prompt)
  /\ Return("ok")
  /\ UNCHANGED <<fed, saved>>

RangeDone ==
  /\ pc = "report" /\ pos = Len(prompt)
  /\ checkpoint' = prompt /\ valid' = TRUE
  /\ capture' = Noted(capture, prompt)
  /\ Return("ok")
  /\ UNCHANGED <<fed, logits, saved>>

(* Mutant: no path drops validity. *)
RangeFaultKeepsValid ==
  /\ pc \in {"report", "layers"} /\ pos < Len(prompt)
  /\ Fails(mode)
  /\ TornSome(fed, fed')
  /\ Return("error")
  /\ UNCHANGED <<live, logits, capture, saved>>

(* A CUDA call of the chunk fails.  Only the resumed path drops validity. *)
RangeFault ==
  /\ pc \in {"report", "layers"} /\ pos < Len(prompt)
  /\ Fails(mode)
  /\ IF pc = "report"
     THEN UNCHANGED graph
     ELSE /\ TornSome(fed, fed')
          /\ logits' \in {logits, Torn}
          /\ capture' \in {NoCapture, Captured}
  /\ valid' = IF mode = "resume" THEN FALSE ELSE valid
  /\ Return("error")
  /\ UNCHANGED <<checkpoint, saved>>

-----------------------------------------------------------------------------
(* Decoding one token: metal_graph_eval_token_raw_swa at the live end. *)

Decoded(t) ==
  LET after == [l \in Layers |-> FeedOne(fed[l], t, Len(checkpoint))]
  IN /\ fed' = after
     /\ logits' = Output(after)
     /\ checkpoint' = Append(checkpoint, t) /\ valid' = TRUE
     /\ capture' = Noted([ok |-> Dspark, len |-> 0,
                          seq |-> IF Dspark THEN Output(after) ELSE <<>>],
                         Append(checkpoint, t))

(* Mutant: a failed decode leaves the checkpoint valid. *)
DecodeFailedKeepsValid ==
  /\ Fails("decode")
  /\ TornSome(fed, fed')
  /\ capture' = NoCapture
  /\ UNCHANGED <<live, logits>>

DecodeFailed ==
  /\ Fails("decode")
  /\ TornSome(fed, fed')
  /\ logits' \in {logits, Torn}
  /\ capture' = NoCapture
  /\ valid' = FALSE
  /\ UNCHANGED checkpoint

Behind == Len(checkpoint) < Len(prompt)

ExtendToken ==
  /\ pc = "extend" /\ Behind
  /\ Decoded(prompt[Len(checkpoint) + 1])
  /\ UNCHANGED <<job, pc, op, ret, saved>>

ExtendCancel ==
  /\ pc = "extend" /\ Behind
  /\ Return("interrupted")
  /\ UNCHANGED <<live, graph, saved>>

ExtendFault ==
  /\ pc = "extend" /\ Behind
  /\ DecodeFailed
  /\ Return("error")
  /\ UNCHANGED saved

ExtendDone ==
  /\ pc = "extend" /\ ~Behind
  /\ Return("ok")
  /\ UNCHANGED <<live, graph, saved>>

-----------------------------------------------------------------------------
(* The other calls of an idle session. *)

Immediate(who, what) == op' = who /\ Answer(who, what)

(* ds4_session_eval: callers decode only after a call that went well, and  *)
(* while the context has room.                                             *)
MayEval == Idle /\ ret = "ok" /\ Len(checkpoint) < CtxSize

Eval(t) ==
  /\ MayEval
  /\ Decoded(t)
  /\ Immediate("eval", "ok")
  /\ UNCHANGED saved

EvalFault ==
  /\ MayEval
  /\ DecodeFailed
  /\ Immediate("eval", "error")
  /\ UNCHANGED saved

Forget ==
  /\ checkpoint' = <<>> /\ valid' = FALSE /\ capture' = NoCapture
  /\ UNCHANGED <<fed, logits>>

Invalidate ==
  /\ Idle
  /\ Forget
  /\ Immediate("invalidate", "none")
  /\ UNCHANGED saved

(* ds4_session_rewind *)
Rewind(n) ==
  /\ Idle /\ n < Len(checkpoint)
  /\ checkpoint' = SubSeq(checkpoint, 1, n) /\ capture' = NoCapture
  /\ op' = "rewind"
  /\ UNCHANGED <<valid, fed, logits, job, pc, ret, saved>>

(* Mutant: a payload may also be saved from the display progress callback. *)
SavePayloadAnyTime ==
  /\ valid
  /\ saved' = [tokens |-> checkpoint, fed |-> fed, logits |-> logits]
  /\ UNCHANGED <<live, graph, job, pc, op, ret>>

(* ds4_session_save_payload: between calls, or from the progress callback. *)
SavePayload ==
  /\ pc \in {"idle", "report"} /\ valid
  /\ saved' = [tokens |-> checkpoint, fed |-> fed, logits |-> logits]
  /\ UNCHANGED <<live, graph, job, pc, op, ret>>

(* Mutant: the captured row survives a load. *)
LoadPayloadKeepsRow ==
  /\ Idle /\ saved # NoPayload /\ Len(saved.tokens) < CtxSize
  /\ checkpoint' = saved.tokens /\ valid' = TRUE
  /\ fed' = saved.fed /\ logits' = saved.logits
  /\ Immediate("load", "ok")
  /\ UNCHANGED <<capture, saved>>

(* ds4_session_load_payload *)
LoadPayload ==
  /\ Idle /\ saved # NoPayload /\ Len(saved.tokens) < CtxSize
  /\ checkpoint' = saved.tokens /\ valid' = TRUE
  /\ fed' = saved.fed /\ logits' = saved.logits
  /\ capture' = NoCapture
  /\ Immediate("load", "ok")
  /\ UNCHANGED saved

(* It may fail on the header, which touches nothing; while it reads the    *)
(* logits in place; or while it reads the rows.                            *)
LoadFault ==
  /\ Idle /\ saved # NoPayload
  /\ op' = "load" /\ ret' = "error" /\ pc' = "loadfailed"
  /\ \/ /\ Len(saved.tokens) >= CtxSize \/ Fails("load")
        /\ UNCHANGED <<live, graph>>
     \/ /\ Len(saved.tokens) < CtxSize /\ Fails("load")
        /\ logits' \in {Torn, saved.logits}
        /\ UNCHANGED <<live, fed, capture>>
     \/ /\ Len(saved.tokens) < CtxSize /\ Fails("load")
        /\ logits' = saved.logits
        /\ valid' = FALSE /\ capture' = NoCapture
        /\ TornSome(fed, fed')
        /\ UNCHANGED checkpoint
  /\ UNCHANGED <<job, saved>>

(* ds4_kvstore_try_load_text invalidates a session it could not restore. *)
LoadAbandon ==
  /\ pc = "loadfailed"
  /\ Forget
  /\ pc' = "idle" /\ op' = "invalidate" /\ ret' = "none"
  /\ UNCHANGED <<job, saved>>

-----------------------------------------------------------------------------
RangeStep ==
  \/ RangeCancel \/ ChunkBegin \/ ChunkLayer
  \/ ChunkHead \/ WholeHead \/ RangeDone \/ RangeFault
ExtendStep == ExtendToken \/ ExtendCancel \/ ExtendFault \/ ExtendDone
SyncStep == RangeStep \/ ExtendStep

Call ==
  \/ \E p \in Prompts : SyncCall(p)
  \/ \E p \in Prompts, common \in 0 .. CtxSize : RewriteCall(p, common)
  \/ \E t \in Token : Eval(t)
  \/ EvalFault
  \/ Invalidate
  \/ \E n \in Rewinds : Rewind(n)
  \/ SavePayload
  \/ LoadPayload
  \/ LoadFault
  \/ LoadAbandon

Next == SyncStep \/ Call

Spec == Init /\ [][Next]_vars
FairSpec == Spec /\ WF_vars(SyncStep) /\ WF_vars(LoadAbandon)

-----------------------------------------------------------------------------
(* Properties *)

Modes == {"none", "resume", "cold", "whole", "extend"}
Payload == [tokens : Seq(Token), fed : [Layers -> Frontier], logits : Frontier]

(* "None saved yet" is no payload. *)
ASSUME PayloadAssumption == NoPayload \notin Payload

(* Every variable stays in the set its C declaration and use give it. *)
TypeOK ==
  /\ checkpoint \in Seq(Token) /\ valid \in BOOLEAN
  /\ fed \in [Layers -> Frontier] /\ logits \in Frontier
  /\ capture \in [ok : BOOLEAN, len : Nat, seq : Frontier]
  /\ pc \in {"idle", "report", "layers", "extend", "loadfailed"}
  /\ op \in {"create", "sync", "rewrite", "eval", "invalidate", "rewind", "load"}
  /\ ret \in {"none", "ok", "error", "interrupted", "rebuild"}
  /\ prompt \in Seq(Token) /\ mode \in Modes
  /\ start \in Nat /\ pos \in Nat /\ il \in 1 .. NLayers + 1
  /\ saved \in Payload \cup {NoPayload}

(* Where a running sync stands in its prompt. *)
RangeShape ==
  pc \in {"report", "layers"} =>
    /\ mode \in {"resume", "cold", "whole"}
    /\ start <= pos /\ pos <= Len(prompt) /\ 0 < Len(prompt)
    /\ mode # "resume" => start = 0
    /\ mode = "whole" => pos = 0 /\ pos < Len(prompt) /\ Len(prompt) <= PrefillCap
    /\ pc = "layers" => pos < Len(prompt)

(* Whenever the program has control and the checkpoint is valid, every     *)
(* layer cache and the logits stand exactly at the checkpoint: what        *)
(* session_sync.c says a checkpoint is, and what eval, save_payload and    *)
(* the resumed path of sync rely on without looking.                       *)
FrontierMatches ==
  pc \in {"idle", "report", "extend"} /\ valid =>
    /\ \A l \in Layers : fed[l] = checkpoint
    /\ logits = checkpoint

(* The same of a prefill range: what its layers and its checkpoint hold.   *)
Upto(n) == SubSeq(prompt, 1, n)
RangeFrontier ==
  pc \in {"report", "layers"} =>
    /\ \A l \in Layers :
         fed[l] = Upto(IF pc = "layers" /\ l < il THEN ThisEnd ELSE pos)
    /\ CASE mode = "resume" -> valid /\ checkpoint = Upto(pos)
         [] mode = "cold" -> (valid <=> pos > 0) /\ checkpoint = Upto(pos)
         [] OTHER -> ~valid
ExtendFrontier == pc = "extend" => valid /\ StartsWith(prompt, checkpoint)
OkValid == Idle /\ ret = "ok" => valid

(* A payload on disk describes the tokens it is filed under, however many  *)
(* calls, failures and cancellations came before it was written.           *)
SavedPayloadSound ==
  saved # NoPayload =>
    /\ \A l \in Layers : saved.fed[l] = saved.tokens
    /\ saved.logits = saved.tokens

(* The inductive strengthening of the two: see SessionProofs. *)
IInv ==
  /\ RangeFrontier
  /\ ExtendFrontier
  /\ OkValid
  /\ FrontierMatches
  /\ SavedPayloadSound

(* The target hidden row DSpark drafts from is the one of the last live    *)
(* token whenever session_dspark_capture_current accepts it.               *)
CaptureSound ==
  Idle /\ valid /\ capture.ok /\ capture.len = Len(checkpoint) =>
    capture.seq = checkpoint

(* Every chunk but the last ends on a multiple of the prefill cap, resumed *)
(* ranges included, so a resumed prompt is compressed on the schedule of a *)
(* cold one (the comment above metal_graph_prefill_chunked_range).         *)
ChunkSchedule ==
  pc = "layers" =>
    /\ pos < ThisEnd
    /\ ThisEnd - pos <= PrefillCap
    /\ ThisEnd = Len(prompt) \/ ThisEnd % PrefillCap = 0

Running == pc \in {"report", "layers", "extend"}
SyncReturns == Running /\ pc' = "idle"

(* A sync that says ok leaves the prompt live; an interrupted one leaves a *)
(* valid prefix of the prompt or nothing at all (ds4.h on                  *)
(* DS4_SESSION_SYNC_INTERRUPTED).                                          *)
SyncOutcome ==
  [][SyncReturns =>
       /\ ret' = "ok" => valid' /\ checkpoint' = prompt
       /\ ret' = "interrupted" =>
            IF valid' THEN StartsWith(prompt, checkpoint')
                      ELSE checkpoint' = <<>>]_vars

(* A sync that says ok leaves the backend at the prompt too, so the next   *)
(* token is sampled from the logits of that prompt and no other.           *)
SyncedOutput ==
  [][SyncReturns /\ ret' = "ok" =>
       logits' = prompt /\ \A l \in Layers : fed'[l] = prompt]_vars

(* While a sync runs its checkpoint only grows: a cancelled or failed      *)
(* prefill never costs tokens that an earlier chunk had made durable.      *)
ProgressKept ==
  [][Running => StartsWith(checkpoint', checkpoint)]_vars

(* Every call returns: the chunk loop always advances. *)
CallReturns == (pc # "idle") ~> (pc = "idle")

=============================================================================

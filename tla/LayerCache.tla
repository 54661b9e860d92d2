----------------------------- MODULE LayerCache -----------------------------
(***************************************************************************)
(* The compressed cache of one layer.  Every group of ratio tokens becomes *)
(* one compressed row, computed from a recurrent state that holds the      *)
(* tokens of the running group and, in layers of ratio 4, those of the     *)
(* group before it.  Rows are appended on four paths: a cold chunk, a      *)
(* chunk aligned to the groups, a chunk taken token by token, and decode.  *)
(* A row is the set of what was pooled into it; which rows a token ends up *)
(* in must not depend on the path it came by.                              *)
(***************************************************************************)
EXTENDS Integers, Sequences

CONSTANTS
  Token,          \* bound: the tokens of prompts and of decoding
  DraftToken,     \* bound: the tokens of drafts
  Ratios,         \* the ds4_layer_compress_ratio of the layers, without 0
  CtxSize,        \* s->ctx_size
  PrefillCap,     \* g->prefill_cap
  MaxDraft,       \* longest draft a verifier runs
  PrefixSlots,    \* DS4_SPEC_PREFIX_SLOTS
  BatchPooling,   \* DS4_CUDA_NO_COMPRESSOR_PREFILL_BATCH is not set
  RaggedCold,     \* bound: cold chunks may end inside a group of four
  Empty           \* a state row without a token: value 0, score -inf

CacheAssumption ==
  /\ Ratios \subseteq Nat \ {0}
  /\ CtxSize \in Nat /\ PrefillCap \in Nat /\ MaxDraft \in Nat /\ PrefixSlots \in Nat
  /\ BatchPooling \in BOOLEAN /\ RaggedCold \in BOOLEAN
  /\ Empty \notin Nat \X (Token \cup DraftToken)

VARIABLES
  ratio,  \* the layer's ratio
  fed,    \* the tokens the layer holds
  attn,   \* the attention compressor: its state, its rows, layer_n_comp
  index,  \* the indexer's, in layers of ratio 4
  pc,     \* "idle", or the loop of a chunk taken token by token
  batch,  \* the tokens of the running chunk
  t,      \* the next of them
  counts, \* comp_counts: rows visible to each token of the last chunk
  spec    \* the running speculation: its start, snapshot and prefix slots

cachevars == <<ratio, fed, attn, index, pc, batch, t, counts, spec>>

NoSpec == [on |-> FALSE]

-----------------------------------------------------------------------------
(* The recurrent state *)

Grouped == ratio = 4
StateRows == 0 .. (IF Grouped THEN 7 ELSE ratio - 1)
EmptyState == [r \in StateRows |-> Empty]
CompCap == CtxSize \div ratio + 2
Fresh == [state |-> EmptyState, rows |-> <<>>, n |-> 0]

(* The token that position p of the sequence f holds. *)
At(f, p) == <<p, f[p + 1]>>
Span(f, from, to) == {At(f, p) : p \in from .. to}

(* compressor_set_rows: n tokens of f from position src to rows dst on. *)
SetRows(state, f, src, dst, n) ==
  [r \in StateRows |-> IF r \in dst .. dst + n - 1 THEN At(f, src + r - dst) ELSE state[r]]

(* Mutant: the rows of the current group, whatever the ratio. *)
StoreFlat(state, f, p) == SetRows(state, f, p, p % ratio, 1)
Store(state, f, p) ==
  SetRows(state, f, p, IF Grouped THEN 4 + (p % 4) ELSE p % ratio, 1)

Shift(state) == [r \in StateRows |-> IF r < 4 THEN state[r + 4] ELSE state[r]]

(* What is pooled: of the group before, its first halves, of the current   *)
(* one its second.  Empty rows have no weight.                             *)
Halves(half, tokens) == {half} \X (tokens \ {Empty})
StatePart(state, from, to) == {state[r] : r \in from .. to}

PoolState(state) ==
  IF Grouped THEN Halves("prev", StatePart(state, 0, 3)) \cup Halves("cur", StatePart(state, 4, 7))
  ELSE Halves("cur", StatePart(state, 0, ratio - 1))

(* Row c of a chunk that begins at position pos. *)
PoolBatch(state, f, pos, c, replay) ==
  LET first == pos + c * ratio
      before == IF ~Grouped THEN {}
                ELSE IF c > 0 THEN Span(f, first - 4, first - 1)
                ELSE IF replay THEN StatePart(state, 0, 3) ELSE {}
  IN Halves("prev", before) \cup Halves("cur", Span(f, first, first + ratio - 1))

(* n new rows behind the first "at" of the cache; what was behind them     *)
(* before is behind the count now, where nothing reads.                    *)
Rows(c, at, n, new) ==
  [k \in 1 .. at + n |-> IF k <= at THEN c.rows[k] ELSE new[k - at]]

(* The rows of a chunk of n tokens that begins at pos. *)
ChunkRows(state, f, pos, n, replay) ==
  [k \in 1 .. n \div ratio |-> PoolBatch(state, f, pos, k - 1, replay)]

-----------------------------------------------------------------------------
(* One token: ds4_gpu_compressor_update_tensor and the count after it. *)

Emits(p) == (p + 1) % ratio = 0

(* Mutant: the group before is not kept. *)
UpdateNoShift(c, f, p) ==
  LET state == Store(c.state, f, p)
  IN IF ~Emits(p) THEN [c EXCEPT !.state = state]
     ELSE [state |-> state,
           rows |-> Rows(c, c.n, 1, <<PoolState(state)>>),
           n |-> c.n + 1]

Update(c, f, p) ==
  LET state == Store(c.state, f, p)
  IN IF ~Emits(p) THEN [c EXCEPT !.state = state]
     ELSE [state |-> IF Grouped THEN Shift(state) ELSE state,
           rows |-> Rows(c, c.n, 1, <<PoolState(state)>>),
           n |-> c.n + 1]

(* metal_graph_refresh_ratio4_compressor_state: the state is built again   *)
(* from the last four tokens of the chunk.                                 *)
Refreshed(state, f, pos, n) ==
  IF Grouped /\ n >= 4 THEN SetRows(EmptyState, f, pos + n - 4, 0, 4) ELSE state

(* ds4_gpu_compressor_prefill_tensor: the last whole group, then the rest. *)
PrefillState(f, pos, n) ==
  LET cutoff == n - (n % ratio)
      before == IF Grouped /\ cutoff >= 4 THEN SetRows(EmptyState, f, pos + cutoff - 4, 0, 4)
                ELSE EmptyState
  IN SetRows(before, f, pos + cutoff, IF Grouped THEN 4 ELSE 0, n % ratio)

ColdPrefill(c, f, n) ==
  [state |-> Refreshed(PrefillState(f, 0, n), f, 0, n),
   rows |-> ChunkRows(EmptyState, f, 0, n, FALSE),
   n |-> n \div ratio]

(* Mutant: the first row of an aligned chunk forgets the group before. *)
AlignedNoReplay(c, f, pos, n) ==
  [state |-> Refreshed(PrefillState(f, pos, n), f, pos, n),
   rows |-> Rows(c, c.n, n \div ratio, ChunkRows(c.state, f, pos, n, FALSE)),
   n |-> c.n + n \div ratio]

(* ds4_gpu_compressor_prefill_ratio4_replay_tensor, or the same as a cold  *)
(* chunk for the other ratios.                                             *)
AlignedPrefill(c, f, pos, n) ==
  [state |-> Refreshed(PrefillState(f, pos, n), f, pos, n),
   rows |-> Rows(c, c.n, n \div ratio, ChunkRows(c.state, f, pos, n, Grouped)),
   n |-> c.n + n \div ratio]

OfIndex(c) == IF Grouped THEN c ELSE index

-----------------------------------------------------------------------------
CacheInit ==
  /\ ratio \in Ratios
  /\ fed = <<>> /\ attn = Fresh /\ index = Fresh
  /\ pc = "idle" /\ batch = <<>> /\ t = 0 /\ counts = <<>>
  /\ spec = NoSpec

Idle == pc = "idle"
Chunks(n) == [1 .. n -> Token]
Drafts(n) == [1 .. n -> DraftToken]

(* (pos + t + 1) / ratio for each token of a chunk of n. *)
CountsOf(pos, n) == [k \in 1 .. n |-> (pos + k) \div ratio]

(* A cold prompt replaces whatever the layer held. *)
ColdChunk(n) ==
  /\ Idle /\ ~spec.on /\ n <= PrefillCap /\ n <= CtxSize
  /\ RaggedCold \/ ~Grouped \/ n < 4 \/ n % 4 = 0
  /\ n \div ratio <= CompCap
  /\ \E p \in Chunks(n) :
       /\ fed' = p
       /\ attn' = ColdPrefill(attn, p, n)
       /\ index' = OfIndex(ColdPrefill(index, p, n))
  /\ counts' = CountsOf(0, n)
  /\ UNCHANGED <<ratio, pc, batch, t, spec>>

(* A chunk behind the tokens that are there, prefill or a verified draft.  *)
(* It is pooled in one launch if it is made of whole groups and no prefix  *)
(* of it may be committed.                                                 *)
ShortDraft(b) == Len(b) > 1 /\ Len(b) <= PrefixSlots + 1
Aligned(n) == BatchPooling /\ Len(fed) % ratio = 0 /\ n % ratio = 0

ChunkAtOnce(b) ==
  /\ Aligned(Len(b)) /\ attn.n + Len(b) \div ratio <= CompCap
  /\ fed' = fed \o b
  /\ attn' = AlignedPrefill(attn, fed', Len(fed), Len(b))
  /\ index' = OfIndex(AlignedPrefill(index, fed', Len(fed), Len(b)))
  /\ counts' = CountsOf(Len(fed), Len(b))
  /\ UNCHANGED <<pc, t>>

ChunkByToken(b) ==
  /\ pc' = "attn" /\ t' = 0 /\ counts' = <<>>
  /\ UNCHANGED <<fed, attn, index>>

Chunk(n) ==
  /\ Idle /\ ~spec.on /\ Len(fed) > 0 /\ n <= PrefillCap /\ Len(fed) + n <= CtxSize
  /\ \E b \in Chunks(n) :
       /\ batch' = b
       /\ IF Aligned(n) THEN ChunkAtOnce(b) ELSE ChunkByToken(b)
  /\ UNCHANGED <<ratio, spec>>

(* The state after token t goes to slot t, of a draft short enough. *)
Captures(slots, c) ==
  IF spec.on /\ ShortDraft(batch) /\ t + 1 < Len(batch) /\ t < PrefixSlots
  THEN [slots EXCEPT ![t + 1] = [state |-> c.state, n |-> c.n]]
  ELSE slots

(* The attention compressor takes the tokens one after the other, then the *)
(* indexer's does.                                                         *)
TokenAttn ==
  /\ pc = "attn"
  /\ Emits(Len(fed) + t) => attn.n < CompCap
  /\ attn' = Update(attn, fed \o batch, Len(fed) + t)
  /\ counts' = Append(counts, attn'.n)
  /\ spec' = IF spec.on THEN [spec EXCEPT !.attn = Captures(spec.attn, attn')] ELSE spec
  /\ IF t + 1 < Len(batch) THEN t' = t + 1 /\ UNCHANGED <<pc, fed>>
     ELSE IF Grouped THEN t' = 0 /\ pc' = "index" /\ UNCHANGED fed
     ELSE t' = 0 /\ pc' = "idle" /\ fed' = fed \o batch
  /\ UNCHANGED <<ratio, index, batch>>

TokenIndex ==
  /\ pc = "index"
  /\ Emits(Len(fed) + t) => index.n < CompCap
  /\ index' = Update(index, fed \o batch, Len(fed) + t)
  /\ spec' = IF spec.on THEN [spec EXCEPT !.index = Captures(spec.index, index')] ELSE spec
  /\ IF t + 1 < Len(batch) THEN t' = t + 1 /\ UNCHANGED <<pc, fed>>
     ELSE t' = 0 /\ pc' = "idle" /\ fed' = fed \o batch
  /\ UNCHANGED <<ratio, attn, batch, counts>>

Decode ==
  /\ Idle /\ ~spec.on /\ Len(fed) > 0 /\ Len(fed) < CtxSize
  /\ Emits(Len(fed)) => attn.n < CompCap /\ (Grouped => index.n < CompCap)
  /\ \E tok \in Token :
       LET f == Append(fed, tok)
       IN /\ fed' = f
          /\ attn' = Update(attn, f, Len(fed))
          /\ index' = OfIndex(Update(index, f, Len(fed)))
  /\ UNCHANGED <<ratio, pc, batch, t, counts, spec>>

-----------------------------------------------------------------------------
(* Speculation *)

NoSlot == [state |-> <<>>, n |-> 0]

(* spec_frontier_snapshot, then metal_graph_verify_suffix_tops runs the    *)
(* draft as a chunk.                                                       *)
Verify(n) ==
  /\ Idle /\ ~spec.on /\ Len(fed) > 0 /\ n <= PrefillCap /\ Len(fed) + n < CtxSize
  /\ spec' = [on |-> TRUE, base |-> fed, saved |-> <<attn, index>>,
              attn |-> [k \in 1 .. PrefixSlots |-> NoSlot],
              index |-> [k \in 1 .. PrefixSlots |-> NoSlot]]
  /\ \E b \in Drafts(n) :
       /\ batch' = b
       /\ IF Aligned(n) /\ ~ShortDraft(b) THEN ChunkAtOnce(b) ELSE ChunkByToken(b)
  /\ UNCHANGED ratio

Verified == spec.on /\ Idle

CommitAll ==
  /\ Verified
  /\ spec' = NoSpec
  /\ UNCHANGED <<ratio, fed, attn, index, pc, batch, t, counts>>

(* Mutant: the counters of the longest prefix stay. *)
CommitPrefixKeepCount(k) ==
  /\ Verified /\ k < Len(batch) /\ ShortDraft(batch)
  /\ attn' = [attn EXCEPT !.state = spec.attn[k].state]
  /\ index' = OfIndex([index EXCEPT !.state = spec.index[k].state])
  /\ fed' = spec.base \o SubSeq(batch, 1, k)
  /\ spec' = NoSpec
  /\ UNCHANGED <<ratio, pc, batch, t, counts>>

(* spec_frontier_commit_prefix: rows of later tokens stay as garbage. *)
CommitPrefix(k) ==
  /\ Verified /\ k < Len(batch) /\ ShortDraft(batch)
  /\ attn' = [attn EXCEPT !.state = spec.attn[k].state, !.n = spec.attn[k].n]
  /\ index' = OfIndex([index EXCEPT !.state = spec.index[k].state, !.n = spec.index[k].n])
  /\ fed' = spec.base \o SubSeq(batch, 1, k)
  /\ spec' = NoSpec
  /\ UNCHANGED <<ratio, pc, batch, t, counts>>

(* spec_frontier_restore *)
Rollback ==
  /\ Verified
  /\ attn' = [attn EXCEPT !.state = spec.saved[1].state, !.n = spec.saved[1].n]
  /\ index' = OfIndex([index EXCEPT !.state = spec.saved[2].state, !.n = spec.saved[2].n])
  /\ fed' = spec.base
  /\ spec' = NoSpec
  /\ UNCHANGED <<ratio, pc, batch, t, counts>>

CacheNext ==
  \/ \E n \in 1 .. PrefillCap : ColdChunk(n) \/ Chunk(n)
  \/ TokenAttn \/ TokenIndex \/ Decode
  \/ \E n \in 1 .. MaxDraft : Verify(n)
  \/ CommitAll \/ Rollback
  \/ \E k \in 1 .. PrefixSlots : CommitPrefix(k)

CacheSpec == CacheInit /\ [][CacheNext]_cachevars

-----------------------------------------------------------------------------
(* Properties *)

(* What row c of the sequence f is made of: the second halves of its group *)
(* and, in layers of ratio 4, the first halves of the group before.        *)
RowOf(f, c) ==
  Halves("prev", IF Grouped /\ c > 0 THEN Span(f, 4 * c - 4, 4 * c - 1) ELSE {})
    \cup Halves("cur", Span(f, c * ratio, c * ratio + ratio - 1))

(* The state after the first n tokens of f: the unfinished group and, in   *)
(* layers of ratio 4, the last finished one.                               *)
Pending(state, f, n) ==
  LET m == n % ratio
  IN /\ \A r \in 0 .. m - 1 : state[IF Grouped THEN 4 + r ELSE r] = At(f, n - m + r)
     /\ Grouped => \A r \in 0 .. 3 : state[r] = IF n >= 4 THEN At(f, n - m - 4 + r) ELSE Empty

(* A compressor holds the first n tokens of f. *)
Holds(c, f, n) ==
  /\ c.n = n \div ratio
  /\ Len(c.rows) >= c.n
  /\ \A k \in 1 .. c.n : c.rows[k] = RowOf(f, k - 1)
  /\ Pending(c.state, f, n)

(* Every token of a chunk sees the rows that its position completes. *)
VisibleRows == pc # "idle" => \A k \in DOMAIN counts : counts[k] = (Len(fed) + k) \div ratio

(* Whatever the path its tokens came by, whole chunks, single tokens or    *)
(* drafts of which a part was dropped, a compressor's rows, its state and  *)
(* its count are a function of them; and while a chunk is taken token by   *)
(* token, each attends to the rows of the tokens up to itself.             *)
RowsMatch ==
  /\ Idle => /\ Holds(attn, fed, Len(fed))
             /\ Grouped => Holds(index, fed, Len(fed))
  /\ VisibleRows

=============================================================================

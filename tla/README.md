# A TLA+ model of ds4x

ds4x runs one large language model on one GPU: an engine that holds the weights,
sessions that hold a live context, and programs (a command line, a benchmark)
that drive a session token by token. This directory holds TLA+ specifications
of the parts of it whose correctness depends on order, failure and bookkeeping,
the configurations that model-check them with TLC, and proofs checked by TLAPS.

Paths below are relative to the root of the sources, so `src/src/engine/...` is
written `engine/...`.

## 1. Inventory

| Component | State it keeps | Operations | What is hard | What makes it correct |
|---|---|---|---|---|
| Session (`engine/session/generation.c`, `session_sync.c`, `session_state.c`, `checkpoint.c`, `batch.c`) | the live tokens (`checkpoint`, `checkpoint_valid`), the logits, the captured hidden row | sync, rewrite, eval, invalidate, rewind, save and load of a payload | calls fail or are cancelled half-way; callbacks run the program inside a call; the next call trusts what the last one left | a valid checkpoint, every layer cache, the logits and the captured row describe one token sequence |
| Prefill driver (`engine/runtime/prefill_runner.c`, `prefill_attention.c`, `prefill_ffn.c`) | position in a prompt, layer in a chunk | cold, resumed and whole prefill | cancellation and progress between chunks, chunk boundaries | progress is durable, chunks follow one schedule, the loop ends |
| Speculative decoding (`batch.c`, `spec_frontier.c`, `long_prompt.c`) | a frontier snapshot, prefix slots, drafts | propose, verify, commit, roll back, replay | four ways out, each of which must restore another part of the state | what is accepted is the target's own continuation and is what the session holds |
| Raw attention window (`long_prompt.c`, `graph_setup.c`, `decode_primitives.c`) | a ring of key rows for each layer | store a batch, read a window, save, load | wraps, batches larger than the ring, rows of dropped drafts | each query reads its window and nothing else |
| Layer caches and compressors (`decode_layer.c`, `prefill_attention.c`, `dspark_verify.c`) | compressed rows, pending groups, counters | append, rebuild, capture a prefix, roll back | six code paths must count rows alike | the rows are a function of the tokens |
| DSpark drafter (`dspark_prefill.c`, `verifier.c`, `dspark_verify.c`, `engine_lifecycle.c`) | captured hidden rows of the target, a ring of its own and its window, a scheduler of pauses | capture, seed, crop, propose, note | positions and rows parting by one; rows of dropped drafts; pauses that renew themselves | a proposal attends to the live tokens' hidden states and no others |
| Decode graph (`decode_layer.c`, `runtime.cu`) | recordings of launches, the scratch buffer they name | encode, capture, replay, drop | a recording outlives a buffer; a capture launches nothing | each piece of a layer runs once, with what is there |
| Layer encoders (`decode_layer.c`, `prefill_attention.c`, `prefill_ffn.c`, `verifier.c`) | work buffers that every layer uses again | encode a layer for a token, a chunk, a draft block | many switches choose encodings far apart | no launch reads what was not written for it |
| Weights on the device (`runtime.cu`, `storage.cu`, `model_cache.c`) | ranges, arenas, staging buffers | map, upload, look up | asynchronous copies, buffers used again, two files with equal offsets | a pointer is to the bytes asked for |
| Routed experts (`moe_dispatch.cu`) | pair lists, tiles, shared scratch | one launch | ten kernels over lists cut in three ways; buffers under several layouts | the sum over each token's experts, each once |
| Indexer (`indexer.cu`) | scores, candidate lists | score, select | ten tiers; warps that meet at different barriers | each token's best rows, in their order |
| Worker pool (`engine/core/platform.c`) | threads, a job, a generation, a count | start, parallel for, shutdown | lost wake-ups, a job on a stack, a worker that wakes late | each row is done once, before the caller goes on; shutdown ends |
| Checkpoint store (`storage/ds4_kvstore.c`) | files in a directory, the last continued store | open, store, evict, look up, load | crashes between steps, a budget, other engines' files | files are whole, the budget holds, what is stored is found |
| Engine lifecycle (`engine_lifecycle.c`, `generation.c`) | a lock file, mappings | open, close | two processes; order of releases | one engine at a time |
| Model files, tokenizer (`engine/model/`) | read-only tables | parse, encode | none between calls | pure functions |
| Command line (`apps/ds4_cli.c`) | a transcript | one shot, chat turn | interrupts between tokens | transcript and session agree |
| Numeric kernels (`ds4x_kernel/`) | device memory | launches | numeric | outside of this model, except which rows are written and read |
| Support, diagnostics (`support/`, `diagnostics.c`) | | | vendored, printing | |

How they interact: a program calls a *session*; a sync runs the *prefill driver*,
which encodes every layer of a chunk and calls the program back (progress,
cancel) between chunks; an eval runs the *decode graph*; a speculative eval asks
the *drafter* for a block, which uses the *worker pool* for one arg max, has the
*verifier* run it, and commits into the session. A layer appends to its *raw
ring* and to its *compressed rows*, asks the *indexer* which of those to attend
to, and ends in the *routed experts*; all of them read *weights* by range. A
*store* saves and loads a session's payload as a file. All of a session runs on
one thread; concurrency is in the worker pool, in the upload stream, in the
kernels, and between processes that share a directory.

## 2. Modules

| Module | Models | State of the module, and of the code |
|---|---|---|
| `Session` | a session and the prefill driver | `checkpoint`, `valid`, `logits`, `capture` are the fields of `ds4_session`; `fed[l]` is the token sequence layer `l` holds; `pc`, `mode`, `start`, `pos`, `il` are the locals of the running sync |
| `SpecDecode` | speculation, on a session of `Session` | `base`, `accepted`, `limit`, `draft`, `commit` are locals of `ds4_session_eval_dspark_speculative_argmax`; `snap` its `spec_frontier`, `slots` the prefix slots of the graph |
| `TextSession` | what a program is promised of a session | `text`, `answer`, `asked`, `told`, `shelf`: the text a session holds, the text its logits answer, the prompt of the running sync, what the last call said, the text of the payload saved last |
| `RawRing` | the raw ring of a layer | `ring[i]` is the position whose row slot `i` holds; `seen` what the queries of the last launch read |
| `LayerCache` | the compressors of a layer | `attn` and `index`: recurrent state, rows and counter of the attention and the indexer compressor; `spec` the snapshot and the prefix slots |
| `DsparkCache` | what the drafter knows of the target | `row`, `batch` the captures; `rawcache`, `win` its cache and window; `sched` the scheduler's counters; `reads` what the last proposal attended to |
| `DecodeGraphs` | recorded launches of a decode step | `entries` is `g_decode_graphs`, `tmp` the scratch buffer; `run` the token that is encoded |
| `LayerStages`, `DecodeLayer`, `BatchLayer`, `DraftBlock`, `LayerFlow` | the launches of a layer: the machine and shared stages; for a token; for a chunk; for the drafter's block; the three as one | `mem[b]` names the content of buffer `b`, `opt` are the switches |
| `WeightCache` | model files on the device | `startup`, `here`, `from` are the calls that start the engine and how far they have come; `ranges` is the table of cached ranges, `device` what the arenas hold, `stage` the pinned buffers, `flight` the upload stream, `upload` the upload the host is in |
| `MoeDispatch` | one launch of the routed experts | `gate`, `up`, `mid`, `down` the scratch buffers by what they hold; `counts`, `offsets`, `sorted`, `tiles` the lists |
| `IndexerTopK`, `TopKStream` | one call of the indexer; the block that streams rows, warp by warp | `scores`, `sets`, `picked`; registers, shared buffer, count and threshold of a block |
| `ThreadPool`, `ParallelArgmax` | `g_pool` and the job that runs on it; what a caller is promised | the fields of `g_pool`, a program counter for each worker and for the caller; one request, one answer |
| `KVStore` | the checkpoint store | `files` is the directory; `pc`, `job`, `tmp` the running call |
| `SessionProofs`, `RingProofs`, `LayerCacheProofs`, `DecodeGraphsProofs`, `ThreadPoolProofs`, `KVStoreProofs`, `WeightCacheProofs`, `KernelProofs` | theorems about the module they are named after; `SessionProofs` has those about `SpecDecode`, too, `RingProofs` those about `RawRing` and `DsparkCache`, `KernelProofs` those about `TopKStream` and `MoeDispatch` | |

`MCSession`, `MCSpecDecode`, `MCRawRing`, `MCLayerCache`, `MCTopKStream` and
`MCKVStore` give one module model values and bounds. `MCSpecAll`, `MCCaches`
(which extends `RawRing` and `DsparkCache`), `MCDecodeGraphs` (`DecodeGraphs` and
`LayerCache`) and `MCLaunches` check several components that share nothing in
one run: a variable `side` is chosen in the initial state, only that side moves,
and the others stay as they began, so that the states add up and do not
multiply. `MCMoeCalls` and `MCIndexerCalls` list the calls they enumerate.

### What is abstracted

* In `Session` a layer's cache is the token sequence it was computed from, or
  `Torn` when no sequence explains it: a call failed in it, or a token was
  evaluated at a position that is not its length. The logits and the captured
  row are likewise the tokens they follow. A property about numbers becomes one
  about sequences: "the logits are those of the checkpoint" is
  `logits = checkpoint`. `LayerCache` and `RawRing` look inside of that.
* A CUDA call or a read may fail wherever the configuration's `FaultSites` allow
  it, and leaves any subset of the layers torn.
* The program may make any call between two calls, within what the command line
  and the benchmark do: `MayEval` says that a token is evaluated only after a
  call that went well and while the context has room, as the generation loops
  check. The progress callback may save the session. `ds4_session_rewind`
  (`batch.c:447`) is in the model behind the set `Rewinds`, because no program
  in the repository calls it; with it `FrontierMatches` fails at once, as a
  rewind leaves the layers where they were.
* The drafter proposes anything. The target is an operator, `Greedy`.
* In `RawRing` a row is the position it was written for. The store of one launch
  writes its rows in no particular order (one block for each row), and never
  more rows than the ring has, so that no two of them are for one slot. In
  `LayerCache` a compressed row is the set of positioned tokens pooled into it,
  by the half of the group they stand in. In `DsparkCache` a hidden state is the
  tokens up to its position.
* In the encoders a buffer holds the name of its content, and a launch that
  reads anything else leaves junk. In `MoeDispatch` a value is what it was
  computed from; in `IndexerTopK` a score is a small number, and sorts are by
  score and row as the packed keys of the kernels are.
* In `WeightCache` a file is a sequence of units, one unit is copied at a time,
  and a unit on the device is the file and the offset it came from. The units of
  an upload go through the pinned buffers in turn. Which tensors a span takes is
  given as a set: those from the first on that follow closely in a span that is
  short enough, which is what the loop over the sorted tensors comes to.
* In `KVStore` a text is its own name, a payload has one byte for each token,
  and time is the chance that hits have decayed. A process can be killed
  between any two steps that touch the disk. The file it was writing is then
  under a name that no lookup reads. A directory or a file of it that cannot be
  opened or read is passed over: what a call sees of the directory is any part of
  it when the fault "look" may happen, and all of it otherwise (`Views`).

### Composition

`SpecDecode` extends `Session` and interleaves its own steps with every call of
it, and both implement `TextSession` under the mapping at the end of
`SpecDecode`: while a speculation runs the text is the one it began with, at any
other time it is the checkpoint, if that is valid. `ThreadPool` contains the arg max job and implements `ParallelArgmax` under
the mapping given at its end. `DecodeLayer`, `BatchLayer` and `DraftBlock`
extend `LayerStages`, and `LayerFlow` is any of the three. `LayerCache` and
`RawRing` refine in prose what `Session` calls feeding a layer: the rows of one
token sequence. `Session`'s `saved` payload and `KVStore`'s `live` are two views
of one thing; `RawRing`'s payload rows are a third.

## 3. Runs

| Run | What it shows | Bounds |
|---|---|---|
| `session` | the session's invariants and what a sync may come to, under every call and every failure but that of a cold chunk | two tokens, two layers, a context of 4, prompts of up to 3 tokens (and one that fills the context), chunks and ring of 2: a prompt may be extended, resumed in two chunks, diverge, fill the context |
| `spec_decode` | speculation is exact and keeps the session whole, every stage of it failing, chunks follow the schedule, and all of it seen from outside is a text that grows or is gone (`KeepsText`); beside it, what is accepted is live even when a commit has no slot | three tokens, context 6, prompts of one and five tokens in chunks of 3, blocks of 3; two slots and limits 1, 3, 4, decode faults; the second session: one slot, limit 4, rewinds to anywhere, cold chunks that fail |
| `caches` | what depends on how long a prompt is: both rings, that every call returns, the drafter's window and its pauses | ring: window and chunk of 4, ring of 8, context of 14, so that it wraps; second ring: chunks of 6 in 4 rows, a cold one of which is refused and a later one cut; session: context 7, chunks of 3, prompts of up to 7 tokens, rewinds to 1, 3, 5; drafter: ring of 6, context 9, chunks of 3, blocks of 2 |
| `graphs` | a token runs every piece of its layers once, recorded or not; beside it, the compressed rows of a layer are those of its tokens | one layer, two variants of a recording, a session that comes and goes on two addresses, two sizes of the scratch buffer; compressors: ratios 3 and 4, context 11, chunks of up to 6, drafts of up to 5, two slots |
| `launches` | the encoders in every mix of switches, the weights, the experts, the indexer, the streaming block, and the pool | one layer; two model files of 7 and 2 units, two staging buffers, three arenas, one failing upload; the calls of `MCMoeCalls` and `MCIndexerCalls`; two warps; three threads, a generation counter modulo 2, vectors of 2, 4 and 5 scores |
| `kvstore` | the store, killed anywhere, refused anything: opening the directory or a file, reading a text, writing, renaming, removing | three texts, three engines of two context sizes and two quantizations, room for two or three files |
| `session_cold_fault`, `spec_stale_slots`, `spec_past_eos`, `raw_ring_clamped`, `layer_cache_ragged`, `topk_stream_race` | six disagreements, see below | |

The bounds are the smallest in which each action and each way out of it happens;
each property is shown to depend on the code by a deliberate mistake in one
definition (the operators commented "Mutant") that TLC finds at the same bounds.
A counter modulo 2 is the hardest case for the pool: a worker that is two
generations late could not tell. Deadlock is checked in every run but
`topk_stream_race`, whose block ends when it has written its rows.

### Properties

* `FrontierMatches`: whenever the program has control and the checkpoint is
  valid, all layers and the logits are at the checkpoint. Eval, save and resumed
  sync rely on it and check nothing. `SpecFrontier` is the same with the
  captured row, between the steps of a speculation.
* `SavedPayloadSound`, `CaptureSound`: the same of what is on disk, and of the
  row the drafter reads.
* `SyncOutcome`, `SyncedOutput`, `ProgressKept`: what a sync may say, what must
  then hold, and that a cancelled or failed sync costs no published chunk.
* `ChunkSchedule`, `CallReturns`: resumed chunks end where cold ones do; the
  loop ends.
* `AcceptedIsLive`, `LongAccepted`, `GreedyExact`: what a speculation returns is
  what the session holds and what single-token decoding would have produced.
* `KeepsText`: the text a program sees only grows, by its own prompt or token and
  then by the target's choices, is forgotten whole, or comes back from a payload;
  a call that is refused or cancelled changes none of it, and what the logits
  answer is always that text.
* `WindowSeen`, `LiveRows`, `PayloadRows`: a query reads its window and nothing
  else, the next token's window is there, and a payload holds the rows it names.
  `LongOwnRowsSeen` is what remains in a ring of any size: no key of a query's
  own launch is missing, and no other live token's row is taken for one.
* `RowsMatch`: compressed rows, state and counters are a function of the tokens.
* `DraftsFromLive`, `PausesEnd`: a proposal attends to hidden states of the live
  tokens without a gap; no pause of the scheduler feeds on the cycles it skips.
* `RanOnce`, `ReplaySound`, `TokenEnds`: each piece once and in order; with the
  buffers and arguments of now; the loop around a capture ends.
* `NothingJunk`, `LayerLeaves`: no launch reads what was not
  written for it; a layer leaves its output, rows and counters; a counter never
  covers rows that are not there, also when a launch failed.
* `LookupsTrue`, `PreparedAll`: a range that is found holds the tensor's bytes;
  an engine that opened has every tensor.
* `RoutedSum`: a call that says it worked has added each pair once, to nothing
  else unless the launch that zeroes the sums failed. `SelectedBest`,
  `ExactTogether`: the best rows by every tier, of which the streamed one is taken
  as exact; and that it is, as long as the warps of a block stay together.
* `JobAlive`, `RowsOnce`, `Implements`, `ShutdownEnds`: no worker touches a job
  whose caller has returned; every row is searched once; the answer is the first
  best row; shutdown ends.
* `FilesWhole`, `BudgetKept`, `StoredIsFound`, `KeepsUsable`, `AnchorsLast`: a
  name always stands for a whole file; a store leaves the directory in its
  budget, unless something was refused while it made room; what was stored is the
  best match of its own text; files an engine could load go only to make room, or
  to a store under the same text that could not read them; anchors go after the
  waypoints eviction sees.

### Fairness

Only weak fairness, and only of code that goes on by itself. `CallReturns`: the
steps of a running sync (`SyncStep`, `LoadAbandon`), ordinary sequential code.
`PausesEnd`: what follows a proposal (`FollowUp`), which the same call runs.
`TokenEnds`: the encoding of a token (`EncodeStep`), a loop. `Implements` and
`ShutdownEnds`: the steps of each thread of the pool; POSIX threads are
scheduled, and a waiter that was signalled can take the mutex once it is free.
Nothing is assumed of the program, and no strong fairness is used.

### Disagreements found

1. `session_cold_fault`. A failing later chunk of a cold prefill leaves
   `checkpoint_valid` set over layers that are half written (`generation.c:329`);
   the resumed path clears it (`generation.c:264`). The retry resumes from it and
   reports success.
2. `spec_stale_slots`. With drafts longer than `DS4_SPEC_PREFIX_SLOTS + 1` the
   verifier captures no prefixes, yet a partial commit of few drafts restores
   from the slots (`batch.c:227`).
3. `spec_past_eos`. A partial commit stops the checkpoint at Eos but restores
   layers and logits from after it (`batch.c:250`). It needs a draft that
   continues past Eos.
4. `raw_ring_clamped`. The ring is clamped to 8192 rows after the window was
   added, so a chunk about that large overwrites the window its first queries
   need (`long_prompt.c:274`), against the comment at `prefill_attention.c:386`.
5. `layer_cache_ragged`. After a cold chunk that ends inside a group of four,
   `metal_graph_refresh_ratio4_compressor_state` (`dspark_prefill.c:511-578`)
   stores the last four tokens where the last whole group belongs and loses the
   unfinished one.
6. `topk_stream_race`. Warps of a block test a shared count after a barrier and
   a faster one adds to it before a slower one has read it (`indexer.cu:916`):
   they branch apart and meet at different barriers.

Met while reading, without a run:

* a resumed chunk of one token fails: the attention entries take the packed rings
  only for more than one token (`attention_prefill.cu:2136`, `:2183`), and what
  they fall through to asks for rows of floats (`:1909`) or for the format F32
  (`:2207`). `Session` has such a failure among its faults;
* the drafter's rings are allocated and read as rows of floats
  (`graph_state.c:382`, `attention_prefill.cu:74`) and written by the same store
  as the target's, which packs them (`attention_prefill.cu:478`). `DsparkCache`
  has the positions of rows, not their format;
* `metal_graph_dspark_ring_maintain` says (`dspark_verify.c:4`) "Keep the support
  KV ring aligned while the scheduler skips proposals." The block of a proposal
  is stored behind the window and never claimed, so after a proposal the window
  ends one position short and a skipped cycle keeps nothing: the next proposal
  begins a window again;
* the routed experts with Q4_K weights and 2 to 8 tokens compute pairs 4 to 7
  twice, with equal results (`moe_dispatch.cu:892`);
* whether the launch that zeroes the output of the adding kernels worked
  (`moe_dispatch.cu:1581`) is forgotten: the kernel behind it is launched all the
  same and its status takes the place (`:1772`), so the call answers 1 over sums
  that were added to what was there. `MoeDispatch` has it (`ZeroFails`), and
  `RoutedSum` and `RoutedAlways` say that it is the only such failure;
* a store removes a file that an engine could load when comparing its text fails
  to read it (`ds4_kvstore.c:817-832`, `:856-857`), replaces one that it could not
  look at (`:445-449`), and goes over its budget when the directory cannot be
  opened (`:471-472`). `KVStore` has these refusals, and `BudgetKept`,
  `KeepsUsable` and their theorems name them as the exceptions;
* a load that fails between reading the logits (`session_state.c:218`) and
  declaring the checkpoint invalid (`:252`) leaves the old checkpoint valid over
  other logits. The caller in the sources invalidates the session then
  (`ds4_kvstore.c:1304`);
* a cold chunk is not cut to the ring as later ones are: one that is longer is
  refused by the layers that compress, which take the whole batch from the ring
  (`attention_prefill.cu:2185`). The layers that compress nothing read the batch
  itself;
* `ds4_engine_close` unmaps the model files before it stops the backend that
  still names their addresses (`generation.c:4-16`); mapping a support model
  releases the ranges cached for the target, which are then uploaded again
  (`storage.cu:262`).

## 4. Proofs

Each theorem is about every value of the constants under the assumptions that
the module states for them; the runs above are instances. What a theorem's name
states is in the comment before it.

### `SessionProofs`

* `Types`: `Spec => []TypeOK`. `TypeOK` is not inductive: that a chunk's start,
  position and end lie in the prompt (`RangeShape`) is needed for the sequences
  to be sequences of tokens. `TInv` is the two together.
* `SessionInvariant`, and from it `Frontiers`, `SavedPayloads`, `Outcomes` and
  `Outputs`: `Sound /\ Spec =>` the properties `FrontierMatches`,
  `SavedPayloadSound`, `SyncOutcome`, `SyncedOutput`. `Sound` excludes exactly
  what disagreement 1 and `ds4_session_rewind` do: a failing cold chunk and a
  program that rewinds. The properties are not inductive: between the layers of
  a chunk the caches disagree on purpose. `IInv` adds where each layer stands in
  a running range (`RangeFrontier`), that an extension runs on a valid prefix of
  its prompt (`ExtendFrontier`), and that a call that went well left a valid
  checkpoint (`OkValid`), which is what makes `Eval` safe.
* `Captures`: `Sound /\ Spec => []CaptureSound`, from `RowOfEnd`: while the
  checkpoint is valid a captured row is the one of its end, whatever length was
  noted. The property alone is not inductive.
* `Progress`: `Spec => ProgressKept`, whatever fails, from `Durable`: during a
  range the checkpoint is the prompt up to the position reached.
* `Schedule`: `PrefillCap <= RawCap /\ Spec => []ChunkSchedule`, whatever fails.
  `Aligned` says that a range from zero stands on a multiple of the cap until it
  is done; a resumed one may start anywhere, and its first chunk reaches the
  next multiple. In a ring smaller than a chunk the code cuts resumed chunks to
  the ring (`prefill_runner.c:313`), and the property does not hold.

About `SpecDecode`, whose steps interleave with the session's:

* `Accepted`: `~DraftPastEos /\ SpecSpec => []AcceptedIsLive`, with every
  failure, rewind and number of slots. `SInv` says how far the two token lists
  are at each stage (`Stages`) and that a draft fits the context and the limit
  (`Fits`).
* `SpecInvariant`, `SpecFrontiers`, `GreedyText`: `Ample /\ SpecSpec =>` the
  invariants `SpecFrontier` and `GreedyExact`. `Ample` is `Sound`, no draft past
  Eos, and a slot for every prefix of a block. `FInv` adds to the session's
  invariant where the layers, the snapshot and the slots stand at each stage and
  that the drafts so far agree with the target (`Stands`).

* `SessionText` and `TextKept`: `Sound /\ Spec => KeepsText` and `Ample /\
  SpecSpec => KeepsText`: both implement `TextSession`. The invariants above make
  the mapping meaningful: `Visible` (from `FrontierMatches` and its like) has that
  the logits answer the text whenever the program can look at it, and `Pending`
  that a speculation began in a session that was told ok and had room. Then every
  step is one of the text or none. A layer, a chunk that is not yet published and
  the stages of a speculation are none; a chunk that is done is `Advance`; the
  step with which a speculation returns is `Generate` of many tokens at once, by
  `AcceptedIsLive` and `GreedyExact` in the state after it (`ReturnSeen`). That
  the model value for "no payload" is none (`PayloadAssumption`) is needed to tell
  whether there is one to load.

The runs `spec_past_eos`, `spec_stale_slots` and `session_cold_fault` show that
no hypothesis can be dropped.

### `RingProofs`

About `RawRing`:

* `RingInvariant`, and from it `Windows`, `Live`, `Payloads`: `Fits /\ Spec =>`
  the invariants `WindowSeen`, `LiveRows`, `PayloadRows`. `Fits` says that the
  ring has room for a chunk and the window in front of it, or for the whole
  context, which is what the code says it is sized for. What a query reads
  depends on what the last launch left in the ring, and a reload on what was
  saved, so `RInv` holds the three together with the positions a payload names.
* `UnclampedFits`: the sizing function makes `Fits` true unless
  `DS4_METAL_GRAPH_RAW_CAP` or the largest ring clamps it; disagreement 4 is the
  other case.
* `OwnRows`: `Spec => []OwnRowsSeen`, of every ring, also where `Fits` fails. A
  later chunk is cut to the ring and a longer cold one is refused, so a launch
  never overwrites its own rows; what it can lose is the window in front of it.

They rest on `SameRow` (two positions of one physical row are a whole ring
apart), `RowAfter` (the walk of the attention kernel round the ring), and on
what a launch overwrites and keeps (`StoredNew`, `StoredOld`, `StoredBehind`).

About `DsparkCache`:

* `DraftInvariant`, `LiveDrafts`: `DraftAssumption /\ DraftSpec =>
  []DraftsFromLive`, whatever the scheduler decides, the drafter proposes and
  the verifier keeps. A proposal is taken from three places that are filled at
  different times, so `DInv` says of each of them that it belongs to the live
  tokens while the checkpoint is valid: the row capture (`TrueRow`), the batch
  capture (`TrueBatch`) and every row of the window (`TrueWin`). It rests on
  `HiddenSame` (a hidden state is made of the tokens up to it, so it survives
  what is appended), on `Appended` (rows behind a window leave it whole as long
  as they do not go round the ring) and on `SuffixTrue` (a verified draft leaves
  the captures of what was accepted). That prompts are not empty is the code's
  own condition (`generation.c:222`).

### `LayerCacheProofs`

* `CacheInvariant`, `RowsOfTokens`: `CacheAssumption /\ ~RaggedCold /\ CacheSpec
  => []RowsMatch`. The hypothesis is that no cold chunk of a layer of ratio 4 ends
  inside a group, and disagreement 5 shows what happens otherwise. The property
  says that rows and state are those of the tokens; `LInv` says it of the
  snapshot, of every slot that was captured, and of the two compressors while
  one of them is a token ahead of the other. `Frontier` is the one notion behind
  it: a compressor with a state, rows and a counter is what a number of tokens
  make of it. The lemmas are about groups (`GroupEnds`, `WholeGroups`), about
  the two halves of a state of ratio 4 (`EmptyHalves`, `HalvesPooled`), and that
  tokens beyond the last do not matter (`AlikeSound`).

### `DecodeGraphsProofs`

* `GraphInvariant`, `PiecesOnce`, `NoStaleReplay`: `Spec =>` the invariants
  `RanOnce` and `ReplaySound`, with every failure of a capture, growth of the
  scratch buffer and session that goes. `GInv` adds what the pieces run so far
  are at each place of the encoder (`RunInv`), and that every entry that would
  be replayed names the buffers that are there (`EntryInv`). `GraphsAssumption`
  has that every island asks for scratch, as each quantizes its activations; an
  island without scratch could be recorded before there is any.

### `ThreadPoolProofs`

* `PoolInvariant`, `JobLives`, `EveryRowOnce`: `Spec =>` the invariants `JobAlive`
  and `RowsOnce`, for every number of threads, every width of the generation
  counter and every vector. `Sharing` is the heart: while a call runs, `done`
  counts the workers that reported its generation, so the call returns only when
  none is behind by more than one, and the counter may wrap.
* `AnswersAsOne`: `Spec => Abstract!Answers`: the pool implements `ParallelArgmax`
  under its mapping. A slice's best is the first of the best
  (`BestOfIsBest`), slices are disjoint, in order and cover the rows
  (`SlicesCover`, `SlicesApart`, `SlicesInOrder`), a worker finds its own slot
  from its first row (`SlotIsOwn`), and the best of the slots is the best of the
  rows (`CombinedIsBest`). `PoolAssumption` has that no score is below
  `-FLT_MAX`, where the slots begin: with infinities and NaN the code answers
  otherwise.

### `KVStoreProofs`

* `StoreInvariant`, and from it `Whole`, `WithinBudget`, `Found` and
  `UsableKept`: `Spec =>` the properties `FilesWhole`, `BudgetKept`,
  `StoredIsFound`, `KeepsUsable`, for every set of texts, engines, faults and
  every budget, killed anywhere. `KInv` says what each step of a store has
  already established: no file in the way that the engine could use, or one that
  it could not look at or read (`StoreInv`, `job.unread`); a temporary file that
  is whole once it was written (`WrittenInv`); and room for what follows, trailer
  included, if nothing was refused (`RoomInv`). Eviction works on what the call
  saw of the directory, `seen` and `total`, which is a part of what is there and,
  while nothing was refused, all of it.
* `AnchorsLeaveLast`: `AnchorsLast` under `MostlyPayload`: no file has more than
  39 bytes of header, text and trailer for each byte of payload. A file's score
  is divided by the size of the whole file, so with bigger headers the order
  turns; a session's payload is the rows of all its layers.

The budget is a sum over the directory. That it does not depend on the order it
is taken in (`AnyOrder`, `SameSum`), what storing and removing do to it
(`SumWithout`, `Adds`, `Removes`), and that a part of it sums to no more
(`SumPart`, `ViewTotal`) is proved from the sum's definition as a
function on numbers.

### `WeightCacheProofs`

* `WeightsKept`, and from it `LookupsAreTrue` and `EverythingPrepared`:
  `WeightAssumption /\ WeightSpec =>` the invariants `LookupsTrue` and
  `PreparedAll`, for every layout of the tensors of two files, every number and
  size of arenas and pinned buffers, and whatever reads, copies, allocations and
  starts fail. `WeightAssumption` has that tensors do not overlap, and that a
  tensor and a span fit an arena: a new arena takes the size of a request that
  is larger than its own (`runtime.cu:1372-1375`).

`LookupsTrue` speaks of ranges that were recorded. When a range is recorded its
bytes came from buffers that were used again and by copies that were queued, so
the invariant says where each of them is:

* `RangesSound`: a recorded range lies in what its arena gave out and holds its
  bytes. `FlightSound`: no copy in flight hits a recorded range; an upload that
  was given up leaves its copies in the stream, and they go where nothing is
  found.
* `UploadSound`: the upload on its way fills the last units its arena gave out,
  and reads the file the descriptor is set to (`FdSound`).
* `StreamSound`: each of its units has arrived or has a copy in flight; each such
  copy still finds its unit in its pinned buffer, as a mark for that buffer is
  behind it in the stream, and a buffer is filled again only when no mark for it
  is left. So when the stream has drained, all of the range has arrived.
* `StartSound`: the tensors up to the offset the preparation has come to are on
  the device, and none begins in the span on its way and ends behind it. It
  rests on `SpanShape`: a span ends where a tensor ends, cuts none, is no longer
  than an arena, and is never wholly replaced by artifacts, which is where the
  code may skip it. Of what was recorded nothing is lost (`CachedStays`).

### `KernelProofs`

About `TopKStream`:

* `StreamInvariant`, and from it `StreamedExact`: `StreamSpec => []ExactTogether`,
  for every row of scores, number of warps and lanes, items to a thread and K, and
  wherever in the row the block begins. `StreamAssumption` has what the kernel's
  numbers satisfy (512 threads of 4 items, the best 512): a tile fits behind the
  best K, the best K are those of whole threads, and a row has at least K scores.

Until two warps meet at different barriers (`split`, disagreement 6) the warps are
in one phase (`Phase`) of one tile (`InStep`), and in each phase the invariant
says what the block has:

* taking keys (`BufferHolds`): the buffer has distinct keys of rows that were met;
  a key that was met and is not there is not above the threshold, and then at least
  K are there that are not below it. `Holds` is this notion, of any list of keys.
  `Room` has that whoever is taking keys found room for a whole tile, less
  what the warps of this tile have added;
* sorting (`SortLoaded`, `EndLoaded`): the registers together are the buffer, so
  the sort has all of it (`Whole`, `PartOf`);
* keeping (`KeepInv`): the first K registers hold all that was met above the last
  of them, and each warp that is through has written its part, the threshold or
  the count. When all are, that is `BufferHolds` again, with a higher threshold;
* writing (`WriteInv`): every row was met, and the K largest of distinct keys in
  descending order are the first K of the ranking of all.

That `Descending` is a sort (each rank is taken once, `RanksCover`, by counting
the keys that go before; `SortLists`) and that two such lists with the same keys
agree from the top (`SameFront`) is proved of sequences of any length.

About `MoeDispatch`:

* `LaunchInvariant`, and from it `RoutedAlways`: `MoeSpec => []RoutedSum`, for
  every number of tokens, slots and experts, every selection, every set of
  switches and of what is supported, every width of the tiles and threshold for
  them, every order in which the scatter takes its places, and whatever tier or
  launch fails. The zeroing launch, whose failure the call forgets, is the one
  after which out holds more than the sums (`unzeroed`). `MoeAssumption` has what `routed_moe_launch` checks of a call
  (there is a token, a slot and an expert, and a type it knows), and that a
  selection names experts that there are.

`RoutedSum` is about the call's end; `MoeInv` says what each launch finds:

* `ListInv`: the counts are those of the selection and add up to all pairs
  (`CountsSum`). While the scatter runs, an expert's cursor stands as far behind
  its offset as pairs of it are placed, these are where the cursor has passed,
  each once, and the parts of two experts do not meet (`PairsPlaced`,
  `PlacesDiffer`). So at its end each pair has one place (`AllPlaced`).
* the tiles: the list has each tile of each expert once, and no more than the
  blocks that are started (`TilesListed`, `TilesFit`: rounding up by expert costs
  at most one tile for each).
* the kernels: whichever the switches choose, a list of single pairs has each
  once, a sorted list misses none, and so do tiles (`GateGoesOver`,
  `DownGoesOver`, `KernelTimes`). Tiles have a pair in two blocks only where a
  kernel for eight pairs goes over tiles of four (`Wider`), which is harmless for
  a kernel that stores, and never happens to the one that adds (`AtomicDown`). A
  kernel for sixteen pairs over tiles of eight leaves out every other tile, and
  takes each pair once (`EvenTiles`).
* the rows: the rows a launch allots to a block are those its kernel goes over,
  in whole passes (`GateFits`, `DownFits`).
* `PlanInv`, `ValueInv`: the buffer a launch reads holds what it takes it for: the
  quantized input in the buffer of the down projection until gate and up are
  done, the sidecar in that of up exactly when the next kernel asks for it, zeros
  under the kernel that adds, unless the launch that writes them failed. A tier that fails half way leaves anything in the
  buffers, and what comes next assumes nothing of them.

### How, and what stays with TLC

Where an argument would be an induction over data, the proofs take a least
counterexample, by `WellFoundedInduction` on the naturals: the library's
induction theorems take an operator as a parameter, which no installed prover
can instantiate. No module declares a RECURSIVE operator.

Only model-checked:

* everything under fairness: `CallReturns`, `PausesEnd`, `TokenEnds`,
  `ShutdownEnds`, and that `Implements` does answer (its safety part is
  `AnswersAsOne`); liveness and `ENABLED` are out of the prover's reach;
* `NothingJunk`, `LayerLeaves`: one layer under finitely many
  switches, so the run is all there is;
* `SelectedBest`: enumerated calls. Its tiers sort, merge and reduce by folds
  over lists (the exchanges of `SortBlock`, the threads of `BlockBest`, the rows
  of the serial kernel), and what a fold computes for a list of any length is an
  induction over data. The tier of the streamed rows is proved, where its warps
  stay together, as `StreamedExact`.

`LongOwnRowsSeen` and `LongAccepted` are checked in runs as instances of what
`OwnRows` and `Accepted` prove.

## 5. Not modelled, and the plan

Not modelled: the arithmetic of kernels (matrix products, attention, rotary
embeddings, quantization), which is most of `ds4x_kernel/` by lines and whose
correctness is about numbers; vendored code (`quantization/mmq`, `support/`);
parsing of model files and options; printing, timing and diagnostics; byte pair
encoding and the chat template; the byte layout of payloads and headers. So the
modules account for about a fifth of the lines of the sources.

Left out of modules that are there:

* `Session`: staging of payloads to a temporary file, snapshots in memory,
  sampling, and a look at the session between a failed load and the invalidation
  that follows it (`LoadAbandon`).
* `RawRing`: the reference path of a cold prefill
  (`DS4_CUDA_SPARK_PREFILL_REFERENCE`), a switch for comparing.
* `IndexerTopK`: the tier of the streamed rows, one step that is exact by
  definition (`RowsStreamed`). How its block comes by them is `TopKStream`, where
  it is exact only as long as the warps stay together (disagreement 6).
* `SpecDecode`: drafts that go on after Eos, but for the run `spec_past_eos`.
* `DsparkCache`: the probe mode (`DS4_DSPARK_PROBE`,
  `verifier.c:256-292`) and the timing options of the scheduler.
* `WeightCache`: the cache of matrices converted from q8 to f16 (keyed by offset
  only, `runtime.cu:989-1047`), prefetching by the driver, and direct I/O. An
  arena that is full at startup makes the engine fail to open.
* `MoeDispatch`: an addend that is given to the launch of one token is added
  before the launch overwrites it; the only caller gives none.
* `DecodeGraphs`, `DecodeLayer`: switches that disable the packed attention of a
  single token, and the tiers for caches of floats, which this build never has.
* the lock between processes, and two processes on one store.

The plan, in this order:

1. `IndexerTopK` step by step, since its folds cannot be proved whole: that an
   exchange permutes, and that the best of some best lists are the best of all;
2. the attention entries and their tiers, so that disagreements about formats
   become runs;
3. the chat loop over `Session`, with interrupts.

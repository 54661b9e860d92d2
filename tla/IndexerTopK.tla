----------------------------- MODULE IndexerTopK -----------------------------
(***************************************************************************)
(* One call of the indexer: it scores the compressed rows for each token   *)
(* and selects the best of them, by whichever tier of kernels the numbers  *)
(* and the switches choose.  Ties go to the lower row; a row that is not   *)
(* visible to its token scores less than any that is.                      *)
(*                                                                         *)
(* The same kernels find the best token of a row of logits: a call whose   *)
(* scores are given.                                                       *)
(***************************************************************************)
EXTENDS Integers, Sequences, FiniteSets, TLC, SequencesExt

CONSTANTS
  Calls,                 \* the calls that are checked
  K, Wide,               \* the numbers of rows with tiers of their own (512, 2048)
  Size1024, Size2048, Size4096, Size8192,   \* rows a block sorts at once
  FusedChunk,            \* rows a block of the fused kernel scores and sorts (2048)
  FusedFrom,             \* rows from which one token takes the fused path (65536)
  MergeGroup,            \* DS4_CUDA_TOPK_MERGE_GROUP
  StreamTokens,          \* tokens from which rows are streamed (32)
  TileTokens, TileRows,  \* the tile of scores of a block (16, 256)
  Threads,               \* of the block that finds one best (1024, 256)
  Grid,                  \* blocks of the Markov head (128)
  U16Max, U32Max

(* comps rows, of which k are selected for each of the tokens, the first   *)
(* of them at position pos; worth[t][c] is what row c is worth to token t. *)
IndexerAssumption ==
  \A c \in Calls :
    /\ c.mode \in {"one", "prefill", "verify", "given", "markov"} /\ c.k \in 1 .. c.comps
    /\ c.mode = "one" => c.tokens = 1
    /\ Size8192 < U16Max /\ c.comps < U32Max
    /\ \A t \in DOMAIN c.worth : \A i \in DOMAIN c.worth[t] : c.worth[t][i] \in Nat

VARIABLES
  call, pc,
  scores,      \* scores[t], a sequence over the rows
  cur,         \* cur[t]: the candidate lists the next merge reads
  at, sets,    \* where they start in the scratch, and how many they are
  other,       \* the second buffer of the fused merge
  selected,
  ret

vars == <<call, pc, scores, cur, at, sets, other, selected, ret>>

-----------------------------------------------------------------------------
Minus == -1        \* -INFINITY
Entry(v, i) == [v |-> v, i |-> i]
Ceil(a, b) == (a + b - 1) \div b
Tokens == 0 .. call.tokens - 1
Has(e) == e \in call.env

(* topk_score_better *)
Better(a, b) == a.v > b.v \/ (a.v = b.v /\ a.i < b.i)

(* The exchanges of a block that sorts its n entries in place: in round k  *)
(* runs of k are merged, at distances j, down in one run, up in the next.  *)
(* Mutant: every run down. *)
Down1(i, k) == TRUE
Down(i, k) == (i \div k) % 2 = 0

Log2(n) == CHOOSE p \in 0 .. 16 : 2 ^ p = n
Rounds(n) == FlattenSeq([a \in 1 .. Log2(n) |-> [b \in 1 .. a |-> <<2 ^ a, 2 ^ (a - b)>>]])

Exchange(s, round) ==
  LET k == round[1]
      j == round[2]
  IN  [x \in DOMAIN s |->
         LET i == x - 1
             low == IF (i \div j) % 2 = 0 THEN i ELSE i - j
             a == s[low + 1]
             b == s[low + j + 1]
             swap == IF Down(low, k) THEN Better(b, a) ELSE Better(a, b)
         IN  IF (i = low) = swap THEN b ELSE a]

SortBlock(s) == FoldLeft(Exchange, s, Rounds(Len(s)))

(* What a block of size n sorts when it is given the entries s, and the    *)
(* first k of that.                                                        *)
Padded(s, n, pad) == [x \in 1 .. n |-> IF x <= Len(s) THEN s[x] ELSE Entry(Minus, pad)]
First(s, k) == [x \in 1 .. k |-> s[x]]
IndexesOf(s) == [x \in DOMAIN s |-> s[x].i]

RowOf(t) == [x \in 1 .. call.comps |-> Entry(scores[t][x], x - 1)]
SortedFirst(s, n, pad) == IndexesOf(First(SortBlock(Padded(s, n, pad)), call.k))

(* A radix sort of packed keys, which order as the entries do.             *)
RadixSort(s) == SortSeq(s, Better)

-----------------------------------------------------------------------------
(* indexer_scores_mxf4_kernel: a tile that no token of it sees is filled   *)
(* without being computed.                                                 *)
Causal == call.mode \in {"prefill", "verify"}
Pos0 == IF call.mode = "verify" THEN call.pos ELSE 0
Visible(t) == IF Causal THEN (Pos0 + t + 1) \div call.ratio ELSE call.comps

(* Mutant: what its first token sees. *)
TileVisibleFirst(t) ==
  IF Causal THEN (Pos0 + TileTokens * (t \div TileTokens) + 1) \div call.ratio ELSE call.comps
TileVisible(t) ==
  LET tile == TileTokens * (t \div TileTokens)
      last == IF tile + TileTokens < call.tokens THEN tile + TileTokens ELSE call.tokens
      seen == (Pos0 + last) \div call.ratio
  IN  IF ~Causal THEN call.comps ELSE IF seen < call.comps THEN seen ELSE call.comps

TileScore(t, c) ==
  IF TileRows * (c \div TileRows) >= TileVisible(t) \/ c >= Visible(t) THEN Minus ELSE call.worth[t][c + 1]

(* spark_indexer_score_one_reference_kernel: a block for each row. *)
ReferenceScore(c) == IF Causal /\ c >= Visible(0) THEN Minus ELSE call.worth[0][c + 1]

Scored(Score(_, _)) == [t \in Tokens |-> [x \in 1 .. call.comps |-> Score(t, x - 1)]]

-----------------------------------------------------------------------------
(* The tier of ds4_gpu_indexer_topk_tensor.                                *)
Tier ==
  LET n == call.comps
      wide == call.k = Wide /\ ~Has("NO_TOPK2048_WIDE")
      usual == call.k = K /\ ~Has("NO_TOPK2048")
  IN  CASE call.k = 1 /\ ~Has("NO_TOP1") -> "top1"
        [] wide /\ n <= Size4096 -> "pow2 4096"
        [] wide /\ n > Size4096 -> "wide tree"
        [] call.k = K /\ n <= Size1024 /\ ~Has("NO_TOPK1024") -> "1024"
        [] usual /\ n <= Size2048 -> "pow2 2048"
        [] usual /\ n <= Size4096 -> IF n = Size4096 /\ call.smem THEN "cub" ELSE "pow2 4096"
        [] usual /\ n <= Size8192 /\ ~Has("NO_TOPK8192") -> IF call.smem THEN "cub" ELSE "pow2 u16"
        [] usual /\ call.tokens >= StreamTokens /\ ~Has("NO_TOPK_STREAM") -> "stream"
        [] usual /\ ~Has("NO_TOPK_CHUNKED") -> "tree"
        [] OTHER -> "serial"

(* The scratch of a tree: room for its levels, one behind the other.       *)
Group == IF Tier = "wide tree" THEN 2 ELSE MergeGroup
Levels(chunks) ==
  LET level[n \in 1 .. chunks] == IF n > Group THEN n + level[Ceil(n, Group)] ELSE n
  IN  level[chunks]
ScratchRoom == call.tokens * Levels(Ceil(call.comps, Size4096)) * call.k

-----------------------------------------------------------------------------
Init ==
  /\ call \in Calls
  /\ pc = CASE call.mode = "markov" -> "markov"
            [] call.mode = "given" -> "topk"
            [] call.mode = "one" /\ ~Has("NO_FUSED") /\ call.comps >= FusedFrom /\ call.k = K -> "fused"
            [] OTHER -> "score"
  /\ scores = IF call.mode \in {"given", "markov"} THEN [t \in Tokens |-> call.worth[t]] ELSE [t \in Tokens |-> <<>>]
  /\ cur = [t \in Tokens |-> <<>>] /\ other = <<>> /\ at = 0 /\ sets = 0
  /\ selected = [t \in Tokens |-> <<>>] /\ ret = -1

Return(value) == pc' = "done" /\ ret' = value
Goto(next) == pc' = next /\ UNCHANGED ret
buffers == <<cur, at, sets, other>>

(* A launch or an allocation that fails; the fused path then gives way.    *)
Fails ==
  /\ pc # "done"
  /\ IF pc \in {"fused", "fused merge"} THEN Goto("score") ELSE Return(0)
  /\ UNCHANGED <<call, scores, buffers, selected>>

(* indexer_scores_spark_try *)
Score ==
  /\ pc = "score"
  /\ IF call.tokens = 1 /\ Has("REFERENCE")
     THEN scores' = Scored(LAMBDA t, c : ReferenceScore(c)) /\ Goto("topk")
     ELSE IF call.capturing THEN Return(0) /\ UNCHANGED scores
     ELSE scores' = Scored(TileScore) /\ Goto("topk")
  /\ UNCHANGED <<call, buffers, selected>>

(* indexer_score_topk_mxf4_b1_kernel: each block leaves its best K keys.   *)
FusedKeys(b) ==
  First(RadixSort([x \in 1 .. FusedChunk |->
                     LET c == FusedChunk * b + x - 1
                     IN  IF c < call.comps THEN Entry(call.worth[0][c + 1], c) ELSE Entry(Minus, U32Max)]), K)

Fused ==
  /\ pc = "fused"
  /\ IF call.capturing THEN Goto("score") /\ UNCHANGED buffers
     ELSE LET chunks == Ceil(call.comps, FusedChunk) IN
          /\ cur' = [t \in Tokens |-> [b \in 1 .. chunks |-> FusedKeys(b - 1)]]
          /\ other' = [b \in 1 .. chunks |-> <<>>] /\ sets' = chunks
          /\ Goto("fused merge") /\ UNCHANGED at
  /\ UNCHANGED <<call, scores, selected>>

(* indexer_topk_key_merge4_kernel, from one buffer into the other, until   *)
(* one list is left for indexer_topk_key_extract_kernel.                   *)
Merge4(g) ==
  First(RadixSort(FlattenSeq([s \in 1 .. 4 |->
          IF 4 * (g - 1) + s <= sets THEN cur[0][4 * (g - 1) + s] ELSE [x \in 1 .. K |-> Entry(Minus, U32Max)]])), K)

FusedMerge ==
  /\ pc = "fused merge"
  /\ IF sets > 1
     THEN LET next == Ceil(sets, 4) IN
          /\ cur' = [t \in Tokens |-> [g \in DOMAIN other |-> IF g <= next THEN Merge4(g) ELSE other[g]]]
          /\ other' = cur[0] /\ sets' = next
          /\ UNCHANGED <<at, selected, pc, ret>>
     ELSE /\ selected' = [selected EXCEPT ![0] = IndexesOf(cur[0][1])]
          /\ Return(1) /\ UNCHANGED buffers
  /\ UNCHANGED <<call, scores>>

-----------------------------------------------------------------------------
(* A tier of one kernel: a block for each token.                           *)
OneKernel(tier, Choose(_)) ==
  /\ pc = "topk" /\ Tier = tier
  /\ selected' = [t \in Tokens |-> Choose(t)]
  /\ Return(1) /\ UNCHANGED <<call, scores, buffers>>

Rows1024    == OneKernel("1024", LAMBDA t : SortedFirst(RowOf(t), Size1024, U32Max))
RowsPow2    == \/ OneKernel("pow2 2048", LAMBDA t : SortedFirst(RowOf(t), Size2048, U32Max))
               \/ OneKernel("pow2 4096", LAMBDA t : SortedFirst(RowOf(t), Size4096, U32Max))
RowsPow2U16 == OneKernel("pow2 u16", LAMBDA t : SortedFirst(RowOf(t), Size8192, U16Max))
RowsCub     == OneKernel("cub", LAMBDA t : IndexesOf(First(RadixSort(Padded(RowOf(t), Size8192, U32Max)), call.k)))

(* indexer_topk_kernel inserts row after row; a place that no row has      *)
(* taken is taken without a look at its score.                             *)
Insert(t, sel, c) ==
  LET free == {p \in 1 .. call.k : p > c \/ scores[t][c + 1] > scores[t][sel[p] + 1]}
      p == CHOOSE q \in free : \A r \in free : q <= r
  IN  IF free = {} THEN sel
      ELSE [x \in 1 .. call.k |-> IF x < p THEN sel[x] ELSE IF x = p THEN c ELSE sel[x - 1]]
RowsSerial == OneKernel("serial", LAMBDA t :
  FoldLeft(LAMBDA sel, c : Insert(t, sel, c), [x \in 1 .. call.k |-> 0], [x \in 1 .. call.comps |-> x - 1]))

(* indexer_topk_stream512_kernel, taken to be exact, as it is while the    *)
(* warps of its block stay together: TopKStream has its steps.             *)
RowsStreamed == OneKernel("stream", LAMBDA t : IndexesOf(First(RadixSort(RowOf(t)), call.k)))

-----------------------------------------------------------------------------
(* The best of what a thread comes across, then of the threads, by halves. *)
ThreadBest(row, first, step) ==
  LET met == SelectSeq(row, LAMBDA e : e.i >= first /\ (e.i - first) % step = 0)
  IN  FoldLeft(LAMBDA best, e : IF Better(e, best) THEN e ELSE best, Entry(Minus, 0), met)

Halve(vals, stride) ==
  [x \in DOMAIN vals |-> IF x <= stride /\ Better(vals[x + stride], vals[x]) THEN vals[x + stride] ELSE vals[x]]
BlockBest(vals) == FoldLeft(Halve, vals, [p \in 1 .. Log2(Threads) |-> 2 ^ (Log2(Threads) - p)])[1]

RowsTop1 == OneKernel("top1", LAMBDA t :
  <<BlockBest([x \in 1 .. Threads |-> ThreadBest(RowOf(t), x - 1, Threads)]).i>>)

(* dspark_markov_argmax_kernel: the blocks share the vocabulary and raise  *)
(* one key, which orders as the entries do.                                *)
Markov ==
  /\ pc = "markov"
  /\ LET block(b) == BlockBest([x \in 1 .. Threads |->
                       ThreadBest(RowOf(0), Threads * (b - 1) + x - 1, Grid * Threads)])
         raised == FoldLeft(LAMBDA key, e : IF Better(e, key) THEN e ELSE key,
                            Entry(Minus - 1, 0), [b \in 1 .. Grid |-> block(b)])
     IN  selected' = [selected EXCEPT ![0] = <<raised.i>>]
  /\ Return(1) /\ UNCHANGED <<call, scores, buffers>>

-----------------------------------------------------------------------------
(* The trees: chunks are sorted, their best merged group by group, and the *)
(* last lists at once.  Indexes only are kept: scores are read again.      *)
ReadAgain(t, cands) ==
  [x \in DOMAIN cands |-> Entry(IF cands[x] < call.comps THEN scores[t][cands[x] + 1] ELSE Minus, cands[x])]
MergedFirst(t, cands) == SortedFirst(First(ReadAgain(t, cands),
                           IF Len(cands) < Size4096 THEN Len(cands) ELSE Size4096), Size4096, U32Max)

ChunkRow(t, b) ==
  LET n == IF call.comps - Size4096 * b < Size4096 THEN call.comps - Size4096 * b ELSE Size4096
  IN  SortedFirst([x \in 1 .. n |-> RowOf(t)[Size4096 * b + x]], Size4096, U32Max)

TreeChunks ==
  /\ pc = "topk" /\ Tier \in {"tree", "wide tree"}
  /\ sets' = Ceil(call.comps, Size4096) /\ at' = 0
  /\ cur' = [t \in Tokens |-> [b \in 1 .. sets' |-> ChunkRow(t, b - 1)]]
  /\ Goto("merge") /\ UNCHANGED <<call, scores, other, selected>>

(* A level that does not fit into the scratch is overwritten by others.    *)
TreeMerge ==
  /\ pc = "merge" /\ sets > Group
  /\ sets' = Ceil(sets, Group)
  /\ at' = at + call.tokens * sets * call.k
  /\ LET fits == at' + call.tokens * sets' * call.k <= ScratchRoom
         group(t, g) == FlattenSeq([s \in 1 .. (IF Group * g < sets THEN Group ELSE sets - Group * (g - 1)) |->
                                      cur[t][Group * (g - 1) + s]])
     IN  cur' = [t \in Tokens |-> [g \in 1 .. sets' |->
                   IF fits THEN MergedFirst(t, group(t, g)) ELSE [x \in 1 .. call.k |-> U32Max]]]
  /\ UNCHANGED <<call, pc, scores, other, selected, ret>>

TreeFinal ==
  /\ pc = "merge" /\ sets <= Group
  /\ selected' = [t \in Tokens |-> MergedFirst(t, FlattenSeq(cur[t]))]
  /\ Return(1) /\ UNCHANGED <<call, scores, buffers>>

Next ==
  \/ Fails \/ Score \/ Fused \/ FusedMerge
  \/ Rows1024 \/ RowsPow2 \/ RowsPow2U16 \/ RowsCub \/ RowsSerial \/ RowsStreamed \/ RowsTop1 \/ Markov
  \/ TreeChunks \/ TreeMerge \/ TreeFinal

Spec == Init /\ [][Next]_vars

-----------------------------------------------------------------------------
(* A call that says it worked has told each token its best rows, best      *)
(* first, the lower of two equals first, and of those its token cannot see *)
(* none before one that it sees: the attention takes the first it can use. *)
(* Of the tier that streams its rows this says no more than RowsStreamed.  *)
TrueScore(t, c) == IF c >= Visible(t) THEN Minus ELSE call.worth[t][c + 1]
SelectedBest ==
  ret = 1 => \A t \in Tokens :
    selected[t] = IndexesOf(First(SortSeq([x \in 1 .. call.comps |-> Entry(TrueScore(t, x - 1), x - 1)], Better), call.k))

=============================================================================

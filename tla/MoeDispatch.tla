---------------------------- MODULE MoeDispatch -----------------------------
(***************************************************************************)
(* One launch of the routed experts: which of the tiers runs, which of     *)
(* their kernels, over which lists of (token, slot) pairs, and which of    *)
(* the five buffers holds what when a kernel reads it.  The quantized      *)
(* input lies in the buffer of the down projection, the quantized hidden   *)
(* values in that of the gate, their sidecar in that of up.                *)
(*                                                                         *)
(* A value is what it was computed from: a kernel whose input is not what  *)
(* it takes it for computes junk.                                          *)
(***************************************************************************)
EXTENDS Integers, Sequences, FiniteSets

CONSTANTS
  Calls,             \* the calls that are checked
  Unit,              \* a quarter of the widest tile (4 pairs)
  Small, Large,      \* token counts at which tiles widen and rows are spanned (8, 128)
  MidDim, OutDim     \* rows of the gate and of the down projection

(* What routed_moe_launch checks of a call, and what a caller says of it.  *)
MoeAssumption ==
  /\ Unit \in Nat \ {0} /\ Small \in Nat /\ Large \in Nat /\ MidDim \in Nat /\ OutDim \in Nat
  /\ \A c \in Calls :
       /\ c.type \in {"iq2", "q4", "mxfp4"}
       /\ c.tokens \in Nat \ {0} /\ c.slots \in Nat \ {0} /\ c.experts \in Nat \ {0}
       /\ c.selected \in [0 .. c.tokens * c.slots - 1 -> 0 .. c.experts - 1]

VARIABLES
  call,              \* the call: its shape, its selection and what is set and supported
  step,              \* the launch that comes next
  tier, plan,        \* the fused tier that runs, and the launches left of it
  gate, up, mid, down,   \* the buffers, by pair
  counts, offsets, cursors,   \* pairs of an expert, where they start, where its next one goes
  left,              \* pairs the scatter has not placed
  sorted,            \* pairs by expert
  tiles,             \* the list of tiles for a width, [expert, start]
  out,               \* out[p]: how often the contribution of p was added
  clean,             \* nothing else was added
  unzeroed,          \* the launch that zeroes out failed
  ret

moevars == <<call, step, tier, plan, gate, up, mid, down, counts, offsets, cursors, left, sorted, tiles,
             out, clean, unzeroed, ret>>

-----------------------------------------------------------------------------
Four == Unit
Eight == 2 * Unit
Sixteen == 4 * Unit

PairsOf(c) == 0 .. c.tokens * c.slots - 1
Pairs == PairsOf(call)
ExpertIds == 0 .. call.experts - 1
Count == call.tokens * call.slots
Ceil(a, b) == (a + b - 1) \div b
Has(e) == e \in call.env
Q4 == call.type = "q4"

(* The switches of routed_moe_launch, from the environment and the shape.  *)
Sorting == call.tokens > 1 /\ (Q4 => {"NO_Q4_SORTED", "NO_EXPERT_TILES", "TILE4"} \cap call.env = {})
Tiling == Sorting /\ ~Has("NO_EXPERT_TILES")
TileM == IF Has("TILE4") THEN Four
         ELSE IF Has("TILE8") \/ call.tokens > Small THEN Eight ELSE Four
WriteAux == Has("WRITE_GATE_UP")
PairOfTwo == Sorting /\ ~Has("NO_P2")
AtomicDown == /\ ~Q4 /\ Tiling
              /\ Has("ATOMIC_DOWN") \/ (call.tokens >= Large /\ ~Has("NO_ATOMIC_DOWN"))
GateSpanned == /\ Tiling /\ TileM = Eight
               /\ Has("GATE_ROW2048") \/ (call.tokens >= Large /\ ~Has("NO_GATE_ROW2048"))
MmaTiles16 == Q4 /\ Tiling /\ TileM = Eight /\ call.mma /\ ~Has("NO_Q4_MMA_TILE16")
TilesDown16 == AtomicDown /\ TileM = Eight /\ call.tokens >= Large /\ ~Has("NO_DOWN_TILE16")
Q4DownSpanned == /\ Q4 /\ Tiling /\ TileM = Eight
                 /\ call.tokens >= Large \/ {"DOWN_ROW512", "DOWN_ROW1024", "DOWN_ROW2048"} \cap call.env # {}
                 /\ ~Has("NO_Q4_DOWN_ROWSPAN")
DownSpanned == /\ AtomicDown /\ TileM = Eight
               /\ Has("DOWN_ROW2048") \/ (TilesDown16 /\ ~Has("NO_DOWN_ROW2048"))
GateSpan == IF Has("GATE_ROW2048") THEN 2048 ELSE IF Has("GATE_ROW1024") THEN 1024 ELSE 512
DownSpan == IF Has("DOWN_ROW512") THEN 512 ELSE IF Has("DOWN_ROW2048") THEN 2048
            ELSE IF Has("DOWN_ROW1024") THEN 1024 ELSE 512
DirectSum == call.tokens = 1 /\ call.slots \in {3, 6} /\ ~Has("NO_DIRECT_DOWN_SUM6")
DirectMidq == Q4 /\ DirectSum /\ ~WriteAux /\ Has("DIRECT_MIDQ")
GateH16R8 == Q4 /\ ~DirectMidq /\ Has("Q4_GATE_H16R8")
GateH16 == Q4 /\ ~DirectMidq /\ ~GateH16R8 /\ Has("Q4_GATE_H16")
GateW32R16 == Q4 /\ ~DirectMidq /\ ~GateH16R8 /\ ~GateH16 /\ Has("Q4_GATE_W32R16")
GateW32 == Q4 /\ ~DirectMidq /\ ~GateH16R8 /\ ~GateH16 /\ ~GateW32R16 /\ ~Has("NO_Q4_GATE_W32")
NoAux == GateW32 /\ ~WriteAux /\ ~Has("NO_Q4_GATE_W32_NOAUX")
Slot3 == Q4 /\ DirectSum /\ call.slots = 3 /\ Has("Q4_DOWN_SLOT3")
Sidecar == Q4 /\ DirectSum /\ NoAux /\ ~DirectMidq /\ Has("MIDQ_SIDECAR")
DecodeLut == call.tokens = 1 /\ ~Has("NO_DECODE_LUT_GATE")
DecodeGraph == /\ call.graph /\ Q4 /\ call.tokens = 1 /\ DirectSum /\ GateW32
               /\ ~Slot3 /\ ~DirectMidq /\ ~Sidecar

-----------------------------------------------------------------------------
(* A kernel: the list its blocks are numbered by, the pairs a block takes  *)
(* from it, the rows it goes over in passes of so many, and whether it     *)
(* stores gate and up as well: always, when asked, never, or in their      *)
(* place the sidecar of the hidden values, or these quantized.             *)
Kernel(list, width, span, pass, also) ==
  [list |-> list, width |-> width, span |-> span, pass |-> pass, also |-> also]

GateQwarp32      == Kernel("pairs", 1, 32, 32, "always")
GateDecodeLut    == Kernel("pairs", 1, 32, 32, "asked")
GateSorted       == Kernel("sorted", 1, 32, 32, "always")
GateSortedP2     == Kernel("sorted", 2, 16, 16, "always")
GateTile4        == Kernel("tiles", Four, 32, 32, "asked")
GateTile8        == Kernel("tiles", Eight, 32, 32, "asked")
GateTile8Row2048 == Kernel("tiles", Eight, 2048, 32, "asked")
GateTile8Span(span) == Kernel("tiles", Eight, span, 32, "asked")

Q4GateQwarp32    == Kernel("pairs", 1, 32, 32, "asked")
Q4GateHwarp16    == Kernel("pairs", 1, 16, 16, "asked")
Q4GateHwarp16Row8 == Kernel("pairs", 1, 8, 8, "asked")
Q4GateWarp32     == Kernel("pairs", 1, 8, 8, "asked")
Q4GateNoAux      == Kernel("pairs", 1, 8, 8, "never")
Q4GateSidecar    == Kernel("pairs", 1, 8, 8, "sidecar")
Q4GateRow16      == Kernel("pairs", 1, 16, 16, "asked")
Q4GateMidq       == Kernel("pairs", 1, 256, 32, "midq")
Q4GateTile8Span(span) == Kernel("tiles", Eight, span, 32, "asked")
Q4GateTile8Mma(span)  == Kernel("tiles", Eight, span, 64, "asked")
Q4GateTile16Mma(span) == Kernel("tiles16", Sixteen, span, 64, "asked")

DownQwarp32      == Kernel("pairs", 1, 32, 32, "never")
DownSorted       == Kernel("sorted", 1, 32, 32, "never")
DownSortedP2     == Kernel("sorted", 2, 16, 16, "never")
DownTile4        == Kernel("tiles", Four, 32, 32, "never")
DownTile8        == Kernel("tiles", Eight, 32, 32, "never")
DownTile16(list)        == Kernel(list, Sixteen, 32, 32, "never")
DownTile16Row2048(list) == Kernel(list, Sixteen, 2048, 32, "never")
DownTile16Span(list, span) == Kernel(list, Sixteen, span, 32, "never")
DownSum6         == Kernel("pairs", 1, 32, 32, "never")
DownSum3         == Kernel("pairs", 1, 32, 32, "never")

Q4DownQwarp32    == Kernel("pairs", 1, 32, 32, "never")
Q4DownTile8Span(span) == Kernel("tiles", Eight, span, 32, "never")
Q4DownTile8Mma(span)  == Kernel("tiles", Eight, span, 64, "never")
Q4DownTile16Mma(span) == Kernel("tiles16", Sixteen, span, 64, "never")
Q4DownSum6       == Kernel("pairs", 1, 32, 32, "never")
Q4DownSum3       == Kernel("pairs", 1, 32, 32, "never")
Q4DownSlotwarp   == Kernel("pairs", 1, 8, 8, "never")

(* What is launched, with the rows the launch allots to a block.           *)
Over(grid, kernel) == [grid |-> grid, kernel |-> kernel]

Q4GateTiled ==
  IF ~GateSpanned THEN Over(32, Q4GateTile8Span(32))
  ELSE Over(GateSpan, IF MmaTiles16 /\ call.shared THEN Q4GateTile16Mma(GateSpan)
                      ELSE IF call.mma THEN Q4GateTile8Mma(GateSpan) ELSE Q4GateTile8Span(GateSpan))

GateTiled ==
  IF GateSpanned THEN Over(GateSpan, IF GateSpan = 2048 THEN GateTile8Row2048 ELSE GateTile8Span(GateSpan))
  ELSE Over(32, IF TileM = Eight THEN GateTile8 ELSE GateTile4)

Q4GateByPair ==
  IF DirectMidq THEN Over(256, Q4GateMidq)
  ELSE IF GateH16R8 THEN Over(8, Q4GateHwarp16Row8)
  ELSE IF GateW32R16 THEN Over(16, Q4GateRow16)
  ELSE IF GateW32 THEN Over(8, IF Sidecar THEN Q4GateSidecar ELSE IF NoAux THEN Q4GateNoAux ELSE Q4GateWarp32)
  ELSE IF GateH16 THEN Over(16, Q4GateHwarp16)
  ELSE Over(32, Q4GateQwarp32)

GateLaunch ==
  IF Tiling THEN IF Q4 THEN Q4GateTiled ELSE GateTiled
  ELSE IF PairOfTwo THEN Over(16, GateSortedP2)
  ELSE IF Sorting THEN Over(32, GateSorted)
  ELSE IF Q4 THEN Q4GateByPair
  ELSE Over(32, IF DecodeLut THEN GateDecodeLut ELSE GateQwarp32)

DirectDown ==
  IF Q4 THEN IF call.slots = 6 THEN Over(32, Q4DownSum6)
             ELSE IF Slot3 THEN Over(8, Q4DownSlotwarp) ELSE Over(32, Q4DownSum3)
  ELSE Over(32, IF call.slots = 6 THEN DownSum6 ELSE DownSum3)

Q4DownTiled ==
  IF ~Q4DownSpanned THEN Over(32, Q4DownTile8Span(32))
  ELSE Over(DownSpan, IF MmaTiles16 /\ call.shared THEN Q4DownTile16Mma(DownSpan)
                      ELSE IF call.mma THEN Q4DownTile8Mma(DownSpan) ELSE Q4DownTile8Span(DownSpan))

DownList == IF TilesDown16 THEN "tiles16" ELSE "tiles"
DownTiled ==
  IF DownSpanned THEN Over(DownSpan, IF DownSpan = 2048 THEN DownTile16Row2048(DownList)
                                     ELSE DownTile16Span(DownList, DownSpan))
  ELSE Over(32, IF TilesDown16 THEN DownTile16(DownList) ELSE IF TileM = Eight THEN DownTile8 ELSE DownTile4)

DownLaunch ==
  IF DirectSum THEN DirectDown
  ELSE IF Tiling THEN IF Q4 THEN Q4DownTiled ELSE DownTiled
  ELSE IF PairOfTwo THEN Over(16, DownSortedP2)
  ELSE Over(32, IF Sorting THEN DownSorted ELSE IF Q4 THEN Q4DownQwarp32 ELSE DownQwarp32)

(* Every block that has a row is started, and its passes fill it.          *)
Fills(l, dim) == Ceil(dim, l.kernel.span) <= Ceil(dim, l.grid) /\ l.kernel.span % l.kernel.pass = 0

(* What is ahead of each expert, and of all.                               *)
SumBefore(f) == LET sum[e \in 0 .. call.experts] == IF e = 0 THEN 0 ELSE sum[e - 1] + f[e - 1] IN sum

(* The list of tiles: an expert's pairs from start on.  Blocks are started *)
(* for a fixed number of tiles.                                            *)
TilesOf(width) == [e \in ExpertIds |-> Ceil(counts[e], width)]
TilesFor(width) ==
  LET at == SumBefore(TilesOf(width))
      Owner(i) == CHOOSE e \in ExpertIds : at[e] < i /\ i <= at[e + 1]
  IN  [i \in 1 .. at[call.experts] |-> [expert |-> Owner(i), start |-> (i - 1 - at[Owner(i)]) * width]]
Capacity(width) == Ceil(Count, width) + call.experts

(* The pairs of a tile, as far as its expert has any.                      *)
TilePairs(t, width) ==
  {sorted[offsets[t.expert] + l] : l \in {m \in t.start .. t.start + width - 1 : m < counts[t.expert]}}

WidthOf(k) == IF k.list = "tiles16" THEN Sixteen ELSE TileM

(* A kernel for sixteen pairs leaves out the tiles of eight that start in  *)
(* the middle of its own.                                                  *)
(* Mutant: it does not.                                                    *)
StartsAll(k, t) == TRUE
Starts(k, t) == k.width = Sixteen => (t.start \div Eight) % 2 = 0

(* The pairs of each block.                                                *)
Blocks(k) ==
  CASE k.list = "pairs"  -> [b \in 1 .. Count |-> {b - 1}]
    [] k.list = "sorted" -> [b \in 1 .. Ceil(Count, k.width) |->
                               {sorted[i] : i \in {j \in (b - 1) * k.width .. b * k.width - 1 : j < Count}}]
    [] OTHER -> LET run == {b \in DOMAIN tiles[WidthOf(k)] :
                              b <= Capacity(WidthOf(k)) /\ Starts(k, tiles[WidthOf(k)][b])}
                IN  [b \in run |-> TilePairs(tiles[WidthOf(k)][b], k.width)]

(* How often a kernel computes a pair.                                     *)
Times(k) == LET blocks == Blocks(k)
            IN  [p \in Pairs |-> Cardinality({b \in DOMAIN blocks : p \in blocks[b]})]

-----------------------------------------------------------------------------
All(v) == [p \in Pairs |-> v]
JunkIn(c) == [p \in PairsOf(c) |-> "junk"]

MoeInit ==
  /\ call \in Calls
  /\ step = "aligned" /\ tier = "none" /\ plan = <<>>
  /\ gate = JunkIn(call) /\ up = JunkIn(call) /\ mid = JunkIn(call) /\ down = JunkIn(call)
  /\ counts = [e \in ExpertIds |-> 0] /\ offsets = [e \in ExpertIds |-> 0]
  /\ cursors = [e \in ExpertIds |-> 0]
  /\ left = {} /\ sorted = [i \in Pairs |-> -1] /\ tiles = [w \in {Four, Eight, Sixteen} |-> <<>>]
  /\ out = [p \in Pairs |-> 0] /\ clean = FALSE /\ unzeroed = FALSE
  /\ ret = -1

lists == <<counts, offsets, cursors, left, sorted, tiles>>
buffers == <<gate, up, mid, down>>
sums == <<out, clean, unzeroed>>

Return(value) == step' = "done" /\ ret' = value
Proceed(next) == step' = next /\ UNCHANGED ret

-----------------------------------------------------------------------------
(* The tiers in front of the kernels of this file, and what they queue.    *)
PairPlan == <<"pair", "swiglu", "down", "sum">>
PlanOf(t) ==
  CASE t = "aligned" -> IF call.tokens = 1 THEN <<"mid", "down", "sum">> ELSE <<"fused", "sum">>
    [] t = "mxfp4"   -> IF call.tokens = 1 /\ call.slots = 6 THEN <<"mid", "downsum">> ELSE PairPlan
    [] t = "mmq"     -> PairPlan

Enter(t) == step' = "tier" /\ tier' = t /\ plan' = PlanOf(t) /\ UNCHANGED ret
Pass(next) == Proceed(next) /\ UNCHANGED <<tier, plan>>

(* The artifacts, if there are any.                                        *)
TryAligned ==
  /\ step = "aligned"
  /\ IF call.type = "iq2" /\ call.aligned THEN Enter("aligned") ELSE Pass("mxfp4")
  /\ UNCHANGED <<call, buffers, lists, sums>>

TryMxfp4 ==
  /\ step = "mxfp4"
  /\ \/ call.type # "mxfp4" /\ Pass("mmq")
     \/ call.type = "mxfp4" /\ call.mmq /\ Enter("mxfp4")
     \/ call.type = "mxfp4" /\ Return(0) /\ UNCHANGED <<tier, plan>>   \* off, or no weights
  /\ UNCHANGED <<call, buffers, lists, sums>>

TryMmq ==
  /\ step = "mmq"
  /\ \/ call.type = "iq2" /\ call.tokens > 1 /\ call.mmq /\ Enter("mmq")
     \/ Pass("resolve")                                                \* not for it, or no weights
  /\ UNCHANGED <<call, buffers, lists, sums>>

(* One launch of a tier.                                                   *)
MidOf(p) == IF gate[p] = "gate" /\ up[p] = "up" THEN "mid" ELSE "junk"
DownOf(p) == IF mid[p] = "mid" THEN "down" ELSE "junk"
Summed == /\ out' = [p \in Pairs |-> 1] /\ clean' = (\A p \in Pairs : down[p] = "down")
          /\ UNCHANGED unzeroed

TierLaunch ==
  /\ step = "tier" /\ plan # <<>>
  /\ CASE Head(plan) = "pair"    -> /\ gate' = All("gate") /\ up' = All("up") /\ UNCHANGED <<mid, down, sums>>
       [] Head(plan) = "swiglu"  -> /\ mid' = [p \in Pairs |-> MidOf(p)] /\ UNCHANGED <<gate, up, down, sums>>
       [] Head(plan) = "mid"     -> /\ mid' = All("mid") /\ UNCHANGED <<gate, up, down, sums>>
       [] Head(plan) = "fused"   -> /\ gate' = All("gate") /\ up' = All("up")
                                    /\ mid' = All("mid") /\ down' = All("down") /\ UNCHANGED sums
       [] Head(plan) = "down"    -> /\ down' = [p \in Pairs |-> DownOf(p)] /\ UNCHANGED <<gate, up, mid, sums>>
       [] Head(plan) = "sum"     -> /\ Summed /\ UNCHANGED buffers
       [] Head(plan) = "downsum" -> /\ out' = All(1) /\ clean' = (\A p \in Pairs : mid[p] = "mid")
                                    /\ UNCHANGED <<unzeroed, buffers>>
  /\ plan' = Tail(plan)
  /\ IF plan' = <<>> THEN Return(1) ELSE Proceed("tier")
  /\ UNCHANGED <<call, tier, lists>>

(* It fails: the buffers hold anything, and what comes next depends on     *)
(* whether the raw weights are there to fall back on.                      *)
TierFails ==
  /\ step = "tier"
  /\ gate' = JunkIn(call) /\ up' = JunkIn(call) /\ mid' = JunkIn(call) /\ down' = JunkIn(call)
  /\ clean' = FALSE /\ UNCHANGED <<out, unzeroed>>
  /\ \/ tier = "aligned" /\ call.complete /\ Return(0)
     \/ tier = "aligned" /\ ~call.complete /\ Proceed("mmq")
     \/ tier = "mxfp4" /\ Return(0)
     \/ tier = "mmq" /\ Proceed("resolve")
  /\ plan' = <<>> /\ UNCHANGED <<call, tier, lists>>

-----------------------------------------------------------------------------
(* The kernels of this file.  Room for the quantized values decides        *)
(* between them and the plain ones.                                        *)
chosen == <<call, tier, plan>>

Resolve ==
  /\ step = "resolve"
  /\ Proceed(IF ~call.roomy THEN "plain gate" ELSE IF DecodeGraph THEN "graph" ELSE "quantize")
  /\ UNCHANGED <<chosen, buffers, lists, sums>>

(* A launch, an allocation or a lookup of weights that fails ends the      *)
(* call, but for the launch that zeroes the sums.                          *)
LaunchFails ==
  /\ step \notin {"aligned", "mxfp4", "mmq", "tier", "zero", "done"} /\ Return(0)
  /\ UNCHANGED <<chosen, buffers, lists, sums>>

(* The chain of a decoded token as one graph, its nodes set for the call.  *)
Graph ==
  /\ step = "graph" /\ Return(1)
  /\ down' = All("xq") /\ mid' = All("mid") /\ gate' = All("midq")
  /\ up' = IF WriteAux THEN All("up") ELSE up
  /\ out' = All(1) /\ clean' = (Fills(GateLaunch, MidDim) /\ Fills(DownLaunch, OutDim))
  /\ UNCHANGED <<unzeroed, chosen, lists>>

(* A graph that cannot be had, of which nothing has run, gives way to the  *)
(* launches one by one.                                                    *)
GraphGivesWay ==
  /\ step = "graph" /\ Proceed("quantize")
  /\ UNCHANGED <<chosen, buffers, lists, sums>>

QuantizeInput ==
  /\ step = "quantize" /\ down' = All("xq") /\ Proceed(IF Sorting THEN "count" ELSE "gate")
  /\ UNCHANGED <<chosen, gate, up, mid, lists, sums>>

CountPairs ==
  /\ step = "count" /\ Proceed("prefix")
  /\ counts' = [e \in ExpertIds |-> Cardinality({p \in Pairs : call.selected[p] = e})]
  /\ sorted' = [i \in Pairs |-> -1] /\ tiles' = [w \in {Four, Eight, Sixteen} |-> <<>>]
  /\ UNCHANGED <<chosen, buffers, offsets, cursors, left, sums>>

Prefix ==
  /\ step = "prefix" /\ Proceed("scatter")
  /\ offsets' = [e \in ExpertIds |-> SumBefore(counts)[e]] /\ cursors' = offsets' /\ left' = Pairs
  /\ UNCHANGED <<chosen, buffers, counts, sorted, tiles, sums>>

(* Its threads take their places in any order.                             *)
Scatter ==
  /\ step = "scatter"
  /\ \E p \in left :
       LET e == call.selected[p] IN
       /\ sorted' = [sorted EXCEPT ![cursors[e]] = p]
       /\ cursors' = [cursors EXCEPT ![e] = @ + 1]
       /\ left' = left \ {p}
  /\ Proceed(IF left' # {} THEN "scatter" ELSE IF Tiling THEN "tiles" ELSE "gate")
  /\ UNCHANGED <<chosen, buffers, counts, offsets, tiles, sums>>

BuildTiles ==
  /\ step = "tiles" /\ Proceed("gate")
  /\ tiles' = [w \in {Four, Eight, Sixteen} |->
                 IF w = TileM \/ (w = Sixteen /\ (TilesDown16 \/ MmaTiles16)) THEN TilesFor(w) ELSE <<>>]
  /\ UNCHANGED <<chosen, buffers, counts, offsets, cursors, left, sorted, sums>>

(* Gate, up and their product.                                             *)
From(times, ok, value, old) ==
  [p \in Pairs |-> IF times[p] = 0 THEN old[p] ELSE IF ok[p] THEN value ELSE "junk"]

GateUp ==
  /\ step = "gate"
  /\ LET l == GateLaunch
         n == Times(l.kernel)
         exact == Fills(l, MidDim)
         ok == [p \in Pairs |-> down[p] = "xq" /\ exact]
         aux == l.kernel.also = "always" \/ (l.kernel.also = "asked" /\ WriteAux) IN
     /\ mid' = From(n, ok, "mid", mid)
     /\ gate' = IF l.kernel.also = "midq" THEN From(n, ok, "midq", gate)
                ELSE IF aux THEN From(n, ok, "gate", gate) ELSE gate
     /\ up' = IF l.kernel.also = "sidecar" THEN From(n, ok, "sidecar", up)
              ELSE IF aux THEN From(n, ok, "up", up) ELSE up
  /\ Proceed(IF DirectMidq THEN "zero" ELSE "quantize mid")
  /\ UNCHANGED <<chosen, down, lists, sums>>

QuantizeMid ==
  /\ step = "quantize mid" /\ Proceed("zero")
  /\ LET beside == Sidecar IN
     gate' = [p \in Pairs |-> IF mid[p] = "mid" /\ (beside => up[p] = "sidecar") THEN "midq" ELSE "junk"]
  /\ UNCHANGED <<chosen, up, mid, down, lists, sums>>

(* Kernels that add the pairs to the output need it zeroed first.          *)
Adding == AtomicDown /\ ~DirectSum

Zero ==
  /\ step = "zero" /\ Proceed("down")
  /\ IF Adding THEN out' = All(0) /\ clean' = TRUE ELSE UNCHANGED <<out, clean>>
  /\ UNCHANGED <<unzeroed, chosen, buffers, lists>>

(* That this launch failed is forgotten: the next one is queued all the    *)
(* same, and whether that worked is the answer.                            *)
ZeroFails ==
  /\ step = "zero" /\ Adding /\ Proceed("down")
  /\ unzeroed' = TRUE /\ clean' = FALSE
  /\ UNCHANGED <<out, chosen, buffers, lists>>

Down ==
  /\ step = "down"
  /\ LET l == DownLaunch
         n == Times(l.kernel)
         exact == Fills(l, OutDim)
         ok == [p \in Pairs |-> gate[p] = "midq" /\ exact]
         fine == \A p \in Pairs : n[p] > 0 => ok[p] IN
     IF DirectSum THEN /\ out' = All(1) /\ clean' = fine /\ Return(1) /\ UNCHANGED down
     ELSE IF AtomicDown
     THEN /\ out' = [p \in Pairs |-> out[p] + n[p]] /\ clean' = (clean /\ fine)
          /\ Return(1) /\ UNCHANGED down
     ELSE /\ down' = From(n, ok, "down", down) /\ Proceed("sum") /\ UNCHANGED <<out, clean>>
  /\ UNCHANGED <<unzeroed, chosen, gate, up, mid, lists>>

SumPairs ==
  /\ step = "sum" /\ Summed /\ Return(1)
  /\ UNCHANGED <<chosen, buffers, lists>>

(* Without quantization.                                                   *)
PlainGateUp ==
  /\ step = "plain gate" /\ Proceed("plain down")
  /\ gate' = All("gate") /\ up' = All("up") /\ mid' = All("mid")
  /\ UNCHANGED <<chosen, down, lists, sums>>

PlainDown ==
  /\ step = "plain down" /\ Proceed("sum")
  /\ down' = [p \in Pairs |-> DownOf(p)]
  /\ UNCHANGED <<chosen, gate, up, mid, lists, sums>>

MoeNext == \/ TryAligned \/ TryMxfp4 \/ TryMmq \/ TierLaunch \/ TierFails
        \/ Resolve \/ LaunchFails \/ Graph \/ GraphGivesWay
        \/ QuantizeInput \/ CountPairs \/ Prefix \/ Scatter \/ BuildTiles
        \/ GateUp \/ QuantizeMid \/ Zero \/ ZeroFails \/ Down \/ SumPairs
        \/ PlainGateUp \/ PlainDown
MoeSpec == MoeInit /\ [][MoeNext]_moevars

-----------------------------------------------------------------------------
(* A call that says it worked has added the contribution of each of its    *)
(* pairs once, each from values that were what they were taken for, and to *)
(* nothing else: over every choice of tier and kernels, order of the       *)
(* scatter, and failure of a launch or of a tier half way, but for the one *)
(* failure that the call does not tell, which leaves out what it was.      *)
RoutedSum ==
  ret = 1 => (clean <=> ~unzeroed) /\ \A p \in Pairs : out[p] = 1

=============================================================================

----------------------------- MODULE MCLaunches ------------------------------
(***************************************************************************)
(* What the launches of a layer work on and leave: the encoders of a layer *)
(* (Layer) and the indexer (Indexer); the routed experts, the block that   *)
(* streams rows, the weights on the device and the worker pool of the CPU  *)
(* (the names of their modules).  They share nothing: the initial state    *)
(* chooses the one that moves.                                             *)
(***************************************************************************)
EXTENDS ThreadPool, WeightCache, TopKStream, MoeDispatch, MCMoeCalls, MCIndexerCalls

VARIABLES side, encoder, lpc, mem, opt, phase,
          icall, ipc, scores, cur, at, sets, other, picked, iret

(* A caller and two workers, over every vector of two, four or five scores *)
(* of two values.  Two rows are few enough for the caller alone; four      *)
(* leave the last of three threads without a row; five do not.             *)
MCScores == UNION {[0 .. n - 1 -> {0, 1}] : n \in {2, 4, 5}}
ASSUME PoolAssumption /\ WeightAssumption /\ MoeAssumption

Layer == INSTANCE LayerFlow WITH pc <- lpc

lvars == <<encoder, lpc, mem, opt, phase>>

(* Two neighbours that are joined, an expert between them and a tensor as  *)
(* long as a span may be; a support file that starts at the same offset.   *)
Tensor(off, end, expert) == [off |-> off, end |-> end, expert |-> expert]
MCTensors == (Target :> {Tensor(0, 1, FALSE), Tensor(1, 2, TRUE), Tensor(3, 6, FALSE), Tensor(6, 7, FALSE)})
             @@ (Support :> {Tensor(0, 2, FALSE)})

(* Blocks and lists in the proportions of the code's, of two rows for 512. *)
Indexer == INSTANCE IndexerTopK WITH
  Calls <- IndexerCalls, K <- 2, Wide <- 4, Size1024 <- 4, Size2048 <- 4, Size4096 <- 8, Size8192 <- 16,
  FusedChunk <- 8, FusedFrom <- 9, MergeGroup <- 4, StreamTokens <- 3, TileTokens <- 2, TileRows <- 4,
  Threads <- 2, Grid <- 2, U16Max <- 31, U32Max <- 99,
  call <- icall, pc <- ipc, selected <- picked, ret <- iret
ASSUME Indexer!IndexerAssumption

ivars == <<icall, ipc, scores, cur, at, sets, other, picked, iret>>

mcvars == <<vars, lvars, wvars, moevars, ivars, streamVars, side>>

(* An encoder, and a launch, that has ended stays. *)
Ended == \/ side = "layer" /\ lpc \in {"done", "failed", "rejected"}
         \/ side = "moe" /\ step = "done"
         \/ side = "indexer" /\ ipc = "done"
         \/ side = "stream" /\ Finished

MCInit ==
  /\ side \in {"layer", "weights", "moe", "indexer", "stream", "pool"}
  /\ side # "layer" => encoder = "draft" /\ opt = CHOOSE o \in Layer!Draft!Switches : TRUE
  /\ side # "moe" => call = CHOOSE c \in MoeCalls : TRUE
  /\ side # "indexer" => icall = CHOOSE c \in IndexerCalls : TRUE
  /\ side # "stream" => row = CHOOSE r \in StreamRows : TRUE
  /\ side # "stream" => first = 0
  /\ Layer!Init /\ WeightInit /\ MoeInit /\ Indexer!Init /\ StreamInit /\ Init
  /\ side # "weights" => Len(startup) = 5
MCNext ==
  \/ side = "layer" /\ Layer!Next /\ UNCHANGED <<vars, wvars, moevars, ivars, streamVars, side>>
  \/ side = "weights" /\ WeightNext /\ UNCHANGED <<vars, lvars, moevars, ivars, streamVars, side>>
  \/ side = "moe" /\ MoeNext /\ UNCHANGED <<vars, lvars, wvars, ivars, streamVars, side>>
  \/ side = "indexer" /\ Indexer!Next /\ UNCHANGED <<vars, lvars, wvars, moevars, streamVars, side>>
  \/ side = "stream" /\ StreamNext /\ UNCHANGED <<vars, lvars, wvars, moevars, ivars, side>>
  \/ side = "pool" /\ Next /\ UNCHANGED <<lvars, wvars, moevars, ivars, streamVars, side>>
  \/ Ended /\ UNCHANGED mcvars

(* The fairness of ThreadPool: every thread that can run does. *)
MCSpec == MCInit /\ [][MCNext]_mcvars /\ Fairness

-----------------------------------------------------------------------------
(* Whatever mix of encodings the switches choose, every launch reads       *)
(* contents that were written for this layer and this half, and no cache   *)
(* row, recurrent state or counter is updated twice or read too early.     *)
NothingJunk == Layer!NothingJunk

(* A layer that was encoded leaves its output and every cache with exactly *)
(* these tokens' rows; a proposal leaves the logits of its draft rows.  A  *)
(* counter never covers rows that are not in the cache, not even when a    *)
(* launch of the layer failed.                                             *)
LayerLeaves == Layer!LayerLeaves

(* A call of the indexer that says it worked has told each token its best  *)
(* rows in their order, by whichever kernels: ties to the lower row, rows  *)
(* it cannot see last (ds4_gpu_indexer_topk_tensor).  The tier that streams *)
(* its rows is exact by definition here; TopKStream shows when it is.      *)
SelectedBest == Indexer!SelectedBest

=============================================================================

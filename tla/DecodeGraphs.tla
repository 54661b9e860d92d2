--------------------------- MODULE DecodeGraphs ---------------------------
(***************************************************************************)
(* The recorded launches of the decode step.  Two islands of each layer,   *)
(* the part before the rope and the part behind the attention, are         *)
(* captured the second time they are seen and replayed from then on; the   *)
(* attention between them and the routed experts keep an executable graph  *)
(* whose node parameters are set again before each launch.  A recording    *)
(* holds addresses: of the scratch buffer, which grows, and of a session's *)
(* buffers, which come and go.                                             *)
(***************************************************************************)
EXTENDS Integers, Sequences, FiniteSets

CONSTANTS
  Layers,      \* bound: the layers run from 0 on
  Variants,    \* CUDA_DECODE_GRAPH_VARIANTS
  Slots,       \* bound: addresses of hidden states, one session on each
  Addresses,   \* bound: addresses of a session's other buffers
  MaxTmp,      \* bound: sizes of the scratch buffer
  IslandNeeds  \* scratch the islands ask for, by layer and island

Islands == {0, 1}
NoSession == 0

(* Every island quantizes its activations into the scratch buffer. *)
ASSUME GraphsAssumption ==
  /\ Cardinality(Layers) \in Nat \ {0} /\ Layers = 0 .. Cardinality(Layers) - 1
  /\ Variants \in Nat \ {0} /\ MaxTmp \in Nat
  /\ IslandNeeds \in [Layers -> [Islands -> 1 .. MaxTmp]]
  /\ NoSession \notin Addresses

VARIABLES
  capturable, \* <<layer, island>> that nothing disqualifies
  entries,    \* g_decode_graphs
  capturing,  \* g_decode_graph_capturing
  recorded,   \* what the running capture has recorded
  tmp,        \* g_cuda_tmp_bytes: it only grows, so it names the buffer too
  other,      \* the live sessions' buffers that no key names
  swapped,    \* cur_hc and after_ffn_hc have changed places
  nodes,      \* the two graphs whose nodes are set before each launch
  run         \* the token being decoded

vars == <<capturable, entries, capturing, recorded, tmp, other, swapped, nodes, run>>

NoGraph == [on |-> FALSE]
Blank == [state |-> 0, key |-> <<>>, exec |-> NoGraph]
Unset == [valid |-> FALSE]
Cleared == [e \in Layers \X Islands \X (1 .. Variants) |-> Blank]
Live == {s \in Slots : other[s] # NoSession}

Init ==
  /\ capturable \in SUBSET (Layers \X Islands)
  /\ entries = Cleared
  /\ capturing = FALSE /\ recorded = NoGraph
  /\ tmp = 0
  /\ other = [s \in Slots |-> NoSession]
  /\ swapped = [s \in Slots |-> FALSE]
  /\ nodes = [g \in {"scores", "experts"} |-> Unset]
  /\ run = [at |-> "idle", ok |-> TRUE, ran |-> <<>>]

-----------------------------------------------------------------------------
(* Entries *)

(* metal_graph's addresses that decide the entry: cur_hc, after_attn_hc,   *)
(* after_ffn_hc and attn_norm belong to one session, the first and the     *)
(* third trade places from layer to layer.                                 *)
Key == <<run.sess, swapped[run.sess]>>
Here(v) == <<run.il, run.island, v>>

(* The variant that has the key, else a free one, else none. *)
Holding == {v \in 1 .. Variants : entries[Here(v)].state # 0 /\ entries[Here(v)].key = Key}
Free == {v \in 1 .. Variants : entries[Here(v)].state = 0}
Least(S) == {v \in S : \A w \in S : v <= w}
Find == Least(IF Holding # {} THEN Holding ELSE Free)

Marked(v, state, exec) ==
  [entries EXCEPT ![Here(v)] = [state |-> state, key |-> Key, exec |-> exec]]
Killed(v) == Marked(v, 3, NoGraph)
KilledIfFound == IF Find = {} THEN entries ELSE Killed(CHOOSE v \in Find : TRUE)

-----------------------------------------------------------------------------
(* Running a piece of a layer *)

(* What a launch uses: its scratch, its buffers and its position. *)
Now(size) == [tmp |-> size, other |-> other[run.sess], swapped |-> swapped[run.sess]]

(* A piece ran with what it used; it should have used what is there now. *)
Ran(piece, used, want) ==
  [run EXCEPT !.ran = Append(@, [piece |-> piece, sound |-> used = want])]

PieceOf(island) == IF island = 0 THEN "top" ELSE "tail"

(* Island 0 is followed by the rope and the attention, island 1 by the     *)
(* next layer, where the hidden states change places.                      *)
Past(r) ==
  IF r.island = 0 THEN [r EXCEPT !.at = "middle"]
  ELSE IF r.il + 1 \in Layers THEN [r EXCEPT !.at = "begin", !.island = 0, !.il = @ + 1]
  ELSE [at |-> "idle", ok |-> TRUE, ran |-> r.ran]
Swap(island) ==
  swapped' = IF island = 1 THEN [swapped EXCEPT ![run.sess] = ~@] ELSE swapped

(* The layer fails and with it the token; the places are changed first.    *)
Fails == /\ run' = [at |-> "idle", ok |-> FALSE, ran |-> <<>>]
         /\ swapped' = [swapped EXCEPT ![run.sess] = ~@]

(* Mutant: graphs that hold the old buffer stay. *)
GrowKeep(size) == tmp' = (IF size > tmp THEN size ELSE tmp) /\ UNCHANGED entries

(* cuda_tmp_alloc: a buffer that grows takes every graph with it. *)
Grow(size) ==
  IF size <= tmp THEN UNCHANGED <<tmp, entries>>
  ELSE /\ tmp' = size
       /\ entries' = IF tmp = 0 THEN entries ELSE Cleared

(* The old buffer is gone before the new one is refused. *)
GrowFails(size) ==
  /\ size > tmp
  /\ tmp' = 0
  /\ entries' = IF tmp = 0 THEN entries ELSE Cleared

(* Mutant: the nodes of a graph that fits keep their arguments. *)
RelaunchUnset(g, shape, args) ==
  IF nodes[g].valid /\ nodes[g].shape = shape THEN nodes[g]
  ELSE [valid |-> TRUE, shape |-> shape, args |-> args]

(* A graph of another shape is built again; the nodes of one that fits are *)
(* set to this call's arguments.                                           *)
Relaunch(g, shape, args) ==
  IF nodes[g].valid /\ nodes[g].shape = shape THEN [nodes[g] EXCEPT !.args = args]
  ELSE [valid |-> TRUE, shape |-> shape, args |-> args]

-----------------------------------------------------------------------------
(* Islands: the loops around ds4_gpu_decode_graph_begin *)

StartToken ==
  /\ run.at = "idle"
  /\ \E s \in Live, p \in {0, 1} :
       run' = [at |-> "begin", ok |-> TRUE, ran |-> <<>>, sess |-> s, pos |-> p,
               il |-> 0, island |-> 0]
  /\ UNCHANGED <<capturable, entries, capturing, recorded, tmp, other, swapped, nodes>>

Begin == run.at = "begin"
May == <<run.il, run.island>> \in capturable /\ ~capturing

(* Nothing to record, no variant free, or one that has died. *)
BeginEager ==
  /\ Begin
  /\ \/ ~May
     \/ Find = {}
     \/ \E v \in Find : entries[Here(v)].state = 3
  /\ run' = [run EXCEPT !.at = "eager"]
  /\ UNCHANGED <<capturable, entries, capturing, recorded, tmp, other, swapped, nodes>>

BeginWarm ==
  /\ Begin /\ May
  /\ \E v \in Find :
       /\ entries[Here(v)].state = 0
       /\ entries' = Marked(v, 1, NoGraph)
  /\ run' = [run EXCEPT !.at = "eager"]
  /\ UNCHANGED <<capturable, capturing, recorded, tmp, other, swapped, nodes>>

BeginReplay ==
  /\ Begin /\ May
  /\ \E v \in Find :
       /\ entries[Here(v)].state = 2
       /\ \/ /\ run' = Past(Ran(PieceOf(run.island), entries[Here(v)].exec.used, Now(tmp)))
             /\ Swap(run.island)
             /\ UNCHANGED entries
          \/ /\ entries' = Killed(v)
             /\ run' = [run EXCEPT !.at = "eager"]
             /\ UNCHANGED swapped
  /\ UNCHANGED <<capturable, capturing, recorded, tmp, other, nodes>>

BeginCapture ==
  /\ Begin /\ May
  /\ \E v \in Find :
       /\ entries[Here(v)].state = 1
       /\ \/ /\ capturing' = TRUE
             /\ run' = [run EXCEPT !.at = "capture"]
             /\ UNCHANGED entries
          \/ /\ entries' = Killed(v)
             /\ run' = [run EXCEPT !.at = "eager"]
             /\ UNCHANGED capturing
  /\ UNCHANGED <<capturable, recorded, tmp, other, swapped, nodes>>

(* Encoding inside a capture runs nothing.  It cannot grow the scratch     *)
(* buffer: neither a synchronization nor an allocation may be captured.    *)
Encode ==
  /\ run.at = "capture"
  /\ IslandNeeds[run.il][run.island] <= tmp
  /\ recorded' = [on |-> TRUE, used |-> Now(tmp)]
  /\ run' = [run EXCEPT !.at = "end"]
  /\ UNCHANGED <<capturable, entries, capturing, tmp, other, swapped, nodes>>

(* Mutant: the entry stays as it was. *)
AbortKeep ==
  /\ run.at = "capture"
  /\ capturing' = FALSE
  /\ run' = [run EXCEPT !.at = "begin"]
  /\ UNCHANGED <<capturable, entries, recorded, tmp, other, swapped, nodes>>

(* ds4_gpu_decode_graph_abort, then the loop asks again. *)
Abort ==
  /\ run.at = "capture"
  /\ capturing' = FALSE
  /\ entries' = KilledIfFound
  /\ run' = [run EXCEPT !.at = "begin"]
  /\ UNCHANGED <<capturable, recorded, tmp, other, swapped, nodes>>

(* Mutant: the recording is kept without being launched once. *)
EndNoLaunch ==
  /\ run.at = "end"
  /\ capturing' = FALSE /\ recorded' = NoGraph
  /\ \E v \in Find :
       /\ entries' = Marked(v, 2, recorded)
       /\ run' = Past(run)
       /\ Swap(run.island)
  /\ UNCHANGED <<capturable, tmp, other, nodes>>

(* ds4_gpu_decode_graph_end: the recording is launched once. *)
EndLaunched ==
  /\ run.at = "end"
  /\ capturing' = FALSE /\ recorded' = NoGraph
  /\ \E v \in Find :
       /\ entries' = Marked(v, 2, recorded)
       /\ run' = Past(Ran(PieceOf(run.island), recorded.used, Now(tmp)))
       /\ Swap(run.island)
  /\ UNCHANGED <<capturable, tmp, other, nodes>>

(* The capture, its instance or the first launch failed. *)
EndFailed ==
  /\ run.at = "end"
  /\ capturing' = FALSE /\ recorded' = NoGraph
  /\ entries' = KilledIfFound
  /\ run' = [run EXCEPT !.at = "begin"]
  /\ UNCHANGED <<capturable, tmp, other, swapped, nodes>>

(* The island's launches one by one; the routed experts of island 1 may go *)
(* through their own graph.                                                *)
Eager ==
  /\ run.at = "eager"
  /\ LET need == IslandNeeds[run.il][run.island]
     IN \/ /\ Grow(need)
           /\ Swap(run.island)
           /\ \/ /\ run' = Past(Ran(PieceOf(run.island), Now(tmp'), Now(tmp')))
                 /\ UNCHANGED nodes
              \/ /\ run.island = 1
                 /\ LET c == Relaunch("experts", 0, other[run.sess])
                    IN /\ nodes' = [nodes EXCEPT !["experts"] = c]
                       /\ run' = Past(Ran("tail", c.args, other[run.sess]))
        \/ GrowFails(need) /\ Fails /\ UNCHANGED nodes
        \/ Grow(need) /\ Fails
           /\ nodes' \in {nodes, [nodes EXCEPT !["experts"] = Unset]}
  /\ UNCHANGED <<capturable, capturing, recorded, other>>

(* The rope, the caches and the attention: never recorded, their scratch   *)
(* and the shape of the score launch follow the position.                  *)
Middle ==
  /\ run.at = "middle"
  /\ LET here == <<run.pos, tmp'>>
     IN \E need \in 0 .. MaxTmp :
          \/ /\ Grow(need) /\ UNCHANGED swapped
             /\ \/ /\ run' = [Ran("middle", here, here) EXCEPT !.at = "begin", !.island = 1]
                   /\ UNCHANGED nodes
                \/ LET c == Relaunch("scores", run.pos, here)
                   IN /\ nodes' = [nodes EXCEPT !["scores"] = c]
                      /\ run' = [Ran("middle", c.args, here) EXCEPT !.at = "begin", !.island = 1]
          \/ GrowFails(need) /\ Fails /\ UNCHANGED nodes
          \/ Grow(need) /\ Fails /\ nodes' \in {nodes, [nodes EXCEPT !["scores"] = Unset]}
  /\ UNCHANGED <<capturable, capturing, recorded, other>>

-----------------------------------------------------------------------------
(* Between tokens *)

Open(s) ==
  /\ run.at = "idle" /\ other[s] = NoSession
  /\ \E a \in Addresses : /\ \A u \in Live : other[u] # a
                          /\ other' = [other EXCEPT ![s] = a]
  /\ swapped' = [swapped EXCEPT ![s] = FALSE]
  /\ UNCHANGED <<capturable, entries, capturing, recorded, tmp, nodes, run>>

(* Mutant: the graphs of a closed session stay. *)
CloseKeep(s) ==
  /\ run.at = "idle" /\ s \in Live
  /\ other' = [other EXCEPT ![s] = NoSession]
  /\ UNCHANGED <<capturable, entries, capturing, recorded, tmp, swapped, nodes, run>>

(* metal_graph_free *)
Close(s) ==
  /\ run.at = "idle" /\ s \in Live
  /\ other' = [other EXCEPT ![s] = NoSession]
  /\ entries' = Cleared
  /\ UNCHANGED <<capturable, capturing, recorded, tmp, swapped, nodes, run>>

(* A prefill takes scratch of its own size. *)
Prefill ==
  /\ run.at = "idle" /\ Live # {}
  /\ \E need \in 1 .. MaxTmp : Grow(need) \/ GrowFails(need)
  /\ UNCHANGED <<capturable, capturing, recorded, other, swapped, nodes, run>>

EncodeStep ==
  \/ BeginEager \/ BeginWarm \/ BeginReplay \/ BeginCapture
  \/ Encode \/ Abort \/ EndLaunched \/ EndFailed \/ Eager \/ Middle

Next ==
  \/ StartToken \/ EncodeStep \/ Prefill
  \/ \E s \in Slots : Open(s) \/ Close(s)

(* The host thread that encodes a token does not stop. *)
Spec == Init /\ [][Next]_vars /\ WF_vars(EncodeStep)

-----------------------------------------------------------------------------
(* Properties *)

Pieces == <<"top", "middle", "tail">>

(* Whatever fails on the way, a layer that was encoded ran each of its     *)
(* pieces once and in order.                                               *)
RanOnce ==
  /\ \A i \in 1 .. Len(run.ran) : run.ran[i].piece = Pieces[((i - 1) % 3) + 1]
  /\ run.at = "idle" /\ run.ok /\ run.ran # <<>> => Len(run.ran) = 3 * Cardinality(Layers)

(* What ran, recorded or not, used the scratch and the buffers that were   *)
(* there when it ran, and this token's arguments.                          *)
ReplaySound == \A i \in 1 .. Len(run.ran) : run.ran[i].sound

(* No failure of a recording keeps the loop around it going for ever. *)
TokenEnds == run.at # "idle" ~> run.at = "idle"

=============================================================================

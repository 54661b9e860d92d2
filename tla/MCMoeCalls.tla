----------------------------- MODULE MCMoeCalls -----------------------------
(***************************************************************************)
(* Calls for MoeDispatch, with tiles of 1, 2 and 4 pairs for the code's 4, *)
(* 8 and 16, and wide tiles above 2 tokens, spanned rows from 4 tokens on  *)
(* for the code's 8 and 128.                                               *)
(***************************************************************************)
EXTENDS Integers, Sequences, TLC

LOCAL Plain == [mmq |-> FALSE, aligned |-> FALSE, complete |-> FALSE, roomy |-> TRUE,
                graph |-> FALSE, mma |-> FALSE, shared |-> FALSE]
LOCAL Shape(t, k, n, sel) == [tokens |-> t, slots |-> k, experts |-> n, selected |-> sel]

(* A token on its own; two tokens that select the same experts in opposite *)
(* orders; tokens of one slot with shares of two experts.                  *)
LOCAL One(k) == Shape(1, k, k, [p \in 0 .. k - 1 |-> p])
LOCAL Crossed == Shape(2, 2, 2, 0 :> 0 @@ 1 :> 1 @@ 2 :> 1 @@ 3 :> 0)
LOCAL Shares(s) == Shape(Len(s), 1, 2, [p \in 0 .. Len(s) - 1 |-> s[p + 1]])
LOCAL Several == {Crossed} \cup {Shares(s) : s \in {<<0, 0, 1>>, <<0, 0, 0, 0>>, <<0, 0, 0, 1, 1>>}}

LOCAL DecodeEnvs ==
  {{}, {"WRITE_GATE_UP"}, {"NO_DIRECT_DOWN_SUM6"}, {"NO_DECODE_LUT_GATE", "NO_DIRECT_DOWN_SUM6"},
   {"DIRECT_MIDQ"}, {"Q4_GATE_H16R8"}, {"Q4_GATE_H16"}, {"Q4_GATE_W32R16"}, {"NO_Q4_GATE_W32"},
   {"NO_Q4_GATE_W32_NOAUX"}, {"Q4_DOWN_SLOT3"}, {"MIDQ_SIDECAR"}, {"MIDQ_SIDECAR", "DIRECT_MIDQ"},
   {"MIDQ_SIDECAR", "WRITE_GATE_UP"}}
LOCAL BatchEnvs ==
  {{}, {"WRITE_GATE_UP"}, {"NO_Q4_SORTED"}, {"NO_EXPERT_TILES"}, {"NO_EXPERT_TILES", "NO_P2"},
   {"TILE4"}, {"TILE8"}, {"TILE8", "ATOMIC_DOWN"}, {"TILE8", "ATOMIC_DOWN", "DOWN_ROW2048"},
   {"ATOMIC_DOWN"}, {"NO_ATOMIC_DOWN"}, {"NO_DOWN_TILE16"}, {"NO_DOWN_TILE16", "DOWN_ROW2048"},
   {"NO_DOWN_ROW2048"}, {"NO_GATE_ROW2048"}, {"GATE_ROW2048"}, {"GATE_ROW1024", "DOWN_ROW1024"},
   {"NO_Q4_MMA_TILE16"}, {"NO_Q4_DOWN_ROWSPAN"}, {"TILE8", "GATE_ROW2048", "DOWN_ROW2048"}}

LOCAL With(shapes, types, envs, supported) ==
  {h @@ [type |-> t, env |-> e] @@ s @@ Plain : s \in shapes, t \in types, e \in envs, h \in supported}

MoeCalls ==
  With({One(6), One(3), One(2)}, {"iq2", "q4"}, DecodeEnvs, {[graph |-> g] : g \in BOOLEAN})
  \cup With({One(6), One(2), Shares(<<0, 1>>)}, {"iq2", "mxfp4"}, {{}},
            {[mmq |-> m, aligned |-> a, complete |-> c, roomy |-> r] : m, a, c, r \in BOOLEAN})
  \cup With(Several, {"iq2"}, BatchEnvs, {<<>>})
  \cup With(Several, {"q4"}, BatchEnvs,
            {[mma |-> TRUE, shared |-> TRUE], [mma |-> TRUE, shared |-> FALSE], [mma |-> FALSE, shared |-> FALSE]})

=============================================================================

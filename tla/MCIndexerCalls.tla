--------------------------- MODULE MCIndexerCalls ---------------------------
(***************************************************************************)
(* Calls for IndexerTopK, with 2 and 4 selected rows for the code's 512    *)
(* and 2048, blocks that sort 4, 8 and 16 rows for its 1024, 4096 and      *)
(* 8192, and rows streamed from 3 tokens on for its 32; and rows of scores *)
(* for TopKStream.                                                         *)
(***************************************************************************)
EXTENDS Integers, Sequences, TLC

LOCAL Call(mode, tokens, comps, k, pos, ratio, worth, env, smem, capturing) ==
  [mode |-> mode, tokens |-> tokens, comps |-> comps, k |-> k, pos |-> pos, ratio |-> ratio,
   worth |-> worth, env |-> env, smem |-> smem, capturing |-> capturing]

(* Rising, falling, equal and mixed worths; a token's differ from another's. *)
LOCAL Kinds == {"up", "down", "same", "mixed", "late"}
LOCAL Worth(kind, t, c, n) ==
  CASE kind = "up" -> c + t [] kind = "down" -> n - c + t [] kind = "same" -> 1
    [] kind = "mixed" -> (5 * c + 3 * t) % 7 [] kind = "late" -> IF c + 3 >= n THEN 1 + ((c + t) % 2) ELSE 0
LOCAL Worths(tokens, n, kind) == [t \in 0 .. tokens - 1 |-> [x \in 1 .. n |-> Worth(kind, t, x - 1, n)]]

LOCAL Ranked(mode, tokens, n, k, kind, env) ==
  Call(mode, tokens, n, k, 4 * n - 2, 4, Worths(tokens, n, kind), env, TRUE, FALSE)

(* Blocks of four, over every order of two worths. *)
LOCAL Few ==
  {Call("given", 1, Len(w), k, 0, 1, [t \in {0} |-> w], {}, TRUE, FALSE) :
     w \in [1 .. 4 -> 0 .. 2] \cup [1 .. 3 -> 0 .. 1], k \in {1, 2}}

LOCAL OneToken ==
  {Ranked("one", 1, n, 2, kind, env) :
     n \in {3, 4, 8, 9, 16, 17, 33, 40}, kind \in Kinds, env \in {{}, {"NO_FUSED"}, {"REFERENCE", "NO_FUSED"}}}

LOCAL Several ==
  {Ranked("verify", t, n, 2, kind, {}) : t \in {2, 3}, n \in {3, 7, 8, 13, 17, 33}, kind \in Kinds}
  \cup {Ranked("verify", 3, n, 4, kind, {}) : n \in {5, 8, 17, 25, 33}, kind \in Kinds}
  \cup {[Ranked("verify", 2, n, 2, kind, {}) EXCEPT !.pos = 5] : n \in {4, 7, 17}, kind \in Kinds}
  \cup {Ranked("prefill", 4 * n, n, 2, "mixed", {}) : n \in {2, 3}}

LOCAL Switched ==
  {Ranked("verify", 3, n, 2, kind, {e}) :
     n \in {4, 8, 13, 17, 37}, kind \in {"mixed", "late"},
     e \in {"NO_TOPK1024", "NO_TOPK2048", "NO_TOPK8192", "NO_TOPK_STREAM"}}
  \cup {Ranked("verify", 2, 19, 2, kind, {"NO_TOPK_CHUNKED"}) : kind \in Kinds}
  \cup {Ranked("verify", 2, 13, 4, kind, {"NO_TOPK2048_WIDE"}) : kind \in Kinds}

LOCAL Refused ==
  {[Ranked("verify", 2, n, 2, kind, {}) EXCEPT !.smem = FALSE] : n \in {8, 13}, kind \in Kinds}
  \cup {[Ranked(mode, 1, 17, 2, "mixed", {}) EXCEPT !.capturing = TRUE] : mode \in {"one", "verify"}}

LOCAL BestToken ==
  {Call(mode, 1, n, 1, 0, 1, Worths(1, n, kind), env, TRUE, FALSE) :
     mode \in {"given", "markov"}, n \in {1, 5, 11}, kind \in Kinds, env \in {{}, {"NO_TOP1"}}}

IndexerCalls == Few \cup OneToken \cup Several \cup Switched \cup Refused \cup BestToken

StreamRows ==
  {[x \in 1 .. 6 |-> x], [x \in 1 .. 6 |-> 6 - x], <<0, 0, 1, 0, 1>>, <<1, 1, 1, 1, 1, 1, 1>>,
   <<0, 1, 2, 0, 2, 1, 0>>, <<1, 0>>, <<1, 0, 2>>, <<1, 0, 2, 1>>}

=============================================================================

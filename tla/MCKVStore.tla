------------------------------ MODULE MCKVStore ------------------------------
(* Model values and bounds for checking KVStore with TLC. *)
EXTENDS KVStore, TLC

CONSTANTS x, y, m

(* Three texts: one begins another; the third begins neither, and is long  *)
(* for its tokens.                                                         *)
MCSnapshots == {
  [text |-> <<x>>, tokens |-> 2], [text |-> <<x, y>>, tokens |-> 4],
  [text |-> <<y, y, y>>, tokens |-> 1]}
MCPrompts == {<<x, y, x>>}
MCEngines == {[model |-> m, quant |-> 2, ctx |-> 3], [model |-> m, quant |-> 2, ctx |-> 4],
              [model |-> m, quant |-> 4, ctx |-> 3]}
MCFaults == Sites
=============================================================================

----------------------------- MODULE LayerFlow ------------------------------
(* The three encoders that share the stages of a layer: a token, a chunk,  *)
(* a block of the drafter.                                                 *)
EXTENDS Integers

VARIABLES encoder, pc, mem, opt, phase
vars == <<encoder, pc, mem, opt, phase>>

Token == INSTANCE DecodeLayer
Batch == INSTANCE BatchLayer
Draft == INSTANCE DraftBlock

Init ==
  \/ encoder = "token" /\ Token!Init
  \/ encoder = "batch" /\ Batch!Init /\ phase = "full"
  \/ encoder = "draft" /\ Draft!Init /\ phase = "full"

TokenStep == encoder = "token" /\ Token!Next /\ UNCHANGED encoder
BatchStep == encoder = "batch" /\ Batch!Next /\ UNCHANGED <<encoder, phase>>
DraftStep == encoder = "draft" /\ Draft!Next /\ UNCHANGED <<encoder, phase>>

Next == TokenStep \/ BatchStep \/ DraftStep
Spec == Init /\ [][Next]_vars

-----------------------------------------------------------------------------
(* Whatever mix of encodings the switches choose, every launch reads       *)
(* contents that were written for this layer and this half, and no cache   *)
(* row, recurrent state or counter is updated twice or read too early.     *)
NothingJunk == Token!NothingJunk

(* A layer that was encoded leaves its output and every cache with exactly *)
(* these tokens' rows; a proposal leaves the logits of its draft rows.     *)
LayerDone ==
  /\ encoder = "token" => Token!LayerDone
  /\ encoder = "batch" => Batch!LayerDone
  /\ encoder = "draft" => Draft!LayerDone

(* A counter never covers rows that are not in the cache, not even when a  *)
(* launch of the layer failed.                                             *)
CountedRowsThere == Token!CountedRowsThere

(* What a layer leaves behind, encoded or failed. *)
LayerLeaves == LayerDone /\ CountedRowsThere

=============================================================================

------------------------------ MODULE MCSession ------------------------------
(* Model values and bounds for checking Session with TLC. *)
EXTENDS Session, FiniteSets, TLC

CONSTANT MaxPrompt

(* The prompts of at most MaxPrompt tokens, the empty one included, that   *)
(* begin with one token twice when they are longer than two, and one       *)
(* repeated token that just fills the context.                             *)
MCPrompts ==
  UNION {{s \in [1 .. n -> Token] : n > 2 => s[1] = s[2]} : n \in 0 .. MaxPrompt}
    \cup {[i \in 1 .. CtxSize |-> t] : t \in Token}

MCNoSites == {}
MCColdOnly == {"cold"}
MCButCold == Sites \ {"cold"}

TokenSymmetry == Permutations(Token)
=============================================================================

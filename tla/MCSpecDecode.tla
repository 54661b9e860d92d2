---------------------------- MODULE MCSpecDecode ----------------------------
(* Model values and bounds for checking SpecDecode with TLC. *)
EXTENDS SpecDecode, TLC

CONSTANTS a, b, eos

MCToken == {a, b, eos}
MCPrompts == {<<a>>, <<a, b, b, b, b>>}
MCOnePrompt == {<<b, a>>}
MCNoFaults == {}
MCDecodeFaults == {"decode"}
MCColdFaults == {"cold", "decode"}
MCAllSites == SpecSites

(* A target that ends after n tokens, and otherwise answers with the other *)
(* letter, or with the same one every third token.  MCGreedy ends inside   *)
(* some drafts, and lets others reach the end of the context.              *)
EndsAfter(n, s) ==
  IF Len(s) = n THEN eos
  ELSE IF s = <<>> \/ s[Len(s)] = eos THEN a
  ELSE IF Len(s) % 3 = 0 THEN s[Len(s)]
  ELSE IF s[Len(s)] = a THEN b ELSE a
MCGreedy(s) == EndsAfter(IF Len(s) > 1 /\ s[2] = a THEN 5 ELSE 4, s)
MCEarly(s) == EndsAfter(3, s)
=============================================================================

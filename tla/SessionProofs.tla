---------------------------- MODULE SessionProofs ----------------------------
(***************************************************************************)
(* Theorems about Session and about SpecDecode, which works on it, for     *)
(* every vocabulary, context, chunk size, number of layers, target, draft  *)
(* model, block and number of slots.                                       *)
(*                                                                         *)
(* Types holds of every step the code takes.  The frontier invariant needs *)
(* two assumptions on the environment, named Sound below: no chunk of a    *)
(* cold prefill fails, and nobody calls ds4_session_rewind.                *)
(*                                                                         *)
(* What a speculation accepts is what the checkpoint holds whenever no     *)
(* draft goes on after Eos.  That the layers, the logits and the captured  *)
(* row stand there too, and that the accepted tokens are the target's own, *)
(* needs a slot for every prefix of a draft and a Sound environment; the   *)
(* runs spec_past_eos and spec_stale_slots show that neither can be left   *)
(* out.                                                                    *)
(*                                                                         *)
(* The last section shows that both implement TextSession.                 *)
(***************************************************************************)
EXTENDS SpecDecode, SequenceTheorems, NaturalsInduction, WellFoundedInduction, TLAPS

Sound == "cold" \notin FaultSites /\ Rewinds = {}

-----------------------------------------------------------------------------
(* Sequences *)

(* A prefix of a sequence is a sequence of the length asked for. *)
LEMMA PrefixType ==
  ASSUME NEW s \in Seq(Token), NEW n \in 0 .. Len(s)
  PROVE  SubSeq(s, 1, n) \in Seq(Token) /\ Len(SubSeq(s, 1, n)) = n
<1>1. \A i \in 1 .. n : s[i] \in Token
  BY ElementOfSeq
<1> QED  BY <1>1, SubSeqProperties

(* A prefix is never the Torn frontier. *)
LEMMA PrefixNotTorn ==
  ASSUME NEW s \in Seq(Token), NEW n \in 0 .. Len(s)
  PROVE  SubSeq(s, 1, n) # Torn
BY PrefixType, TornAssumption

(* A prefix of a prefix, and the next token appended to a prefix. *)
LEMMA PrefixNext ==
  ASSUME NEW s \in Seq(Token), NEW n \in Nat, n < Len(s)
  PROVE  Append(SubSeq(s, 1, n), s[n + 1]) = SubSeq(s, 1, n + 1)
<1>1. s[n + 1] \in Token
  BY ElementOfSeq
<1>2. SubSeq(s, 1, n) \in Seq(Token)
  BY PrefixType
<1>3. SubSeq(s, 1, n + 1) = SubSeq(s, 1, (n + 1) - 1) \o <<s[n + 1]>>
  BY SubSeqRecursiveSecond
<1> QED  BY <1>1, <1>2, <1>3, AppendIsConcat

(* A chunk is a non-empty piece of what is left of its range. *)
LEMMA ChunkEndBounds ==
  ASSUME NEW s \in Nat, NEW p \in Nat, NEW e \in Nat, p < e
  PROVE  ChunkEnd(s, p, e) \in p + 1 .. e
<1> DEFINE r == p % PrefillCap
<1>1. r \in 0 .. PrefillCap - 1
  BY SizesAssumption
<1>2. PrefillCap - r \in Nat \ {0}
  BY <1>1, SizesAssumption
<1> QED  BY <1>2, SizesAssumption DEF ChunkEnd

(* Prefilling a piece of s in a layer gives a frontier, and in a layer that *)
(* stands at the start of the piece it gives the prefix of s that ends it.  *)
LEMMA FeedRangeType ==
  ASSUME NEW f \in Frontier, NEW s \in Seq(Token),
         NEW p \in Nat, NEW q \in Nat, p <= q, q <= Len(s)
  PROVE  FeedRange(f, s, p, q) \in Frontier
<1>1. SubSeq(s, 1, q) \in Seq(Token)
  BY PrefixType
<1>2. SubSeq(s, p + 1, q) \in Seq(Token)
  <2>1. \A i \in p + 1 .. q : s[i] \in Token
    BY ElementOfSeq
  <2> QED  BY <2>1, SubSeqProperties
<1>3. CASE f = Torn \/ p = 0
  BY <1>1, <1>3 DEF FeedRange, Frontier
<1>4. CASE f # Torn /\ p # 0
  <2>1. f \o SubSeq(s, p + 1, q) \in Seq(Token)
    BY <1>2, <1>4, ConcatProperties DEF Frontier
  <2> QED  BY <1>4, <2>1 DEF FeedRange, Frontier
<1> QED  BY <1>3, <1>4

LEMMA FeedRangeExact ==
  ASSUME NEW s \in Seq(Token), NEW p \in Nat, NEW q \in Nat, p <= q, q <= Len(s)
  PROVE  FeedRange(SubSeq(s, 1, p), s, p, q) = SubSeq(s, 1, q)
<1>1. SubSeq(s, 1, p) # Torn /\ Len(SubSeq(s, 1, p)) = p
  BY PrefixType, PrefixNotTorn
<1>2. SubSeq(s, 1, p) \o SubSeq(s, p + 1, q) = SubSeq(s, 1, q)
  BY ConcatAdjacentSubSeq
<1> QED  BY <1>1, <1>2 DEF FeedRange

(* Decoding one token likewise. *)
LEMMA FeedOneType ==
  ASSUME NEW f \in Frontier, NEW t \in Token, NEW p \in Nat
  PROVE  FeedOne(f, t, p) \in Frontier
BY AppendProperties DEF FeedOne, Frontier

LEMMA FeedOneExact ==
  ASSUME NEW s \in Seq(Token), NEW t \in Token
  PROVE  FeedOne(s, t, Len(s)) = Append(s, t)
BY TornAssumption DEF FeedOne

LEMMA OutputType ==
  ASSUME NEW f \in [Layers -> Frontier]
  PROVE  Output(f) \in Frontier
BY SizesAssumption DEF Output, Layers, Frontier

LEMMA OutputExact ==
  ASSUME NEW f, NEW v, \A l \in Layers : f[l] = v
  PROVE  Output(f) = v
BY SizesAssumption DEF Output, Layers

-----------------------------------------------------------------------------
(* Type correctness *)

CaptureType == [ok : BOOLEAN, len : Nat, seq : Frontier]

(* TypeOK without the names of the calls and of their stages: a module     *)
(* that adds a call to the session adds stages of its own, and still has   *)
(* this invariant.                                                         *)
DataOK ==
  /\ checkpoint \in Seq(Token) /\ valid \in BOOLEAN
  /\ fed \in [Layers -> Frontier] /\ logits \in Frontier
  /\ capture \in [ok : BOOLEAN, len : Nat, seq : Frontier]
  /\ ret \in {"none", "ok", "error", "interrupted", "rebuild"}
  /\ prompt \in Seq(Token) /\ mode \in Modes
  /\ start \in Nat /\ pos \in Nat /\ il \in 1 .. NLayers + 1
  /\ saved \in Payload \cup {NoPayload}

TInv == DataOK /\ RangeShape

LEMMA NoCaptureType == NoCapture \in CaptureType
BY EmptySeq DEF NoCapture, CaptureType, Frontier

LEMMA NotedType ==
  ASSUME NEW c \in CaptureType, NEW s \in Seq(Token)
  PROVE  Noted(c, s) \in CaptureType
<1>1. Len(s) \in Nat
  OBVIOUS
<1>2. [c EXCEPT !.len = Len(s)] \in CaptureType
  BY <1>1 DEF CaptureType
<1> QED  BY <1>2, NoCaptureType DEF Noted

LEMMA CapturedType ==
  ASSUME DataOK
  PROVE  Captured \in CaptureType
BY OutputType, EmptySeq, FaultsAssumption
   DEF Captured, CaptureType, DataOK, Frontier

LEMMA TornSomeType ==
  ASSUME DataOK, TornSome(fed, fed')
  PROVE  fed' \in [Layers -> Frontier]
BY DEF TornSome, DataOK, Frontier

LEMMA DecodedType ==
  ASSUME DataOK, NEW t \in Token, Decoded(t)
  PROVE  /\ fed' \in [Layers -> Frontier] /\ logits' \in Frontier
         /\ checkpoint' \in Seq(Token) /\ valid' \in BOOLEAN
         /\ capture' \in CaptureType
<1> DEFINE after == [l \in Layers |-> FeedOne(fed[l], t, Len(checkpoint))]
           row == [ok |-> Dspark, len |-> 0,
                   seq |-> IF Dspark THEN Output(after) ELSE <<>>]
<1>1. Len(checkpoint) \in Nat
  BY DEF DataOK
<1>2. after \in [Layers -> Frontier]
  BY <1>1, FeedOneType DEF DataOK
<1>3. Output(after) \in Frontier
  BY <1>2, OutputType
<1>4. Append(checkpoint, t) \in Seq(Token)
  BY AppendProperties DEF DataOK
<1>5. row \in CaptureType
  BY <1>3, EmptySeq, FaultsAssumption DEF CaptureType, Frontier
<1>6. Noted(row, Append(checkpoint, t)) \in CaptureType
  BY <1>4, <1>5, NotedType
<1> QED  BY <1>2, <1>3, <1>4, <1>6 DEF Decoded

LEMMA DecodeFailedType ==
  ASSUME DataOK, DecodeFailed
  PROVE  /\ fed' \in [Layers -> Frontier] /\ logits' \in Frontier
         /\ checkpoint' \in Seq(Token) /\ valid' \in BOOLEAN
         /\ capture' \in CaptureType
BY TornSomeType, NoCaptureType DEF DecodeFailed, DataOK, Frontier

(* What the next chunk of a well-shaped range is. *)
LEMMA ThisEndBounds ==
  ASSUME TInv, pc \in {"report", "layers"}, pos < Len(prompt)
  PROVE  ThisEnd \in pos + 1 .. Len(prompt)
<1>1. start \in Nat /\ pos \in Nat /\ Len(prompt) \in Nat
  BY DEF TInv, DataOK
<1>2. ChunkEnd(start, pos, Len(prompt)) \in pos + 1 .. Len(prompt)
  BY <1>1, ChunkEndBounds
<1> QED  BY <1>2 DEF ThisEnd

(* A range whose prompt fits in one chunk is read in one chunk. *)
LEMMA WholeEnd ==
  ASSUME TInv, pc = "layers", mode = "whole"
  PROVE  ThisEnd = Len(prompt)
<1>1. /\ start = 0 /\ pos = 0
      /\ Len(prompt) \in Nat /\ Len(prompt) <= PrefillCap
  BY DEF TInv, DataOK, RangeShape
<1>2. ChunkEnd(0, 0, Len(prompt)) =
        IF Len(prompt) - 0 < PrefillCap THEN Len(prompt) ELSE 0 + PrefillCap
  BY DEF ChunkEnd
<1> QED  BY <1>1, <1>2, SizesAssumption DEF ThisEnd

(* ds4_session_sync up to its first CUDA call. *)
LEMMA SyncStartTypes ==
  ASSUME TInv, Idle, NEW p \in Prompts, NEW who \in {"sync", "rewrite"},
         op' = who, saved' = saved, SyncStart(p, who)
  PROVE  TInv'
<1> USE DEF TInv
<1>1. p \in Seq(Token) /\ Len(p) \in Nat
  BY PromptsAssumption
<1>2. CASE SyncReject(p, who)
  BY <1>2 DEF SyncReject, Answer, Told, job, live, graph, DataOK, RangeShape
<1>3. CASE SyncCancelled(p, who)
  BY <1>3 DEF SyncCancelled, Answer, Told, job, live, graph, DataOK, RangeShape
<1>4. CASE SyncResume(p)
  <2>1. capture' \in CaptureType
    BY <1>4, NotedType DEF SyncResume, DataOK, CaptureType
  <2>2. Len(checkpoint) \in Nat /\ Len(checkpoint) <= Len(p) /\ 0 < Len(p)
    BY <1>1, <1>4 DEF SyncResume, LongSuffix, Suffix, Extends, StartsWith, DataOK
  <2> QED
    BY <1>1, <1>4, <2>1, <2>2
       DEF SyncResume, live, DataOK, Modes, RangeShape, CaptureType
<1>5. CASE SyncExtend(p)
  BY <1>1, <1>5 DEF SyncExtend, live, graph, DataOK, Modes, RangeShape
<1>6. CASE SyncCold(p, who)
  <2>1. capture' \in CaptureType /\ <<>> \in Seq(Token)
    BY <1>6, NoCaptureType, EmptySeq DEF SyncCold
  <2>2. p # <<>> => 0 < Len(p)
    BY <1>1, EmptySeq
  <2>3. CASE pc' = "report" /\ fed' = [l \in Layers |-> <<>>]
    <3>1. /\ checkpoint' = <<>> /\ valid' = FALSE /\ logits' = logits
          /\ prompt' = p /\ start' = 0 /\ pos' = 0 /\ il' = il /\ ret' = ret
          /\ mode' = IF PrefillCap < Len(p) THEN "cold" ELSE "whole"
          /\ 0 < Len(p)
      BY <1>6, <2>2, <2>3 DEF SyncCold, Accepts, Answer
    <3>2. fed' \in [Layers -> Frontier]
      BY <2>1, <2>3 DEF Frontier
    <3>3. DataOK'
      BY <1>1, <2>1, <2>3, <3>1, <3>2 DEF DataOK, Modes, CaptureType
    <3>4. RangeShape'
      BY <1>1, <2>3, <3>1, SizesAssumption DEF RangeShape
    <3> QED  BY <3>3, <3>4
  <2>4. CASE TornSome(fed, fed') /\ Answer(who, "error")
    BY <1>6, <2>1, <2>4, TornSomeType
       DEF SyncCold, Answer, Told, job, DataOK, RangeShape, CaptureType
  <2> QED  BY <1>6, <2>3, <2>4 DEF SyncCold
<1> QED  BY <1>2, <1>3, <1>4, <1>5, <1>6 DEF SyncStart

LEMMA TypesInit == Init => TInv
<1> SUFFICES ASSUME Init PROVE TInv
  OBVIOUS
<1>0. <<>> \in Seq(Token) /\ [l \in Layers |-> <<>>] \in [Layers -> Frontier]
  BY EmptySeq DEF Frontier
<1>1. capture \in CaptureType /\ logits \in Frontier /\ fed \in [Layers -> Frontier]
  BY <1>0, NoCaptureType DEF Init, Frontier
<1>2. il \in 1 .. NLayers + 1
  BY SizesAssumption DEF Init
<1>3. DataOK
  BY <1>0, <1>1, <1>2 DEF Init, DataOK, CaptureType, Modes
<1> QED  BY <1>3 DEF Init, TInv, RangeShape

(* One step, action by action. *)
LEMMA TypesStep == TInv /\ [Next]_vars => TInv'
<1> SUFFICES ASSUME TInv, [Next]_vars PROVE TInv'
  OBVIOUS
<1> USE DEF TInv
<1> DEFINE Ended == /\ pc' = "idle" /\ prompt' = <<>> /\ mode' = "none"
                    /\ start' = 0 /\ pos' = 0 /\ il' = 1 /\ op' = op
                    /\ ret' \in {"ok", "error", "interrupted"}
<1>0. ASSUME NEW what \in {"ok", "error", "interrupted"}, Return(what) PROVE Ended
  BY <1>0 DEF Return, Told
<1>e. ASSUME Ended, saved' = saved,
             fed' \in [Layers -> Frontier], logits' \in Frontier,
             checkpoint' \in Seq(Token), valid' \in BOOLEAN,
             capture' \in CaptureType
      PROVE  TInv'
  BY <1>e, EmptySeq, SizesAssumption
     DEF DataOK, Modes, RangeShape, CaptureType
<1>t. /\ fed \in [Layers -> Frontier] /\ logits \in Frontier
      /\ checkpoint \in Seq(Token) /\ valid \in BOOLEAN
      /\ capture \in CaptureType /\ prompt \in Seq(Token)
  BY DEF DataOK, CaptureType
<1>1. ASSUME NEW p \in Prompts, SyncCall(p) PROVE TInv'
  BY <1>1, SyncStartTypes DEF SyncCall
<1>2. ASSUME NEW p \in Prompts, NEW common \in 0 .. CtxSize, RewriteCall(p, common)
      PROVE  TInv'
  <2>1. CASE SyncStart(p, "rewrite")
    BY <1>2, <2>1, SyncStartTypes DEF RewriteCall
  <2>2. CASE pc' = "idle" /\ ret' \in {"rebuild", "error"} /\ UNCHANGED <<live, graph, job>>
    BY <1>2, <2>2 DEF RewriteCall, live, graph, job, DataOK, RangeShape
  <2> QED  BY <1>2, <2>1, <2>2 DEF RewriteCall, Answer, Told
<1>3. CASE RangeCancel
  <2>1. valid' \in BOOLEAN
    <3>1. CASE mode = "cold"
      BY <1>3, <3>1, Zenon DEF RangeCancel
    <3>2. CASE mode # "cold"
      BY <1>3, <1>t, <3>2, Zenon DEF RangeCancel
    <3> QED  BY <3>1, <3>2
  <2>2. Ended
    BY <1>0, <1>3 DEF RangeCancel
  <2> QED  BY <1>3, <1>e, <1>t, <2>1, <2>2 DEF RangeCancel, graph
<1>4. CASE ChunkBegin
  BY <1>4, NoCaptureType, SizesAssumption
     DEF ChunkBegin, live, DataOK, RangeShape, CaptureType
<1>5. CASE ChunkLayer
  <2>1. /\ pos \in Nat /\ ThisEnd \in pos + 1 .. Len(prompt) /\ pc = "layers"
    BY <1>5, ThisEndBounds DEF ChunkLayer, DataOK, RangeShape
  <2>2. FeedRange(fed[il], prompt, pos, ThisEnd) \in Frontier
    BY <1>5, <1>t, <2>1, FeedRangeType DEF ChunkLayer, DataOK, Layers
  <2>3. fed' \in [Layers -> Frontier]
    BY <1>5, <1>t, <2>2 DEF ChunkLayer
  <2> QED  BY <1>5, <2>3, SizesAssumption DEF ChunkLayer, live, DataOK, RangeShape
<1>6. CASE ChunkHead
  <2>1. ThisEnd \in pos + 1 .. Len(prompt) /\ pos \in Nat /\ start <= pos
    BY <1>6, ThisEndBounds DEF ChunkHead, DataOK, RangeShape
  <2>2. SubSeq(prompt, 1, ThisEnd) \in Seq(Token)
    BY <1>t, <2>1, PrefixType
  <2>3. Output(fed) \in Frontier
    BY <1>t, OutputType
  <2>4. capture' \in CaptureType
    BY <1>6, <2>2, CapturedType, NotedType DEF ChunkHead
  <2>5. DataOK'
    BY <1>6, <2>1, <2>2, <2>3, <2>4, SizesAssumption
       DEF ChunkHead, DataOK, CaptureType
  <2>6. RangeShape'
    BY <1>6, <2>1 DEF ChunkHead, InChunks, DataOK, RangeShape
  <2> QED  BY <2>5, <2>6
<1>7. CASE WholeHead
  <2>1. Output(fed) \in Frontier
    BY <1>t, OutputType
  <2>2. capture' \in CaptureType
    BY <1>7, <1>t, CapturedType, NotedType DEF WholeHead
  <2> QED  BY <1>0, <1>7, <1>e, <1>t, <2>1, <2>2 DEF WholeHead
<1>8. CASE RangeDone
  <2>1. capture' \in CaptureType
    BY <1>8, <1>t, NotedType DEF RangeDone
  <2> QED  BY <1>0, <1>8, <1>e, <1>t, <2>1 DEF RangeDone
<1>9. CASE RangeFault
  <2>1. fed' \in [Layers -> Frontier]
    BY <1>9, <1>t, TornSomeType DEF RangeFault, graph
  <2>2. logits' \in Frontier /\ capture' \in CaptureType
    BY <1>9, <1>t, NoCaptureType, CapturedType DEF RangeFault, graph, Frontier
  <2> QED  BY <1>0, <1>9, <1>e, <1>t, <2>1, <2>2 DEF RangeFault
<1>10. CASE ExtendToken
  <2>1. prompt[Len(checkpoint) + 1] \in Token
    BY <1>10, <1>t, ElementOfSeq DEF ExtendToken, Behind
  <2>2. Decoded(prompt[Len(checkpoint) + 1])
    BY <1>10 DEF ExtendToken
  <2>3. DataOK'
    BY <1>10, <2>1, <2>2, DecodedType DEF ExtendToken, job, DataOK, CaptureType
  <2> QED  BY <1>10, <2>3 DEF ExtendToken, job, RangeShape
<1>11. CASE ExtendCancel
  BY <1>0, <1>11, <1>e, <1>t DEF ExtendCancel, live, graph
<1>12. CASE ExtendFault
  BY <1>0, <1>12, <1>e, DecodeFailedType DEF ExtendFault
<1>13. CASE ExtendDone
  BY <1>0, <1>13, <1>e, <1>t DEF ExtendDone, live, graph
<1>14. ASSUME NEW t \in Token, Eval(t) PROVE TInv'
  BY <1>14, DecodedType
     DEF Eval, Immediate, Answer, Told, job, DataOK, RangeShape, CaptureType
<1>15. CASE EvalFault
  BY <1>15, DecodeFailedType
     DEF EvalFault, Immediate, Answer, Told, job, DataOK, RangeShape, CaptureType
<1>16. CASE Invalidate
  BY <1>16, NoCaptureType, EmptySeq
     DEF Invalidate, Forget, Immediate, Answer, Told, job, DataOK, RangeShape,
         CaptureType
<1>17. ASSUME NEW n \in Rewinds, Rewind(n) PROVE TInv'
  <2>1. SubSeq(checkpoint, 1, n) \in Seq(Token)
    BY <1>17, <1>t, FaultsAssumption, PrefixType DEF Rewind
  <2> QED
    BY <1>17, <2>1, NoCaptureType
       DEF Rewind, Idle, job, DataOK, RangeShape, CaptureType
<1>18. CASE SavePayload
  <2>1. saved' \in Payload
    BY <1>18, <1>t DEF SavePayload, Payload
  <2> QED  BY <1>18, <2>1 DEF SavePayload, live, graph, job, DataOK, RangeShape
<1>19. CASE LoadPayload
  <2>1. saved \in Payload
    BY <1>19 DEF LoadPayload, DataOK
  <2> QED
    BY <1>19, <2>1, NoCaptureType
       DEF LoadPayload, Immediate, Answer, Told, job, Payload, DataOK, RangeShape,
           CaptureType
<1>20. CASE LoadFault
  <2>1. saved \in Payload
    BY <1>20 DEF LoadFault, DataOK
  <2>2. /\ fed' \in [Layers -> Frontier] /\ logits' \in Frontier
        /\ checkpoint' \in Seq(Token) /\ valid' \in BOOLEAN
        /\ capture' \in CaptureType
    BY <1>20, <1>t, <2>1, TornSomeType, NoCaptureType
       DEF LoadFault, live, graph, Payload, Frontier
  <2> QED  BY <1>20, <2>2 DEF LoadFault, job, DataOK, RangeShape, CaptureType
<1>21. CASE LoadAbandon
  BY <1>21, NoCaptureType, EmptySeq
     DEF LoadAbandon, Forget, job, DataOK, RangeShape, CaptureType
<1>22. CASE UNCHANGED vars
  BY <1>22 DEF vars, live, graph, job, DataOK, RangeShape
<1> QED
  BY <1>1, <1>2, <1>3, <1>4, <1>5, <1>6, <1>7, <1>8, <1>9, <1>10, <1>11, <1>12,
     <1>13, <1>14, <1>15, <1>16, <1>17, <1>18, <1>19, <1>20, <1>21, <1>22
     DEF Next, SyncStep, RangeStep, ExtendStep, Call

(* The names of the calls and of their stages. *)
Named ==
  /\ pc \in {"idle", "report", "layers", "extend", "loadfailed"}
  /\ op \in {"create", "sync", "rewrite", "eval", "invalidate", "rewind", "load"}

LEMMA NamedStep == Named /\ [Next]_vars => Named'
<1> SUFFICES ASSUME Named, [Next]_vars PROVE Named'
  OBVIOUS
<1> USE DEF Named
<1>1. ASSUME NEW p, NEW who \in {"sync", "rewrite"}, op' = who, SyncStart(p, who) PROVE Named'
  BY <1>1 DEF SyncStart, SyncReject, SyncCancelled, SyncResume, SyncExtend, SyncCold, Answer
<1>2. ASSUME NEW p, SyncCall(p) PROVE Named'
  BY <1>1, <1>2 DEF SyncCall
<1>3. ASSUME NEW p, NEW common, RewriteCall(p, common) PROVE Named'
  BY <1>1, <1>3 DEF RewriteCall, Answer
<1>4. CASE SyncStep
  BY <1>4
     DEF SyncStep, RangeStep, ExtendStep, RangeCancel, ChunkBegin, ChunkLayer, ChunkHead, WholeHead,
         RangeDone, RangeFault, ExtendToken, ExtendCancel, ExtendFault, ExtendDone, Return
<1>5. ASSUME \/ \E t \in Token : Eval(t)
             \/ EvalFault \/ Invalidate \/ (\E n \in Rewinds : Rewind(n))
             \/ SavePayload \/ LoadPayload \/ LoadFault \/ LoadAbandon \/ UNCHANGED vars
      PROVE  Named'
  BY <1>5
     DEF Eval, EvalFault, Invalidate, Rewind, SavePayload, LoadPayload, LoadFault, LoadAbandon,
         Immediate, Answer, vars
<1> QED  BY <1>2, <1>3, <1>4, <1>5 DEF Next, Call

(* Every variable keeps its type, whatever fails and whoever calls. *)
THEOREM Types == Spec => []TypeOK
<1>1. Init => Named
  BY DEF Init, Named
<1>2. TInv /\ Named => TypeOK
  BY DEF TInv, DataOK, Named, TypeOK
<1> QED  BY <1>1, <1>2, TypesInit, TypesStep, NamedStep, PTL DEF Spec

-----------------------------------------------------------------------------
(* The frontier invariant *)

(* FrontierMatches says nothing of the state while a chunk is computed, of *)
(* the layers that are ahead, nor of a prompt of which only a prefix is    *)
(* live: IInv adds those, and that a saved payload matches, which is what  *)
(* a load relies on.                                                       *)

(* What a valid session stands at. *)
At(s) == (\A l \in Layers : fed[l] = s) /\ logits = s

LEMMA StartFrontier ==
  ASSUME TInv, IInv, Idle, NEW p \in Prompts, NEW who \in {"sync", "rewrite"},
         saved' = saved, SyncStart(p, who)
  PROVE  IInv'
<1> USE DEF IInv
<1>1. p \in Seq(Token) /\ checkpoint \in Seq(Token)
  BY PromptsAssumption DEF TInv, DataOK
<1>2. CASE Answer(who, "error") /\ UNCHANGED <<live, graph>>
  BY <1>2 DEF Answer, Told, live, graph, Idle, RangeFrontier, ExtendFrontier,
              OkValid, FrontierMatches, SavedPayloadSound
<1>3. CASE Answer(who, "interrupted") /\ UNCHANGED <<live, graph>>
  BY <1>3 DEF Answer, Told, live, graph, Idle, RangeFrontier, ExtendFrontier,
              OkValid, FrontierMatches, SavedPayloadSound
<1>4. CASE SyncResume(p)
  <2>1. /\ valid /\ StartsWith(p, checkpoint) /\ UNCHANGED <<live, fed, logits>>
        /\ prompt' = p /\ mode' = "resume" /\ pc' = "report"
        /\ pos' = Len(checkpoint)
    BY <1>4 DEF SyncResume, Extends
  <2>2. At(checkpoint) /\ checkpoint = SubSeq(p, 1, Len(checkpoint))
    BY <2>1 DEF FrontierMatches, Idle, At, StartsWith
  <2>3. RangeFrontier'
    BY <2>1, <2>2 DEF RangeFrontier, Upto, At, live
  <2> QED
    BY <2>1, <2>2, <2>3 DEF live, At, Idle, ExtendFrontier, OkValid, FrontierMatches,
                             SavedPayloadSound
<1>5. CASE SyncExtend(p)
  BY <1>5 DEF SyncExtend, Extends, live, graph, Idle, RangeFrontier, ExtendFrontier,
              OkValid, FrontierMatches, SavedPayloadSound
<1>6. CASE SyncCold(p, who)
  <2>1. checkpoint' = <<>> /\ valid' = FALSE
    BY <1>6 DEF SyncCold
  <2>2. SubSeq(p, 1, 0) = <<>>
    BY SubSeqEmpty
  <2>3. CASE /\ fed' = [l \in Layers |-> <<>>] /\ pc' = "report"
             /\ prompt' = p /\ pos' = 0 /\ mode' \in {"cold", "whole"}
    BY <2>1, <2>2, <2>3
       DEF RangeFrontier, Upto, Idle, ExtendFrontier, OkValid, FrontierMatches,
           SavedPayloadSound
  <2>4. CASE pc' = "idle" /\ ret' = "error"
    BY <2>1, <2>4
       DEF RangeFrontier, ExtendFrontier, OkValid, FrontierMatches, SavedPayloadSound
  <2> QED  BY <1>6, <2>3, <2>4 DEF SyncCold, Answer, Told
<1> QED
  BY <1>2, <1>3, <1>4, <1>5, <1>6 DEF SyncStart, SyncReject, SyncCancelled

LEMMA DecodedFrontier ==
  ASSUME TInv, NEW t \in Token, valid, At(checkpoint), Decoded(t)
  PROVE  /\ valid' /\ At(checkpoint)'
         /\ checkpoint' = Append(checkpoint, t)
<1> DEFINE after == [l \in Layers |-> FeedOne(fed[l], t, Len(checkpoint))]
<1>1. \A l \in Layers : after[l] = Append(checkpoint, t)
  BY FeedOneExact DEF At, TInv, DataOK
<1>2. Output(after) = Append(checkpoint, t)
  BY <1>1, OutputExact
<1>3. /\ fed' = after /\ logits' = Output(after) /\ valid'
      /\ checkpoint' = Append(checkpoint, t)
  BY DEF Decoded
<1> QED  BY <1>1, <1>2, <1>3 DEF At

LEMMA FrontierStep ==
  ASSUME Sound, TInv, IInv, [Next]_vars
  PROVE  IInv'
<1> USE DEF IInv
<1>s. (Idle \/ pc = "report" \/ pc = "extend") /\ valid => At(checkpoint)
  BY DEF FrontierMatches, At, Idle
<1>p. saved' = saved => SavedPayloadSound'
  BY DEF SavedPayloadSound
<1>i. ASSUME pc' \in {"idle", "loadfailed"}, pc' = "idle" /\ valid' => At(checkpoint)',
             pc' = "idle" /\ ret' = "ok" => valid', saved' = saved
      PROVE  IInv'
  BY <1>i, <1>p DEF At, Idle, RangeFrontier, ExtendFrontier, OkValid, FrontierMatches
<1>b. valid \in BOOLEAN /\ checkpoint \in Seq(Token) /\ Len(checkpoint) \in Nat
      /\ prompt \in Seq(Token) /\ Len(prompt) \in Nat /\ pos \in Nat /\ start \in Nat
  BY DEF TInv, DataOK
<1>1. ASSUME NEW p \in Prompts, SyncCall(p) PROVE IInv'
  BY <1>1, StartFrontier DEF SyncCall
<1>2. ASSUME NEW p \in Prompts, NEW common \in 0 .. CtxSize, RewriteCall(p, common)
      PROVE  IInv'
  <2>1. CASE SyncStart(p, "rewrite")
    BY <1>2, <2>1, StartFrontier DEF RewriteCall
  <2>2. CASE pc' = "idle" /\ ret' # "ok" /\ UNCHANGED <<live, graph>>
    BY <1>2, <1>s, <1>i, <2>2 DEF RewriteCall, live, graph, At
  <2> QED  BY <1>2, <2>1, <2>2 DEF RewriteCall, Answer, Told
<1>3. CASE RangeCancel
  <2>1. CASE mode = "cold"
    <3>1. valid <=> pos > 0
      BY <1>3, <2>1 DEF RangeCancel, RangeFrontier
    <3>2. checkpoint = SubSeq(prompt, 1, pos)
      BY <1>3, <2>1 DEF RangeCancel, RangeFrontier, Upto
    <3>3. pos = 0 => checkpoint = <<>>
      BY <3>2, SubSeqEmpty
    <3>4. valid' => checkpoint # <<>>
      BY <1>3, <2>1, Zenon DEF RangeCancel
    <3>5. valid' => valid
      BY <1>b, <3>1, <3>3, <3>4
    <3> QED  BY <1>3, <1>s, <1>i, <3>5 DEF RangeCancel, Return, Told, graph, At
  <2>2. CASE mode = "resume"
    <3>1. valid' => valid
      BY <1>3, <2>2, Zenon DEF RangeCancel
    <3> QED  BY <1>3, <1>s, <1>i, <3>1 DEF RangeCancel, Return, Told, graph, At
  <2> QED  BY <1>3, <2>1, <2>2 DEF RangeCancel, InChunks
<1>4. CASE ChunkBegin
  <2>1. RangeFrontier'
    BY <1>4, SizesAssumption
       DEF ChunkBegin, RangeFrontier, live, Layers, Upto, ThisEnd
  <2> QED
    BY <1>4, <1>p, <2>1 DEF ChunkBegin, Idle, ExtendFrontier, OkValid, FrontierMatches
<1>5. CASE ChunkLayer
  <2>1. /\ pos \in Nat /\ ThisEnd \in pos + 1 .. Len(prompt) /\ pc = "layers"
        /\ prompt \in Seq(Token) /\ il \in Layers
    BY <1>5, ThisEndBounds DEF ChunkLayer, TInv, DataOK, RangeShape, Layers
  <2>2. fed[il] = SubSeq(prompt, 1, pos)
    BY <1>5, <2>1 DEF RangeFrontier, Upto, Layers
  <2>3. FeedRange(fed[il], prompt, pos, ThisEnd) = SubSeq(prompt, 1, ThisEnd)
    BY <2>1, <2>2, FeedRangeExact
  <2>4. /\ fed' = [fed EXCEPT ![il] = SubSeq(prompt, 1, ThisEnd)]
        /\ il' = il + 1 /\ UNCHANGED <<live, prompt, mode, start, pos, pc, saved>>
        /\ ThisEnd' = ThisEnd
    BY <1>5, <2>3 DEF ChunkLayer, ThisEnd
  <2>5. ASSUME NEW l \in Layers
        PROVE  fed'[l] = SubSeq(prompt, 1, IF l < il' THEN ThisEnd ELSE pos)
    <3>1. fed[l] = SubSeq(prompt, 1, IF l < il THEN ThisEnd ELSE pos)
      BY <2>1 DEF RangeFrontier, Upto
    <3>2. fed \in [Layers -> Frontier] /\ l \in Int /\ il \in Int
      BY <2>1 DEF TInv, DataOK, Layers
    <3>3. CASE l = il
      <4>1. fed'[l] = SubSeq(prompt, 1, ThisEnd)
        BY <2>4, <3>2, <3>3, Zenon
      <4>2. l < il'
        BY <2>4, <3>2, <3>3
      <4> QED  BY <4>1, <4>2
    <3>4. CASE l # il
      <4>1. fed'[l] = fed[l] /\ (l < il' <=> l < il)
        BY <2>4, <3>2, <3>4
      <4> QED  BY <3>1, <4>1
    <3> QED  BY <3>3, <3>4
  <2>6. RangeFrontier'
    BY <2>1, <2>4, <2>5 DEF RangeFrontier, Upto, live
  <2> QED  BY <1>p, <2>1, <2>4, <2>6 DEF Idle, ExtendFrontier, OkValid, FrontierMatches
<1>6. CASE ChunkHead
  <2>1. /\ ThisEnd \in pos + 1 .. Len(prompt) /\ pos \in Nat /\ il = NLayers + 1
    BY <1>6, ThisEndBounds DEF ChunkHead, TInv, DataOK, RangeShape
  <2>2. \A l \in Layers : fed[l] = SubSeq(prompt, 1, ThisEnd)
    BY <1>6, <2>1, SizesAssumption DEF ChunkHead, RangeFrontier, Upto, Layers
  <2>3. Output(fed) = SubSeq(prompt, 1, ThisEnd)
    BY <2>2, OutputExact
  <2>4. /\ fed' = fed /\ logits' = Output(fed) /\ pos' = ThisEnd /\ pc' = "report"
        /\ checkpoint' = SubSeq(prompt, 1, ThisEnd) /\ valid' = TRUE
        /\ UNCHANGED <<prompt, mode, saved>> /\ mode \in {"resume", "cold"}
    BY <1>6 DEF ChunkHead, InChunks
  <2>5. RangeFrontier'
    BY <2>1, <2>2, <2>4 DEF RangeFrontier, Upto
  <2> QED
    BY <1>p, <2>2, <2>3, <2>4, <2>5 DEF Idle, ExtendFrontier, OkValid, FrontierMatches
<1>7. CASE WholeHead
  <2>1. pc = "layers" /\ il = NLayers + 1 /\ ThisEnd = Len(prompt)
    BY <1>7, WholeEnd DEF WholeHead
  <2>2. \A l \in Layers : fed[l] = SubSeq(prompt, 1, Len(prompt))
    BY <2>1, SizesAssumption DEF RangeFrontier, Upto, Layers
  <2>3. SubSeq(prompt, 1, Len(prompt)) = prompt
    BY SubSeqFull DEF TInv, DataOK
  <2>4. Output(fed) = prompt
    BY <2>2, <2>3, OutputExact
  <2> QED  BY <1>7, <1>i, <2>2, <2>3, <2>4 DEF WholeHead, Return, At
<1>8. CASE RangeDone
  <2>1. SubSeq(prompt, 1, Len(prompt)) = prompt
    BY <1>b, SubSeqFull
  <2>2. pos = Len(prompt) /\ 0 < Len(prompt) /\ mode \in {"resume", "cold"}
    BY <1>8, <1>b DEF RangeDone, TInv, RangeShape
  <2>3. valid /\ checkpoint = prompt
    BY <1>8, <1>b, <2>1, <2>2 DEF RangeDone, RangeFrontier, Upto
  <2> QED  BY <1>8, <1>s, <1>i, <2>3 DEF RangeDone, Return, At
<1>9. CASE RangeFault
  <2>1. mode \in {"resume", "whole"} /\ (mode = "whole" => ~valid)
    BY <1>9 DEF RangeFault, Fails, Sound, TInv, RangeShape, RangeFrontier
  <2>2. ~valid'
    BY <1>9, <2>1 DEF RangeFault
  <2> QED  BY <1>9, <1>i, <2>2 DEF RangeFault, Return, Told
<1>10. CASE ExtendToken
  <2>1. /\ valid /\ At(checkpoint) /\ StartsWith(prompt, checkpoint)
        /\ Len(checkpoint) \in Nat /\ Len(checkpoint) < Len(prompt)
        /\ prompt \in Seq(Token) /\ checkpoint \in Seq(Token)
    BY <1>10, <1>s DEF ExtendToken, Behind, ExtendFrontier, TInv, DataOK
  <2>2. prompt[Len(checkpoint) + 1] \in Token
    BY <2>1, ElementOfSeq
  <2>3. /\ valid' /\ At(checkpoint)'
        /\ checkpoint' = Append(checkpoint, prompt[Len(checkpoint) + 1])
    BY <1>10, <2>1, <2>2, DecodedFrontier DEF ExtendToken
  <2>4. checkpoint' = SubSeq(prompt, 1, Len(checkpoint) + 1)
    BY <2>1, <2>3, PrefixNext DEF StartsWith
  <2>5. StartsWith(prompt, checkpoint')
    BY <2>1, <2>4, PrefixType DEF StartsWith
  <2> QED
    BY <1>10, <1>p, <2>3, <2>5
       DEF ExtendToken, job, At, Idle, RangeFrontier, ExtendFrontier, OkValid,
           FrontierMatches
<1>11. CASE ExtendCancel
  BY <1>11, <1>s, <1>i DEF ExtendCancel, Return, Told, live, graph, At
<1>12. CASE ExtendFault
  BY <1>12, <1>i DEF ExtendFault, DecodeFailed, Return, Told
<1>13. CASE ExtendDone
  BY <1>13, <1>s, <1>i DEF ExtendDone, ExtendFrontier, Return, live, graph, At
<1>14. ASSUME NEW t \in Token, Eval(t) PROVE IInv'
  <2>1. valid /\ At(checkpoint)
    BY <1>14, <1>s DEF Eval, MayEval, OkValid
  <2>2. valid' /\ At(checkpoint)'
    BY <1>14, <2>1, DecodedFrontier DEF Eval
  <2> QED  BY <1>14, <1>i, <2>2 DEF Eval, Immediate, Answer
<1>15. CASE EvalFault
  BY <1>15, <1>i DEF EvalFault, DecodeFailed, Immediate, Answer, Told
<1>16. CASE Invalidate
  BY <1>16, <1>i DEF Invalidate, Forget, Immediate, Answer, Told
<1>17. ASSUME NEW n \in Rewinds, Rewind(n) PROVE IInv'
  BY <1>17 DEF Rewind, Sound
<1>18. CASE SavePayload
  <2>1. SavedPayloadSound'
    BY <1>18, <1>s DEF SavePayload, Idle, At, SavedPayloadSound
  <2> QED
    BY <1>18, <2>1
       DEF SavePayload, live, graph, job, RangeFrontier, ExtendFrontier,
           OkValid, Idle, FrontierMatches, Upto, ThisEnd
<1>19. CASE LoadPayload
  BY <1>19, <1>i DEF LoadPayload, SavedPayloadSound, Immediate, Answer, At
<1>20. CASE LoadFault
  BY <1>20, <1>i DEF LoadFault
<1>21. CASE LoadAbandon
  BY <1>21, <1>i DEF LoadAbandon, Forget
<1>22. CASE UNCHANGED vars
  BY <1>22 DEF vars, live, graph, job, RangeFrontier, ExtendFrontier,
               OkValid, Idle, FrontierMatches, SavedPayloadSound, Upto, ThisEnd
<1> QED
  BY <1>1, <1>2, <1>3, <1>4, <1>5, <1>6, <1>7, <1>8, <1>9, <1>10, <1>11, <1>12,
     <1>13, <1>14, <1>15, <1>16, <1>17, <1>18, <1>19, <1>20, <1>21, <1>22
     DEF Next, SyncStep, RangeStep, ExtendStep, Call

(* The invariant of the session, from which the rest follows. *)
THEOREM SessionInvariant == Sound /\ Spec => [](TInv /\ IInv)
<1>1. Init => IInv
  BY DEF Init, IInv, Idle, RangeFrontier, ExtendFrontier, OkValid, FrontierMatches,
         SavedPayloadSound
<1>2. Sound /\ TInv /\ IInv /\ [Next]_vars => IInv'
  BY FrontierStep
<1>3. CASE Sound
  BY <1>1, <1>2, <1>3, TypesInit, TypesStep, PTL DEF Spec
<1> QED  BY <1>3

(* Whenever the program has control, a valid checkpoint is exactly what    *)
(* every layer and the logits stand at.                                    *)
THEOREM Frontiers == Sound /\ Spec => []FrontierMatches
<1>1. IInv => FrontierMatches
  BY DEF IInv
<1> QED  BY <1>1, SessionInvariant, PTL

(* Every payload that was saved is one of the tokens it is filed under.    *)
THEOREM SavedPayloads == Sound /\ Spec => []SavedPayloadSound
<1>1. IInv => SavedPayloadSound
  BY DEF IInv
<1> QED  BY <1>1, SessionInvariant, PTL

-----------------------------------------------------------------------------
(* What a sync that returns has done *)

LEMMA PrefixStarts ==
  ASSUME NEW s \in Seq(Token), NEW n \in 0 .. Len(s)
  PROVE  StartsWith(s, SubSeq(s, 1, n))
BY PrefixType DEF StartsWith

(* Only three steps return ok, and each returns at the end of the prompt. *)
LEMMA OkStep ==
  ASSUME TInv, IInv, [Next]_vars, SyncReturns, ret' = "ok"
  PROVE  valid' /\ checkpoint' = prompt
<1> USE DEF IInv
<1>1. /\ prompt \in Seq(Token) /\ checkpoint \in Seq(Token)
      /\ Len(prompt) \in Nat /\ Len(checkpoint) \in Nat
  BY DEF TInv, DataOK
<1>2. CASE WholeHead
  BY <1>2 DEF WholeHead
<1>3. CASE RangeDone
  BY <1>3 DEF RangeDone
<1>4. CASE ExtendDone
  <2>1. /\ valid /\ StartsWith(prompt, checkpoint) /\ Len(prompt) <= Len(checkpoint)
        /\ UNCHANGED live
    BY <1>1, <1>4 DEF ExtendDone, Behind, ExtendFrontier
  <2>2. checkpoint = SubSeq(prompt, 1, Len(prompt))
    BY <1>1, <2>1 DEF StartsWith
  <2> QED  BY <1>1, <2>1, <2>2, SubSeqFull DEF live
<1>5. CASE RangeCancel \/ RangeFault \/ ExtendCancel \/ ExtendFault
  BY <1>5 DEF RangeCancel, RangeFault, ExtendCancel, ExtendFault, Return, Told
<1>6. CASE ChunkBegin \/ ChunkLayer \/ ChunkHead \/ ExtendToken
  BY <1>6 DEF SyncReturns, Running, ChunkBegin, ChunkLayer, ChunkHead, ExtendToken
<1>7. CASE Call \/ UNCHANGED vars
  BY <1>7 DEF SyncReturns, Running, Call, SyncCall, RewriteCall, Idle, Eval, EvalFault,
              MayEval, Invalidate, Rewind, SavePayload, LoadPayload, LoadFault,
              LoadAbandon, vars
<1> QED
  BY <1>2, <1>3, <1>4, <1>5, <1>6, <1>7 DEF Next, SyncStep, RangeStep, ExtendStep

(* An interrupted sync keeps a prefix of its prompt, or nothing. *)
LEMMA InterruptedStep ==
  ASSUME TInv, IInv, [Next]_vars, SyncReturns, ret' = "interrupted"
  PROVE  IF valid' THEN StartsWith(prompt, checkpoint') ELSE checkpoint' = <<>>
<1> USE DEF IInv
<1>1. /\ prompt \in Seq(Token) /\ checkpoint \in Seq(Token)
      /\ Len(prompt) \in Nat /\ pos \in Nat /\ valid \in BOOLEAN
  BY DEF TInv, DataOK
<1>2. CASE RangeCancel
  <2>1. /\ checkpoint' = checkpoint /\ checkpoint = SubSeq(prompt, 1, pos)
        /\ pos \in 0 .. Len(prompt)
    BY <1>1, <1>2 DEF RangeCancel, InChunks, RangeFrontier, Upto, TInv, RangeShape
  <2>2. StartsWith(prompt, checkpoint')
    BY <1>1, <2>1, PrefixStarts
  <2>3. CASE mode = "cold"
    <3>1. ~valid' => checkpoint = <<>>
      BY <1>2, <2>3, Zenon DEF RangeCancel
    <3> QED  BY <2>1, <2>2, <3>1
  <2>4. CASE mode = "resume"
    <3>1. valid'
      BY <1>2, <2>4, Zenon DEF RangeCancel, RangeFrontier
    <3> QED  BY <2>2, <3>1
  <2> QED  BY <1>2, <2>3, <2>4 DEF RangeCancel, InChunks
<1>3. CASE ExtendCancel
  BY <1>3 DEF ExtendCancel, ExtendFrontier, live
<1>4. CASE RangeDone \/ WholeHead \/ RangeFault \/ ExtendDone \/ ExtendFault
  BY <1>4 DEF RangeDone, WholeHead, RangeFault, ExtendDone, ExtendFault, Return, Told
<1>5. CASE ChunkBegin \/ ChunkLayer \/ ChunkHead \/ ExtendToken
  BY <1>5 DEF SyncReturns, Running, ChunkBegin, ChunkLayer, ChunkHead, ExtendToken
<1>6. CASE Call \/ UNCHANGED vars
  BY <1>6 DEF SyncReturns, Running, Call, SyncCall, RewriteCall, Idle, Eval, EvalFault,
              MayEval, Invalidate, Rewind, SavePayload, LoadPayload, LoadFault,
              LoadAbandon, vars
<1> QED
  BY <1>2, <1>3, <1>4, <1>5, <1>6 DEF Next, SyncStep, RangeStep, ExtendStep

(* A sync that says ok has the prompt live, and an interrupted one leaves  *)
(* a prefix of it, or nothing.                                             *)
THEOREM Outcomes == Sound /\ Spec => SyncOutcome
<1>1. TInv /\ IInv /\ [Next]_vars =>
        [SyncReturns =>
           /\ ret' = "ok" => valid' /\ checkpoint' = prompt
           /\ ret' = "interrupted" =>
                IF valid' THEN StartsWith(prompt, checkpoint')
                          ELSE checkpoint' = <<>>]_vars
  BY OkStep, InterruptedStep
<1> QED  BY <1>1, SessionInvariant, PTL DEF Spec, SyncOutcome

(* The next token after a sync that says ok is sampled from the logits of  *)
(* its prompt, and every layer stands there too.                           *)
THEOREM Outputs == Sound /\ Spec => SyncedOutput
<1>1. ASSUME Sound, TInv, IInv, [Next]_vars, SyncReturns, ret' = "ok"
      PROVE  logits' = prompt /\ \A l \in Layers : fed'[l] = prompt
  BY <1>1, FrontierStep, OkStep DEF IInv, FrontierMatches, SyncReturns
<1>2. Sound /\ TInv /\ IInv /\ [Next]_vars =>
        [SyncReturns /\ ret' = "ok" =>
           logits' = prompt /\ \A l \in Layers : fed'[l] = prompt]_vars
  BY <1>1
<1>3. CASE Sound
  BY <1>2, <1>3, SessionInvariant, PTL DEF Spec, SyncedOutput
<1> QED  BY <1>3

-----------------------------------------------------------------------------
(* The captured target row *)

(* Validity is given back only by what also captures the row again or      *)
(* forgets it, so it matters not what length the row was noted for.        *)
RowOfEnd == valid /\ capture.ok => capture.seq = checkpoint

LEMMA NotedRow ==
  ASSUME NEW c \in CaptureType, NEW s \in Seq(Token), Noted(c, s).ok
  PROVE  c.ok /\ Noted(c, s).seq = c.seq
BY DEF Noted, NoCapture, CaptureType

LEMMA DecodedRow ==
  ASSUME TInv, NEW t \in Token, valid, At(checkpoint), Decoded(t)
  PROVE  RowOfEnd'
<1> DEFINE after == [l \in Layers |-> FeedOne(fed[l], t, Len(checkpoint))]
           row == [ok |-> Dspark, len |-> 0, seq |-> IF Dspark THEN Output(after) ELSE <<>>]
<1>1. Output(after) = Append(checkpoint, t)
  <2>1. \A l \in Layers : after[l] = Append(checkpoint, t)
    BY FeedOneExact DEF At, TInv, DataOK
  <2> QED  BY <2>1, OutputExact
<1>2. checkpoint' = Append(checkpoint, t) /\ capture' = Noted(row, checkpoint')
  BY DEF Decoded
<1>3. checkpoint' \in Seq(Token) /\ row \in CaptureType
  <2>1. Append(checkpoint, t) \in Seq(Token)
    BY AppendProperties DEF TInv, DataOK
  <2>2. row.seq \in Frontier
    BY <1>1, <2>1, EmptySeq DEF Frontier
  <2> QED  BY <1>2, <2>1, <2>2, FaultsAssumption DEF CaptureType
<1>4. ASSUME capture'.ok PROVE capture'.seq = checkpoint'
  <2>1. row.ok /\ capture'.seq = row.seq
    BY <1>2, <1>3, <1>4, NotedRow
  <2> QED  BY <1>1, <1>2, <2>1
<1> QED  BY <1>4 DEF RowOfEnd

LEMMA RowStep ==
  ASSUME Sound, TInv, IInv, RowOfEnd, [Next]_vars
  PROVE  RowOfEnd'
<1> USE DEF IInv
<1>t. capture \in CaptureType /\ checkpoint \in Seq(Token) /\ prompt \in Seq(Token)
      /\ valid \in BOOLEAN /\ Captured \in CaptureType
  BY CapturedType DEF TInv, DataOK, CaptureType
<1>n. ASSUME capture' = NoCapture \/ ~valid' PROVE RowOfEnd'
  BY <1>n DEF RowOfEnd, NoCapture
<1>k. ASSUME capture' = capture, checkpoint' = checkpoint, valid' => valid PROVE RowOfEnd'
  BY <1>k DEF RowOfEnd
<1>1. ASSUME NEW p, NEW who, SyncStart(p, who) PROVE RowOfEnd'
  <2>1. CASE SyncResume(p)
    <3>1. ASSUME capture'.ok PROVE capture.ok /\ capture'.seq = capture.seq
      BY <1>t, <2>1, <3>1, NotedRow DEF SyncResume
    <3> QED  BY <2>1, <3>1 DEF SyncResume, live, RowOfEnd
  <2>2. CASE SyncCold(p, who)
    BY <1>n, <2>2 DEF SyncCold
  <2> QED
    BY <1>1, <1>k, <2>1, <2>2 DEF SyncStart, SyncReject, SyncCancelled, SyncExtend, live, graph
<1>2. ASSUME NEW p, NEW common, SyncCall(p) \/ RewriteCall(p, common) PROVE RowOfEnd'
  BY <1>1, <1>2, <1>k DEF SyncCall, RewriteCall, live, graph
<1>3. CASE ChunkHead
  <2>1. ThisEnd \in pos + 1 .. Len(prompt) /\ pos \in Nat /\ il = NLayers + 1
    BY <1>3, ThisEndBounds DEF ChunkHead, TInv, DataOK, RangeShape
  <2>2. \A l \in Layers : fed[l] = SubSeq(prompt, 1, ThisEnd)
    BY <1>3, <2>1, SizesAssumption DEF ChunkHead, RangeFrontier, Upto, Layers
  <2>3. Output(fed) = checkpoint' /\ capture' = Noted(Captured, checkpoint')
    BY <1>3, <2>2, OutputExact DEF ChunkHead
  <2>4. checkpoint' \in Seq(Token)
    BY <1>3, <1>t, <2>1, PrefixType DEF ChunkHead
  <2>5. ASSUME capture'.ok PROVE capture'.seq = checkpoint'
    <3>1. Captured.ok /\ capture'.seq = Captured.seq
      BY <1>t, <2>3, <2>4, <2>5, NotedRow
    <3> QED  BY <2>3, <3>1 DEF Captured
  <2> QED  BY <2>5 DEF RowOfEnd
<1>4. CASE WholeHead
  <2>1. \A l \in Layers : fed[l] = SubSeq(prompt, 1, Len(prompt))
    BY <1>4, WholeEnd, SizesAssumption DEF WholeHead, RangeFrontier, Upto, Layers
  <2>2. Output(fed) = checkpoint' /\ capture' = Noted(Captured, prompt) /\ checkpoint' = prompt
    BY <1>4, <1>t, <2>1, OutputExact, SubSeqFull DEF WholeHead
  <2>3. ASSUME capture'.ok PROVE capture'.seq = checkpoint'
    <3>1. Captured.ok /\ capture'.seq = Captured.seq
      BY <1>t, <2>2, <2>3, NotedRow
    <3> QED  BY <2>2, <3>1 DEF Captured
  <2> QED  BY <2>3 DEF RowOfEnd
<1>5. CASE RangeDone
  <2>1. valid /\ checkpoint = prompt
    <3>1. SubSeq(prompt, 1, Len(prompt)) = prompt
      BY <1>t, SubSeqFull
    <3>2. pos = Len(prompt) /\ 0 < Len(prompt) /\ mode \in {"resume", "cold"}
      BY <1>5, <1>t DEF RangeDone, TInv, RangeShape
    <3> QED  BY <1>5, <1>t, <3>1, <3>2 DEF RangeDone, RangeFrontier, Upto
  <2>2. ASSUME capture'.ok PROVE capture.ok /\ capture'.seq = capture.seq
    BY <1>5, <1>t, <2>2, NotedRow DEF RangeDone
  <2> QED  BY <1>5, <2>1, <2>2 DEF RangeDone, RowOfEnd
<1>6. CASE RangeCancel
  <2>1. valid' => valid
    <3>1. CASE mode = "cold"
      <4>1. pos = 0 => checkpoint = <<>>
        BY <1>6, <3>1, SubSeqEmpty DEF RangeCancel, RangeFrontier, Upto
      <4>2. valid' => checkpoint # <<>>
        BY <1>6, <3>1, Zenon DEF RangeCancel
      <4>3. valid <=> pos > 0
        BY <1>6, <3>1 DEF RangeCancel, RangeFrontier
      <4>4. pos \in Nat
        BY DEF TInv, DataOK
      <4> QED  BY <4>1, <4>2, <4>3, <4>4
    <3>2. CASE mode # "cold"
      BY <1>6, <3>2, Zenon DEF RangeCancel
    <3> QED  BY <3>1, <3>2
  <2> QED  BY <1>6, <1>k, <2>1 DEF RangeCancel, graph
<1>7. CASE RangeFault
  <2>1. mode \in {"resume", "whole"} /\ (mode = "whole" => ~valid)
    BY <1>7 DEF RangeFault, Fails, Sound, TInv, RangeShape, RangeFrontier
  <2> QED  BY <1>7, <1>n, <2>1 DEF RangeFault
<1>8. CASE ChunkBegin
  BY <1>8, <1>n DEF ChunkBegin
<1>9. CASE ChunkLayer \/ ExtendCancel \/ ExtendDone \/ SavePayload \/ UNCHANGED vars
  BY <1>9, <1>k DEF ChunkLayer, ExtendCancel, ExtendDone, SavePayload, vars, live, graph
<1>10. CASE ExtendToken
  <2>1. valid /\ At(checkpoint) /\ prompt[Len(checkpoint) + 1] \in Token
    <3>1. Len(checkpoint) \in Nat /\ Len(checkpoint) < Len(prompt)
      BY <1>10, <1>t DEF ExtendToken, Behind
    <3> QED  BY <1>10, <1>t, <3>1, ElementOfSeq DEF ExtendToken, ExtendFrontier, FrontierMatches, At
  <2> QED  BY <1>10, <2>1, DecodedRow DEF ExtendToken
<1>11. ASSUME NEW t \in Token, Eval(t) PROVE RowOfEnd'
  <2>1. valid /\ At(checkpoint)
    BY <1>11 DEF Eval, MayEval, OkValid, Idle, FrontierMatches, At
  <2> QED  BY <1>11, <2>1, DecodedRow DEF Eval
<1>12. CASE ExtendFault \/ EvalFault
  BY <1>12, <1>n DEF ExtendFault, EvalFault, DecodeFailed
<1>13. CASE Invalidate \/ LoadAbandon \/ LoadPayload \/ \E n \in Rewinds : Rewind(n)
  BY <1>13, <1>n DEF Invalidate, LoadAbandon, Forget, LoadPayload, Rewind
<1>14. CASE LoadFault
  BY <1>14, <1>n, <1>k DEF LoadFault, live, graph
<1> QED
  BY <1>2, <1>3, <1>4, <1>5, <1>6, <1>7, <1>8, <1>9, <1>10, <1>11, <1>12, <1>13, <1>14
     DEF Next, SyncStep, RangeStep, ExtendStep, Call

(* The row DSpark drafts from is the one of the last live token whenever   *)
(* its length says so.                                                     *)
THEOREM Captures == Sound /\ Spec => []CaptureSound
<1>1. Init => RowOfEnd
  BY DEF Init, RowOfEnd
<1>2. Sound /\ TInv /\ IInv /\ RowOfEnd /\ [Next]_vars => RowOfEnd'
  BY RowStep
<1>3. RowOfEnd => CaptureSound
  BY DEF RowOfEnd, CaptureSound
<1>4. CASE Sound
  BY <1>1, <1>2, <1>3, <1>4, SessionInvariant, PTL DEF Spec
<1> QED  BY <1>4

-----------------------------------------------------------------------------
(* What is durable stays so: of every call and every failure, with no      *)
(* assumption on the environment.                                          *)

Durable == pc \in {"report", "layers"} => checkpoint = Upto(pos)

LEMMA DurableStep ==
  ASSUME TInv, Durable, [Next]_vars
  PROVE  Durable'
<1>t. checkpoint \in Seq(Token) /\ prompt \in Seq(Token)
  BY DEF TInv, DataOK
<1>i. ASSUME pc' \in {"idle", "extend", "loadfailed"} PROVE Durable'
  BY <1>i DEF Durable
<1>k. ASSUME UNCHANGED <<checkpoint, prompt, pos>>, pc \in {"report", "layers"} \/ pc' = pc PROVE Durable'
  BY <1>k DEF Durable, Upto
<1>1. ASSUME NEW p \in Prompts, NEW who, Idle, SyncStart(p, who) PROVE Durable'
  <2>1. CASE SyncResume(p)
    <3>1. checkpoint = SubSeq(p, 1, Len(checkpoint))
      BY <2>1 DEF SyncResume, Extends, StartsWith
    <3> QED  BY <2>1, <3>1 DEF SyncResume, live, Durable, Upto
  <2>2. CASE SyncCold(p, who)
    <3>1. SubSeq(p, 1, 0) = <<>>
      BY SubSeqEmpty
    <3> QED  BY <2>2, <3>1, <1>i DEF SyncCold, Answer, Durable, Upto
  <2> QED
    BY <1>1, <1>i, <2>1, <2>2 DEF SyncStart, SyncReject, SyncCancelled, SyncExtend, Answer
<1>2. ASSUME NEW p \in Prompts, NEW common, SyncCall(p) \/ RewriteCall(p, common) PROVE Durable'
  BY <1>1, <1>2, <1>i DEF SyncCall, RewriteCall, Answer
<1>3. CASE ChunkHead
  BY <1>3 DEF ChunkHead, Durable, Upto
<1>4. CASE ChunkBegin \/ ChunkLayer
  BY <1>4, <1>k DEF ChunkBegin, ChunkLayer, live
<1>5. CASE RangeCancel \/ WholeHead \/ RangeDone \/ RangeFault
  BY <1>5, <1>i DEF RangeCancel, WholeHead, RangeDone, RangeFault, Return
<1>6. CASE ExtendToken
  BY <1>6, <1>i DEF ExtendToken
<1>7. CASE ExtendCancel \/ ExtendFault \/ ExtendDone
  BY <1>7, <1>i DEF ExtendCancel, ExtendFault, ExtendDone, Return
<1>8. CASE SavePayload \/ UNCHANGED vars
  BY <1>8, <1>k DEF SavePayload, vars, live, job
<1>9. ASSUME \/ \E t \in Token : Eval(t)
             \/ EvalFault \/ Invalidate \/ (\E n \in Rewinds : Rewind(n))
             \/ LoadPayload \/ LoadFault \/ LoadAbandon
      PROVE  Durable'
  BY <1>9, <1>i DEF Eval, EvalFault, MayEval, Invalidate, Rewind, LoadPayload, LoadFault, LoadAbandon,
                    Immediate, Answer, Idle
<1> QED
  BY <1>2, <1>3, <1>4, <1>5, <1>6, <1>7, <1>8, <1>9 DEF Next, SyncStep, RangeStep, ExtendStep, Call

LEMMA OfItself ==
  ASSUME NEW s \in Seq(Token)
  PROVE  StartsWith(s, s)
BY SubSeqFull DEF StartsWith

LEMMA AppendStarts ==
  ASSUME NEW s \in Seq(Token), NEW t \in Token
  PROVE  StartsWith(Append(s, t), s)
<1>1. Append(s, t) \in Seq(Token) /\ Len(Append(s, t)) = Len(s) + 1 /\ Len(s) \in Nat
  BY AppendProperties
<1>2. SubSeq(Append(s, t), 1, Len(s)) = s
  BY <1>1, AppendProperties, SubSeqProperties
<1> QED  BY <1>1, <1>2 DEF StartsWith

LEMMA PrefixStartsWith ==
  ASSUME NEW s \in Seq(Token), NEW m \in Nat, NEW n \in 0 .. Len(s), m <= n
  PROVE  StartsWith(SubSeq(s, 1, n), SubSeq(s, 1, m))
<1>1. /\ Len(SubSeq(s, 1, n)) = n /\ Len(SubSeq(s, 1, m)) = m
      /\ SubSeq(s, 1, n) \in Seq(Token)
  BY PrefixType
<1>2. SubSeq(SubSeq(s, 1, n), 1, m) = SubSeq(s, 1, m)
  BY <1>1, SubSeqOfSubSeq
<1> QED  BY <1>1, <1>2 DEF StartsWith

(* While a sync runs its checkpoint only grows, whatever fails and whoever *)
(* cancels.                                                                *)
THEOREM Progress == Spec => ProgressKept
<1>1. Init => Durable
  BY DEF Init, Durable
<1>2. TInv /\ Durable /\ [Next]_vars => Durable'
  BY DurableStep
<1>3. ASSUME TInv, Durable, [Next]_vars, Running PROVE StartsWith(checkpoint', checkpoint)
  <2>t. checkpoint \in Seq(Token) /\ prompt \in Seq(Token) /\ pos \in Nat
    BY <1>3 DEF TInv, DataOK
  <2>1. CASE checkpoint' = checkpoint
    BY <2>t, <2>1, OfItself
  <2>2. CASE ChunkHead
    <3>1. ThisEnd \in pos + 1 .. Len(prompt)
      BY <1>3, <2>2, ThisEndBounds DEF ChunkHead, TInv, RangeShape
    <3>2. /\ checkpoint' = SubSeq(prompt, 1, ThisEnd) /\ checkpoint = SubSeq(prompt, 1, pos)
      BY <1>3, <2>2 DEF ChunkHead, Durable, Upto
    <3>3. ThisEnd \in 0 .. Len(prompt) /\ pos <= ThisEnd
      BY <2>t, <3>1
    <3> QED  BY <2>t, <3>2, <3>3, PrefixStartsWith
  <2>3. CASE WholeHead \/ RangeDone
    <3>1. checkpoint' = prompt /\ checkpoint = SubSeq(prompt, 1, pos) /\ pos \in 0 .. Len(prompt)
      BY <1>3, <2>3 DEF WholeHead, RangeDone, Durable, Upto, TInv, DataOK, RangeShape
    <3> QED  BY <2>t, <3>1, PrefixStarts
  <2>4. CASE ExtendToken
    <3>1. prompt[Len(checkpoint) + 1] \in Token
      BY <2>4, <2>t, ElementOfSeq DEF ExtendToken, Behind
    <3> QED  BY <2>4, <2>t, <3>1, AppendStarts DEF ExtendToken, Decoded
  <2>5. ASSUME \/ RangeCancel \/ ChunkBegin \/ ChunkLayer \/ RangeFault
               \/ ExtendCancel \/ ExtendFault \/ ExtendDone \/ SavePayload \/ UNCHANGED vars
        PROVE  checkpoint' = checkpoint
    BY <2>5 DEF RangeCancel, ChunkBegin, ChunkLayer, RangeFault, ExtendCancel, ExtendFault,
                ExtendDone, DecodeFailed, SavePayload, vars, live
  <2>6. ASSUME \/ \E p \in Prompts : SyncCall(p) \/ \E common \in 0 .. CtxSize : RewriteCall(p, common)
               \/ \E t \in Token : Eval(t)
               \/ EvalFault \/ Invalidate \/ (\E n \in Rewinds : Rewind(n))
               \/ LoadPayload \/ LoadFault \/ LoadAbandon
        PROVE  FALSE
    BY <1>3, <2>6 DEF Running, Idle, SyncCall, RewriteCall, Eval, EvalFault, MayEval, Invalidate,
                      Rewind, LoadPayload, LoadFault, LoadAbandon
  <2> QED
    BY <1>3, <2>1, <2>2, <2>3, <2>4, <2>5, <2>6 DEF Next, SyncStep, RangeStep, ExtendStep, Call
<1>4. TInv /\ Durable /\ [Next]_vars => [Running => StartsWith(checkpoint', checkpoint)]_vars
  BY <1>3
<1> QED  BY <1>1, <1>2, <1>4, TypesInit, TypesStep, PTL DEF Spec, ProgressKept

-----------------------------------------------------------------------------
(* The schedule of the chunks, in a ring that holds a chunk. *)

(* A multiple stays one when the modulus is added to it. *)
LEMMA NextMultiple ==
  ASSUME NEW a \in Nat, NEW m \in Nat \ {0}
  PROVE  (a + (m - (a % m))) % m = 0
BY SMT

(* A chunk that starts on a multiple of the cap, or anywhere in a resumed  *)
(* range, ends with its range or on a multiple, at most a cap further on.  *)
LEMMA ChunkEndAligned ==
  ASSUME PrefillCap <= RawCap,
         NEW s \in Nat, NEW p \in Nat, NEW e \in Nat, p < e,
         s = 0 => p % PrefillCap = 0
  PROVE  /\ ChunkEnd(s, p, e) - p <= PrefillCap
         /\ ChunkEnd(s, p, e) = e \/ ChunkEnd(s, p, e) % PrefillCap = 0
<1> DEFINE r == p % PrefillCap
           local == IF s # 0 /\ r # 0 /\ PrefillCap - r < PrefillCap
                    THEN PrefillCap - r ELSE PrefillCap
<1>1. PrefillCap \in Nat \ {0} /\ r \in 0 .. PrefillCap - 1
  BY SizesAssumption
<1>2. ChunkEnd(s, p, e) = IF e - p < local THEN e ELSE p + local
  BY SizesAssumption DEF ChunkEnd
<1>3. local = PrefillCap - r
  BY <1>1
<1>4. (p + local) % PrefillCap = 0
  BY <1>1, <1>3, NextMultiple
<1>5. local \in Nat /\ local <= PrefillCap
  BY <1>1, <1>3
<1> HIDE DEF local
<1>6. CASE e - p < local
  <2>1. ChunkEnd(s, p, e) = e
    BY <1>2, <1>6
  <2> QED  BY <1>1, <1>5, <1>6, <2>1
<1>7. CASE ~(e - p < local)
  <2>1. ChunkEnd(s, p, e) = p + local
    BY <1>2, <1>7
  <2>2. ChunkEnd(s, p, e) - p = local
    BY <1>5, <2>1
  <2> QED  BY <1>4, <1>5, <2>1, <2>2
<1> QED  BY <1>6, <1>7

(* A cold range stands on a multiple of the cap until it is done. *)
Aligned ==
  pc \in {"report", "layers"} /\ start = 0 =>
    pos % PrefillCap = 0 \/ pos = Len(prompt)

(* Where the chunk that runs will end. *)
LEMMA ThisEndAligned ==
  ASSUME PrefillCap <= RawCap, TInv, Aligned, pc = "layers"
  PROVE  /\ ThisEnd - pos <= PrefillCap
         /\ ThisEnd = Len(prompt) \/ ThisEnd % PrefillCap = 0
<1>1. start \in Nat /\ pos \in Nat /\ Len(prompt) \in Nat /\ pos < Len(prompt)
  BY DEF TInv, DataOK, RangeShape
<1>2. start = 0 => pos % PrefillCap = 0
  BY <1>1 DEF Aligned
<1> QED  BY <1>1, <1>2, ChunkEndAligned DEF ThisEnd

LEMMA AlignedStep ==
  ASSUME PrefillCap <= RawCap, TInv, Aligned, [Next]_vars
  PROVE  Aligned'
<1>i. ASSUME pc' \in {"idle", "extend", "loadfailed"} PROVE Aligned'
  BY <1>i DEF Aligned
<1>k. ASSUME UNCHANGED <<prompt, start, pos>>, pc \in {"report", "layers"} \/ pc' = pc
      PROVE  Aligned'
  BY <1>k DEF Aligned
<1>1. ASSUME NEW p \in Prompts, NEW who, Idle, SyncStart(p, who) PROVE Aligned'
  <2>1. 0 % PrefillCap = 0
    BY SizesAssumption
  <2>2. CASE SyncResume(p)
    BY <2>1, <2>2 DEF SyncResume, Aligned
  <2>3. CASE SyncCold(p, who)
    BY <2>1, <2>3, <1>i DEF SyncCold, Answer, Aligned
  <2> QED
    BY <1>1, <1>i, <2>2, <2>3 DEF SyncStart, SyncReject, SyncCancelled, SyncExtend, Answer
<1>2. ASSUME NEW p \in Prompts, NEW common, SyncCall(p) \/ RewriteCall(p, common) PROVE Aligned'
  BY <1>1, <1>2, <1>i DEF SyncCall, RewriteCall, Answer
<1>3. CASE ChunkHead
  <2>1. ThisEnd = Len(prompt) \/ ThisEnd % PrefillCap = 0
    BY <1>3, ThisEndAligned DEF ChunkHead
  <2> QED  BY <1>3, <2>1 DEF ChunkHead, Aligned
<1>4. CASE ChunkBegin \/ ChunkLayer
  BY <1>4, <1>k DEF ChunkBegin, ChunkLayer
<1>5. CASE RangeCancel \/ WholeHead \/ RangeDone \/ RangeFault
  BY <1>5, <1>i DEF RangeCancel, WholeHead, RangeDone, RangeFault, Return
<1>6. CASE ExtendStep
  BY <1>6, <1>i DEF ExtendStep, ExtendToken, ExtendCancel, ExtendFault, ExtendDone, Return
<1>7. CASE SavePayload \/ UNCHANGED vars
  BY <1>7, <1>k DEF SavePayload, vars, job
<1>8. ASSUME \/ \E t \in Token : Eval(t)
             \/ EvalFault \/ Invalidate \/ (\E n \in Rewinds : Rewind(n))
             \/ LoadPayload \/ LoadFault \/ LoadAbandon
      PROVE  Aligned'
  BY <1>8, <1>i DEF Eval, EvalFault, MayEval, Invalidate, Rewind, LoadPayload, LoadFault, LoadAbandon,
                    Immediate, Answer, Idle
<1> QED
  BY <1>2, <1>3, <1>4, <1>5, <1>6, <1>7, <1>8 DEF Next, SyncStep, RangeStep, Call

(* Every chunk advances, by at most the cap, and ends with its prompt or on *)
(* a multiple of the cap, wherever a resumed prefill starts and whatever    *)
(* fails (metal_graph_prefill_chunked_range), in a ring that holds a chunk. *)
(* In a smaller one a resumed chunk is cut to the ring and may end between. *)
THEOREM Schedule == PrefillCap <= RawCap /\ Spec => []ChunkSchedule
<1>1. Init => Aligned
  BY DEF Init, Aligned
<1>2. PrefillCap <= RawCap /\ TInv /\ Aligned /\ [Next]_vars => Aligned'
  BY AlignedStep
<1>3. PrefillCap <= RawCap /\ TInv /\ Aligned => ChunkSchedule
  <2> SUFFICES ASSUME PrefillCap <= RawCap, TInv, Aligned, pc = "layers"
               PROVE  /\ pos < ThisEnd
                      /\ ThisEnd - pos <= PrefillCap
                      /\ ThisEnd = Len(prompt) \/ ThisEnd % PrefillCap = 0
    BY DEF ChunkSchedule
  <2>1. pos \in Nat /\ Len(prompt) \in Nat /\ pos < Len(prompt)
    BY DEF TInv, DataOK, RangeShape
  <2>2. ThisEnd \in pos + 1 .. Len(prompt)
    BY <2>1, ThisEndBounds
  <2> QED  BY <2>1, <2>2, ThisEndAligned
<1>4. CASE PrefillCap <= RawCap
  BY <1>1, <1>2, <1>3, <1>4, TypesInit, TypesStep, PTL DEF Spec
<1> QED  BY <1>4


-----------------------------------------------------------------------------
(* What a call has accepted: a first token, and n of the drafts d. *)
Took(a, d, n) == <<a>> \o SubSeq(d, 1, n)

LEMMA TookIs ==
  ASSUME NEW a \in Token, NEW d \in Seq(Token), NEW n \in 0 .. Len(d)
  PROVE  /\ Took(a, d, n) \in Seq(Token) /\ Len(Took(a, d, n)) = n + 1
         /\ Took(a, d, n)[1] = a
         /\ \A i \in 2 .. n + 1 : Took(a, d, n)[i] = d[i - 1]
<1>1. <<a>> \in Seq(Token) /\ Len(<<a>>) = 1 /\ <<a>>[1] = a
  OBVIOUS
<1>2. SubSeq(d, 1, n) \in Seq(Token) /\ Len(SubSeq(d, 1, n)) = n
  BY PrefixType
<1>3. \A i \in 1 .. n : SubSeq(d, 1, n)[i] = d[i]
  <2>1. \A i \in 1 .. n : d[i] \in Token
    BY ElementOfSeq
  <2> QED  BY <2>1, SubSeqProperties
<1>4. \A i \in 1 .. n + 1 :
        (<<a>> \o SubSeq(d, 1, n))[i] = IF i <= 1 THEN <<a>>[i] ELSE SubSeq(d, 1, n)[i - 1]
  BY <1>1, <1>2, ConcatProperties
<1>5. <<a>> \o SubSeq(d, 1, n) \in Seq(Token) /\ Len(<<a>> \o SubSeq(d, 1, n)) = n + 1
  BY <1>1, <1>2, ConcatProperties
<1>6. ASSUME NEW i \in 2 .. n + 1 PROVE (<<a>> \o SubSeq(d, 1, n))[i] = d[i - 1]
  <2>1. i \in 1 .. n + 1 /\ ~(i <= 1) /\ i - 1 \in 1 .. n
    OBVIOUS
  <2> QED  BY <1>3, <1>4, <2>1
<1>7. (<<a>> \o SubSeq(d, 1, n))[1] = a
  <2>1. 1 \in 1 .. n + 1
    OBVIOUS
  <2> QED  BY <1>1, <1>4, <2>1
<1> QED  BY <1>5, <1>6, <1>7 DEF Took

LEMMA TookNone ==
  ASSUME NEW a \in Token, NEW d \in Seq(Token)
  PROVE  Took(a, d, 0) = <<a>>
<1>1. SubSeq(d, 1, 0) = <<>>
  BY SubSeqEmpty
<1>2. <<a>> \in Seq(Token)
  OBVIOUS
<1> QED  BY <1>1, <1>2, ConcatEmptySeq DEF Took

LEMMA TookThen ==
  ASSUME NEW a \in Token, NEW d \in Seq(Token), NEW n \in 0 .. Len(d)
  PROVE  Took(a, d, 0) \o SubSeq(d, 1, n) = Took(a, d, n)
BY TookNone DEF Took

LEMMA TookOfPrefix ==
  ASSUME NEW a, NEW d \in Seq(Token), NEW m \in 0 .. Len(d), NEW n \in 0 .. m
  PROVE  Took(a, SubSeq(d, 1, m), n) = Took(a, d, n)
<1>1. SubSeq(SubSeq(d, 1, m), 1, n) = SubSeq(d, 1, n)
  <2>1. CASE n = 0
    BY <2>1, SubSeqEmpty
  <2>2. CASE n # 0
    BY <2>2, PrefixType, SubSeqOfSubSeq
  <2> QED  BY <2>1, <2>2
<1> QED  BY <1>1 DEF Took

LEMMA TookNext ==
  ASSUME NEW a \in Token, NEW d \in Seq(Token), NEW n \in Nat, n < Len(d)
  PROVE  Append(Took(a, d, n), d[n + 1]) = Took(a, d, n + 1)
<1>1. d[n + 1] \in Token
  BY ElementOfSeq
<1>2. SubSeq(d, 1, n) \in Seq(Token) /\ <<a>> \in Seq(Token) /\ <<d[n + 1]>> \in Seq(Token)
  BY <1>1, PrefixType
<1>3. Append(SubSeq(d, 1, n), d[n + 1]) = SubSeq(d, 1, n + 1)
  BY PrefixNext
<1>4. SubSeq(d, 1, n) \o <<d[n + 1]>> = SubSeq(d, 1, n + 1)
  BY <1>1, <1>2, <1>3, AppendIsConcat
<1>5. (<<a>> \o SubSeq(d, 1, n)) \o <<d[n + 1]>> = <<a>> \o SubSeq(d, 1, n + 1)
  BY <1>2, <1>4, ConcatAssociative
<1>6. <<a>> \o SubSeq(d, 1, n) \in Seq(Token)
  BY <1>2, ConcatProperties
<1> QED  BY <1>1, <1>5, <1>6, AppendIsConcat DEF Took

LEMMA TookPrefix ==
  ASSUME NEW a \in Token, NEW d \in Seq(Token), NEW n \in 0 .. Len(d), NEW i \in 1 .. n + 1
  PROVE  SubSeq(Took(a, d, n), 1, i) = Took(a, d, i - 1)
<1>1. i - 1 \in 0 .. Len(d) /\ i \in 0 .. n + 1
  OBVIOUS
<1> DEFINE s == SubSeq(Took(a, d, n), 1, i)
           t == Took(a, d, i - 1)
<1>2. Took(a, d, n) \in Seq(Token) /\ Len(Took(a, d, n)) = n + 1
  BY TookIs
<1>3. s \in Seq(Token) /\ Len(s) = i
  BY <1>1, <1>2, PrefixType
<1>4. t \in Seq(Token) /\ Len(t) = i
  BY <1>1, TookIs
<1>5. ASSUME NEW j \in 1 .. i PROVE s[j] = t[j]
  <2>1. s[j] = Took(a, d, n)[j]
    <3>1. \A k \in 1 .. i : Took(a, d, n)[k] \in Token
      BY <1>2, ElementOfSeq
    <3>2. \A k \in 1 .. i - 1 + 1 : s[k] = Took(a, d, n)[1 + k - 1]
      BY <3>1, SubSeqProperties
    <3> QED  BY <3>2
  <2>2. CASE j = 1
    BY <1>1, <2>1, <2>2, TookIs
  <2>3. CASE j # 1
    <3>1. j \in 2 .. n + 1 /\ j \in 2 .. (i - 1) + 1
      BY <2>3
    <3>2. Took(a, d, n)[j] = d[j - 1]
      BY <3>1, TookIs
    <3>3. Took(a, d, i - 1)[j] = d[j - 1]
      BY <1>1, <3>1, TookIs
    <3> QED  BY <2>1, <3>2, <3>3
  <2> QED  BY <2>2, <2>3
<1> QED
  <2> HIDE DEF s, t
  <2>1. s = t
    BY <1>3, <1>4, <1>5, SeqEqual
  <2> QED  BY <2>1 DEF s, t

LEMMA ThreePieces ==
  \A s, t, u \in Seq(Token) : (s \o t) \o u = s \o (t \o u)
BY ConcatAssociative

(* The layers of a verifier that starts after the first token end after    *)
(* as many drafts as they were fed.                                        *)
LEMMA FeedDrafts ==
  ASSUME NEW b \in Seq(Token), NEW a \in Token, NEW d \in Seq(Token), NEW n \in 0 .. Len(d)
  PROVE  FeedRange(b \o Took(a, d, 0), b \o <<a>> \o d, Len(b) + 1, Len(b) + 1 + n)
           = b \o Took(a, d, n)
<1> DEFINE s == b \o <<a>>
           line == s \o d
<1>1. /\ <<a>> \in Seq(Token) /\ Len(<<a>>) = 1 /\ s \in Seq(Token) /\ Len(s) = Len(b) + 1
      /\ line \in Seq(Token) /\ Len(line) = Len(b) + 1 + Len(d) /\ Len(b) \in Nat
  BY ConcatProperties
<1>2. SubSeq(line, 1, Len(b) + 1) = s
  BY <1>1, SubSeqOfConcat1, SubSeqFull
<1>3. s = b \o Took(a, d, 0)
  BY TookNone
<1>4. FeedRange(s, line, Len(b) + 1, Len(b) + 1 + n) = SubSeq(line, 1, Len(b) + 1 + n)
  <2>1. Len(b) + 1 \in Nat /\ Len(b) + 1 + n \in Nat
        /\ Len(b) + 1 <= Len(b) + 1 + n /\ Len(b) + 1 + n <= Len(line)
    BY <1>1
  <2> HIDE DEF line, s
  <2> QED  BY <1>1, <1>2, <2>1, FeedRangeExact
<1>5. SubSeq(line, 1, Len(b) + 1 + n) = s \o SubSeq(d, 1, n)
  <2>1. CASE n = 0
    <3>1. SubSeq(d, 1, 0) = <<>>
      BY SubSeqEmpty
    <3> HIDE DEF line, s
    <3>2. s \o <<>> = s
      BY <1>1, ConcatEmptySeq
    <3>3. Len(b) + 1 + n = Len(b) + 1
      BY <1>1, <2>1
    <3> QED  BY <1>2, <2>1, <3>1, <3>2, <3>3
  <2>2. CASE n # 0
    <3>1. SubSeq(line, Len(b) + 2, Len(b) + 1 + n) = SubSeq(d, 1, n)
      <4>1. /\ Len(b) + 2 \in Len(s) + 1 .. Len(s) + Len(d)
            /\ Len(b) + 1 + n \in Len(s) + 1 .. Len(s) + Len(d)
            /\ (Len(b) + 2) - Len(s) = 1 /\ (Len(b) + 1 + n) - Len(s) = n
        BY <1>1, <2>2
      <4> HIDE DEF s
      <4> QED  BY <1>1, <4>1, SubSeqOfConcat2
    <3>2. SubSeq(line, 1, Len(b) + 1) \o SubSeq(line, Len(b) + 1 + 1, Len(b) + 1 + n)
            = SubSeq(line, 1, Len(b) + 1 + n)
      <4>1. /\ 1 \in 1 .. Len(line) + 1 /\ Len(b) + 1 \in 1 - 1 .. Len(line)
            /\ Len(b) + 1 + n \in Len(b) + 1 .. Len(line)
        BY <1>1
      <4> HIDE DEF line
      <4> QED  BY <1>1, <4>1, ConcatAdjacentSubSeq
    <3>3. Len(b) + 1 + 1 = Len(b) + 2
      BY <1>1
    <3> HIDE DEF line, s
    <3> QED  BY <1>2, <3>1, <3>2, <3>3
  <2> QED  BY <2>1, <2>2
<1>6. s \o SubSeq(d, 1, n) = b \o Took(a, d, n)
  <2>1. SubSeq(d, 1, n) \in Seq(Token)
    BY PrefixType
  <2>2. <<a>> \in Seq(Token)
    OBVIOUS
  <2>3. (b \o <<a>>) \o SubSeq(d, 1, n) = b \o (<<a>> \o SubSeq(d, 1, n))
    BY <2>1, <2>2, ThreePieces, Zenon
  <2> QED  BY <2>3 DEF Took
<1> QED
  <2> HIDE DEF s, line
  <2>1. FeedRange(s, line, Len(b) + 1, Len(b) + 1 + n) = b \o Took(a, d, n)
    BY <1>4, <1>5, <1>6
  <2> QED  BY <1>3, <2>1 DEF s, line

-----------------------------------------------------------------------------
(* Drafts *)

LEMMA LeastExists ==
  ASSUME NEW S \in SUBSET Nat, S # {}
  PROVE  \E n \in S : \A m \in S : n <= m
<1>1. PICK n \in S : \A m \in S : ~(<<m, n>> \in OpToRel(<, Nat))
  BY NatLessThanWellFounded, WFMin
<1>2. \A m \in S : ~(m < n)
  BY <1>1 DEF OpToRel
<1> QED  BY <1>2

(* Eos, if at all, at the end. *)
Clean(d) == \A i \in 1 .. Len(d) - 1 : d[i] # Eos

LEMMA UptoEosClean ==
  ASSUME NEW d \in Seq(Token), Clean(d)
  PROVE  UptoEos(d) = d
<1> DEFINE ends == {i \in 1 .. Len(d) : d[i] = Eos}
           first == CHOOSE i \in ends : \A j \in ends : i <= j
<1>1. \A i \in ends : i = Len(d)
  BY DEF Clean
<1>2. ends # {} => first = Len(d)
  <2>1. \A i, j \in ends : i <= j
    BY <1>1
  <2> HIDE DEF ends
  <2> QED  BY <1>1, <2>1
<1> QED  BY <1>2, SubSeqFull DEF UptoEos

LEMMA CleanPrefix ==
  ASSUME NEW d \in Seq(Token), Clean(d), NEW n \in 0 .. Len(d)
  PROVE  Clean(SubSeq(d, 1, n))
<1>1. SubSeq(d, 1, n) \in Seq(Token) /\ Len(SubSeq(d, 1, n)) = n
  BY PrefixType
<1>2. \A i \in 1 .. n : d[i] \in Token
  BY ElementOfSeq
<1>3. \A i \in 1 .. n - 1 + 1 : SubSeq(d, 1, n)[i] = d[1 + i - 1]
  BY <1>2, SubSeqProperties
<1>4. \A i \in 1 .. n - 1 : SubSeq(d, 1, n)[i] = d[i]
  BY <1>3
<1> QED  BY <1>1, <1>4 DEF Clean

(* What the draft model may propose when it stops at Eos. *)
LEMMA DraftsClean ==
  ASSUME ~DraftPastEos, NEW d \in Drafts
  PROVE  d \in Seq(Token) /\ Len(d) \in 1 .. Block /\ Clean(d)
<1> DEFINE ends == {i \in 1 .. Len(d) : d[i] = Eos}
           first == CHOOSE i \in ends : \A j \in ends : i <= j
<1>1. d \in Seq(Token) /\ Len(d) \in 1 .. Block /\ UptoEos(d) = d
  BY SpecAssumption DEF Drafts
<1>2. CASE ends = {}
  BY <1>1, <1>2 DEF Clean
<1>3. CASE ends # {}
  <2>1. ends \in SUBSET Nat
    OBVIOUS
  <2>2. first \in ends /\ \A j \in ends : first <= j
    <3> HIDE DEF ends
    <3>1. \E i \in ends : \A j \in ends : i <= j
      BY <1>3, <2>1, LeastExists
    <3> QED  BY <3>1
  <2>3. SubSeq(d, 1, first) = d
    BY <1>1, <1>3 DEF UptoEos
  <2>4. first \in 1 .. Len(d)
    BY <2>2
  <2>5. Len(SubSeq(d, 1, first)) = first
    <3> HIDE DEF first
    <3>1. first \in 0 .. Len(d)
      BY <1>1, <2>4
    <3> QED  BY <1>1, <3>1, PrefixType
  <2>6. first = Len(d)
    BY <2>3, <2>5
  <2>7. ASSUME NEW i \in 1 .. Len(d) - 1 PROVE d[i] # Eos
    <3>1. i \in 1 .. Len(d) /\ ~(Len(d) <= i)
      BY <1>1
    <3> QED  BY <2>2, <2>6, <3>1
  <2> QED  BY <1>1, <2>7 DEF Clean
<1> QED  BY <1>2, <1>3

-----------------------------------------------------------------------------
(* The stages of a speculation *)

STypes ==
  /\ base \in Seq(Token) /\ accepted \in Seq(Token) /\ draft \in Seq(Token)
  /\ limit \in Nat /\ commit \in Nat
  /\ snap \in [Layers -> Frontier] /\ slots \in [1 .. Slots -> Frontier]

InSync == pc \in {"report", "layers", "extend", "loadfailed"}

(* The first token and n drafts, as accepted and behind the old checkpoint. *)
Kept(n) == Took(accepted[1], draft, n)
After(n) == base \o Kept(n)
Replayed == Len(draft) - commit

Calls ==
  /\ InSpec => op = "speculate" /\ valid /\ accepted # <<>>
  /\ InSync => op # "speculate"

(* There are drafts only while they are verified, no more than were asked  *)
(* for, and with room for one token behind them.                           *)
Fits ==
  /\ draft # <<>> => pc \in {"verify", "commit", "rollback", "replay"}
  /\ Clean(draft) /\ Len(draft) <= Block
  /\ InSpec => Len(draft) + 1 <= limit
  /\ draft # <<>> => Len(base) + 1 + Len(draft) < CtxSize

(* How far the two token lists of the session are, stage by stage. *)
Stages ==
  /\ pc \in {"propose", "verify", "commit", "rollback"} => accepted = Kept(0)
  /\ pc \in {"propose", "verify"} => checkpoint = After(0)
  /\ pc = "verify" => draft # <<>>
  /\ pc = "commit" => commit \in 1 .. Len(draft) /\ checkpoint = After(Len(draft))
  /\ pc = "rollback" => commit \in 0 .. Len(draft)
  /\ pc = "replay" => /\ commit \in 0 .. Len(draft)
                      /\ accepted = Kept(Replayed) /\ checkpoint = After(Replayed)

SInv == TInv /\ STypes /\ Calls /\ Fits /\ Stages /\ AcceptedIsLive

LEMMA FirstType ==
  ASSUME STypes, Calls, InSpec
  PROVE  accepted[1] \in Token /\ Len(draft) \in Nat /\ Len(base) \in Nat
<1>1. Len(accepted) \in Nat \ {0}
  BY EmptySeq DEF STypes, Calls
<1>2. 1 \in 1 .. Len(accepted)
  BY <1>1
<1> QED  BY <1>2, ElementOfSeq DEF STypes

LEMMA KeptIs ==
  ASSUME STypes, Calls, InSpec, NEW n \in 0 .. Len(draft)
  PROVE  /\ Kept(n) \in Seq(Token) /\ Len(Kept(n)) = n + 1 /\ Kept(n)[1] = accepted[1]
         /\ After(n) \in Seq(Token) /\ Len(After(n)) = Len(base) + 1 + n
<1>1. accepted[1] \in Token /\ draft \in Seq(Token) /\ base \in Seq(Token) /\ Len(base) \in Nat
  BY FirstType DEF STypes
<1>2. Kept(n) \in Seq(Token) /\ Len(Kept(n)) = n + 1 /\ Kept(n)[1] = accepted[1]
  BY <1>1, TookIs DEF Kept
<1>3. After(n) \in Seq(Token) /\ Len(After(n)) = Len(base) + Len(Kept(n))
  BY <1>1, <1>2, ConcatProperties DEF After
<1> QED  BY <1>1, <1>2, <1>3

(* Accepting drafts behind the first token. *)
LEMMA KeptThen ==
  ASSUME STypes, Calls, InSpec, accepted = Kept(0), NEW n \in 0 .. Len(draft)
  PROVE  /\ accepted \o SubSeq(draft, 1, n) = Kept(n)
         /\ base \o accepted \o SubSeq(draft, 1, n) = After(n)
<1>1. accepted[1] \in Token /\ draft \in Seq(Token) /\ base \in Seq(Token) /\ accepted \in Seq(Token)
  BY FirstType DEF STypes
<1>2. accepted \o SubSeq(draft, 1, n) = Kept(n)
  BY <1>1, TookThen DEF Kept
<1>3. SubSeq(draft, 1, n) \in Seq(Token)
  BY <1>1, PrefixType
<1>4. (base \o accepted) \o SubSeq(draft, 1, n) = base \o (accepted \o SubSeq(draft, 1, n))
  BY <1>1, <1>3, ThreePieces, Zenon
<1> QED  BY <1>2, <1>4 DEF After

(* What a speculation that stays in progress, or returns, needs of the new *)
(* state.                                                                  *)
LEMMA Returns ==
  ASSUME STypes, Calls, InSpec, Fits, NEW n \in 0 .. Len(draft),
         accepted' = Kept(n), checkpoint' = After(n), valid',
         limit' = limit, base' = base
  PROVE  AcceptedIsLive'
<1>1. Len(accepted') = n + 1 /\ Len(checkpoint') = Len(base) + 1 + n /\ Len(base) \in Nat
      /\ Len(draft) \in Nat /\ limit \in Nat
  BY KeptIs, FirstType DEF STypes
<1>2. n + 1 \in 1 .. limit
  BY <1>1 DEF Fits
<1>3. n + 1 > 1 => Len(base) + 1 + n < CtxSize
  <2>1. SUFFICES ASSUME n > 0 PROVE Len(base) + 1 + n < CtxSize
    BY <1>1
  <2>2. draft # <<>>
    BY <2>1, EmptySeq
  <2> QED  BY <1>1, <2>1, <2>2, SizesAssumption DEF Fits
<1> QED  BY <1>1, <1>2, <1>3 DEF AcceptedIsLive, After

LEMMA DataStep ==
  ASSUME TInv, UNCHANGED <<job, saved>>, pc' \notin {"report", "layers"}, ret' \in {ret, "ok", "error"},
         fed' \in [Layers -> Frontier], logits' \in Frontier, capture' \in CaptureType,
         checkpoint' \in Seq(Token), valid' \in BOOLEAN
  PROVE  TInv'
BY DEF TInv, DataOK, RangeShape, CaptureType, job

LEMMA LineType ==
  ASSUME STypes, Calls, InSpec
  PROVE  /\ base \o <<accepted[1]>> \o draft \in Seq(Token)
         /\ Len(base \o <<accepted[1]>> \o draft) = Len(base) + 1 + Len(draft)
<1>1. accepted[1] \in Token /\ draft \in Seq(Token) /\ base \in Seq(Token)
  BY FirstType DEF STypes
<1>2. <<accepted[1]>> \in Seq(Token) /\ Len(<<accepted[1]>>) = 1
  BY <1>1
<1>3. base \o <<accepted[1]>> \in Seq(Token) /\ Len(base \o <<accepted[1]>>) = Len(base) + 1
  BY <1>1, <1>2, ConcatProperties
<1> QED  BY <1>1, <1>3, ConcatProperties

LEMMA RowsType ==
  ASSUME STypes, Calls, InSpec, NEW n \in 0 .. Len(draft)
  PROVE  /\ [l \in Layers |-> AfterDrafts(l, n)] \in [Layers -> Frontier]
         /\ RowAfter(n) \in Frontier
<1> DEFINE line == base \o <<accepted[1]>> \o draft
<1>1. line \in Seq(Token) /\ Len(line) = Len(base) + 1 + Len(draft)
      /\ Len(base) \in Nat /\ Len(draft) \in Nat
  BY LineType, FirstType
<1>2. /\ Len(base) + 1 \in Nat /\ Len(base) + 1 + n \in Nat
      /\ Len(base) + 1 <= Len(base) + 1 + n /\ Len(base) + 1 + n <= Len(line)
  BY <1>1
<1>3. ASSUME NEW l \in Layers PROVE AfterDrafts(l, n) \in Frontier
  <2>1. snap[l] \in Frontier
    BY DEF STypes
  <2>2. FeedRange(snap[l], line, Len(base) + 1, Len(base) + 1 + n) \in Frontier
    <3> HIDE DEF line
    <3> QED  BY <1>1, <1>2, <2>1, FeedRangeType
  <2> QED  BY <2>2 DEF AfterDrafts
<1>4. [l \in Layers |-> AfterDrafts(l, n)] \in [Layers -> Frontier]
  BY <1>3
<1> QED  BY <1>4, OutputType DEF RowAfter

(* The verifier agrees with the first draft, which it did not check, and   *)
(* with every other up to the first that is wrong.                         *)
LEMMA AgreedIs ==
  ASSUME Len(draft) \in Nat \ {0}
  PROVE  Agreed \in 1 .. Len(draft) /\ \A i \in 2 .. Agreed : Top(RowAfter(i - 1)) = draft[i]
<1> DEFINE wrong == {i \in 2 .. Len(draft) : Top(RowAfter(i - 1)) # draft[i]}
           least == CHOOSE i \in wrong : \A j \in wrong : i <= j
<1>1. CASE wrong = {}
  BY <1>1 DEF Agreed
<1>2. CASE wrong # {}
  <2>1. wrong \in SUBSET Nat
    OBVIOUS
  <2>2. least \in wrong /\ \A j \in wrong : least <= j
    <3> HIDE DEF wrong
    <3>1. \E i \in wrong : \A j \in wrong : i <= j
      BY <1>2, <2>1, LeastExists
    <3> QED  BY <3>1
  <2>3. Agreed = least - 1
    BY <1>2 DEF Agreed
  <2>4. least \in 2 .. Len(draft)
    BY <2>2
  <2>5. ASSUME NEW i \in 2 .. least - 1 PROVE i \notin wrong
    <3> HIDE DEF wrong, least
    <3>1. ~(least <= i)
      BY <2>4
    <3> QED  BY <2>2, <3>1
  <2>6. ASSUME NEW i \in 2 .. least - 1 PROVE Top(RowAfter(i - 1)) = draft[i]
    <3>1. i \in 2 .. Len(draft)
      <4> HIDE DEF least
      <4> QED  BY <2>4
    <3> QED  BY <2>5, <3>1
  <2>7. least - 1 \in 1 .. Len(draft)
    <3> HIDE DEF least
    <3> QED  BY <2>4
  <2> QED  BY <2>3, <2>6, <2>7
<1> QED  BY <1>1, <1>2

(* The end of a call. *)
LEMMA Answered ==
  ASSUME TInv, STypes, Calls, NEW what \in {"ok", "error"}, SpecAnswer(what),
         fed' \in [Layers -> Frontier], logits' \in Frontier, capture' \in CaptureType,
         checkpoint' \in Seq(Token), valid' \in BOOLEAN, accepted' \in Seq(Token),
         slots' = slots, what = "ok" => AcceptedIsLive'
  PROVE  SInv'
<1>1. TInv'
  BY DataStep DEF SpecAnswer
<1>2. STypes'
  BY EmptySeq DEF SpecAnswer, STypes, NoSnap, Frontier
<1>3. Clean(<<>>) /\ Len(<<>>) <= Block
  BY SpecAssumption DEF Clean
<1>4. Calls' /\ Stages' /\ Fits'
  BY <1>3 DEF SpecAnswer, Calls, InSpec, InSync, Stages, Fits, Clean
<1>5. AcceptedIsLive'
  BY DEF SpecAnswer, AcceptedIsLive, SpecReturned, Idle
<1> QED  BY <1>1, <1>2, <1>4, <1>5 DEF SInv

(* Any call of Session, between speculations. *)
LEMMA SessionCalls ==
  ASSUME Calls, Next
  PROVE  /\ ~InSpec /\ ~InSpec' /\ (InSync' => op' # "speculate")
         /\ op' = "speculate" => UNCHANGED <<live, op, pc, ret>>
<1> USE DEF Calls, InSpec, InSync
<1>1. ASSUME NEW p, NEW who \in {"sync", "rewrite"}, Idle, op' = who, SyncStart(p, who)
      PROVE  ~InSpec /\ ~InSpec' /\ op' # "speculate"
  BY <1>1 DEF SyncStart, SyncReject, SyncCancelled, SyncResume, SyncExtend, SyncCold, Answer, Idle
<1>2. ASSUME NEW p, SyncCall(p) PROVE ~InSpec /\ ~InSpec' /\ op' # "speculate"
  BY <1>1, <1>2 DEF SyncCall
<1>3. ASSUME NEW p, NEW common, RewriteCall(p, common)
      PROVE  ~InSpec /\ ~InSpec' /\ op' # "speculate"
  BY <1>1, <1>3 DEF RewriteCall, Answer, Idle
<1>4. CASE SyncStep
  <2>1. pc \in {"report", "layers", "extend"} /\ op' = op
        /\ pc' \in {"report", "layers", "extend", "idle"}
    BY <1>4
       DEF SyncStep, RangeStep, ExtendStep, RangeCancel, ChunkBegin, ChunkLayer, ChunkHead, WholeHead,
           RangeDone, RangeFault, ExtendToken, ExtendCancel, ExtendFault, ExtendDone, Return
  <2> QED  BY <2>1
<1>5. ASSUME \/ \E t \in Token : Eval(t)
             \/ EvalFault \/ Invalidate \/ (\E n \in Rewinds : Rewind(n))
             \/ LoadPayload \/ LoadFault \/ LoadAbandon
      PROVE  ~InSpec /\ ~InSpec' /\ op' # "speculate"
  BY <1>5
     DEF Eval, EvalFault, MayEval, Invalidate, Rewind, LoadPayload, LoadFault, LoadAbandon,
         Immediate, Answer, Idle
<1>6. CASE SavePayload
  BY <1>6 DEF SavePayload
<1> QED  BY <1>2, <1>3, <1>4, <1>5, <1>6 DEF Next, Call

LEMMA ControlInit == SpecInit => SInv
<1> SUFFICES ASSUME SpecInit PROVE SInv
  OBVIOUS
<1>1. TInv
  BY TypesInit DEF SpecInit
<1>2. STypes
  BY EmptySeq, SpecAssumption DEF SpecInit, STypes, NoSnap, Frontier
<1>3. Len(<<>>) = 0 /\ Len(<<>>) <= Block
  BY SpecAssumption
<1>4. Calls /\ Fits /\ Stages /\ AcceptedIsLive
  BY <1>3 DEF SpecInit, Init, Calls, Fits, Stages, InSpec, InSync, Clean, AcceptedIsLive, SpecReturned
<1> QED  BY <1>1, <1>2, <1>4 DEF SInv

(* The first token, decoded as by any other call. *)
LEMMA CallControl ==
  ASSUME SInv, NEW t \in Token, NEW n \in Limits, SpecCall(t, n)
  PROVE  SInv'
<1> USE DEF SInv
<1>1. /\ pc = "idle" /\ draft = <<>> /\ checkpoint \in Seq(Token) /\ n \in Nat \ {0}
      /\ Len(checkpoint) \in Nat /\ Len(checkpoint) < CtxSize
  BY SpecAssumption DEF SpecCall, MayEval, Idle, Fits, TInv, DataOK
<1>2. /\ pc' = (IF Speculates(t, n) THEN "propose" ELSE "idle") /\ op' = "speculate" /\ ret' = "ok"
      /\ base' = checkpoint /\ accepted' = <<t>> /\ limit' = n
      /\ UNCHANGED <<job, saved, draft, snap, slots, commit>> /\ Decoded(t)
  BY DEF SpecCall
<1>3. /\ fed' \in [Layers -> Frontier] /\ logits' \in Frontier
      /\ checkpoint' \in Seq(Token) /\ valid' \in BOOLEAN /\ capture' \in CaptureType
  BY <1>2, DecodedType DEF TInv
<1>4. TInv'
  BY <1>2, <1>3, DataStep
<1>5. STypes'
  BY <1>1, <1>2 DEF STypes
<1>6. checkpoint' = Append(checkpoint, t) /\ valid'
  BY <1>2 DEF Decoded
<1>7. checkpoint' = base' \o accepted' /\ Len(checkpoint') = Len(base') + 1 /\ Len(accepted') = 1
  BY <1>1, <1>2, <1>6, AppendIsConcat, AppendProperties
<1>8. Kept(0)' = <<t>> /\ accepted'[1] = t
  BY <1>1, <1>2, EmptySeq, TookNone DEF Kept
<1>9. AcceptedIsLive'
  BY <1>1, <1>2, <1>6, <1>7 DEF AcceptedIsLive
<1>10. Fits' /\ Calls'
  <2>1. Speculates(t, n) => 0 + 1 <= n
    BY <1>1
  <2>2. Len(<<>>) = 0 /\ Len(<<>>) <= Block /\ Clean(<<>>)
    BY SpecAssumption DEF Clean
  <2>3. Calls'
    BY <1>2, <1>6 DEF Calls, InSpec, InSync
  <2>4. Fits'
    BY <1>1, <1>2, <2>1, <2>2 DEF Fits, InSpec, Clean
  <2> QED  BY <2>3, <2>4
<1>11. Stages'
  BY <1>2, <1>7, <1>8 DEF Stages, After
<1> QED  BY <1>4, <1>5, <1>9, <1>10, <1>11

LEMMA CallFaultControl ==
  ASSUME SInv, SpecCallFault
  PROVE  SInv'
<1> USE DEF SInv
<1>1. /\ pc = "idle" /\ pc' = "idle" /\ op' = "speculate" /\ ret' = "error"
      /\ base' = checkpoint /\ accepted' = <<>>
      /\ UNCHANGED <<job, saved, limit, draft, snap, slots, commit>> /\ DecodeFailed
      /\ checkpoint \in Seq(Token) /\ draft = <<>>
  BY DEF SpecCallFault, MayEval, Idle, TInv, DataOK, Fits
<1>2. /\ fed' \in [Layers -> Frontier] /\ logits' \in Frontier
      /\ checkpoint' \in Seq(Token) /\ valid' \in BOOLEAN /\ capture' \in CaptureType
  BY <1>1, DecodeFailedType DEF TInv
<1>3. TInv'
  BY <1>1, <1>2, DataStep
<1>4. STypes'
  BY <1>1, EmptySeq DEF STypes
<1>5. Calls' /\ Fits' /\ Stages' /\ AcceptedIsLive'
  BY <1>1 DEF Calls, Fits, Stages, InSpec, InSync, Clean, AcceptedIsLive, SpecReturned
<1> QED  BY <1>3, <1>4, <1>5

LEMMA SessionControl ==
  ASSUME SInv, SessionStep
  PROVE  SInv'
<1> USE DEF SInv
<1>1. /\ ~InSpec /\ ~InSpec' /\ (InSync' => op' # "speculate")
      /\ op' = "speculate" => UNCHANGED <<live, op, pc, ret>>
  BY SessionCalls DEF SessionStep
<1>2. TInv'
  BY TypesStep DEF SessionStep
<1>3. /\ op' = "speculate" => UNCHANGED <<base, accepted, limit>>
      /\ op' # "speculate" => base' = <<>> /\ accepted' = <<>> /\ limit' = 0
      /\ UNCHANGED <<draft, snap, slots, commit>> /\ draft = <<>>
  BY <1>1 DEF SessionStep, Fits, InSpec
<1>4. STypes'
  <2>1. CASE op' = "speculate"
    BY <1>3, <2>1 DEF STypes
  <2>2. CASE op' # "speculate"
    BY <1>3, <2>2, EmptySeq DEF STypes
  <2> QED  BY <2>1, <2>2
<1>5. Calls' /\ Stages'
  BY <1>1 DEF Calls, Stages, InSpec
<1>6. Fits'
  BY <1>1, <1>3 DEF Fits, Clean
<1>7. AcceptedIsLive'
  BY <1>1, <1>3 DEF AcceptedIsLive, SpecReturned, Idle, live
<1> QED  BY <1>2, <1>4, <1>5, <1>6, <1>7

(* The types every step of a speculation starts from. *)
LEMMA SpecFacts ==
  ASSUME SInv, InSpec
  PROVE  /\ fed \in [Layers -> Frontier] /\ logits \in Frontier /\ capture \in CaptureType
         /\ checkpoint \in Seq(Token) /\ valid = TRUE
         /\ base \in Seq(Token) /\ accepted \in Seq(Token) /\ draft \in Seq(Token)
         /\ Len(base) \in Nat /\ Len(draft) \in Nat /\ accepted[1] \in Token
         /\ commit \in Nat /\ limit \in Nat
         /\ STypes /\ Calls /\ Fits /\ Stages /\ TInv
         /\ op = "speculate" /\ valid
BY FirstType DEF SInv, TInv, DataOK, CaptureType, STypes, Calls

LEMMA SkipControl ==
  ASSUME SInv, SpecSkip
  PROVE  SInv'
<1>1. InSpec /\ accepted = Kept(0) /\ checkpoint = After(0)
  BY DEF SpecSkip, SInv, Stages, InSpec
<1>2. SpecAnswer("ok") /\ UNCHANGED <<live, graph, accepted, slots, limit, base>>
  BY DEF SpecSkip, SpecAnswer
<1>3. valid' /\ 0 \in 0 .. Len(draft)
  BY <1>1, <1>2, SpecFacts DEF live
<1>4. AcceptedIsLive'
  BY <1>1, <1>2, <1>3, SpecFacts, Returns DEF live
<1> QED  BY <1>1, <1>2, <1>4, SpecFacts, Answered DEF live, graph

(* What is verified of a draft is not empty, is no more than was asked for *)
(* and leaves room for one token.                                          *)
LEMMA VerifiedBounds ==
  ASSUME SInv, pc = "propose", NEW d \in Seq(Token), Len(d) \in Nat \ {0},
         Least(limit - Len(accepted), CtxSize - Len(checkpoint) - 1) > 0
  PROVE  /\ Verified(d) \in 1 .. Len(d) /\ Verified(d) + 1 <= limit
         /\ Len(base) + 1 + Verified(d) < CtxSize
<1>1. InSpec /\ accepted = Kept(0) /\ checkpoint = After(0)
  BY DEF SInv, Stages, InSpec
<1>2. Len(accepted) = 1 /\ Len(checkpoint) = Len(base) + 1 /\ limit \in Nat /\ Len(base) \in Nat
  <2>1. 0 \in 0 .. Len(draft)
    BY <1>1, SpecFacts
  <2>2. Len(Kept(0)) = 0 + 1 /\ Len(After(0)) = Len(base) + 1 + 0
    BY <1>1, <2>1, SpecFacts, KeptIs
  <2> QED  BY <1>1, <2>2, SpecFacts
<1>3. Least(limit - 1, CtxSize - (Len(base) + 1) - 1) > 0
  BY <1>2
<1>4. Verified(d) = IF d[1] = Eos THEN 1
                    ELSE Least(Len(d), Least(limit - 1, CtxSize - (Len(base) + 1) - 1))
  BY <1>2 DEF Verified
<1>5. limit - 1 > 0 /\ CtxSize - (Len(base) + 1) - 1 > 0 /\ CtxSize \in Nat
  BY <1>2, <1>3, SizesAssumption DEF Least
<1>6. CASE d[1] = Eos
  <2>1. Verified(d) = 1
    BY <1>4, <1>6
  <2> QED  BY <1>2, <1>5, <2>1
<1>7. CASE d[1] # Eos
  <2> DEFINE m == Least(limit - 1, CtxSize - (Len(base) + 1) - 1)
  <2>1. m \in Nat \ {0} /\ m <= limit - 1 /\ m <= CtxSize - (Len(base) + 1) - 1
    BY <1>2, <1>5 DEF Least
  <2>2. Verified(d) = Least(Len(d), m)
    BY <1>4, <1>7
  <2> HIDE DEF m
  <2>3. Least(Len(d), m) \in 1 .. Len(d) /\ Least(Len(d), m) <= m
    BY <2>1 DEF Least
  <2> QED  BY <1>2, <1>5, <2>1, <2>2, <2>3
<1> QED  BY <1>6, <1>7

LEMMA ProposeControl ==
  ASSUME ~DraftPastEos, SInv, NEW d \in Drafts, SpecPropose(d)
  PROVE  SInv'
<1> DEFINE v == Verified(d)
<1>1. InSpec /\ accepted = Kept(0) /\ checkpoint = After(0) /\ pc = "propose"
  BY DEF SpecPropose, SInv, Stages, InSpec
<1>2. /\ draft' = SubSeq(d, 1, v) /\ snap' = fed /\ pc' = "verify"
      /\ UNCHANGED <<op, ret, job, saved, base, limit, live, graph, accepted, slots, commit>>
      /\ Least(limit - Len(accepted), CtxSize - Len(checkpoint) - 1) > 0
  BY DEF SpecPropose, Stage
<1>3. d \in Seq(Token) /\ Len(d) \in 1 .. Block /\ Clean(d)
  BY DraftsClean
<1>4. v \in 1 .. Len(d) /\ v + 1 <= limit /\ Len(base) + 1 + v < CtxSize
  BY <1>1, <1>2, <1>3, VerifiedBounds
<1> HIDE DEF v
<1>5. /\ draft' \in Seq(Token) /\ Len(draft') = v /\ Clean(draft') /\ draft' # <<>>
      /\ v \in Nat \ {0} /\ v <= Block
  <2>1. v \in 0 .. Len(d) /\ v \in Nat \ {0} /\ v <= Block
    BY <1>3, <1>4, SpecAssumption
  <2>2. SubSeq(d, 1, v) \in Seq(Token) /\ Len(SubSeq(d, 1, v)) = v /\ Clean(SubSeq(d, 1, v))
    BY <1>3, <2>1, PrefixType, CleanPrefix
  <2> QED  BY <1>2, <2>1, <2>2, EmptySeq
<1>6. Clean(draft)'
  BY <1>5 DEF Clean
<1>7. TInv' /\ STypes'
  <2>1. TInv'
    BY <1>1, <1>2, SpecFacts, DataStep DEF live, graph
  <2> QED  BY <1>1, <1>2, <1>5, <2>1, SpecFacts DEF STypes
<1>8. Calls' /\ Fits'
  <2>1. Calls'
    BY <1>1, <1>2, SpecFacts DEF Calls, InSpec, InSync, live
  <2>2. Fits'
    BY <1>2, <1>4, <1>5, <1>6 DEF Fits, InSpec
  <2> QED  BY <2>1, <2>2
<1>9. Kept(0)' = Kept(0) /\ After(0)' = After(0)
  <2>1. Kept(0)' = Took(accepted[1], SubSeq(d, 1, v), 0) /\ Kept(0) = Took(accepted[1], draft, 0)
    BY <1>2 DEF Kept
  <2>2. Kept(0)' = <<accepted[1]>> /\ Kept(0) = <<accepted[1]>>
    BY <1>1, <1>2, <1>5, <2>1, SpecFacts, TookNone
  <2> QED  BY <1>2, <2>2 DEF After
<1>10. Stages' /\ AcceptedIsLive'
  BY <1>1, <1>2, <1>5, <1>9 DEF Stages, AcceptedIsLive, SpecReturned, Idle, live
<1> QED  BY <1>7, <1>8, <1>10 DEF SInv

(* A stage that leaves the drafts alone. *)
LEMMA StageControl ==
  ASSUME SInv, InSpec, NEW s \in {"verify", "commit", "rollback", "replay"}, Stage(s), valid' = valid,
         UNCHANGED <<draft, snap>>, accepted' \in Seq(Token), accepted' # <<>>,
         fed' \in [Layers -> Frontier], logits' \in Frontier, capture' \in CaptureType,
         checkpoint' \in Seq(Token), slots' \in [1 .. Slots -> Frontier], commit' \in Nat
  PROVE  TInv' /\ STypes' /\ Calls' /\ Fits' /\ AcceptedIsLive'
<1>1. TInv'
  BY SpecFacts, DataStep DEF Stage
<1>2. STypes'
  BY DEF Stage, SInv, STypes
<1>3. Calls' /\ AcceptedIsLive'
  BY SpecFacts DEF Stage, Calls, InSpec, InSync, AcceptedIsLive, SpecReturned, Idle
<1>4. Fits'
  BY DEF Stage, SInv, Fits, InSpec, Clean
<1> QED  BY <1>1, <1>2, <1>3, <1>4

LEMMA WholeDraft ==
  ASSUME SInv, InSpec, accepted = Kept(0)
  PROVE  /\ accepted \o draft = Kept(Len(draft)) /\ base \o accepted \o draft = After(Len(draft))
         /\ UptoEos(draft) = draft /\ base \o accepted = After(0)
<1>1. Len(draft) \in 0 .. Len(draft) /\ draft \in Seq(Token) /\ SubSeq(draft, 1, Len(draft)) = draft
  BY SpecFacts, SubSeqFull
<1>2. /\ accepted \o SubSeq(draft, 1, Len(draft)) = Kept(Len(draft))
      /\ base \o accepted \o SubSeq(draft, 1, Len(draft)) = After(Len(draft))
  BY <1>1, SpecFacts, KeptThen
<1>3. UptoEos(draft) = draft
  BY <1>1, SpecFacts, UptoEosClean DEF Fits
<1> QED  BY <1>1, <1>2, <1>3 DEF After

LEMMA VerifyControl ==
  ASSUME SInv, SpecVerify
  PROVE  SInv'
<1>1. InSpec /\ accepted = Kept(0) /\ checkpoint = After(0) /\ draft # <<>>
  BY DEF SpecVerify, SInv, Stages, InSpec
<1>2. Len(draft) \in Nat \ {0} /\ Len(draft) \in 0 .. Len(draft)
  BY <1>1, SpecFacts, EmptySeq
<1>3. /\ checkpoint' = checkpoint \o draft /\ fed' = [l \in Layers |-> AfterDrafts(l, Len(draft))]
      /\ commit' = Agreed /\ Stage("commit") /\ UNCHANGED <<valid, logits, accepted, draft, snap>>
      /\ capture' \in {NoCapture, [ok |-> Dspark, len |-> 0, seq |-> RowAfter(Len(draft))]}
      /\ slots' = IF CapturesPrefixes
                  THEN [k \in 1 .. Slots |-> IF k < Len(draft) THEN RowAfter(k) ELSE slots[k]]
                  ELSE slots
  BY DEF SpecVerify
<1>4. commit' \in 1 .. Len(draft) /\ commit' \in Nat
  BY <1>2, <1>3, AgreedIs
<1>5. fed' \in [Layers -> Frontier] /\ RowAfter(Len(draft)) \in Frontier
  BY <1>1, <1>2, <1>3, SpecFacts, RowsType
<1>6. capture' \in CaptureType
  BY <1>3, <1>5, NoCaptureType, FaultsAssumption DEF CaptureType
<1>7. slots' \in [1 .. Slots -> Frontier]
  <2>1. slots \in [1 .. Slots -> Frontier]
    BY <1>1, SpecFacts DEF STypes
  <2>2. ASSUME NEW k \in 1 .. Slots, k < Len(draft) PROVE RowAfter(k) \in Frontier
    <3>1. k \in 0 .. Len(draft)
      BY <1>2, <2>2, SpecAssumption
    <3> QED  BY <1>1, <3>1, SpecFacts, RowsType
  <2> QED  BY <1>3, <2>1, <2>2
<1>8. checkpoint' = After(Len(draft)) /\ checkpoint' \in Seq(Token)
  <2>1. base \o accepted \o draft = After(Len(draft)) /\ base \o accepted = After(0)
    BY <1>1, WholeDraft
  <2>2. checkpoint' = After(Len(draft))
    BY <1>1, <1>3, <2>1
  <2>3. After(Len(draft)) \in Seq(Token)
    BY <1>1, <1>2, SpecFacts, KeptIs
  <2> QED  BY <2>2, <2>3
<1>9. TInv' /\ STypes' /\ Calls' /\ Fits' /\ AcceptedIsLive'
  BY <1>1, <1>3, <1>4, <1>5, <1>6, <1>7, <1>8, SpecFacts, StageControl DEF Calls
<1>10. Stages'
  BY <1>1, <1>3, <1>4, <1>8 DEF Stages, Stage, Kept, After
<1> QED  BY <1>9, <1>10 DEF SInv

LEMMA VerifyFaultControl ==
  ASSUME SInv, SpecVerifyFault
  PROVE  SInv'
<1>1. InSpec /\ accepted = Kept(0) /\ accepted # <<>>
  BY DEF SpecVerifyFault, SInv, Stages, Calls, InSpec
<1>2. /\ checkpoint' = checkpoint \o draft /\ TornSome(fed, fed') /\ commit' = 0
      /\ capture' = NoCapture /\ slots' \in {slots, [k \in 1 .. Slots |-> Torn]}
      /\ Stage("rollback") /\ UNCHANGED <<valid, logits, accepted, draft, snap>>
  BY DEF SpecVerifyFault
<1>3. fed' \in [Layers -> Frontier] /\ capture' \in CaptureType
  BY <1>1, <1>2, SpecFacts, TornSomeType, NoCaptureType DEF TInv
<1>4. slots' \in [1 .. Slots -> Frontier]
  BY <1>1, <1>2, SpecFacts DEF STypes, Frontier
<1>5. checkpoint' \in Seq(Token) /\ 0 \in 0 .. Len(draft)
  BY <1>1, <1>2, SpecFacts, ConcatProperties
<1>6. TInv' /\ STypes' /\ Calls' /\ Fits' /\ AcceptedIsLive'
  BY <1>1, <1>2, <1>3, <1>4, <1>5, SpecFacts, StageControl
<1>7. Stages'
  BY <1>1, <1>2, <1>5 DEF Stages, Stage, Kept
<1> QED  BY <1>6, <1>7 DEF SInv

LEMMA CommitFullControl ==
  ASSUME SInv, SpecCommitFull
  PROVE  SInv'
<1>1. InSpec /\ accepted = Kept(0) /\ checkpoint = After(Len(draft)) /\ commit = Len(draft)
  BY DEF SpecCommitFull, SInv, Stages, InSpec
<1>2. Len(draft) \in 0 .. Len(draft)
  BY <1>1, SpecFacts
<1>3. /\ logits' = RowAfter(commit) /\ accepted' = accepted \o UptoEos(draft) /\ valid' = TRUE
      /\ capture' = Noted(capture, checkpoint) /\ SpecAnswer("ok") /\ UNCHANGED <<checkpoint, fed>>
      /\ UNCHANGED <<limit, base, slots>>
  BY DEF SpecCommitFull, SpecAnswer
<1>4. accepted' = Kept(Len(draft)) /\ accepted' \in Seq(Token)
  BY <1>1, <1>2, <1>3, SpecFacts, WholeDraft, KeptIs
<1>5. logits' \in Frontier /\ capture' \in CaptureType
  BY <1>1, <1>2, <1>3, SpecFacts, RowsType, NotedType
<1>6. AcceptedIsLive'
  BY <1>1, <1>2, <1>3, <1>4, SpecFacts, Returns
<1> QED  BY <1>1, <1>3, <1>4, <1>5, <1>6, SpecFacts, Answered

LEMMA CommitPartialControl ==
  ASSUME SInv, SpecCommitPartial
  PROVE  SInv'
<1> DEFINE kept == UptoEos(SubSeq(draft, 1, commit))
<1>1. InSpec /\ accepted = Kept(0) /\ commit \in 1 .. Len(draft) /\ commit <= Slots
  BY DEF SpecCommitPartial, SInv, Stages, InSpec
<1>2. commit \in 0 .. Len(draft)
  BY <1>1, SpecFacts
<1>3. /\ fed' = [l \in Layers |-> slots[commit]] /\ logits' = RowAfter(commit) /\ valid' = TRUE
      /\ checkpoint' = base \o accepted \o kept /\ accepted' = accepted \o kept
      /\ capture' = NoCapture /\ SpecAnswer("ok") /\ UNCHANGED <<limit, base, slots>>
  BY DEF SpecCommitPartial, SpecAnswer
<1>4. kept = SubSeq(draft, 1, commit)
  BY <1>1, <1>2, SpecFacts, PrefixType, CleanPrefix, UptoEosClean DEF Fits
<1> HIDE DEF kept
<1>5. /\ accepted' = Kept(commit) /\ checkpoint' = After(commit)
      /\ accepted' \in Seq(Token) /\ checkpoint' \in Seq(Token)
  BY <1>1, <1>2, <1>3, <1>4, SpecFacts, KeptThen, KeptIs
<1>6. logits' \in Frontier /\ capture' \in CaptureType
  BY <1>1, <1>2, <1>3, SpecFacts, RowsType, NoCaptureType
<1>7. fed' \in [Layers -> Frontier]
  <2>1. commit \in 1 .. Slots
    BY <1>1, SpecFacts, SpecAssumption
  <2> QED  BY <1>1, <1>3, <2>1, SpecFacts DEF STypes
<1>8. AcceptedIsLive'
  BY <1>1, <1>2, <1>3, <1>5, SpecFacts, Returns
<1> QED  BY <1>1, <1>3, <1>5, <1>6, <1>7, <1>8, SpecFacts, Answered

LEMMA NoCommitControl ==
  ASSUME SInv, SpecNoCommit
  PROVE  SInv'
<1>1. InSpec /\ accepted = Kept(0) /\ commit \in 1 .. Len(draft) /\ accepted # <<>>
  BY DEF SpecNoCommit, SInv, Stages, Calls, InSpec
<1>2. /\ (fed' = fed \/ TornSome(fed, fed')) /\ Stage("rollback")
      /\ UNCHANGED <<live, logits, capture, accepted, draft, snap, slots, commit>>
  BY DEF SpecNoCommit
<1>3. fed' \in [Layers -> Frontier] /\ commit \in 0 .. Len(draft)
  BY <1>1, <1>2, SpecFacts, TornSomeType DEF TInv
<1>4. TInv' /\ STypes' /\ Calls' /\ Fits' /\ AcceptedIsLive'
  BY <1>1, <1>2, <1>3, SpecFacts, StageControl DEF live, STypes
<1>5. Stages'
  BY <1>1, <1>2, <1>3 DEF Stages, Stage, Kept
<1> QED  BY <1>4, <1>5 DEF SInv

LEMMA RollbackControl ==
  ASSUME SInv, SpecRollback
  PROVE  SInv'
<1> DEFINE again == UptoEos(SubSeq(draft, 1, commit))
<1>1. InSpec /\ accepted = Kept(0) /\ commit \in 0 .. Len(draft) /\ accepted # <<>>
  BY DEF SpecRollback, RollbackTo, SInv, Stages, Calls, InSpec
<1>2. /\ checkpoint' = base \o accepted /\ capture' = NoCapture /\ fed' = snap
      /\ UNCHANGED <<valid, logits, accepted>>
  BY DEF SpecRollback, RollbackTo
<1>3. /\ checkpoint' = After(0) /\ checkpoint' \in Seq(Token) /\ 0 \in 0 .. Len(draft)
      /\ fed' \in [Layers -> Frontier] /\ capture' \in CaptureType
  <2>1. 0 \in 0 .. Len(draft)
    BY <1>1, SpecFacts
  <2>2. checkpoint' = After(0) /\ After(0) \in Seq(Token)
    BY <1>1, <1>2, <2>1, SpecFacts, WholeDraft, KeptIs
  <2>3. fed' \in [Layers -> Frontier] /\ capture' \in CaptureType
    BY <1>1, <1>2, SpecFacts, NoCaptureType DEF STypes
  <2> QED  BY <2>1, <2>2, <2>3
<1>4. CASE commit = 0
  <2>1. SpecAnswer("ok") /\ UNCHANGED <<limit, base, slots>>
    BY <1>4 DEF SpecRollback, RollbackTo, SpecAnswer
  <2>2. AcceptedIsLive'
    BY <1>1, <1>2, <1>3, <2>1, SpecFacts, Returns
  <2> QED  BY <1>1, <1>2, <1>3, <2>1, <2>2, SpecFacts, Answered
<1>5. CASE commit # 0
  <2>1. /\ draft' = again /\ commit' = Len(again) /\ Stage("replay") /\ UNCHANGED <<snap, slots>>
    BY <1>5 DEF SpecRollback, RollbackTo
  <2>2. again = SubSeq(draft, 1, commit)
    BY <1>1, SpecFacts, PrefixType, CleanPrefix, UptoEosClean DEF Fits
  <2> HIDE DEF again
  <2>3. /\ draft' \in Seq(Token) /\ Len(draft') = commit /\ Clean(draft') /\ commit' = commit
        /\ draft # <<>>
    <3>1. SubSeq(draft, 1, commit) \in Seq(Token) /\ Len(SubSeq(draft, 1, commit)) = commit
      BY <1>1, SpecFacts, PrefixType
    <3>2. Clean(SubSeq(draft, 1, commit))
      BY <1>1, SpecFacts, CleanPrefix DEF Fits
    <3>3. draft # <<>>
      BY <1>1, <1>5, EmptySeq
    <3> QED  BY <2>1, <2>2, <3>1, <3>2, <3>3
  <2>4. Clean(draft)'
    BY <2>3 DEF Clean
  <2>5. TInv'
    BY <1>1, <1>2, <1>3, <2>1, SpecFacts, DataStep DEF Stage
  <2>6. STypes'
    BY <1>1, <1>2, <2>1, <2>3, SpecFacts DEF STypes, Stage
  <2>7. Calls' /\ AcceptedIsLive'
    BY <1>1, <1>2, <2>1, SpecFacts DEF Stage, Calls, InSpec, InSync, AcceptedIsLive, SpecReturned, Idle
  <2>8. Fits'
    <3>1. /\ commit \in Nat /\ commit <= Len(draft) /\ Len(draft) <= Block /\ Len(draft) + 1 <= limit
          /\ Len(base) + 1 + Len(draft) < CtxSize /\ Len(draft) \in Nat /\ Len(base) \in Nat
          /\ limit \in Nat
      BY <1>1, <2>3, SpecFacts DEF Fits
    <3>2. commit <= Block /\ commit + 1 <= limit /\ Len(base) + 1 + commit < CtxSize
      BY <3>1, SpecAssumption, SizesAssumption
    <3> QED  BY <2>1, <2>3, <2>4, <3>2 DEF Fits, InSpec, Stage
  <2>9. Kept(0)' = accepted /\ After(0)' = checkpoint' /\ Replayed' = 0 /\ commit' \in 0 .. Len(draft')
    <3>1. Kept(0)' = Took(accepted[1], draft', 0) /\ Kept(0) = Took(accepted[1], draft, 0)
      BY <1>2 DEF Kept
    <3>2. Kept(0)' = accepted
      BY <1>1, <2>3, <3>1, SpecFacts, TookNone
    <3>3. commit \in Nat
      BY <1>1, SpecFacts
    <3>4. After(0)' = base' \o Kept(0)' /\ base' = base
      BY <2>1 DEF After, Stage
    <3>5. After(0)' = checkpoint'
      BY <1>2, <3>2, <3>4
    <3>6. Replayed' = Len(draft') - commit'
      BY DEF Replayed
    <3>7. Replayed' = 0 /\ commit' \in 0 .. Len(draft')
      BY <2>3, <3>3, <3>6
    <3> QED  BY <3>2, <3>5, <3>7
  <2>10. Stages'
    BY <1>2, <2>1, <2>9 DEF Stages, Stage
  <2> QED  BY <2>5, <2>6, <2>7, <2>8, <2>10 DEF SInv
<1> QED  BY <1>4, <1>5

LEMMA RollbackFaultControl ==
  ASSUME SInv, SpecRollbackFault
  PROVE  SInv'
<1>1. InSpec
  BY DEF SpecRollbackFault, InSpec
<1>2. /\ checkpoint' = base \o accepted /\ capture' = NoCapture /\ valid' = FALSE
      /\ TornSome(fed, fed') /\ SpecAnswer("error") /\ UNCHANGED <<logits, accepted, slots>>
  BY DEF SpecRollbackFault, SpecAnswer
<1>3. fed' \in [Layers -> Frontier] /\ capture' \in CaptureType /\ checkpoint' \in Seq(Token)
  BY <1>1, <1>2, SpecFacts, TornSomeType, NoCaptureType, ConcatProperties DEF TInv
<1> QED  BY <1>1, <1>2, <1>3, SpecFacts, Answered

LEMMA ReplayFaultControl ==
  ASSUME SInv, SpecReplayFault
  PROVE  SInv'
<1>1. InSpec
  BY DEF SpecReplayFault, InSpec
<1>2. /\ capture' = NoCapture /\ valid' = FALSE /\ TornSome(fed, fed')
      /\ SpecAnswer("error") /\ UNCHANGED <<checkpoint, logits, accepted, slots>>
  BY DEF SpecReplayFault, SpecAnswer
<1>3. fed' \in [Layers -> Frontier] /\ capture' \in CaptureType
  BY <1>1, <1>2, SpecFacts, TornSomeType, NoCaptureType DEF TInv
<1> QED  BY <1>1, <1>2, <1>3, SpecFacts, Answered

LEMMA ReplayDoneControl ==
  ASSUME SInv, SpecReplayDone
  PROVE  SInv'
<1>1. InSpec /\ commit = 0 /\ accepted = Kept(Len(draft)) /\ checkpoint = After(Len(draft))
  <2>1. InSpec /\ commit = 0 /\ accepted = Kept(Replayed) /\ checkpoint = After(Replayed)
    BY DEF SpecReplayDone, SInv, Stages, InSpec
  <2>2. Replayed = Len(draft)
    BY <2>1, SpecFacts DEF Replayed
  <2> QED  BY <2>1, <2>2
<1>2. /\ logits' = Output(fed) /\ valid' = TRUE /\ capture' = Noted(capture, checkpoint)
      /\ SpecAnswer("ok") /\ UNCHANGED <<checkpoint, fed, accepted, limit, base, slots>>
  BY DEF SpecReplayDone, SpecAnswer
<1>3. logits' \in Frontier /\ capture' \in CaptureType /\ Len(draft) \in 0 .. Len(draft)
  BY <1>1, <1>2, SpecFacts, OutputType, NotedType
<1>4. AcceptedIsLive'
  BY <1>1, <1>2, <1>3, SpecFacts, Returns
<1> QED  BY <1>1, <1>2, <1>3, <1>4, SpecFacts, Answered

LEMMA ConcatAppend ==
  ASSUME NEW s \in Seq(Token), NEW t \in Seq(Token), NEW e \in Token
  PROVE  Append(s \o t, e) = s \o Append(t, e)
<1>1. s \o t \in Seq(Token) /\ <<e>> \in Seq(Token)
  BY ConcatProperties
<1>2. Append(s \o t, e) = (s \o t) \o <<e>> /\ Append(t, e) = t \o <<e>>
  BY <1>1, AppendIsConcat
<1>3. (s \o t) \o <<e>> = s \o (t \o <<e>>)
  BY <1>1, ThreePieces, Zenon
<1> QED  BY <1>2, <1>3

(* The token a step of the replay decodes is the next of the drafts. *)
LEMMA ReplayNext ==
  ASSUME SInv, pc = "replay", commit > 0
  PROVE  /\ Replayed \in 0 .. Len(draft) /\ Replayed + 1 \in 0 .. Len(draft)
         /\ draft[Len(draft) - commit + 1] \in Token /\ draft[Len(draft) - commit + 1] = draft[Replayed + 1]
         /\ Append(accepted, draft[Replayed + 1]) = Kept(Replayed + 1)
         /\ Append(checkpoint, draft[Replayed + 1]) = After(Replayed + 1)
<1>1. /\ InSpec /\ commit \in 0 .. Len(draft)
      /\ accepted = Kept(Replayed) /\ checkpoint = After(Replayed)
  BY DEF SInv, Stages, InSpec
<1>2. /\ Replayed \in 0 .. Len(draft) /\ Replayed + 1 \in 0 .. Len(draft) /\ Replayed \in Nat
      /\ Replayed < Len(draft) /\ Replayed + 1 \in 1 .. Len(draft)
  BY <1>1, SpecFacts DEF Replayed
<1>3. draft[Replayed + 1] \in Token
  BY <1>1, <1>2, SpecFacts, ElementOfSeq
<1>4. draft[Len(draft) - commit + 1] = draft[Replayed + 1]
  BY DEF Replayed
<1> HIDE DEF Replayed
<1>5. Append(Kept(Replayed), draft[Replayed + 1]) = Kept(Replayed + 1)
  BY <1>1, <1>2, SpecFacts, TookNext DEF Kept
<1>6. Append(After(Replayed), draft[Replayed + 1]) = After(Replayed + 1)
  <2>1. Kept(Replayed) \in Seq(Token) /\ base \in Seq(Token)
    BY <1>1, <1>2, SpecFacts, KeptIs
  <2>2. Append(base \o Kept(Replayed), draft[Replayed + 1]) = base \o Append(Kept(Replayed), draft[Replayed + 1])
    BY <1>3, <2>1, ConcatAppend
  <2> QED  BY <1>5, <2>2 DEF After
<1> QED  BY <1>1, <1>2, <1>3, <1>4, <1>5, <1>6

LEMMA ReplayControl ==
  ASSUME SInv, SpecReplay
  PROVE  SInv'
<1> DEFINE t == draft[Len(draft) - commit + 1]
           after == [l \in Layers |-> FeedOne(fed[l], t, Len(checkpoint))]
<1>1. InSpec /\ pc = "replay" /\ commit > 0 /\ commit \in 0 .. Len(draft)
  BY DEF SpecReplay, SInv, Stages, InSpec
<1>2. /\ fed' = after /\ checkpoint' = Append(checkpoint, t) /\ accepted' = Append(accepted, t)
      /\ capture' = [ok |-> Dspark, len |-> 0, seq |-> IF Dspark THEN Output(after) ELSE <<>>]
      /\ commit' = commit - 1 /\ Stage("replay") /\ UNCHANGED <<valid, logits, draft, snap, slots>>
  BY DEF SpecReplay
<1>3. /\ Replayed \in 0 .. Len(draft) /\ Replayed + 1 \in 0 .. Len(draft) /\ t \in Token
      /\ accepted' = Kept(Replayed + 1) /\ checkpoint' = After(Replayed + 1)
  BY <1>1, <1>2, ReplayNext
<1>4. after \in [Layers -> Frontier]
  <2>1. Len(checkpoint) \in Nat /\ fed \in [Layers -> Frontier]
    BY <1>1, SpecFacts
  <2> HIDE DEF t
  <2> QED  BY <1>3, <2>1, FeedOneType
<1> HIDE DEF t, after
<1>5. capture' \in CaptureType /\ fed' \in [Layers -> Frontier]
  BY <1>2, <1>4, OutputType, EmptySeq, FaultsAssumption DEF CaptureType, Frontier
<1>6. /\ accepted' \in Seq(Token) /\ checkpoint' \in Seq(Token) /\ accepted' # <<>>
      /\ accepted'[1] = accepted[1]
  <2>1. /\ Kept(Replayed + 1) \in Seq(Token) /\ Kept(Replayed + 1)[1] = accepted[1]
        /\ After(Replayed + 1) \in Seq(Token) /\ Len(Kept(Replayed + 1)) = Replayed + 1 + 1
    BY <1>1, <1>3, SpecFacts, KeptIs
  <2>2. Kept(Replayed + 1) # <<>>
    BY <1>3, <2>1, EmptySeq
  <2> QED  BY <1>3, <2>1, <2>2
<1>7. commit' \in 0 .. Len(draft') /\ commit' \in Nat /\ Replayed' = Replayed + 1
  BY <1>1, <1>2, SpecFacts DEF Replayed
<1>8. TInv' /\ STypes' /\ Calls' /\ Fits' /\ AcceptedIsLive'
  BY <1>1, <1>2, <1>5, <1>6, <1>7, SpecFacts, StageControl DEF STypes
<1>9. Kept(Replayed + 1) = Kept(Replayed)' /\ After(Replayed + 1) = After(Replayed)'
  BY <1>2, <1>6, <1>7 DEF Kept, After, Stage
<1>10. Stages'
  BY <1>2, <1>3, <1>7, <1>9 DEF Stages, Stage
<1> QED  BY <1>8, <1>10 DEF SInv

LEMMA ControlStep ==
  ASSUME ~DraftPastEos, SInv, [SpecNext]_specVars
  PROVE  SInv'
<1>1. ASSUME NEW t \in Token, NEW n \in Limits, SpecCall(t, n) PROVE SInv'
  BY <1>1, CallControl
<1>2. ASSUME NEW d \in Drafts, SpecPropose(d) PROVE SInv'
  BY <1>2, ProposeControl
<1>3. CASE SpecStep
  BY <1>2, <1>3, SkipControl, VerifyControl, VerifyFaultControl, CommitFullControl, CommitPartialControl,
     NoCommitControl, RollbackControl, RollbackFaultControl, ReplayControl, ReplayFaultControl,
     ReplayDoneControl
     DEF SpecStep
<1>4. CASE UNCHANGED specVars
  <2>1. TInv'
    BY <1>4, TypesStep DEF specVars, SInv
  <2>2. /\ UNCHANGED <<checkpoint, valid, pc, op, ret>>
        /\ UNCHANGED <<base, accepted, limit, draft, snap, slots, commit>>
    BY <1>4 DEF specVars, spec, vars, live
  <2>3. STypes' /\ Calls' /\ AcceptedIsLive'
    BY <2>2 DEF SInv, STypes, Calls, InSpec, InSync, AcceptedIsLive, SpecReturned, Idle
  <2>4. Fits'
    BY <2>2 DEF SInv, Fits, InSpec, Clean
  <2>5. Stages'
    BY <2>2 DEF SInv, Stages, Kept, After, Replayed
  <2> QED  BY <2>1, <2>3, <2>4, <2>5 DEF SInv
<1> QED  BY <1>1, <1>3, <1>4, CallFaultControl, SessionControl DEF SpecNext

(* What a speculation that says ok accepted is what the checkpoint holds   *)
(* behind the one it began with, is no more than was asked for, and leaves *)
(* the context room for one more token: whatever was drafted, whichever    *)
(* way it was committed and whatever else the program did in between.      *)
THEOREM Accepted == ~DraftPastEos /\ SpecSpec => []AcceptedIsLive
<1>1. SInv => AcceptedIsLive
  BY DEF SInv
<1>2. ~DraftPastEos /\ SInv /\ [SpecNext]_specVars => SInv'
  BY ControlStep
<1>3. CASE ~DraftPastEos
  BY <1>1, <1>2, <1>3, ControlInit, PTL DEF SpecSpec
<1> QED  BY <1>3

-----------------------------------------------------------------------------
(* Where the layers stand *)

Ample == Sound /\ ~DraftPastEos /\ Block <= Slots + 1

(* The target agrees with the first n drafts. *)
Agree(n) == \A i \in 1 .. n : draft[i] = Greedy(After(i - 1))
AllAt(n) == \A l \in Layers : fed[l] = After(n)

Stands ==
  /\ InSpec => logits = After(0) /\ accepted[1] # Eos
  /\ pc \in {"propose", "verify"} => AllAt(0)
  /\ pc \in {"verify", "commit", "rollback"} => \A l \in Layers : snap[l] = After(0)
  /\ pc = "verify" => Agree(1)
  /\ pc \in {"commit", "rollback"} => Agree(commit)
  /\ pc = "commit" => AllAt(Len(draft)) /\ \A k \in 1 .. Len(draft) - 1 : slots[k] = After(k)
  /\ pc = "replay" => AllAt(Replayed) /\ Agree(Len(draft))

FInv == IInv /\ RowOfEnd /\ Stands /\ GreedyExact

(* The rows of a verifier that starts after the first token. *)
LEMMA RowsExact ==
  ASSUME SInv, InSpec, \A l \in Layers : snap[l] = After(0), NEW n \in 0 .. Len(draft)
  PROVE  /\ \A l \in Layers : AfterDrafts(l, n) = After(n)
         /\ RowAfter(n) = After(n) /\ Top(After(n)) = Greedy(After(n))
<1>1. accepted[1] \in Token /\ draft \in Seq(Token) /\ base \in Seq(Token)
  BY SpecFacts
<1>2. ASSUME NEW l \in Layers PROVE AfterDrafts(l, n) = After(n)
  BY <1>1, FeedDrafts DEF AfterDrafts, After, Kept
<1>3. \A l \in Layers : [k \in Layers |-> AfterDrafts(k, n)][l] = After(n)
  BY <1>2
<1>4. RowAfter(n) = After(n)
  BY <1>3, OutputExact DEF RowAfter
<1>5. After(n) \in Seq(Token)
  BY SpecFacts, KeptIs
<1>6. After(n) # Torn
  BY <1>5, TornAssumption
<1> QED  BY <1>2, <1>4, <1>6 DEF Top

(* A step to another stage of the speculation. *)
LEMMA StageFrontier ==
  ASSUME IInv, pc' \in {"propose", "verify", "commit", "rollback", "replay"}, saved' = saved
  PROVE  IInv' /\ GreedyExact'
BY DEF IInv, RangeFrontier, ExtendFrontier, OkValid, Idle, FrontierMatches, SavedPayloadSound,
       GreedyExact, SpecReturned

(* A step that returns in the middle of a failure. *)
LEMMA ErrorFrontier ==
  ASSUME IInv, pc' = "idle", ret' = "error", ~valid', saved' = saved
  PROVE  FInv'
BY DEF FInv, IInv, RangeFrontier, ExtendFrontier, OkValid, Idle, FrontierMatches, SavedPayloadSound,
       RowOfEnd, Stands, InSpec, GreedyExact, SpecReturned

(* Accepting n drafts the target agrees with. *)
LEMMA GreedyReturns ==
  ASSUME SInv, InSpec, accepted[1] # Eos, NEW n \in 0 .. Len(draft), Agree(n),
         accepted' = Kept(n), base' = base
  PROVE  GreedyExact'
<1>1. accepted[1] \in Token /\ draft \in Seq(Token) /\ Len(draft) \in Nat
  BY SpecFacts
<1>2. Len(accepted') = n + 1 /\ accepted'[1] = accepted[1]
  BY SpecFacts, KeptIs
<1>3. \A i \in 2 .. n + 1 : accepted'[i] = draft[i - 1]
  BY <1>1, TookIs DEF Kept
<1>4. ASSUME NEW i \in 2 .. n + 1
      PROVE  accepted'[i] = Greedy(base' \o SubSeq(accepted', 1, i - 1)) /\ accepted'[i - 1] # Eos
  <2>1. i - 1 \in 1 .. n + 1 /\ i - 1 \in 1 .. n
    OBVIOUS
  <2>2. SubSeq(accepted', 1, i - 1) = Kept((i - 1) - 1)
    <3>1. SubSeq(Took(accepted[1], draft, n), 1, i - 1) = Took(accepted[1], draft, (i - 1) - 1)
      BY <1>1, <2>1, TookPrefix
    <3> QED  BY <3>1 DEF Kept
  <2>3. draft[i - 1] = Greedy(After((i - 1) - 1))
    BY <2>1 DEF Agree
  <2>4. accepted'[i] = Greedy(base' \o SubSeq(accepted', 1, i - 1))
    BY <1>3, <2>2, <2>3 DEF After
  <2>5. CASE i = 2
    BY <1>2, <2>4, <2>5
  <2>6. CASE i # 2
    <3>1. i - 1 \in 2 .. n + 1 /\ (i - 1) - 1 \in 1 .. Len(draft) - 1
      BY <1>1, <2>6
    <3>2. accepted'[i - 1] = draft[(i - 1) - 1]
      BY <1>3, <3>1
    <3>3. draft[(i - 1) - 1] # Eos
      BY <3>1, SpecFacts DEF Fits, Clean
    <3> QED  BY <2>4, <3>2, <3>3
  <2> QED  BY <2>5, <2>6
<1> QED  BY <1>2, <1>4 DEF GreedyExact

(* A step that returns what it accepted. *)
LEMMA OkFrontier ==
  ASSUME SInv, IInv, InSpec, accepted[1] # Eos, NEW n \in 0 .. Len(draft), Agree(n),
         SpecAnswer("ok"), accepted' = Kept(n), checkpoint' = After(n), valid',
         \A l \in Layers : fed'[l] = After(n), logits' = After(n), RowOfEnd'
  PROVE  FInv'
<1>1. base' = base /\ pc' = "idle" /\ saved' = saved
  BY DEF SpecAnswer
<1>2. GreedyExact'
  BY <1>1, GreedyReturns
<1>3. IInv'
  BY <1>1 DEF IInv, RangeFrontier, ExtendFrontier, OkValid, Idle, FrontierMatches, SavedPayloadSound
<1>4. Stands'
  BY <1>1 DEF Stands, InSpec
<1> QED  BY <1>2, <1>3, <1>4 DEF FInv

LEMMA CallFrontier ==
  ASSUME SInv, FInv, NEW t \in Token, NEW n \in Limits, SpecCall(t, n)
  PROVE  FInv'
<1>1. TInv /\ valid /\ At(checkpoint)
  BY DEF SInv, FInv, IInv, SpecCall, MayEval, OkValid, Idle, FrontierMatches, At
<1>2. valid' /\ At(checkpoint)' /\ RowOfEnd'
  BY <1>1, DecodedFrontier, DecodedRow DEF SpecCall
<1>3. SInv'
  BY CallControl
<1>4. /\ op' = "speculate" /\ ret' = "ok" /\ saved' = saved /\ accepted' = <<t>>
      /\ pc' = IF Speculates(t, n) THEN "propose" ELSE "idle"
  BY DEF SpecCall
<1>5. CASE Speculates(t, n)
  <2>1. pc' = "propose" /\ accepted'[1] # Eos
    BY <1>4, <1>5 DEF Speculates
  <2>2. checkpoint' = After(0)'
    BY <1>3, <2>1 DEF SInv, Stages
  <2>3. Stands'
    BY <1>2, <2>1, <2>2 DEF Stands, At, AllAt
  <2>4. IInv' /\ GreedyExact'
    BY <1>4, <2>1, StageFrontier DEF FInv
  <2> QED  BY <1>2, <2>3, <2>4 DEF FInv
<1>6. CASE ~Speculates(t, n)
  <2>1. pc' = "idle" /\ Len(accepted') = 1
    BY <1>4, <1>6
  <2>2. IInv'
    BY <1>2, <1>4, <2>1
       DEF FInv, IInv, At, RangeFrontier, ExtendFrontier, OkValid, Idle, FrontierMatches, SavedPayloadSound
  <2>3. GreedyExact'
    BY <2>1 DEF GreedyExact
  <2>4. Stands'
    BY <2>1 DEF Stands, InSpec
  <2> QED  BY <1>2, <2>2, <2>3, <2>4 DEF FInv
<1> QED  BY <1>5, <1>6

LEMMA SessionFrontier ==
  ASSUME Sound, SInv, FInv, SessionStep
  PROVE  FInv'
<1>1. TInv /\ IInv /\ RowOfEnd /\ GreedyExact /\ Calls
  BY DEF SInv, FInv
<1>2. IInv' /\ RowOfEnd'
  BY <1>1, FrontierStep, RowStep DEF SessionStep
<1>3. /\ ~InSpec' /\ (op' = "speculate" => UNCHANGED <<live, op, pc, ret>>)
      /\ (op' = "speculate" => UNCHANGED <<base, accepted, limit>>)
  BY <1>1, SessionCalls DEF SessionStep
<1>4. GreedyExact'
  BY <1>1, <1>3 DEF GreedyExact, SpecReturned, Idle
<1>5. Stands'
  BY <1>3 DEF Stands, InSpec
<1> QED  BY <1>2, <1>4, <1>5 DEF FInv

(* What is common to the stages: the sequences do not move. *)
LEMMA SameDrafts ==
  ASSUME draft' = draft, base' = base, accepted'[1] = accepted[1]
  PROVE  /\ \A n : Kept(n)' = Kept(n) /\ After(n)' = After(n)
         /\ \A n : Agree(n)' <=> Agree(n)
<1>1. \A n : Kept(n)' = Kept(n) /\ After(n)' = After(n)
  BY DEF Kept, After
<1> QED  BY <1>1 DEF Agree

LEMMA SkipFrontier ==
  ASSUME SInv, FInv, SpecSkip
  PROVE  FInv'
<1>1. InSpec /\ accepted = Kept(0) /\ checkpoint = After(0) /\ pc = "propose"
  BY DEF SpecSkip, SInv, Stages, InSpec
<1>2. SpecAnswer("ok") /\ UNCHANGED <<checkpoint, valid, fed, logits, capture, accepted>>
  BY DEF SpecSkip, live, graph
<1>3. 0 \in 0 .. Len(draft) /\ valid /\ Agree(0)
  BY <1>1, SpecFacts DEF Agree
<1>4. accepted[1] # Eos /\ logits = After(0) /\ \A l \in Layers : fed[l] = After(0)
  BY <1>1 DEF FInv, Stands, AllAt
<1>5. RowOfEnd' /\ IInv
  BY <1>2 DEF FInv, RowOfEnd
<1> QED  BY <1>1, <1>2, <1>3, <1>4, <1>5, OkFrontier

LEMMA ProposeFrontier ==
  ASSUME ~DraftPastEos, SInv, FInv, NEW d \in Drafts, SpecPropose(d)
  PROVE  FInv'
<1> DEFINE v == Verified(d)
<1>1. InSpec /\ pc = "propose" /\ checkpoint = After(0) /\ accepted = Kept(0)
  BY DEF SpecPropose, SInv, Stages, InSpec
<1>2. /\ draft' = SubSeq(d, 1, v) /\ snap' = fed /\ pc' = "verify" /\ d[1] = Top(logits)
      /\ UNCHANGED <<ret, op, saved, base, checkpoint, valid, fed, logits, capture, accepted>>
      /\ Least(limit - Len(accepted), CtxSize - Len(checkpoint) - 1) > 0
  BY DEF SpecPropose, Stage, live, graph
<1>3. logits = After(0) /\ accepted[1] # Eos /\ AllAt(0) /\ RowOfEnd /\ IInv
  BY <1>1 DEF FInv, Stands
<1>4. SInv'
  BY ProposeControl
<1>5. After(0)' = After(0)
  BY <1>1, <1>2, <1>4 DEF SInv, Stages
<1>6. d \in Seq(Token) /\ v \in 1 .. Len(d)
  <2>1. d \in Seq(Token) /\ Len(d) \in 1 .. Block
    BY DraftsClean
  <2>2. v \in 1 .. Len(d)
    BY <1>1, <1>2, <2>1, VerifiedBounds, SpecAssumption
  <2> QED  BY <2>1, <2>2
<1> HIDE DEF v
<1>7. draft'[1] = d[1]
  <2>1. v \in 0 .. Len(d) /\ 1 \in 1 .. v /\ Len(d) \in Nat
    BY <1>6
  <2>2. \A i \in 1 .. v : d[i] \in Token
    BY <1>6, <2>1, ElementOfSeq
  <2>3. \A i \in 1 .. v - 1 + 1 : SubSeq(d, 1, v)[i] = d[1 + i - 1]
    BY <2>1, <2>2, SubSeqProperties
  <2>4. 1 \in 1 .. v - 1 + 1 /\ 1 + 1 - 1 = 1
    BY <1>6
  <2> QED  BY <1>2, <2>3, <2>4
<1>8. Top(After(0)) = Greedy(After(0))
  <2>1. 0 \in 0 .. Len(draft)
    BY <1>1, SpecFacts
  <2>2. After(0) \in Seq(Token)
    BY <1>1, <2>1, SpecFacts, KeptIs
  <2> QED  BY <2>2, TornAssumption DEF Top
<1>9. Agree(1)'
  <2>1. draft'[1] = Greedy(After(0)')
    BY <1>2, <1>3, <1>5, <1>7, <1>8
  <2>2. \A i \in 1 .. 1 : i = 1 /\ i - 1 = 0
    OBVIOUS
  <2> QED  BY <2>1, <2>2 DEF Agree
<1>10. Stands'
  BY <1>2, <1>3, <1>5, <1>9 DEF Stands, AllAt, InSpec
<1>11. IInv' /\ GreedyExact' /\ RowOfEnd'
  BY <1>2, <1>3, StageFrontier DEF RowOfEnd
<1> QED  BY <1>10, <1>11 DEF FInv

LEMMA VerifyFrontier ==
  ASSUME Block <= Slots + 1, SInv, FInv, SpecVerify
  PROVE  FInv'
<1>1. InSpec /\ pc = "verify" /\ draft # <<>>
  BY DEF SpecVerify, SInv, Stages, InSpec
<1>2. /\ fed' = [l \in Layers |-> AfterDrafts(l, Len(draft))] /\ commit' = Agreed /\ pc' = "commit"
      /\ slots' = IF CapturesPrefixes
                  THEN [k \in 1 .. Slots |-> IF k < Len(draft) THEN RowAfter(k) ELSE slots[k]]
                  ELSE slots
      /\ capture' \in {NoCapture, [ok |-> Dspark, len |-> 0, seq |-> RowAfter(Len(draft))]}
      /\ UNCHANGED <<saved, base, valid, logits, accepted, draft, snap>>
  BY DEF SpecVerify, Stage
<1>3. /\ logits = After(0) /\ accepted[1] # Eos /\ Agree(1) /\ IInv
      /\ \A l \in Layers : snap[l] = After(0)
  BY <1>1 DEF FInv, Stands
<1>4. Len(draft) \in Nat \ {0} /\ Len(draft) \in 0 .. Len(draft)
  BY <1>1, SpecFacts, EmptySeq
<1>5. \A n \in 0 .. Len(draft) :
        /\ \A l \in Layers : AfterDrafts(l, n) = After(n)
        /\ RowAfter(n) = After(n) /\ Top(RowAfter(n)) = Greedy(After(n))
  BY <1>1, <1>3, RowsExact
<1>6. \A n : After(n)' = After(n)
  BY <1>2, SameDrafts
<1>7. AllAt(Len(draft))'
  BY <1>2, <1>4, <1>5, <1>6 DEF AllAt
<1>8. Agree(commit)'
  <2>1. Agreed \in 1 .. Len(draft) /\ \A i \in 2 .. Agreed : Top(RowAfter(i - 1)) = draft[i]
    BY <1>4, AgreedIs
  <2>2. ASSUME NEW i \in 1 .. Agreed PROVE draft[i] = Greedy(After(i - 1))
    <3>1. CASE i = 1
      BY <1>3, <3>1 DEF Agree
    <3>2. CASE i # 1
      <4>1. i \in 2 .. Agreed /\ i - 1 \in 0 .. Len(draft)
        BY <2>1, <3>2
      <4> QED  BY <1>5, <2>1, <4>1
    <3> QED  BY <3>1, <3>2
  <2> QED  BY <1>2, <1>6, <2>2 DEF Agree
<1>9. \A k \in 1 .. Len(draft) - 1 : slots'[k] = After(k)
  <2> SUFFICES ASSUME NEW k \in 1 .. Len(draft) - 1 PROVE slots'[k] = After(k)
    OBVIOUS
  <2>1. Len(draft) <= Block
    BY <1>1, SpecFacts DEF Fits
  <2>2. k \in 1 .. Slots /\ k < Len(draft) /\ k \in 0 .. Len(draft) /\ CapturesPrefixes
    BY <1>4, <2>1, SpecAssumption DEF CapturesPrefixes
  <2>3. slots'[k] = RowAfter(k)
    BY <1>2, <2>2
  <2> QED  BY <1>5, <2>2, <2>3
<1>10. Stands'
  BY <1>2, <1>3, <1>6, <1>7, <1>8, <1>9 DEF Stands
<1>11. RowOfEnd'
  <2>1. SInv'
    BY VerifyControl
  <2>2. checkpoint' = After(Len(draft))
    BY <1>2, <1>6, <2>1 DEF SInv, Stages
  <2>3. capture'.ok => capture'.seq = RowAfter(Len(draft))
    BY <1>2 DEF NoCapture
  <2> QED  BY <1>4, <1>5, <2>2, <2>3 DEF RowOfEnd
<1>12. IInv' /\ GreedyExact'
  BY <1>2, <1>3, StageFrontier
<1> QED  BY <1>10, <1>11, <1>12 DEF FInv

LEMMA VerifyFaultFrontier ==
  ASSUME SInv, FInv, SpecVerifyFault
  PROVE  FInv'
<1>1. pc = "verify" /\ InSpec
  BY DEF SpecVerifyFault, InSpec
<1>2. /\ pc' = "rollback" /\ capture' = NoCapture /\ commit' = 0
      /\ UNCHANGED <<saved, base, logits, accepted, draft, snap>>
  BY DEF SpecVerifyFault, Stage
<1>3. \A n : After(n)' = After(n)
  BY <1>2, SameDrafts
<1>4. logits = After(0) /\ accepted[1] # Eos /\ IInv /\ \A l \in Layers : snap[l] = After(0)
  BY <1>1 DEF FInv, Stands
<1>5. Agree(commit)'
  BY <1>2 DEF Agree
<1>6. Stands' /\ RowOfEnd'
  BY <1>2, <1>3, <1>4, <1>5 DEF Stands, RowOfEnd, NoCapture
<1>7. IInv' /\ GreedyExact'
  BY <1>2, <1>4, StageFrontier
<1> QED  BY <1>6, <1>7 DEF FInv

LEMMA CommitFullFrontier ==
  ASSUME SInv, FInv, SpecCommitFull
  PROVE  FInv'
<1>1. InSpec /\ pc = "commit" /\ accepted = Kept(0) /\ checkpoint = After(Len(draft)) /\ commit = Len(draft)
  BY DEF SpecCommitFull, SInv, Stages, InSpec
<1>2. /\ logits' = RowAfter(commit) /\ accepted' = accepted \o UptoEos(draft) /\ valid'
      /\ capture' = Noted(capture, checkpoint) /\ SpecAnswer("ok") /\ UNCHANGED <<checkpoint, fed>>
  BY DEF SpecCommitFull
<1>3. Len(draft) \in 0 .. Len(draft) /\ valid /\ checkpoint \in Seq(Token) /\ capture \in CaptureType
  BY <1>1, SpecFacts
<1>4. /\ accepted[1] # Eos /\ Agree(Len(draft)) /\ IInv
      /\ \A l \in Layers : fed[l] = After(Len(draft)) /\ snap[l] = After(0)
  BY <1>1 DEF FInv, Stands, AllAt
<1>5. accepted' = Kept(Len(draft))
  BY <1>1, <1>2, WholeDraft
<1>6. logits' = After(Len(draft))
  BY <1>1, <1>2, <1>3, <1>4, RowsExact
<1>7. RowOfEnd'
  <2>1. ASSUME capture'.ok PROVE capture.ok /\ capture'.seq = capture.seq
    BY <1>2, <1>3, <2>1, NotedRow
  <2> QED  BY <1>2, <1>3, <2>1 DEF FInv, RowOfEnd
<1> QED  BY <1>1, <1>2, <1>3, <1>4, <1>5, <1>6, <1>7, OkFrontier

LEMMA CommitPartialFrontier ==
  ASSUME SInv, FInv, SpecCommitPartial
  PROVE  FInv'
<1> DEFINE kept == UptoEos(SubSeq(draft, 1, commit))
<1>1. /\ InSpec /\ pc = "commit" /\ accepted = Kept(0) /\ commit \in 1 .. Len(draft)
      /\ commit < Len(draft) /\ commit <= Slots
  BY DEF SpecCommitPartial, SInv, Stages, InSpec
<1>2. /\ fed' = [l \in Layers |-> slots[commit]] /\ logits' = RowAfter(commit) /\ valid'
      /\ checkpoint' = base \o accepted \o kept /\ accepted' = accepted \o kept
      /\ capture' = NoCapture /\ SpecAnswer("ok")
  BY DEF SpecCommitPartial
<1>3. commit \in 0 .. Len(draft) /\ commit \in 1 .. Len(draft) - 1
  BY <1>1, SpecFacts
<1>4. kept = SubSeq(draft, 1, commit)
  BY <1>1, <1>3, SpecFacts, PrefixType, CleanPrefix, UptoEosClean DEF Fits
<1> HIDE DEF kept
<1>5. accepted' = Kept(commit) /\ checkpoint' = After(commit)
  BY <1>1, <1>2, <1>3, <1>4, SpecFacts, KeptThen
<1>6. /\ accepted[1] # Eos /\ Agree(commit) /\ IInv /\ slots[commit] = After(commit)
      /\ \A l \in Layers : snap[l] = After(0)
  BY <1>1, <1>3 DEF FInv, Stands
<1>7. logits' = After(commit) /\ \A l \in Layers : fed'[l] = After(commit)
  BY <1>1, <1>2, <1>3, <1>6, RowsExact
<1>8. RowOfEnd'
  BY <1>2 DEF RowOfEnd, NoCapture
<1> QED  BY <1>1, <1>2, <1>3, <1>5, <1>6, <1>7, <1>8, OkFrontier

LEMMA NoCommitFrontier ==
  ASSUME SInv, FInv, SpecNoCommit
  PROVE  FInv'
<1>1. pc = "commit" /\ InSpec
  BY DEF SpecNoCommit, InSpec
<1>2. /\ pc' = "rollback"
      /\ UNCHANGED <<saved, base, checkpoint, valid, logits, capture, accepted, draft, snap, commit>>
  BY DEF SpecNoCommit, Stage, live
<1>3. (\A n : After(n)' = After(n)) /\ (\A n : Agree(n)' <=> Agree(n))
  BY <1>2, SameDrafts
<1>4. /\ logits = After(0) /\ accepted[1] # Eos /\ IInv /\ RowOfEnd /\ Agree(commit)
      /\ \A l \in Layers : snap[l] = After(0)
  BY <1>1 DEF FInv, Stands
<1>5. Agree(commit)'
  BY <1>2, <1>3, <1>4 DEF Agree
<1>6. Stands' /\ RowOfEnd'
  BY <1>2, <1>3, <1>4, <1>5 DEF Stands, RowOfEnd
<1>7. IInv' /\ GreedyExact'
  BY <1>2, <1>4, StageFrontier
<1> QED  BY <1>6, <1>7 DEF FInv

LEMMA RollbackFrontier ==
  ASSUME SInv, FInv, SpecRollback
  PROVE  FInv'
<1> DEFINE again == UptoEos(SubSeq(draft, 1, commit))
<1>1. InSpec /\ pc = "rollback" /\ accepted = Kept(0) /\ commit \in 0 .. Len(draft)
  BY DEF SpecRollback, RollbackTo, SInv, Stages, InSpec
<1>2. /\ checkpoint' = base \o accepted /\ capture' = NoCapture /\ fed' = snap
      /\ UNCHANGED <<valid, logits, accepted>>
  BY DEF SpecRollback, RollbackTo
<1>3. checkpoint' = After(0) /\ valid' /\ 0 \in 0 .. Len(draft) /\ RowOfEnd'
  <2>1. checkpoint' = After(0)
    BY <1>1, <1>2, WholeDraft
  <2>2. valid' /\ 0 \in 0 .. Len(draft)
    BY <1>1, <1>2, SpecFacts
  <2>3. RowOfEnd'
    BY <1>2 DEF RowOfEnd, NoCapture
  <2> QED  BY <2>1, <2>2, <2>3
<1>4. /\ logits = After(0) /\ accepted[1] # Eos /\ IInv /\ Agree(commit)
      /\ \A l \in Layers : snap[l] = After(0)
  BY <1>1 DEF FInv, Stands
<1>5. CASE commit = 0
  <2>1. SpecAnswer("ok")
    BY <1>5 DEF SpecRollback, RollbackTo
  <2>2. Agree(0)
    BY <1>4, <1>5
  <2> QED  BY <1>1, <1>2, <1>3, <1>4, <2>1, <2>2, OkFrontier
<1>6. CASE commit # 0
  <2>1. /\ draft' = again /\ commit' = Len(again) /\ pc' = "replay"
        /\ UNCHANGED <<base, saved, snap, slots>>
    BY <1>6 DEF SpecRollback, RollbackTo, Stage
  <2>2. again = SubSeq(draft, 1, commit)
    BY <1>1, SpecFacts, PrefixType, CleanPrefix, UptoEosClean DEF Fits
  <2> HIDE DEF again
  <2>3. Len(draft') = commit /\ commit \in Nat /\ Replayed' = 0
    BY <1>1, <2>1, <2>2, SpecFacts, PrefixType DEF Replayed
  <2>4. ASSUME NEW n \in 0 .. commit PROVE After(n)' = After(n)
    <3>1. Took(accepted[1], SubSeq(draft, 1, commit), n) = Took(accepted[1], draft, n)
      BY <1>1, SpecFacts, TookOfPrefix
    <3> QED  BY <1>2, <2>1, <2>2, <3>1 DEF After, Kept
  <2>5. \A i \in 1 .. commit : draft'[i] = draft[i]
    <3>1. \A i \in 1 .. commit : draft[i] \in Token
      BY <1>1, SpecFacts, ElementOfSeq
    <3>2. \A i \in 1 .. commit - 1 + 1 : SubSeq(draft, 1, commit)[i] = draft[1 + i - 1]
      BY <1>1, <3>1, SpecFacts, SubSeqProperties
    <3>3. \A i \in 1 .. commit : i \in 1 .. commit - 1 + 1 /\ 1 + i - 1 = i
      BY <2>3
    <3> QED  BY <2>1, <2>2, <3>2, <3>3
  <2>6. Agree(Len(draft))'
    <3> SUFFICES ASSUME NEW i \in 1 .. commit PROVE draft'[i] = Greedy(After(i - 1)')
      BY <2>3 DEF Agree
    <3>1. i - 1 \in 0 .. commit
      BY <2>3
    <3>2. draft[i] = Greedy(After(i - 1))
      BY <1>4 DEF Agree
    <3> QED  BY <2>4, <2>5, <3>1, <3>2
  <2>7. After(0)' = After(0)
    BY <2>3, <2>4
  <2>8. AllAt(Replayed)'
    BY <1>2, <1>4, <2>3, <2>7 DEF AllAt
  <2>9. Stands'
    BY <1>2, <1>4, <2>1, <2>6, <2>7, <2>8 DEF Stands
  <2>10. IInv' /\ GreedyExact'
    BY <1>4, <2>1, StageFrontier
  <2> QED  BY <1>3, <2>9, <2>10 DEF FInv
<1> QED  BY <1>5, <1>6

LEMMA ReplayFrontier ==
  ASSUME SInv, FInv, SpecReplay
  PROVE  FInv'
<1> DEFINE t == draft[Len(draft) - commit + 1]
           after == [l \in Layers |-> FeedOne(fed[l], t, Len(checkpoint))]
<1>1. InSpec /\ pc = "replay" /\ commit > 0 /\ commit \in 0 .. Len(draft) /\ checkpoint = After(Replayed)
  BY DEF SpecReplay, SInv, Stages, InSpec
<1>2. /\ fed' = after /\ commit' = commit - 1 /\ pc' = "replay"
      /\ capture' = [ok |-> Dspark, len |-> 0, seq |-> IF Dspark THEN Output(after) ELSE <<>>]
      /\ checkpoint' = Append(checkpoint, t) /\ accepted' = Append(accepted, t)
      /\ UNCHANGED <<saved, base, valid, logits, draft>>
  BY DEF SpecReplay, Stage
<1>3. /\ logits = After(0) /\ accepted[1] # Eos /\ IInv /\ AllAt(Replayed) /\ Agree(Len(draft))
  BY <1>1 DEF FInv, Stands
<1>4. /\ Replayed + 1 \in 0 .. Len(draft) /\ t \in Token
      /\ accepted' = Kept(Replayed + 1) /\ checkpoint' = After(Replayed + 1)
  BY <1>1, <1>2, ReplayNext
<1>5. accepted'[1] = accepted[1]
  BY <1>1, <1>4, SpecFacts, KeptIs
<1>6. Replayed' = Replayed + 1
  BY <1>1, <1>2, SpecFacts DEF Replayed
<1>7. (\A n : After(n)' = After(n)) /\ (\A n : Agree(n)' <=> Agree(n))
  BY <1>2, <1>5, SameDrafts
<1>8. \A l \in Layers : after[l] = After(Replayed + 1)
  <2>1. checkpoint \in Seq(Token) /\ \A l \in Layers : fed[l] = checkpoint
    BY <1>1, <1>3, SpecFacts DEF AllAt
  <2>2. FeedOne(checkpoint, t, Len(checkpoint)) = After(Replayed + 1)
    <3> HIDE DEF t
    <3> QED  BY <1>2, <1>4, <2>1, FeedOneExact
  <2> QED  BY <2>1, <2>2
<1>9. Output(after) = checkpoint'
  BY <1>4, <1>8, OutputExact
<1> HIDE DEF t, after
<1>10. RowOfEnd'
  BY <1>2, <1>9 DEF RowOfEnd
<1>11. AllAt(Replayed)'
  BY <1>2, <1>6, <1>7, <1>8 DEF AllAt
<1>12. Agree(Len(draft))'
  BY <1>2, <1>3, <1>7 DEF Agree
<1>13. Stands'
  BY <1>2, <1>3, <1>5, <1>7, <1>11, <1>12 DEF Stands
<1>14. IInv' /\ GreedyExact'
  BY <1>2, <1>3, StageFrontier
<1> QED  BY <1>10, <1>13, <1>14 DEF FInv

LEMMA ReplayDoneFrontier ==
  ASSUME SInv, FInv, SpecReplayDone
  PROVE  FInv'
<1>1. /\ InSpec /\ pc = "replay" /\ accepted = Kept(Len(draft)) /\ checkpoint = After(Len(draft))
      /\ Replayed = Len(draft)
  <2>1. InSpec /\ pc = "replay" /\ commit = 0 /\ accepted = Kept(Replayed) /\ checkpoint = After(Replayed)
    BY DEF SpecReplayDone, SInv, Stages, InSpec
  <2>2. Replayed = Len(draft)
    BY <2>1, SpecFacts DEF Replayed
  <2> QED  BY <2>1, <2>2
<1>2. /\ logits' = Output(fed) /\ valid' /\ capture' = Noted(capture, checkpoint)
      /\ SpecAnswer("ok") /\ UNCHANGED <<checkpoint, fed, accepted>>
  BY DEF SpecReplayDone
<1>3. Len(draft) \in 0 .. Len(draft) /\ valid /\ checkpoint \in Seq(Token) /\ capture \in CaptureType
  BY <1>1, SpecFacts
<1>4. /\ accepted[1] # Eos /\ Agree(Len(draft)) /\ IInv
      /\ \A l \in Layers : fed[l] = After(Len(draft))
  BY <1>1 DEF FInv, Stands, AllAt
<1>5. logits' = After(Len(draft))
  BY <1>2, <1>4, OutputExact
<1>6. RowOfEnd'
  <2>1. ASSUME capture'.ok PROVE capture.ok /\ capture'.seq = capture.seq
    BY <1>2, <1>3, <2>1, NotedRow
  <2> QED  BY <1>2, <1>3, <2>1 DEF FInv, RowOfEnd
<1> QED  BY <1>1, <1>2, <1>3, <1>4, <1>5, <1>6, OkFrontier

LEMMA FrontiersStep ==
  ASSUME Ample, SInv, FInv, [SpecNext]_specVars
  PROVE  FInv'
<1> USE DEF Ample
<1>0. IInv
  BY DEF FInv
<1>1. ASSUME NEW t \in Token, NEW n \in Limits, SpecCall(t, n) PROVE FInv'
  BY <1>1, CallFrontier
<1>2. CASE SpecCallFault
  BY <1>0, <1>2, ErrorFrontier DEF SpecCallFault, DecodeFailed
<1>3. ASSUME NEW d \in Drafts, SpecPropose(d) PROVE FInv'
  BY <1>3, ProposeFrontier
<1>4. CASE SpecRollbackFault \/ SpecReplayFault
  BY <1>0, <1>4, ErrorFrontier DEF SpecRollbackFault, SpecReplayFault, SpecAnswer
<1>5. CASE SpecStep
  BY <1>3, <1>4, <1>5, SkipFrontier, VerifyFrontier, VerifyFaultFrontier, CommitFullFrontier,
     CommitPartialFrontier, NoCommitFrontier, RollbackFrontier, ReplayFrontier, ReplayDoneFrontier
     DEF SpecStep
<1>6. CASE UNCHANGED specVars
  <2>1. UNCHANGED vars /\ UNCHANGED <<base, accepted, limit, draft, snap, slots, commit>>
    BY <1>6 DEF specVars, spec
  <2>2. UNCHANGED <<checkpoint, valid, fed, logits, capture, pc, op, ret, saved>>
    BY <2>1 DEF vars, live, graph
  <2>3. TInv /\ RowOfEnd /\ Stands /\ GreedyExact
    BY DEF SInv, FInv
  <2>4. IInv' /\ RowOfEnd'
    BY <1>0, <2>1, <2>3, FrontierStep, RowStep
  <2>5. \A n : After(n)' = After(n) /\ (Agree(n)' <=> Agree(n)) /\ (AllAt(n)' <=> AllAt(n))
    BY <2>1, <2>2, SameDrafts DEF AllAt
  <2>6. Stands'
    BY <2>1, <2>2, <2>3, <2>5 DEF Stands, InSpec, Replayed, Agree, AllAt
  <2>7. GreedyExact'
    BY <2>1, <2>2, <2>3 DEF GreedyExact, SpecReturned, Idle
  <2> QED  BY <2>4, <2>6, <2>7 DEF FInv
<1> QED  BY <1>1, <1>2, <1>5, <1>6, SessionFrontier DEF SpecNext

(* The invariant of a session that speculates: every stage of a            *)
(* speculation knows where its layers, its snapshot and its slots stand.   *)
THEOREM SpecInvariant == Ample /\ SpecSpec => [](SInv /\ FInv)
<1>1. SpecInit => FInv
  <2> SUFFICES ASSUME SpecInit PROVE FInv
    OBVIOUS
  <2>1. IInv /\ RowOfEnd
    BY DEF SpecInit, Init, IInv, Idle, RangeFrontier, ExtendFrontier, OkValid, FrontierMatches,
           SavedPayloadSound, RowOfEnd
  <2>2. Stands /\ GreedyExact
    BY DEF SpecInit, Init, Stands, InSpec, GreedyExact, SpecReturned
  <2> QED  BY <2>1, <2>2 DEF FInv
<1>2. Ample /\ SInv /\ FInv /\ [SpecNext]_specVars => SInv' /\ FInv'
  BY ControlStep, FrontiersStep DEF Ample
<1>3. CASE Ample
  BY <1>1, <1>2, <1>3, ControlInit, PTL DEF SpecSpec
<1> QED  BY <1>3

(* Whenever the program has control, the layers, the logits and the row    *)
(* DSpark drafts from stand at the checkpoint: whether the last drafts     *)
(* were committed whole, from a captured prefix, or by rollback and        *)
(* replay.                                                                 *)
THEOREM SpecFrontiers == Ample /\ SpecSpec => []SpecFrontier
<1>1. FInv => SpecFrontier
  BY DEF FInv, IInv, RowOfEnd, SpecFrontier, CaptureSound
<1> QED  BY <1>1, SpecInvariant, PTL

(* Speculation never changes the text: what is accepted behind the first   *)
(* token is the target's own choice, token by token, up to Eos.            *)
THEOREM GreedyText == Ample /\ SpecSpec => []GreedyExact
<1>1. FInv => GreedyExact
  BY DEF FInv
<1> QED  BY <1>1, SpecInvariant, PTL

-----------------------------------------------------------------------------
(* What the program sees *)

(* The logits answer the text, whenever they are looked at. *)
Visible ==
  /\ Answering = Held
  /\ checkpoint \in Seq(Token) /\ checkpoint # Torn /\ prompt \in Seq(Token) /\ prompt # Torn
  /\ valid \in BOOLEAN

LEMMA Seen == TInv /\ IInv => Visible
<1> SUFFICES ASSUME TInv, IInv PROVE Visible
  OBVIOUS
<1>1. checkpoint \in Seq(Token) /\ prompt \in Seq(Token) /\ valid \in BOOLEAN
  BY DEF TInv, DataOK
<1>2. Answering = Held
  BY DEF IInv, FrontierMatches, Answering, Held, InSpec
<1> QED  BY <1>1, <1>2, TornAssumption DEF Visible

LEMMA SeenNext == (TInv /\ IInv => Visible)'
<1>1. TInv /\ IInv => Visible
  BY Seen
<1> QED  BY <1>1, PTL

(* A text that goes on by what a speculation accepted. *)
LEMMA AcceptedContinues ==
  ASSUME NEW s \in Seq(Token), NEW a \in Seq(Token), a # <<>>, Len(s \o a) <= CtxSize,
         \A i \in 2 .. Len(a) : a[i] = Greedy(s \o SubSeq(a, 1, i - 1)) /\ a[i - 1] # Eos
  PROVE  Text!Continues(s, s \o a)
<1> DEFINE t == s \o a
<1>1. /\ t \in Seq(Token) /\ Len(t) = Len(s) + Len(a) /\ Len(s) \in Nat /\ Len(a) \in Nat \ {0}
      /\ \A i \in 1 .. Len(s) : t[i] = s[i]
      /\ \A i \in 1 .. Len(a) : t[Len(s) + i] = a[i]
  BY ConcatProperties, EmptySeq
<1>2. ASSUME NEW i \in 0 .. Len(a)
      PROVE  SubSeq(t, 1, Len(s) + i) = s \o SubSeq(a, 1, i)
  <2>1. SubSeq(a, 1, i) \in Seq(Token) /\ Len(SubSeq(a, 1, i)) = i
    BY PrefixType
  <2>2. /\ s \o SubSeq(a, 1, i) \in Seq(Token) /\ Len(s \o SubSeq(a, 1, i)) = Len(s) + i
        /\ \A j \in 1 .. Len(s) : (s \o SubSeq(a, 1, i))[j] = s[j]
        /\ \A j \in 1 .. i : (s \o SubSeq(a, 1, i))[Len(s) + j] = SubSeq(a, 1, i)[j]
    BY <2>1, ConcatProperties
  <2>3. Len(s) + i \in 0 .. Len(t)
    BY <1>1
  <2>4. SubSeq(t, 1, Len(s) + i) \in Seq(Token) /\ Len(SubSeq(t, 1, Len(s) + i)) = Len(s) + i
    BY <1>1, <2>3, PrefixType
  <2>5. ASSUME NEW j \in 1 .. Len(s) + i
        PROVE  SubSeq(t, 1, Len(s) + i)[j] = (s \o SubSeq(a, 1, i))[j]
    <3>1. SubSeq(t, 1, Len(s) + i)[j] = t[j]
      BY <1>1, <2>3
    <3>2. CASE j <= Len(s)
      BY <1>1, <2>2, <3>1, <3>2
    <3>3. CASE j > Len(s)
      <4>1. j - Len(s) \in 1 .. i /\ j = Len(s) + (j - Len(s))
        BY <1>1, <3>3
      <4>2. SubSeq(a, 1, i)[j - Len(s)] = a[j - Len(s)]
        BY <4>1
      <4> QED  BY <1>1, <2>2, <3>1, <4>1, <4>2
    <3> QED  BY <1>1, <3>2, <3>3
  <2> HIDE DEF t
  <2> QED  BY <2>2, <2>4, <2>5, SeqEqual
<1>3. SubSeq(t, 1, Len(s)) = s
  <2>1. SubSeq(t, 1, Len(s) + 0) = s \o SubSeq(a, 1, 0)
    BY <1>1, <1>2
  <2>2. SubSeq(a, 1, 0) = <<>>
    BY PrefixType, EmptySeq
  <2> QED  BY <1>1, <2>1, <2>2, ConcatEmptySeq
<1>4. ASSUME NEW i \in Len(s) + 2 .. Len(t)
      PROVE  t[i] = Greedy(SubSeq(t, 1, i - 1)) /\ t[i - 1] # Eos
  <2> DEFINE j == i - Len(s)
  <2>1. j \in 2 .. Len(a) /\ j - 1 \in 1 .. Len(a) /\ i = Len(s) + j /\ i - 1 = Len(s) + (j - 1)
    BY <1>1
  <2>2. t[i] = a[j] /\ t[i - 1] = a[j - 1] /\ SubSeq(t, 1, i - 1) = s \o SubSeq(a, 1, j - 1)
    BY <1>1, <1>2, <2>1
  <2> QED  BY <2>1, <2>2
<1> QED  BY <1>1, <1>3, <1>4 DEF Text!Continues, Text!Beginning

(* A text that goes on by one token. *)
LEMMA OneContinues ==
  ASSUME NEW s \in Seq(Token), NEW t \in Token, Len(s) < CtxSize
  PROVE  Text!Continues(s, Append(s, t))
<1>1. Append(s, t) \in Seq(Token) /\ Len(Append(s, t)) = Len(s) + 1 /\ Len(s) \in Nat
  BY AppendProperties
<1>2. SubSeq(Append(s, t), 1, Len(s)) = s
  BY <1>1, AppendProperties, SubSeqProperties
<1> QED  BY <1>1, <1>2, SizesAssumption DEF Text!Continues, Text!Beginning

(* A call that begins, until its first step. *)
LEMMA StartSeen ==
  ASSUME Visible, Visible', NEW p \in Prompts, NEW who \in {"sync", "rewrite"},
         Idle, op' = who, SyncStart(p, who), saved' = saved
  PROVE  [Text!TextNext]_(Text!textVars)
<1> USE DEF Text!TextNext, Text!Becomes, Text!Quiet, Idle, live, graph
<1>1. /\ Answering = Held /\ Answering' = Held' /\ checkpoint \in Seq(Token) /\ checkpoint # Torn
      /\ p \in Seq(Token) /\ p # Torn /\ valid \in BOOLEAN /\ checkpoint' # Torn
  BY PromptsAssumption, TornAssumption DEF Visible
<1>2. ~Running /\ Held = IF valid THEN checkpoint ELSE Torn
  BY DEF Running, Held, InSpec
<1>3. CASE SyncReject(p, who) \/ SyncCancelled(p, who)
  <2>1. Held' = Held /\ ~Running' /\ ret' \in {"error", "interrupted", "rebuild"}
    BY <1>2, <1>3 DEF SyncReject, SyncCancelled, Answer, Told, Held, InSpec, Running
  <2>2. Text!Refuse
    BY <1>1, <1>2, <2>1 DEF Text!Refuse
  <2> QED  BY <2>2
<1>4. CASE SyncResume(p) \/ SyncExtend(p)
  <2>1. /\ Accepts(p) /\ Extends(p) /\ Held' = Held /\ Running' /\ prompt' = p /\ ret' = ret
    BY <1>2, <1>4 DEF SyncResume, SyncExtend, Held, InSpec, Running
  <2>2. Held = checkpoint /\ Text!Beginning(checkpoint, p)
    BY <1>2, <2>1 DEF Extends, StartsWith, Text!Beginning
  <2>3. Text!Ask(p)
    BY <1>1, <1>2, <2>1, <2>2 DEF Text!Ask, Accepts
  <2> QED  BY <2>3
<1>5. CASE SyncCold(p, who) /\ pc' = "report"
  <2>1. /\ Accepts(p) /\ ~Extends(p) /\ Held' = Torn /\ Running' /\ prompt' = p /\ ret' = ret
    BY <1>2, <1>5 DEF SyncCold, Answer, Held, InSpec, Running
  <2>2. Held # Torn => ~Text!Beginning(Held, p)
    BY <1>2, <2>1 DEF Extends, StartsWith, Text!Beginning
  <2>3. Text!Ask(p)
    BY <1>1, <1>2, <2>1, <2>2 DEF Text!Ask, Accepts
  <2> QED  BY <2>3
<1>6. CASE SyncCold(p, who) /\ pc' # "report"
  <2>1. Held' = Torn /\ ~Running' /\ ret' = "error"
    BY <1>6 DEF SyncCold, Answer, Told, Held, InSpec, Running
  <2>2. Text!Fail
    BY <1>1, <2>1 DEF Text!Fail
  <2> QED  BY <2>2
<1> QED  BY <1>3, <1>4, <1>5, <1>6 DEF SyncStart

(* The other calls between which nothing runs. *)
LEMMA CallSeen ==
  ASSUME TInv, IInv, Visible, Visible', Sound, Call
  PROVE  [Text!TextNext]_(Text!textVars)
<1> USE DEF Text!TextNext, Text!Becomes, Text!Quiet, Idle, live, graph
<1>1. /\ Answering = Held /\ Answering' = Held' /\ checkpoint \in Seq(Token) /\ checkpoint # Torn
      /\ checkpoint' # Torn /\ valid \in BOOLEAN
  BY DEF Visible
<1>2. pc \in {"idle", "loadfailed"} => ~Running /\ Held = IF valid THEN checkpoint ELSE Torn
  BY DEF Running, Held, InSpec
<1>3. ASSUME NEW p \in Prompts, SyncCall(p) PROVE [Text!TextNext]_(Text!textVars)
  BY <1>3, StartSeen DEF SyncCall
<1>4. ASSUME NEW p \in Prompts, NEW common, RewriteCall(p, common)
      PROVE  [Text!TextNext]_(Text!textVars)
  <2>1. CASE SyncStart(p, "rewrite")
    BY <1>4, <2>1, StartSeen DEF RewriteCall
  <2>2. CASE ~SyncStart(p, "rewrite")
    <3>1. pc = "idle" /\ Held' = Held /\ ~Running' /\ ret' \in {"error", "rebuild"} /\ saved' = saved
      BY <1>2, <1>4, <2>2 DEF RewriteCall, Answer, Told, Held, InSpec, Running
    <3>2. Text!Refuse
      BY <1>1, <1>2, <3>1 DEF Text!Refuse
    <3> QED  BY <3>2
  <2> QED  BY <2>1, <2>2
<1>5. ASSUME NEW t \in Token, Eval(t) PROVE [Text!TextNext]_(Text!textVars)
  <2>1. /\ pc = "idle" /\ ret = "ok" /\ ret' = "ok" /\ Len(checkpoint) < CtxSize
        /\ checkpoint' = Append(checkpoint, t) /\ valid' /\ pc' = "idle" /\ saved' = saved
    BY <1>5 DEF Eval, MayEval, Decoded, Immediate, Answer, Told
  <2>2. Held = checkpoint /\ Held' = checkpoint' /\ ~Running /\ ~Running'
    BY <1>2, <2>1 DEF IInv, OkValid, Held, InSpec, Running
  <2>3. Text!Continues(checkpoint, checkpoint')
    BY <1>1, <2>1, OneContinues
  <2>4. Text!Generate
    BY <1>1, <2>1, <2>2, <2>3 DEF Text!Generate
  <2> QED  BY <2>4
<1>6. CASE EvalFault
  <2>1. pc = "idle" /\ ~valid' /\ pc' = "idle" /\ ret' = "error" /\ saved' = saved
    BY <1>6 DEF EvalFault, MayEval, DecodeFailed, Immediate, Answer, Told
  <2>2. Text!Fail
    BY <1>1, <2>1 DEF Text!Fail, Held, InSpec, Running
  <2> QED  BY <2>2
<1>7. CASE Invalidate \/ LoadAbandon
  <2>1. pc \in {"idle", "loadfailed"} /\ ~valid' /\ pc' = "idle" /\ ret' = "none" /\ saved' = saved
    BY <1>7 DEF Invalidate, LoadAbandon, Forget, Immediate, Answer, Told
  <2>2. Text!Forget
    BY <1>1, <1>2, <2>1 DEF Text!Forget, Held, InSpec, Running
  <2> QED  BY <2>2
<1>8. CASE SavePayload
  <2>1. /\ UNCHANGED <<checkpoint, valid, prompt, pc, ret>> /\ pc \in {"idle", "report"} /\ valid
        /\ saved' = [tokens |-> checkpoint, fed |-> fed, logits |-> logits]
    BY <1>8 DEF SavePayload, job
  <2>2. Held' = Held /\ Held = checkpoint
    BY <2>1 DEF Held, InSpec
  <2>3. saved' # NoPayload
    BY <2>1, PayloadAssumption DEF TInv, DataOK, Payload
  <2>4. Text!Shelve
    BY <1>1, <2>1, <2>2, <2>3 DEF Text!Shelve, Running
  <2> QED  BY <2>4
<1>9. CASE LoadPayload
  <2>1. /\ pc = "idle" /\ pc' = "idle" /\ ret' = "ok" /\ valid' /\ checkpoint' = saved.tokens
        /\ saved # NoPayload /\ saved' = saved
    BY <1>9 DEF LoadPayload, Immediate, Answer, Told
  <2>2. Held' = saved.tokens /\ ~Running /\ ~Running'
    BY <2>1 DEF Held, InSpec, Running
  <2>3. Text!Restore
    BY <1>1, <2>1, <2>2 DEF Text!Restore
  <2> QED  BY <2>3
<1>10. CASE LoadFault
  <2>1. /\ pc = "idle" /\ pc' = "loadfailed" /\ ret' = "error" /\ saved' = saved
        /\ UNCHANGED <<checkpoint, valid>> \/ ~valid'
    BY <1>10 DEF LoadFault
  <2>2. ~Running /\ ~Running' /\ (~valid' => Held' = Torn)
    BY <2>1 DEF Held, InSpec, Running
  <2>3. CASE ~valid'
    <3>1. Text!Fail
      BY <1>1, <2>1, <2>2, <2>3 DEF Text!Fail
    <3> QED  BY <3>1
  <2>4. CASE valid'
    <3>1. Held' = Held
      BY <1>2, <2>1, <2>4 DEF Held, InSpec
    <3>2. Text!Refuse
      BY <1>1, <2>1, <2>2, <3>1 DEF Text!Refuse
    <3> QED  BY <3>2
  <2> QED  BY <2>3, <2>4
<1>11. ~\E n \in Rewinds : Rewind(n)
  BY DEF Sound
<1> QED  BY <1>3, <1>4, <1>5, <1>6, <1>7, <1>8, <1>9, <1>10, <1>11 DEF Call

(* The steps of a running sync. *)
LEMMA SyncSeen ==
  ASSUME TInv, IInv, Visible, Visible', Sound, SyncStep
  PROVE  [Text!TextNext]_(Text!textVars)
<1> USE DEF Text!TextNext, Text!Becomes, Text!Quiet, live, graph
<1>1. /\ Answering = Held /\ Answering' = Held' /\ checkpoint \in Seq(Token) /\ checkpoint # Torn
      /\ checkpoint' # Torn /\ valid \in BOOLEAN /\ prompt \in Seq(Token) /\ prompt # Torn
      /\ Len(prompt) \in Nat /\ Len(checkpoint) \in Nat
  BY DEF Visible
<1>2. Running /\ Held = (IF valid THEN checkpoint ELSE Torn) /\ saved' = saved
  BY DEF SyncStep, RangeStep, ExtendStep, RangeCancel, ChunkBegin, ChunkLayer, ChunkHead, WholeHead,
         RangeDone, RangeFault, ExtendToken, ExtendCancel, ExtendFault, ExtendDone, Running, Held, InSpec
<1>3. CASE RangeCancel
  <2>1. /\ checkpoint' = checkpoint /\ pc' = "idle" /\ ret' \in {"interrupted", "error"}
    BY <1>3 DEF RangeCancel, Return, Told
  <2>2. valid' = valid
    <3>1. CASE mode = "cold"
      <4>1. /\ valid' = (checkpoint # <<>>) /\ (valid <=> pos > 0) /\ checkpoint = SubSeq(prompt, 1, pos)
            /\ pos \in 0 .. Len(prompt)
        BY <1>1, <1>2, <1>3, <3>1 DEF RangeCancel, IInv, RangeFrontier, Upto, TInv, DataOK, RangeShape
      <4>2. Len(checkpoint) = pos
        BY <1>1, <4>1, PrefixType
      <4>3. checkpoint # <<>> <=> pos > 0
        BY <1>1, <4>1, <4>2, EmptySeq
      <4> QED  BY <1>1, <4>1, <4>3
    <3> QED  BY <1>3, <3>1 DEF RangeCancel
  <2>3. Text!Stop
    BY <1>1, <1>2, <2>1, <2>2 DEF Text!Stop, Held, InSpec, Running
  <2> QED  BY <2>3
<1>4. CASE ChunkBegin \/ ChunkLayer
  <2>1. UNCHANGED <<checkpoint, valid, prompt, ret>> /\ Running' /\ ~InSpec'
    BY <1>4 DEF ChunkBegin, ChunkLayer, Running, InSpec
  <2>2. Held' = Held
    BY <1>2, <2>1 DEF Held
  <2> QED  BY <1>1, <1>2, <2>1, <2>2 DEF Text!textVars
<1>5. CASE ChunkHead
  <2>1. /\ pc = "layers" /\ InChunks /\ checkpoint' = SubSeq(prompt, 1, ThisEnd) /\ valid'
        /\ Running' /\ ~InSpec' /\ UNCHANGED <<prompt, ret>>
    BY <1>5 DEF ChunkHead, Running, InSpec
  <2>2. pos < Len(prompt) /\ pos \in Nat
    BY <1>2, <2>1 DEF TInv, DataOK, RangeShape
  <2>3. ThisEnd \in pos + 1 .. Len(prompt)
    BY <1>2, <2>1, <2>2, ThisEndBounds
  <2>4. checkpoint = SubSeq(prompt, 1, pos)
    BY <2>1, Zenon DEF IInv, RangeFrontier, InChunks, Upto
  <2>5. Len(checkpoint) = pos
    BY <1>1, <2>2, <2>4, PrefixType
  <2>6. ThisEnd \in 1 .. Len(prompt) /\ (Held # Torn => Len(Held) < ThisEnd)
    BY <1>2, <2>2, <2>3, <2>5
  <2>7. Held' = SubSeq(prompt, 1, ThisEnd)
    BY <2>1 DEF Held
  <2>8. Text!Advance
    BY <1>1, <1>2, <2>1, <2>6, <2>7 DEF Text!Advance
  <2> QED  BY <2>8
<1>6. CASE WholeHead \/ RangeDone \/ ExtendDone
  <2>1. pc' = "idle" /\ ret' = "ok" /\ SyncReturns /\ [Next]_vars
    BY <1>2, <1>6 DEF WholeHead, RangeDone, ExtendDone, Return, Told, SyncReturns, Next, SyncStep,
                      RangeStep, ExtendStep
  <2>2. valid' /\ checkpoint' = prompt
    BY <1>2, <2>1, OkStep
  <2>3. Text!Finish
    BY <1>1, <1>2, <2>1, <2>2 DEF Text!Finish, Held, InSpec, Running
  <2> QED  BY <2>3
<1>7. CASE RangeFault
  <2>1. pc' = "idle" /\ ret' = "error"
    BY <1>7 DEF RangeFault, Return, Told
  <2>2. ~valid'
    <3>1. mode \in {"resume", "whole"}
      BY <1>2, <1>7 DEF RangeFault, Fails, Sound, TInv, RangeShape
    <3>2. mode = "whole" => ~valid
      BY <1>7, Zenon DEF RangeFault, IInv, RangeFrontier
    <3> QED  BY <1>7, <3>1, <3>2 DEF RangeFault
  <2>3. Text!Fail
    BY <1>1, <1>2, <2>1, <2>2 DEF Text!Fail, Held, InSpec, Running
  <2> QED  BY <2>3
<1>8. CASE ExtendToken
  <2> DEFINE n == Len(checkpoint)
  <2>1. /\ pc = "extend" /\ n < Len(prompt) /\ checkpoint' = Append(checkpoint, prompt[n + 1]) /\ valid'
        /\ Running' /\ ~InSpec' /\ UNCHANGED <<prompt, ret>>
    BY <1>8 DEF ExtendToken, Behind, Decoded, Running, InSpec, job
  <2>2. valid /\ checkpoint = SubSeq(prompt, 1, n)
    BY <2>1 DEF IInv, ExtendFrontier, StartsWith
  <2>3. Append(SubSeq(prompt, 1, n), prompt[n + 1]) = SubSeq(prompt, 1, n + 1)
    BY <1>1, <2>1, PrefixNext
  <2>4. checkpoint' = SubSeq(prompt, 1, n + 1)
    BY <2>1, <2>2, <2>3
  <2>5. Held' = SubSeq(prompt, 1, n + 1) /\ n + 1 \in 1 .. Len(prompt) /\ Held = checkpoint /\ n < n + 1
    BY <1>1, <1>2, <2>1, <2>2, <2>4 DEF Held
  <2>6. Text!Advance
    BY <1>1, <1>2, <2>1, <2>5 DEF Text!Advance
  <2> QED  BY <2>6
<1>9. CASE ExtendCancel
  <2>1. UNCHANGED <<checkpoint, valid>> /\ pc' = "idle" /\ ret' \in {"interrupted", "error"}
    BY <1>9 DEF ExtendCancel, Return, Told
  <2>2. Text!Stop
    BY <1>1, <1>2, <2>1 DEF Text!Stop, Held, InSpec, Running
  <2> QED  BY <2>2
<1>10. CASE ExtendFault
  <2>1. pc' = "idle" /\ ret' = "error" /\ ~valid'
    BY <1>10 DEF ExtendFault, DecodeFailed, Return, Told
  <2>2. Text!Fail
    BY <1>1, <1>2, <2>1 DEF Text!Fail, Held, InSpec, Running
  <2> QED  BY <2>2
<1> QED
  BY <1>3, <1>4, <1>5, <1>6, <1>7, <1>8, <1>9, <1>10 DEF SyncStep, RangeStep, ExtendStep

(* A speculation that returns what it accepted. *)
LEMMA ReturnSeen ==
  ASSUME SInv', FInv', Visible, Visible', base \in Seq(Token), ret = "ok",
         ~Running, Held = base, Len(base) < CtxSize,
         base' = base, op' = "speculate", pc' = "idle", ret' = "ok", saved' = saved,
         accepted' \in Seq(Token)
  PROVE  [Text!TextNext]_(Text!textVars)
<1>1. AcceptedIsLive' /\ GreedyExact'
  BY DEF SInv, FInv
<1>2. valid' /\ checkpoint' = base \o accepted' /\ Len(accepted') \in 1 .. limit'
  BY <1>1 DEF AcceptedIsLive, SpecReturned, Idle
<1>3. \A i \in 2 .. Len(accepted') :
        accepted'[i] = Greedy(base \o SubSeq(accepted', 1, i - 1)) /\ accepted'[i - 1] # Eos
  BY <1>1 DEF GreedyExact, SpecReturned, Idle
<1>4. accepted' # <<>>
  BY <1>2, EmptySeq
<1>5. Len(base \o accepted') <= CtxSize
  <2>1. /\ Len(base \o accepted') = Len(base) + Len(accepted')
        /\ Len(base) \in Nat /\ Len(accepted') \in Nat
    BY ConcatProperties
  <2>2. Len(accepted') > 1 => Len(base \o accepted') < CtxSize
    BY <1>1, <1>2 DEF AcceptedIsLive, SpecReturned, Idle
  <2> QED  BY <1>2, <2>1, <2>2, SizesAssumption
<1>6. Text!Continues(base, base \o accepted')
  <2>1. PICK a \in Seq(Token) : a = accepted'
    OBVIOUS
  <2> QED  BY <1>3, <1>4, <1>5, <2>1, AcceptedContinues
<1>7. Held' = base \o accepted' /\ Held' # Torn /\ base # Torn /\ ~Running'
  BY <1>2, TornAssumption DEF Held, InSpec, Running, Visible
<1>8. Text!Generate
  BY <1>6, <1>7 DEF Text!Generate, Text!Quiet, Visible
<1> QED  BY <1>8 DEF Text!TextNext

(* A speculation is of a session that was told ok, with room for a token.  *)
Pending == InSpec => ret = "ok" /\ Len(base) < CtxSize

LEMMA PendingStep ==
  ASSUME SInv, Pending, [SpecNext]_specVars
  PROVE  Pending'
<1> USE DEF Pending
<1>1. ASSUME NEW t \in Token, NEW n \in Limits, SpecCall(t, n) PROVE Pending'
  BY <1>1 DEF SpecCall, MayEval
<1>2. CASE SpecCallFault
  BY <1>2 DEF SpecCallFault, InSpec
<1>3. CASE SessionStep
  BY <1>3, SessionCalls DEF SessionStep, SInv
<1>4. CASE SpecStep
  <2>1. InSpec /\ base' = base /\ (InSpec' => ret' = ret)
    BY <1>4
       DEF SpecStep, SpecSkip, SpecPropose, SpecVerify, SpecVerifyFault, SpecCommitFull, SpecCommitPartial,
           SpecNoCommit, SpecRollback, RollbackTo, SpecRollbackFault, SpecReplay, SpecReplayFault,
           SpecReplayDone, SpecAnswer, Stage, InSpec
  <2> QED  BY <2>1
<1>5. CASE UNCHANGED specVars
  BY <1>5 DEF specVars, spec, vars, InSpec
<1> QED  BY <1>1, <1>2, <1>3, <1>4, <1>5 DEF SpecNext

(* How a step of a speculation may go on. *)
LEMMA SpecSteps ==
  ASSUME SpecStep
  PROVE  /\ InSpec /\ UNCHANGED <<op, base, saved>>
         /\ \/ InSpec' /\ ret' = ret
            \/ pc' = "idle" /\ ret' = "ok"
            \/ pc' = "idle" /\ ret' = "error" /\ ~valid'
<1>1. ASSUME NEW d \in Drafts, SpecPropose(d)
      PROVE  InSpec /\ UNCHANGED <<op, base, saved>> /\ InSpec' /\ ret' = ret
  BY <1>1 DEF SpecPropose, Stage, InSpec
<1>2. CASE SpecVerify \/ SpecVerifyFault \/ SpecNoCommit \/ SpecReplay
  BY <1>2 DEF SpecVerify, SpecVerifyFault, SpecNoCommit, SpecReplay, Stage, InSpec
<1>3. CASE SpecSkip \/ SpecCommitFull \/ SpecCommitPartial \/ SpecReplayDone
  BY <1>3 DEF SpecSkip, SpecCommitFull, SpecCommitPartial, SpecReplayDone, SpecAnswer, InSpec
<1>4. CASE SpecRollback
  BY <1>4 DEF SpecRollback, RollbackTo, SpecAnswer, Stage, InSpec
<1>5. CASE SpecRollbackFault \/ SpecReplayFault
  BY <1>5 DEF SpecRollbackFault, SpecReplayFault, SpecAnswer, InSpec
<1> QED  BY <1>1, <1>2, <1>3, <1>4, <1>5 DEF SpecStep

(* Every step of the session is one of the text, or none. *)
LEMMA TextStep ==
  ASSUME Ample, SInv, FInv, Pending, SInv', FInv', [SpecNext]_specVars
  PROVE  [Text!TextNext]_(Text!textVars)
<1>1. Visible /\ Visible'
  BY Seen, SeenNext DEF SInv, FInv
<1>2. TInv /\ IInv /\ Sound /\ base \in Seq(Token) /\ accepted' \in Seq(Token)
  BY DEF Ample, FInv, SInv, STypes
<1>3. CASE SessionStep
  <2>1. SyncStep \/ Call
    BY <1>3 DEF SessionStep, Next
  <2> QED  BY <1>1, <1>2, <2>1, SyncSeen, CallSeen
<1>4. ASSUME NEW t \in Token, NEW n \in Limits, SpecCall(t, n)
      PROVE  [Text!TextNext]_(Text!textVars)
  <2>1. /\ pc = "idle" /\ ret = "ok" /\ ret' = "ok" /\ Len(checkpoint) < CtxSize
        /\ checkpoint' = Append(checkpoint, t) /\ valid' /\ base' = checkpoint
        /\ pc' \in {"idle", "propose"} /\ saved' = saved
    BY <1>4 DEF SpecCall, MayEval, Idle, Decoded
  <2>2. valid /\ Held = checkpoint /\ ~Running /\ ~Running'
    BY <1>2, <2>1 DEF IInv, OkValid, Idle, Held, InSpec, Running
  <2>3. CASE pc' = "propose"
    <3>1. Held' = checkpoint
      BY <2>1, <2>3 DEF Held, InSpec
    <3> QED  BY <1>1, <2>1, <2>2, <3>1 DEF Visible, Text!textVars
  <2>4. CASE pc' = "idle"
    <3>1. Held' = checkpoint'
      BY <2>1, <2>4 DEF Held, InSpec
    <3>2. Text!Continues(checkpoint, checkpoint')
      BY <1>1, <2>1, OneContinues DEF Visible
    <3>3. Text!Generate
      BY <1>1, <2>1, <2>2, <3>1, <3>2 DEF Visible, Text!Generate, Text!Quiet
    <3> QED  BY <3>3 DEF Text!TextNext
  <2> QED  BY <2>1, <2>3, <2>4
<1>5. CASE SpecCallFault
  <2>1. pc' = "idle" /\ ret' = "error" /\ ~valid' /\ saved' = saved
    BY <1>5 DEF SpecCallFault, DecodeFailed
  <2>2. Text!Fail
    BY <1>1, <2>1 DEF Text!Fail, Text!Becomes, Visible, Held, InSpec, Running
  <2> QED  BY <2>2 DEF Text!TextNext
<1>6. CASE SpecStep
  <2>1. /\ InSpec /\ UNCHANGED <<op, base, saved>>
        /\ \/ InSpec' /\ ret' = ret
           \/ pc' = "idle" /\ ret' = "ok"
           \/ pc' = "idle" /\ ret' = "error" /\ ~valid'
    BY <1>6, SpecSteps
  <2>2. Held = base /\ ~Running /\ ret = "ok" /\ Len(base) < CtxSize /\ op = "speculate"
    BY <2>1 DEF Held, InSpec, Running, Pending, SInv, Calls
  <2>3. CASE InSpec' /\ ret' = ret
    <3>1. Held' = base /\ ~Running'
      BY <2>1, <2>3 DEF Held, InSpec, Running
    <3> QED  BY <1>1, <2>1, <2>2, <2>3, <3>1 DEF Visible, Text!textVars
  <2>4. CASE pc' = "idle" /\ ret' = "ok"
    BY <1>1, <1>2, <2>1, <2>2, <2>4, ReturnSeen
  <2>5. CASE pc' = "idle" /\ ret' = "error" /\ ~valid'
    <3>1. Text!Fail
      BY <1>1, <2>1, <2>5 DEF Text!Fail, Text!Becomes, Visible, Held, InSpec, Running
    <3> QED  BY <3>1 DEF Text!TextNext
  <2> QED  BY <2>1, <2>3, <2>4, <2>5
<1>7. CASE UNCHANGED specVars
  BY <1>7 DEF specVars, spec, vars, live, graph, job, Text!textVars, Held, Answering, InSpec, Running
<1> QED  BY <1>3, <1>4, <1>5, <1>6, <1>7 DEF SpecNext

(* What the program sees of a session is TextSession: its text is that of  *)
(* its own prompts and tokens or is gone, its logits answer it, and a      *)
(* payload brings it back.                                                 *)
THEOREM SessionText == Sound /\ Spec => KeepsText
<1>1. Init => Text!TextInit
  BY DEF Init, Text!TextInit, Held, Answering, InSpec, Running
<1>2. ASSUME Sound, TInv, IInv, TypeOK, TInv', IInv', TypeOK', [Next]_vars
      PROVE  [Text!TextNext]_(Text!textVars)
  <2>1. Visible /\ Visible'
    BY <1>2, Seen, SeenNext
  <2>2. CASE Next
    BY <1>2, <2>1, <2>2, SyncSeen, CallSeen DEF Next
  <2>3. CASE UNCHANGED vars
    <3>1. UNCHANGED <<checkpoint, valid, prompt, pc, ret, saved>> /\ ~InSpec /\ ~InSpec'
      BY <1>2, <2>3 DEF vars, live, job, TypeOK, InSpec
    <3>2. Held' = Held
      BY <3>1 DEF Held
    <3> QED  BY <2>1, <3>1, <3>2 DEF Visible, Text!textVars, Running
  <2> QED  BY <1>2, <2>2, <2>3
<1>3. CASE Sound
  BY <1>1, <1>2, <1>3, SessionInvariant, Types, PTL DEF Spec, KeepsText, Text!TextSpec
<1> QED  BY <1>3

(* And of a session that speculates: the text goes on by the target's own  *)
(* choices, by many tokens at once.                                        *)
THEOREM TextKept == Ample /\ SpecSpec => KeepsText
<1>1. SpecInit => Pending /\ Text!TextInit
  BY DEF SpecInit, Init, Pending, InSpec, Text!TextInit, Held, Answering, Running
<1>2. Ample /\ SInv /\ FInv /\ SInv' /\ FInv' /\ Pending /\ [SpecNext]_specVars
        => Pending' /\ [Text!TextNext]_(Text!textVars)
  BY PendingStep, TextStep
<1>3. CASE Ample
  BY <1>1, <1>2, <1>3, SpecInvariant, PTL DEF SpecSpec, KeepsText, Text!TextSpec
<1> QED  BY <1>3

=============================================================================

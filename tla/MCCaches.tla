------------------------------ MODULE MCCaches ------------------------------
(***************************************************************************)
(* What a session fills in pieces.  The raw window where every chunk fits  *)
(* its ring behind its window (RawRing's own names) and where the largest  *)
(* ring is shorter than a chunk (LongRing), the ring of the drafter        *)
(* (DsparkCache's own names) and the chunks of longer prompts (Long).      *)
(* They share nothing: the initial state chooses the one that moves, the   *)
(* others stay in theirs.                                                  *)
(***************************************************************************)
EXTENDS RawRing, DsparkCache, TLC

CONSTANT t1
VARIABLES side, lring, llen, lseen, lsaved,
          checkpoint, cvalid, fed, logits, capture, cpc, op, ret, prompt, mode, start, pos, il, file

lvars == <<lring, llen, lseen, lsaved>>
svars == <<checkpoint, cvalid, fed, logits, capture, cpc, op, ret, prompt, mode, start, pos, il, file>>

ASSUME DraftAssumption

(* Chunks of six tokens, and a largest ring of four rows. *)
LongRing == INSTANCE RawRing WITH
  Window <- 2, CtxSize <- 14, Requested <- 6, Pad <- 2, MaxRaw <- 4, MaxDraft <- 2,
  ring <- lring, len <- llen, seen <- lseen, saved <- lsaved

(* One token, one layer, prompts of up to seven tokens in chunks of three, *)
(* and a program that rewinds to within a chunk and to where one ends.     *)
Long == INSTANCE Session WITH
  Token <- {t1}, NLayers <- 1, CtxSize <- 7, PrefillCap <- 3, RawCap <- 4, ResumeMin <- 2,
  Dspark <- FALSE, Prompts <- UNION {[1 .. n -> {t1}] : n \in {0, 2, 3, 4, 5, 7}}, FaultSites <- {},
  Rewinds <- {1, 3, 5}, Torn <- Stale, saved <- file, valid <- cvalid, pc <- cpc

mcvars == <<vars, lvars, svars, draftvars, side>>

MCInit ==
  /\ Init /\ LongRing!Init /\ Long!Init /\ DraftInit
  /\ side \in {"ring", "long ring", "session", "drafter"}
MCNext ==
  /\ UNCHANGED side
  /\ \/ side = "ring" /\ Next /\ UNCHANGED <<lvars, svars, draftvars>>
     \/ side = "long ring" /\ LongRing!Next /\ UNCHANGED <<vars, svars, draftvars>>
     \/ side = "session" /\ Long!Next /\ UNCHANGED <<vars, lvars, draftvars>>
     \/ side = "drafter" /\ DraftNext /\ UNCHANGED <<vars, lvars, svars>>

(* The fairness of Session: a call that runs goes on; and of DsparkCache:  *)
(* what follows a proposal is not left off.                                *)
MCSpec == MCInit /\ [][MCNext]_mcvars
            /\ WF_svars(Long!SyncStep) /\ WF_svars(Long!LoadAbandon) /\ WF_draftvars(FollowUp)

-----------------------------------------------------------------------------
(* Where the ring is shorter than a chunk, a query still misses no key of  *)
(* its own launch and reads no other live token's row: a cold chunk that   *)
(* does not fit is refused, a later one is cut to the ring.                *)
LongOwnRowsSeen == LongRing!OwnRowsSeen

(* Every call returns: the chunk loop always advances. *)
CallReturns == Long!CallReturns

=============================================================================

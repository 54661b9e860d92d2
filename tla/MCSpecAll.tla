------------------------------ MODULE MCSpecAll ------------------------------
(***************************************************************************)
(* Speculation with a slot for every prefix of a draft, SpecDecode's own   *)
(* names and the constants of the configuration; and a second session,     *)
(* LongBlock, whose drafts are longer than its slots, whose program        *)
(* rewinds and whose cold chunks fail.  They share nothing: "side" says    *)
(* which of the two moves, the other stays in its initial state.           *)
(***************************************************************************)
EXTENDS MCSpecDecode

VARIABLES side,
          lcheckpoint, lvalid, lfed, llogits, lcapture, lpc, lop, lret, lprompt, lmode,
          lstart, lpos, lil, lsaved, lbase, laccepted, llimit, ldraft, lsnap, lslots, lcommit

lvars == <<lcheckpoint, lvalid, lfed, llogits, lcapture, lpc, lop, lret, lprompt, lmode,
           lstart, lpos, lil, lsaved, lbase, laccepted, llimit, ldraft, lsnap, lslots, lcommit>>

LongBlock == INSTANCE SpecDecode WITH
  Prompts <- MCOnePrompt, FaultSites <- MCColdFaults, Rewinds <- 0 .. CtxSize,
  Slots <- 1, Limits <- {4},
  checkpoint <- lcheckpoint, valid <- lvalid, fed <- lfed, logits <- llogits, capture <- lcapture,
  pc <- lpc, op <- lop, ret <- lret, prompt <- lprompt, mode <- lmode, start <- lstart, pos <- lpos,
  il <- lil, saved <- lsaved, base <- lbase, accepted <- laccepted, limit <- llimit, draft <- ldraft,
  snap <- lsnap, slots <- lslots, commit <- lcommit

MCInit == SpecInit /\ LongBlock!SpecInit /\ side \in {"slots", "long block"}
MCNext ==
  /\ UNCHANGED side
  /\ \/ side = "slots" /\ SpecNext /\ UNCHANGED lvars
     \/ side = "long block" /\ LongBlock!SpecNext /\ UNCHANGED specVars
MCSpec == MCInit /\ [][MCNext]_<<specVars, lvars, side>>

-----------------------------------------------------------------------------
(* Drafts too long for the slots, failures and rewinds may leave the       *)
(* layers anywhere (the runs spec_stale_slots and session_cold_fault), but *)
(* what a speculation accepts is still what its checkpoint holds.          *)
LongAccepted == LongBlock!AcceptedIsLive

=============================================================================

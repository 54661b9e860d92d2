----------------------------- MODULE SpecDecode -----------------------------
(***************************************************************************)
(* ds4_session_eval_speculative_argmax on a session: decode one token, let *)
(* DSpark propose a block of drafts, verify the block in one batch, then   *)
(* commit all of it, commit a captured prefix of it, or roll back and      *)
(* replay.  The session of Session.tla is shared: between two calls the    *)
(* program may do anything else it does with a session.                    *)
(*                                                                         *)
(* Greedy is the target model: the arg max of the logits that follow a     *)
(* token sequence.  The draft model may propose anything.                  *)
(***************************************************************************)
EXTENDS Session

CONSTANTS
  Greedy(_),     \* arg max of the target's logits after a sequence
  Block,         \* dw->block_size: longest draft
  Slots,         \* DS4_SPEC_PREFIX_SLOTS
  Eos,           \* eos_token
  DraftPastEos,  \* whether a draft may go on after Eos
  Limits,        \* values of min(max_tokens, accepted_cap) callers pass
  SpecFaults     \* stages of a speculation that may fail

SpecSites == {"snapshot", "verify", "read", "commit", "restore", "replay"}

ASSUME SpecAssumption ==
  /\ Block \in Nat \ {0} /\ Slots \in Nat \ {0}
  /\ Eos \in Token
  /\ DraftPastEos \in BOOLEAN
  /\ Limits \subseteq Nat \ {0}
  /\ SpecFaults \subseteq SpecSites

VARIABLES
  base,      \* the checkpoint the call began with
  accepted,  \* what the call returns
  limit,     \* how many tokens it may accept
  draft,     \* the drafts being verified
  snap,      \* spec_frontier: the layers before the verifier ran
  slots,     \* the frontiers the verifier captured after each draft
  commit     \* commit_drafts; then the drafts left to replay

spec == <<base, accepted, limit, draft, snap, slots, commit>>
specVars == <<vars, spec>>

NoSnap == [l \in Layers |-> Torn]

SpecInit ==
  /\ Init
  /\ base = <<>> /\ accepted = <<>> /\ limit = 0
  /\ draft = <<>> /\ snap = NoSnap /\ commit = 0
  /\ slots = [k \in 1 .. Slots |-> Torn]

-----------------------------------------------------------------------------
Least(a, b) == IF a <= b THEN a ELSE b

(* The target's choice after a frontier; anything after a torn one. *)
Top(f) == IF f # Torn THEN Greedy(f) ELSE CHOOSE t \in Token : TRUE

(* A draft up to its first Eos, that one included. *)
UptoEos(d) ==
  LET ends == {i \in 1 .. Len(d) : d[i] = Eos}
      first == CHOOSE i \in ends : \A j \in ends : i <= j
  IN IF ends = {} THEN d ELSE SubSeq(d, 1, first)

Drafts ==
  {d \in UNION {[1 .. n -> Token] : n \in 1 .. Block} :
     DraftPastEos \/ UptoEos(d) = d}

(* Where layer l stands after the first n drafts. *)
AfterDrafts(l, n) ==
  FeedRange(snap[l], base \o <<accepted[1]>> \o draft,
            Len(base) + 1, Len(base) + 1 + n)
RowAfter(n) == Output([l \in Layers |-> AfterDrafts(l, n)])

(* session_dspark_capture_current *)
RowCurrent == valid /\ capture.ok /\ capture.len = Len(checkpoint)

SpecFails(site) == site \in SpecFaults

SpecAnswer(what) ==
  /\ pc' = "idle" /\ ret' = what
  /\ draft' = <<>> /\ commit' = 0 /\ snap' = NoSnap
  /\ UNCHANGED <<op, job, saved, base, limit, slots>>

Stage(s) ==
  /\ pc' = s
  /\ UNCHANGED <<op, ret, job, saved, base, limit>>

-----------------------------------------------------------------------------
(* The first token is decoded as ds4_session_eval does.  With e->quality   *)
(* or e->dspark_strict, or a tail the scheduler finds too short, no draft  *)
(* is prepared: SpecSkip.                                                  *)
Speculates(t, n) == t # Eos /\ n > 1

SpecCall(t, n) ==
  /\ MayEval
  /\ Decoded(t)
  /\ op' = "speculate" /\ ret' = "ok"
  /\ pc' = IF Speculates(t, n) THEN "propose" ELSE "idle"
  /\ base' = checkpoint /\ accepted' = <<t>> /\ limit' = n
  /\ UNCHANGED <<job, saved, draft, snap, slots, commit>>

SpecCallFault ==
  /\ MayEval
  /\ DecodeFailed
  /\ op' = "speculate" /\ ret' = "error" /\ pc' = "idle"
  /\ base' = checkpoint /\ accepted' = <<>>
  /\ UNCHANGED <<job, saved, limit, draft, snap, slots, commit>>

(* No draft, no room for one, a first draft the target disagrees with, or  *)
(* a snapshot that fails: the first token is all there is.                 *)
SpecSkip ==
  /\ pc = "propose"
  /\ SpecAnswer("ok")
  /\ UNCHANGED <<live, graph, accepted>>

(* Mutant: no token of the context is kept. *)
VerifiedNoRoom(d) ==
  LET room == CtxSize - Len(checkpoint)
  IN IF d[1] = Eos THEN 1 ELSE Least(Len(d), Least(limit - Len(accepted), room))

(* How much of a draft is verified: the limit of the caller, the context,  *)
(* of which one token is kept, and a leading Eos bound it.                 *)
Verified(d) ==
  LET room == CtxSize - Len(checkpoint)
  IN IF d[1] = Eos THEN 1
     ELSE Least(Len(d), Least(limit - Len(accepted), room - 1))

SpecPropose(d) ==
  /\ pc = "propose" /\ RowCurrent
  /\ Least(limit - Len(accepted), CtxSize - Len(checkpoint) - 1) > 0
  /\ d[1] = Top(logits)
  /\ draft' = SubSeq(d, 1, Verified(d))
  /\ snap' = fed
  /\ Stage("verify")
  /\ UNCHANGED <<live, graph, accepted, slots, commit>>

-----------------------------------------------------------------------------
(* metal_graph_verify_suffix_tops, over layers that stand at snap. *)

(* The verifier captures a frontier after every draft but the last, if     *)
(* there are slots for them; otherwise the slots keep what they held.      *)
CapturesPrefixes == Len(draft) > 1 /\ Len(draft) <= Slots + 1

(* Mutant: each draft is compared with the choice after itself.            *)
AgreedShifted ==
  LET wrong == {i \in 2 .. Len(draft) : Top(RowAfter(i)) # draft[i]}
  IN IF wrong = {} THEN Len(draft)
     ELSE (CHOOSE i \in wrong : \A j \in wrong : i <= j) - 1

(* How many drafts the target agrees with: the first one it did. *)
Agreed ==
  LET wrong == {i \in 2 .. Len(draft) : Top(RowAfter(i - 1)) # draft[i]}
  IN IF wrong = {} THEN Len(draft)
     ELSE (CHOOSE i \in wrong : \A j \in wrong : i <= j) - 1

SpecVerify ==
  /\ pc = "verify" /\ Len(draft) <= PrefillCap
  /\ checkpoint' = checkpoint \o draft
  /\ fed' = [l \in Layers |-> AfterDrafts(l, Len(draft))]
  /\ slots' = IF CapturesPrefixes
              THEN [k \in 1 .. Slots |-> IF k < Len(draft) THEN RowAfter(k) ELSE slots[k]]
              ELSE slots
  /\ capture' = IF RowCurrent /\ Len(draft) < PrefillCap
                THEN [ok |-> Dspark, len |-> 0, seq |-> RowAfter(Len(draft))]
                ELSE NoCapture
  /\ commit' = Agreed
  /\ Stage("commit")
  /\ UNCHANGED <<valid, logits, accepted, draft, snap>>

SpecVerifyFault ==
  /\ pc = "verify" /\ (SpecFails("verify") \/ Len(draft) > PrefillCap)
  /\ checkpoint' = checkpoint \o draft
  /\ TornSome(fed, fed')
  /\ capture' = NoCapture
  /\ commit' = 0
  /\ slots' \in {slots, [k \in 1 .. Slots |-> Torn]}
  /\ Stage("rollback")
  /\ UNCHANGED <<valid, logits, accepted, draft, snap>>

-----------------------------------------------------------------------------
(* The whole draft agreed: the state the verifier left is the new one. *)
SpecCommitFull ==
  /\ pc = "commit" /\ commit = Len(draft)
  /\ logits' = RowAfter(commit)
  /\ accepted' = accepted \o UptoEos(draft)
  /\ valid' = TRUE /\ capture' = Noted(capture, checkpoint)
  /\ SpecAnswer("ok")
  /\ UNCHANGED <<checkpoint, fed>>

(* Mutants: the compressor frontiers, or the captured row, of the whole    *)
(* draft are kept.                                                         *)
CommitPartialKeepsLayers ==
  /\ pc = "commit" /\ commit < Len(draft) /\ commit <= Slots
  /\ logits' = RowAfter(commit)
  /\ LET kept == UptoEos(SubSeq(draft, 1, commit))
     IN /\ checkpoint' = base \o accepted \o kept
        /\ accepted' = accepted \o kept
  /\ valid' = TRUE /\ capture' = NoCapture
  /\ SpecAnswer("ok")
  /\ UNCHANGED fed
CommitPartialKeepsRow ==
  /\ pc = "commit" /\ commit < Len(draft) /\ commit <= Slots
  /\ fed' = [l \in Layers |-> slots[commit]]
  /\ logits' = RowAfter(commit)
  /\ LET kept == UptoEos(SubSeq(draft, 1, commit))
     IN /\ checkpoint' = base \o accepted \o kept
        /\ accepted' = accepted \o kept
        /\ capture' = Noted(capture, base \o accepted \o kept)
  /\ valid' = TRUE
  /\ SpecAnswer("ok")

(* Part of it did, and a captured frontier says where the layers stood. *)
SpecCommitPartial ==
  /\ pc = "commit" /\ commit < Len(draft) /\ commit <= Slots
  /\ fed' = [l \in Layers |-> slots[commit]]
  /\ logits' = RowAfter(commit)
  /\ LET kept == UptoEos(SubSeq(draft, 1, commit))
     IN /\ checkpoint' = base \o accepted \o kept
        /\ accepted' = accepted \o kept
  /\ valid' = TRUE /\ capture' = NoCapture
  /\ SpecAnswer("ok")

(* The row of logits cannot be read, the prefix cannot be copied, or there *)
(* is no slot for it.                                                      *)
SpecNoCommit ==
  /\ pc = "commit"
  /\ \/ SpecFails("read") /\ UNCHANGED fed
     \/ commit < Len(draft) /\ commit > Slots /\ UNCHANGED fed
     \/ /\ SpecFails("commit") /\ commit < Len(draft) /\ commit <= Slots
        /\ TornSome(fed, fed')
  /\ Stage("rollback")
  /\ UNCHANGED <<live, logits, capture, accepted, draft, snap, slots, commit>>

-----------------------------------------------------------------------------
(* spec_frontier_restore.  A verifier that failed is given up; agreed      *)
(* drafts are decoded again one by one, up to Eos.                         *)
RollbackTo(tokens) ==
  /\ pc = "rollback"
  /\ checkpoint' = tokens
  /\ capture' = NoCapture
  /\ fed' = snap
  /\ IF commit = 0
     THEN SpecAnswer("ok")
     ELSE LET again == UptoEos(SubSeq(draft, 1, commit))
          IN /\ draft' = again /\ commit' = Len(again)
             /\ Stage("replay")
             /\ UNCHANGED <<snap, slots>>
  /\ UNCHANGED <<valid, logits, accepted>>

(* Mutant: the drafts stay in the checkpoint. *)
RollbackKeepsDrafts == RollbackTo(checkpoint)

SpecRollback == RollbackTo(base \o accepted)

SpecRollbackFault ==
  /\ pc = "rollback" /\ SpecFails("restore")
  /\ checkpoint' = base \o accepted
  /\ capture' = NoCapture /\ valid' = FALSE
  /\ TornSome(fed, fed')
  /\ SpecAnswer("error")
  /\ UNCHANGED <<logits, accepted>>

(* The logits stay in row_logits until the replay ends. *)
SpecReplay ==
  /\ pc = "replay" /\ commit > 0
  /\ LET t == draft[Len(draft) - commit + 1]
         after == [l \in Layers |-> FeedOne(fed[l], t, Len(checkpoint))]
     IN /\ fed' = after
        /\ capture' = [ok |-> Dspark, len |-> 0,
                       seq |-> IF Dspark THEN Output(after) ELSE <<>>]
        /\ checkpoint' = Append(checkpoint, t)
        /\ accepted' = Append(accepted, t)
  /\ commit' = commit - 1
  /\ Stage("replay")
  /\ UNCHANGED <<valid, logits, draft, snap, slots>>

SpecReplayFault ==
  /\ pc = "replay" /\ commit > 0 /\ SpecFails("replay")
  /\ TornSome(fed, fed')
  /\ capture' = NoCapture /\ valid' = FALSE
  /\ SpecAnswer("error")
  /\ UNCHANGED <<checkpoint, logits, accepted>>

SpecReplayDone ==
  /\ pc = "replay" /\ commit = 0
  /\ logits' = Output(fed)
  /\ valid' = TRUE /\ capture' = Noted(capture, checkpoint)
  /\ SpecAnswer("ok")
  /\ UNCHANGED <<checkpoint, fed, accepted>>

-----------------------------------------------------------------------------
SpecStep ==
  \/ SpecSkip \/ (\E d \in Drafts : SpecPropose(d))
  \/ SpecVerify \/ SpecVerifyFault
  \/ SpecCommitFull \/ SpecCommitPartial \/ SpecNoCommit
  \/ SpecRollback \/ SpecRollbackFault
  \/ SpecReplay \/ SpecReplayFault \/ SpecReplayDone

(* Any other call on the session.  The slots outlive a speculation.        *)
(* Payloads are left out here: a save copies the state FrontierMatches     *)
(* speaks of, and a load puts it back.                                     *)
SessionStep ==
  /\ UNCHANGED saved /\ Next
  /\ IF op' = "speculate"
     THEN UNCHANGED <<base, accepted, limit>>
     ELSE base' = <<>> /\ accepted' = <<>> /\ limit' = 0
  /\ UNCHANGED <<draft, snap, slots, commit>>

SpecNext ==
  \/ SpecStep
  \/ \E t \in Token, n \in Limits : SpecCall(t, n)
  \/ SpecCallFault
  \/ SessionStep

SpecSpec == SpecInit /\ [][SpecNext]_specVars

-----------------------------------------------------------------------------
(* Properties *)

SpecReturned == Idle /\ op = "speculate" /\ ret = "ok"

(* The tokens a speculation hands its caller are the tokens the session    *)
(* now holds, however it committed them: the next sync compares the        *)
(* caller's transcript with the checkpoint.  They are no more than asked   *)
(* for, and drafts leave the context room for one more token.              *)
AcceptedIsLive ==
  SpecReturned =>
    /\ valid /\ checkpoint = base \o accepted
    /\ Len(accepted) \in 1 .. limit
    /\ Len(accepted) > 1 => Len(checkpoint) < CtxSize

(* Whatever was drafted, and whichever way it was committed, what follows  *)
(* the first accepted token is what decoding one token at a time, always   *)
(* the target's best, would have produced, up to Eos.                      *)
GreedyExact ==
  SpecReturned =>
    \A i \in 2 .. Len(accepted) :
      /\ accepted[i] = Greedy(base \o SubSeq(accepted, 1, i - 1))
      /\ accepted[i - 1] # Eos

(* Between calls the layers, the logits and the captured row stand at the  *)
(* checkpoint, whichever way the last drafts were committed.               *)
SpecFrontier == FrontierMatches /\ CaptureSound

(* What the program sees of all this is TextSession: a text that a sync    *)
(* extends chunk by chunk and a speculation by many tokens at once, or     *)
(* that is gone.  Until a speculation returns, its drafts are not text.    *)
InSpec == pc \in {"propose", "verify", "commit", "rollback", "replay"}
Held == IF InSpec THEN base ELSE IF valid THEN checkpoint ELSE Torn
Answering == IF pc \in {"idle", "report", "extend"} /\ valid THEN logits ELSE Held

Text == INSTANCE TextSession WITH
  text <- Held, answer <- Answering,
  asked <- IF Running THEN prompt ELSE Torn, told <- ret,
  shelf <- IF saved = NoPayload THEN Torn ELSE saved.tokens, None <- Torn

KeepsText == Text!TextSpec

=============================================================================

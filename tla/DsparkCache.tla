---------------------------- MODULE DsparkCache ----------------------------
(***************************************************************************)
(* What the DSpark drafter knows of the target.  The target's hidden state *)
(* of the last token (the row capture) and of the last chunk (the batch    *)
(* capture) are turned into key rows of the drafter's own ring; a window   *)
(* of the ring is what a proposal attends to.  The scheduler decides which *)
(* cycles propose at all.  The hidden state of a position is named by the  *)
(* tokens up to it, so a row of a token that is gone differs from one of   *)
(* the token that replaced it.                                             *)
(***************************************************************************)
EXTENDS Integers, Sequences

CONSTANTS
  Token,           \* bound: tokens of prompts and of the target
  DraftToken,      \* bound: tokens of drafts
  Prompts,         \* bound: lengths of cold prompts
  Extensions,      \* bound: lengths of what extends a prompt
  SessionCtx,      \* s->ctx_size
  ChunkCap,        \* g->prefill_cap
  CacheCap,        \* g->dspark_cache_cap
  Block,           \* dw->block_size
  PrefixSlots,     \* DS4_SPEC_PREFIX_SLOTS
  SchedWindow,     \* DS4_DSPARK_SCHEDULER_WINDOW
  SkipCycles,      \* DS4_DSPARK_SCHEDULER_SKIP
  SlowSkip,        \* DS4_DSPARK_SCHEDULER_SLOW_SKIP
  NoDraftSkip,     \* DS4_DSPARK_SCHEDULER_NO_DRAFT_SKIP
  ShortAcceptSkip, \* DS4_DSPARK_SCHEDULER_SHORT_ACCEPT_NO_DRAFT_SKIP
  ColdSkip,        \* DS4_DSPARK_SCHEDULER_COLD_LOW_CONFIDENCE_SKIP
  Junk             \* a row of no position

DraftAssumption ==
  /\ Prompts \subseteq Nat \ {0} /\ Extensions \subseteq Nat \ {0}
  /\ SessionCtx \in Nat /\ ChunkCap \in Nat \ {0} /\ CacheCap \in Nat \ {0}
  /\ Block \in Nat /\ PrefixSlots \in Nat

VARIABLES
  live,   \* s->checkpoint
  valid,  \* s->checkpoint_valid
  row,    \* dspark_target_hidden, dspark_capture_valid and _checkpoint_len
  batch,  \* dspark_target_hidden_batch and its start; valid iff not empty
  rawcache, \* dspark_raw_cache
  win,    \* dspark_cache_token_start and _len; _start is start % CacheCap
  draft,  \* dspark_draft_len, 0 if there is no valid draft
  sched,  \* the scheduler's counters
  pc,     \* "idle", or "spec" between a proposal and what is made of it
  reads   \* history: the rows the last proposal attended to

draftvars == <<live, valid, row, batch, rawcache, win, draft, sched, pc, reads>>

NoRow == [valid |-> FALSE, hidden |-> Junk, len |-> 0]
NoBatch == [start |-> 0, rows |-> <<>>]
NoWin == [start |-> 0, len |-> 0]
NoReads == [pos |-> 0, rows |-> <<>>]
Slots == 0 .. CacheCap - 1

(* The hidden state of position p of the sequence f. *)
Hidden(f, p) == SubSeq(f, 1, p + 1)
HiddenRows(f, from, n) == [i \in 1 .. n |-> Hidden(f, from + i - 1)]

DraftInit ==
  /\ live = <<>> /\ valid = FALSE
  /\ row = NoRow /\ batch = NoBatch
  /\ rawcache = [s \in Slots |-> Junk] /\ win = NoWin
  /\ draft = 0
  /\ sched = [skip |-> 0, skipped |-> FALSE, cycles |-> 0, accepted |-> 0,
              noDraft |-> 0, everAccepted |-> FALSE, longAccept |-> FALSE]
  /\ pc = "idle" /\ reads = NoReads

-----------------------------------------------------------------------------
(* The window *)

EndsAt(w, p) == w.len = 0 \/ w.start + w.len = p

(* Mutant: a window that ends before the prefix is stretched to it. *)
CropStretch(w, p) ==
  IF w.len = 0 THEN w
  ELSE IF p <= w.start THEN NoWin
  ELSE [w EXCEPT !.len = p - w.start]

(* metal_graph_dspark_cache_crop_to_prefix *)
Crop(w, p) ==
  IF w.len = 0 THEN w
  ELSE IF p <= w.start \/ p > w.start + w.len THEN NoWin
  ELSE [w EXCEPT !.len = p - w.start]

(* metal_graph_dspark_cache_claim_appended_row *)
Claim(w) ==
  IF w.len < CacheCap THEN [w EXCEPT !.len = @ + 1] ELSE [w EXCEPT !.start = @ + 1]

(* n rows written from position p on. *)
Filled(r, p, rows) ==
  [s \in Slots |->
     IF \E i \in DOMAIN rows : (p + i - 1) % CacheCap = s
     THEN rows[CHOOSE i \in DOMAIN rows : (p + i - 1) % CacheCap = s] ELSE r[s]]

(* metal_graph_seed_dspark_initial_cache_from_prefill *)
SeedFits == Len(batch.rows) <= ChunkCap /\ Len(batch.rows) <= CacheCap

-----------------------------------------------------------------------------
(* Captures *)

(* ds4_session_dspark_capture_note_checkpoint, with r and b just captured. *)
Noted(r, b, f) ==
  IF r.valid /\ f # <<>> THEN /\ row' = [r EXCEPT !.len = Len(f)] /\ batch' = b
  ELSE row' = NoRow /\ batch' = NoBatch

RowOf(f) == [valid |-> TRUE, hidden |-> Hidden(f, Len(f) - 1), len |-> 0]

Idle == pc = "idle"

(* A chunked prefill captures its last chunk: every chunk begins by        *)
(* invalidating what the chunk before captured.                            *)
LastChunk(from, n) == from + ((n - 1) \div ChunkCap) * ChunkCap
Prefilled(f, from) ==
  LET c == LastChunk(from, Len(f) - from)
  IN Noted(RowOf(f), [start |-> c, rows |-> HiddenRows(f, c, Len(f) - c)], f)

(* The cold path of ds4_session_sync: metal_graph_reset_prefill_state,     *)
(* then the chunks.                                                        *)
SyncCold(n) ==
  /\ Idle /\ n < SessionCtx
  /\ \E f \in [1 .. n -> Token] : live' = f /\ Prefilled(f, 0)
  /\ valid' = TRUE /\ win' = NoWin /\ draft' = 0
  /\ UNCHANGED <<rawcache, sched, pc, reads>>

(* A prompt that extends the checkpoint goes on behind it; the window is   *)
(* left alone.                                                             *)
SyncExtend(n) ==
  /\ Idle /\ valid /\ Len(live) + n < SessionCtx
  /\ \E f \in [1 .. n -> Token] : live' = live \o f /\ Prefilled(live', Len(live))
  /\ UNCHANGED <<valid, rawcache, win, draft, sched, pc, reads>>

(* ds4_session_invalidate *)
Invalidate ==
  /\ Idle
  /\ live' = <<>> /\ valid' = FALSE
  /\ row' = NoRow /\ batch' = NoBatch /\ draft' = 0
  /\ UNCHANGED <<rawcache, win, sched, pc, reads>>

(* A token whose eval proposes nothing: a short extension, a last token, a *)
(* strict engine, or too few tokens left to generate.                      *)
EvalPlain ==
  /\ Idle /\ valid /\ Len(live) < SessionCtx
  /\ \E tok \in Token : live' = Append(live, tok)
  /\ Noted(RowOf(live'), batch, live')
  /\ UNCHANGED <<valid, rawcache, win, draft, sched, pc, reads>>

(* The decode failed after it invalidated the row. *)
EvalFails ==
  /\ Idle /\ valid /\ Len(live) < SessionCtx
  /\ row' = NoRow /\ valid' = FALSE
  /\ UNCHANGED <<live, batch, rawcache, win, draft, sched, pc, reads>>

-----------------------------------------------------------------------------
(* ds4_session_prepare_dspark_draft_impl, after the eval of a token *)

(* The scheduler skips the cycle: metal_graph_dspark_ring_maintain. *)
Paused(pos) ==
  /\ sched.skip > 0
  /\ sched' = [sched EXCEPT !.skip = @ - 1, !.skipped = TRUE]
  /\ IF win.len # 0 /\ EndsAt(win, pos)
     THEN /\ rawcache' = Filled(rawcache, pos, <<row'.hidden>>)
          /\ win' = Claim(win)
     ELSE UNCHANGED <<rawcache, win>>
  /\ draft' = 0 /\ reads' = NoReads

SeedReady(pos) == batch'.rows # <<>> /\ batch'.start + Len(batch'.rows) = pos

(* metal_graph_eval_dspark_stage_chain: the row of pos and the block's own *)
(* rows go behind the window, and are not claimed.                         *)
Behind(w, pos) == IF w.len = 0 THEN pos ELSE w.start + w.len
Chain(w, r, pos) ==
  LET rows == <<row'.hidden>> \o [i \in 1 .. Block |-> Junk]
      first == IF w.len = 0 THEN pos ELSE w.start
      stored == Filled(r, Behind(w, pos), rows)
  IN /\ w.len + Block + 1 <= CacheCap /\ EndsAt(w, pos)
     /\ rawcache' = stored
     /\ reads' = [pos |-> first,
                  rows |-> [i \in 1 .. w.len + 1 |-> stored[(first + i - 1) % CacheCap]]]
     /\ draft' \in 0 .. Block

NoChain(r) == rawcache' = r /\ reads' = NoReads /\ draft' = 0

Proposed(pos) ==
  /\ sched.skip = 0
  /\ sched' = [sched EXCEPT !.skipped = FALSE]
  /\ IF SeedReady(pos)
     THEN \/ /\ SeedFits
             /\ win' = [start |-> batch'.start, len |-> Len(batch'.rows)]
             /\ LET r == Filled(rawcache, batch'.start, batch'.rows)
                IN Chain(win', r, pos) \/ NoChain(r)
          \/ win' = NoWin /\ NoChain(rawcache)
     ELSE /\ win' = Crop(win, pos)
          /\ Chain(win', rawcache, pos) \/ NoChain(rawcache)

EvalProbe ==
  /\ Idle /\ valid /\ Len(live) < SessionCtx
  /\ \E tok \in Token : live' = Append(live, tok)
  /\ Noted(RowOf(live'), batch, live')
  /\ Paused(Len(live)) \/ Proposed(Len(live))
  /\ pc' = "spec"
  /\ UNCHANGED valid

-----------------------------------------------------------------------------
(* The scheduler *)

Larger(a, b) == IF a < b THEN b ELSE a

(* The pause after a cycle without a draft. *)
NoDraftPause(s, low) ==
  LET base == IF s.everAccepted /\ ~s.longAccept THEN Larger(NoDraftSkip, ShortAcceptSkip)
              ELSE IF ~s.everAccepted /\ low THEN Larger(NoDraftSkip, ColdSkip)
              ELSE NoDraftSkip
  IN IF NoDraftSkip # 0 THEN Larger(s.skip, base) ELSE s.skip

Counted(accepted, noDraft) ==
  [sched EXCEPT !.cycles = @ + 1,
                !.accepted = @ + accepted,
                !.noDraft = IF noDraft THEN @ + 1 ELSE @,
                !.everAccepted = @ \/ accepted > 0,
                !.longAccept = @ \/ accepted > 2]

(* Mutant: a cycle that was skipped counts as one without a draft. *)
NoteSkipped(accepted, noDraft) ==
  \E low \in BOOLEAN :
    LET s == Counted(accepted, noDraft)
    IN sched' = [s EXCEPT !.skip = IF noDraft THEN NoDraftPause(s, low) ELSE @,
                          !.cycles = 0, !.accepted = 0, !.noDraft = 0]

(* ds4_session_dspark_scheduler_note, without the timing options. *)
Note(accepted, noDraft) ==
  IF sched.skipped THEN sched' = [sched EXCEPT !.skipped = FALSE]
  ELSE \E low \in BOOLEAN :
    LET s == Counted(accepted, noDraft)
        t == [s EXCEPT !.skip = IF noDraft THEN NoDraftPause(s, low) ELSE @]
        many == 2 * t.noDraft >= t.cycles
        slow == (t.accepted * 1000) \div t.cycles < 1500
    IN sched' = IF t.cycles < SchedWindow THEN t
                ELSE [t EXCEPT !.skip = IF many THEN Larger(SkipCycles, SlowSkip)
                                        ELSE IF slow THEN SkipCycles ELSE @,
                               !.cycles = 0, !.accepted = 0, !.noDraft = 0]

-----------------------------------------------------------------------------
(* ds4_session_eval_dspark_speculative_argmax *)

Spec0 == pc = "spec"
Done == pc' = "idle" /\ reads' = NoReads /\ draft' = 0

(* The caller's token ends the turn, or accepts no more. *)
EndOfTurn ==
  /\ Spec0 /\ Done
  /\ UNCHANGED <<live, valid, row, batch, rawcache, win, sched>>

NoDraft ==
  /\ Spec0 /\ draft = 0 /\ Done
  /\ Note(0, TRUE)
  /\ UNCHANGED <<live, valid, row, batch, rawcache, win>>

NoRoom ==
  /\ Spec0 /\ draft > 0 /\ SessionCtx - Len(live) <= 1 /\ Done
  /\ UNCHANGED <<live, valid, row, batch, rawcache, win, sched>>

FirstMiss ==
  /\ Spec0 /\ draft > 0 /\ SessionCtx - Len(live) > 1 /\ Done
  /\ Note(0, FALSE)
  /\ UNCHANGED <<live, valid, row, batch, rawcache, win>>

(* The drafts that are verified; a caller may ask for fewer. *)
Runs == {n \in 1 .. draft : n <= SessionCtx - Len(live) - 1}
Verifying == Spec0 /\ draft > 0 /\ Done
Drafts(n) == [1 .. n -> DraftToken]

(* metal_graph_dspark_capture_verified_suffix_begin: the row of the last   *)
(* token becomes the first of the batch.                                   *)
Carries(n) == n + 1 <= ChunkCap /\ row.valid /\ row.len = Len(live)
SuffixBatch(f) ==
  [start |-> Len(live) - 1, rows |-> <<row.hidden>> \o HiddenRows(f, Len(live), Len(f) - Len(live))]

FullCommit ==
  /\ Verifying
  /\ \E n \in Runs : \E d \in Drafts(n) :
       /\ live' = live \o d
       /\ IF Carries(n) THEN Noted(RowOf(live'), SuffixBatch(live'), live')
          ELSE row' = NoRow /\ batch' = NoBatch
       /\ Note(n, FALSE)
  /\ UNCHANGED <<valid, rawcache, win>>

(* Mutant: what was captured of the whole draft stays. *)
PartialCommitKeep ==
  /\ Verifying
  /\ \E n \in Runs : \E d \in Drafts(n), k \in 1 .. PrefixSlots :
       /\ k < n
       /\ live' = live \o SubSeq(d, 1, k)
       /\ IF Carries(n) THEN Noted(RowOf(live \o d), SuffixBatch(live \o d), live')
          ELSE row' = NoRow /\ batch' = NoBatch
       /\ Note(k, FALSE)
  /\ UNCHANGED <<valid, rawcache, win>>

(* The captures are dropped before the prefix is committed. *)
PartialCommit ==
  /\ Verifying
  /\ \E n \in Runs : \E d \in Drafts(n), k \in 1 .. PrefixSlots :
       /\ k < n
       /\ live' = live \o SubSeq(d, 1, k)
       /\ Note(k, FALSE)
  /\ row' = NoRow /\ batch' = NoBatch
  /\ UNCHANGED <<valid, rawcache, win>>

(* The verifier failed: everything is put back as it was. *)
VerifierFails ==
  /\ Verifying /\ Runs # {}
  /\ row' = NoRow /\ batch' = NoBatch
  /\ UNCHANGED <<live, valid, rawcache, win, sched>>

(* The state cannot be committed directly: the accepted drafts are decoded *)
(* one by one.                                                             *)
Replay ==
  /\ Verifying
  /\ \E n \in Runs : \E d \in Drafts(n), k \in 1 .. n :
       /\ live' = live \o SubSeq(d, 1, k)
       /\ Noted(RowOf(live'), NoBatch, live')
       /\ Note(k, FALSE)
  /\ UNCHANGED <<valid, rawcache, win>>

ReplayFails ==
  /\ Verifying /\ valid' = FALSE
  /\ \E n \in Runs : \E d \in Drafts(n), k \in 0 .. n - 1 : live' = live \o SubSeq(d, 1, k)
  /\ row' = NoRow /\ batch' = NoBatch
  /\ UNCHANGED <<rawcache, win, sched>>

FollowUp ==
  \/ EndOfTurn \/ NoDraft \/ NoRoom \/ FirstMiss
  \/ FullCommit \/ PartialCommit \/ VerifierFails \/ Replay \/ ReplayFails

DraftNext ==
  \/ \E n \in Prompts : SyncCold(n)
  \/ \E n \in Extensions : SyncExtend(n)
  \/ Invalidate \/ EvalPlain \/ EvalFails \/ EvalProbe
  \/ FollowUp

DraftSpec == DraftInit /\ [][DraftNext]_draftvars /\ WF_draftvars(FollowUp)

-----------------------------------------------------------------------------
(* Properties *)

(* Every proposal attends to hidden states of the tokens that are live, at *)
(* the positions they have, without a gap, up to the token just evaluated: *)
(* no row of a dropped draft, of an older prompt or of a position that was *)
(* decoded while the window stood still.                                   *)
DraftsFromLive ==
  pc = "spec" /\ reads.rows # <<>> =>
    /\ reads.pos + Len(reads.rows) = Len(live)
    /\ \A i \in 1 .. Len(reads.rows) : reads.rows[i] = Hidden(live, reads.pos + i - 1)

(* As long as tokens are generated, the scheduler lets cycles propose      *)
(* again: no pause feeds on the cycles it skips.                           *)
PausesEnd == []<><<EvalProbe>>_draftvars => []<>(sched.skip = 0)

=============================================================================

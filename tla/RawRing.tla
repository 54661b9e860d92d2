------------------------------- MODULE RawRing -------------------------------
(***************************************************************************)
(* The raw KV ring of one layer: how many rows a session gives it, which   *)
(* physical row a token position is stored in, and which rows an attention *)
(* launch reads for each query.  A row is the position of the live token   *)
(* whose key and value it holds, or Stale: never written, or written for a *)
(* token that has been dropped since.                                      *)
(***************************************************************************)
EXTENDS Integers

CONSTANTS
  Window,        \* DS4_N_SWA
  CtxSize,       \* s->ctx_size
  Requested,     \* e->prefill_chunk (--prefill-chunk), 0 when not given
  DefaultChunk,  \* the chunk of long prompts otherwise (4096)
  Pad,           \* the ring is padded to a multiple of this (256)
  MaxRaw,        \* the ring never has more rows than this (8192)
  EnvRawCap,     \* DS4_METAL_GRAPH_RAW_CAP, 0 when not set
  MaxDraft,      \* longest draft a verifier runs
  Stale, NoPayload

ASSUME RingAssumption ==
  /\ Window \in Nat \ {0} /\ CtxSize \in Nat \ {0} /\ DefaultChunk \in Nat \ {0}
  /\ Pad \in Nat \ {0} /\ MaxRaw \in Nat \ {0} /\ MaxDraft \in Nat
  /\ Requested \in Nat /\ EnvRawCap \in Nat
  /\ Stale \notin Nat

VARIABLES
  ring,   \* g->layer_raw_cache[il]
  len,    \* live tokens: s->checkpoint.len
  seen,   \* seen[q]: the rows the query at position q read in the last launch
  saved   \* the raw rows of a saved payload

vars == <<ring, len, seen, saved>>

Least(a, b) == IF a <= b THEN a ELSE b
Most(a, b) == IF a <= b THEN b ELSE a

-----------------------------------------------------------------------------
(* Sizes *)

AlignUp(v, a) == IF v % a = 0 THEN v ELSE v + a - (v % a)

(* ds4_prefill_cap_for_prompt(ctx_size, e->prefill_chunk) *)
PrefillCap ==
  LET cap == IF Requested # 0 THEN Requested
             ELSE IF CtxSize > DefaultChunk THEN DefaultChunk ELSE CtxSize
  IN Least(cap, CtxSize)

RawWindow == Least(Window, CtxSize)

(* Mutant: no room for the window in front of the chunk. *)
PaddedChunkOnly == Least(AlignUp(Least(PrefillCap, CtxSize), Pad), MaxRaw)
Padded == Least(AlignUp(Least(RawWindow + PrefillCap, CtxSize), Pad), MaxRaw)

(* metal_graph_raw_cap_for_context, then metal_graph_alloc_raw_cap *)
RawCap ==
  LET cap == IF EnvRawCap # 0
             THEN Least(Least(EnvRawCap, CtxSize), MaxRaw)
             ELSE Padded
  IN Least(Most(cap, RawWindow), CtxSize)

Rows == 0 .. RawCap - 1

-----------------------------------------------------------------------------
(* Storing and reading *)

(* The positions among p .. q that physical row i is for. *)
Writers(i, p, q) == {x \in p .. q : x % RawCap = i}

(* Tokens p .. q stored one after the other. *)
Stored(r, p, q) ==
  [i \in Rows |-> IF Writers(i, p, q) = {} THEN r[i]
                  ELSE CHOOSE x \in Writers(i, p, q) : \A y \in Writers(i, p, q) : y <= x]

(* Mutant: the window in front of a batch is forgotten. *)
SpanBatchOnly(n, last) ==
  Least(Least(IF n = 1 THEN RawWindow ELSE n, last + 1), RawCap)

(* metal_graph_raw_span_for_batch for a launch of n tokens that ends at last *)
Span(n, last) ==
  Least(Least(n + (IF n = 1 THEN RawWindow - 1 ELSE RawWindow), last + 1), RawCap)

WindowOf(q) == Most(0, q + 1 - RawWindow) .. q

(* What the attention kernel reads for query q of that launch: it walks    *)
(* the ring from metal_graph_raw_start_for_span and takes the rows whose   *)
(* supposed position is in the window of q.                                *)
Read(r, n, last, q) ==
  LET first == last + 1 - Span(n, last)
      raw_start == first % RawCap
  IN {r[(raw_start + (p - first)) % RawCap] : p \in WindowOf(q) \cap (first .. last)}

(* Rows of dropped tokens are stale. *)
Dropped(r, from) == [i \in Rows |-> IF r[i] # Stale /\ r[i] >= from THEN Stale ELSE r[i]]
Empty == [i \in Rows |-> Stale]

-----------------------------------------------------------------------------
Init ==
  /\ ring = Empty /\ len = 0
  /\ seen = [q \in {} |-> {}]
  /\ saved = NoPayload

(* The first chunk of a cold prompt: layers that compress nothing read the *)
(* batch itself, the others what the store left in the ring, which is then *)
(* the whole batch; the ring has to end with the last window.              *)
ColdChunk(n) ==
  /\ n <= PrefillCap /\ n <= RawCap
  /\ ring' = Stored(Empty, 0, n - 1)
  /\ len' = n
  /\ seen' = [q \in 0 .. n - 1 |-> WindowOf(q)]
  /\ UNCHANGED saved

(* A cold chunk is not cut to the ring: where it is longer, the layers that *)
(* compress refuse it, and the session has no checkpoint.                  *)
ColdRefused(n) ==
  /\ n <= PrefillCap /\ n > RawCap
  /\ ring' = Empty /\ len' = 0 /\ seen' = [q \in {} |-> {}]
  /\ UNCHANGED saved

(* A later chunk ends at the next multiple of the prefill cap at most. *)
Chunk(n) == len > 0 /\ n <= PrefillCap - (len % PrefillCap) /\ len + n <= CtxSize

(* Mutant: nor is a later one cut to the ring. *)
BatchChunkUnclamped(n) ==
  LET last == len + n - 1
  IN /\ Chunk(n)
     /\ ring' = Stored(ring, len, last)
     /\ seen' = [q \in len .. last |-> Read(ring', n, last, q)]
     /\ len' = len + n
     /\ UNCHANGED saved

(* It is cut to the ring, stored whole, then read. *)
BatchChunk(n) ==
  LET last == len + n - 1
  IN /\ Chunk(n) /\ n <= RawCap
     /\ ring' = Stored(ring, len, last)
     /\ seen' = [q \in len .. last |-> Read(ring', n, last, q)]
     /\ len' = len + n
     /\ UNCHANGED saved

Decode ==
  /\ len < CtxSize
  /\ ring' = Stored(ring, len, len)
  /\ seen' = [q \in {len} |-> Read(ring', 1, len, q)]
  /\ len' = len + 1
  /\ UNCHANGED saved

(* A verifier runs n drafts as a batch and k of them are committed: the    *)
(* rows of the others stay behind as invisible garbage.                    *)
Speculate(n, k) ==
  LET last == len + n - 1
      after == Stored(ring, len, last)
  IN /\ len > 0 /\ n <= PrefillCap /\ n <= RawCap /\ len + n < CtxSize
     /\ ring' = Dropped(after, len + k)
     /\ seen' = [q \in len .. last |-> Read(after, n, last, q)]
     /\ len' = len + k
     /\ UNCHANGED saved

RawLive(n) == Least(Least(RawWindow, RawCap), n)

(* Mutant: the oldest rows of the context instead of the newest. *)
SaveOldest ==
  /\ len > 0
  /\ saved' = [len |-> len, rows |-> [p \in len - RawLive(len) .. len - 1 |->
                                        ring[(p - (len - RawLive(len))) % RawCap]]]
  /\ UNCHANGED <<ring, len, seen>>

(* ds4_session_save_payload and ds4_session_load_payload: the live rows,   *)
(* position by position.                                                   *)
Save ==
  /\ len > 0
  /\ saved' = [len |-> len,
               rows |-> [p \in len - RawLive(len) .. len - 1 |-> ring[p % RawCap]]]
  /\ UNCHANGED <<ring, len, seen>>

Load ==
  /\ saved # NoPayload /\ saved.len < CtxSize
  /\ ring' = [i \in Rows |->
                IF \E p \in DOMAIN saved.rows : p % RawCap = i
                THEN saved.rows[CHOOSE p \in DOMAIN saved.rows : p % RawCap = i]
                ELSE Stale]
  /\ len' = saved.len
  /\ UNCHANGED <<seen, saved>>

Next ==
  \/ \E n \in 1 .. CtxSize : ColdChunk(n) \/ ColdRefused(n) \/ BatchChunk(n)
  \/ Decode
  \/ \E n \in 1 .. MaxDraft : \E k \in 0 .. n : Speculate(n, k)
  \/ Save \/ Load

Spec == Init /\ [][Next]_vars

-----------------------------------------------------------------------------
(* Properties *)

Row == Nat \cup {Stale}

(* Every query reads the rows of its sliding window and no other: nothing  *)
(* a batch overwrote, nothing of a dropped draft, across the wrap of the   *)
(* ring and across a save and a load.                                      *)
WindowSeen == \A q \in DOMAIN seen : seen[q] = WindowOf(q)

(* Whatever the sizes, also where a chunk and the window in front of it do *)
(* not fit the ring: a query misses no key of its own launch that it       *)
(* attends to, and takes no other live token's row for one of its window;  *)
(* what it can miss are rows in front of its launch, lost or stale.        *)
OwnRowsSeen ==
  \A q \in DOMAIN seen : /\ WindowOf(q) \cap DOMAIN seen \subseteq seen[q]
                         /\ seen[q] \subseteq WindowOf(q) \cup {Stale}

(* The window in front of the next token is always in the ring. *)
LiveRows == \A p \in WindowOf(len - 1) : ring[p % RawCap] = p

(* A saved payload holds the row of each position it names. *)
PayloadRows ==
  saved # NoPayload => \A p \in DOMAIN saved.rows : saved.rows[p] = p

=============================================================================

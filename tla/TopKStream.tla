----------------------------- MODULE TopKStream ------------------------------
(***************************************************************************)
(* One block of indexer_topk_stream512_kernel: its warps put the keys of a *)
(* tile of rows that pass the threshold into a shared buffer, and sort it  *)
(* down to the best K when another tile might not fit.                     *)
(*                                                                         *)
(* Warps meet at barriers and run freely between them.  A barrier lets the *)
(* warps go when each has arrived at one, whichever it is.                 *)
(***************************************************************************)
EXTENDS Integers, Sequences, FiniteSets

CONSTANTS
  ScoreRows,   \* the rows of scores that are checked: sequences of worths
  NWarps, Lanes,
  Items,       \* keys a thread holds (4)
  K            \* 512

Threads == NWarps * Lanes
Cap == Threads * Items
PerWarp == Lanes * Items

ASSUME StreamAssumption ==
  /\ NWarps \in Nat \ {0} /\ Lanes \in Nat \ {0} /\ Items \in Nat \ {0}
  /\ K \in Nat \ {0} /\ K % Items = 0 /\ K <= Cap - Threads
  /\ ScoreRows \subseteq Seq(Nat) /\ \A r \in ScoreRows : Len(r) >= K

VARIABLES
  row, first,      \* the scores, and the row the block begins with
  pc, tile, reg,   \* of each warp: where it is, its tile, the keys in its registers
  cnt, thr, buf,   \* shared: s_cnt, s_thr and the buffer
  selected,
  split            \* warps have met at different barriers

streamVars == <<row, first, pc, tile, reg, cnt, thr, buf, selected, split>>

Warps == 1 .. NWarps
N == Len(row)

(* topk_pack_key: larger for a better score, then for a lower row; 0 is no *)
(* key.                                                                    *)
Key(c) == row[c + 1] * N + (N - 1 - c) + 1
RowOfKey(k) == IF k = 0 THEN -1 ELSE N - 1 - ((k - 1) % N)

(* The block goes round the rows from first on, each lane to its place in  *)
(* the tile.                                                               *)
KeyAt(i) == Key((first + i) % N)
Place(w, l) == Threads * tile[w] + Lanes * (w - 1) + l
Ballot(w) == {l \in 0 .. Lanes - 1 : Place(w, l) < N /\ KeyAt(Place(w, l)) > thr}
Rank(l, ballot) == Cardinality({m \in ballot : m < l})

(* The order of the block's radix sort, by how many keys go before a key.  *)
Before(s, x) == {y \in DOMAIN s : s[y] > s[x] \/ (s[y] = s[x] /\ y < x)}
Descending(s) ==
  [i \in DOMAIN s |-> s[CHOOSE x \in DOMAIN s : Cardinality(Before(s, x)) = i - 1]]

(* The buffer as the threads take it up, a warp's part of such keys, and   *)
(* all the registers together.                                             *)
Loaded == [x \in 1 .. Cap |-> IF x - 1 < cnt THEN buf[x - 1] ELSE 0]
PartOf(w, s) == [x \in 1 .. PerWarp |-> s[PerWarp * (w - 1) + x]]
Whole(r) == [x \in 1 .. Cap |-> r[((x - 1) \div PerWarp) + 1][((x - 1) % PerWarp) + 1]]

-----------------------------------------------------------------------------
StreamInit ==
  /\ row \in ScoreRows /\ first \in 0 .. Len(row) - 1
  /\ pc = [w \in Warps |-> "take"] /\ tile = [w \in Warps |-> 0]
  /\ reg = [w \in Warps |-> <<>>]
  /\ cnt = 0 /\ thr = 0 /\ buf = [j \in 0 .. Cap - 1 |-> 0]
  /\ selected = [x \in 1 .. K |-> -1] /\ split = FALSE

Goto(w, next) == pc' = [pc EXCEPT ![w] = next]
fixed == <<row, first>>

(* The keys that pass take consecutive places of the buffer. *)
Take(w) ==
  /\ pc[w] = "take" /\ Threads * tile[w] < N
  /\ LET ballot == Ballot(w)
         At(j) == {l \in ballot : j = cnt + Rank(l, ballot)}
     IN  /\ cnt' = cnt + Cardinality(ballot)
         /\ buf' = [j \in DOMAIN buf |->
                      IF At(j) # {} THEN KeyAt(Place(w, CHOOSE l \in At(j) : TRUE)) ELSE buf[j]]
  /\ Goto(w, "taken") /\ UNCHANGED <<fixed, tile, reg, thr, selected, split>>

LeaveLoop(w) ==
  /\ pc[w] = "take" /\ Threads * tile[w] >= N
  /\ Goto(w, "end") /\ UNCHANGED <<fixed, tile, reg, cnt, thr, buf, selected, split>>

(* Mutant: whether this tile might not have fitted, not the next. *)
CrowdedLate(n) == n > Cap
Crowded(n) == n > Cap - Threads

(* Each warp reads the count for itself. *)
Test(w) ==
  /\ pc[w] = "test"
  /\ IF Crowded(cnt)
     THEN Goto(w, "sort") /\ reg' = [reg EXCEPT ![w] = PartOf(w, Loaded)] /\ UNCHANGED tile
     ELSE Goto(w, "take") /\ tile' = [tile EXCEPT ![w] = @ + 1] /\ UNCHANGED reg
  /\ UNCHANGED <<fixed, cnt, thr, buf, selected, split>>

(* The first K / Items threads keep what they hold.                        *)
Kept(w) == {x \in 1 .. PerWarp : PerWarp * (w - 1) + x <= K}
Keep(w) ==
  /\ pc[w] = "keep"
  /\ buf' = [j \in DOMAIN buf |-> LET x == j - PerWarp * (w - 1) + 1
                                  IN  IF x \in Kept(w) THEN reg[w][x] ELSE buf[j]]
  /\ LET last == K - PerWarp * (w - 1)
     IN  thr' = IF last \in Kept(w) THEN reg[w][last] ELSE thr
  /\ cnt' = IF w = 1 THEN K ELSE cnt
  /\ Goto(w, "kept") /\ UNCHANGED <<fixed, tile, reg, selected, split>>

End(w) ==
  /\ pc[w] = "end"
  /\ reg' = [reg EXCEPT ![w] = PartOf(w, Loaded)] /\ Goto(w, "last sort")
  /\ UNCHANGED <<fixed, tile, cnt, thr, buf, selected, split>>

Write(w) ==
  /\ pc[w] = "write"
  /\ selected' = [p \in 1 .. K |-> LET x == p - PerWarp * (w - 1)
                                   IN  IF x \in Kept(w) THEN RowOfKey(reg[w][x]) ELSE selected[p]]
  /\ Goto(w, "done") /\ UNCHANGED <<fixed, tile, reg, cnt, thr, buf, split>>

(* A barrier, and the block's radix sort between two of them: a sort that  *)
(* not every warp takes part in leaves anything, here nothing.             *)
After(at) == CASE at = "taken" -> "test" [] at = "sort" -> "keep" [] at = "kept" -> "take"
               [] at = "last sort" -> "write"
Together == \A v, w \in Warps : pc[v] = pc[w]
Barrier ==
  LET live == {w \in Warps : pc[w] # "done"}
      sorted == Descending(Whole(reg))
  IN /\ live # {} /\ \A w \in live : pc[w] \in {"taken", "sort", "kept", "last sort"}
     /\ split' = (split \/ ~Together)
     /\ reg' = [w \in Warps |-> IF pc[w] \notin {"sort", "last sort"} THEN reg[w]
                                ELSE IF Together THEN PartOf(w, sorted) ELSE [x \in 1 .. PerWarp |-> 0]]
     /\ tile' = [w \in Warps |-> IF pc[w] = "kept" THEN tile[w] + 1 ELSE tile[w]]
     /\ pc' = [w \in Warps |-> IF w \in live THEN After(pc[w]) ELSE pc[w]]
     /\ UNCHANGED <<fixed, cnt, thr, buf, selected>>

StreamStep(w) == Take(w) \/ LeaveLoop(w) \/ Test(w) \/ Keep(w) \/ End(w) \/ Write(w)
StreamNext == (\E w \in Warps : StreamStep(w)) \/ Barrier

StreamSpec == StreamInit /\ [][StreamNext]_streamVars

-----------------------------------------------------------------------------
Finished == \A w \in Warps : pc[w] = "done"
Best == LET ranked == Descending([x \in 1 .. N |-> Key(x - 1)]) IN [p \in 1 .. K |-> RowOfKey(ranked[p])]

(* "Exact streaming top-512": the threshold only leaves out what cannot be *)
(* among the best.                                                         *)
Exact == Finished => selected = Best

(* It is, and the buffer holds the keys, wherever the warps of the block   *)
(* stay together.                                                          *)
ExactTogether == ~split => Exact /\ cnt <= Cap

=============================================================================

----------------------------- MODULE RingProofs ------------------------------
(***************************************************************************)
(* Theorems about the two rings of cache rows.  RawRing: for every window, *)
(* context, chunk and ring size under which the ring holds a prefill chunk *)
(* behind the window in front of it; its last theorem holds of every ring. *)
(* DsparkCache: for every ring, chunk, context and block length, whatever  *)
(* the scheduler decides and the drafter proposes.                         *)
(***************************************************************************)
EXTENDS RawRing, DsparkCache, TLAPS

(* What prefill_attention.c says the physical ring is sized for: "the      *)
(* current chunk plus the previous SWA window", or the whole context.      *)
Fits == Least(RawWindow + PrefillCap, CtxSize) <= RawCap

-----------------------------------------------------------------------------
(* Remainders *)

(* What the two halves of a division are. *)
LEMMA DivMod ==
  ASSUME NEW x \in Nat, NEW c \in Nat \ {0}
  PROVE  x \div c \in Nat /\ x % c \in 0 .. c - 1 /\ x = c * (x \div c) + (x % c)
OBVIOUS

(* Distinct multiples of c are at least c apart. *)
LEMMA Multiples ==
  ASSUME NEW c \in Nat, NEW a \in Nat, NEW b \in Nat, c * a < c * b
  PROVE  c * a + c <= c * b
<1>1. a < b
  <2>1. SUFFICES ASSUME b <= a PROVE FALSE
    OBVIOUS
  <2>2. c * b <= c * a
    BY <2>1
  <2> QED  BY <2>2
<1>2. a + 1 <= b
  BY <1>1
<1>3. c * (a + 1) <= c * b
  BY <1>2
<1> QED  BY <1>3

(* Two positions of one physical row are a whole ring apart. *)
LEMMA SameRow ==
  ASSUME NEW x \in Nat, NEW y \in Nat, NEW c \in Nat \ {0}, x < y, x % c = y % c
  PROVE  x + c <= y
<1>1. PICK a \in Nat : x = c * a + (x % c)
  BY DivMod
<1>2. PICK b \in Nat : y = c * b + (y % c)
  BY DivMod
<1>3. x % c \in Nat
  BY DivMod
<1>4. c * a \in Nat /\ c * b \in Nat
  OBVIOUS
<1>5. c * a < c * b
  BY <1>1, <1>2, <1>3, <1>4
<1>6. c * a + c <= c * b
  BY <1>5, Multiples
<1> QED  BY <1>1, <1>2, <1>3, <1>4, <1>6

(* A quotient and a remainder are determined by their sum. *)
LEMMA SameRemainder ==
  ASSUME NEW c \in Nat \ {0}, NEW a \in Nat, NEW b \in Nat,
         NEW u \in 0 .. c - 1, NEW v \in 0 .. c - 1, c * a + u = c * b + v
  PROVE  u = v
<1>1. c * a \in Nat /\ c * b \in Nat
  OBVIOUS
<1>2. ~(c * a < c * b)
  BY <1>1, Multiples
<1>3. ~(c * b < c * a)
  BY <1>1, Multiples
<1> QED  BY <1>1, <1>2, <1>3

(* Counting d rows on from the row of x comes to the row of x + d. *)
LEMMA RowAfter ==
  ASSUME NEW x \in Nat, NEW d \in Nat, NEW c \in Nat \ {0}
  PROVE  ((x % c) + d) % c = (x + d) % c
<1>1. PICK a \in Nat, r \in 0 .. c - 1 : x % c = r /\ x = c * a + r
  BY DivMod
<1>2. r + d \in Nat /\ x + d \in Nat
  OBVIOUS
<1>3. PICK b \in Nat, u \in 0 .. c - 1 : (r + d) % c = u /\ r + d = c * b + u
  BY <1>2, DivMod
<1>4. PICK e \in Nat, v \in 0 .. c - 1 : (x + d) % c = v /\ x + d = c * e + v
  BY <1>2, DivMod
<1>5. c * a \in Nat /\ c * b \in Nat /\ c * e \in Nat /\ c * (a + b) = c * a + c * b
  OBVIOUS
<1>6. c * (a + b) + u = c * e + v
  BY <1>1, <1>3, <1>4, <1>5
<1>7. u = v
  BY <1>6, SameRemainder
<1> QED  BY <1>1, <1>3, <1>4, <1>7

(* A whole ring on is the same row. *)
LEMMA WholeRing ==
  ASSUME NEW x \in Nat, NEW c \in Nat \ {0}
  PROVE  (x + c) % c = x % c
<1>1. PICK a \in Nat, r \in 0 .. c - 1 : x % c = r /\ x = c * a + r
  BY DivMod
<1>2. PICK b \in Nat, u \in 0 .. c - 1 : (x + c) % c = u /\ x + c = c * b + u
  <2>1. x + c \in Nat
    OBVIOUS
  <2> QED  BY <2>1, DivMod
<1>3. c * (a + 1) = c * a + c /\ c * a \in Nat /\ c * b \in Nat
  OBVIOUS
<1>4. c * (a + 1) + r = c * b + u /\ a + 1 \in Nat
  BY <1>1, <1>2, <1>3
<1> QED  BY <1>1, <1>2, <1>4, SameRemainder

(* A row that is used in a run of positions is used a last time. *)
LEMMA LastTurn ==
  ASSUME NEW w \in Nat, NEW q \in Nat, w <= q, NEW c \in Nat \ {0}
  PROVE  \E y \in w .. q : y % c = w % c /\ \A z \in w .. q : z % c = w % c => z <= y
<1>1. PICK a \in Nat, d \in 0 .. c - 1 : (q - w) % c = d /\ q - w = c * a + d
  <2>1. q - w \in Nat
    OBVIOUS
  <2> QED  BY <2>1, DivMod
<1>2. PICK b \in Nat, r \in 0 .. c - 1 : w % c = r /\ w = c * b + r
  BY DivMod
<1>3. c * (a + b) = c * a + c * b /\ c * a \in Nat /\ c * b \in Nat
  OBVIOUS
<1>4. PICK y \in w .. q : y = q - d
  BY <1>1, <1>3
<1>5. y \in Nat /\ y = c * (a + b) + r /\ a + b \in Nat
  BY <1>1, <1>2, <1>3, <1>4
<1>6. y % c = r
  <2>1. y \in Nat
    BY <1>5
  <2>2. PICK e \in Nat, u \in 0 .. c - 1 : y % c = u /\ y = c * e + u
    BY <2>1, DivMod
  <2>3. c * (a + b) + r = c * e + u
    BY <1>5, <2>2
  <2> QED  BY <1>2, <1>5, <2>2, <2>3, SameRemainder
<1>7. ASSUME NEW z \in w .. q, z % c = r
      PROVE  z <= y
  <2>1. z \in Nat /\ y \in Nat /\ z % c = y % c
    BY <1>5, <1>6, <1>7
  <2>2. y < z => y + c <= z
    BY <2>1, SameRow
  <2> QED  BY <1>1, <1>4, <2>1, <2>2
<1>8. y % c = w % c /\ \A z \in w .. q : z % c = w % c => z <= y
  BY <1>2, <1>6, <1>7
<1> QED  BY <1>8

-----------------------------------------------------------------------------
(* Sizes *)

(* Padding never shrinks. *)
LEMMA AlignUpAbove ==
  ASSUME NEW v \in Nat
  PROVE  AlignUp(v, Pad) \in Nat /\ v <= AlignUp(v, Pad)
<1>1. Pad \in Nat \ {0}
  BY RingAssumption
<1>2. v % Pad \in 0 .. Pad - 1
  BY <1>1, DivMod
<1> QED  BY <1>1, <1>2 DEF AlignUp

(* The ring is never shorter than the window nor longer than the context,  *)
(* and a chunk is never longer than the context.                           *)
LEMMA Sizes ==
  /\ RawWindow \in 1 .. CtxSize /\ PrefillCap \in 1 .. CtxSize
  /\ RawCap \in RawWindow .. CtxSize
<1>1. RawWindow \in 1 .. CtxSize
  BY RingAssumption DEF RawWindow, Least
<1>2. PrefillCap \in 1 .. CtxSize
  BY RingAssumption DEF PrefillCap, Least
<1>3. Padded \in Nat
  <2>1. Least(RawWindow + PrefillCap, CtxSize) \in Nat
    BY <1>1, <1>2, RingAssumption DEF Least
  <2> QED  BY <2>1, AlignUpAbove, RingAssumption DEF Padded, Least
<1>4. RawCap \in RawWindow .. CtxSize
  BY <1>1, <1>3, RingAssumption DEF RawCap, Least, Most
<1> QED  BY <1>1, <1>2, <1>4

(* The sizing function achieves what it is for unless the environment or   *)
(* the largest ring clamps it.                                             *)
THEOREM UnclampedFits ==
  ASSUME EnvRawCap = 0, Least(RawWindow + PrefillCap, CtxSize) <= MaxRaw
  PROVE  Fits
<1> DEFINE want == Least(RawWindow + PrefillCap, CtxSize)
<1>1. want \in Nat /\ want <= CtxSize
  BY Sizes, RingAssumption DEF Least
<1>2. AlignUp(want, Pad) \in Nat /\ want <= AlignUp(want, Pad)
  BY <1>1, AlignUpAbove
<1>3. Padded \in Nat /\ want <= Padded
  BY <1>1, <1>2, RingAssumption DEF Padded, Least
<1>4. RawCap = Least(Most(Padded, RawWindow), CtxSize)
  BY DEF RawCap
<1> HIDE DEF want
<1>5. want <= RawCap
  BY <1>1, <1>3, <1>4, Sizes, RingAssumption DEF Least, Most
<1> QED  BY <1>5 DEF want, Fits

-----------------------------------------------------------------------------
(* Storing *)

(* The last ring's length of a run of tokens is where it is looked for. *)
LEMMA StoredNew ==
  ASSUME NEW r, NEW p \in Nat, NEW q \in Nat, NEW x \in p .. q, q < x + RawCap
  PROVE  Stored(r, p, q)[x % RawCap] = x
<1> DEFINE i == x % RawCap
<1>1. RawCap \in Nat \ {0}
  BY Sizes, RingAssumption
<1>2. i \in Rows
  BY <1>1, DivMod DEF Rows
<1>3. x \in Writers(i, p, q)
  BY DEF Writers
<1>4. \A y \in Writers(i, p, q) : y <= x
  <2> SUFFICES ASSUME NEW y \in p .. q, y % RawCap = i, x < y
               PROVE  FALSE
    BY DEF Writers
  <2>1. x \in Nat /\ y \in Nat /\ x < y /\ x % RawCap = y % RawCap
    OBVIOUS
  <2>2. x + RawCap <= y
    BY <1>1, <2>1, SameRow
  <2> QED  BY <1>1, <2>2
<1>5. \A y \in Writers(i, p, q) :
        (\A z \in Writers(i, p, q) : z <= y) => y = x
  BY <1>3, <1>4 DEF Writers
<1> HIDE DEF i
<1>6. (CHOOSE y \in Writers(i, p, q) : \A z \in Writers(i, p, q) : z <= y) = x
  BY <1>3, <1>4, <1>5
<1>7. Stored(r, p, q)[i] = x
  BY <1>2, <1>3, <1>6 DEF Stored
<1> QED  BY <1>7 DEF i

(* A position less than a ring's length behind the run keeps its row. *)
LEMMA StoredOld ==
  ASSUME NEW r, NEW p \in Nat, NEW q \in Nat, NEW x \in Nat, x < p, q < x + RawCap
  PROVE  Stored(r, p, q)[x % RawCap] = r[x % RawCap]
<1> DEFINE i == x % RawCap
<1>1. RawCap \in Nat \ {0}
  BY Sizes, RingAssumption
<1>2. i \in Rows
  BY <1>1, DivMod DEF Rows
<1>3. Writers(i, p, q) = {}
  <2> SUFFICES ASSUME NEW y \in p .. q, y % RawCap = i
               PROVE  FALSE
    BY DEF Writers
  <2>1. x \in Nat /\ y \in Nat /\ x < y /\ x % RawCap = y % RawCap
    OBVIOUS
  <2>2. x + RawCap <= y
    BY <1>1, <2>1, SameRow
  <2> QED  BY <1>1, <2>2
<1> QED  BY <1>2, <1>3 DEF Stored

(* The launch of n tokens keeps the window in front of it, and its own.     *)
LEMMA StoredBehind ==
  ASSUME Fits, LiveRows, len \in 0 .. CtxSize,
         NEW n \in 1 .. PrefillCap, len + n <= CtxSize
  PROVE  \A x \in Most(0, len - RawWindow) .. len + n - 1 :
           Stored(ring, len, len + n - 1)[x % RawCap] = x
<1> DEFINE b == Most(0, len - RawWindow)
           last == len + n - 1
<1>1. b \in Nat /\ last \in Nat /\ last < b + RawCap
  BY Sizes, RingAssumption DEF Fits, Least, Most
<1>2. \A x \in b .. len - 1 : ring[x % RawCap] = x
  <2>1. WindowOf(len - 1) = b .. len - 1
    BY Sizes, RingAssumption DEF WindowOf
  <2> QED  BY <2>1 DEF LiveRows
<1> SUFFICES ASSUME NEW x \in b .. last
             PROVE  Stored(ring, len, last)[x % RawCap] = x
  OBVIOUS
<1> HIDE DEF b, last
<1>3. x \in Nat /\ last < x + RawCap
  BY <1>1, Sizes, RingAssumption
<1>4. CASE x < len
  BY <1>1, <1>2, <1>3, <1>4, StoredOld
<1>5. CASE x >= len
  <2>1. x \in len .. last
    BY <1>1, <1>3, <1>5
  <2> QED  BY <1>1, <1>3, <2>1, StoredNew
<1> QED  BY <1>3, <1>4, <1>5

-----------------------------------------------------------------------------
(* Reading *)

(* A query of a launch whose ring holds those positions reads its window.   *)
LEMMA ReadWindow ==
  ASSUME Fits, len \in 0 .. CtxSize,
         NEW n \in 1 .. PrefillCap, len + n <= CtxSize, NEW r,
         \A x \in Most(0, len - RawWindow) .. len + n - 1 : r[x % RawCap] = x,
         NEW q \in len .. len + n - 1
  PROVE  Read(r, n, len + n - 1, q) = WindowOf(q)
<1> DEFINE b == Most(0, len - RawWindow)
           last == len + n - 1
           first == last + 1 - Span(n, last)
<1>1. first \in Nat /\ last \in Nat
  BY Sizes, RingAssumption DEF Span, Least
<1>2. WindowOf(q) \subseteq first .. last
  BY Sizes, RingAssumption DEF Fits, Least, Most, Span, WindowOf
<1>3. WindowOf(q) \subseteq b .. last
  BY Sizes, RingAssumption DEF Most, WindowOf
<1>4. RawCap \in Nat \ {0}
  BY Sizes, RingAssumption
<1>5. ASSUME NEW p \in WindowOf(q)
      PROVE  r[((first % RawCap) + (p - first)) % RawCap] = p
  <2> HIDE DEF first, b
  <2>1. p \in first .. last
    BY <1>2
  <2>2. PICK d \in Nat : d = p - first /\ first + d = p
    BY <1>1, <2>1
  <2>3. ((first % RawCap) + d) % RawCap = p % RawCap
    BY <1>1, <1>4, <2>2, RowAfter
  <2>4. r[p % RawCap] = p
    BY <1>3 DEF b
  <2> QED  BY <2>2, <2>3, <2>4
<1>6. WindowOf(q) \cap (first .. last) = WindowOf(q)
  BY <1>2
<1>7. Read(r, n, last, q) =
        {r[((first % RawCap) + (p - first)) % RawCap] : p \in WindowOf(q) \cap (first .. last)}
  BY DEF Read
<1> HIDE DEF first, last
<1>8. Read(r, n, last, q) = {p : p \in WindowOf(q)}
  BY <1>5, <1>6, <1>7
<1> QED  BY <1>8 DEF last

-----------------------------------------------------------------------------
(* The inductive invariant: beside what is read, the rows that the next    *)
(* launch will read are in place, in the ring and in a saved payload.      *)
PayloadShape ==
  saved # NoPayload =>
    /\ saved.len \in 1 .. CtxSize
    /\ DOMAIN saved.rows = saved.len - RawLive(saved.len) .. saved.len - 1

RInv ==
  /\ len \in 0 .. CtxSize
  /\ LiveRows /\ WindowSeen
  /\ PayloadShape /\ PayloadRows

LEMMA InitRInv == Init => RInv
<1> SUFFICES ASSUME Init PROVE RInv
  OBVIOUS
<1>1. len \in 0 .. CtxSize
  BY RingAssumption DEF Init
<1>2. LiveRows
  <2>1. WindowOf(len - 1) = {}
    BY Sizes, RingAssumption DEF Init, WindowOf, Most
  <2> QED  BY <2>1 DEF LiveRows
<1>3. WindowSeen
  BY DEF Init, WindowSeen
<1> QED  BY <1>1, <1>2, <1>3 DEF RInv, Init, PayloadShape, PayloadRows

(* A launch of n tokens of which k stay: a chunk, a token, a block of      *)
(* verified drafts.                                                        *)
LEMMA LaunchRInv ==
  ASSUME RInv, Fits, NEW n \in 1 .. PrefillCap, len + n <= CtxSize, NEW k \in 0 .. n,
         len' = len + k, saved' = saved,
         \A x \in Most(0, len - RawWindow) .. len + k - 1 :
           ring'[x % RawCap] = Stored(ring, len, len + n - 1)[x % RawCap],
         seen' = [q \in len .. len + n - 1 |->
                    Read(Stored(ring, len, len + n - 1), n, len + n - 1, q)]
  PROVE  RInv'
<1> DEFINE b == Most(0, len - RawWindow)
           last == len + n - 1
           after == Stored(ring, len, last)
<1>1. \A x \in b .. last : after[x % RawCap] = x
  BY StoredBehind DEF RInv
<1>2. len' \in 0 .. CtxSize
  BY RingAssumption, Sizes DEF RInv
<1>3. LiveRows'
  <2>1. WindowOf(len' - 1) \subseteq b .. len + k - 1
    BY Sizes, RingAssumption DEF RInv, WindowOf, Most
  <2>2. b .. len + k - 1 \subseteq b .. last
    BY Sizes, RingAssumption DEF RInv, Most
  <2> QED  BY <1>1, <2>1, <2>2 DEF LiveRows
<1>4. WindowSeen'
  <2>1. ASSUME NEW q \in len .. last
        PROVE  Read(after, n, last, q) = WindowOf(q)
    BY <1>1, ReadWindow DEF RInv
  <2> QED  BY <2>1 DEF WindowSeen
<1>5. PayloadShape' /\ PayloadRows'
  BY DEF RInv, PayloadShape, PayloadRows
<1> QED  BY <1>2, <1>3, <1>4, <1>5 DEF RInv

(* The live rows of a context are its window. *)
LEMMA LiveWindow ==
  ASSUME NEW m \in 1 .. CtxSize
  PROVE  /\ WindowOf(m - 1) = m - RawLive(m) .. m - 1
         /\ RawLive(m) \in 1 .. RawCap /\ RawLive(m) <= m
BY Sizes, RingAssumption DEF WindowOf, RawLive, Least, Most

-----------------------------------------------------------------------------
(* One step per action *)

LEMMA ColdChunkRInv ==
  ASSUME RInv, Fits, NEW n \in 1 .. CtxSize, ColdChunk(n)
  PROVE  RInv'
<1>1. n \in 1 .. RawCap /\ RawCap \in Nat \ {0}
  BY Sizes, RingAssumption DEF ColdChunk
<1>2. \A x \in 0 .. n - 1 : ring'[x % RawCap] = x
  <2> SUFFICES ASSUME NEW x \in 0 .. n - 1
               PROVE  ring'[x % RawCap] = x
    OBVIOUS
  <2>1. n - 1 \in Nat /\ n - 1 < x + RawCap
    BY <1>1
  <2>2. Stored(Empty, 0, n - 1)[x % RawCap] = x
    BY <2>1, StoredNew
  <2> QED  BY <2>2 DEF ColdChunk
<1>3. len' = n
  BY DEF ColdChunk
<1>4. LiveRows'
  <2>1. WindowOf(n - 1) \subseteq 0 .. n - 1
    BY Sizes, RingAssumption DEF WindowOf, Most
  <2> QED  BY <1>2, <1>3, <2>1 DEF LiveRows
<1>5. WindowSeen'
  BY DEF ColdChunk, WindowSeen
<1>6. PayloadShape' /\ PayloadRows'
  BY DEF RInv, ColdChunk, PayloadShape, PayloadRows
<1> QED  BY <1>3, <1>4, <1>5, <1>6 DEF RInv

(* Such a ring refuses no cold chunk. *)
LEMMA NoColdRefused ==
  ASSUME Fits, NEW n \in 1 .. CtxSize
  PROVE  ~ColdRefused(n)
BY Sizes, RingAssumption DEF ColdRefused, Fits, Least

(* A resumed chunk is one launch of at most a whole chunk. *)
LEMMA BatchChunkRInv ==
  ASSUME RInv, Fits, NEW n \in 1 .. CtxSize, BatchChunk(n)
  PROVE  RInv'
<1>1. n \in 1 .. PrefillCap /\ len + n <= CtxSize
  <2>1. len % PrefillCap \in Nat
    BY Sizes, RingAssumption, DivMod DEF RInv
  <2>2. n <= PrefillCap - (len % PrefillCap) /\ len + n <= CtxSize
    BY DEF BatchChunk, Chunk
  <2> QED  BY <2>1, <2>2, Sizes
<1>2. ring' = Stored(ring, len, len + n - 1)
  BY DEF BatchChunk
<1>3. seen' = [q \in len .. len + n - 1 |->
                 Read(Stored(ring, len, len + n - 1), n, len + n - 1, q)]
  BY DEF BatchChunk
<1>4. len' = len + n /\ saved' = saved /\ n \in 0 .. n
  BY DEF BatchChunk
<1> QED  BY <1>1, <1>2, <1>3, <1>4, LaunchRInv

LEMMA DecodeRInv ==
  ASSUME RInv, Fits, Decode
  PROVE  RInv'
<1>1. len \in Nat /\ len + 1 <= CtxSize /\ 1 \in 1 .. PrefillCap /\ len + 1 - 1 = len
  BY Sizes, RingAssumption DEF RInv, Decode
<1>2. ring' = Stored(ring, len, len + 1 - 1)
  BY <1>1 DEF Decode
<1>3. len .. len + 1 - 1 = {len}
  BY <1>1
<1>4. seen' = [q \in len .. len + 1 - 1 |->
                 Read(Stored(ring, len, len + 1 - 1), 1, len + 1 - 1, q)]
  BY <1>1, <1>2, <1>3 DEF Decode
<1>5. len' = len + 1 /\ saved' = saved /\ 1 \in 0 .. 1
  BY DEF Decode
<1> QED  BY <1>1, <1>2, <1>4, <1>5, LaunchRInv

(* The rows of the drafts that stay, and of the window in front of them,   *)
(* are not among the dropped ones.                                         *)
LEMMA SpeculateRInv ==
  ASSUME RInv, Fits, NEW n \in 1 .. MaxDraft, NEW k \in 0 .. n, Speculate(n, k)
  PROVE  RInv'
<1> DEFINE after == Stored(ring, len, len + n - 1)
<1>1. n \in 1 .. PrefillCap /\ len + n <= CtxSize /\ len \in Nat /\ RawCap \in Nat \ {0}
  BY Sizes, RingAssumption DEF RInv, Speculate
<1>2. \A x \in Most(0, len - RawWindow) .. len + k - 1 : ring'[x % RawCap] = after[x % RawCap]
  <2> SUFFICES ASSUME NEW x \in Most(0, len - RawWindow) .. len + k - 1
               PROVE  ring'[x % RawCap] = after[x % RawCap]
    OBVIOUS
  <2>1. x \in Most(0, len - RawWindow) .. len + n - 1 /\ x \in Nat /\ x < len + k
    BY <1>1, Sizes, RingAssumption DEF Most
  <2>2. after[x % RawCap] = x
    BY <1>1, <2>1, StoredBehind DEF RInv
  <2>3. x % RawCap \in Rows
    BY <1>1, <2>1, DivMod DEF Rows
  <2>4. ring' = Dropped(after, len + k)
    BY DEF Speculate
  <2>5. ~(x >= len + k)
    BY <1>1, <2>1
  <2> HIDE DEF after
  <2> QED  BY <2>2, <2>3, <2>4, <2>5 DEF Dropped
<1>3. seen' = [q \in len .. len + n - 1 |-> Read(after, n, len + n - 1, q)]
  BY DEF Speculate
<1>4. len' = len + k /\ saved' = saved
  BY DEF Speculate
<1> QED  BY <1>1, <1>2, <1>3, <1>4, LaunchRInv

LEMMA SaveRInv ==
  ASSUME RInv, Save
  PROVE  RInv'
<1>1. len \in 1 .. CtxSize
  BY RingAssumption DEF RInv, Save
<1>2. saved'.len = len /\ DOMAIN saved'.rows = len - RawLive(len) .. len - 1
  BY DEF Save
<1>3. PayloadShape'
  BY <1>1, <1>2 DEF PayloadShape, RawLive
<1>4. PayloadRows'
  <2>1. \A p \in len - RawLive(len) .. len - 1 : ring[p % RawCap] = p
    BY <1>1, LiveWindow DEF RInv, LiveRows
  <2>2. \A p \in DOMAIN saved'.rows : saved'.rows[p] = ring[p % RawCap]
    BY <1>2 DEF Save
  <2> QED  BY <1>2, <2>1, <2>2 DEF PayloadRows
<1> QED  BY <1>3, <1>4 DEF RInv, Save, LiveRows, WindowSeen

LEMMA LoadRInv ==
  ASSUME RInv, Load
  PROVE  RInv'
<1> DEFINE D == DOMAIN saved.rows
<1>1. saved.len \in 1 .. CtxSize /\ D = WindowOf(saved.len - 1)
  BY LiveWindow DEF RInv, Load, PayloadShape
<1>2. D = saved.len - RawLive(saved.len) .. saved.len - 1
  BY <1>1, LiveWindow
<1>3. \A p \in D : p \in Nat /\ \A p2 \in D : p2 < p + RawCap
  <2>1. PICK m \in 1 .. CtxSize, w \in 1 .. RawCap :
          w <= m /\ D = m - w .. m - 1
    BY <1>1, <1>2, LiveWindow
  <2>2. RawCap \in Nat /\ CtxSize \in Nat
    BY Sizes, RingAssumption
  <2> HIDE DEF D
  <2> QED  BY <2>1, <2>2
<1>4. RawCap \in Nat \ {0}
  BY Sizes, RingAssumption
<1>5. \A p, p2 \in D : p % RawCap = p2 % RawCap => p = p2
  <2> SUFFICES ASSUME NEW p \in D, NEW p2 \in D, p % RawCap = p2 % RawCap, p < p2
               PROVE  FALSE
    BY <1>3
  <2>1. p + RawCap <= p2
    BY <1>3, <1>4, SameRow
  <2> QED  BY <1>3, <1>4, <2>1
<1>6. LiveRows'
  <2> SUFFICES ASSUME NEW p \in D
               PROVE  ring'[p % RawCap] = p
    BY <1>1 DEF Load, LiveRows
  <2>1. p % RawCap \in Rows
    BY <1>3, <1>4, DivMod DEF Rows
  <2>2. (CHOOSE p2 \in D : p2 % RawCap = p % RawCap) = p
    BY <1>5
  <2>3. ring'[p % RawCap] = saved.rows[CHOOSE p2 \in D : p2 % RawCap = p % RawCap]
    BY <2>1 DEF Load
  <2>4. saved.rows[p] = p
    BY DEF RInv, Load, PayloadRows
  <2> QED  BY <2>2, <2>3, <2>4
<1>7. len' \in 0 .. CtxSize
  BY <1>1 DEF Load
<1>8. WindowSeen' /\ PayloadShape' /\ PayloadRows'
  BY DEF RInv, Load, WindowSeen, PayloadShape, PayloadRows
<1> QED  BY <1>6, <1>7, <1>8 DEF RInv

LEMMA NextRInv == RInv /\ Fits /\ [Next]_vars => RInv'
<1> SUFFICES ASSUME RInv, Fits, [Next]_vars PROVE RInv'
  OBVIOUS
<1>1. CASE \E n \in 1 .. CtxSize : ColdChunk(n) \/ ColdRefused(n) \/ BatchChunk(n)
  BY <1>1, ColdChunkRInv, NoColdRefused, BatchChunkRInv
<1>2. CASE Decode
  BY <1>2, DecodeRInv
<1>3. CASE \E n \in 1 .. MaxDraft : \E k \in 0 .. n : Speculate(n, k)
  BY <1>3, SpeculateRInv
<1>4. CASE Save
  BY <1>4, SaveRInv
<1>5. CASE Load
  BY <1>5, LoadRInv
<1>6. CASE UNCHANGED vars
  BY <1>6 DEF vars, RInv, LiveRows, WindowSeen, PayloadShape, PayloadRows
<1> QED  BY <1>1, <1>2, <1>3, <1>4, <1>5, <1>6 DEF Next

-----------------------------------------------------------------------------
(* The invariant of a ring that holds a chunk behind its window. *)
THEOREM RingInvariant == Fits /\ Spec => []RInv
<1>1. CASE Fits
  BY <1>1, InitRInv, NextRInv, PTL DEF Spec
<1> QED  BY <1>1

(* Every query of every launch reads its sliding window and no other row,  *)
(* across wraps of the ring, dropped drafts and a reload, whatever the     *)
(* sizes, if the ring holds a chunk behind its window.                     *)
THEOREM Windows == Fits /\ Spec => []WindowSeen
<1>1. RInv => WindowSeen
  BY DEF RInv
<1> QED  BY <1>1, RingInvariant, PTL

(* Under the same assumption the window in front of the next token is in   *)
(* the ring.                                                               *)
THEOREM Live == Fits /\ Spec => []LiveRows
<1>1. RInv => LiveRows
  BY DEF RInv
<1> QED  BY <1>1, RingInvariant, PTL

(* And a saved payload holds the row of each position it names.            *)
THEOREM Payloads == Fits /\ Spec => []PayloadRows
<1>1. RInv => PayloadRows
  BY DEF RInv
<1> QED  BY <1>1, RingInvariant, PTL

-----------------------------------------------------------------------------
(* Rings of any size *)

(* A launch reads the row of each position that it spans and that the      *)
(* query attends to.                                                       *)
LEMMA ReadHas ==
  ASSUME NEW r, NEW n \in Nat, NEW last \in Nat, NEW q \in Nat, NEW p \in WindowOf(q),
         last + 1 - Span(n, last) \in Nat, last + 1 - Span(n, last) <= p, p <= last,
         r[p % RawCap] = p
  PROVE  p \in Read(r, n, last, q)
<1> DEFINE first == last + 1 - Span(n, last)
<1>1. RawCap \in Nat \ {0} /\ p \in Nat
  BY Sizes, RingAssumption DEF WindowOf, Most
<1>2. Read(r, n, last, q) =
        {r[((first % RawCap) + (x - first)) % RawCap] : x \in WindowOf(q) \cap (first .. last)}
  BY DEF Read
<1>3. first \in Nat /\ p \in first .. last
  BY <1>1
<1> HIDE DEF first
<1>4. PICK d \in Nat : d = p - first /\ first + d = p
  BY <1>1, <1>3
<1>5. ((first % RawCap) + d) % RawCap = p % RawCap
  <2>1. ((first % RawCap) + d) % RawCap = (first + d) % RawCap
    BY <1>1, <1>3, RowAfter
  <2> QED  BY <1>4, <2>1
<1>6. r[((first % RawCap) + (p - first)) % RawCap] = p
  BY <1>4, <1>5
<1>7. p \in WindowOf(q) \cap (first .. last)
  BY <1>3
<1> QED  BY <1>2, <1>6, <1>7

(* A launch whose n rows fit the ring has them all when it reads. *)
LEMMA LaunchHasOwn ==
  ASSUME len \in Nat, NEW n \in Nat \ {0}, n <= RawCap,
         NEW q \in len .. len + n - 1, NEW p \in WindowOf(q), len <= p
  PROVE  p \in Read(Stored(ring, len, len + n - 1), n, len + n - 1, q)
<1> DEFINE last == len + n - 1
<1>1. /\ last \in Nat /\ q \in Nat /\ p \in len .. last /\ last < p + RawCap
      /\ p \in Nat /\ RawCap \in Nat /\ RawWindow \in Nat \ {0}
  BY Sizes, RingAssumption DEF WindowOf, Most
<1>2. Span(n, last) \in n .. last + 1
  <2>1. Span(n, last) =
          Least(Least(n + (IF n = 1 THEN RawWindow - 1 ELSE RawWindow), last + 1), RawCap)
    BY DEF Span
  <2>2. n <= last + 1
    BY <1>1
  <2> HIDE DEF last
  <2> QED  BY <1>1, <2>1, <2>2 DEF Least
<1>3. last + 1 - Span(n, last) \in Nat /\ last + 1 - Span(n, last) <= p
  <2>1. last + 1 = len + n
    OBVIOUS
  <2> HIDE DEF last
  <2> QED  BY <1>1, <1>2, <2>1
<1>4. Stored(ring, len, last)[p % RawCap] = p
  <2> HIDE DEF last
  <2> QED  BY <1>1, StoredNew
<1> HIDE DEF last
<1>5. p \in Read(Stored(ring, len, last), n, last, q)
  BY <1>1, <1>3, <1>4, ReadHas
<1> QED  BY <1>5 DEF last

(* Row i of a ring under m tokens is that of the last token it is for, or  *)
(* stale.                                                                  *)
InPlace(r, m) ==
  \A i \in Rows : r[i] # Stale =>
    r[i] \in Nat /\ r[i] % RawCap = i /\ r[i] < m /\ m <= r[i] + RawCap

(* So what is found where a position is looked for is its row, or stale.   *)
LEMMA InPlaceRow ==
  ASSUME NEW r, NEW m \in Nat, InPlace(r, m), NEW p \in Nat, p < m, m <= p + RawCap
  PROVE  r[p % RawCap] \in {p, Stale}
<1> DEFINE i == p % RawCap
<1>1. RawCap \in Nat \ {0}
  BY Sizes, RingAssumption
<1>2. i \in Rows
  BY <1>1, DivMod DEF Rows
<1> SUFFICES ASSUME r[i] # Stale PROVE r[i] = p
  OBVIOUS
<1>3. PICK x \in Nat : r[i] = x /\ x % RawCap = i /\ x < m /\ m <= x + RawCap
  BY <1>2 DEF InPlace
<1>4. ~(x < p)
  <2> SUFFICES ASSUME x < p PROVE FALSE
    OBVIOUS
  <2>1. x + RawCap <= p
    BY <1>1, <1>3, SameRow
  <2> QED  BY <1>1, <1>3, <2>1
<1>5. ~(p < x)
  <2> SUFFICES ASSUME p < x PROVE FALSE
    OBVIOUS
  <2>1. p + RawCap <= x
    BY <1>1, <1>3, SameRow
  <2> QED  BY <1>1, <1>3, <2>1
<1> QED  BY <1>3, <1>4, <1>5

(* Storing the next tokens leaves every row in place. *)
LEMMA StoredInPlace ==
  ASSUME NEW r, NEW p \in Nat, NEW q \in Nat, p <= q + 1, InPlace(r, p)
  PROVE  InPlace(Stored(r, p, q), q + 1)
<1>1. RawCap \in Nat \ {0}
  BY Sizes, RingAssumption
<1> SUFFICES ASSUME NEW i \in Rows, Stored(r, p, q)[i] # Stale
             PROVE  LET x == Stored(r, p, q)[i]
                    IN x \in Nat /\ x % RawCap = i /\ x < q + 1 /\ q + 1 <= x + RawCap
  BY DEF InPlace
<1>2. CASE Writers(i, p, q) = {}
  <2>1. Stored(r, p, q)[i] = r[i]
    BY <1>2 DEF Stored
  <2>2. PICK x \in Nat : r[i] = x /\ x % RawCap = i /\ x < p /\ p <= x + RawCap
    BY <2>1 DEF InPlace
  <2>3. (x + RawCap) % RawCap = i
    BY <1>1, <2>2, WholeRing
  <2>4. x + RawCap \notin p .. q
    BY <1>1, <1>2, <2>3 DEF Writers
  <2> QED  BY <1>1, <2>1, <2>2, <2>4
<1>3. CASE Writers(i, p, q) # {}
  <2> DEFINE W == Writers(i, p, q)
  <2>1. \E x \in W : \A y \in W : y <= x
    <3>1. PICK w \in p .. q : w % RawCap = i
      BY <1>3 DEF Writers
    <3>2. PICK y \in w .. q : y % RawCap = i /\ \A z \in w .. q : z % RawCap = i => z <= y
      <4>1. w \in Nat /\ w <= q
        OBVIOUS
      <4>2. \E y \in w .. q : /\ y % RawCap = w % RawCap
                              /\ \A z \in w .. q : z % RawCap = w % RawCap => z <= y
        BY <1>1, <4>1, LastTurn
      <4> QED  BY <3>1, <4>2
    <3>3. y \in W
      BY <3>1, <3>2 DEF Writers
    <3>4. \A z \in W : z <= y
      BY <3>1, <3>2 DEF Writers
    <3> QED  BY <3>3, <3>4
  <2>2. PICK x \in W : Stored(r, p, q)[i] = x /\ \A y \in W : y <= x
    BY <1>3, <2>1 DEF Stored
  <2>3. x \in p .. q /\ x % RawCap = i
    BY DEF Writers
  <2>4. ~(x + RawCap <= q)
    <3> SUFFICES ASSUME x + RawCap <= q PROVE FALSE
      OBVIOUS
    <3>1. (x + RawCap) % RawCap = i
      <4>1. x \in Nat
        BY <2>3
      <4> QED  BY <1>1, <2>3, <4>1, WholeRing
    <3>2. x + RawCap \in W
      BY <1>1, <2>3, <3>1 DEF Writers
    <3> QED  BY <1>1, <2>2, <2>3, <3>2
  <2> QED  BY <1>1, <2>2, <2>3, <2>4
<1> QED  BY <1>2, <1>3

(* What a launch reads behind itself is its window's, or stale. *)
LEMMA ReadOnly ==
  ASSUME NEW r, NEW n \in Nat \ {0}, NEW last \in Nat, InPlace(r, last + 1), NEW q \in Nat
  PROVE  Read(r, n, last, q) \subseteq WindowOf(q) \cup {Stale}
<1> DEFINE first == last + 1 - Span(n, last)
<1>1. RawCap \in Nat \ {0} /\ RawWindow \in Nat \ {0}
  BY Sizes, RingAssumption
<1>2. first \in Nat /\ last + 1 <= first + RawCap
  <2>1. Span(n, last) \in 0 .. last + 1 /\ Span(n, last) <= RawCap
    BY <1>1 DEF Span, Least
  <2> QED  BY <1>1, <2>1
<1> SUFFICES ASSUME NEW p \in WindowOf(q) \cap (first .. last)
             PROVE  r[((first % RawCap) + (p - first)) % RawCap] \in WindowOf(q) \cup {Stale}
  BY DEF Read
<1> HIDE DEF first
<1>3. PICK d \in Nat : d = p - first /\ first + d = p
  BY <1>2
<1>4. ((first % RawCap) + d) % RawCap = p % RawCap
  <2>1. ((first % RawCap) + d) % RawCap = (first + d) % RawCap
    BY <1>1, <1>2, RowAfter
  <2> QED  BY <1>3, <2>1
<1>5. p \in Nat /\ p < last + 1 /\ last + 1 <= p + RawCap /\ last + 1 \in Nat
  BY <1>1, <1>2, <1>3
<1>6. r[p % RawCap] \in {p, Stale}
  BY <1>5, InPlaceRow
<1> QED  BY <1>3, <1>4, <1>6

PayloadInPlace ==
  saved # NoPayload =>
    /\ saved.len \in Nat
    /\ \A p \in DOMAIN saved.rows : /\ p \in Nat /\ p < saved.len /\ saved.len <= p + RawCap
                                   /\ saved.rows[p] \in {p, Stale}

OInv ==
  /\ len \in Nat
  /\ InPlace(ring, len)
  /\ PayloadInPlace
  /\ OwnRowsSeen

LEMMA EmptyInPlace == InPlace(Empty, 0)
BY DEF InPlace, Empty

(* A launch of n tokens that fits the ring, of which k stay. *)
LEMMA LaunchOInv ==
  ASSUME OInv, NEW n \in Nat \ {0}, n <= RawCap, NEW k \in 0 .. n,
         len' = len + k, saved' = saved,
         \/ ring' = Stored(ring, len, len + n - 1) /\ k = n
         \/ ring' = Dropped(Stored(ring, len, len + n - 1), len + k),
         seen' = [q \in len .. len + n - 1 |->
                    Read(Stored(ring, len, len + n - 1), n, len + n - 1, q)]
  PROVE  OInv'
<1> DEFINE last == len + n - 1
           after == Stored(ring, len, last)
<1>1. len \in Nat /\ last \in Nat /\ len <= last + 1 /\ last + 1 = len + n
        /\ RawCap \in Nat \ {0} /\ k \in Nat
  BY Sizes, RingAssumption DEF OInv
<1>2. InPlace(after, last + 1)
  <2> HIDE DEF last
  <2> QED  BY <1>1, StoredInPlace DEF OInv
<1>3. InPlace(ring', len')
  <2>1. CASE ring' = after /\ k = n
    BY <1>1, <1>2, <2>1
  <2>2. CASE ring' = Dropped(after, len + k)
    <3> HIDE DEF after, last
    <3> SUFFICES ASSUME NEW i \in Rows, ring'[i] # Stale
                 PROVE  /\ ring'[i] \in Nat /\ ring'[i] % RawCap = i
                        /\ ring'[i] < len' /\ len' <= ring'[i] + RawCap
      BY <1>1, Sizes DEF InPlace, Rows
    <3>1. ring'[i] = after[i] /\ after[i] # Stale /\ ~(after[i] >= len + k)
      BY <2>2 DEF Dropped
    <3>2. PICK x \in Nat : after[i] = x /\ x % RawCap = i /\ x < last + 1 /\ last + 1 <= x + RawCap
      BY <1>2, <3>1 DEF InPlace
    <3> QED  BY <1>1, <3>1, <3>2
  <2> QED  BY <2>1, <2>2
<1>4. OwnRowsSeen'
  <2> SUFFICES ASSUME NEW q \in len .. last
               PROVE  /\ WindowOf(q) \cap (len .. last) \subseteq Read(after, n, last, q)
                      /\ Read(after, n, last, q) \subseteq WindowOf(q) \cup {Stale}
    BY DEF OwnRowsSeen
  <2>1. Read(after, n, last, q) \subseteq WindowOf(q) \cup {Stale}
    <3> HIDE DEF last, after
    <3> QED  BY <1>1, <1>2, ReadOnly
  <2>2. \A p \in WindowOf(q) \cap (len .. last) : p \in Read(after, n, last, q)
    BY <1>1, LaunchHasOwn
  <2> QED  BY <2>1, <2>2
<1>5. PayloadInPlace'
  BY DEF OInv, PayloadInPlace
<1> QED  BY <1>1, <1>3, <1>4, <1>5 DEF OInv

LEMMA ColdOInv ==
  ASSUME OInv, NEW n \in 1 .. CtxSize, ColdChunk(n)
  PROVE  OInv'
<1>1. n \in Nat /\ n - 1 \in Nat /\ 0 <= n - 1 + 1 /\ n - 1 + 1 = n
  BY RingAssumption
<1>2. InPlace(Stored(Empty, 0, n - 1), n - 1 + 1)
  BY <1>1, EmptyInPlace, StoredInPlace
<1>3. InPlace(ring', len')
  BY <1>1, <1>2 DEF ColdChunk
<1>4. OwnRowsSeen'
  BY DEF ColdChunk, OwnRowsSeen
<1> QED  BY <1>1, <1>3, <1>4 DEF ColdChunk, OInv, PayloadInPlace

LEMMA SaveOInv ==
  ASSUME OInv, Save
  PROVE  OInv'
<1>1. saved'.len = len
        /\ saved'.rows = [p \in len - RawLive(len) .. len - 1 |-> ring[p % RawCap]]
  BY DEF Save
<1>2. len \in Nat /\ RawCap \in Nat \ {0} /\ RawWindow \in Nat \ {0}
  BY Sizes, RingAssumption DEF OInv
<1>3. RawLive(len) \in Nat /\ RawLive(len) <= len /\ RawLive(len) <= RawCap
  BY <1>2 DEF RawLive, Least
<1>4. ASSUME NEW p \in len - RawLive(len) .. len - 1
      PROVE  p \in Nat /\ p < len /\ len <= p + RawCap /\ ring[p % RawCap] \in {p, Stale}
  <2>1. p \in Nat /\ p < len /\ len <= p + RawCap
    BY <1>2, <1>3
  <2> QED  BY <1>2, <2>1, InPlaceRow DEF OInv
<1>5. PayloadInPlace'
  BY <1>1, <1>2, <1>4 DEF PayloadInPlace
<1> QED  BY <1>5 DEF Save, OInv, InPlace, OwnRowsSeen

LEMMA LoadOInv ==
  ASSUME OInv, Load
  PROVE  OInv'
<1>1. saved.len \in Nat /\ \A p \in DOMAIN saved.rows :
        /\ p \in Nat /\ p < saved.len /\ saved.len <= p + RawCap
        /\ saved.rows[p] \in {p, Stale}
  BY DEF OInv, Load, PayloadInPlace
<1>2. InPlace(ring', len')
  <2> SUFFICES ASSUME NEW i \in Rows, ring'[i] # Stale
               PROVE  /\ ring'[i] \in Nat /\ ring'[i] % RawCap = i
                      /\ ring'[i] < saved.len /\ saved.len <= ring'[i] + RawCap
    BY DEF InPlace, Load, Rows
  <2>1. PICK p \in DOMAIN saved.rows : p % RawCap = i /\ ring'[i] = saved.rows[p]
    BY DEF Load
  <2> QED  BY <1>1, <2>1
<1> QED  BY <1>1, <1>2 DEF Load, OInv, OwnRowsSeen, PayloadInPlace

LEMMA NextOInv == OInv /\ [Next]_vars => OInv'
<1> SUFFICES ASSUME OInv, [Next]_vars PROVE OInv'
  OBVIOUS
<1>1. ASSUME NEW n \in 1 .. CtxSize, ColdChunk(n) PROVE OInv'
  BY <1>1, ColdOInv
<1>2. ASSUME NEW n \in 1 .. CtxSize, ColdRefused(n) PROVE OInv'
  BY <1>2, EmptyInPlace DEF ColdRefused, OInv, PayloadInPlace, OwnRowsSeen
<1>3. ASSUME NEW n \in 1 .. CtxSize, BatchChunk(n) PROVE OInv'
  <2>1. n \in Nat \ {0} /\ n <= RawCap /\ n \in 0 .. n
    BY <1>3, RingAssumption DEF BatchChunk
  <2>2. /\ ring' = Stored(ring, len, len + n - 1)
        /\ seen' = [q \in len .. len + n - 1 |-> Read(Stored(ring, len, len + n - 1), n, len + n - 1, q)]
        /\ len' = len + n /\ saved' = saved
    BY <1>3 DEF BatchChunk
  <2> QED  BY <2>1, <2>2, LaunchOInv
<1>4. CASE Decode
  <2>1. len \in Nat /\ len + 1 - 1 = len /\ len .. len = {len} /\ 1 \in 0 .. 1 /\ 1 <= RawCap
    BY Sizes, RingAssumption DEF OInv
  <2>2. /\ ring' = Stored(ring, len, len + 1 - 1)
        /\ seen' = [q \in len .. len + 1 - 1 |-> Read(Stored(ring, len, len + 1 - 1), 1, len + 1 - 1, q)]
        /\ len' = len + 1 /\ saved' = saved
    BY <1>4, <2>1 DEF Decode
  <2> QED  BY <2>1, <2>2, LaunchOInv
<1>5. ASSUME NEW n \in 1 .. MaxDraft, NEW k \in 0 .. n, Speculate(n, k) PROVE OInv'
  <2>1. n \in Nat \ {0} /\ n <= RawCap
    BY <1>5 DEF Speculate
  <2>2. /\ ring' = Dropped(Stored(ring, len, len + n - 1), len + k)
        /\ seen' = [q \in len .. len + n - 1 |-> Read(Stored(ring, len, len + n - 1), n, len + n - 1, q)]
        /\ len' = len + k /\ saved' = saved
    BY <1>5 DEF Speculate
  <2> QED  BY <2>1, <2>2, LaunchOInv
<1>6. CASE Save
  BY <1>6, SaveOInv
<1>7. CASE Load
  BY <1>7, LoadOInv
<1>8. CASE UNCHANGED vars
  BY <1>8 DEF vars, OInv, InPlace, PayloadInPlace, OwnRowsSeen
<1> QED  BY <1>1, <1>2, <1>3, <1>4, <1>5, <1>6, <1>7, <1>8 DEF Next

(* Whatever the sizes, also where the largest ring or the environment      *)
(* leaves less than a chunk: a query reads the row of every key of its own *)
(* launch that it attends to, and of no live token outside its window.     *)
(* Cold chunks longer than the ring are refused, later ones cut to it.     *)
THEOREM OwnRows == Spec => []OwnRowsSeen
<1>1. Init => OInv
  BY EmptyInPlace DEF Init, OInv, PayloadInPlace, OwnRowsSeen
<1>2. OInv => OwnRowsSeen
  BY DEF OInv
<1> QED  BY <1>1, <1>2, NextOInv, PTL DEF Spec

-----------------------------------------------------------------------------
(* The drafter's cache *)

AnyToken == Token \cup DraftToken
Texts == Seq(AnyToken)
HiddenRow == Texts \cup {Junk}

-----------------------------------------------------------------------------
(* Slots *)

(* Two positions of one slot are a whole ring apart. *)
LEMMA SameSlot ==
  ASSUME NEW x \in Nat, NEW y \in Nat, NEW c \in Nat \ {0}, x < y, x % c = y % c
  PROVE  x + c <= y
<1>1. PICK a \in Nat, m \in 0 .. c - 1 : x = c * a + m /\ m = x % c
  BY DivMod
<1>2. PICK b \in Nat : y = c * b + m
  BY <1>1, DivMod
<1>3. c * a \in Nat /\ c * b \in Nat
  OBVIOUS
<1>4. ~(b <= a)
  <2>1. SUFFICES ASSUME b <= a PROVE FALSE
    OBVIOUS
  <2>2. c * b <= c * a
    BY <2>1
  <2> QED  BY <1>1, <1>2, <1>3, <2>2
<1>5. a + 1 <= b
  BY <1>4
<1>6. c * (a + 1) <= c * b
  BY <1>5
<1>7. c * (a + 1) = c * a + c
  OBVIOUS
<1> QED  BY <1>1, <1>2, <1>3, <1>6, <1>7

Ring == CacheCap \in Nat \ {0}

LEMMA SlotOf ==
  ASSUME Ring, NEW p \in Nat
  PROVE  p % CacheCap \in Slots
BY DivMod DEF Ring, Slots

(* Rows that do not go once round the ring are all there afterwards. *)
LEMMA SlotNew ==
  ASSUME Ring, NEW r, NEW p \in Nat, NEW rows \in Seq(HiddenRow), Len(rows) <= CacheCap,
         NEW i \in 1 .. Len(rows)
  PROVE  Filled(r, p, rows)[(p + i - 1) % CacheCap] = rows[i]
<1> DEFINE s == (p + i - 1) % CacheCap
<1>1. p + i - 1 \in Nat /\ s \in Slots
  BY SlotOf
<1>2. i \in DOMAIN rows
  OBVIOUS
<1>3. ASSUME NEW j \in DOMAIN rows, (p + j - 1) % CacheCap = s PROVE j = i
  <2>1. j \in 1 .. Len(rows) /\ p + j - 1 \in Nat /\ Len(rows) \in Nat /\ CacheCap \in Nat \ {0}
    BY DEF Ring
  <2>2. ~(j < i)
    <3>1. SUFFICES ASSUME j < i PROVE FALSE
      OBVIOUS
    <3>2. p + j - 1 < p + i - 1
      BY <2>1, <3>1
    <3>3. (p + j - 1) + CacheCap <= p + i - 1
      BY <1>1, <1>3, <2>1, <3>2, SameSlot
    <3> QED  BY <2>1, <3>3
  <2>3. ~(i < j)
    <3>1. SUFFICES ASSUME i < j PROVE FALSE
      OBVIOUS
    <3>2. p + i - 1 < p + j - 1
      BY <2>1, <3>1
    <3>3. (p + i - 1) + CacheCap <= p + j - 1
      BY <1>1, <1>3, <2>1, <3>2, SameSlot
    <3> QED  BY <2>1, <3>3
  <2> QED  BY <2>1, <2>2, <2>3
<1> HIDE DEF s
<1>4. Filled(r, p, rows)[s] = rows[CHOOSE j \in DOMAIN rows : (p + j - 1) % CacheCap = s]
  BY <1>1, <1>2 DEF Filled, s
<1>5. (CHOOSE j \in DOMAIN rows : (p + j - 1) % CacheCap = s) = i
  BY <1>2, <1>3 DEF s
<1> QED  BY <1>4, <1>5 DEF s

(* A position less than a ring's length behind them keeps its row. *)
LEMMA SlotOld ==
  ASSUME Ring, NEW r, NEW p \in Nat, NEW rows \in Seq(HiddenRow), NEW q \in Nat,
         q < p, p + Len(rows) <= q + CacheCap
  PROVE  Filled(r, p, rows)[q % CacheCap] = r[q % CacheCap]
<1>1. q % CacheCap \in Slots
  BY SlotOf
<1>2. ASSUME NEW j \in DOMAIN rows, (p + j - 1) % CacheCap = q % CacheCap PROVE FALSE
  <2>1. j \in 1 .. Len(rows) /\ p + j - 1 \in Nat /\ Len(rows) \in Nat /\ CacheCap \in Nat \ {0}
    BY DEF Ring
  <2>2. q < p + j - 1
    BY <2>1
  <2>3. q + CacheCap <= p + j - 1
    BY <1>2, <2>1, <2>2, SameSlot
  <2> QED  BY <2>1, <2>3
<1> QED  BY <1>1, <1>2 DEF Filled

-----------------------------------------------------------------------------
(* Hidden states *)

Begins(f, g) ==
  f \in Texts /\ g \in Texts /\ Len(f) <= Len(g) /\ \A k \in 1 .. Len(f) : f[k] = g[k]

LEMMA HiddenTyped ==
  ASSUME NEW f \in Texts, NEW p \in 0 .. Len(f) - 1
  PROVE  Hidden(f, p) \in Texts
<1>1. p + 1 \in 1 .. Len(f) /\ Len(f) \in Nat
  BY DEF Texts
<1>2. SubSeq(f, 1, p + 1) \in Seq(AnyToken)
  BY <1>1 DEF Texts
<1> QED  BY <1>2 DEF Hidden, Texts

(* A hidden state is made of the tokens up to it. *)
LEMMA HiddenSame ==
  ASSUME NEW f, NEW g, Begins(f, g), NEW p \in 0 .. Len(f) - 1
  PROVE  Hidden(f, p) = Hidden(g, p)
<1>1. /\ f \in Seq(AnyToken) /\ g \in Seq(AnyToken) /\ Len(f) \in Nat /\ Len(g) \in Nat
      /\ p + 1 \in Nat /\ p + 1 <= Len(f) /\ p + 1 <= Len(g)
      /\ \A k \in 1 .. p + 1 : f[k] = g[k]
  BY DEF Begins, Texts
<1> DEFINE n == p + 1
<1>2. n \in Nat /\ n <= Len(f) /\ n <= Len(g) /\ \A k \in 1 .. n : f[k] = g[k]
  BY <1>1
<1> HIDE DEF n
<1>3. /\ SubSeq(f, 1, n) = [k \in 1 .. n |-> f[1 + k - 1]]
      /\ SubSeq(g, 1, n) = [k \in 1 .. n |-> g[1 + k - 1]]
  BY <1>1, <1>2
<1>4. \A k \in 1 .. n : f[1 + k - 1] = g[1 + k - 1]
  BY <1>2
<1>5. SubSeq(f, 1, n) = SubSeq(g, 1, n)
  BY <1>3, <1>4
<1> QED  BY <1>5 DEF Hidden, n

LEMMA BeginsConcat ==
  ASSUME NEW f \in Texts, NEW d \in Texts
  PROVE  Begins(f, f \o d) /\ Len(f \o d) = Len(f) + Len(d) /\ f \o d \in Texts
BY DEF Begins, Texts

LEMMA BeginsAppend ==
  ASSUME NEW f \in Texts, NEW tok \in AnyToken
  PROVE  Begins(f, Append(f, tok)) /\ Len(Append(f, tok)) = Len(f) + 1 /\ Append(f, tok) \in Texts
BY DEF Begins, Texts

-----------------------------------------------------------------------------
(* What is known of a sequence of tokens *)

(* A captured row belongs to the last token of f, if its length says so. *)
TrueRow(r, f) ==
  /\ r \in [valid : BOOLEAN, hidden : HiddenRow, len : Nat]
  /\ r.valid /\ r.len = Len(f) /\ f # <<>> => r.hidden = Hidden(f, Len(f) - 1)

(* Captured rows of a batch are those of f. *)
TrueBatch(b, f) ==
  /\ b \in [start : Nat, rows : Seq(HiddenRow)]
  /\ b.start + Len(b.rows) <= Len(f)
  /\ \A i \in 1 .. Len(b.rows) : b.rows[i] = Hidden(f, b.start + i - 1)

(* So are the rows of the window. *)
TrueWin(w, r, f) ==
  /\ w.len > 0 => w.start + w.len <= Len(f)
  /\ \A p \in w.start .. w.start + w.len - 1 : r[p % CacheCap] = Hidden(f, p)

WinType == [start : Nat, len : 0 .. CacheCap]

LEMMA WinGrows ==
  ASSUME Ring, NEW w \in WinType, NEW r, NEW f, NEW g, TrueWin(w, r, f), Begins(f, g)
  PROVE  TrueWin(w, r, g)
<1>1. w.start \in Nat /\ w.len \in Nat /\ Len(f) \in Nat /\ Len(g) \in Nat /\ Len(f) <= Len(g)
  BY DEF WinType, Ring, Begins, Texts
<1>2. w.len > 0 => w.start + w.len <= Len(g)
  BY <1>1 DEF TrueWin
<1>3. ASSUME NEW p \in w.start .. w.start + w.len - 1 PROVE r[p % CacheCap] = Hidden(g, p)
  <2>1. p \in 0 .. Len(f) - 1
    BY <1>1 DEF TrueWin
  <2> QED  BY <2>1, HiddenSame DEF TrueWin
<1> QED  BY <1>2, <1>3 DEF TrueWin

LEMMA BatchGrows ==
  ASSUME NEW b, NEW f, NEW g, TrueBatch(b, f), Begins(f, g)
  PROVE  TrueBatch(b, g)
<1>1. b.start \in Nat /\ Len(b.rows) \in Nat /\ Len(f) \in Nat /\ Len(g) \in Nat /\ Len(f) <= Len(g)
      /\ b.start + Len(b.rows) <= Len(f)
  BY DEF TrueBatch, Begins, Texts
<1>2. ASSUME NEW i \in 1 .. Len(b.rows) PROVE b.rows[i] = Hidden(g, b.start + i - 1)
  <2>1. b.start + i - 1 \in 0 .. Len(f) - 1
    BY <1>1
  <2> QED  BY <2>1, HiddenSame DEF TrueBatch
<1> QED  BY <1>1, <1>2 DEF TrueBatch

LEMMA BatchRows ==
  ASSUME NEW f \in Texts, NEW from \in Nat, NEW n \in Nat, from + n <= Len(f)
  PROVE  /\ HiddenRows(f, from, n) \in Seq(HiddenRow) /\ Len(HiddenRows(f, from, n)) = n
         /\ \A i \in 1 .. n : HiddenRows(f, from, n)[i] = Hidden(f, from + i - 1)
<1>1. \A i \in 1 .. n : Hidden(f, from + i - 1) \in HiddenRow
  <2>1. SUFFICES ASSUME NEW i \in 1 .. n PROVE Hidden(f, from + i - 1) \in HiddenRow
    OBVIOUS
  <2>2. from + i - 1 \in 0 .. Len(f) - 1
    BY DEF Texts
  <2> QED  BY <2>2, HiddenTyped DEF HiddenRow
<1>2. HiddenRows(f, from, n) \in [1 .. n -> HiddenRow]
  BY <1>1 DEF HiddenRows
<1>3. \A i \in 1 .. n : HiddenRows(f, from, n)[i] = Hidden(f, from + i - 1)
  BY DEF HiddenRows
<1> QED  BY <1>2, <1>3

(* What is noted behind a token is the row of the last one. *)
LEMMA NotedTrue ==
  ASSUME NEW f \in Texts, f # <<>>, NEW b, TrueBatch(b, f), Noted(RowOf(f), b, f)
  PROVE  /\ TrueRow(row', f) /\ TrueBatch(batch', f)
         /\ row'.hidden = Hidden(f, Len(f) - 1)
<1>1. row' = [RowOf(f) EXCEPT !.len = Len(f)] /\ batch' = b
  BY DEF Noted, RowOf
<1>2. Len(f) \in Nat /\ Len(f) - 1 \in 0 .. Len(f) - 1
  BY DEF Texts
<1>3. Hidden(f, Len(f) - 1) \in HiddenRow
  BY <1>2, HiddenTyped DEF HiddenRow
<1>4. row' = [valid |-> TRUE, hidden |-> Hidden(f, Len(f) - 1), len |-> Len(f)]
  BY <1>1 DEF RowOf
<1>5. TrueRow(row', f)
  BY <1>2, <1>3, <1>4 DEF TrueRow
<1> QED  BY <1>1, <1>4, <1>5

LEMMA NoBatchTrue ==
  ASSUME NEW f \in Texts
  PROVE  TrueBatch(NoBatch, f) /\ TrueRow(NoRow, f)
<1>1. Len(f) \in Nat
  BY DEF Texts
<1> QED  BY <1>1 DEF TrueBatch, NoBatch, TrueRow, NoRow, HiddenRow

(* The captures of a prompt's last chunk. *)
LEMMA PrefilledTrue ==
  ASSUME DraftAssumption, NEW f \in Texts, NEW from \in Nat, from < Len(f), Prefilled(f, from)
  PROVE  TrueRow(row', f) /\ TrueBatch(batch', f)
<1> DEFINE n == Len(f) - from
           k == (n - 1) \div ChunkCap
           c == LastChunk(from, n)
           b == [start |-> c, rows |-> HiddenRows(f, c, Len(f) - c)]
<1>1. ChunkCap \in Nat \ {0} /\ Len(f) \in Nat /\ n \in Nat \ {0}
  BY DEF DraftAssumption, Texts
<1>2. c \in Nat /\ c < Len(f)
  <2>1. n - 1 \in Nat
    BY <1>1
  <2>2. PICK m \in 0 .. ChunkCap - 1 : k \in Nat /\ n - 1 = ChunkCap * k + m
    BY <1>1, <2>1, DivMod
  <2>3. ChunkCap * k \in Nat /\ k * ChunkCap = ChunkCap * k
    BY <1>1, <2>2
  <2>4. c = from + ChunkCap * k
    BY <2>3 DEF LastChunk
  <2> HIDE DEF c, k
  <2> QED  BY <1>1, <2>2, <2>3, <2>4
<1> HIDE DEF c
<1> DEFINE m == Len(f) - c
           rows == HiddenRows(f, c, m)
<1>3. m \in Nat /\ c + m = Len(f) /\ c + m <= Len(f)
  BY <1>1, <1>2
<1>4. b = [start |-> c, rows |-> rows]
  OBVIOUS
<1> HIDE DEF m, b
<1>5. rows \in Seq(HiddenRow) /\ Len(rows) = m /\ \A i \in 1 .. m : rows[i] = Hidden(f, c + i - 1)
  BY <1>2, <1>3, BatchRows
<1> HIDE DEF rows
<1>8. TrueBatch(b, f)
  BY <1>1, <1>2, <1>3, <1>4, <1>5 DEF TrueBatch
<1>6. Noted(RowOf(f), b, f)
  BY DEF Prefilled, b, m, rows, c, n
<1>7. f # <<>>
  BY <1>1
<1> QED  BY <1>8, <1>6, <1>7, NotedTrue

-----------------------------------------------------------------------------
(* The inductive invariant: while the checkpoint is valid, the captures    *)
(* and the window are of the live tokens.                                  *)
DInv ==
  /\ live \in Texts /\ valid \in BOOLEAN /\ draft \in Nat /\ win \in WinType
  /\ pc \in {"idle", "spec"} /\ (pc = "spec" => live # <<>>)
  /\ valid => TrueRow(row, live) /\ TrueBatch(batch, live) /\ TrueWin(win, rawcache, live)
  /\ DraftsFromLive

LEMMA Quiet ==
  ASSUME live' \in Texts, valid' \in BOOLEAN, draft' \in Nat, win' \in WinType, pc' = "idle",
         valid' => TrueRow(row', live') /\ TrueBatch(batch', live') /\ TrueWin(win', rawcache', live')
  PROVE  DInv'
BY DEF DInv, DraftsFromLive

LEMMA NoWinTrue ==
  ASSUME Ring, NEW r, NEW f
  PROVE  TrueWin(NoWin, r, f) /\ NoWin \in WinType
BY DEF TrueWin, NoWin, WinType, Ring

LEMMA RingHolds == DraftAssumption => Ring
BY DEF DraftAssumption, Ring

LEMMA InitDInv ==
  ASSUME DraftAssumption, DraftInit
  PROVE  DInv
<1>1. <<>> \in Texts
  BY DEF Texts
<1>2. win \in WinType
  BY NoWinTrue, RingHolds DEF DraftInit
<1> QED  BY <1>1, <1>2 DEF DraftInit, DInv, DraftsFromLive

LEMMA SyncColdDInv ==
  ASSUME DraftAssumption, DInv, NEW n \in Prompts, SyncCold(n)
  PROVE  DInv'
<1>1. n \in Nat \ {0} /\ Ring
  BY RingHolds DEF DraftAssumption
<1>2. PICK f \in [1 .. n -> Token] : live' = f /\ Prefilled(f, 0)
  BY DEF SyncCold
<1>3. f \in Texts /\ Len(f) = n
  BY <1>1, <1>2 DEF Texts, AnyToken
<1>4. TrueRow(row', f) /\ TrueBatch(batch', f)
  BY <1>1, <1>2, <1>3, PrefilledTrue
<1>5. valid' = TRUE /\ win' = NoWin /\ draft' = 0 /\ pc' = "idle"
  BY DEF SyncCold, Idle
<1> QED  BY <1>1, <1>2, <1>3, <1>4, <1>5, NoWinTrue, Quiet

LEMMA SyncExtendDInv ==
  ASSUME DraftAssumption, DInv, NEW n \in Extensions, SyncExtend(n)
  PROVE  DInv'
<1>1. n \in Nat \ {0} /\ Ring
  BY RingHolds DEF DraftAssumption
<1>2. PICK f \in [1 .. n -> Token] : live' = live \o f /\ Prefilled(live \o f, Len(live))
  BY DEF SyncExtend
<1>3. f \in Texts /\ Len(f) = n /\ live \in Texts /\ Len(live) \in Nat
  BY <1>1, <1>2 DEF Texts, AnyToken, DInv
<1>4. Begins(live, live \o f) /\ live \o f \in Texts /\ Len(live) < Len(live \o f)
  <2>1. Len(live \o f) = Len(live) + Len(f)
    BY <1>3, BeginsConcat
  <2> QED  BY <1>1, <1>3, <2>1, BeginsConcat
<1>5. TrueRow(row', live') /\ TrueBatch(batch', live')
  BY <1>2, <1>3, <1>4, PrefilledTrue
<1>6. valid /\ valid' = valid /\ win' = win /\ rawcache' = rawcache /\ draft' = draft /\ pc' = "idle"
  BY DEF SyncExtend, Idle
<1>7. TrueWin(win', rawcache', live') /\ win' \in WinType
  BY <1>1, <1>2, <1>4, <1>6, WinGrows DEF DInv
<1> QED  BY <1>2, <1>4, <1>5, <1>6, <1>7, Quiet DEF DInv

LEMMA InvalidateDInv ==
  ASSUME DInv, Invalidate
  PROVE  DInv'
<1>1. <<>> \in Texts
  BY DEF Texts
<1> QED  BY <1>1, Quiet DEF Invalidate, Idle, DInv

(* One more token, decoded. *)
LEMMA EvalTrue ==
  ASSUME DraftAssumption, DInv, valid, NEW tok \in Token, live' = Append(live, tok),
         Noted(RowOf(live'), batch, live')
  PROVE  /\ Begins(live, live') /\ live' \in Texts /\ live' # <<>> /\ Len(live) \in Nat
         /\ Len(live') = Len(live) + 1
         /\ TrueRow(row', live') /\ TrueBatch(batch', live')
         /\ row'.hidden = Hidden(live', Len(live)) /\ row'.hidden \in HiddenRow
<1>1. live \in Texts /\ tok \in AnyToken /\ Len(live) \in Nat
  BY DEF DInv, Texts, AnyToken
<1>2. Begins(live, live') /\ live' \in Texts /\ Len(live') = Len(live) + 1
  BY <1>1, BeginsAppend
<1>3. live' # <<>>
  BY <1>1, <1>2
<1>4. TrueBatch(batch, live')
  BY <1>2, BatchGrows DEF DInv
<1>5. TrueRow(row', live') /\ TrueBatch(batch', live') /\ row'.hidden = Hidden(live', Len(live') - 1)
  BY <1>2, <1>3, <1>4, NotedTrue
<1>6. Len(live') - 1 = Len(live)
  BY <1>1, <1>2
<1> QED  BY <1>1, <1>2, <1>3, <1>5, <1>6 DEF TrueRow

LEMMA EvalPlainDInv ==
  ASSUME DraftAssumption, DInv, EvalPlain
  PROVE  DInv'
<1>1. PICK tok \in Token : live' = Append(live, tok)
  BY DEF EvalPlain
<1>2. /\ valid /\ valid' = valid /\ win' = win /\ rawcache' = rawcache /\ draft' = draft /\ pc' = "idle"
      /\ Noted(RowOf(live'), batch, live')
  BY DEF EvalPlain, Idle
<1>3. Begins(live, live') /\ live' \in Texts /\ TrueRow(row', live') /\ TrueBatch(batch', live')
  BY <1>1, <1>2, EvalTrue
<1>4. TrueWin(win', rawcache', live') /\ win' \in WinType
  BY <1>2, <1>3, RingHolds, WinGrows DEF DInv
<1> QED  BY <1>2, <1>3, <1>4, Quiet DEF DInv

LEMMA EvalFailsDInv ==
  ASSUME DInv, EvalFails
  PROVE  DInv'
BY Quiet DEF EvalFails, Idle, DInv

(* A part of a window is known as well as the whole. *)
LEMMA SubWin ==
  ASSUME Ring, NEW v \in WinType, NEW w \in WinType, NEW r, NEW g, TrueWin(v, r, g),
         w.len > 0 => v.start <= w.start /\ w.start + w.len <= v.start + v.len
  PROVE  TrueWin(w, r, g)
<1>1. v.start \in Nat /\ v.len \in Nat /\ w.start \in Nat /\ w.len \in Nat
  BY DEF WinType, Ring
<1>2. CASE w.len = 0
  BY <1>1, <1>2 DEF TrueWin
<1>3. CASE w.len > 0
  <2>1. v.start <= w.start /\ w.start + w.len <= v.start + v.len /\ v.len > 0
    BY <1>1, <1>3
  <2>2. v.start + v.len \in Nat
    BY <1>1
  <2>3. ASSUME Len(g) \in Nat PROVE w.start + w.len <= Len(g)
    BY <1>1, <2>1, <2>3 DEF TrueWin
  <2>4. ASSUME NEW p \in w.start .. w.start + w.len - 1 PROVE r[p % CacheCap] = Hidden(g, p)
    <3>1. p \in v.start .. v.start + v.len - 1
      BY <1>1, <2>1
    <3> QED  BY <3>1 DEF TrueWin
  <2> QED  BY <1>1, <2>1, <2>3, <2>4 DEF TrueWin
<1> QED  BY <1>1, <1>2, <1>3

(* The row of position pos, written behind a window that ends there, goes  *)
(* on with it: v is what of the window the rows do not reach, and pos.     *)
LEMMA Appended ==
  ASSUME Ring, NEW w \in WinType, NEW v \in WinType, NEW r, NEW g \in Texts, TrueWin(w, r, g),
         NEW pos \in Nat, pos < Len(g), NEW rows \in Seq(HiddenRow), 0 < Len(rows),
         rows[1] = Hidden(g, pos), w.len > 0 => w.start + w.len = pos,
         v.len > 0, v.start + v.len = pos + 1,
         (w.len > 0 /\ w.start <= v.start) \/ v.len = 1,
         pos + Len(rows) <= v.start + CacheCap, Len(rows) <= CacheCap
  PROVE  TrueWin(v, Filled(r, pos, rows), g)
<1>1. /\ v.start \in Nat /\ v.len \in Nat /\ w.start \in Nat /\ w.len \in Nat
      /\ Len(g) \in Nat /\ Len(rows) \in Nat /\ CacheCap \in Nat \ {0}
  BY DEF WinType, Ring, Texts
<1>2. v.start + v.len <= Len(g)
  BY <1>1
<1>3. ASSUME NEW p \in v.start .. v.start + v.len - 1
      PROVE  Filled(r, pos, rows)[p % CacheCap] = Hidden(g, p)
  <2>1. p \in Nat /\ v.start <= p /\ p <= pos
    BY <1>1
  <2>2. CASE p = pos
    <3>1. 1 \in 1 .. Len(rows) /\ pos + 1 - 1 = p
      BY <1>1, <2>2
    <3>2. Filled(r, pos, rows)[(pos + 1 - 1) % CacheCap] = rows[1]
      BY <3>1, SlotNew
    <3> QED  BY <2>2, <3>1, <3>2
  <2>3. CASE p < pos
    <3>1. w.len > 0 /\ w.start <= v.start
      BY <1>1, <2>1, <2>3
    <3>2. p \in w.start .. w.start + w.len - 1
      <4>1. w.start + w.len = pos
        BY <3>1
      <4>2. w.start <= p /\ p <= pos - 1
        BY <1>1, <2>1, <2>3, <3>1
      <4>3. ASSUME NEW a \in Nat, NEW b \in Nat, a + b = pos PROVE a + b - 1 = pos - 1
        BY <4>3
      <4>4. w.start + w.len - 1 = pos - 1
        BY <1>1, <4>1, <4>3
      <4> QED  BY <1>1, <2>1, <4>2, <4>4
    <3>3. pos + Len(rows) <= p + CacheCap
      BY <1>1, <2>1
    <3>4. Filled(r, pos, rows)[p % CacheCap] = r[p % CacheCap]
      BY <2>1, <2>3, <3>3, SlotOld
    <3>5. r[p % CacheCap] = Hidden(g, p)
      BY <3>2 DEF TrueWin
    <3> QED  BY <3>4, <3>5
  <2> QED  BY <2>1, <2>2, <2>3
<1> QED  BY <1>1, <1>2, <1>3 DEF TrueWin

(* A skipped cycle. *)
LEMMA PausedTrue ==
  ASSUME Ring, NEW g \in Texts, NEW pos \in Nat, pos < Len(g), win \in WinType,
         TrueWin(win, rawcache, g), row'.hidden = Hidden(g, pos), row'.hidden \in HiddenRow,
         Paused(pos)
  PROVE  win' \in WinType /\ TrueWin(win', rawcache', g) /\ draft' = 0 /\ reads' = NoReads
<1>1. draft' = 0 /\ reads' = NoReads
  BY DEF Paused
<1>2. CASE ~(win.len # 0 /\ EndsAt(win, pos))
  BY <1>1, <1>2 DEF Paused
<1>3. CASE win.len # 0 /\ EndsAt(win, pos)
  <2>1. rawcache' = Filled(rawcache, pos, <<row'.hidden>>) /\ win' = Claim(win)
    BY <1>3 DEF Paused
  <2>2. /\ win.start \in Nat /\ win.len \in 1 .. CacheCap /\ CacheCap \in Nat \ {0}
        /\ win.start + win.len = pos
    BY <1>3 DEF WinType, Ring, EndsAt
  <2> DEFINE v == Claim(win)
             rows == <<row'.hidden>>
  <2>3. /\ v \in WinType /\ v.len > 0 /\ v.start + v.len = pos + 1 /\ win.start <= v.start
        /\ pos + 1 <= v.start + CacheCap
    <3>1. CASE win.len < CacheCap
      <4>1. v = [start |-> win.start, len |-> win.len + 1]
        BY <3>1 DEF Claim, WinType
      <4> QED  BY <2>2, <3>1, <4>1 DEF WinType
    <3>2. CASE ~(win.len < CacheCap)
      <4>1. v = [start |-> win.start + 1, len |-> win.len] /\ win.len = CacheCap
        BY <2>2, <3>2 DEF Claim, WinType
      <4> QED  BY <2>2, <4>1 DEF WinType
    <3> QED  BY <3>1, <3>2
  <2>4. rows \in Seq(HiddenRow) /\ Len(rows) = 1 /\ rows[1] = Hidden(g, pos)
    OBVIOUS
  <2> HIDE DEF v, rows
  <2>5. TrueWin(v, Filled(rawcache, pos, rows), g)
    <3>1. win.len > 0 /\ 0 < Len(rows) /\ pos + Len(rows) <= v.start + CacheCap /\ Len(rows) <= CacheCap
      BY <2>2, <2>3, <2>4
    <3> QED  BY <2>2, <2>3, <2>4, <3>1, Appended
  <2> QED  BY <1>1, <2>1, <2>3, <2>5 DEF v, rows
<1> QED  BY <1>2, <1>3

(* What the proposal's attention reads and leaves behind. *)
LEMMA ChainTrue ==
  ASSUME DraftAssumption, NEW g \in Texts, NEW pos \in Nat, pos + 1 = Len(g), NEW w \in WinType,
         NEW r, TrueWin(w, r, g), row'.hidden = Hidden(g, pos), row'.hidden \in HiddenRow,
         Chain(w, r, pos)
  PROVE  /\ TrueWin(w, rawcache', g) /\ draft' \in Nat
         /\ reads'.pos + Len(reads'.rows) = Len(g)
         /\ \A i \in 1 .. Len(reads'.rows) : reads'.rows[i] = Hidden(g, reads'.pos + i - 1)
<1> DEFINE rows == <<row'.hidden>> \o [i \in 1 .. Block |-> Junk]
           first == IF w.len = 0 THEN pos ELSE w.start
           stored == Filled(r, Behind(w, pos), rows)
           v == [start |-> first, len |-> w.len + 1]
<1>1. /\ w.len + Block + 1 <= CacheCap /\ EndsAt(w, pos) /\ rawcache' = stored
      /\ reads' = [pos |-> first,
                   rows |-> [i \in 1 .. w.len + 1 |-> stored[(first + i - 1) % CacheCap]]]
      /\ draft' \in 0 .. Block
  BY DEF Chain
<1>2. /\ Block \in Nat /\ CacheCap \in Nat \ {0} /\ Ring /\ w.start \in Nat /\ w.len \in Nat
      /\ Len(g) \in Nat
  BY DEF DraftAssumption, WinType, Ring, Texts
<1>3. rows \in Seq(HiddenRow) /\ Len(rows) = Block + 1 /\ rows[1] = Hidden(g, pos)
  <2> DEFINE tail == [i \in 1 .. Block |-> Junk]
  <2>1. tail \in [1 .. Block -> HiddenRow]
    BY DEF HiddenRow
  <2>2. tail \in Seq(HiddenRow) /\ Len(tail) = Block
    BY <1>2, <2>1
  <2> HIDE DEF tail
  <2>3. <<row'.hidden>> \in Seq(HiddenRow) /\ Len(<<row'.hidden>>) = 1 /\ <<row'.hidden>>[1] = Hidden(g, pos)
    OBVIOUS
  <2>4. /\ <<row'.hidden>> \o tail \in Seq(HiddenRow) /\ Len(<<row'.hidden>> \o tail) = 1 + Block
        /\ (<<row'.hidden>> \o tail)[1] = Hidden(g, pos)
    BY <1>2, <2>2, <2>3
  <2> QED  BY <1>2, <2>4 DEF tail
<1> HIDE DEF rows
<1>4. Behind(w, pos) = pos /\ first \in Nat /\ first + w.len = pos
  BY <1>1, <1>2 DEF Behind, EndsAt
<1> HIDE DEF first
<1>5. v \in WinType /\ v.len > 0 /\ v.start + v.len = pos + 1
  BY <1>1, <1>2, <1>4 DEF WinType
<1>6. stored = Filled(r, pos, rows)
  BY <1>4
<1> HIDE DEF stored
<1>7. v.start = first /\ v.len = w.len + 1
  OBVIOUS
<1> HIDE DEF v
<1>8. TrueWin(v, stored, g)
  <2>1. 0 < Len(rows) /\ Len(rows) <= CacheCap /\ pos + Len(rows) <= v.start + CacheCap /\ pos < Len(g)
    <3>1. Block + 1 <= CacheCap
      BY <1>1, <1>2
    <3>2. pos + (Block + 1) <= first + CacheCap
      BY <1>1, <1>2, <1>4
    <3>3. pos < Len(g)
      BY <1>2
    <3>4. 0 < Block + 1
      BY <1>2
    <3> QED  BY <1>3, <1>7, <3>1, <3>2, <3>3, <3>4
  <2>2. w.len > 0 => w.start + w.len = pos
    BY <1>1, <1>2 DEF EndsAt
  <2>3. (w.len > 0 /\ w.start <= v.start) \/ v.len = 1
    BY <1>2, <1>4, <1>7, <2>2
  <2>4. TrueWin(v, Filled(r, pos, rows), g)
    BY <1>2, <1>3, <1>5, <2>1, <2>2, <2>3, Appended
  <2> QED  BY <1>6, <2>4
<1>9. TrueWin(w, stored, g)
  <2>1. w.len > 0 => v.start <= w.start /\ w.start + w.len <= v.start + v.len
    BY <1>1, <1>2, <1>4, <1>7 DEF EndsAt
  <2> QED  BY <1>2, <1>5, <1>8, <2>1, SubWin
<1> DEFINE q == [i \in 1 .. w.len + 1 |-> stored[(first + i - 1) % CacheCap]]
<1>10. w.len + 1 \in Nat /\ Len(q) = w.len + 1
  BY <1>2
<1>11. ASSUME NEW i \in 1 .. w.len + 1 PROVE q[i] = Hidden(g, first + i - 1)
  <2>1. first + i - 1 \in v.start .. v.start + v.len - 1
    BY <1>2, <1>4, <1>7
  <2>2. stored[(first + i - 1) % CacheCap] = Hidden(g, first + i - 1)
    BY <1>8, <2>1 DEF TrueWin
  <2> QED  BY <2>2
<1>12. reads'.pos = first /\ reads'.rows = q
  BY <1>1
<1> HIDE DEF q
<1>13. draft' \in Nat
  BY <1>1, <1>2
<1>14. reads'.pos + Len(reads'.rows) = Len(g)
  BY <1>2, <1>4, <1>10, <1>12
<1> QED  BY <1>1, <1>9, <1>10, <1>11, <1>12, <1>13, <1>14

NextReads(g) ==
  reads'.rows # <<>> =>
    /\ reads'.pos + Len(reads'.rows) = Len(g)
    /\ \A i \in 1 .. Len(reads'.rows) : reads'.rows[i] = Hidden(g, reads'.pos + i - 1)

(* A window that is cropped to the prefix is a part of what it was. *)
LEMMA CropTrue ==
  ASSUME Ring, NEW w \in WinType, NEW r, NEW g, TrueWin(w, r, g), NEW pos \in Nat
  PROVE  Crop(w, pos) \in WinType /\ TrueWin(Crop(w, pos), r, g)
<1>1. w.start \in Nat /\ w.len \in 0 .. CacheCap /\ CacheCap \in Nat
  BY DEF WinType, Ring
<1>2. CASE w.len = 0
  BY <1>2 DEF Crop
<1>3. CASE w.len # 0 /\ (pos <= w.start \/ pos > w.start + w.len)
  BY <1>3, NoWinTrue DEF Crop
<1>4. CASE w.len # 0 /\ ~(pos <= w.start \/ pos > w.start + w.len)
  <2> DEFINE v == [start |-> w.start, len |-> pos - w.start]
  <2>1. Crop(w, pos) = v
    BY <1>4 DEF Crop, WinType
  <2>2. v \in WinType /\ v.start + v.len <= w.start + w.len
    BY <1>1, <1>4 DEF WinType
  <2>3. v.start = w.start
    OBVIOUS
  <2> HIDE DEF v
  <2>4. w.start <= v.start
    BY <1>1, <2>3
  <2> QED  BY <2>1, <2>2, <2>4, SubWin
<1> QED  BY <1>2, <1>3, <1>4

(* The batch capture becomes the window. *)
LEMMA SeedTrue ==
  ASSUME Ring, NEW g \in Texts, NEW b, TrueBatch(b, g), NEW r, Len(b.rows) <= CacheCap
  PROVE  /\ [start |-> b.start, len |-> Len(b.rows)] \in WinType
         /\ TrueWin([start |-> b.start, len |-> Len(b.rows)], Filled(r, b.start, b.rows), g)
<1> DEFINE n == Len(b.rows)
           w == [start |-> b.start, len |-> n]
<1>1. /\ b.start \in Nat /\ b.rows \in Seq(HiddenRow) /\ n \in Nat /\ n <= CacheCap
      /\ b.start + n <= Len(g) /\ CacheCap \in Nat
  BY DEF TrueBatch, Ring
<1>2. w \in WinType
  BY <1>1 DEF WinType
<1>3. w.start = b.start /\ w.len = n
  OBVIOUS
<1> HIDE DEF w, n
<1>4. ASSUME NEW p \in w.start .. w.start + w.len - 1
      PROVE  Filled(r, b.start, b.rows)[p % CacheCap] = Hidden(g, p)
  <2>1. PICK i \in 1 .. n : p = b.start + i - 1
    <3>1. p - b.start + 1 \in 1 .. n /\ p = b.start + (p - b.start + 1) - 1
      BY <1>1, <1>3
    <3> QED  BY <3>1
  <2>2. b.rows[i] = Hidden(g, b.start + i - 1)
    BY DEF TrueBatch, n
  <2>3. Filled(r, b.start, b.rows)[(b.start + i - 1) % CacheCap] = b.rows[i]
    BY <1>1, SlotNew DEF n
  <2> QED  BY <2>1, <2>2, <2>3
<1>5. TrueWin(w, Filled(r, b.start, b.rows), g)
  BY <1>1, <1>3, <1>4 DEF TrueWin
<1> QED  BY <1>2, <1>5 DEF w, n

LEMMA ProposalTrue ==
  ASSUME DraftAssumption, NEW g \in Texts, NEW pos \in Nat, pos + 1 = Len(g), NEW w \in WinType,
         NEW r, TrueWin(w, r, g), row'.hidden = Hidden(g, pos), row'.hidden \in HiddenRow,
         Chain(w, r, pos) \/ NoChain(r)
  PROVE  TrueWin(w, rawcache', g) /\ draft' \in Nat /\ NextReads(g)
<1>1. CASE Chain(w, r, pos)
  BY <1>1, ChainTrue DEF NextReads
<1>2. CASE NoChain(r)
  BY <1>2 DEF NoChain, NoReads, NextReads
<1> QED  BY <1>1, <1>2

(* A cycle that proposes. *)
LEMMA ProposedTrue ==
  ASSUME DraftAssumption, NEW g \in Texts, NEW pos \in Nat, pos + 1 = Len(g), win \in WinType,
         TrueWin(win, rawcache, g), TrueBatch(batch', g), batch' = batch,
         row'.hidden = Hidden(g, pos), row'.hidden \in HiddenRow, Proposed(pos)
  PROVE  win' \in WinType /\ TrueWin(win', rawcache', g) /\ draft' \in Nat /\ NextReads(g)
<1>1. Ring
  BY RingHolds
<1>2. CASE SeedReady(pos)
  <2> DEFINE b == batch'
             r == Filled(rawcache, b.start, b.rows)
  <2>1. CASE /\ SeedFits
             /\ win' = [start |-> b.start, len |-> Len(b.rows)]
             /\ Chain(win', r, pos) \/ NoChain(r)
    <3>1. Len(b.rows) <= CacheCap
      BY <2>1 DEF SeedFits
    <3> QED  BY <1>1, <2>1, <3>1, SeedTrue, ProposalTrue
  <2>2. CASE win' = NoWin /\ NoChain(rawcache)
    <3>1. win' \in WinType /\ TrueWin(win', rawcache, g)
      BY <1>1, <2>2, NoWinTrue
    <3> QED  BY <2>2, <3>1, ProposalTrue
  <2> QED  BY <1>2, <2>1, <2>2 DEF Proposed
<1>3. CASE ~SeedReady(pos)
  <2>1. win' = Crop(win, pos) /\ (Chain(win', rawcache, pos) \/ NoChain(rawcache))
    BY <1>3 DEF Proposed
  <2>2. win' \in WinType /\ TrueWin(win', rawcache, g)
    BY <1>1, <2>1, CropTrue
  <2> QED  BY <2>1, <2>2, ProposalTrue
<1> QED  BY <1>2, <1>3

LEMMA EvalProbeDInv ==
  ASSUME DraftAssumption, DInv, EvalProbe
  PROVE  DInv'
<1>1. PICK tok \in Token : live' = Append(live, tok)
  BY DEF EvalProbe
<1>2. /\ valid /\ valid' = valid /\ pc' = "spec"
      /\ Noted(RowOf(live'), batch, live')
      /\ Paused(Len(live)) \/ Proposed(Len(live))
  BY DEF EvalProbe
<1>3. /\ Begins(live, live') /\ live' \in Texts /\ live' # <<>> /\ Len(live) \in Nat
      /\ Len(live') = Len(live) + 1 /\ TrueRow(row', live') /\ TrueBatch(batch', live')
      /\ row'.hidden = Hidden(live', Len(live)) /\ row'.hidden \in HiddenRow
  BY <1>1, <1>2, EvalTrue
<1>4. Ring /\ win \in WinType /\ TrueWin(win, rawcache, live')
  BY <1>2, <1>3, RingHolds, WinGrows DEF DInv
<1>5. win' \in WinType /\ TrueWin(win', rawcache', live') /\ draft' \in Nat /\ NextReads(live')
  <2>1. CASE Paused(Len(live))
    <3>1. Len(live) < Len(live')
      BY <1>3
    <3>2. win' \in WinType /\ TrueWin(win', rawcache', live') /\ draft' = 0 /\ reads' = NoReads
      BY <1>3, <1>4, <2>1, <3>1, PausedTrue
    <3> QED  BY <3>2 DEF NextReads, NoReads
  <2>2. CASE Proposed(Len(live))
    <3>1. Len(live) + 1 = Len(live')
      BY <1>3
    <3>2. batch' = batch
      BY <1>2, <1>3 DEF Noted, RowOf
    <3> QED  BY <1>3, <1>4, <2>2, <3>1, <3>2, ProposedTrue
  <2> QED  BY <1>2, <2>1, <2>2
<1>6. DraftsFromLive'
  BY <1>5 DEF DraftsFromLive, NextReads, Hidden
<1> QED  BY <1>2, <1>3, <1>5, <1>6 DEF DInv

-----------------------------------------------------------------------------
(* What is made of a draft *)

(* A cycle that commits nothing. *)
LEMMA StillDInv ==
  ASSUME DInv, Done, UNCHANGED <<live, valid, row, batch, rawcache, win>>
  PROVE  DInv'
BY Quiet DEF DInv, Done

(* The accepted drafts. *)
LEMMA DraftTexts ==
  ASSUME NEW n \in Nat, NEW d \in Drafts(n), NEW k \in 0 .. n
  PROVE  d \in Texts /\ Len(d) = n /\ SubSeq(d, 1, k) \in Texts /\ Len(SubSeq(d, 1, k)) = k
<1>1. d \in Seq(AnyToken) /\ Len(d) = n
  BY DEF Drafts, AnyToken
<1>2. SubSeq(d, 1, k) = [i \in 1 .. k |-> d[1 + i - 1]]
  BY <1>1
<1>3. \A i \in 1 .. k : d[1 + i - 1] \in AnyToken
  BY <1>1
<1>4. SubSeq(d, 1, k) \in [1 .. k -> AnyToken]
  BY <1>2, <1>3
<1> QED  BY <1>1, <1>4 DEF Texts

(* Captures that are dropped say nothing. *)
LEMMA DroppedDInv ==
  ASSUME DraftAssumption, DInv, Done, NEW d \in Texts, live' = live \o d, valid' \in BOOLEAN,
         valid' => valid, row' = NoRow, batch' = NoBatch, UNCHANGED <<rawcache, win>>
  PROVE  DInv'
<1>1. live \in Texts /\ Begins(live, live') /\ live' \in Texts
  BY BeginsConcat DEF DInv
<1>2. TrueRow(row', live') /\ TrueBatch(batch', live')
  BY <1>1, NoBatchTrue
<1>3. win' \in WinType
  BY DEF DInv
<1>4. valid' => TrueWin(win', rawcache', live')
  BY <1>1, RingHolds, WinGrows DEF DInv
<1>5. draft' \in Nat /\ pc' = "idle"
  BY DEF Done
<1> QED  BY <1>1, <1>2, <1>3, <1>4, <1>5, Quiet

(* The verifier's captures are of the tokens it ran. *)
LEMMA SuffixTrue ==
  ASSUME DInv, valid, row.valid, row.len = Len(live), live # <<>>, NEW d \in Texts
  PROVE  TrueBatch(SuffixBatch(live \o d), live \o d)
<1> DEFINE f == live \o d
           n == Len(f) - Len(live)
           rows == HiddenRows(f, Len(live), n)
<1>1. live \in Texts /\ Begins(live, f) /\ f \in Texts /\ Len(f) = Len(live) + Len(d)
  BY BeginsConcat DEF DInv
<1>2. Len(live) \in Nat \ {0} /\ Len(f) \in Nat /\ n \in Nat /\ Len(live) + n = Len(f)
  BY <1>1 DEF Texts
<1>3. row.hidden = Hidden(live, Len(live) - 1) /\ row.hidden \in HiddenRow
  BY DEF DInv, TrueRow
<1>4. row.hidden = Hidden(f, Len(live) - 1)
  <2>1. Len(live) - 1 \in 0 .. Len(live) - 1
    BY <1>2
  <2> QED  BY <1>1, <1>3, <2>1, HiddenSame
<1>5. /\ rows \in Seq(HiddenRow) /\ Len(rows) = n
      /\ \A i \in 1 .. n : rows[i] = Hidden(f, Len(live) + i - 1)
  <2>1. Len(live) + n <= Len(f)
    BY <1>2
  <2> QED  BY <1>1, <1>2, <2>1, BatchRows
<1> DEFINE all == <<row.hidden>> \o rows
           b == [start |-> Len(live) - 1, rows |-> all]
<1>6. SuffixBatch(f) = b
  BY DEF SuffixBatch
<1> HIDE DEF rows, n, f
<1>7. all \in Seq(HiddenRow) /\ Len(all) = n + 1 /\ all[1] = row.hidden
  BY <1>2, <1>3, <1>5
<1>8. \A i \in 1 .. n : all[i + 1] = rows[i]
  BY <1>2, <1>3, <1>5
<1> HIDE DEF all
<1>9. ASSUME NEW i \in 1 .. n + 1 PROVE all[i] = Hidden(f, (Len(live) - 1) + i - 1)
  <2>1. CASE i = 1
    <3>1. (Len(live) - 1) + i - 1 = Len(live) - 1
      BY <1>2, <2>1
    <3> QED  BY <1>4, <1>7, <2>1, <3>1
  <2>2. CASE i # 1
    <3> DEFINE j == i - 1
    <3>1. j \in 1 .. n /\ i = j + 1 /\ (Len(live) - 1) + i - 1 = Len(live) + j - 1
      BY <1>2, <2>2
    <3> HIDE DEF j
    <3>2. all[j + 1] = Hidden(f, Len(live) + j - 1)
      BY <1>5, <1>8, <3>1
    <3> QED  BY <3>1, <3>2
  <2> QED  BY <2>1, <2>2
<1>10. b.start = Len(live) - 1 /\ b.rows = all /\ b \in [start : Nat, rows : Seq(HiddenRow)]
  BY <1>2, <1>7
<1> HIDE DEF b
<1>11. b.start + Len(b.rows) <= Len(f)
  BY <1>2, <1>7, <1>10
<1>12. TrueBatch(b, f)
  BY <1>7, <1>9, <1>10, <1>11 DEF TrueBatch
<1> QED  BY <1>6, <1>12 DEF f

LEMMA RunsTyped ==
  ASSUME NEW n \in Runs, DInv
  PROVE  n \in Nat /\ n > 0
BY DEF Runs, DInv

LEMMA FullCommitDInv ==
  ASSUME DraftAssumption, DInv, FullCommit
  PROVE  DInv'
<1>1. PICK n \in Runs : \E d \in Drafts(n) :
        /\ live' = live \o d
        /\ IF Carries(n) THEN Noted(RowOf(live'), SuffixBatch(live'), live')
           ELSE row' = NoRow /\ batch' = NoBatch
  BY DEF FullCommit
<1>2. PICK d \in Drafts(n) :
        /\ live' = live \o d
        /\ IF Carries(n) THEN Noted(RowOf(live'), SuffixBatch(live'), live')
           ELSE row' = NoRow /\ batch' = NoBatch
  BY <1>1
<1>3. Done /\ pc = "spec" /\ valid' = valid /\ UNCHANGED <<rawcache, win>>
  BY DEF FullCommit, Verifying, Spec0
<1>4. n \in Nat /\ n > 0 /\ n \in 0 .. n
  BY RunsTyped
<1>5. d \in Texts /\ Len(d) = n
  BY <1>4, DraftTexts
<1>6. CASE ~Carries(n)
  <2>1. row' = NoRow /\ batch' = NoBatch
    BY <1>2, <1>6
  <2>2. valid' \in BOOLEAN
    BY <1>3 DEF DInv
  <2> QED  BY <1>2, <1>3, <1>5, <2>1, <2>2, DroppedDInv
<1>7. CASE Carries(n)
  <2>1. /\ live \in Texts /\ Begins(live, live') /\ live' \in Texts /\ Len(live') = Len(live) + n
        /\ Len(live) \in Nat
    <3>1. live \in Texts /\ Len(live) \in Nat
      BY DEF DInv, Texts
    <3> QED  BY <1>2, <1>5, <3>1, BeginsConcat
  <2>2. live' # <<>> /\ live # <<>>
    <3>1. Len(live') > 0
      BY <1>4, <2>1
    <3> QED  BY <1>3, <3>1 DEF DInv
  <2>3. ASSUME valid
        PROVE  TrueRow(row', live') /\ TrueBatch(batch', live') /\ TrueWin(win', rawcache', live')
    <3>1. TrueBatch(SuffixBatch(live'), live')
      BY <1>2, <1>5, <1>7, <2>2, <2>3, SuffixTrue DEF Carries
    <3>2. TrueRow(row', live') /\ TrueBatch(batch', live')
      BY <1>2, <1>7, <2>1, <2>2, <3>1, NotedTrue
    <3>3. TrueWin(win', rawcache', live')
      BY <1>3, <2>1, <2>3, RingHolds, WinGrows DEF DInv
    <3> QED  BY <3>2, <3>3
  <2>4. valid' \in BOOLEAN /\ draft' \in Nat /\ win' \in WinType /\ pc' = "idle"
    BY <1>3 DEF DInv, Done
  <2> QED  BY <1>3, <2>1, <2>3, <2>4, Quiet
<1> QED  BY <1>6, <1>7

LEMMA PartialCommitDInv ==
  ASSUME DraftAssumption, DInv, PartialCommit
  PROVE  DInv'
<1>1. PICK n \in Runs : \E d \in Drafts(n), k \in 1 .. PrefixSlots :
        k < n /\ live' = live \o SubSeq(d, 1, k)
  BY DEF PartialCommit
<1>2. PICK d \in Drafts(n), k \in 1 .. PrefixSlots : k < n /\ live' = live \o SubSeq(d, 1, k)
  BY <1>1
<1>3. n \in Nat /\ k \in 0 .. n
  BY <1>2, RunsTyped DEF DraftAssumption
<1>4. SubSeq(d, 1, k) \in Texts
  BY <1>3, DraftTexts
<1>5. /\ Done /\ row' = NoRow /\ batch' = NoBatch /\ UNCHANGED <<rawcache, win>>
      /\ valid' = valid /\ valid' \in BOOLEAN
  BY DEF PartialCommit, Verifying, DInv
<1> QED  BY <1>2, <1>4, <1>5, DroppedDInv

LEMMA VerifierFailsDInv ==
  ASSUME DInv, VerifierFails
  PROVE  DInv'
<1>1. /\ Done /\ row' = NoRow /\ batch' = NoBatch /\ UNCHANGED <<live, valid, rawcache, win>>
  BY DEF VerifierFails, Verifying
<1>2. live \in Texts
  BY DEF DInv
<1>3. TrueRow(NoRow, live) /\ TrueBatch(NoBatch, live)
  BY <1>2, NoBatchTrue
<1> QED  BY <1>1, <1>3, Quiet DEF DInv, Done

LEMMA ReplayDInv ==
  ASSUME DraftAssumption, DInv, Replay
  PROVE  DInv'
<1>1. PICK n \in Runs : \E d \in Drafts(n), k \in 1 .. n :
        live' = live \o SubSeq(d, 1, k) /\ Noted(RowOf(live'), NoBatch, live')
  BY DEF Replay
<1>2. PICK d \in Drafts(n), k \in 1 .. n :
        live' = live \o SubSeq(d, 1, k) /\ Noted(RowOf(live'), NoBatch, live')
  BY <1>1
<1>3. n \in Nat /\ k \in 0 .. n /\ k > 0
  BY <1>2, RunsTyped
<1>4. SubSeq(d, 1, k) \in Texts /\ Len(SubSeq(d, 1, k)) = k
  BY <1>3, DraftTexts
<1>5. /\ live \in Texts /\ Begins(live, live') /\ live' \in Texts /\ Len(live) \in Nat
      /\ Len(live') = Len(live) + k
  <2>1. live \in Texts /\ Len(live) \in Nat
    BY DEF DInv, Texts
  <2> QED  BY <1>2, <1>4, <2>1, BeginsConcat
<1>6. live' # <<>>
  <2>1. Len(live') > 0
    BY <1>3, <1>5
  <2> QED  BY <2>1
<1>7. TrueRow(row', live') /\ TrueBatch(batch', live')
  BY <1>2, <1>5, <1>6, NoBatchTrue, NotedTrue
<1>8. Done /\ valid' = valid /\ UNCHANGED <<rawcache, win>>
  BY DEF Replay, Verifying
<1>9. valid' => TrueWin(win', rawcache', live')
  BY <1>5, <1>8, RingHolds, WinGrows DEF DInv
<1> QED  BY <1>5, <1>7, <1>8, <1>9, Quiet DEF DInv, Done

LEMMA ReplayFailsDInv ==
  ASSUME DraftAssumption, DInv, ReplayFails
  PROVE  DInv'
<1>1. PICK n \in Runs : \E d \in Drafts(n), k \in 0 .. n - 1 : live' = live \o SubSeq(d, 1, k)
  BY DEF ReplayFails
<1>2. PICK d \in Drafts(n), k \in 0 .. n - 1 : live' = live \o SubSeq(d, 1, k)
  BY <1>1
<1>3. n \in Nat /\ k \in 0 .. n
  BY <1>2, RunsTyped
<1>4. SubSeq(d, 1, k) \in Texts
  BY <1>3, DraftTexts
<1>5. Done /\ valid' = FALSE /\ row' = NoRow /\ batch' = NoBatch /\ UNCHANGED <<rawcache, win>>
  BY DEF ReplayFails, Verifying
<1> QED  BY <1>2, <1>4, <1>5, DroppedDInv

LEMMA SpeculateDInv ==
  ASSUME DraftAssumption, DInv, FollowUp
  PROVE  DInv'
<1>1. CASE EndOfTurn
  BY <1>1, StillDInv DEF EndOfTurn
<1>2. CASE NoDraft
  BY <1>2, StillDInv DEF NoDraft
<1>3. CASE NoRoom
  BY <1>3, StillDInv DEF NoRoom
<1>4. CASE FirstMiss
  BY <1>4, StillDInv DEF FirstMiss
<1> QED  BY <1>1, <1>2, <1>3, <1>4, FullCommitDInv, PartialCommitDInv, VerifierFailsDInv,
            ReplayDInv, ReplayFailsDInv DEF FollowUp

-----------------------------------------------------------------------------
(* The theorems *)

LEMMA NextDInv ==
  ASSUME DraftAssumption, DInv, [DraftNext]_draftvars
  PROVE  DInv'
<1>1. CASE \E n \in Prompts : SyncCold(n)
  BY <1>1, SyncColdDInv
<1>2. CASE \E n \in Extensions : SyncExtend(n)
  BY <1>2, SyncExtendDInv
<1>3. CASE UNCHANGED draftvars
  BY <1>3 DEF draftvars, DInv, DraftsFromLive, TrueRow, TrueBatch, TrueWin
<1> QED  BY <1>1, <1>2, <1>3, InvalidateDInv, EvalPlainDInv, EvalFailsDInv, EvalProbeDInv,
            SpeculateDInv DEF DraftNext

(* While a checkpoint is valid, what the drafter has captured of the       *)
(* target and every row in its window are the hidden states of the live    *)
(* tokens, at their positions: ds4_session_invalidate, the cold reset, the *)
(* crop and the capture notes drop exactly what is no longer true.         *)
THEOREM DraftInvariant == DraftAssumption /\ DraftSpec => []DInv
<1>1. DraftAssumption /\ DraftInit => DInv
  BY InitDInv
<1>2. DraftAssumption /\ DInv /\ [DraftNext]_draftvars => DInv'
  BY NextDInv
<1>3. CASE DraftAssumption
  BY <1>1, <1>2, <1>3, PTL DEF DraftSpec
<1> QED  BY <1>3

(* Every proposal of ds4_session_prepare_dspark_draft_impl attends to      *)
(* hidden states of the live tokens without a gap, up to the token that    *)
(* was just evaluated.                                                     *)
THEOREM LiveDrafts == DraftAssumption /\ DraftSpec => []DraftsFromLive
<1>1. DInv => DraftsFromLive
  BY DEF DInv
<1> QED  BY <1>1, DraftInvariant, PTL

=============================================================================

-------------------------- MODULE LayerCacheProofs --------------------------
(***************************************************************************)
(* Theorems about LayerCache, for every set of ratios, every context,      *)
(* chunk and draft length and every number of prefix slots.                *)
(***************************************************************************)
EXTENDS LayerCache, TLAPS

(* What the variables hold.                                                *)
AnyToken == Token \cup DraftToken
Held == Nat \X AnyToken
States == [StateRows -> Held \cup {Empty}]
Pooled == SUBSET ({"prev", "cur"} \X Held)
Compressors == [state : States, rows : Seq(Pooled), n : Nat]

(* What the lemmas ask of the constants and of the layer.                  *)
Layer == CacheAssumption /\ ratio \in Ratios

-----------------------------------------------------------------------------
(* Groups *)

(* What the two halves of a division are. *)
LEMMA DivMod ==
  ASSUME NEW x \in Nat, NEW c \in Nat \ {0}
  PROVE  x \div c \in Nat /\ x % c \in 0 .. c - 1 /\ x = c * (x \div c) + (x % c)
OBVIOUS

(* Distinct multiples of c are at least c apart. *)
LEMMA Multiples ==
  ASSUME NEW c \in Nat, NEW a \in Nat, NEW b \in Nat, a < b
  PROVE  c * a + c <= c * b /\ c * a \in Nat /\ c * b \in Nat
<1>1. a + 1 <= b
  OBVIOUS
<1>2. c * (a + 1) <= c * b
  BY <1>1
<1> QED  BY <1>2

(* A quotient and a remainder are determined by their sum. *)
LEMMA DivUnique ==
  ASSUME NEW c \in Nat \ {0}, NEW q \in Nat, NEW m \in 0 .. c - 1, NEW x \in Nat,
         NEW y \in Nat, y = c * q, x = y + m
  PROVE  x \div c = q /\ x % c = m
<1>1. c * q \in Nat
  OBVIOUS
<1>2. PICK a \in Nat, u \in 0 .. c - 1 : x = c * a + u /\ a = x \div c /\ u = x % c
  BY <1>1, DivMod
<1>3. c * a \in Nat
  OBVIOUS
<1>4. ~(a < q)
  <2>1. SUFFICES ASSUME a < q PROVE FALSE
    OBVIOUS
  <2>2. c * a + c <= c * q
    BY <2>1, Multiples
  <2> QED  BY <2>2, <1>1, <1>2, <1>3
<1>5. ~(q < a)
  <2>1. SUFFICES ASSUME q < a PROVE FALSE
    OBVIOUS
  <2>2. c * q + c <= c * a
    BY <2>1, Multiples
  <2> QED  BY <2>2, <1>1, <1>2, <1>3
<1>6. a = q
  BY <1>4, <1>5
<1> QED  BY <1>1, <1>2, <1>3, <1>6

LEMMA DivExact ==
  ASSUME NEW c \in Nat \ {0}, NEW q \in Nat, NEW x \in Nat, x = c * q
  PROVE  x \div c = q /\ x % c = 0
<1>1. 0 \in 0 .. c - 1 /\ x = x + 0
  OBVIOUS
<1> QED  BY <1>1, DivUnique

(* A token goes on with its group or ends it. *)
LEMMA NextInGroup ==
  ASSUME NEW p \in Nat, NEW c \in Nat \ {0}
  PROVE  /\ (p + 1) % c # 0 => (p + 1) % c = (p % c) + 1 /\ (p + 1) \div c = p \div c
         /\ (p + 1) % c = 0 => /\ p % c = c - 1 /\ (p + 1) \div c = p \div c + 1
                               /\ c * (p \div c) = p - (c - 1)
<1> DEFINE q == p \div c
           m == p % c
<1>1. q \in Nat /\ m \in 0 .. c - 1 /\ p = c * q + m
  BY DivMod
<1> HIDE DEF q, m
<1> DEFINE y == c * q
           r == q + 1
           z == c * r
<1>2. y \in Nat /\ p = y + m /\ y = c * q
  BY <1>1
<1>3. z = y + c /\ z \in Nat /\ r \in Nat /\ r = q + 1 /\ p + 1 \in Nat
  BY <1>1
<1>4. z = c * r
  OBVIOUS
<1> HIDE DEF y, z, r
<1>5. CASE m = c - 1
  <2>1. p + 1 = z
    BY <1>2, <1>3, <1>5
  <2>2. (p + 1) \div c = r /\ (p + 1) % c = 0
    BY <1>3, <1>4, <2>1, DivExact
  <2> QED  BY <1>1, <1>2, <1>3, <1>5, <2>2 DEF q, m, y
<1>6. CASE m # c - 1
  <2>1. p + 1 = y + (m + 1) /\ m + 1 \in 0 .. c - 1
    BY <1>1, <1>2, <1>6
  <2>2. (p + 1) \div c = q /\ (p + 1) % c = m + 1
    BY <1>1, <1>2, <1>3, <2>1, DivUnique
  <2> QED  BY <1>1, <2>2 DEF q, m
<1> QED  BY <1>5, <1>6

(* Tokens behind whole groups. *)
LEMMA WholeGroups ==
  ASSUME NEW p \in Nat, NEW n \in Nat, NEW c \in Nat \ {0}, p % c = 0
  PROVE  (p + n) % c = n % c /\ (p + n) \div c = p \div c + n \div c
<1> DEFINE q == p \div c
           k == n \div c
           m == n % c
<1>1. q \in Nat /\ k \in Nat /\ m \in 0 .. c - 1 /\ p = c * q /\ n = c * k + m
  BY DivMod
<1>2. c * (q + k) = c * q + c * k /\ c * q \in Nat /\ c * k \in Nat
  BY <1>1
<1> HIDE DEF q, k, m
<1> DEFINE x == p + n
           r == q + k
           y == c * r
<1>3. x \in Nat /\ r \in Nat /\ y \in Nat /\ x = y + m
  BY <1>1, <1>2
<1>4. y = c * r
  OBVIOUS
<1> HIDE DEF x, r, y
<1>5. x \div c = r /\ x % c = m
  BY <1>1, <1>3, <1>4, DivUnique
<1> QED  BY <1>5 DEF x, r, q, k, m

(* The groups below the quotient are finished. *)
LEMMA GroupEnds ==
  ASSUME NEW n \in Nat, NEW c \in Nat \ {0}, NEW k \in Nat, k < n \div c
  PROVE  c * k \in Nat /\ c * k + c <= n
<1>1. PICK q \in Nat, m \in 0 .. c - 1 : n = c * q + m /\ q = n \div c
  BY DivMod
<1>2. c * k + c <= c * q /\ c * k \in Nat /\ c * q \in Nat
  BY <1>1, Multiples
<1> QED  BY <1>1, <1>2

-----------------------------------------------------------------------------
(* Rows of the state and rows of the cache *)

(* A layer has as many state rows as its groups have tokens, or eight. *)
LEMMA Rationed ==
  ASSUME Layer
  PROVE  ratio \in Nat \ {0} /\ Grouped \in BOOLEAN /\ (Grouped => ratio = 4)
BY DEF Layer, CacheAssumption, Grouped

LEMMA AtHeld ==
  ASSUME NEW f \in Seq(AnyToken), NEW p \in 0 .. Len(f) - 1
  PROVE  At(f, p) \in Held
BY DEF At, Held

LEMMA ClearedState == EmptyState \in States /\ \A r \in StateRows : EmptyState[r] = Empty
BY DEF EmptyState, States

(* n rows of the state are set, the others stay. *)
LEMMA SetRowsState ==
  ASSUME Layer, NEW state \in States, NEW f \in Seq(AnyToken),
         NEW src \in Nat, NEW dst \in Nat, NEW n \in Nat, src + n <= Len(f)
  PROVE  SetRows(state, f, src, dst, n) \in States
<1>1. StateRows \subseteq Nat
  BY Rationed DEF StateRows
<1>2. \A r \in StateRows : r \in dst .. dst + n - 1 => At(f, src + r - dst) \in Held
  <2>1. SUFFICES ASSUME NEW r \in StateRows, r \in dst .. dst + n - 1
                 PROVE  At(f, src + r - dst) \in Held
    OBVIOUS
  <2>2. src + r - dst \in 0 .. Len(f) - 1
    BY <1>1, <2>1
  <2> QED  BY <2>2, AtHeld
<1> QED  BY <1>2 DEF SetRows, States

LEMMA SetRowsAre ==
  ASSUME NEW state, NEW f, NEW src, NEW dst, NEW n, NEW r \in StateRows
  PROVE  SetRows(state, f, src, dst, n)[r] =
           IF r \in dst .. dst + n - 1 THEN At(f, src + r - dst) ELSE state[r]
BY DEF SetRows

(* A part of the state that holds consecutive tokens. *)
HoldsPart(state, from, to, f, base, last) ==
  /\ from \in Nat /\ to \in Nat /\ base \in Nat /\ last \in Nat /\ to - from = last - base
  /\ \A r \in from .. to : state[r] = At(f, base + (r - from))

LEMMA PartIsSpan ==
  ASSUME NEW state, NEW from, NEW to, NEW f, NEW base, NEW last,
         HoldsPart(state, from, to, f, base, last)
  PROVE  StatePart(state, from, to) = Span(f, base, last)
<1>1. \A r \in from .. to : state[r] \in Span(f, base, last)
  <2>1. SUFFICES ASSUME NEW r \in from .. to
                 PROVE  state[r] \in Span(f, base, last)
    OBVIOUS
  <2>2. base + (r - from) \in base .. last /\ state[r] = At(f, base + (r - from))
    BY DEF HoldsPart
  <2> QED  BY <2>2 DEF Span
<1>2. \A p \in base .. last : At(f, p) \in StatePart(state, from, to)
  <2>1. SUFFICES ASSUME NEW p \in base .. last
                 PROVE  At(f, p) \in StatePart(state, from, to)
    OBVIOUS
  <2>2. PICK r \in from .. to : r = from + (p - base)
    BY DEF HoldsPart
  <2>3. base + (r - from) = p
    BY <2>2 DEF HoldsPart
  <2>4. state[r] = At(f, p)
    BY <2>3 DEF HoldsPart
  <2> QED  BY <2>4 DEF StatePart
<1> QED  BY <1>1, <1>2 DEF Span, StatePart

(* Empty rows have no weight. *)
LEMMA EmptyHalves ==
  ASSUME NEW half, NEW X, X \subseteq {Empty}
  PROVE  Halves(half, X) = Halves(half, {})
BY DEF Halves

LEMMA HalvesPooled ==
  ASSUME NEW half \in {"prev", "cur"}, NEW X, X \subseteq Held \cup {Empty}
  PROVE  Halves(half, X) \in Pooled
BY DEF Halves, Pooled

LEMMA SpanHeld ==
  ASSUME NEW f \in Seq(AnyToken), NEW from \in Nat, NEW to \in Int, to < Len(f)
  PROVE  Span(f, from, to) \subseteq Held
<1>1. SUFFICES ASSUME NEW p \in from .. to PROVE At(f, p) \in Held
  BY DEF Span
<1>2. p \in 0 .. Len(f) - 1
  OBVIOUS
<1> QED  BY <1>2, AtHeld

-----------------------------------------------------------------------------
(* Two sequences that begin alike *)

Alike(f, g, n) ==
  /\ f \in Seq(AnyToken) /\ g \in Seq(AnyToken)
  /\ n \in Nat /\ n <= Len(f) /\ n <= Len(g)
  /\ \A k \in 1 .. n : f[k] = g[k]

LEMMA AlikeAt ==
  ASSUME NEW f, NEW g, NEW n, Alike(f, g, n), NEW p \in 0 .. n - 1
  PROVE  At(f, p) = At(g, p)
<1>1. p + 1 \in 1 .. n
  BY DEF Alike
<1> QED  BY <1>1 DEF Alike, At

LEMMA AlikeSpan ==
  ASSUME NEW f, NEW g, NEW n, Alike(f, g, n), NEW from \in Nat, NEW to \in Int, to < n
  PROVE  Span(f, from, to) = Span(g, from, to)
<1>1. \A p \in from .. to : At(f, p) = At(g, p)
  <2>1. SUFFICES ASSUME NEW p \in from .. to PROVE At(f, p) = At(g, p)
    OBVIOUS
  <2>2. p \in 0 .. n - 1
    BY DEF Alike
  <2> QED  BY <2>2, AlikeAt
<1> QED  BY <1>1 DEF Span

(* The row of a finished group is the same in both. *)
LEMMA AlikeRow ==
  ASSUME Layer, NEW f, NEW g, NEW n, Alike(f, g, n), NEW c \in Nat, c < n \div ratio
  PROVE  RowOf(f, c) = RowOf(g, c)
<1>1. n \in Nat /\ ratio \in Nat \ {0}
  BY Rationed DEF Alike
<1>2. ratio * c \in Nat /\ ratio * c + ratio <= n
  BY <1>1, GroupEnds
<1>3. c * ratio = ratio * c
  BY <1>1
<1>4. Span(f, c * ratio, c * ratio + ratio - 1) = Span(g, c * ratio, c * ratio + ratio - 1)
  BY <1>1, <1>2, <1>3, AlikeSpan
<1>5. Grouped /\ c > 0 => Span(f, 4 * c - 4, 4 * c - 1) = Span(g, 4 * c - 4, 4 * c - 1)
  <2>1. SUFFICES ASSUME Grouped, c > 0
                 PROVE  Span(f, 4 * c - 4, 4 * c - 1) = Span(g, 4 * c - 4, 4 * c - 1)
    OBVIOUS
  <2>2. 4 * c - 4 \in Nat /\ 4 * c - 1 \in Int /\ 4 * c - 1 < n
    BY <1>1, <1>2, <2>1, Rationed
  <2> QED  BY <2>2, AlikeSpan
<1> QED  BY <1>4, <1>5 DEF RowOf

(* So is what the state should hold behind n tokens. *)
LEMMA AlikePending ==
  ASSUME Layer, NEW state, NEW f, NEW g, NEW n, Alike(f, g, n), Pending(state, f, n)
  PROVE  Pending(state, g, n)
<1>1. n \in Nat /\ ratio \in Nat \ {0} /\ n % ratio \in 0 .. ratio - 1 /\ n % ratio <= n
  <2>1. n \in Nat /\ ratio \in Nat \ {0}
    BY Rationed DEF Alike
  <2>2. n % ratio \in 0 .. ratio - 1
    BY <2>1, DivMod
  <2>3. PICK q \in Nat : n = ratio * q + (n % ratio)
    BY <2>1, DivMod
  <2>4. ratio * q \in Nat
    BY <2>1
  <2> QED  BY <2>1, <2>2, <2>3, <2>4
<1> DEFINE m == n % ratio
<1>2. \A r \in 0 .. m - 1 : At(f, n - m + r) = At(g, n - m + r)
  <2>1. SUFFICES ASSUME NEW r \in 0 .. m - 1 PROVE At(f, n - m + r) = At(g, n - m + r)
    OBVIOUS
  <2>2. n - m + r \in 0 .. n - 1
    BY <1>1
  <2> QED  BY <2>2, AlikeAt
<1>3. Grouped /\ n >= 4 => \A r \in 0 .. 3 : At(f, n - m - 4 + r) = At(g, n - m - 4 + r)
  <2>1. SUFFICES ASSUME Grouped, n >= 4, NEW r \in 0 .. 3
                 PROVE  At(f, n - m - 4 + r) = At(g, n - m - 4 + r)
    OBVIOUS
  <2>2. n - m - 4 + r \in 0 .. n - 1
    BY <1>1, <2>1, Rationed
  <2> QED  BY <2>2, AlikeAt
<1> QED  BY <1>2, <1>3 DEF Pending

(* A compressor that holds the first n tokens of f, with its types. *)
Sound(c, f, n) == c \in Compressors /\ Holds(c, f, n)

LEMMA AlikeSound ==
  ASSUME Layer, NEW c, NEW f, NEW g, NEW n, Alike(f, g, n), Sound(c, f, n)
  PROVE  Sound(c, g, n)
<1>1. n \in Nat /\ ratio \in Nat \ {0}
  BY Rationed DEF Alike
<1>2. \A k \in 1 .. c.n : RowOf(f, k - 1) = RowOf(g, k - 1)
  <2>1. SUFFICES ASSUME NEW k \in 1 .. c.n PROVE RowOf(f, k - 1) = RowOf(g, k - 1)
    OBVIOUS
  <2>2. c.n = n \div ratio /\ c.n \in Nat
    BY DEF Sound, Holds, Compressors
  <2>3. k - 1 \in Nat /\ k - 1 < n \div ratio
    BY <2>2
  <2> QED  BY <2>3, AlikeRow
<1> QED  BY <1>2, AlikePending DEF Sound, Holds

-----------------------------------------------------------------------------
(* One token *)

LEMMA StoreIs ==
  ASSUME Layer, NEW state \in States, NEW f \in Seq(AnyToken), NEW p \in 0 .. Len(f) - 1
  PROVE  /\ Store(state, f, p) \in States
         /\ \A r \in StateRows :
              Store(state, f, p)[r] =
                IF r = (IF Grouped THEN 4 + (p % 4) ELSE p % ratio) THEN At(f, p) ELSE state[r]
<1> DEFINE d == IF Grouped THEN 4 + (p % 4) ELSE p % ratio
<1>1. p \in Nat /\ p + 1 <= Len(f) /\ d \in Nat
  <2>1. p \in Nat /\ p + 1 <= Len(f) /\ ratio \in Nat \ {0} /\ 4 \in Nat \ {0}
    BY Rationed
  <2>2. p % 4 \in 0 .. 3 /\ p % ratio \in 0 .. ratio - 1
    BY <2>1, DivMod
  <2> QED  BY <2>1, <2>2
<1> HIDE DEF d
<1>2. SetRows(state, f, p, d, 1) \in States
  BY <1>1, SetRowsState
<1>3. ASSUME NEW r \in StateRows
      PROVE  SetRows(state, f, p, d, 1)[r] = IF r = d THEN At(f, p) ELSE state[r]
  <2>1. r \in Nat /\ (r \in d .. d + 1 - 1 <=> r = d) /\ (r = d => p + r - d = p)
    BY <1>1, Rationed DEF StateRows
  <2>2. SetRows(state, f, p, d, 1)[r] = IF r \in d .. d + 1 - 1 THEN At(f, p + r - d) ELSE state[r]
    BY SetRowsAre
  <2> QED  BY <2>1, <2>2
<1>4. Store(state, f, p) = SetRows(state, f, p, d, 1)
  BY DEF Store, d
<1> QED  BY <1>2, <1>3, <1>4 DEF d

(* The group of p, up to p, is in the state behind p's store; the rows of  *)
(* the group before are as they were.                                      *)
LEMMA StoredGroup ==
  ASSUME Layer, NEW state \in States, NEW f \in Seq(AnyToken), NEW p \in 0 .. Len(f) - 1,
         Pending(state, f, p)
  PROVE  /\ \A r \in 0 .. p % ratio :
              Store(state, f, p)[IF Grouped THEN 4 + r ELSE r] = At(f, p - (p % ratio) + r)
         /\ Grouped => \A r \in 0 .. 3 : Store(state, f, p)[r] = state[r]
<1> DEFINE m == p % ratio
<1>1. p \in Nat /\ ratio \in Nat \ {0} /\ m \in 0 .. ratio - 1
  <2>1. p \in Nat /\ ratio \in Nat \ {0}
    BY Rationed
  <2> QED  BY <2>1, DivMod
<1>2. ASSUME NEW r \in 0 .. m
      PROVE  Store(state, f, p)[IF Grouped THEN 4 + r ELSE r] = At(f, p - m + r)
  <2> DEFINE d == IF Grouped THEN 4 + r ELSE r
  <2>1. d \in StateRows
    BY <1>1, Rationed DEF StateRows
  <2>2. CASE r = m
    <3>1. d = IF Grouped THEN 4 + (p % 4) ELSE p % ratio
      BY <2>2, Rationed
    <3>2. p - m + r = p
      BY <1>1, <2>2
    <3> QED  BY <2>1, <3>1, <3>2, StoreIs
  <2>3. CASE r # m
    <3>1. r \in 0 .. m - 1
      BY <1>1, <2>3
    <3>2. d # IF Grouped THEN 4 + (p % 4) ELSE p % ratio
      BY <1>1, <2>3, Rationed
    <3>3. state[d] = At(f, p - m + r)
      BY <3>1 DEF Pending
    <3> QED  BY <2>1, <3>2, <3>3, StoreIs
  <2> QED  BY <2>2, <2>3
<1>3. ASSUME Grouped, NEW r \in 0 .. 3
      PROVE  Store(state, f, p)[r] = state[r]
  <2>1. r \in StateRows /\ r # 4 + (p % 4)
    BY <1>1, <1>3, DivMod DEF StateRows
  <2> QED  BY <1>3, <2>1, StoreIs
<1> QED  BY <1>2, <1>3

(* The pooled row of a group whose last token has just been stored. *)
LEMMA PooledRow ==
  ASSUME Layer, NEW state \in States, NEW f \in Seq(AnyToken), NEW p \in 0 .. Len(f) - 1,
         Pending(state, f, p), Emits(p)
  PROVE  PoolState(Store(state, f, p)) = RowOf(f, p \div ratio)
<1> DEFINE q == p \div ratio
           S == Store(state, f, p)
<1>1. p \in Nat /\ ratio \in Nat \ {0} /\ q \in Nat
  <2>1. p \in Nat /\ ratio \in Nat \ {0}
    BY Rationed
  <2> QED  BY <2>1, DivMod
<1>2. p % ratio = ratio - 1 /\ ratio * q = p - (ratio - 1)
  BY <1>1, NextInGroup DEF Emits
<1>3. q * ratio = p - (ratio - 1)
  BY <1>1, <1>2
<1>4. \A r \in 0 .. ratio - 1 : S[IF Grouped THEN 4 + r ELSE r] = At(f, q * ratio + r)
  <2>1. \A r \in 0 .. p % ratio : S[IF Grouped THEN 4 + r ELSE r] = At(f, p - (p % ratio) + r)
    BY StoredGroup
  <2> QED  BY <1>1, <1>2, <1>3, <2>1
<1> HIDE DEF S
<1>5. q * ratio \in Nat
  BY <1>1
<1>6. CASE ~Grouped
  <2> DEFINE to == ratio - 1
             base == q * ratio
             last == q * ratio + ratio - 1
  <2>1. /\ \A r \in 0 .. to : S[r] = At(f, base + (r - 0))
        /\ 0 \in Nat /\ to \in Nat /\ base \in Nat /\ last \in Nat /\ to - 0 = last - base
    <3>1. \A r \in 0 .. ratio - 1 : q * ratio + (r - 0) = q * ratio + r
      BY <1>1, <1>5
    <3> QED  BY <1>1, <1>4, <1>5, <1>6, <3>1
  <2> HIDE DEF to, base, last
  <2>2. StatePart(S, 0, to) = Span(f, base, last)
    <3>1. HoldsPart(S, 0, to, f, base, last)
      BY <2>1 DEF HoldsPart
    <3> QED  BY <3>1, PartIsSpan
  <2>3. PoolState(S) = Halves("cur", StatePart(S, 0, ratio - 1))
    BY <1>6 DEF PoolState
  <2>4. RowOf(f, q) = Halves("prev", {}) \cup Halves("cur", Span(f, q * ratio, q * ratio + ratio - 1))
    BY <1>6 DEF RowOf
  <2>5. Halves("prev", {}) = {}
    BY DEF Halves
  <2> QED  BY <2>2, <2>3, <2>4, <2>5 DEF S, to, base, last
<1>7. CASE Grouped
  <2>1. ratio = 4 /\ q * 4 = p - 3 /\ q * ratio = p - 3 /\ p - 3 \in Nat
    BY <1>1, <1>3, <1>7, Rationed
  <2>2. \A r \in 4 .. 7 : S[r] = At(f, (p - 3) + (r - 4))
    <3>1. SUFFICES ASSUME NEW r \in 4 .. 7 PROVE S[r] = At(f, (p - 3) + (r - 4))
      OBVIOUS
    <3>2. r - 4 \in 0 .. ratio - 1 /\ 4 + (r - 4) = r
      BY <2>1
    <3> QED  BY <1>4, <1>7, <2>1, <3>2
  <2>3. StatePart(S, 4, 7) = Span(f, q * ratio, q * ratio + ratio - 1)
    <3>1. p - (p - 3) = 7 - 4 /\ p \in Nat /\ 4 \in Nat /\ 7 \in Nat
      BY <1>1
    <3>2. StatePart(S, 4, 7) = Span(f, p - 3, p)
      <4>1. HoldsPart(S, 4, 7, f, p - 3, p)
        BY <2>1, <2>2, <3>1 DEF HoldsPart
      <4> QED  BY <4>1, PartIsSpan
    <3>3. q * ratio + ratio - 1 = p
      BY <1>1, <2>1
    <3> QED  BY <2>1, <3>2, <3>3
  <2>4. \A r \in 0 .. 3 : S[r] = IF p >= 4 THEN At(f, p - 3 - 4 + r) ELSE Empty
    <3>1. \A r \in 0 .. 3 : S[r] = state[r]
      BY <1>7, StoredGroup DEF S
    <3>2. \A r \in 0 .. 3 : state[r] = IF p >= 4 THEN At(f, p - (p % ratio) - 4 + r) ELSE Empty
      BY <1>7 DEF Pending
    <3>3. p % ratio = 3
      BY <1>2, <2>1
    <3> QED  BY <3>1, <3>2, <3>3
  <2>5. Halves("prev", StatePart(S, 0, 3))
          = Halves("prev", IF Grouped /\ q > 0 THEN Span(f, 4 * q - 4, 4 * q - 1) ELSE {})
    <3>1. CASE q > 0
      <4> DEFINE base == 4 * q - 4
                 last == 4 * q - 1
      <4>1. p >= 4 /\ base = p - 7 /\ base \in Nat /\ last \in Nat /\ 3 - 0 = last - base
        BY <1>1, <2>1, <3>1
      <4>2. \A r \in 0 .. 3 : S[r] = At(f, base + (r - 0))
        <5>1. SUFFICES ASSUME NEW r \in 0 .. 3 PROVE S[r] = At(f, base + (r - 0))
          OBVIOUS
        <5>2. p - 3 - 4 + r = base + (r - 0)
          BY <1>1, <4>1
        <5> QED  BY <2>4, <4>1, <5>2
      <4> HIDE DEF base, last
      <4>3. StatePart(S, 0, 3) = Span(f, base, last)
        <5>1. HoldsPart(S, 0, 3, f, base, last)
          BY <4>1, <4>2 DEF HoldsPart
        <5> QED  BY <5>1, PartIsSpan
      <4> QED  BY <1>7, <3>1, <4>3 DEF base, last
    <3>2. CASE ~(q > 0)
      <4>1. ~(p >= 4)
        BY <1>1, <2>1, <3>2
      <4>2. StatePart(S, 0, 3) \subseteq {Empty}
        BY <2>4, <4>1 DEF StatePart
      <4> QED  BY <3>2, <4>2, EmptyHalves
    <3> QED  BY <3>1, <3>2
  <2> QED  BY <1>7, <2>3, <2>5 DEF PoolState, RowOf, S
<1> QED  BY <1>6, <1>7

(* The row of a finished group is one of pooled tokens. *)
LEMMA RowPooled ==
  ASSUME Layer, NEW f \in Seq(AnyToken), NEW n \in 0 .. Len(f), NEW k \in Nat, k < n \div ratio
  PROVE  RowOf(f, k) \in Pooled
<1>1. n \in Nat /\ n <= Len(f) /\ ratio \in Nat \ {0}
  BY Rationed
<1>2. ratio * k \in Nat /\ ratio * k + ratio <= n /\ k * ratio = ratio * k
  BY <1>1, GroupEnds
<1>3. Span(f, k * ratio, k * ratio + ratio - 1) \subseteq Held
  BY <1>1, <1>2, SpanHeld
<1>4. Grouped /\ k > 0 => Span(f, 4 * k - 4, 4 * k - 1) \subseteq Held
  <2>1. SUFFICES ASSUME Grouped, k > 0 PROVE Span(f, 4 * k - 4, 4 * k - 1) \subseteq Held
    OBVIOUS
  <2>2. 4 * k - 4 \in Nat /\ 4 * k - 1 \in Int /\ 4 * k - 1 < Len(f)
    BY <1>1, <1>2, <2>1, Rationed
  <2> QED  BY <2>2, SpanHeld
<1>5. Halves("prev", IF Grouped /\ k > 0 THEN Span(f, 4 * k - 4, 4 * k - 1) ELSE {}) \in Pooled
  BY <1>4, HalvesPooled
<1>6. Halves("cur", Span(f, k * ratio, k * ratio + ratio - 1)) \in Pooled
  BY <1>3, HalvesPooled
<1> QED  BY <1>5, <1>6 DEF RowOf, Pooled

(* New rows behind those that count. *)
LEMMA RowsAre ==
  ASSUME NEW c \in Compressors, c.n <= Len(c.rows), NEW new \in Seq(Pooled)
  PROVE  /\ Rows(c, c.n, Len(new), new) \in Seq(Pooled)
         /\ Len(Rows(c, c.n, Len(new), new)) = c.n + Len(new)
         /\ \A k \in 1 .. c.n : Rows(c, c.n, Len(new), new)[k] = c.rows[k]
         /\ \A k \in 1 .. Len(new) : Rows(c, c.n, Len(new), new)[c.n + k] = new[k]
<1>1. c.n \in Nat /\ c.rows \in Seq(Pooled) /\ Len(new) \in Nat
  BY DEF Compressors
<1>2. \A k \in 1 .. c.n + Len(new) : (IF k <= c.n THEN c.rows[k] ELSE new[k - c.n]) \in Pooled
  BY <1>1
<1>3. Rows(c, c.n, Len(new), new) \in [1 .. c.n + Len(new) -> Pooled]
  BY <1>2 DEF Rows
<1>4. \A k \in 1 .. c.n : Rows(c, c.n, Len(new), new)[k] = c.rows[k]
  BY <1>1 DEF Rows
<1>5. \A k \in 1 .. Len(new) : Rows(c, c.n, Len(new), new)[c.n + k] = new[k]
  <2>1. SUFFICES ASSUME NEW k \in 1 .. Len(new)
                 PROVE  Rows(c, c.n, Len(new), new)[c.n + k] = new[k]
    OBVIOUS
  <2>2. c.n + k \in 1 .. c.n + Len(new) /\ ~(c.n + k <= c.n) /\ (c.n + k) - c.n = k
    BY <1>1
  <2> QED  BY <2>2 DEF Rows
<1>6. c.n + Len(new) \in Nat
  BY <1>1
<1>7. /\ Rows(c, c.n, Len(new), new) \in Seq(Pooled)
      /\ Len(Rows(c, c.n, Len(new), new)) = c.n + Len(new)
  BY <1>3, <1>6
<1> QED  BY <1>4, <1>5, <1>7

(* ds4_gpu_compressor_update_tensor keeps a compressor sound. *)
LEMMA UpdateSound ==
  ASSUME Layer, NEW c, NEW f \in Seq(AnyToken), NEW p \in 0 .. Len(f) - 1, Sound(c, f, p)
  PROVE  Sound(Update(c, f, p), f, p + 1)
<1> DEFINE S == Store(c.state, f, p)
           m == p % ratio
<1>1. /\ c \in Compressors /\ c.state \in States /\ c.rows \in Seq(Pooled) /\ c.n \in Nat
      /\ c.n = p \div ratio /\ Len(c.rows) >= c.n /\ Pending(c.state, f, p)
      /\ \A k \in 1 .. c.n : c.rows[k] = RowOf(f, k - 1)
  BY DEF Sound, Holds, Compressors
<1>2. p \in Nat /\ ratio \in Nat \ {0} /\ p + 1 \in 0 .. Len(f)
  BY Rationed
<1>3. S \in States /\ m \in 0 .. ratio - 1
  BY <1>1, <1>2, StoreIs, DivMod
<1>4. \A r \in 0 .. m : S[IF Grouped THEN 4 + r ELSE r] = At(f, p - m + r)
  BY <1>1, StoredGroup
<1>5. Grouped => \A r \in 0 .. 3 : S[r] = c.state[r]
  BY <1>1, StoredGroup
<1>6. Grouped => \A r \in 0 .. 3 : c.state[r] = IF p >= 4 THEN At(f, p - m - 4 + r) ELSE Empty
  BY <1>1 DEF Pending
<1> HIDE DEF S
<1>7. CASE ~Emits(p)
  <2>1. (p + 1) % ratio = m + 1 /\ (p + 1) \div ratio = p \div ratio
    BY <1>2, <1>7, NextInGroup DEF Emits
  <2>2. Update(c, f, p) = [c EXCEPT !.state = S]
    BY <1>7 DEF Update, S
  <2>3. Update(c, f, p) \in Compressors /\ Update(c, f, p).state = S
        /\ Update(c, f, p).rows = c.rows /\ Update(c, f, p).n = c.n
    BY <1>1, <1>3, <2>2 DEF Compressors
  <2>4. Pending(S, f, p + 1)
    <3>1. \A r \in 0 .. (m + 1) - 1 :
            S[IF Grouped THEN 4 + r ELSE r] = At(f, (p + 1) - (m + 1) + r)
      BY <1>2, <1>3, <1>4
    <3>2. Grouped => \A r \in 0 .. 3 :
            S[r] = IF p + 1 >= 4 THEN At(f, (p + 1) - (m + 1) - 4 + r) ELSE Empty
      <4>1. SUFFICES ASSUME Grouped, NEW r \in 0 .. 3
                     PROVE  S[r] = IF p + 1 >= 4 THEN At(f, (p + 1) - (m + 1) - 4 + r) ELSE Empty
        OBVIOUS
      <4>2. p + 1 >= 4 <=> p >= 4
        BY <1>2, <1>7, <4>1, Rationed DEF Emits
      <4>3. (p + 1) - (m + 1) - 4 + r = p - m - 4 + r
        BY <1>2, <1>3
      <4> QED  BY <1>5, <1>6, <4>1, <4>2, <4>3
    <3> QED  BY <2>1, <3>1, <3>2 DEF Pending
  <2> QED  BY <1>1, <2>1, <2>3, <2>4 DEF Sound, Holds
<1>8. CASE Emits(p)
  <2> DEFINE row == PoolState(S)
             after == IF Grouped THEN Shift(S) ELSE S
             rows == Rows(c, c.n, 1, <<row>>)
  <2>1. /\ (p + 1) % ratio = 0 /\ m = ratio - 1 /\ (p + 1) \div ratio = c.n + 1
        /\ ratio * (p \div ratio) = p - (ratio - 1)
    BY <1>1, <1>2, <1>8, NextInGroup DEF Emits
  <2>2. row = RowOf(f, c.n) /\ row \in Pooled
    <3>1. row = RowOf(f, c.n)
      BY <1>1, <1>8, PooledRow DEF S
    <3>2. c.n < (p + 1) \div ratio
      BY <1>1, <2>1
    <3> QED  BY <1>1, <1>2, <3>1, <3>2, RowPooled
  <2>3. Update(c, f, p) = [state |-> after, rows |-> rows, n |-> c.n + 1]
    BY <1>8 DEF Update, S
  <2>4. after \in States
    <3>1. Grouped => Shift(S) \in States
      BY <1>3 DEF Shift, States, StateRows
    <3> QED  BY <1>3, <3>1
  <2>5. /\ rows \in Seq(Pooled) /\ Len(rows) = c.n + 1
        /\ \A k \in 1 .. c.n : rows[k] = c.rows[k]
        /\ rows[c.n + 1] = row
    <3> HIDE DEF row
    <3> DEFINE new == <<row>>
    <3>1. new \in Seq(Pooled) /\ Len(new) = 1 /\ new[1] = row
      BY <2>2
    <3> HIDE DEF new
    <3>2. /\ Rows(c, c.n, Len(new), new) \in Seq(Pooled)
          /\ Len(Rows(c, c.n, Len(new), new)) = c.n + Len(new)
          /\ \A k \in 1 .. c.n : Rows(c, c.n, Len(new), new)[k] = c.rows[k]
          /\ \A k \in 1 .. Len(new) : Rows(c, c.n, Len(new), new)[c.n + k] = new[k]
      BY <1>1, <3>1, RowsAre
    <3>3. 1 \in 1 .. Len(new) /\ rows = Rows(c, c.n, Len(new), new)
      BY <3>1 DEF new
    <3> HIDE DEF rows
    <3> QED  BY <3>1, <3>2, <3>3
  <2>6. Pending(after, f, p + 1)
    <3>1. CASE Grouped
      <4>1. \A r \in 0 .. 3 : after[r] = S[r + 4]
        BY <3>1 DEF Shift, StateRows
      <4>2. \A r \in 0 .. 3 : S[r + 4] = At(f, p - m + r)
        BY <1>3, <1>4, <2>1, <3>1, Rationed
      <4>3. p + 1 >= 4 /\ \A r \in 0 .. 3 : (p + 1) - 0 - 4 + r = p - m + r
        BY <1>1, <1>2, <2>1, <3>1, Rationed
      <4> QED  BY <2>1, <3>1, <4>1, <4>2, <4>3 DEF Pending
    <3>2. CASE ~Grouped
      BY <2>1, <3>2 DEF Pending
    <3> QED  BY <3>1, <3>2
  <2> HIDE DEF row, after, rows
  <2>7. \A k \in 1 .. c.n + 1 : rows[k] = RowOf(f, k - 1)
    <3>1. SUFFICES ASSUME NEW k \in 1 .. c.n + 1 PROVE rows[k] = RowOf(f, k - 1)
      OBVIOUS
    <3>2. CASE k \in 1 .. c.n
      BY <1>1, <2>5, <3>2
    <3>3. CASE k = c.n + 1
      <4>1. k - 1 = c.n
        BY <1>1, <3>3
      <4> QED  BY <2>2, <2>5, <3>3, <4>1
    <3> QED  BY <1>1, <3>2, <3>3
  <2> QED  BY <1>1, <2>1, <2>3, <2>4, <2>5, <2>6, <2>7 DEF Sound, Holds, Compressors
<1> QED  BY <1>7, <1>8

-----------------------------------------------------------------------------
(* A chunk *)

(* A chunk that begins at a group's first token, behind tokens the state   *)
(* stands for.  It ends with a group or, in the layers without a group     *)
(* before, anywhere; or it is the first and short.                         *)
ChunkAt(state, f, pos, n) ==
  /\ state \in States /\ f \in Seq(AnyToken) /\ pos \in Nat /\ n \in Nat \ {0}
  /\ pos % ratio = 0 /\ pos + n <= Len(f)
  /\ Grouped => (n % 4 = 0 \/ (pos = 0 /\ n < 4))
  /\ Pending(state, f, pos)

(* Its rows, the group before the first taken from the state. *)
NewRow(state, f, pos, j) == PoolBatch(state, f, pos, j, TRUE)
NewRows(state, f, pos, n) == [k \in 1 .. n \div ratio |-> NewRow(state, f, pos, k - 1)]

LEMMA ReplayedRows ==
  ASSUME NEW state, NEW f, NEW pos, NEW n
  PROVE  ChunkRows(state, f, pos, n, Grouped) = NewRows(state, f, pos, n)
<1>1. \A j : PoolBatch(state, f, pos, j, Grouped) = NewRow(state, f, pos, j)
  BY DEF PoolBatch, NewRow
<1> QED  BY <1>1 DEF ChunkRows, NewRows

(* A cold chunk takes nothing from the state, which is as good as taking   *)
(* it from a cleared one.                                                  *)
LEMMA ColdRows ==
  ASSUME NEW f, NEW n
  PROVE  ChunkRows(EmptyState, f, 0, n, FALSE) = NewRows(EmptyState, f, 0, n)
<1>1. Grouped => StatePart(EmptyState, 0, 3) \subseteq {Empty}
  BY DEF StatePart, EmptyState, StateRows
<1>2. Grouped => Halves("prev", StatePart(EmptyState, 0, 3)) = Halves("prev", {})
  BY <1>1, EmptyHalves
<1>3. \A j : PoolBatch(EmptyState, f, 0, j, FALSE) = NewRow(EmptyState, f, 0, j)
  BY <1>2 DEF PoolBatch, NewRow
<1> QED  BY <1>3 DEF ChunkRows, NewRows

LEMMA ChunkRow ==
  ASSUME Layer, NEW state, NEW f, NEW pos, NEW n, ChunkAt(state, f, pos, n),
         NEW j \in Nat, j < n \div ratio
  PROVE  NewRow(state, f, pos, j) = RowOf(f, pos \div ratio + j)
<1> DEFINE q == pos \div ratio
           c == q + j
           first == pos + j * ratio
<1>1. /\ pos \in Nat /\ n \in Nat /\ ratio \in Nat \ {0} /\ q \in Nat /\ pos = ratio * q
  <2>1. pos \in Nat /\ n \in Nat /\ ratio \in Nat \ {0} /\ pos % ratio = 0
    BY Rationed DEF ChunkAt
  <2>2. pos \div ratio \in Nat /\ pos = ratio * (pos \div ratio) + (pos % ratio)
    BY <2>1, DivMod
  <2>3. ratio * (pos \div ratio) \in Nat
    BY <2>1, <2>2
  <2> QED  BY <2>1, <2>2, <2>3
<1>2. (q + j) * ratio = ratio * q + j * ratio /\ j * ratio \in Nat
  BY <1>1
<1> HIDE DEF q
<1>3. c * ratio = first /\ first \in Nat /\ c \in Nat
  BY <1>1, <1>2
<1>4. Halves("cur", Span(f, first, first + ratio - 1))
        = Halves("cur", Span(f, c * ratio, c * ratio + ratio - 1))
  BY <1>3
<1> DEFINE before == IF ~Grouped THEN {}
                     ELSE IF j > 0 THEN Span(f, first - 4, first - 1)
                     ELSE StatePart(state, 0, 3)
           wanted == IF Grouped /\ c > 0 THEN Span(f, 4 * c - 4, 4 * c - 1) ELSE {}
<1>5. Halves("prev", before) = Halves("prev", wanted)
  <2>1. CASE ~Grouped
    BY <2>1
  <2>2. CASE Grouped /\ j > 0
    <3>1. c > 0 /\ 4 * c - 4 = first - 4 /\ 4 * c - 1 = first - 1
      BY <1>1, <1>3, <2>2, Rationed
    <3> QED  BY <2>2, <3>1
  <2>3. CASE Grouped /\ j = 0
    <3>1. c = q /\ first = pos /\ pos = 4 * q
      BY <1>1, <1>2, <2>3, Rationed
    <3>2. CASE q > 0
      <4> DEFINE base == 4 * q - 4
                 last == 4 * q - 1
      <4>1. Pending(state, f, pos) /\ pos % ratio = 0
        BY DEF ChunkAt
      <4>2. pos >= 4 /\ base = pos - 4 /\ base \in Nat /\ last \in Nat /\ 3 - 0 = last - base
        BY <1>1, <3>1, <3>2
      <4>3. \A r \in 0 .. 3 : state[r] = At(f, pos - (pos % ratio) - 4 + r)
        BY <2>3, <4>1, <4>2 DEF Pending
      <4>4. \A r \in 0 .. 3 : pos - (pos % ratio) - 4 + r = base + (r - 0)
        BY <1>1, <4>1, <4>2
      <4>5. \A r \in 0 .. 3 : state[r] = At(f, base + (r - 0))
        BY <4>3, <4>4
      <4> HIDE DEF base, last
      <4>6. StatePart(state, 0, 3) = Span(f, base, last)
        <5>1. HoldsPart(state, 0, 3, f, base, last)
          BY <4>2, <4>5 DEF HoldsPart
        <5> QED  BY <5>1, PartIsSpan
      <4> QED  BY <2>3, <3>1, <3>2, <4>1, <4>6 DEF base, last
    <3>3. CASE ~(q > 0)
      <4>1. pos = 0 /\ wanted = {}
        BY <1>1, <3>1, <3>3
      <4>2. \A r \in 0 .. 3 : state[r] = Empty
        BY <2>3, <4>1 DEF ChunkAt, Pending
      <4>3. StatePart(state, 0, 3) \subseteq {Empty}
        BY <4>2 DEF StatePart
      <4>4. before = StatePart(state, 0, 3)
        BY <2>3
      <4> HIDE DEF before, wanted
      <4> QED  BY <4>1, <4>3, <4>4, EmptyHalves
    <3> QED  BY <3>2, <3>3
  <2> QED  BY <2>1, <2>2, <2>3
<1>6. NewRow(state, f, pos, j)
        = Halves("prev", before) \cup Halves("cur", Span(f, first, first + ratio - 1))
  BY DEF NewRow, PoolBatch
<1>7. RowOf(f, c) = Halves("prev", wanted) \cup Halves("cur", Span(f, c * ratio, c * ratio + ratio - 1))
  BY DEF RowOf
<1> HIDE DEF before, wanted, first, c
<1>8. NewRow(state, f, pos, j) = RowOf(f, c)
  BY <1>4, <1>5, <1>6, <1>7
<1> QED  BY <1>8 DEF c, q

(* The rows of a chunk. *)
LEMMA ChunkRowsAre ==
  ASSUME Layer, NEW state, NEW f, NEW pos, NEW n, ChunkAt(state, f, pos, n)
  PROVE  /\ NewRows(state, f, pos, n) \in Seq(Pooled)
         /\ Len(NewRows(state, f, pos, n)) = n \div ratio
         /\ \A k \in 1 .. n \div ratio :
              NewRows(state, f, pos, n)[k] = RowOf(f, pos \div ratio + (k - 1))
<1> DEFINE q == pos \div ratio
           g == n \div ratio
           new == NewRows(state, f, pos, n)
<1>1. pos \in Nat /\ n \in Nat /\ ratio \in Nat \ {0} /\ pos % ratio = 0 /\ pos + n \in 0 .. Len(f)
      /\ f \in Seq(AnyToken)
  BY Rationed DEF ChunkAt
<1>2. q \in Nat /\ g \in Nat /\ (pos + n) \div ratio = q + g
  BY <1>1, DivMod, WholeGroups
<1>3. \A k \in 1 .. g : NewRow(state, f, pos, k - 1) = RowOf(f, q + (k - 1))
  <2>1. SUFFICES ASSUME NEW k \in 1 .. g
                 PROVE  NewRow(state, f, pos, k - 1) = RowOf(f, q + (k - 1))
    OBVIOUS
  <2>2. k - 1 \in Nat /\ k - 1 < n \div ratio
    BY <1>2
  <2> QED  BY <2>2, ChunkRow
<1>4. \A k \in 1 .. g : RowOf(f, q + (k - 1)) \in Pooled
  <2>1. SUFFICES ASSUME NEW k \in 1 .. g PROVE RowOf(f, q + (k - 1)) \in Pooled
    OBVIOUS
  <2>2. q + (k - 1) \in Nat /\ q + (k - 1) < (pos + n) \div ratio
    BY <1>2
  <2> HIDE DEF q, g
  <2> QED  BY <1>1, <2>2, RowPooled
<1>5. new = [k \in 1 .. g |-> NewRow(state, f, pos, k - 1)]
  BY DEF NewRows
<1> HIDE DEF new, q, g
<1>6. new \in [1 .. g -> Pooled] /\ \A k \in 1 .. g : new[k] = RowOf(f, q + (k - 1))
  BY <1>3, <1>4, <1>5
<1>7. new \in Seq(Pooled) /\ Len(new) = g
  BY <1>2, <1>6
<1> QED  BY <1>6, <1>7 DEF new, q, g

(* The state behind a chunk. *)
LEMMA ChunkState ==
  ASSUME Layer, NEW state, NEW f, NEW pos, NEW n, ChunkAt(state, f, pos, n)
  PROVE  /\ Refreshed(PrefillState(f, pos, n), f, pos, n) \in States
         /\ Pending(Refreshed(PrefillState(f, pos, n), f, pos, n), f, pos + n)
<1> DEFINE m == n % ratio
           cut == n - m
           after == Refreshed(PrefillState(f, pos, n), f, pos, n)
<1>1. /\ pos \in Nat /\ n \in Nat \ {0} /\ ratio \in Nat \ {0} /\ pos % ratio = 0
      /\ pos + n <= Len(f) /\ f \in Seq(AnyToken)
  BY Rationed DEF ChunkAt
<1>2. m \in 0 .. ratio - 1 /\ cut \in Nat /\ (pos + n) % ratio = m
  <2>1. PICK k \in Nat : n = ratio * k + m
    BY <1>1, DivMod
  <2>2. m \in 0 .. ratio - 1
    BY <1>1, DivMod
  <2>3. ratio * k \in Nat /\ cut = ratio * k
    BY <1>1, <2>1, <2>2
  <2>4. (pos + n) % ratio = m
    BY <1>1, WholeGroups
  <2> QED  BY <2>2, <2>3, <2>4
<1>3. CASE ~Grouped
  <2>1. after = SetRows(EmptyState, f, pos + cut, 0, m)
    BY <1>3 DEF Refreshed, PrefillState
  <2>2. pos + cut \in Nat /\ 0 \in Nat /\ m \in Nat /\ (pos + cut) + m <= Len(f)
    BY <1>1, <1>2
  <2> HIDE DEF after, cut, m
  <2>3. after \in States
    BY <1>1, <2>1, <2>2, ClearedState, SetRowsState
  <2>4. ASSUME NEW r \in 0 .. m - 1
        PROVE  after[r] = At(f, (pos + n) - m + r)
    <3>1. r \in StateRows
      BY <1>1, <1>2, <1>3 DEF StateRows
    <3>2. r \in 0 .. 0 + m - 1 /\ (pos + cut) + r - 0 = (pos + n) - m + r
      BY <1>1, <2>2 DEF cut
    <3> QED  BY <2>1, <3>1, <3>2, SetRowsAre
  <2>5. Pending(after, f, pos + n)
    BY <1>2, <1>3, <2>4 DEF Pending
  <2> QED  BY <2>3, <2>5 DEF after
<1>4. CASE Grouped /\ n % 4 = 0
  <2>1. n >= 4 /\ m = 0 /\ ratio = 4
    BY <1>1, <1>4, Rationed
  <2> DEFINE src == pos + n - 4
             old == PrefillState(f, pos, n)
  <2>2. after = SetRows(EmptyState, f, src, 0, 4)
    BY <1>4, <2>1 DEF Refreshed
  <2>3. src \in Nat /\ 0 \in Nat /\ 4 \in Nat /\ src + 4 <= Len(f)
    BY <1>1, <2>1
  <2> HIDE DEF after, src
  <2>4. after \in States
    BY <1>1, <2>2, <2>3, ClearedState, SetRowsState
  <2>5. ASSUME NEW r \in 0 .. 3
        PROVE  after[r] = At(f, (pos + n) - 0 - 4 + r)
    <3>1. r \in StateRows
      BY <1>4 DEF StateRows
    <3>2. r \in 0 .. 0 + 4 - 1 /\ src + r - 0 = (pos + n) - 0 - 4 + r
      BY <1>1 DEF src
    <3> QED  BY <2>2, <3>1, <3>2, SetRowsAre
  <2>6. Pending(after, f, pos + n)
    BY <1>1, <1>2, <1>4, <2>1, <2>5 DEF Pending
  <2> QED  BY <2>4, <2>6 DEF after
<1>5. CASE Grouped /\ pos = 0 /\ n < 4
  <2>1. ratio = 4 /\ m = n /\ cut = 0 /\ pos + cut = 0 /\ ~(cut >= 4)
    BY <1>1, <1>5, Rationed
  <2>2. after = SetRows(EmptyState, f, 0, 4, n)
    <3>1. PrefillState(f, pos, n) = SetRows(EmptyState, f, pos + cut, 4, m)
      BY <1>5, <2>1 DEF PrefillState
    <3>2. after = PrefillState(f, pos, n)
      BY <1>1, <1>5 DEF Refreshed
    <3> QED  BY <2>1, <3>1, <3>2
  <2>3. 0 \in Nat /\ 4 \in Nat /\ n \in Nat /\ 0 + n <= Len(f)
    BY <1>1, <1>5
  <2> HIDE DEF after
  <2>4. after \in States
    BY <1>1, <2>2, <2>3, ClearedState, SetRowsState
  <2>5. ASSUME NEW r \in 0 .. n - 1
        PROVE  after[4 + r] = At(f, (pos + n) - n + r)
    <3>1. 4 + r \in StateRows
      BY <1>1, <1>5 DEF StateRows
    <3>2. 4 + r \in 4 .. 4 + n - 1 /\ 0 + (4 + r) - 4 = (pos + n) - n + r
      BY <1>1, <1>5
    <3> QED  BY <2>2, <3>1, <3>2, SetRowsAre
  <2>6. ASSUME NEW r \in 0 .. 3
        PROVE  after[r] = Empty
    <3>1. r \in StateRows /\ ~(r \in 4 .. 4 + n - 1)
      BY <1>1, <1>5 DEF StateRows
    <3> QED  BY <2>2, <3>1, SetRowsAre, ClearedState
  <2>7. Pending(after, f, pos + n)
    BY <1>1, <1>2, <1>5, <2>1, <2>5, <2>6 DEF Pending
  <2> QED  BY <2>4, <2>7 DEF after
<1> QED  BY <1>3, <1>4, <1>5 DEF ChunkAt

(* What a chunk leaves, from its rows and its state. *)
LEMMA ChunkLeaves ==
  ASSUME Layer, NEW state, NEW f, NEW pos, NEW n, ChunkAt(state, f, pos, n),
         NEW rows \in Seq(Pooled), Len(rows) = pos \div ratio + n \div ratio,
         \A k \in 1 .. pos \div ratio + n \div ratio : rows[k] = RowOf(f, k - 1)
  PROVE  Sound([state |-> Refreshed(PrefillState(f, pos, n), f, pos, n), rows |-> rows,
                n |-> pos \div ratio + n \div ratio], f, pos + n)
<1> DEFINE N == pos \div ratio + n \div ratio
           after == Refreshed(PrefillState(f, pos, n), f, pos, n)
<1>1. pos \in Nat /\ n \in Nat /\ ratio \in Nat \ {0} /\ pos % ratio = 0
  BY Rationed DEF ChunkAt
<1>2. N \in Nat /\ (pos + n) \div ratio = N
  <2>1. pos \div ratio \in Nat /\ n \div ratio \in Nat
    BY <1>1, DivMod
  <2>2. (pos + n) \div ratio = pos \div ratio + n \div ratio
    BY <1>1, WholeGroups
  <2> QED  BY <2>1, <2>2
<1>3. after \in States /\ Pending(after, f, pos + n)
  BY ChunkState
<1> HIDE DEF N, after
<1>4. Sound([state |-> after, rows |-> rows, n |-> N], f, pos + n)
  <2>1. Len(rows) = N /\ \A k \in 1 .. N : rows[k] = RowOf(f, k - 1)
    BY DEF N
  <2> QED  BY <1>2, <1>3, <2>1 DEF Sound, Holds, Compressors
<1> QED  BY <1>4 DEF N, after

(* A cold chunk, whatever the compressor held. *)
LEMMA ColdSound ==
  ASSUME Layer, NEW c, NEW f \in Seq(AnyToken), NEW n \in Nat \ {0}, n = Len(f),
         Grouped => n % 4 = 0 \/ n < 4
  PROVE  Sound(ColdPrefill(c, f, n), f, n)
<1> DEFINE new == NewRows(EmptyState, f, 0, n)
<1>1. ratio \in Nat \ {0} /\ 0 \in Nat /\ 0 % ratio = 0 /\ 0 \div ratio = 0
  <2>1. ratio \in Nat \ {0} /\ 0 \in Nat /\ 0 = ratio * 0
    BY Rationed
  <2> QED  BY <2>1, DivExact
<1>2. ChunkAt(EmptyState, f, 0, n)
  <2>1. Pending(EmptyState, f, 0)
    BY <1>1, ClearedState DEF Pending, StateRows
  <2>2. EmptyState \in States /\ 0 + n <= Len(f)
    BY ClearedState
  <2>3. Grouped => n % 4 = 0 \/ (0 = 0 /\ n < 4)
    OBVIOUS
  <2> QED  BY <1>1, <2>1, <2>2, <2>3 DEF ChunkAt
<1>3. /\ new \in Seq(Pooled) /\ Len(new) = n \div ratio
      /\ \A k \in 1 .. n \div ratio : new[k] = RowOf(f, 0 \div ratio + (k - 1))
  BY <1>2, ChunkRowsAre
<1> HIDE DEF new
<1>4. n \div ratio \in Nat
  BY <1>1, DivMod
<1>5. Len(new) = 0 \div ratio + n \div ratio
      /\ \A k \in 1 .. 0 \div ratio + n \div ratio : new[k] = RowOf(f, k - 1)
  BY <1>1, <1>3, <1>4
<1>6. Sound([state |-> Refreshed(PrefillState(f, 0, n), f, 0, n), rows |-> new,
             n |-> 0 \div ratio + n \div ratio], f, 0 + n)
  BY <1>2, <1>3, <1>5, ChunkLeaves
<1>7. 0 \div ratio + n \div ratio = n \div ratio /\ 0 + n = n
  BY <1>1, <1>4
<1> QED  BY <1>6, <1>7, ColdRows DEF ColdPrefill, new

(* A chunk of whole groups behind whole groups. *)
LEMMA AlignedSound ==
  ASSUME Layer, NEW c, NEW f \in Seq(AnyToken), NEW pos \in Nat, NEW n \in Nat \ {0},
         Sound(c, f, pos), pos + n <= Len(f), pos % ratio = 0, n % ratio = 0
  PROVE  Sound(AlignedPrefill(c, f, pos, n), f, pos + n)
<1> DEFINE new == NewRows(c.state, f, pos, n)
           N == n \div ratio
           rows == Rows(c, c.n, N, new)
<1>1. /\ c \in Compressors /\ c.state \in States /\ c.rows \in Seq(Pooled) /\ c.n \in Nat
      /\ c.n = pos \div ratio /\ c.n <= Len(c.rows) /\ Pending(c.state, f, pos)
      /\ \A k \in 1 .. c.n : c.rows[k] = RowOf(f, k - 1)
  BY DEF Sound, Holds, Compressors
<1>2. ratio \in Nat \ {0} /\ N \in Nat /\ (Grouped => n % 4 = 0)
  BY Rationed, DivMod
<1>3. ChunkAt(c.state, f, pos, n)
  BY <1>1, <1>2 DEF ChunkAt
<1>4. /\ new \in Seq(Pooled) /\ Len(new) = N
      /\ \A k \in 1 .. N : new[k] = RowOf(f, pos \div ratio + (k - 1))
  BY <1>3, ChunkRowsAre
<1> HIDE DEF new, N
<1>5. /\ rows \in Seq(Pooled) /\ Len(rows) = c.n + N
      /\ \A k \in 1 .. c.n : rows[k] = c.rows[k]
      /\ \A k \in 1 .. N : rows[c.n + k] = new[k]
  <2>1. /\ Rows(c, c.n, Len(new), new) \in Seq(Pooled)
        /\ Len(Rows(c, c.n, Len(new), new)) = c.n + Len(new)
        /\ \A k \in 1 .. c.n : Rows(c, c.n, Len(new), new)[k] = c.rows[k]
        /\ \A k \in 1 .. Len(new) : Rows(c, c.n, Len(new), new)[c.n + k] = new[k]
    BY <1>1, <1>4, RowsAre
  <2> QED  BY <1>4, <2>1
<1> HIDE DEF rows
<1>6. \A k \in 1 .. c.n + N : rows[k] = RowOf(f, k - 1)
  <2>1. SUFFICES ASSUME NEW k \in 1 .. c.n + N PROVE rows[k] = RowOf(f, k - 1)
    OBVIOUS
  <2>2. CASE k <= c.n
    <3>1. k \in 1 .. c.n
      BY <1>1, <2>2
    <3> QED  BY <1>1, <1>5, <3>1
  <2>3. CASE k > c.n
    <3> DEFINE j == k - c.n
    <3>1. j \in 1 .. N /\ k = c.n + j
      BY <1>1, <1>2, <2>3
    <3> HIDE DEF j
    <3>2. pos \div ratio + (j - 1) = k - 1
      BY <1>1, <3>1
    <3> QED  BY <1>4, <1>5, <3>1, <3>2
  <2> QED  BY <1>1, <1>2, <2>2, <2>3
<1>7. Sound([state |-> Refreshed(PrefillState(f, pos, n), f, pos, n), rows |-> rows,
             n |-> pos \div ratio + n \div ratio], f, pos + n)
  <2>1. Len(rows) = pos \div ratio + n \div ratio
        /\ \A k \in 1 .. pos \div ratio + n \div ratio : rows[k] = RowOf(f, k - 1)
    BY <1>1, <1>5, <1>6 DEF N
  <2> QED  BY <1>3, <1>5, <2>1, ChunkLeaves
<1> QED  BY <1>1, <1>7, ReplayedRows DEF AlignedPrefill, rows, new, N

-----------------------------------------------------------------------------
(* The inductive invariant *)

(* The tokens of the layer, those of the running chunk included, and how   *)
(* many of them each compressor has taken.                                 *)
All == IF Idle THEN fed ELSE fed \o batch
AttnTaken == Len(fed) + (IF pc = "attn" THEN t ELSE IF pc = "index" THEN Len(batch) ELSE 0)
IndexTaken == Len(fed) + (IF pc = "index" THEN t ELSE 0)

Shape ==
  /\ ratio \in Ratios
  /\ fed \in Seq(AnyToken) /\ batch \in Seq(AnyToken)
  /\ t \in Nat /\ counts \in Seq(Nat)
  /\ pc \in {"idle", "attn", "index"}
  /\ pc # "idle" => t < Len(batch)
  /\ pc = "index" => Grouped
  /\ pc = "attn" => Len(counts) = t

CompressorsSound ==
  /\ index \in Compressors
  /\ Sound(attn, All, AttnTaken)
  /\ Grouped => Sound(index, All, IndexTaken)

(* A snapshot, or a slot, of a compressor that had taken n tokens of f. *)
Slots == [state : States \cup {<<>>}, n : Nat]
Frontier(s, f, n) ==
  s.state \in States /\ s.n \in Nat /\ s.n = n \div ratio /\ Pending(s.state, f, n)

(* The prefixes of the draft that have been captured when that many of its *)
(* tokens are taken: the whole draft has no slot.                          *)
SlotsTaken(b, taken) == 1 .. IF taken < Len(b) - 1 THEN taken ELSE Len(b) - 1

Speculations ==
  [on : {TRUE}, base : Seq(AnyToken), saved : Compressors \X Compressors,
   attn : [1 .. PrefixSlots -> Slots], index : [1 .. PrefixSlots -> Slots]]

SpeculationSound ==
  /\ spec \in Speculations
  /\ All = spec.base \o batch /\ (~Idle => fed = spec.base)
  /\ Len(batch) > 0
  /\ Frontier(spec.saved[1], All, Len(spec.base))
  /\ Grouped => Frontier(spec.saved[2], All, Len(spec.base))
  /\ ShortDraft(batch) =>
       \A k \in SlotsTaken(batch, AttnTaken - Len(spec.base)) :
         Frontier(spec.attn[k], All, Len(spec.base) + k)
  /\ ShortDraft(batch) /\ Grouped =>
       \A k \in SlotsTaken(batch, IndexTaken - Len(spec.base)) :
         Frontier(spec.index[k], All, Len(spec.base) + k)

LInv ==
  /\ Shape /\ CompressorsSound /\ VisibleRows
  /\ spec = NoSpec \/ SpeculationSound

LEMMA Speculating ==
  ASSUME LInv
  PROVE  (spec.on <=> spec # NoSpec) /\ (spec.on => SpeculationSound)
<1>1. NoSpec.on = FALSE
  BY DEF NoSpec
<1>2. SpeculationSound => spec.on = TRUE
  BY DEF SpeculationSound, Speculations
<1> QED  BY <1>1, <1>2 DEF LInv

LEMMA LayerHolds ==
  ASSUME CacheAssumption, LInv
  PROVE  Layer
BY DEF Layer, LInv, Shape

LEMMA AlikeConcat ==
  ASSUME NEW f \in Seq(AnyToken), NEW b \in Seq(AnyToken)
  PROVE  Alike(f, f \o b, Len(f)) /\ f \o b \in Seq(AnyToken) /\ Len(f \o b) = Len(f) + Len(b)
BY DEF Alike

LEMMA ChunkTokens ==
  ASSUME NEW n \in Nat, NEW b, b \in Chunks(n) \/ b \in Drafts(n)
  PROVE  b \in Seq(AnyToken) /\ Len(b) = n
<1>1. b \in [1 .. n -> AnyToken]
  BY DEF Chunks, Drafts, AnyToken
<1> QED  BY <1>1

(* Between chunks only the tokens and the compressors matter. *)
LEMMA RestParts ==
  ASSUME Layer, ratio' = ratio, pc' = "idle",
         fed' \in Seq(AnyToken), batch' \in Seq(AnyToken), t' \in Nat, counts' \in Seq(Nat),
         index' \in Compressors, Sound(attn', fed', Len(fed')),
         Grouped => Sound(index', fed', Len(fed'))
  PROVE  Shape' /\ CompressorsSound' /\ VisibleRows'
<1>1. Shape'
  BY DEF Layer, Shape
<1>2. All' = fed' /\ AttnTaken' = Len(fed') /\ IndexTaken' = Len(fed')
  BY DEF All, AttnTaken, IndexTaken, Idle
<1>3. (index \in Compressors)'
  BY DEF Compressors, States, StateRows, Grouped
<1>4. Sound(attn, All, AttnTaken)'
  BY <1>2 DEF Sound, Compressors, States, StateRows, Grouped, Holds, Pending, RowOf
<1>5. (Grouped => Sound(index, All, IndexTaken))'
  BY <1>2 DEF Sound, Compressors, States, StateRows, Grouped, Holds, Pending, RowOf
<1>6. VisibleRows'
  BY DEF VisibleRows
<1> QED  BY <1>1, <1>3, <1>4, <1>5, <1>6 DEF CompressorsSound

LEMMA AtRest ==
  ASSUME Layer, ratio' = ratio, pc' = "idle", spec' = NoSpec,
         fed' \in Seq(AnyToken), batch' \in Seq(AnyToken), t' \in Nat, counts' \in Seq(Nat),
         index' \in Compressors, Sound(attn', fed', Len(fed')),
         Grouped => Sound(index', fed', Len(fed'))
  PROVE  LInv'
BY RestParts DEF LInv, NoSpec

-----------------------------------------------------------------------------
(* Each step keeps it *)

LEMMA InitLInv ==
  ASSUME CacheAssumption, CacheInit
  PROVE  LInv
<1>1. Layer
  BY DEF Layer, CacheInit
<1>2. ratio \in Nat \ {0} /\ fed = <<>> /\ attn = Fresh /\ index = Fresh /\ Idle /\ spec = NoSpec
  BY <1>1, Rationed DEF CacheInit, Idle
<1>3. 0 = ratio * 0 /\ Len(<<>>) = 0
  BY <1>2
<1>4. 0 \div ratio = 0 /\ 0 % ratio = 0
  BY <1>2, <1>3, DivExact
<1>5. Fresh \in Compressors
  BY ClearedState DEF Fresh, Compressors
<1>6. Pending(EmptyState, <<>>, 0)
  BY <1>4, ClearedState DEF Pending, StateRows
<1>7. Sound(Fresh, <<>>, 0)
  BY <1>4, <1>5, <1>6 DEF Sound, Holds, Fresh
<1>8. All = <<>> /\ AttnTaken = 0 /\ IndexTaken = 0
  BY <1>2, <1>3 DEF All, AttnTaken, IndexTaken, Idle
<1>9. CompressorsSound
  BY <1>2, <1>5, <1>7, <1>8 DEF CompressorsSound
<1>10. Shape /\ VisibleRows
  BY DEF CacheInit, Shape, VisibleRows
<1> QED  BY <1>2, <1>9, <1>10 DEF LInv

LEMMA ColdChunkLInv ==
  ASSUME CacheAssumption, ~RaggedCold, LInv, NEW n \in 1 .. PrefillCap, ColdChunk(n)
  PROVE  LInv'
<1>1. Layer
  BY LayerHolds
<1>2. n \in Nat \ {0} /\ ratio \in Nat \ {0} /\ PrefillCap \in Nat
  BY <1>1, Rationed DEF CacheAssumption
<1>3. PICK p \in Chunks(n) :
        /\ fed' = p
        /\ attn' = ColdPrefill(attn, p, n)
        /\ index' = OfIndex(ColdPrefill(index, p, n))
  BY DEF ColdChunk
<1>4. /\ counts' = CountsOf(0, n) /\ pc' = "idle" /\ ~spec.on
      /\ UNCHANGED <<ratio, pc, batch, t, spec>>
      /\ Grouped => n % 4 = 0 \/ n < 4
  BY DEF ColdChunk, Idle
<1>5. p \in Seq(AnyToken) /\ Len(p) = n
  BY <1>2, ChunkTokens
<1>6. \A c : Sound(ColdPrefill(c, p, n), p, n)
  BY <1>1, <1>2, <1>4, <1>5, ColdSound
<1>7. index' \in Compressors /\ (Grouped => Sound(index', p, n))
  BY <1>3, <1>6 DEF OfIndex, Sound, LInv, CompressorsSound
<1>8. counts' \in Seq(Nat)
  <2>1. \A k \in 1 .. n : (0 + k) \div ratio \in Nat
    BY <1>2, DivMod
  <2> QED  BY <1>2, <1>4, <2>1 DEF CountsOf
<1>9. batch' \in Seq(AnyToken) /\ t' \in Nat /\ spec' = NoSpec
  BY <1>4, Speculating DEF LInv, Shape
<1> QED  BY <1>1, <1>3, <1>4, <1>5, <1>6, <1>7, <1>8, <1>9, AtRest

LEMMA DecodeLInv ==
  ASSUME CacheAssumption, LInv, Decode
  PROVE  LInv'
<1>1. Layer
  BY LayerHolds
<1>2. PICK tok \in Token :
        /\ fed' = Append(fed, tok)
        /\ attn' = Update(attn, Append(fed, tok), Len(fed))
        /\ index' = OfIndex(Update(index, Append(fed, tok), Len(fed)))
  BY DEF Decode
<1>3. /\ Idle /\ pc' = "idle" /\ ~spec.on
      /\ UNCHANGED <<ratio, pc, batch, t, counts, spec>>
  BY DEF Decode, Idle
<1>4. /\ fed \in Seq(AnyToken) /\ Append(fed, tok) \in Seq(AnyToken)
      /\ Len(Append(fed, tok)) = Len(fed) + 1 /\ Len(fed) \in 0 .. Len(Append(fed, tok)) - 1
  BY DEF LInv, Shape, AnyToken
<1>5. Alike(fed, Append(fed, tok), Len(fed))
  BY <1>4 DEF Alike
<1>6. Sound(attn, fed, Len(fed)) /\ index \in Compressors /\ (Grouped => Sound(index, fed, Len(fed)))
  BY <1>3, <1>4 DEF LInv, CompressorsSound, All, AttnTaken, IndexTaken, Idle
<1>7. \A c : Sound(c, fed, Len(fed))
               => Sound(Update(c, Append(fed, tok), Len(fed)), Append(fed, tok), Len(fed) + 1)
  BY <1>1, <1>4, <1>5, AlikeSound, UpdateSound
<1>8. Sound(attn', fed', Len(fed'))
  BY <1>2, <1>4, <1>6, <1>7
<1>9. index' \in Compressors /\ (Grouped => Sound(index', fed', Len(fed')))
  BY <1>2, <1>4, <1>6, <1>7 DEF OfIndex, Sound
<1>10. batch' \in Seq(AnyToken) /\ t' \in Nat /\ spec' = NoSpec /\ counts' \in Seq(Nat)
  BY <1>3, Speculating DEF LInv, Shape
<1> QED  BY <1>1, <1>2, <1>3, <1>4, <1>8, <1>9, <1>10, AtRest

(* A chunk in one launch behind what is there. *)
LEMMA AtOnceSound ==
  ASSUME CacheAssumption, LInv, Idle, NEW b \in Seq(AnyToken), Len(b) > 0, ChunkAtOnce(b), ratio' = ratio
  PROVE  /\ fed' = fed \o b /\ pc' = "idle" /\ t' = t /\ counts' \in Seq(Nat)
         /\ Sound(attn', fed', Len(fed')) /\ index' \in Compressors
         /\ Grouped => Sound(index', fed', Len(fed'))
<1> DEFINE pos == Len(fed)
           n == Len(b)
           f == fed \o b
<1>1. Layer
  BY LayerHolds
<1>2. /\ pos % ratio = 0 /\ n % ratio = 0
      /\ fed' = f /\ attn' = AlignedPrefill(attn, f, pos, n)
      /\ index' = OfIndex(AlignedPrefill(index, f, pos, n))
      /\ counts' = CountsOf(pos, n) /\ pc' = "idle" /\ t' = t
  BY DEF ChunkAtOnce, Aligned, Idle
<1>3. fed \in Seq(AnyToken) /\ pos \in Nat /\ n \in Nat \ {0} /\ ratio \in Nat \ {0}
  BY <1>1, Rationed DEF LInv, Shape
<1>4. f \in Seq(AnyToken) /\ Len(f) = pos + n /\ Alike(fed, f, pos)
  BY <1>3, AlikeConcat
<1>5. Sound(attn, fed, pos) /\ index \in Compressors /\ (Grouped => Sound(index, fed, pos))
  BY <1>3 DEF LInv, CompressorsSound, All, AttnTaken, IndexTaken, Idle
<1>6. counts' \in Seq(Nat)
  <2>1. ASSUME NEW k \in 1 .. n PROVE (pos + k) \div ratio \in Nat
    <3>1. pos + k \in Nat
      BY <1>3
    <3> QED  BY <1>3, <3>1, DivMod
  <2> HIDE DEF pos, n
  <2> QED  BY <1>2, <1>3, <2>1 DEF CountsOf
<1> HIDE DEF pos, n, f
<1>7. \A c : Sound(c, fed, pos) => Sound(AlignedPrefill(c, f, pos, n), f, pos + n)
  BY <1>1, <1>2, <1>3, <1>4, AlikeSound, AlignedSound
<1>8. Sound(attn', f, pos + n) /\ index' \in Compressors /\ (Grouped => Sound(index', f, pos + n))
  BY <1>2, <1>5, <1>7 DEF OfIndex, Sound
<1>9. fed' = f /\ Len(fed') = pos + n
  BY <1>2, <1>4
<1> QED  BY <1>2, <1>6, <1>8, <1>9 DEF f

(* A chunk whose tokens are about to be taken one by one. *)
ByToken(b) ==
  /\ Idle /\ b \in Seq(AnyToken) /\ Len(b) > 0 /\ ratio' = ratio
  /\ pc' = "attn" /\ t' = 0 /\ counts' = <<>> /\ batch' = b
  /\ fed' = fed /\ attn' = attn /\ index' = index

LEMMA ByTokenSound ==
  ASSUME Layer, LInv, NEW b, ByToken(b)
  PROVE  Shape' /\ CompressorsSound' /\ VisibleRows'
<1>1. Shape'
  BY DEF ByToken, Shape, LInv
<1>2. /\ fed \in Seq(AnyToken) /\ Sound(attn, fed, Len(fed)) /\ index \in Compressors
      /\ Grouped => Sound(index, fed, Len(fed))
  BY DEF LInv, Shape, CompressorsSound, All, AttnTaken, IndexTaken, Idle, ByToken
<1>3. Alike(fed, fed \o b, Len(fed))
  BY <1>2, AlikeConcat DEF ByToken
<1>4. Sound(attn, fed \o b, Len(fed)) /\ (Grouped => Sound(index, fed \o b, Len(fed)))
  BY <1>2, <1>3, AlikeSound
<1>5. All' = fed \o b /\ AttnTaken' = Len(fed) /\ IndexTaken' = Len(fed)
  BY <1>2 DEF ByToken, All, AttnTaken, IndexTaken, Idle
<1>6. attn' = attn /\ index' = index /\ ratio' = ratio
  BY DEF ByToken
<1>7. (index \in Compressors)'
  BY <1>2, <1>6 DEF Compressors, States, StateRows, Grouped
<1>8. Sound(attn, All, AttnTaken)'
  BY <1>4, <1>5, <1>6 DEF Sound, Compressors, States, StateRows, Grouped, Holds, Pending, RowOf
<1>9. (Grouped => Sound(index, All, IndexTaken))'
  BY <1>4, <1>5, <1>6 DEF Sound, Compressors, States, StateRows, Grouped, Holds, Pending, RowOf
<1>10. VisibleRows'
  BY DEF VisibleRows, ByToken
<1> QED  BY <1>1, <1>7, <1>8, <1>9, <1>10 DEF CompressorsSound

LEMMA ChunkLInv ==
  ASSUME CacheAssumption, LInv, NEW n \in 1 .. PrefillCap, Chunk(n)
  PROVE  LInv'
<1>1. Layer /\ n \in Nat \ {0}
  BY LayerHolds DEF CacheAssumption
<1>2. /\ Idle /\ ~spec.on /\ Len(fed) > 0 /\ UNCHANGED <<ratio, spec>>
  BY DEF Chunk
<1>3. PICK b \in Chunks(n) :
        batch' = b /\ IF Aligned(n) THEN ChunkAtOnce(b) ELSE ChunkByToken(b)
  BY DEF Chunk
<1>4. b \in Seq(AnyToken) /\ Len(b) = n /\ Len(b) > 0
  BY <1>1, <1>3, ChunkTokens
<1>5. fed \in Seq(AnyToken) /\ t \in Nat /\ spec' = NoSpec
  BY <1>2, Speculating DEF LInv, Shape
<1>6. CASE Aligned(n)
  <2>1. /\ fed' = fed \o b /\ pc' = "idle" /\ t' = t /\ counts' \in Seq(Nat)
        /\ Sound(attn', fed', Len(fed')) /\ index' \in Compressors
        /\ Grouped => Sound(index', fed', Len(fed'))
    BY <1>2, <1>3, <1>4, <1>6, AtOnceSound
  <2>2. fed' \in Seq(AnyToken)
    BY <1>4, <1>5, <2>1, AlikeConcat
  <2> QED  BY <1>1, <1>2, <1>3, <1>4, <1>5, <2>1, <2>2, AtRest
<1>7. CASE ~Aligned(n)
  <2>1. /\ pc' = "attn" /\ t' = 0 /\ counts' = <<>> /\ batch' = b
        /\ fed' = fed /\ attn' = attn /\ index' = index
    BY <1>3, <1>7 DEF ChunkByToken
  <2>2. ByToken(b)
    BY <1>2, <1>4, <2>1 DEF ByToken
  <2> QED  BY <1>1, <1>5, <2>2, ByTokenSound DEF LInv
<1> QED  BY <1>6, <1>7

LEMMA SoundFrontier ==
  ASSUME NEW c, NEW f, NEW n, Sound(c, f, n)
  PROVE  Frontier(c, f, n) /\ c \in Compressors
BY DEF Sound, Frontier, Holds, Compressors

(* What holds of a running speculation, in the state after a step. *)
LEMMA SpeculationAfter ==
  ASSUME ratio' = ratio, spec' \in Speculations, All' = spec'.base \o batch',
         pc' # "idle" => fed' = spec'.base, Len(batch') > 0,
         Frontier(spec'.saved[1], All', Len(spec'.base)),
         Grouped => Frontier(spec'.saved[2], All', Len(spec'.base)),
         ShortDraft(batch') =>
           \A k \in SlotsTaken(batch', AttnTaken' - Len(spec'.base)) :
             Frontier(spec'.attn[k], All', Len(spec'.base) + k),
         ShortDraft(batch') /\ Grouped =>
           \A k \in SlotsTaken(batch', IndexTaken' - Len(spec'.base)) :
             Frontier(spec'.index[k], All', Len(spec'.base) + k)
  PROVE  SpeculationSound'
<1>1. (spec \in Speculations)'
  BY DEF Speculations, Compressors, Slots, States, StateRows, Grouped
<1>2. Frontier(spec.saved[1], All, Len(spec.base))'
  BY DEF Frontier, States, StateRows, Grouped, Pending
<1>3. (Grouped => Frontier(spec.saved[2], All, Len(spec.base)))'
  BY DEF Frontier, States, StateRows, Grouped, Pending
<1>4. (ShortDraft(batch) =>
         \A k \in SlotsTaken(batch, AttnTaken - Len(spec.base)) :
           Frontier(spec.attn[k], All, Len(spec.base) + k))'
  BY DEF Frontier, States, StateRows, Grouped, Pending, ShortDraft, SlotsTaken
<1>5. (ShortDraft(batch) /\ Grouped =>
         \A k \in SlotsTaken(batch, IndexTaken - Len(spec.base)) :
           Frontier(spec.index[k], All, Len(spec.base) + k))'
  BY DEF Frontier, States, StateRows, Grouped, Pending, ShortDraft, SlotsTaken
<1> QED  BY <1>1, <1>2, <1>3, <1>4, <1>5 DEF SpeculationSound, Idle

LEMMA VerifyLInv ==
  ASSUME CacheAssumption, LInv, NEW n \in 1 .. MaxDraft, Verify(n)
  PROVE  LInv'
<1>1. Layer /\ n \in Nat \ {0} /\ PrefixSlots \in Nat
  BY LayerHolds DEF CacheAssumption
<1>2. Idle /\ Len(fed) > 0 /\ ratio' = ratio
  BY DEF Verify
<1>3. PICK b \in Drafts(n) :
        batch' = b /\ IF Aligned(n) /\ ~ShortDraft(b) THEN ChunkAtOnce(b) ELSE ChunkByToken(b)
  BY DEF Verify
<1>4. b \in Seq(AnyToken) /\ Len(b) = n /\ Len(b) > 0
  BY <1>1, <1>3, ChunkTokens
<1>5. /\ fed \in Seq(AnyToken) /\ t \in Nat /\ Len(fed) \in Nat
      /\ Sound(attn, fed, Len(fed)) /\ index \in Compressors
      /\ Grouped => Sound(index, fed, Len(fed))
  BY <1>2 DEF LInv, Shape, CompressorsSound, All, AttnTaken, IndexTaken, Idle
<1>6. /\ Alike(fed, fed \o b, Len(fed)) /\ fed \o b \in Seq(AnyToken)
      /\ Len(fed \o b) = Len(fed) + Len(b)
  BY <1>4, <1>5, AlikeConcat
<1>7. /\ Frontier(attn, fed \o b, Len(fed)) /\ attn \in Compressors
      /\ Grouped => Frontier(index, fed \o b, Len(fed))
  BY <1>1, <1>5, <1>6, AlikeSound, SoundFrontier
<1>8. spec' = [on |-> TRUE, base |-> fed, saved |-> <<attn, index>>,
               attn |-> [k \in 1 .. PrefixSlots |-> NoSlot],
               index |-> [k \in 1 .. PrefixSlots |-> NoSlot]]
  BY DEF Verify
<1>9. /\ spec' \in Speculations /\ spec'.base = fed
      /\ spec'.saved[1] = attn /\ spec'.saved[2] = index
  <2>1. NoSlot \in Slots
    BY DEF NoSlot, Slots
  <2>2. [k \in 1 .. PrefixSlots |-> NoSlot] \in [1 .. PrefixSlots -> Slots]
    BY <2>1
  <2>3. <<attn, index>> \in Compressors \X Compressors
    BY <1>5, <1>7
  <2>4. spec' \in Speculations
    BY <1>5, <1>8, <2>2, <2>3 DEF Speculations
  <2> QED  BY <1>8, <2>4
<1>10. CASE Aligned(n) /\ ~ShortDraft(b)
  <2>1. /\ fed' = fed \o b /\ pc' = "idle" /\ t' = t /\ counts' \in Seq(Nat)
        /\ Sound(attn', fed', Len(fed')) /\ index' \in Compressors
        /\ Grouped => Sound(index', fed', Len(fed'))
    BY <1>2, <1>3, <1>4, <1>10, AtOnceSound
  <2>2. Shape' /\ CompressorsSound' /\ VisibleRows'
    BY <1>1, <1>2, <1>3, <1>4, <1>5, <1>6, <2>1, RestParts
  <2>3. All' = fed \o b
    BY <2>1 DEF All, Idle
  <2>4. SpeculationSound'
    BY <1>2, <1>3, <1>4, <1>7, <1>9, <1>10, <2>1, <2>3, SpeculationAfter
  <2> QED  BY <2>2, <2>4 DEF LInv
<1>11. CASE ~(Aligned(n) /\ ~ShortDraft(b))
  <2>1. /\ pc' = "attn" /\ t' = 0 /\ counts' = <<>> /\ batch' = b
        /\ fed' = fed /\ attn' = attn /\ index' = index
    BY <1>3, <1>11 DEF ChunkByToken
  <2>2. ByToken(b)
    BY <1>2, <1>4, <2>1 DEF ByToken
  <2>3. Shape' /\ CompressorsSound' /\ VisibleRows'
    BY <1>1, <2>2, ByTokenSound
  <2>4. All' = fed \o b
    BY <2>1 DEF All, Idle
  <2>5. AttnTaken' - Len(spec'.base) = 0 /\ IndexTaken' - Len(spec'.base) = 0
    BY <1>5, <1>9, <2>1 DEF AttnTaken, IndexTaken
  <2>6. SlotsTaken(b, 0) = {}
    BY <1>4 DEF SlotsTaken
  <2>7. SpeculationSound'
    BY <1>2, <1>3, <1>4, <1>7, <1>9, <2>1, <2>4, <2>5, <2>6, SpeculationAfter
  <2> QED  BY <2>3, <2>7 DEF LInv
<1> QED  BY <1>10, <1>11

(* Capturing the state behind token t. *)
LEMMA CapturesSound ==
  ASSUME Layer, LInv, NEW slots \in [1 .. PrefixSlots -> Slots], NEW c, NEW f, NEW m \in Nat,
         Sound(c, f, m + t + 1), t < Len(batch), spec.on
  PROVE  /\ Captures(slots, c) \in [1 .. PrefixSlots -> Slots]
         /\ ShortDraft(batch) /\ (\A k \in SlotsTaken(batch, t) : Frontier(slots[k], f, m + k))
              => \A k \in SlotsTaken(batch, t + 1) : Frontier(Captures(slots, c)[k], f, m + k)
<1> DEFINE slot == [state |-> c.state, n |-> c.n]
<1>1. t \in Nat /\ batch \in Seq(AnyToken) /\ Len(batch) \in Nat /\ PrefixSlots \in Nat
  BY DEF LInv, Shape, Layer, CacheAssumption
<1>2. slot \in Slots /\ Frontier(slot, f, m + (t + 1))
  <2>1. c \in Compressors /\ Frontier(c, f, m + t + 1) /\ m + t + 1 = m + (t + 1)
    BY <1>1, SoundFrontier
  <2>2. slot.state = c.state /\ slot.n = c.n
    OBVIOUS
  <2> HIDE DEF slot
  <2>3. Frontier(slot, f, m + (t + 1))
    BY <2>1, <2>2 DEF Frontier
  <2> QED  BY <2>1, <2>3 DEF slot, Slots, Compressors
<1> HIDE DEF slot
<1>3. Captures(slots, c) = IF ShortDraft(batch) /\ t + 1 < Len(batch) /\ t < PrefixSlots
                           THEN [slots EXCEPT ![t + 1] = slot] ELSE slots
  BY DEF Captures, slot
<1>4. Captures(slots, c) \in [1 .. PrefixSlots -> Slots]
  BY <1>2, <1>3
<1>5. ASSUME ShortDraft(batch), \A k \in SlotsTaken(batch, t) : Frontier(slots[k], f, m + k),
             NEW k \in SlotsTaken(batch, t + 1)
      PROVE  Frontier(Captures(slots, c)[k], f, m + k)
  <2>1. k \in 1 .. PrefixSlots /\ k \in Nat /\ k <= t + 1 /\ k < Len(batch)
    BY <1>1, <1>5 DEF SlotsTaken, ShortDraft
  <2>2. CASE k = t + 1
    <3>1. t + 1 < Len(batch) /\ t < PrefixSlots
      BY <1>1, <2>1, <2>2
    <3>2. Captures(slots, c)[k] = slot
      BY <1>3, <1>5, <2>1, <2>2, <3>1
    <3> QED  BY <1>2, <2>2, <3>2
  <2>3. CASE k # t + 1
    <3>1. Captures(slots, c)[k] = slots[k]
      BY <1>3, <2>1, <2>3
    <3>2. k \in SlotsTaken(batch, t)
      BY <1>1, <2>1, <2>3 DEF SlotsTaken
    <3> QED  BY <1>5, <3>1, <3>2
  <2> QED  BY <2>2, <2>3
<1> QED  BY <1>4, <1>5

(* One token of a chunk: the compressor that takes it. *)
LEMMA TakesToken ==
  ASSUME Layer, LInv, ~Idle, NEW c, Sound(c, All, Len(fed) + t)
  PROVE  /\ Sound(Update(c, fed \o batch, Len(fed) + t), fed \o batch, Len(fed) + t + 1)
         /\ All = fed \o batch /\ fed \o batch \in Seq(AnyToken)
         /\ Len(fed \o batch) = Len(fed) + Len(batch)
<1>1. /\ fed \in Seq(AnyToken) /\ batch \in Seq(AnyToken) /\ t \in Nat /\ t < Len(batch)
      /\ Len(fed) \in Nat /\ Len(batch) \in Nat
  BY DEF LInv, Shape, Idle
<1>2. All = fed \o batch /\ fed \o batch \in Seq(AnyToken) /\ Len(fed \o batch) = Len(fed) + Len(batch)
  BY <1>1, AlikeConcat DEF All
<1> DEFINE f == fed \o batch
           p == Len(fed) + t
<1>3. p \in 0 .. Len(f) - 1
  BY <1>1, <1>2
<1>4. Sound(c, f, p) /\ f \in Seq(AnyToken)
  BY <1>2
<1> HIDE DEF f, p
<1>5. Sound(Update(c, f, p), f, p + 1)
  BY <1>3, <1>4, UpdateSound
<1> QED  BY <1>2, <1>5 DEF f, p

LEMMA CompressorsAfter ==
  ASSUME ratio' = ratio, index' \in Compressors, Sound(attn', All', AttnTaken'),
         Grouped => Sound(index', All', IndexTaken')
  PROVE  CompressorsSound'
<1>1. (index \in Compressors)'
  BY DEF Compressors, States, StateRows, Grouped
<1>2. Sound(attn, All, AttnTaken)'
  BY DEF Sound, Compressors, States, StateRows, Grouped, Holds, Pending, RowOf
<1>3. (Grouped => Sound(index, All, IndexTaken))'
  BY DEF Sound, Compressors, States, StateRows, Grouped, Holds, Pending, RowOf
<1> QED  BY <1>1, <1>2, <1>3 DEF CompressorsSound

LEMMA TokenAttnLInv ==
  ASSUME CacheAssumption, LInv, TokenAttn
  PROVE  LInv'
<1> DEFINE f == fed \o batch
           p == Len(fed) + t
<1>1. Layer
  BY LayerHolds
<1>2. /\ pc = "attn" /\ ~Idle /\ attn' = Update(attn, f, p) /\ counts' = Append(counts, attn'.n)
      /\ spec' = (IF spec.on THEN [spec EXCEPT !.attn = Captures(spec.attn, attn')] ELSE spec)
      /\ UNCHANGED <<ratio, index, batch>>
  BY DEF TokenAttn, Idle
<1>3. /\ fed \in Seq(AnyToken) /\ batch \in Seq(AnyToken) /\ t \in Nat /\ t < Len(batch)
      /\ counts \in Seq(Nat) /\ Len(counts) = t /\ Len(fed) \in Nat /\ Len(batch) \in Nat
      /\ ratio \in Ratios
  BY <1>2 DEF LInv, Shape
<1>4. AttnTaken = p /\ IndexTaken = Len(fed)
  BY <1>2, <1>3 DEF AttnTaken, IndexTaken
<1>5. /\ Sound(attn', f, p + 1) /\ All = f /\ f \in Seq(AnyToken)
      /\ Len(f) = Len(fed) + Len(batch)
  <2>1. Sound(attn, All, Len(fed) + t)
    BY <1>4 DEF LInv, CompressorsSound
  <2> QED  BY <1>1, <1>2, <2>1, TakesToken
<1>6. index' \in Compressors /\ (Grouped => Sound(index', f, Len(fed)))
  BY <1>2, <1>4, <1>5 DEF LInv, CompressorsSound
<1>7. \/ /\ t + 1 < Len(batch) /\ t' = t + 1 /\ pc' = "attn" /\ fed' = fed
      \/ /\ t + 1 = Len(batch) /\ t' = 0 /\ Grouped /\ pc' = "index" /\ fed' = fed
      \/ /\ t + 1 = Len(batch) /\ t' = 0 /\ ~Grouped /\ pc' = "idle" /\ fed' = f
  BY <1>2, <1>3 DEF TokenAttn
<1> HIDE DEF f, p
<1>8. /\ All' = f /\ AttnTaken' = p + 1 /\ (Grouped => IndexTaken' = Len(fed))
      /\ (pc' # "idle" => fed' = fed)
  <2>1. fed \o batch = f /\ p = Len(fed) + t
    BY DEF f, p
  <2>2. All' = f
    BY <1>2, <1>7, <2>1 DEF All, Idle
  <2>3. pc' # "idle" => fed' = fed
    BY <1>7
  <2>4. CASE pc' = "idle"
    <3>1. ~Grouped /\ fed' = f /\ t + 1 = Len(batch)
      BY <1>7, <2>4
    <3>2. AttnTaken' = Len(f) + 0
      BY <2>4, <3>1 DEF AttnTaken
    <3>3. Len(f) = p + 1
      <4>1. p = Len(fed) + t
        BY DEF p
      <4>2. Len(f) = Len(fed) + Len(batch) /\ t \in Nat /\ Len(fed) \in Nat /\ Len(batch) \in Nat
        BY <1>3, <1>5
      <4> QED  BY <3>1, <4>1, <4>2
    <3>4. Len(f) \in Nat
      BY <1>3, <1>5
    <3> QED  BY <2>2, <2>3, <3>1, <3>2, <3>3, <3>4
  <2>5. CASE pc' = "attn"
    <3>1. fed' = fed /\ t' = t + 1
      BY <1>7, <2>5
    <3> QED  BY <1>3, <2>1, <2>2, <2>5, <3>1 DEF AttnTaken, IndexTaken
  <2>6. CASE pc' = "index"
    <3>1. fed' = fed /\ t' = 0 /\ t + 1 = Len(batch) /\ batch' = batch
      BY <1>2, <1>7, <2>6
    <3>2. AttnTaken' = Len(fed) + Len(batch) /\ IndexTaken' = Len(fed) + 0
      BY <2>6, <3>1 DEF AttnTaken, IndexTaken
    <3>3. Len(fed) + Len(batch) = p + 1 /\ Len(fed) + 0 = Len(fed)
      <4>1. p = Len(fed) + t
        BY DEF p
      <4>2. t \in Nat /\ Len(fed) \in Nat /\ Len(batch) \in Nat
        BY <1>3
      <4> QED  BY <3>1, <4>1, <4>2
    <3> QED  BY <2>2, <2>3, <3>2, <3>3
  <2> QED  BY <1>7, <2>4, <2>5, <2>6
<1>9. CompressorsSound'
  BY <1>2, <1>5, <1>6, <1>8, CompressorsAfter
<1>10. attn'.n \in Nat /\ attn'.n = (Len(fed) + (t + 1)) \div ratio
  <2>1. p + 1 = Len(fed) + (t + 1)
    BY <1>3 DEF p
  <2> QED  BY <1>5, <2>1 DEF Sound, Holds, Compressors
<1>11. counts' \in Seq(Nat) /\ Len(counts') = t + 1
  BY <1>2, <1>3, <1>10
<1>12. Shape'
  <2>1. fed' \in Seq(AnyToken) /\ batch' \in Seq(AnyToken) /\ t' \in Nat /\ ratio' \in Ratios
    BY <1>2, <1>3, <1>5, <1>7
  <2>2. /\ pc' \in {"idle", "attn", "index"}
        /\ pc' # "idle" => t' < Len(batch')
        /\ pc' = "attn" => Len(counts') = t'
    BY <1>2, <1>3, <1>7, <1>11
  <2>3. pc' = "index" => Grouped'
    BY <1>2, <1>7 DEF Grouped
  <2> QED  BY <1>11, <2>1, <2>2, <2>3 DEF Shape
<1>13. VisibleRows'
  <2>1. SUFFICES ASSUME pc' # "idle", NEW k \in DOMAIN counts'
                 PROVE  counts'[k] = (Len(fed') + k) \div ratio'
    BY DEF VisibleRows
  <2>2. k \in 1 .. t + 1 /\ fed' = fed /\ ratio' = ratio
    BY <1>2, <1>8, <1>11, <2>1
  <2>3. CASE k = t + 1
    BY <1>2, <1>3, <1>10, <2>2, <2>3
  <2>4. CASE k # t + 1
    <3>1. k \in DOMAIN counts /\ counts'[k] = counts[k]
      BY <1>2, <1>3, <1>10, <2>2, <2>4
    <3>2. counts[k] = (Len(fed) + k) \div ratio
      BY <1>2, <3>1 DEF LInv, VisibleRows
    <3> QED  BY <2>2, <3>1, <3>2
  <2> QED  BY <2>3, <2>4
<1>14. CASE ~spec.on
  BY <1>2, <1>9, <1>12, <1>13, <1>14, Speculating DEF LInv
<1>15. CASE spec.on
  <2>1. /\ spec \in Speculations /\ All = spec.base \o batch /\ fed = spec.base /\ Len(batch) > 0
        /\ Frontier(spec.saved[1], f, Len(fed))
        /\ Grouped => Frontier(spec.saved[2], f, Len(fed))
        /\ ShortDraft(batch) => \A k \in SlotsTaken(batch, AttnTaken - Len(fed)) :
             Frontier(spec.attn[k], f, Len(fed) + k)
        /\ ShortDraft(batch) /\ Grouped => \A k \in SlotsTaken(batch, IndexTaken - Len(fed)) :
             Frontier(spec.index[k], f, Len(fed) + k)
    BY <1>2, <1>5, <1>15, Speculating DEF SpeculationSound
  <2>2. AttnTaken - Len(fed) = t /\ AttnTaken' - Len(fed) = t + 1
        /\ (Grouped => IndexTaken' - Len(fed) = IndexTaken - Len(fed))
    BY <1>3, <1>4, <1>8 DEF p
  <2>3. spec.attn \in [1 .. PrefixSlots -> Slots]
    BY <2>1 DEF Speculations
  <2>4. Sound(attn', f, Len(fed) + t + 1)
    BY <1>5 DEF p
  <2>5. /\ Captures(spec.attn, attn') \in [1 .. PrefixSlots -> Slots]
        /\ ShortDraft(batch) => \A k \in SlotsTaken(batch, t + 1) :
             Frontier(Captures(spec.attn, attn')[k], f, Len(fed) + k)
    BY <1>1, <1>3, <1>15, <2>1, <2>2, <2>3, <2>4, CapturesSound
  <2>6. /\ spec' \in Speculations /\ spec'.base = fed /\ spec'.saved = spec.saved
        /\ spec'.attn = Captures(spec.attn, attn') /\ spec'.index = spec.index
    BY <1>2, <1>15, <2>1, <2>5 DEF Speculations
  <2>7. SpeculationSound'
    BY <1>2, <1>5, <1>8, <2>1, <2>2, <2>5, <2>6, SpeculationAfter
  <2> QED  BY <1>9, <1>12, <1>13, <2>7 DEF LInv
<1> QED  BY <1>14, <1>15

LEMMA TokenIndexLInv ==
  ASSUME CacheAssumption, LInv, TokenIndex
  PROVE  LInv'
<1> DEFINE f == fed \o batch
           p == Len(fed) + t
<1>1. Layer
  BY LayerHolds
<1>2. /\ pc = "index" /\ ~Idle /\ index' = Update(index, f, p)
      /\ spec' = (IF spec.on THEN [spec EXCEPT !.index = Captures(spec.index, index')] ELSE spec)
      /\ UNCHANGED <<ratio, attn, batch, counts>>
  BY DEF TokenIndex, Idle
<1>3. /\ fed \in Seq(AnyToken) /\ batch \in Seq(AnyToken) /\ t \in Nat /\ t < Len(batch)
      /\ counts \in Seq(Nat) /\ Len(fed) \in Nat /\ Len(batch) \in Nat
      /\ ratio \in Ratios /\ Grouped
  BY <1>2 DEF LInv, Shape
<1>4. AttnTaken = Len(fed) + Len(batch) /\ IndexTaken = p
  BY <1>2, <1>3 DEF AttnTaken, IndexTaken
<1>5. /\ Sound(index', f, p + 1) /\ All = f /\ f \in Seq(AnyToken)
      /\ Len(f) = Len(fed) + Len(batch)
  <2>1. Sound(index, All, Len(fed) + t)
    BY <1>3, <1>4 DEF LInv, CompressorsSound
  <2> QED  BY <1>1, <1>2, <2>1, TakesToken
<1>6. Sound(attn', f, Len(f)) /\ index' \in Compressors
  BY <1>2, <1>4, <1>5 DEF LInv, CompressorsSound, Sound
<1>7. \/ /\ t + 1 < Len(batch) /\ t' = t + 1 /\ pc' = "index" /\ fed' = fed
      \/ /\ t + 1 = Len(batch) /\ t' = 0 /\ pc' = "idle" /\ fed' = f
  BY <1>2, <1>3 DEF TokenIndex
<1> HIDE DEF f, p
<1>8. /\ All' = f /\ AttnTaken' = Len(f) /\ IndexTaken' = p + 1
      /\ (pc' # "idle" => fed' = fed)
  <2>1. fed \o batch = f /\ p = Len(fed) + t
    BY DEF f, p
  <2>2. All' = f
    BY <1>2, <1>7, <2>1 DEF All, Idle
  <2>3. pc' # "idle" => fed' = fed
    BY <1>7
  <2>4. CASE pc' = "idle"
    <3>1. fed' = f /\ t + 1 = Len(batch)
      BY <1>7, <2>4
    <3>2. AttnTaken' = Len(f) + 0 /\ IndexTaken' = Len(f) + 0
      BY <2>4, <3>1 DEF AttnTaken, IndexTaken
    <3>3. Len(f) = p + 1
      <4>1. p = Len(fed) + t
        BY DEF p
      <4>2. Len(f) = Len(fed) + Len(batch) /\ t \in Nat /\ Len(fed) \in Nat /\ Len(batch) \in Nat
        BY <1>3, <1>5
      <4> QED  BY <3>1, <4>1, <4>2
    <3>4. Len(f) \in Nat
      BY <1>3, <1>5
    <3> QED  BY <2>2, <2>3, <3>2, <3>3, <3>4
  <2>5. CASE pc' = "index"
    <3>1. fed' = fed /\ t' = t + 1 /\ batch' = batch
      BY <1>2, <1>7, <2>5
    <3> QED  BY <1>3, <1>5, <2>1, <2>2, <2>5, <3>1 DEF AttnTaken, IndexTaken
  <2> QED  BY <1>7, <2>4, <2>5
<1>9. CompressorsSound'
  BY <1>2, <1>5, <1>6, <1>8, CompressorsAfter
<1>10. Shape'
  <2>1. fed' \in Seq(AnyToken) /\ batch' \in Seq(AnyToken) /\ t' \in Nat /\ ratio' \in Ratios
    BY <1>2, <1>3, <1>5, <1>7
  <2>2. /\ pc' \in {"idle", "index"} /\ counts' \in Seq(Nat)
        /\ pc' # "idle" => t' < Len(batch')
    BY <1>2, <1>3, <1>7
  <2>3. Grouped'
    BY <1>2, <1>3 DEF Grouped
  <2> QED  BY <2>1, <2>2, <2>3 DEF Shape
<1>11. VisibleRows'
  BY <1>2, <1>8 DEF LInv, VisibleRows
<1>12. CASE ~spec.on
  BY <1>2, <1>9, <1>10, <1>11, <1>12, Speculating DEF LInv
<1>13. CASE spec.on
  <2>1. /\ spec \in Speculations /\ All = spec.base \o batch /\ fed = spec.base /\ Len(batch) > 0
        /\ Frontier(spec.saved[1], f, Len(fed)) /\ Frontier(spec.saved[2], f, Len(fed))
        /\ ShortDraft(batch) => \A k \in SlotsTaken(batch, AttnTaken - Len(fed)) :
             Frontier(spec.attn[k], f, Len(fed) + k)
        /\ ShortDraft(batch) => \A k \in SlotsTaken(batch, IndexTaken - Len(fed)) :
             Frontier(spec.index[k], f, Len(fed) + k)
    BY <1>2, <1>3, <1>5, <1>13, Speculating DEF SpeculationSound
  <2>2. IndexTaken - Len(fed) = t /\ IndexTaken' - Len(fed) = t + 1 /\ AttnTaken' = AttnTaken
    BY <1>3, <1>4, <1>5, <1>8 DEF p
  <2>3. spec.index \in [1 .. PrefixSlots -> Slots]
    BY <2>1 DEF Speculations
  <2>4. Sound(index', f, Len(fed) + t + 1)
    BY <1>5 DEF p
  <2>5. /\ Captures(spec.index, index') \in [1 .. PrefixSlots -> Slots]
        /\ ShortDraft(batch) => \A k \in SlotsTaken(batch, t + 1) :
             Frontier(Captures(spec.index, index')[k], f, Len(fed) + k)
    BY <1>1, <1>3, <1>13, <2>1, <2>2, <2>3, <2>4, CapturesSound
  <2>6. /\ spec' \in Speculations /\ spec'.base = fed /\ spec'.saved = spec.saved
        /\ spec'.index = Captures(spec.index, index') /\ spec'.attn = spec.attn
    BY <1>2, <1>13, <2>1, <2>5 DEF Speculations
  <2>7. SpeculationSound'
    BY <1>2, <1>5, <1>8, <2>1, <2>2, <2>5, <2>6, SpeculationAfter
  <2> QED  BY <1>9, <1>10, <1>11, <2>7 DEF LInv
<1> QED  BY <1>12, <1>13

LEMMA Behind ==
  ASSUME NEW f \in Seq(AnyToken), NEW b \in Seq(AnyToken), NEW i \in 1 .. Len(f) + Len(b), i > Len(f)
  PROVE  (f \o b)[i] = b[i - Len(f)]
OBVIOUS

(* The prefix of k tokens of a verified draft that is short enough. *)
LEMMA DraftPrefix ==
  ASSUME CacheAssumption, LInv, Verified, NEW k \in 1 .. PrefixSlots, k < Len(batch), ShortDraft(batch)
  PROVE  /\ Alike(All, spec.base \o SubSeq(batch, 1, k), Len(spec.base) + k)
         /\ Len(spec.base \o SubSeq(batch, 1, k)) = Len(spec.base) + k
         /\ Frontier(spec.attn[k], All, Len(spec.base) + k)
         /\ Grouped => Frontier(spec.index[k], All, Len(spec.base) + k)
<1>1. /\ spec.base \in Seq(AnyToken) /\ batch \in Seq(AnyToken) /\ Len(batch) \in Nat
      /\ Len(spec.base) \in Nat /\ k \in Nat /\ PrefixSlots \in Nat
  <2>1. spec \in Speculations /\ Shape
    BY Speculating DEF Verified, SpeculationSound, LInv
  <2>2. spec.base \in Seq(AnyToken)
    BY <2>1 DEF Speculations
  <2>3. batch \in Seq(AnyToken)
    BY <2>1 DEF Shape
  <2> QED  BY <2>2, <2>3 DEF CacheAssumption
<1>2. All = spec.base \o batch /\ All = fed
  <2>1. SpeculationSound /\ Idle
    BY Speculating DEF Verified
  <2> QED  BY <2>1 DEF SpeculationSound, All
<1>3. Len(All) = Len(spec.base) + Len(batch) /\ All \in Seq(AnyToken)
  BY <1>1, <1>2, AlikeConcat
<1> DEFINE cut == SubSeq(batch, 1, k)
<1>4. cut \in Seq(AnyToken) /\ Len(cut) = k /\ \A i \in 1 .. k : cut[i] = batch[i]
  <2>1. 1 .. k \subseteq 1 .. Len(batch)
    BY <1>1
  <2>2. /\ cut = [i \in 1 .. k |-> batch[1 + i - 1]]
        /\ \A i \in 1 .. k : 1 + i - 1 = i /\ batch[i] \in AnyToken
    BY <1>1, <2>1
  <2> QED  BY <1>1, <2>2
<1> HIDE DEF cut
<1>5. spec.base \o cut \in Seq(AnyToken) /\ Len(spec.base \o cut) = Len(spec.base) + k
  BY <1>1, <1>4, AlikeConcat
<1>6. ASSUME NEW i \in 1 .. Len(spec.base) + k
      PROVE  All[i] = (spec.base \o cut)[i]
  <2>1. CASE i <= Len(spec.base)
    <3>1. i \in 1 .. Len(spec.base)
      BY <1>1, <2>1
    <3>2. Alike(spec.base, spec.base \o cut, Len(spec.base)) /\ Alike(spec.base, All, Len(spec.base))
      BY <1>1, <1>2, <1>4, AlikeConcat
    <3>3. (spec.base \o cut)[i] = spec.base[i] /\ All[i] = spec.base[i]
      BY <3>1, <3>2 DEF Alike
    <3> QED  BY <3>3
  <2>2. CASE i > Len(spec.base)
    <3>1. i - Len(spec.base) \in 1 .. k /\ i - Len(spec.base) \in 1 .. Len(batch)
      BY <1>1, <2>2
    <3>2. (spec.base \o cut)[i] = cut[i - Len(spec.base)]
      BY <1>1, <1>4, <2>2, Behind
    <3>3. (spec.base \o batch)[i] = batch[i - Len(spec.base)]
      <4>1. i \in 1 .. Len(spec.base) + Len(batch)
        BY <1>1
      <4> QED  BY <1>1, <2>2, <4>1, Behind
    <3>4. All[i] = batch[i - Len(spec.base)]
      BY <1>2, <3>3
    <3> QED  BY <1>4, <3>1, <3>2, <3>4
  <2>3. i <= Len(spec.base) \/ i > Len(spec.base)
    BY <1>1
  <2> QED  BY <2>1, <2>2, <2>3, Zenon
<1>7. Alike(All, spec.base \o cut, Len(spec.base) + k)
  BY <1>1, <1>3, <1>5, <1>6 DEF Alike
<1>8. /\ AttnTaken - Len(spec.base) = Len(batch) - 0
      /\ IndexTaken - Len(spec.base) = Len(batch) - 0
  BY <1>1, <1>2, <1>3 DEF AttnTaken, IndexTaken, Verified, Idle
<1>9. k \in SlotsTaken(batch, Len(batch) - 0)
  BY <1>1 DEF SlotsTaken
<1>10. /\ Frontier(spec.attn[k], All, Len(spec.base) + k)
       /\ Grouped => Frontier(spec.index[k], All, Len(spec.base) + k)
  BY <1>8, <1>9, Speculating DEF Verified, SpeculationSound
<1> QED  BY <1>5, <1>7, <1>10 DEF cut

(* A compressor that is set back: the rows in front of the slot's count    *)
(* are those of the tokens that stay.                                      *)
LEMMA SetBack ==
  ASSUME Layer, NEW c, NEW s, NEW f, NEW g, NEW m, NEW n, m \in Nat, n \in Nat, n <= m,
         Sound(c, f, m), Frontier(s, f, n), Alike(f, g, n)
  PROVE  Sound([c EXCEPT !.state = s.state, !.n = s.n], g, n)
<1>1. /\ c \in Compressors /\ c.n = m \div ratio /\ c.n <= Len(c.rows) /\ c.n \in Nat
      /\ \A k \in 1 .. c.n : c.rows[k] = RowOf(f, k - 1)
  BY DEF Sound, Holds, Compressors
<1>2. ratio \in Nat \ {0} /\ s.state \in States /\ s.n = n \div ratio /\ s.n \in Nat
  BY Rationed DEF Frontier
<1>3. s.n <= c.n
  <2>1. /\ n \div ratio \in Nat /\ n % ratio \in 0 .. ratio - 1
        /\ n = ratio * (n \div ratio) + (n % ratio)
        /\ m \div ratio \in Nat /\ m % ratio \in 0 .. ratio - 1
        /\ m = ratio * (m \div ratio) + (m % ratio)
    BY <1>2, DivMod
  <2>2. ~(m \div ratio < n \div ratio)
    <3>1. SUFFICES ASSUME m \div ratio < n \div ratio PROVE FALSE
      OBVIOUS
    <3>2. /\ ratio * (m \div ratio) + ratio <= ratio * (n \div ratio)
          /\ ratio * (m \div ratio) \in Nat /\ ratio * (n \div ratio) \in Nat
      BY <1>2, <2>1, <3>1, Multiples
    <3> QED  BY <1>2, <2>1, <3>2
  <2> QED  BY <1>1, <1>2, <2>1, <2>2
<1>4. \A k \in 1 .. s.n : c.rows[k] = RowOf(g, k - 1)
  <2>1. SUFFICES ASSUME NEW k \in 1 .. s.n PROVE c.rows[k] = RowOf(g, k - 1)
    OBVIOUS
  <2>2. k - 1 \in Nat /\ k - 1 < n \div ratio /\ k \in 1 .. c.n
    BY <1>1, <1>2, <1>3
  <2>3. RowOf(f, k - 1) = RowOf(g, k - 1)
    BY <2>2, AlikeRow
  <2> QED  BY <1>1, <2>2, <2>3
<1>5. Pending(s.state, g, n)
  BY AlikePending DEF Frontier
<1> DEFINE d == [c EXCEPT !.state = s.state, !.n = s.n]
<1>6. d \in Compressors /\ d.state = s.state /\ d.n = s.n /\ d.rows = c.rows
  BY <1>1, <1>2 DEF Compressors
<1>7. Len(c.rows) \in Nat
  BY <1>1 DEF Compressors
<1> HIDE DEF d
<1>8. Sound(d, g, n)
  BY <1>1, <1>2, <1>3, <1>4, <1>5, <1>6, <1>7 DEF Sound, Holds
<1> QED  BY <1>8 DEF d

(* Behind a verified draft, both compressors hold it. *)
LEMMA VerifiedHolds ==
  ASSUME CacheAssumption, LInv, Verified
  PROVE  /\ Layer /\ Idle /\ fed = All /\ All \in Seq(AnyToken) /\ Len(All) \in Nat
         /\ Sound(attn, All, Len(All)) /\ index \in Compressors
         /\ Grouped => Sound(index, All, Len(All))
         /\ batch \in Seq(AnyToken) /\ t \in Nat /\ counts \in Seq(Nat)
         /\ All = spec.base \o batch /\ spec.base \in Seq(AnyToken)
         /\ spec \in Speculations
         /\ Frontier(spec.saved[1], All, Len(spec.base))
         /\ Grouped => Frontier(spec.saved[2], All, Len(spec.base))
<1>1. Layer /\ Idle /\ spec.on
  BY LayerHolds DEF Verified
<1>2. fed = All /\ AttnTaken = Len(fed) + 0 /\ IndexTaken = Len(fed) + 0
  BY <1>1 DEF All, AttnTaken, IndexTaken, Idle
<1>3. Shape /\ CompressorsSound /\ SpeculationSound
  BY <1>1, Speculating DEF LInv
<1>4. fed \in Seq(AnyToken) /\ Len(fed) \in Nat /\ Len(fed) + 0 = Len(fed)
  BY <1>3 DEF Shape
<1> QED  BY <1>1, <1>2, <1>3, <1>4 DEF Shape, CompressorsSound, SpeculationSound, Speculations

LEMMA CommitAllLInv ==
  ASSUME CacheAssumption, LInv, CommitAll
  PROVE  LInv'
<1>1. Verified /\ spec' = NoSpec /\ UNCHANGED <<ratio, fed, attn, index, pc, batch, t, counts>>
  BY DEF CommitAll
<1> QED  BY <1>1, VerifiedHolds, AtRest DEF Idle

(* The indexer's compressor after a commit or a roll back. *)
LEMMA IndexSetBack ==
  ASSUME Layer, NEW s, NEW f, NEW g, NEW m, NEW n, m \in Nat, n \in Nat, n <= m,
         index \in Compressors, Grouped => Sound(index, f, m), Grouped => Frontier(s, f, n),
         Alike(f, g, n), index' = OfIndex([index EXCEPT !.state = s.state, !.n = s.n])
  PROVE  index' \in Compressors /\ (Grouped => Sound(index', g, n))
<1>1. CASE Grouped
  <2>1. Sound([index EXCEPT !.state = s.state, !.n = s.n], g, n)
    BY <1>1, SetBack
  <2> QED  BY <1>1, <2>1 DEF OfIndex, Sound
<1>2. CASE ~Grouped
  BY <1>2 DEF OfIndex
<1> QED  BY <1>1, <1>2

LEMMA CommitPrefixLInv ==
  ASSUME CacheAssumption, LInv, NEW k \in 1 .. PrefixSlots, CommitPrefix(k)
  PROVE  LInv'
<1> DEFINE g == spec.base \o SubSeq(batch, 1, k)
           n == Len(spec.base) + k
<1>1. /\ Verified /\ k < Len(batch) /\ ShortDraft(batch) /\ fed' = g /\ spec' = NoSpec
      /\ attn' = [attn EXCEPT !.state = spec.attn[k].state, !.n = spec.attn[k].n]
      /\ index' = OfIndex([index EXCEPT !.state = spec.index[k].state, !.n = spec.index[k].n])
      /\ UNCHANGED <<ratio, pc, batch, t, counts>>
  BY DEF CommitPrefix
<1>2. /\ Alike(All, g, n) /\ Len(g) = n
      /\ Frontier(spec.attn[k], All, n) /\ (Grouped => Frontier(spec.index[k], All, n))
  BY <1>1, DraftPrefix
<1>3. /\ Layer /\ Sound(attn, All, Len(All)) /\ index \in Compressors
      /\ Grouped => Sound(index, All, Len(All))
      /\ pc' = "idle" /\ batch \in Seq(AnyToken) /\ t \in Nat /\ counts \in Seq(Nat)
  BY <1>1, VerifiedHolds DEF Idle
<1> HIDE DEF g, n
<1>4. g \in Seq(AnyToken) /\ n \in Nat /\ n <= Len(All) /\ Len(All) \in Nat
  BY <1>1, <1>2, VerifiedHolds DEF Alike
<1>5. Sound(attn', g, n)
  BY <1>1, <1>2, <1>3, <1>4, SetBack
<1>6. index' \in Compressors /\ (Grouped => Sound(index', g, n))
  BY <1>1, <1>2, <1>3, <1>4, IndexSetBack
<1> QED  BY <1>1, <1>2, <1>3, <1>4, <1>5, <1>6, AtRest

LEMMA RollbackLInv ==
  ASSUME CacheAssumption, LInv, Rollback
  PROVE  LInv'
<1> DEFINE g == spec.base
           n == Len(spec.base)
<1>1. /\ Verified /\ fed' = g /\ spec' = NoSpec
      /\ attn' = [attn EXCEPT !.state = spec.saved[1].state, !.n = spec.saved[1].n]
      /\ index' = OfIndex([index EXCEPT !.state = spec.saved[2].state, !.n = spec.saved[2].n])
      /\ UNCHANGED <<ratio, pc, batch, t, counts>>
  BY DEF Rollback
<1>2. /\ Layer /\ Sound(attn, All, Len(All)) /\ index \in Compressors
      /\ Grouped => Sound(index, All, Len(All))
      /\ pc' = "idle" /\ batch \in Seq(AnyToken) /\ t \in Nat /\ counts \in Seq(Nat)
      /\ All = g \o batch /\ g \in Seq(AnyToken) /\ n \in Nat
      /\ Frontier(spec.saved[1], All, n) /\ (Grouped => Frontier(spec.saved[2], All, n))
  BY <1>1, VerifiedHolds DEF Idle
<1> HIDE DEF g
<1>3. Alike(g, All, Len(g)) /\ Len(All) = Len(g) + Len(batch)
  BY <1>2, AlikeConcat
<1>4. Len(g) = n
  BY DEF g
<1> HIDE DEF n
<1>5. Alike(All, g, n) /\ n <= Len(All) /\ Len(All) \in Nat
  BY <1>2, <1>3, <1>4 DEF Alike
<1>6. Sound(attn', g, n)
  BY <1>1, <1>2, <1>5, SetBack
<1>7. index' \in Compressors /\ (Grouped => Sound(index', g, n))
  BY <1>1, <1>2, <1>5, IndexSetBack
<1> QED  BY <1>1, <1>2, <1>4, <1>6, <1>7, AtRest

LEMMA StutterLInv ==
  ASSUME CacheAssumption, LInv, UNCHANGED cachevars
  PROVE  LInv'
<1>1. UNCHANGED <<ratio, fed, attn, index, pc, batch, t, counts, spec>>
  BY DEF cachevars
<1>2. Shape'
  BY <1>1 DEF LInv, Shape, Grouped
<1>3. All' = All /\ AttnTaken' = AttnTaken /\ IndexTaken' = IndexTaken
  BY <1>1 DEF All, AttnTaken, IndexTaken, Idle
<1>4. CompressorsSound'
  BY <1>1, <1>3, CompressorsAfter DEF LInv, CompressorsSound
<1>5. VisibleRows'
  BY <1>1 DEF LInv, VisibleRows
<1>6. CASE spec = NoSpec
  BY <1>1, <1>2, <1>4, <1>5, <1>6 DEF LInv, NoSpec
<1>7. CASE SpeculationSound
  <2>1. SpeculationSound'
    BY <1>1, <1>3, <1>7, SpeculationAfter DEF SpeculationSound, Idle
  <2> QED  BY <1>2, <1>4, <1>5, <2>1 DEF LInv
<1> QED  BY <1>6, <1>7 DEF LInv

LEMMA NextLInv ==
  ASSUME CacheAssumption, ~RaggedCold, LInv, [CacheNext]_cachevars
  PROVE  LInv'
<1>1. CASE \E n \in 1 .. PrefillCap : ColdChunk(n) \/ Chunk(n)
  BY <1>1, ColdChunkLInv, ChunkLInv
<1>2. CASE TokenAttn \/ TokenIndex \/ Decode
  BY <1>2, TokenAttnLInv, TokenIndexLInv, DecodeLInv
<1>3. CASE \E n \in 1 .. MaxDraft : Verify(n)
  BY <1>3, VerifyLInv
<1>4. CASE CommitAll \/ Rollback
  BY <1>4, CommitAllLInv, RollbackLInv
<1>5. CASE \E k \in 1 .. PrefixSlots : CommitPrefix(k)
  BY <1>5, CommitPrefixLInv
<1>6. CASE UNCHANGED cachevars
  BY <1>6, StutterLInv
<1> QED  BY <1>1, <1>2, <1>3, <1>4, <1>5, <1>6 DEF CacheNext

-----------------------------------------------------------------------------
(* Theorems *)

(* In every reachable state both compressors are what the tokens they have *)
(* taken make of them, and the snapshot and the captured slots of a        *)
(* running speculation are the states the layer had behind the tokens they *)
(* stand for (spec_frontier_snapshot and                                   *)
(* metal_graph_capture_prefix_attn_state with its counterpart of the       *)
(* indexer), as long as no cold chunk of a layer of ratio 4 ends inside a  *)
(* group.                                                                  *)
THEOREM CacheInvariant ==
  CacheAssumption /\ ~RaggedCold /\ CacheSpec => []LInv
<1>1. CacheAssumption /\ CacheInit => LInv
  BY InitLInv
<1>2. CacheAssumption /\ ~RaggedCold /\ LInv /\ [CacheNext]_cachevars => LInv'
  BY NextLInv
<1>3. CASE CacheAssumption /\ ~RaggedCold
  BY <1>1, <1>2, <1>3, PTL DEF CacheSpec
<1> QED  BY <1>3

(* Whole chunks, single tokens, decode and drafts of which any prefix was  *)
(* kept leave the same rows, the same state and the same count: those of   *)
(* the tokens alone; and a token of a running chunk attends to the rows of *)
(* the groups that it and the tokens before it finish, no other.           *)
THEOREM RowsOfTokens ==
  CacheAssumption /\ ~RaggedCold /\ CacheSpec => []RowsMatch
<1>1. LInv => RowsMatch
  <2>1. SUFFICES ASSUME LInv PROVE RowsMatch
    OBVIOUS
  <2>2. Idle => Holds(attn, fed, Len(fed)) /\ (Grouped => Holds(index, fed, Len(fed)))
    <3>1. SUFFICES ASSUME Idle
                   PROVE  Holds(attn, fed, Len(fed)) /\ (Grouped => Holds(index, fed, Len(fed)))
      OBVIOUS
    <3>2. All = fed /\ AttnTaken = Len(fed) + 0 /\ IndexTaken = Len(fed) + 0
      BY <3>1 DEF All, AttnTaken, IndexTaken, Idle
    <3>3. Len(fed) + 0 = Len(fed)
      BY <2>1 DEF LInv, Shape
    <3> QED  BY <2>1, <3>2, <3>3 DEF LInv, CompressorsSound, Sound
  <2> QED  BY <2>1, <2>2 DEF LInv, RowsMatch
<1>2. CASE CacheAssumption /\ ~RaggedCold
  BY <1>1, <1>2, CacheInvariant, PTL
<1> QED  BY <1>2

=============================================================================

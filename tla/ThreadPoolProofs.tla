--------------------------- MODULE ThreadPoolProofs ---------------------------
(***************************************************************************)
(* Theorems about ThreadPool, for every number of threads, every width of  *)
(* the generation counter and every set of score vectors.                  *)
(*                                                                         *)
(* What holds the pool together is that a call returns only when every     *)
(* worker has taken its job and reported: done counts the workers that     *)
(* have.  So no worker is ever more than one generation behind, and the    *)
(* counter may wrap.                                                       *)
(***************************************************************************)
EXTENDS ThreadPool, FiniteSets, FiniteSetTheorems, WellFoundedInduction, TLAPS

-----------------------------------------------------------------------------
(* Least rows and best rows *)

LEMMA LeastExists ==
  ASSUME NEW S \in SUBSET Nat, S # {}
  PROVE  \E m \in S : \A x \in S : m <= x
<1> DEFINE R == OpToRel(<, Nat)
<1>1. IsWellFoundedOn(R, Nat)
  BY NatLessThanWellFounded
<1>2. PICK m \in S : \A y \in S : <<y, m>> \notin R
  <2> HIDE DEF R
  <2> QED  BY <1>1, WFMin
<1>3. \A y \in S : y \in Nat /\ m \in Nat /\ ~(y < m)
  BY <1>2 DEF OpToRel
<1>4. \A y \in S : m <= y
  BY <1>3
<1> HIDE DEF R
<1> QED  BY <1>4

LEMMA FirstIsLeast ==
  ASSUME NEW rows \in SUBSET Nat, rows # {}
  PROVE  FirstOf(rows) \in rows /\ \A x \in rows : FirstOf(rows) <= x
BY LeastExists DEF FirstOf

(* Some row of a set of rows is as good as any.  By the least bound below  *)
(* which there is none: with the row under it taken off there was one.     *)
LEMMA BestExists ==
  ASSUME Low \in Int, NEW s, IsVector(s), NEW rows \in SUBSET DOMAIN s, rows # {}
  PROVE  \E r \in rows : \A x \in rows : s[x] <= s[r]
<1> DEFINE Below(k) == {x \in rows : x < k}
           Won(k) == \E r \in Below(k) : \A x \in Below(k) : s[x] <= s[r]
           T == {k \in Nat : Below(k) # {} /\ ~Won(k)}
<1>1. \A x \in rows : x \in Nat /\ s[x] \in Int
  BY DEF IsVector
<1>2. T = {}
  <2> SUFFICES ASSUME T # {} PROVE FALSE
    OBVIOUS
  <2>1. PICK k \in T : \A x \in T : k <= x
    BY LeastExists
  <2>2. k \in Nat /\ k # 0
    BY <1>1, <2>1
  <2>3. k - 1 \in Nat /\ k - 1 \notin T
    BY <2>1, <2>2
  <2>4. CASE Below(k - 1) = {}
    <3>1. k - 1 \in Below(k) /\ \A x \in Below(k) : x = k - 1
      BY <1>1, <2>1, <2>2, <2>4
    <3> QED  BY <1>1, <2>1, <3>1
  <2>5. CASE Below(k - 1) # {}
    <3>1. PICK r \in Below(k - 1) : \A x \in Below(k - 1) : s[x] <= s[r]
      BY <2>3, <2>5
    <3>2. CASE k - 1 \in rows /\ s[k - 1] > s[r]
      <4>1. k - 1 \in Below(k) /\ \A x \in Below(k) : s[x] <= s[k - 1]
        BY <1>1, <2>2, <3>1, <3>2
      <4> QED  BY <2>1, <4>1
    <3>3. CASE ~(k - 1 \in rows /\ s[k - 1] > s[r])
      <4>1. r \in Below(k)
        BY <1>1, <2>2, <3>1
      <4>2. ASSUME NEW x \in Below(k) PROVE s[x] <= s[r]
        <5>1. CASE x = k - 1
          BY <1>1, <3>1, <3>3, <5>1
        <5>2. CASE x # k - 1
          BY <1>1, <2>2, <3>1, <5>2
        <5> QED  BY <5>1, <5>2
      <4> QED  BY <2>1, <4>1, <4>2
    <3> QED  BY <3>2, <3>3
  <2> QED  BY <2>4, <2>5
<1>3. NRows(s) \in Nat /\ Below(NRows(s)) = rows
  BY <1>1 DEF IsVector
<1>4. Won(NRows(s))
  BY <1>2, <1>3
<1> QED  BY <1>3, <1>4

(* The first of the best rows of a set of rows. *)
IsBest(s, rows, r) ==
  /\ r \in rows
  /\ \A x \in rows : s[x] <= s[r]
  /\ \A x \in rows : s[x] = s[r] => r <= x

LEMMA BestOfIsBest ==
  ASSUME Low \in Int, NEW s, IsVector(s), NEW rows \in SUBSET DOMAIN s, rows # {}
  PROVE  /\ IsBest(s, rows, BestOf(s, rows).idx)
         /\ BestOf(s, rows).val = s[BestOf(s, rows).idx]
         /\ BestOf(s, rows) \in [idx : Nat, val : Int]
<1> DEFINE high == {r \in rows : s[r] > Low /\ \A x \in rows : s[x] <= s[r]}
<1>1. rows \in SUBSET Nat /\ high \in SUBSET Nat /\ \A x \in rows : s[x] \in Int /\ s[x] >= Low
  BY DEF IsVector
<1>2. PICK r \in rows : \A x \in rows : s[x] <= s[r]
  BY BestExists
<1>3. FirstOf(rows) \in rows /\ \A x \in rows : FirstOf(rows) <= x
  BY <1>1, FirstIsLeast
<1>4. CASE high = {}
  <2>1. \A x \in rows : s[x] = Low
    BY <1>1, <1>2, <1>4
  <2>2. BestOf(s, rows) = [idx |-> FirstOf(rows), val |-> Low]
    BY <1>4 DEF BestOf
  <2> QED  BY <1>1, <1>3, <2>1, <2>2 DEF IsBest
<1>5. CASE high # {}
  <2>1. FirstOf(high) \in high /\ \A x \in high : FirstOf(high) <= x
    BY <1>1, <1>5, FirstIsLeast
  <2>2. BestOf(s, rows) = [idx |-> FirstOf(high), val |-> s[FirstOf(high)]]
    BY <1>5 DEF BestOf
  <2>3. \A x \in rows : s[x] = s[FirstOf(high)] => x \in high
    BY <2>1
  <2> QED  BY <1>1, <2>1, <2>2, <2>3 DEF IsBest
<1> QED  BY <1>4, <1>5

LEMMA BestUnique ==
  ASSUME Low \in Int, NEW s, IsVector(s), NEW r, IsBest(s, DOMAIN s, r)
  PROVE  r = Abstract!Best(s)
<1>1. \A x \in DOMAIN s : x \in Nat
  BY DEF IsVector
<1>2. \A x : IsBest(s, DOMAIN s, x) => x = r
  BY <1>1 DEF IsBest, IsVector
<1>3. Abstract!Best(s) = CHOOSE x \in DOMAIN s : IsBest(s, DOMAIN s, x)
  BY DEF Abstract!Best, IsBest
<1> QED  BY <1>2, <1>3 DEF IsBest

-----------------------------------------------------------------------------
(* The slices of the threads *)

LEMMA Multiples ==
  ASSUME NEW a \in Nat, NEW b \in Nat, NEW p \in Nat, a <= b
  PROVE  a * p \in Nat /\ b * p \in Nat /\ a * p <= b * p
<1>1. b * p = a * p + (b - a) * p
  OBVIOUS
<1>2. a * p \in Nat /\ b * p \in Nat /\ (b - a) * p \in Nat
  OBVIOUS
<1> QED  BY <1>1, <1>2

LEMMA Quotient ==
  ASSUME NEW a \in Nat, NEW p \in Nat \ {0}
  PROVE  /\ a \div p \in Nat
         /\ (a \div p) * p <= a /\ a < (a \div p + 1) * p
OBVIOUS

LEMMA QuotientIs ==
  ASSUME NEW a \in Nat, NEW p \in Nat \ {0}, NEW q \in Nat, q * p <= a, a < (q + 1) * p
  PROVE  a \div p = q
<1> DEFINE d == a \div p
<1>1. d \in Nat /\ d * p <= a /\ a < (d + 1) * p
  BY Quotient
<1> HIDE DEF d
<1>2. CASE d < q
  <2>1. (d + 1) * p <= q * p
    BY <1>1, <1>2, Multiples
  <2> QED  BY <1>1, <2>1
<1>3. CASE q < d
  <2>1. (q + 1) * p <= d * p
    BY <1>1, <1>3, Multiples
  <2> QED  BY <1>1, <2>1
<1> QED  BY <1>1, <1>2, <1>3 DEF d

LEMMA PerThreadCovers ==
  ASSUME PoolAssumption, NEW s \in Scores
  PROVE  PerThread(s) \in Nat \ {0} /\ NRows(s) <= NThreads * PerThread(s)
<1> DEFINE n == NRows(s)
           q == (n + NThreads - 1) \div NThreads
<1>1. n \in Nat \ {0} /\ NThreads \in Nat \ {0}
  BY DEF PoolAssumption, IsVector
<1> HIDE DEF n
<1>2. q \in Nat /\ q * NThreads <= n + NThreads - 1 /\ n + NThreads - 1 < (q + 1) * NThreads
  BY <1>1, Quotient
<1> HIDE DEF q
<1>3. (q + 1) * NThreads = NThreads * q + NThreads
  BY <1>1, <1>2
<1>4. NThreads * q \in Nat
  BY <1>1, <1>2
<1>5. n <= NThreads * q
  BY <1>1, <1>2, <1>3, <1>4
<1>6. q # 0
  BY <1>1, <1>5
<1> QED  BY <1>2, <1>5, <1>6 DEF q, n, PerThread

(* Each row belongs to the slice of one thread. *)
LEMMA SlicesCover ==
  ASSUME PoolAssumption, NEW s \in Scores, NEW r \in DOMAIN s
  PROVE  \E i \in Slots : r \in Slice(s, i)
<1> DEFINE p == PerThread(s)
           i == r \div p
<1>1. r \in Nat /\ r < NRows(s) /\ NRows(s) \in Nat
  BY DEF PoolAssumption, IsVector
<1>2. p \in Nat \ {0} /\ NRows(s) <= NThreads * p /\ NThreads \in Nat
  BY PerThreadCovers DEF PoolAssumption
<1> HIDE DEF p
<1>3. i \in Nat /\ i * p <= r /\ r < (i + 1) * p
  BY <1>1, <1>2, Quotient
<1> HIDE DEF i
<1>4. i < NThreads
  <2> SUFFICES ASSUME NThreads <= i PROVE FALSE
    BY <1>2, <1>3
  <2>1. NThreads * p <= i * p
    BY <1>2, <1>3, Multiples
  <2> QED  BY <1>1, <1>2, <1>3, <2>1
<1>5. i \in Slots
  BY <1>2, <1>3, <1>4 DEF Slots
<1> QED  BY <1>3, <1>5 DEF Slice, RowsOf, p

LEMMA SliceRows ==
  ASSUME PoolAssumption, NEW s \in Scores, NEW i \in Slots
  PROVE  Slice(s, i) \in SUBSET DOMAIN s /\ Slice(s, i) \in SUBSET Nat
BY DEF PoolAssumption, IsVector, Slice, RowsOf

(* The rows of a lower slice are lower. *)
LEMMA SlicesInOrder ==
  ASSUME PoolAssumption, NEW s \in Scores, NEW i \in Slots, NEW j \in Slots, i < j,
         NEW r \in Slice(s, i), NEW x \in Slice(s, j)
  PROVE  r < x
<1> DEFINE p == PerThread(s)
<1>1. p \in Nat \ {0} /\ i \in Nat /\ j \in Nat
  BY PerThreadCovers DEF Slots
<1>2. r \in Nat /\ x \in Nat /\ r < (i + 1) * p /\ j * p <= x
  BY SliceRows DEF Slice
<1> HIDE DEF p
<1>3. (i + 1) * p <= j * p /\ (i + 1) * p \in Nat /\ j * p \in Nat
  BY <1>1, Multiples
<1> QED  BY <1>2, <1>3

LEMMA SlicesApart ==
  ASSUME PoolAssumption, NEW s \in Scores, NEW i \in Slots, NEW j \in Slots,
         NEW r \in Slice(s, i), r \in Slice(s, j)
  PROVE  i = j
<1>1. r \in Nat /\ i \in Int /\ j \in Int
  BY SliceRows DEF Slots
<1>2. ~(i < j)
  BY <1>1, SlicesInOrder
<1>3. ~(j < i)
  BY <1>1, SlicesInOrder
<1> QED  BY <1>1, <1>2, <1>3

(* A thread leaves the best of its slice in the slot of its own. *)
LEMMA SlotIsOwn ==
  ASSUME PoolAssumption, NEW s \in Scores, NEW i \in Slots, Slice(s, i) # {}
  PROVE  SlotOf(s, Slice(s, i)) = i
<1> DEFINE p == PerThread(s)
<1>1. p \in Nat \ {0} /\ i \in Nat
  BY PerThreadCovers DEF Slots
<1>2. FirstOf(Slice(s, i)) \in Slice(s, i)
  BY SliceRows, FirstIsLeast
<1>3. FirstOf(Slice(s, i)) \in Nat /\ i * p <= FirstOf(Slice(s, i)) /\ FirstOf(Slice(s, i)) < (i + 1) * p
  BY <1>2, SliceRows DEF Slice
<1>4. FirstOf(Slice(s, i)) \div p = i
  <2> HIDE DEF p
  <2> QED  BY <1>1, <1>3, QuotientIs
<1> QED  BY <1>1, <1>4 DEF SlotOf

-----------------------------------------------------------------------------
(* What the slots come to *)

(* What thread i leaves in its slot. *)
SlotOfThread(s, i) == IF Slice(s, i) = {} THEN [idx |-> 0, val |-> Low] ELSE BestOf(s, Slice(s, i))

LEMMA SlotOfThreadType ==
  ASSUME PoolAssumption, NEW s \in Scores, NEW i \in Slots
  PROVE  SlotOfThread(s, i) \in [idx : Nat, val : Int]
BY SliceRows, BestOfIsBest DEF SlotOfThread, PoolAssumption

LEMMA WholeBest ==
  ASSUME PoolAssumption, NEW s \in Scores
  PROVE  \E m \in DOMAIN s : IsBest(s, DOMAIN s, m)
<1>1. DOMAIN s # {}
  <2>1. 0 \in DOMAIN s
    BY DEF PoolAssumption, IsVector
  <2> QED  BY <2>1
<1>2. DOMAIN s \in SUBSET DOMAIN s
  OBVIOUS
<1> QED  BY <1>1, <1>2, BestOfIsBest DEF PoolAssumption, IsBest

(* The slots of all threads, compared in order, give the first best row of *)
(* the whole vector.                                                       *)
LEMMA CombinedIsBest ==
  ASSUME PoolAssumption, NEW s \in Scores, NEW b \in [Slots -> [idx : Nat, val : Int]],
         \A i \in Slots : b[i] = SlotOfThread(s, i)
  PROVE  Combined(b) = Abstract!Best(s)
<1> DEFINE high == {i \in Slots : b[i].val > Low /\ \A j \in Slots : b[j].val <= b[i].val}
<1>1. PICK m \in DOMAIN s : IsBest(s, DOMAIN s, m)
  BY WholeBest
<1>2. Low \in Int /\ IsVector(s) /\ m = Abstract!Best(s)
  BY <1>1, BestUnique DEF PoolAssumption
<1>3. \A x \in DOMAIN s : x \in Nat /\ s[x] \in Int /\ Low <= s[x] /\ s[x] <= s[m]
  BY <1>1, <1>2 DEF IsBest, IsVector
<1>4. PICK t \in Slots : m \in Slice(s, t)
  BY SlicesCover
<1>5. ASSUME NEW i \in Slots
      PROVE  \/ b[i].val = Low /\ Slice(s, i) = {}
             \/ b[i].idx \in Slice(s, i) /\ b[i].val = s[b[i].idx] /\ b[i].val <= s[m]
  <2>1. CASE Slice(s, i) = {}
    BY <2>1 DEF SlotOfThread
  <2>2. CASE Slice(s, i) # {}
    BY <1>2, <1>3, <2>2, BestOfIsBest, SliceRows DEF SlotOfThread, IsBest
  <2> QED  BY <2>1, <2>2
<1>6. b[t].idx = m /\ b[t].val = s[m]
  <2>1. Slice(s, t) # {} /\ b[t] = BestOf(s, Slice(s, t))
    BY <1>4 DEF SlotOfThread
  <2>2. IsBest(s, Slice(s, t), b[t].idx) /\ b[t].val = s[b[t].idx]
    BY <1>2, <2>1, BestOfIsBest, SliceRows
  <2>3. b[t].idx \in DOMAIN s /\ s[b[t].idx] = s[m]
    BY <1>3, <1>4, <2>2, SliceRows DEF IsBest
  <2>4. b[t].idx <= m /\ m <= b[t].idx
    BY <1>1, <1>4, <2>2, <2>3 DEF IsBest
  <2> QED  BY <1>3, <2>2, <2>3, <2>4
<1>7. high \in SUBSET Nat
  BY DEF Slots
<1>8. CASE s[m] = Low
  <2>1. high = {}
    BY <1>3, <1>5, <1>8
  <2>2. 0 \in DOMAIN s /\ s[0] = s[m]
    BY <1>2, <1>3, <1>8 DEF IsVector
  <2>3. m = 0
    BY <1>1, <1>3, <2>2 DEF IsBest
  <2> QED  BY <1>2, <2>1, <2>3 DEF Combined
<1>9. CASE s[m] # Low
  <2>1. t \in high
    <3>1. \A j \in Slots : b[j].val <= s[m]
      BY <1>3, <1>5
    <3>2. s[m] > Low
      BY <1>2, <1>3, <1>9
    <3> QED  BY <1>6, <3>1, <3>2
  <2>2. PICK f \in high : f = FirstOf(high) /\ \A j \in high : f <= j
    BY <1>7, <2>1, FirstIsLeast
  <2>3. b[f].idx \in Slice(s, f) /\ b[f].val = s[b[f].idx] /\ b[f].val = s[m]
    BY <1>3, <1>5, <1>6, <2>1, <2>2
  <2>4. m <= b[f].idx
    BY <1>1, <2>3, SliceRows DEF IsBest
  <2>5. f = t
    <3>0. f \in Nat /\ t \in Nat /\ f <= t
      BY <1>7, <2>1, <2>2
    <3> SUFFICES ASSUME f < t PROVE FALSE
      BY <3>0
    <3>1. b[f].idx < m
      BY <1>4, <2>2, <2>3, SlicesInOrder
    <3> QED  BY <1>3, <2>3, <2>4, <3>1, SliceRows
  <2>6. Combined(b) = b[f].idx
    BY <2>1, <2>2 DEF Combined, FirstOf
  <2> QED  BY <1>2, <1>6, <2>5, <2>6
<1> QED  BY <1>8, <1>9

(* One thread alone leaves the best of all rows in the first slot. *)
LEMMA SerialIsBest ==
  ASSUME PoolAssumption, NEW s \in Scores, NEW b \in [Slots -> [idx : Nat, val : Int]],
         b = [Cleared EXCEPT ![SlotOf(s, RowsOf(s))] = BestOf(s, RowsOf(s))]
  PROVE  Combined(b) = Abstract!Best(s)
<1> DEFINE top == BestOf(s, RowsOf(s))
           high == {i \in Slots : b[i].val > Low /\ \A j \in Slots : b[j].val <= b[i].val}
<1>1. Low \in Int /\ IsVector(s) /\ RowsOf(s) = DOMAIN s /\ 0 \in DOMAIN s /\ DOMAIN s \in SUBSET Nat /\ 0 \in Slots
  BY DEF PoolAssumption, IsVector, RowsOf, Slots
<1>2. FirstOf(RowsOf(s)) = 0
  BY <1>1, FirstIsLeast
<1>3. SlotOf(s, RowsOf(s)) = 0
  <2>1. PerThread(s) \in Nat \ {0}
    BY PerThreadCovers
  <2>2. 0 \div PerThread(s) = 0
    BY <2>1, QuotientIs
  <2> QED  BY <1>2, <2>2 DEF SlotOf
<1>4. IsBest(s, DOMAIN s, top.idx) /\ top.val = s[top.idx]
  BY <1>1, BestOfIsBest
<1>5. top.idx = Abstract!Best(s)
  BY <1>1, <1>4, BestUnique
<1>6. s[top.idx] \in Int /\ s[top.idx] >= Low
  BY <1>1, <1>4 DEF IsBest, IsVector
<1>7. b[0] = top /\ \A i \in Slots : i # 0 => b[i].val = Low
  BY <1>1, <1>3 DEF Cleared
<1>8. CASE s[top.idx] = Low
  <2>1. high = {}
    BY <1>1, <1>4, <1>7, <1>8
  <2>2. top.idx = 0
    <3>1. s[0] = s[top.idx]
      BY <1>1, <1>4, <1>8 DEF IsBest, IsVector
    <3> QED  BY <1>1, <1>4, <3>1 DEF IsBest
  <2> QED  BY <1>5, <2>1, <2>2 DEF Combined
<1>9. CASE s[top.idx] # Low
  <2>1. high = {0}
    BY <1>1, <1>4, <1>6, <1>7, <1>9
  <2>2. (CHOOSE i \in high : \A j \in high : i <= j) = 0
    BY <2>1
  <2> QED  BY <1>5, <1>7, <2>1, <2>2 DEF Combined
<1> QED  BY <1>8, <1>9

-----------------------------------------------------------------------------
(* The inductive invariant *)

InJob == mpc \in {"share", "await", "blocked"}
Took(w) == wseen[w] = gen

(* The workers that have reported this job. *)
Reported == {w \in Workers : Took(w) /\ wpc[w] \in {"check", "wait"}}

(* The threads that have searched their slice of it. *)
Did(i) == IF i = 0 THEN mpc \in {"await", "blocked"} ELSE Took(i) /\ wpc[i] # "run"
Done == {i \in Slots : Did(i)}

(* What is there when the threads of D have searched their slices of s. *)
PartsOf(D, s, r, b) ==
  /\ DOMAIN r = RowsOf(s)
  /\ \A i \in Slots : \A x \in Slice(s, i) : r[x] = IF i \in D THEN 1 ELSE 0
  /\ \A i \in Slots : b[i] = IF i \in D THEN SlotOfThread(s, i) ELSE Cleared[i]

TypeOK ==
  /\ initialized \in BOOLEAN /\ shutdown \in BOOLEAN
  /\ gen \in 0 .. GenMod - 1 /\ done \in Nat
  /\ job \in Scores \cup {None}
  /\ best \in [Slots -> [idx : Nat, val : Int]]
  /\ mpc \in {"idle", "serial", "share", "await", "blocked", "join"}
  /\ wpc \in [Workers -> {"none", "check", "wait", "run", "report", "gone"}]
  /\ wseen \in [Workers -> 0 .. GenMod - 1]
  /\ wjob \in [Workers -> Scores \cup {None}]

(* Between jobs every worker has seen the last generation. *)
Resting ==
  /\ ~initialized => mpc = "idle" /\ \A w \in Workers : wpc[w] \in {"none", "gone"}
  /\ initialized /\ mpc \in {"idle", "serial"} =>
       \A w \in Workers : Took(w) /\ wpc[w] \in {"check", "wait"}
  /\ mpc = "serial" => job \in Scores /\ best = Cleared /\ ran = [r \in RowsOf(job) |-> 0]

Leaving ==
  /\ shutdown <=> mpc = "join"
  /\ mpc = "join" => \A w \in Workers : wpc[w] \in {"check", "gone"}

(* done counts the workers that have reported the job that is published. *)
Sharing == InJob =>
  /\ job \in Scores /\ NThreads > 1
  /\ done = Cardinality(Reported)
  /\ \A w \in Workers : wpc[w] \in {"check", "wait", "run", "report"}
  /\ \A w \in Workers : wpc[w] \in {"run", "report"} => Took(w) /\ wjob[w] = job

Searched == InJob => PartsOf(Done, job, ran, best)

Told == mpc \in {"idle", "join"} /\ result # None => \A r \in DOMAIN ran : ran[r] = 1

IInv == TypeOK /\ Resting /\ Leaving /\ Sharing /\ Searched /\ Told

-----------------------------------------------------------------------------
(* Lemmas of the steps *)

LEMMA Threads ==
  ASSUME PoolAssumption
  PROVE  /\ 0 \in Slots /\ Slots = {0} \cup Workers /\ 0 \notin Workers
         /\ Slots \in SUBSET Nat /\ IsFiniteSet(Workers) /\ Cardinality(Workers) = NWorkers
         /\ Cleared \in [Slots -> [idx : Nat, val : Int]]
<1>1. NThreads \in Nat \ {0} /\ Low \in Int
  BY DEF PoolAssumption
<1>2. IsFiniteSet(Workers) /\ Cardinality(Workers) = NWorkers
  BY <1>1, FS_Interval DEF Workers, NWorkers
<1> QED  BY <1>1, <1>2 DEF Slots, Workers, Cleared

(* The next generation is another one. *)
LEMMA NextGeneration ==
  ASSUME PoolAssumption, gen \in 0 .. GenMod - 1
  PROVE  (gen + 1) % GenMod \in 0 .. GenMod - 1 /\ (gen + 1) % GenMod # gen
<1>1. GenMod \in Nat /\ GenMod > 1 /\ gen \in Nat /\ gen < GenMod
  BY DEF PoolAssumption
<1>2. CASE gen + 1 = GenMod
  <2>1. (gen + 1) % GenMod = 0
    BY <1>1, <1>2
  <2> QED  BY <1>1, <1>2, <2>1
<1>3. CASE gen + 1 # GenMod
  <2>1. (gen + 1) % GenMod = gen + 1
    BY <1>1, <1>3
  <2> QED  BY <1>1, <1>3, <2>1
<1> QED  BY <1>2, <1>3

(* The caller's slice is never empty. *)
LEMMA CallersSlice ==
  ASSUME PoolAssumption, NEW s \in Scores
  PROVE  Slice(s, 0) # {}
<1>1. PerThread(s) \in Nat \ {0}
  BY PerThreadCovers
<1>2. 0 \in RowsOf(s)
  BY DEF PoolAssumption, IsVector, RowsOf
<1>3. 0 \in Slice(s, 0)
  BY <1>1, <1>2 DEF Slice
<1> QED  BY <1>3

(* One thread more has searched its slice. *)
LEMMA OnePartMore ==
  ASSUME PoolAssumption, NEW s \in Scores, best \in [Slots -> [idx : Nat, val : Int]],
         NEW D, PartsOf(D, s, ran, best), NEW i \in Slots, i \notin D,
         \/ Slice(s, i) # {} /\ Search(s, Slice(s, i))
         \/ Slice(s, i) = {} /\ UNCHANGED <<best, ran>>
  PROVE  PartsOf(D \cup {i}, s, ran', best') /\ best' \in [Slots -> [idx : Nat, val : Int]]
<1>1. CASE Slice(s, i) # {} /\ Search(s, Slice(s, i))
  <2>1. SlotOf(s, Slice(s, i)) = i
    BY <1>1, SlotIsOwn
  <2>2. SlotOfThread(s, i) = BestOf(s, Slice(s, i))
    BY <1>1 DEF SlotOfThread
  <2>3. best' = [best EXCEPT ![i] = SlotOfThread(s, i)]
    BY <1>1, <2>1, <2>2 DEF Search
  <2>4. best' \in [Slots -> [idx : Nat, val : Int]]
    BY <2>3, SlotOfThreadType
  <2>5. DOMAIN ran' = RowsOf(s)
    BY <1>1 DEF Search, PartsOf
  <2>6. ASSUME NEW j \in Slots, NEW x \in Slice(s, j)
        PROVE  ran'[x] = IF j \in D \cup {i} THEN 1 ELSE 0
    <3>1. x \in DOMAIN ran
      BY SliceRows DEF PartsOf, RowsOf
    <3>2. ran'[x] = IF x \in Slice(s, i) THEN ran[x] + 1 ELSE ran[x]
      BY <1>1, <3>1 DEF Search
    <3>3. x \in Slice(s, i) <=> j = i
      BY SlicesApart
    <3>4. ran[x] = IF j \in D THEN 1 ELSE 0
      BY DEF PartsOf
    <3> QED  BY <3>2, <3>3, <3>4
  <2>7. ASSUME NEW j \in Slots
        PROVE  best'[j] = IF j \in D \cup {i} THEN SlotOfThread(s, j) ELSE Cleared[j]
    BY <2>3 DEF PartsOf
  <2> QED  BY <2>4, <2>5, <2>6, <2>7 DEF PartsOf
<1>2. CASE Slice(s, i) = {} /\ UNCHANGED <<best, ran>>
  <2>1. SlotOfThread(s, i) = Cleared[i]
    BY <1>2 DEF SlotOfThread, Cleared
  <2> QED  BY <1>2, <2>1 DEF PartsOf
<1> QED  BY <1>1, <1>2

(* When all threads have, every row was searched once and the first best   *)
(* row is found.                                                           *)
LEMMA AllParts ==
  ASSUME PoolAssumption, NEW s \in Scores, best \in [Slots -> [idx : Nat, val : Int]],
         PartsOf(Slots, s, ran, best)
  PROVE  Combined(best) = Abstract!Best(s) /\ \A r \in DOMAIN ran : ran[r] = 1
<1>1. Combined(best) = Abstract!Best(s)
  BY CombinedIsBest DEF PartsOf
<1>2. ASSUME NEW r \in DOMAIN ran PROVE ran[r] = 1
  <2>1. PICK i \in Slots : r \in Slice(s, i)
    BY SlicesCover DEF PartsOf, RowsOf
  <2> QED  BY <2>1 DEF PartsOf
<1> QED  BY <1>1, <1>2

(* A caller that need not wait any more has all parts. *)
LEMMA AllReported ==
  ASSUME PoolAssumption, IInv, mpc = "await", done >= NWorkers
  PROVE  Reported = Workers /\ Done = Slots
<1>1. Reported \in SUBSET Workers /\ Cardinality(Reported) >= Cardinality(Workers)
  BY Threads DEF IInv, Sharing, InJob, Reported
<1>2. Reported = Workers
  BY <1>1, Threads, FS_Subset, FS_CardinalityType
<1> QED  BY <1>2, Threads DEF Reported, Done, Did

(* One thread alone searches every row once. *)
LEMMA Alone ==
  ASSUME PoolAssumption, IInv, SerialRun
  PROVE  /\ best' \in [Slots -> [idx : Nat, val : Int]]
         /\ Combined(best') = Abstract!Best(job)
         /\ \A r \in DOMAIN ran' : ran'[r] = 1
<1>1. job \in Scores /\ best = Cleared /\ ran = [r \in RowsOf(job) |-> 0]
  BY DEF IInv, Resting, SerialRun
<1>2. best' = [Cleared EXCEPT ![SlotOf(job, RowsOf(job))] = BestOf(job, RowsOf(job))]
  BY <1>1 DEF SerialRun, Search
<1>3. BestOf(job, RowsOf(job)) \in [idx : Nat, val : Int]
  <2>1. DOMAIN job # {}
    BY <1>1, WholeBest
  <2> QED  BY <1>1, <2>1, BestOfIsBest DEF PoolAssumption, RowsOf
<1>4. best' \in [Slots -> [idx : Nat, val : Int]]
  BY <1>2, <1>3, Threads
<1>5. Combined(best') = Abstract!Best(job)
  BY <1>1, <1>2, <1>4, SerialIsBest
<1>6. \A r \in DOMAIN ran' : ran'[r] = 1
  BY <1>1 DEF SerialRun, Search
<1> QED  BY <1>4, <1>5, <1>6

-----------------------------------------------------------------------------
(* The invariant holds initially and every step keeps it *)

LEMMA InitHolds ==
  ASSUME PoolAssumption PROVE Init => IInv
<1> SUFFICES ASSUME Init PROVE IInv
  OBVIOUS
<1>1. TypeOK
  <2>1. 0 \in 0 .. GenMod - 1 /\ Cleared \in [Slots -> [idx : Nat, val : Int]]
    BY Threads DEF PoolAssumption
  <2> QED  BY <2>1 DEF Init, TypeOK
<1>2. Resting /\ Leaving /\ Sharing /\ Searched /\ Told
  BY DEF Init, Resting, Leaving, Sharing, Searched, Told, InJob
<1> QED  BY <1>1, <1>2 DEF IInv

(* Steps of the caller: to publish a job, or search all of it alone. *)
LEMMA CallHolds ==
  ASSUME PoolAssumption, IInv, NEW s \in Scores, CallSerial(s) \/ CallParallel(s)
  PROVE  IInv'
<1>1. CASE CallSerial(s)
  <2>1. TypeOK'
    BY <1>1, Threads DEF IInv, TypeOK, CallSerial, workers
  <2>2. (Resting /\ Leaving /\ Sharing /\ Searched /\ Told)'
    BY <1>1 DEF IInv, CallSerial, workers, Resting, Leaving, Sharing, Searched, Told, InJob, Took
  <2> QED  BY <2>1, <2>2 DEF IInv
<1>2. CASE CallParallel(s)
  <2>1. gen' \in 0 .. GenMod - 1 /\ gen' # gen
    BY <1>2, NextGeneration DEF CallParallel, IInv, TypeOK
  <2>2. TypeOK'
    BY <1>2, <2>1, Threads DEF IInv, TypeOK, CallParallel, Broadcast
  <2>3. \A w \in Workers : wseen'[w] # gen' /\ wpc'[w] = "check"
    BY <1>2, <2>1 DEF CallParallel, Broadcast, IInv, Resting, Took
  <2>4. Reported' = {} /\ Done' = {}
    BY <1>2, <2>3, Threads DEF Reported, Done, Did, Took, CallParallel
  <2>5. Resting' /\ Leaving'
    BY <1>2 DEF CallParallel, IInv, Resting, Leaving
  <2>6. Sharing'
    <3>1. Cardinality({}) = 0
      BY FS_EmptySet
    <3> QED  BY <1>2, <2>3, <2>4, <3>1 DEF CallParallel, Sharing, InJob
  <2>7. Searched'
    <3>1. ASSUME NEW i \in Slots, NEW x \in Slice(s, i) PROVE ran'[x] = 0
      BY <1>2 DEF CallParallel, Slice
    <3> QED  BY <1>2, <2>4, <3>1 DEF CallParallel, Searched, PartsOf
  <2>8. Told'
    BY <1>2 DEF CallParallel, Told
  <2> QED  BY <2>2, <2>5, <2>6, <2>7, <2>8 DEF IInv
<1> QED  BY <1>1, <1>2

LEMMA SerialRunHolds ==
  ASSUME PoolAssumption, IInv, SerialRun
  PROVE  IInv'
<1>1. TypeOK'
  BY Alone DEF IInv, TypeOK, SerialRun, pool, workers
<1>2. (Resting /\ Leaving /\ Sharing /\ Searched)'
  BY DEF IInv, SerialRun, pool, workers, Resting, Leaving, Sharing, Searched, InJob, Took
<1>3. Told'
  BY Alone DEF Told
<1> QED  BY <1>1, <1>2, <1>3 DEF IInv

LEMMA CallerShareHolds ==
  ASSUME PoolAssumption, IInv, CallerShare
  PROVE  IInv'
<1>1. job \in Scores /\ PartsOf(Done, job, ran, best) /\ 0 \notin Done
  BY DEF CallerShare, IInv, Sharing, Searched, InJob, Done, Did
<1>2. Done' = Done \cup {0}
  BY Threads DEF CallerShare, Done, Did, Took, pool, workers
<1>3. PartsOf(Done \cup {0}, job, ran', best') /\ best' \in [Slots -> [idx : Nat, val : Int]]
  BY <1>1, Threads, CallersSlice, OnePartMore DEF CallerShare, IInv, TypeOK
<1>4. TypeOK'
  BY <1>3 DEF IInv, TypeOK, CallerShare, pool, workers
<1>5. (Resting /\ Leaving /\ Told)'
  BY DEF CallerShare, pool, workers, IInv, Resting, Leaving, Told
<1>6. Sharing'
  <2>1. Reported' = Reported
    BY DEF CallerShare, pool, workers, Reported, Took
  <2> QED  BY <2>1 DEF CallerShare, pool, workers, IInv, Sharing, InJob, Took
<1>7. Searched'
  BY <1>2, <1>3 DEF Searched, CallerShare, pool
<1> QED  BY <1>4, <1>5, <1>6, <1>7 DEF IInv

LEMMA CallerWaitsHolds ==
  ASSUME PoolAssumption, IInv, CallerBlock \/ CallerWakes
  PROVE  IInv'
<1> USE DEF CallerBlock, CallerWakes, pool, workers
<1>1. Done' = Done /\ Reported' = Reported
  BY DEF Done, Did, Took, Reported
<1>2. TypeOK' /\ Resting' /\ Leaving' /\ Told'
  BY DEF IInv, TypeOK, Resting, Leaving, Told
<1>3. Sharing' /\ Searched'
  BY <1>1 DEF IInv, Sharing, Searched, InJob, Took
<1> QED  BY <1>2, <1>3 DEF IInv

LEMMA CallerReturnHolds ==
  ASSUME PoolAssumption, IInv, CallerReturn
  PROVE  IInv'
<1>1. Reported = Workers /\ Done = Slots
  BY AllReported DEF CallerReturn
<1>2. \A r \in DOMAIN ran : ran[r] = 1
  BY <1>1, AllParts DEF CallerReturn, IInv, Sharing, Searched, InJob, TypeOK
<1>3. TypeOK' /\ Leaving' /\ Told'
  BY <1>2 DEF CallerReturn, pool, workers, IInv, TypeOK, Leaving, Told
<1>4. Resting'
  BY <1>1 DEF CallerReturn, pool, workers, IInv, Resting, Reported, Took
<1>5. Sharing' /\ Searched'
  BY DEF CallerReturn, Sharing, Searched, InJob
<1> QED  BY <1>3, <1>4, <1>5 DEF IInv

-----------------------------------------------------------------------------
(* Steps of a worker *)

LEMMA WorkerWaitsHolds ==
  ASSUME PoolAssumption, IInv, NEW w \in Workers, WorkerWait(w) \/ WorkerWakes(w)
  PROVE  IInv'
<1> USE DEF WorkerWait, WorkerWakes, pool, caller
<1>1. /\ wpc[w] \in {"check", "wait"} /\ wpc'[w] \in {"check", "wait"}
      /\ \A v \in Workers : v # w => wpc'[v] = wpc[v]
      /\ mpc = "join" => FALSE
  BY DEF IInv, TypeOK, Leaving
<1>2. Done' = Done /\ Reported' = Reported
  BY <1>1, Threads DEF Done, Did, Took, Reported
<1>3. TypeOK'
  BY DEF IInv, TypeOK
<1>4. Resting' /\ Leaving' /\ Told'
  BY <1>1 DEF IInv, Resting, Leaving, Told, Took
<1>5. Sharing' /\ Searched'
  BY <1>1, <1>2 DEF IInv, Sharing, Searched, InJob, Took
<1> QED  BY <1>3, <1>4, <1>5 DEF IInv

LEMMA WorkerExitHolds ==
  ASSUME PoolAssumption, IInv, NEW w \in Workers, WorkerExit(w)
  PROVE  IInv'
<1> USE DEF WorkerExit, pool, caller
<1>1. mpc = "join"
  BY DEF IInv, Leaving
<1>2. TypeOK'
  BY DEF IInv, TypeOK
<1>3. Resting' /\ Leaving' /\ Told'
  BY <1>1 DEF IInv, TypeOK, Resting, Leaving, Told
<1>4. Sharing' /\ Searched'
  BY <1>1 DEF Sharing, Searched, InJob
<1> QED  BY <1>2, <1>3, <1>4 DEF IInv

LEMMA WorkerTakeHolds ==
  ASSUME PoolAssumption, IInv, NEW w \in Workers, WorkerTake(w)
  PROVE  IInv'
<1> USE DEF WorkerTake, pool, caller
<1>1. InJob
  BY DEF IInv, TypeOK, Resting, Leaving, InJob, Took
<1>2. /\ wpc'[w] = "run" /\ wseen'[w] = gen /\ wjob'[w] = job /\ wseen[w] # gen
      /\ \A v \in Workers : v # w => wpc'[v] = wpc[v] /\ wseen'[v] = wseen[v] /\ wjob'[v] = wjob[v]
  BY DEF IInv, TypeOK
<1>3. Done' = Done /\ Reported' = Reported
  BY <1>2, Threads DEF Done, Did, Took, Reported
<1>4. TypeOK'
  BY DEF IInv, TypeOK
<1>5. Resting' /\ Leaving' /\ Told'
  BY <1>1 DEF IInv, Resting, Leaving, Told, InJob
<1>6. Sharing' /\ Searched'
  BY <1>2, <1>3 DEF IInv, Sharing, Searched, InJob, Took
<1> QED  BY <1>4, <1>5, <1>6 DEF IInv

(* A worker that searches does so for the job that is published. *)
LEMMA RunsTheJob ==
  ASSUME IInv, NEW w \in Workers, wpc[w] \in {"run", "report"}
  PROVE  InJob /\ job \in Scores /\ Took(w) /\ wjob[w] = job
BY DEF IInv, TypeOK, Resting, Leaving, Sharing, InJob

LEMMA WorkerRunHolds ==
  ASSUME PoolAssumption, IInv, NEW w \in Workers, WorkerRun(w)
  PROVE  IInv'
<1> USE DEF WorkerRun, pool, caller
<1>1. InJob /\ job \in Scores /\ Took(w) /\ wjob[w] = job
  BY RunsTheJob
<1>2. wpc[w] = "run" /\ wpc'[w] = "report" /\ \A v \in Workers : v # w => wpc'[v] = wpc[v]
  BY DEF IInv, TypeOK
<1>3. Reported' = Reported
  BY <1>2 DEF Reported, Took
<1>4. w \in Slots /\ w \notin Done /\ Done' = Done \cup {w}
  BY <1>1, <1>2, Threads DEF Done, Did, Took
<1>5. PartsOf(Done \cup {w}, job, ran', best') /\ best' \in [Slots -> [idx : Nat, val : Int]]
  BY <1>1, <1>4, OnePartMore DEF IInv, TypeOK, Searched
<1>6. TypeOK'
  BY <1>5 DEF IInv, TypeOK
<1>7. Resting' /\ Leaving' /\ Told'
  BY <1>1 DEF IInv, Resting, Leaving, Told, InJob
<1>8. Sharing'
  BY <1>1, <1>2, <1>3 DEF IInv, Sharing, InJob, Took
<1>9. Searched'
  BY <1>4, <1>5 DEF Searched
<1> QED  BY <1>6, <1>7, <1>8, <1>9 DEF IInv

LEMMA WorkerReportHolds ==
  ASSUME PoolAssumption, IInv, NEW w \in Workers, WorkerReport(w)
  PROVE  IInv'
<1> USE DEF WorkerReport
<1>1. InJob /\ job \in Scores /\ Took(w) /\ wjob[w] = job
  BY RunsTheJob
<1>2. InJob' /\ (mpc' \in {"await", "blocked"} <=> mpc \in {"await", "blocked"})
  BY <1>1 DEF InJob
<1>3. /\ wpc[w] = "report" /\ wpc'[w] = "check"
      /\ \A v \in Workers : v # w => wpc'[v] = wpc[v] /\ wjob'[v] = wjob[v]
  BY DEF IInv, TypeOK
<1>4. Reported' = Reported \cup {w} /\ w \notin Reported /\ Done' = Done
  BY <1>1, <1>2, <1>3, Threads DEF Reported, Done, Did, Took
<1>5. Cardinality(Reported') = Cardinality(Reported) + 1
  <2>1. Reported \in SUBSET Workers /\ IsFiniteSet(Workers)
    BY Threads DEF Reported
  <2>2. IsFiniteSet(Reported)
    BY <2>1, FS_Subset
  <2> QED  BY <1>4, <2>2, FS_AddElement
<1>6. TypeOK'
  BY <1>1, <1>2 DEF IInv, TypeOK, InJob
<1>7. Resting' /\ Leaving' /\ Told'
  BY <1>1, <1>2 DEF IInv, Resting, Leaving, Told, InJob
<1>8. Sharing'
  BY <1>1, <1>2, <1>3, <1>5 DEF IInv, Sharing, Took
<1>9. Searched'
  BY <1>1, <1>4 DEF IInv, Searched
<1> QED  BY <1>6, <1>7, <1>8, <1>9 DEF IInv

-----------------------------------------------------------------------------
(* Start and end of the pool *)

LEMMA LifecycleHolds ==
  ASSUME PoolAssumption, IInv, ThreadsInit \/ Shutdown \/ Joined
  PROVE  IInv'
<1>0. 0 \in 0 .. GenMod - 1
  BY DEF PoolAssumption
<1>1. CASE ThreadsInit
  <2>1. TypeOK'
    BY <1>0, <1>1 DEF ThreadsInit, caller, IInv, TypeOK
  <2>2. (Resting /\ Leaving /\ Sharing /\ Searched /\ Told)'
    BY <1>1 DEF ThreadsInit, caller, IInv, Resting, Leaving, Sharing, Searched, Told, InJob, Took
  <2> QED  BY <2>1, <2>2 DEF IInv
<1>2. CASE Shutdown
  <2>1. gen' \in 0 .. GenMod - 1
    BY <1>2, NextGeneration DEF Shutdown, IInv, TypeOK
  <2>2. TypeOK'
    BY <1>2, <2>1 DEF Shutdown, Broadcast, IInv, TypeOK
  <2>3. \A w \in Workers : wpc'[w] = "check"
    BY <1>2 DEF Shutdown, Broadcast, IInv, Resting
  <2>4. (Resting /\ Leaving /\ Sharing /\ Searched /\ Told)'
    BY <1>2, <2>3 DEF Shutdown, IInv, Resting, Leaving, Sharing, Searched, Told, InJob
  <2> QED  BY <2>2, <2>4 DEF IInv
<1>3. CASE Joined
  <2>1. TypeOK'
    BY <1>0, <1>3 DEF Joined, workers, IInv, TypeOK
  <2>2. (Resting /\ Leaving /\ Sharing /\ Searched /\ Told)'
    BY <1>3 DEF Joined, workers, IInv, Resting, Leaving, Sharing, Searched, Told, InJob
  <2> QED  BY <2>1, <2>2 DEF IInv
<1> QED  BY <1>1, <1>2, <1>3

LEMMA NextHolds ==
  ASSUME PoolAssumption PROVE IInv /\ [Next]_vars => IInv'
<1> SUFFICES ASSUME IInv, [Next]_vars PROVE IInv'
  OBVIOUS
<1>1. CASE UNCHANGED vars
  BY <1>1 DEF vars, pool, caller, workers, IInv, TypeOK, Resting, Leaving, Sharing, Searched, Told,
              InJob, Took, Reported, Done, Did
<1>2. CASE ThreadsInit \/ Shutdown \/ Joined
  BY <1>2, LifecycleHolds
<1>3. ASSUME NEW s \in Scores, CallSerial(s) \/ CallParallel(s) PROVE IInv'
  BY <1>3, CallHolds
<1>4. CASE SerialRun \/ CallerShare \/ CallerBlock \/ CallerReturn \/ CallerWakes
  BY <1>4, SerialRunHolds, CallerShareHolds, CallerWaitsHolds, CallerReturnHolds
<1>5. ASSUME NEW w \in Workers, WorkerStep(w) \/ WorkerWakes(w) PROVE IInv'
  BY <1>5, WorkerWaitsHolds, WorkerExitHolds, WorkerTakeHolds, WorkerRunHolds, WorkerReportHolds DEF WorkerStep
<1> QED  BY <1>1, <1>2, <1>3, <1>4, <1>5 DEF Next, CallerStep

-----------------------------------------------------------------------------
(* The invariant of the pool, from which the rest follows. *)
THEOREM PoolInvariant ==
  ASSUME PoolAssumption PROVE Spec => []IInv
<1>1. Init => IInv
  BY InitHolds
<1>2. IInv /\ [Next]_vars => IInv'
  BY NextHolds
<1> QED  BY <1>1, <1>2, PTL DEF Spec

(* The context of a job is on its caller's stack: no worker touches it     *)
(* after the call returned, however late it was scheduled.                 *)
THEOREM JobLives ==
  ASSUME PoolAssumption PROVE Spec => []JobAlive
<1>1. IInv => JobAlive
  BY RunsTheJob DEF JobAlive, InJob, Took
<1> QED  BY <1>1, PoolInvariant, PTL

(* However many threads there are and however they are scheduled, a call   *)
(* returns with each row searched once.                                    *)
THEOREM EveryRowOnce ==
  ASSUME PoolAssumption PROVE Spec => []RowsOnce
<1>1. IInv => RowsOnce
  BY DEF IInv, Told, RowsOnce
<1> QED  BY <1>1, PoolInvariant, PTL

(* What a call is told is the first best row of the vector it asked about: *)
(* the pool computes what one thread would, step for step.                 *)
THEOREM AnswersAsOne ==
  ASSUME PoolAssumption PROVE Spec => Abstract!Answers
<1> DEFINE request == IF InCall THEN job ELSE None
<1>1. Init => Abstract!Init
  BY DEF Init, Abstract!Init, InCall
<1>2. ASSUME IInv, [Next]_vars PROVE [Abstract!Next]_<<request, result>>
  <2>1. IInv'
    BY <1>2, NextHolds
  <2>2. ASSUME NEW s \in Scores, CallSerial(s) \/ CallParallel(s) PROVE Abstract!Ask(s)
    BY <2>2 DEF Abstract!Ask, CallSerial, CallParallel, InCall
  <2>3. CASE SerialRun
    <3>1. result' = Abstract!Best(job) /\ job \in Scores
      BY <1>2, <2>3, Alone DEF SerialRun, IInv, Resting
    <3> QED  BY <2>3, <3>1 DEF Abstract!Reply, Abstract!Next, SerialRun, InCall, PoolAssumption
  <2>4. CASE CallerReturn
    <3>1. result' = Abstract!Best(job) /\ job \in Scores
      BY <1>2, <2>4, AllReported, AllParts DEF CallerReturn, IInv, Sharing, Searched, InJob, TypeOK
    <3> QED  BY <2>4, <3>1 DEF Abstract!Reply, Abstract!Next, CallerReturn, InCall, PoolAssumption
  <2>5. CASE UNCHANGED vars \/ ThreadsInit \/ Shutdown \/ Joined \/ CallerShare \/ CallerBlock \/ CallerWakes
    BY <2>5 DEF vars, pool, caller, workers, ThreadsInit, Shutdown, Joined, CallerShare, CallerBlock,
                CallerWakes, InCall
  <2>6. ASSUME NEW w \in Workers, WorkerStep(w) \/ WorkerWakes(w) PROVE UNCHANGED <<request, result>>
    BY <2>6 DEF WorkerStep, WorkerWait, WorkerWakes, WorkerExit, WorkerTake, WorkerRun, WorkerReport,
                pool, caller, InCall
  <2> QED  BY <1>2, <2>2, <2>3, <2>4, <2>5, <2>6 DEF Next, CallerStep, Abstract!Next
<1>3. Spec => [][Abstract!Next]_<<request, result>>
  BY <1>2, PoolInvariant, PTL DEF Spec
<1> QED  BY <1>1, <1>3, PTL DEF Spec, Abstract!Answers

=============================================================================

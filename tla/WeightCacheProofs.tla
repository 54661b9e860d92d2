-------------------------- MODULE WeightCacheProofs --------------------------
(***************************************************************************)
(* Theorems about WeightCache, for every pair of model files, every layout *)
(* of their tensors, every number and size of arenas and pinned buffers,   *)
(* and whatever reads, copies and allocations fail.                        *)
(***************************************************************************)
EXTENDS WeightCache, SequenceTheorems, WellFoundedInduction, TLAPS

Streaming == upload.step \in {"read", "copy"}
Length(r) == r.end - r.off

Ranged ==
  [map : Files, off : Nat, end : Nat, how : {"arena"}, arena : Nat, at : Nat]
  \cup [map : Files, off : Nat, end : Nat, how : {"own"}]
Entries ==
  [kind : {"copy"}, buf : 0 .. StageBuffers - 1, arena : Nat, at : Nat]
  \cup [kind : {"mark"}, buf : 0 .. StageBuffers - 1]
Streams == [map : Files, off : Nat, end : Nat, step : {"read", "copy"}, k : Nat, arena : Nat, at : Nat]
Fallbacks == [map : Files, off : Nat, end : Nat, step : {"fallback"}]

WeightTyped ==
  /\ used \in Seq(0 .. ArenaUnits) /\ Len(used) <= MaxArenas
  /\ DOMAIN device = 1 .. MaxArenas
  /\ \A a \in 1 .. MaxArenas : DOMAIN device[a] = 0 .. ArenaUnits - 1
  /\ DOMAIN stage = 0 .. StageBuffers - 1
  /\ ranges \in Seq(Ranged) /\ flight \in Seq(Entries)
  /\ upload \in {NoUpload} \cup Fallbacks \cup Streams

(* A range that was recorded lies in what its arena gave out, and holds    *)
(* its bytes.                                                              *)
RangeSound(r) ==
  /\ r.off < r.end
  /\ r.how = "arena" =>
       /\ r.arena \in DOMAIN used /\ r.at + Length(r) <= used[r.arena]
       /\ \A j \in 0 .. Length(r) - 1 : device[r.arena][r.at + j] = <<r.map, r.off + j>>
RangesSound == \A i \in DOMAIN ranges : RangeSound(ranges[i])

(* The upload fills the last units its arena gave out, behind every range  *)
(* that was recorded there.                                                *)
Behind(r) == r.how = "arena" /\ r.arena = upload.arena => r.at + Length(r) <= upload.at
UploadSound ==
  /\ ~Uploading("none") => upload.off < upload.end
  /\ Streaming =>
       /\ upload.map = fd /\ upload.arena \in DOMAIN used
       /\ upload.at + Length(upload) = used[upload.arena]
       /\ upload.k <= Length(upload) /\ (upload.step = "copy" => upload.k < Length(upload))
       /\ \A i \in DOMAIN ranges : Behind(ranges[i])

(* No copy that is still in flight will hit a range that was recorded: the *)
(* copies of an upload that was given up go where nothing is found.        *)
Misses(f, r) == r.how = "arena" /\ r.arena = f.arena => f.at < r.at \/ r.at + Length(r) <= f.at
EntrySound(f) ==
  f.kind = "copy" => /\ f.arena \in DOMAIN used /\ f.at < used[f.arena]
                     /\ \A i \in DOMAIN ranges : Misses(f, ranges[i])
FlightSound == \A i \in DOMAIN flight : EntrySound(flight[i])

(* A copy of the upload itself still finds its unit in the pinned buffer,  *)
(* and an event behind it keeps the buffer from being used again.          *)
Ours(f) == f.kind = "copy" /\ f.arena = upload.arena /\ upload.at <= f.at
Guarded(i) == \E l \in DOMAIN flight : i < l /\ flight[l].kind = "mark" /\ flight[l].buf = flight[i].buf
Intact(f) == LET j == f.at - upload.at IN
  j < upload.k /\ f.buf = j % StageBuffers /\ stage[f.buf] = <<upload.map, upload.off + j>>
Arrived(j) == \/ device[upload.arena][upload.at + j] = <<upload.map, upload.off + j>>
              \/ \E i \in DOMAIN flight : Ours(flight[i]) /\ flight[i].at = upload.at + j
StreamSound == Streaming =>
  /\ \A i \in DOMAIN flight : Ours(flight[i]) => Intact(flight[i]) /\ Guarded(i)
  /\ \A j \in 0 .. upload.k - 1 : Arrived(j)
  /\ upload.step = "copy" => stage[Buf] = <<upload.map, upload.off + upload.k>>

MemorySound == WeightTyped /\ RangesSound /\ UploadSound /\ FlightSound /\ StreamSound

(* The descriptor reads the file it was set for, and is set before the     *)
(* first file is prepared.                                                 *)
FdSound ==
  /\ fd \in Files /\ fdBase \in Files \cup {NoFile}
  /\ fdBase = NoFile => fd = Target /\ ~opened /\ here \in 1 .. 2
  /\ fdBase # NoFile => fd = fdBase

(* How far the start has come: the file registered last is on the device   *)
(* up to the offset its preparation stands at, and then as a whole; no     *)
(* tensor begins in the span on its way and ends behind it.                *)
ReadyTo(c) == \A t \in Prepared(base) : t.off < c => IsCached(base, t.off, t.end)
Ready == \A t \in Prepared(base) : IsCached(base, t.off, t.end)
Inside(t, off, end) == off <= t.off /\ t.end <= end
StartSound ==
  /\ startup \in Startups /\ here \in Nat /\ from \in Nat /\ opened \in BOOLEAN
  /\ opened => here # 0 /\ base \in Files /\ Ready
  /\ ~opened => here <= Len(startup)
  /\ ~opened /\ here \in {3, 4, 6, 7} => base = File
  /\ ~opened /\ here \in {4, 7} => ReadyTo(from)
  /\ ~opened /\ here \in {5, 8, 9} => base \in Files /\ Ready
  /\ ~opened /\ ~Uploading("none") =>
       /\ here \in {4, 7} /\ upload.map = base
       /\ \A t \in Prepared(base) :
            from <= t.off /\ t.off < upload.end => Inside(t, upload.off, upload.end)

WeightInv == MemorySound /\ FdSound /\ StartSound

-----------------------------------------------------------------------------
(* Least and greatest members *)

(* The least of some naturals is one of them.                              *)
LEMMA MinOfNats ==
  ASSUME NEW S \in SUBSET Nat, S # {}
  PROVE  Min(S) \in S /\ \A y \in S : Min(S) <= y
<1>1. PICK n \in S : \A m \in S : ~(<<m, n>> \in OpToRel(<, Nat))
  BY NatLessThanWellFounded, WFMin
<1>2. \A m \in S : ~(m < n)
  BY <1>1 DEF OpToRel
<1>3. \A m \in S : n <= m
  BY <1>2
<1> QED  BY <1>3 DEF Min

(* Naturals that stay under a bound have a greatest.                       *)
LEMMA MaxOfNats ==
  ASSUME NEW S \in SUBSET Nat, S # {}, NEW b \in Nat, \A y \in S : y <= b
  PROVE  Max(S) \in S /\ \A y \in S : y <= Max(S)
<1> DEFINE T == {b - y : y \in S}
<1>1. T \in SUBSET Nat /\ T # {}
  <2>1. \A y \in S : b - y \in Nat
    OBVIOUS
  <2> QED  BY <2>1
<1> HIDE DEF T
<1>2. Min(T) \in T /\ \A y \in T : Min(T) <= y
  BY <1>1, MinOfNats
<1>3. PICK x \in S : Min(T) = b - x
  BY <1>2 DEF T
<1>4. \A y \in S : b - x <= b - y
  BY <1>2, <1>3 DEF T
<1>5. \A y \in S : x >= y
  BY <1>4
<1>6. Max(S) \in S /\ \A y \in S : Max(S) >= y
  BY <1>5 DEF Max
<1> QED  BY <1>6

LEMMA Modulus ==
  ASSUME NEW k \in Nat, NEW n \in Nat \ {0}
  PROVE  k % n \in 0 .. n - 1 /\ (k < n => k % n = k)
OBVIOUS

-----------------------------------------------------------------------------
(* Sequences *)

LEMMA Appended ==
  ASSUME NEW S, NEW s \in Seq(S), NEW e \in S
  PROVE  /\ Append(s, e) \in Seq(S) /\ Len(s) \in Nat /\ Len(Append(s, e)) = Len(s) + 1
         /\ DOMAIN s = 1 .. Len(s) /\ DOMAIN Append(s, e) = 1 .. Len(s) + 1
         /\ Append(s, e)[Len(s) + 1] = e
         /\ \A i \in 1 .. Len(s) : Append(s, e)[i] = s[i]
BY AppendProperties, LenProperties

LEMMA Tailed ==
  ASSUME NEW S, NEW s \in Seq(S), s # <<>>
  PROVE  /\ Head(s) = s[1] /\ Len(s) \in Nat \ {0} /\ DOMAIN s = 1 .. Len(s)
         /\ Tail(s) \in Seq(S) /\ DOMAIN Tail(s) = 1 .. Len(s) - 1
         /\ \A i \in 1 .. Len(s) - 1 : Tail(s)[i] = s[i + 1]
<1>1. Len(s) \in Nat /\ DOMAIN s = 1 .. Len(s) /\ Len(s) # 0
  BY LenProperties, EmptySeq
<1>2. /\ Head(s) \in S /\ Tail(s) \in Seq(S) /\ Len(Tail(s)) = Len(s) - 1
      /\ \A i \in 1 .. Len(s) - 1 : Tail(s)[i] = s[i + 1]
  BY HeadTailProperties, <1>1
<1>3. DOMAIN Tail(s) = 1 .. Len(s) - 1
  BY <1>2, LenProperties
<1>4. Head(s) = s[1]
  OBVIOUS
<1> QED  BY <1>1, <1>2, <1>3, <1>4

LEMMA Nothing ==
  ASSUME NEW S
  PROVE  <<>> \in Seq(S) /\ DOMAIN <<>> = {} /\ Len(<<>>) = 0
<1>1. <<>> \in Seq(S) /\ Len(<<>>) = 0
  BY EmptySeq
<1>2. DOMAIN <<>> = 1 .. Len(<<>>)
  BY <1>1, LenProperties
<1> QED  BY <1>1, <1>2

-----------------------------------------------------------------------------
(* Steps of the arenas, the buffers and the upload stream *)

LEMMA MemoryInit ==
  ASSUME WeightAssumption, WeightInit
  PROVE  MemorySound
<1> USE DEF WeightInit, Junk, Fresh, NoUpload, Uploading, Streaming
<1>1. /\ ranges \in Seq(Ranged) /\ flight \in Seq(Entries) /\ used \in Seq(0 .. ArenaUnits)
      /\ DOMAIN ranges = {} /\ DOMAIN flight = {} /\ Len(used) = 0
  BY Nothing
<1>2. WeightTyped
  BY <1>1 DEF WeightTyped, WeightAssumption
<1>3. ~Streaming /\ Uploading("none")
  OBVIOUS
<1> QED  BY <1>1, <1>2, <1>3 DEF MemorySound, RangesSound, UploadSound, FlightSound, StreamSound

(* A step that touches none of it. *)
LEMMA MemoryKept ==
  ASSUME MemorySound, UNCHANGED <<ranges, used, device, stage, flight, upload>>,
         Uploading("none") \/ fd' = fd
  PROVE  MemorySound'
<1> USE DEF MemorySound, Streaming, Length, Uploading
<1>1. WeightTyped'
  BY DEF WeightTyped, NoUpload, Fallbacks, Streams, Ranged, Entries
<1>2. RangesSound'
  BY DEF RangesSound, RangeSound
<1>3. UploadSound'
  BY DEF UploadSound, Behind
<1>4. FlightSound'
  BY DEF FlightSound, EntrySound, Misses
<1>5. StreamSound'
  BY DEF StreamSound, Ours, Guarded, Intact, Arrived, Buf
<1> QED  BY <1>1, <1>2, <1>3, <1>4, <1>5

(* The ranges of a model are freed, and with them the arenas. *)
LEMMA MemoryFreed ==
  ASSUME WeightAssumption, MemorySound, Uploading("none"), upload' = upload,
         ranges' = <<>>, used' = <<>>, device' = Fresh, flight' = <<>>, DOMAIN stage' = 0 .. StageBuffers - 1
  PROVE  MemorySound'
<1> USE DEF Streaming, Uploading
<1>1. /\ ranges' \in Seq(Ranged) /\ flight' \in Seq(Entries) /\ used' \in Seq(0 .. ArenaUnits)
      /\ DOMAIN ranges' = {} /\ DOMAIN flight' = {} /\ Len(used') = 0
  BY Nothing
<1>2. DOMAIN device' = 1 .. MaxArenas /\ \A a \in 1 .. MaxArenas : DOMAIN device'[a] = 0 .. ArenaUnits - 1
  BY DEF Fresh
<1>3. WeightTyped'
  BY <1>1, <1>2 DEF WeightTyped, WeightAssumption, MemorySound, NoUpload, Fallbacks, Streams, Ranged, Entries
<1>4. ~Streaming' /\ Uploading("none")'
  OBVIOUS
<1> QED  BY <1>1, <1>3, <1>4 DEF MemorySound, RangesSound, UploadSound, FlightSound, StreamSound

(* What a lookup may do to the arenas and the upload: nothing, give up the *)
(* arenas at once, or take room at the end of one.                         *)
Taken(m, off, end, a, at) ==
  /\ upload' = [map |-> m, off |-> off, end |-> end, step |-> "read", k |-> 0, arena |-> a, at |-> at]
  /\ a \in 1 .. Len(used') /\ at \in Nat /\ at + (end - off) = used'[a]
  /\ \A b \in DOMAIN used : b \in DOMAIN used' /\ used[b] <= used'[b]
  /\ a \in DOMAIN used => used[a] = at

LEMMA LookupShape ==
  ASSUME WeightAssumption, WeightTyped, Uploading("none"),
         NEW m \in Files, NEW off \in Nat, NEW end \in Nat, off < end, end - off <= ArenaUnits,
         Lookup(m, off, end)
  PROVE  /\ used' \in Seq(0 .. ArenaUnits) /\ Len(used') <= MaxArenas
         /\ \/ UNCHANGED <<used, upload>>
            \/ UNCHANGED used /\ upload' = [map |-> m, off |-> off, end |-> end, step |-> "fallback"]
            \/ fdBase \in {NoFile, m} /\ \E a, at \in Nat : Taken(m, off, end, a, at)
<1> DEFINE need == end - off
           room == {a \in DOMAIN used : used[a] + need <= ArenaUnits}
<1>1. used \in Seq(0 .. ArenaUnits) /\ Len(used) \in Nat /\ DOMAIN used = 1 .. Len(used) /\ Len(used) <= MaxArenas
  BY LenProperties DEF WeightTyped
<1>2. \A a \in DOMAIN used : used[a] \in 0 .. ArenaUnits
  BY <1>1, ElementOfSeq
<1>3. need \in 1 .. ArenaUnits /\ room \in SUBSET Nat /\ ArenaUnits \in Nat /\ MaxArenas \in Nat
  BY <1>1 DEF WeightAssumption
<1>4. CASE UNCHANGED <<used, upload>>
  BY <1>1, <1>4
<1>5. CASE UNCHANGED used /\ upload' = [map |-> m, off |-> off, end |-> end, step |-> "fallback"]
  BY <1>1, <1>5
<1>6. CASE /\ fdBase \in {NoFile, m}
           /\ LET a == IF room # {} THEN Min(room) ELSE Len(used) + 1 IN
              /\ a <= MaxArenas
              /\ upload' = [map |-> m, off |-> off, end |-> end, step |-> "read", k |-> 0, arena |-> a,
                            at |-> IF room # {} THEN used[a] ELSE 0]
              /\ used' = IF room # {} THEN [used EXCEPT ![a] = @ + need] ELSE Append(used, need)
  <2>1. CASE room # {}
    <3> DEFINE a == Min(room)
    <3>1. a \in DOMAIN used /\ used[a] + need <= ArenaUnits
      BY <1>3, <2>1, MinOfNats
    <3> HIDE DEF a
    <3>2. /\ upload' = [map |-> m, off |-> off, end |-> end, step |-> "read", k |-> 0, arena |-> a, at |-> used[a]]
          /\ used' = [used EXCEPT ![a] = @ + need]
      BY <1>6, <2>1 DEF a
    <3>3. used[a] + need \in 0 .. ArenaUnits
      BY <1>2, <1>3, <3>1
    <3>4. used' \in Seq(0 .. ArenaUnits) /\ Len(used') = Len(used) /\ DOMAIN used' = DOMAIN used
      BY <1>1, <3>1, <3>2, <3>3, ExceptSeq
    <3>5. \A b \in DOMAIN used : used'[b] = IF b = a THEN used[a] + need ELSE used[b]
      BY <3>2
    <3>6. Taken(m, off, end, a, used[a])
      BY <1>1, <1>2, <1>3, <3>1, <3>2, <3>4, <3>5 DEF Taken
    <3>7. a \in Nat /\ used[a] \in Nat
      BY <1>1, <1>2, <3>1
    <3>8. \E b, at \in Nat : Taken(m, off, end, b, at)
      BY <3>6, <3>7
    <3> QED  BY <1>1, <1>6, <3>4, <3>8
  <2>2. CASE room = {}
    <3> DEFINE a == Len(used) + 1
    <3>1. /\ upload' = [map |-> m, off |-> off, end |-> end, step |-> "read", k |-> 0, arena |-> a, at |-> 0]
          /\ used' = Append(used, need) /\ a <= MaxArenas
      BY <1>6, <2>2
    <3>2. need \in 0 .. ArenaUnits
      BY <1>3
    <3>3. /\ used' \in Seq(0 .. ArenaUnits) /\ Len(used') = a /\ DOMAIN used' = 1 .. a /\ used'[a] = need
          /\ \A b \in 1 .. Len(used) : used'[b] = used[b]
      BY <1>1, <3>1, <3>2, Appended
    <3>4. Taken(m, off, end, a, 0)
      BY <1>1, <1>2, <1>3, <3>1, <3>3 DEF Taken
    <3>5. a \in Nat
      BY <1>1
    <3>6. \E b, at \in Nat : Taken(m, off, end, b, at)
      BY <3>4, <3>5
    <3> QED  BY <1>1, <1>6, <3>1, <3>3, <3>6
  <2> QED  BY <2>1, <2>2
<1> QED  BY <1>4, <1>5, <1>6 DEF Lookup

LEMMA MemoryLookup ==
  ASSUME WeightAssumption, MemorySound, Uploading("none"),
         NEW m \in Files, NEW off \in Nat, NEW end \in Nat, off < end, end - off <= ArenaUnits,
         fdBase \in {NoFile, m} => fd = m,
         Lookup(m, off, end), UNCHANGED <<fd, ranges, device, stage, flight>>
  PROVE  MemorySound'
<1> USE DEF Uploading
<1>1. WeightTyped /\ RangesSound /\ UploadSound /\ FlightSound /\ StreamSound
  BY DEF MemorySound
<1>2. /\ used' \in Seq(0 .. ArenaUnits) /\ Len(used') <= MaxArenas
      /\ \/ UNCHANGED <<used, upload>>
         \/ UNCHANGED used /\ upload' = [map |-> m, off |-> off, end |-> end, step |-> "fallback"]
         \/ fdBase \in {NoFile, m} /\ \E a, at \in Nat : Taken(m, off, end, a, at)
  BY <1>1, LookupShape
<1>4. \A b \in DOMAIN used : b \in DOMAIN used' /\ used[b] \in Nat /\ used'[b] \in Nat /\ used[b] <= used'[b]
  <2>1. \A b \in DOMAIN used : b \in DOMAIN used' /\ used[b] <= used'[b]
    <3>1. \A b \in DOMAIN used : used[b] \in Nat
      BY <1>1, ElementOfSeq, LenProperties DEF WeightTyped, WeightAssumption
    <3> QED  BY <1>2, <3>1 DEF Taken
  <2>2. \A b \in DOMAIN used : used[b] \in Nat
    BY <1>1, ElementOfSeq, LenProperties DEF WeightTyped, WeightAssumption
  <2>3. \A b \in DOMAIN used' : used'[b] \in Nat
    BY <1>2, ElementOfSeq, LenProperties DEF WeightAssumption
  <2> QED  BY <2>1, <2>2, <2>3
<1>5. WeightTyped'
  <2>1. upload' \in {NoUpload} \cup Fallbacks \cup Streams
    <3>1. CASE UNCHANGED upload
      BY <1>1, <3>1 DEF WeightTyped
    <3>2. CASE upload' = [map |-> m, off |-> off, end |-> end, step |-> "fallback"]
      BY <3>2 DEF Fallbacks
    <3>3. CASE \E a, at \in Nat : Taken(m, off, end, a, at)
      BY <3>3 DEF Taken, Streams
    <3> QED  BY <1>2, <3>1, <3>2, <3>3
  <2>2. NoUpload' = NoUpload /\ Fallbacks' = Fallbacks /\ Streams' = Streams /\ Ranged' = Ranged /\ Entries' = Entries
    BY DEF NoUpload, Fallbacks, Streams, Ranged, Entries
  <2> QED  BY <1>1, <1>2, <2>1, <2>2 DEF WeightTyped
<1>6. \A i \in DOMAIN ranges : ranges[i] \in Ranged
  BY <1>1, ElementOfSeq, LenProperties DEF WeightTyped
<1>7. RangesSound'
  <2> SUFFICES ASSUME NEW i \in DOMAIN ranges PROVE RangeSound(ranges[i])'
    BY DEF RangesSound
  <2>1. RangeSound(ranges[i]) /\ ranges'[i] = ranges[i]
    BY <1>1 DEF RangesSound
  <2>2. ASSUME ranges[i].how = "arena"
        PROVE  /\ ranges[i].arena \in DOMAIN used'
               /\ ranges[i].at + Length(ranges[i]) <= used'[ranges[i].arena]
    <3>1. ranges[i].arena \in DOMAIN used /\ ranges[i].at + Length(ranges[i]) <= used[ranges[i].arena]
      BY <2>1, <2>2 DEF RangeSound
    <3>2. ranges[i] \in Ranged
      BY <1>6
    <3>3. ranges[i].at \in Nat /\ Length(ranges[i]) \in Int
      BY <2>2, <3>2 DEF Ranged, Length
    <3>4. /\ ranges[i].arena \in DOMAIN used' /\ used[ranges[i].arena] \in Nat /\ used'[ranges[i].arena] \in Nat
          /\ used[ranges[i].arena] <= used'[ranges[i].arena]
      BY <1>4, <3>1
    <3> QED  BY <3>1, <3>3, <3>4
  <2> QED  BY <2>1, <2>2 DEF RangeSound, Length
<1>8. FlightSound'
  <2>1. \A i \in DOMAIN flight : flight[i] \in Entries
    BY <1>1, ElementOfSeq, LenProperties DEF WeightTyped
  <2> QED  BY <1>1, <1>4, <2>1 DEF FlightSound, EntrySound, Misses, Length, Entries
<1>9. CASE UNCHANGED <<used, upload>>
  BY <1>9, MemoryKept
<1>10. CASE upload' = [map |-> m, off |-> off, end |-> end, step |-> "fallback"]
  BY <1>5, <1>7, <1>8, <1>10 DEF MemorySound, UploadSound, StreamSound, Streaming
<1>11. CASE fdBase \in {NoFile, m} /\ \E a, at \in Nat : Taken(m, off, end, a, at)
  <2>1. PICK a \in Nat, at \in Nat : Taken(m, off, end, a, at)
    BY <1>11
  <2>2. /\ Streaming' /\ upload'.off = off /\ upload'.end = end /\ upload'.map = fd' /\ upload'.step = "read"
        /\ upload'.k = 0 /\ upload'.arena = a /\ upload'.at = at
    BY <1>11, <2>1 DEF Taken, Streaming
  <2>3. a \in DOMAIN used' /\ at + (end - off) = used'[a]
    BY <1>2, <2>1, LenProperties DEF Taken
  <2>4. \A i \in DOMAIN ranges : ranges[i].how = "arena" /\ ranges[i].arena = a =>
          ranges[i].at + Length(ranges[i]) <= at
    BY <1>1, <1>6, <2>1 DEF Taken, RangesSound, RangeSound
  <2>5. UploadSound'
    BY <2>2, <2>3, <2>4 DEF UploadSound, Behind, Length
  <2>6. \A i \in DOMAIN flight : ~Ours(flight[i])'
    <3>1. \A i \in DOMAIN flight : flight[i] \in Entries
      BY <1>1, ElementOfSeq, LenProperties DEF WeightTyped
    <3>2. \A i \in DOMAIN flight : flight[i].kind = "copy" /\ flight[i].arena = a => flight[i].at < at
      BY <1>1, <2>1 DEF Taken, FlightSound, EntrySound
    <3> QED  BY <2>2, <3>1, <3>2 DEF Ours, Entries
  <2>7. StreamSound'
    BY <2>2, <2>6 DEF StreamSound
  <2> QED  BY <1>5, <1>7, <1>8, <2>5, <2>7 DEF MemorySound
<1> QED  BY <1>2, <1>9, <1>10, <1>11

LEMMA MemoryTypes ==
  ASSUME WeightAssumption, MemorySound
  PROVE  /\ \A i \in DOMAIN ranges : ranges[i] \in Ranged
         /\ \A i \in DOMAIN flight : flight[i] \in Entries
         /\ \A a \in DOMAIN used : used[a] \in 0 .. ArenaUnits
         /\ DOMAIN used = 1 .. Len(used) /\ Len(used) \in Nat
         /\ Streaming => /\ upload \in Streams
                         /\ upload.off < upload.end /\ upload.k <= upload.end - upload.off
                         /\ upload.at + (upload.end - upload.off) = used[upload.arena]
                         /\ Buf \in 0 .. StageBuffers - 1
<1> USE DEF MemorySound
<1>1. ranges \in Seq(Ranged) /\ flight \in Seq(Entries) /\ used \in Seq(0 .. ArenaUnits)
  BY DEF WeightTyped
<1>2. /\ \A i \in DOMAIN ranges : ranges[i] \in Ranged
      /\ \A i \in DOMAIN flight : flight[i] \in Entries
      /\ \A a \in DOMAIN used : used[a] \in 0 .. ArenaUnits
      /\ DOMAIN used = 1 .. Len(used) /\ Len(used) \in Nat
  BY <1>1, ElementOfSeq, LenProperties
<1>3. ASSUME Streaming
      PROVE  /\ upload \in Streams
             /\ upload.off < upload.end /\ upload.k <= upload.end - upload.off
             /\ upload.at + (upload.end - upload.off) = used[upload.arena]
             /\ Buf \in 0 .. StageBuffers - 1
  <2>1. upload \in Streams
    BY <1>3 DEF WeightTyped, Streaming, NoUpload, Fallbacks
  <2>2. /\ upload.off < upload.end /\ upload.k <= upload.end - upload.off
        /\ upload.at + (upload.end - upload.off) = used[upload.arena]
    BY <1>3 DEF UploadSound, Uploading, Length, Streaming
  <2>3. upload.k \in Nat
    BY <2>1 DEF Streams
  <2>4. Buf \in 0 .. StageBuffers - 1
    BY <2>3, Modulus DEF Buf, WeightAssumption
  <2> QED  BY <2>1, <2>2, <2>4
<1> QED  BY <1>2, <1>3

(* An upload that is given up leaves what it was given, and whatever it    *)
(* has in flight, where no range is.                                       *)
LEMMA MemoryGivenUp ==
  ASSUME WeightAssumption, MemorySound, Streaming, GiveUp,
         UNCHANGED <<ranges, used, device>>, DOMAIN stage' = DOMAIN stage,
         flight' \in Seq(Entries), \A i \in DOMAIN flight' : EntrySound(flight'[i])
  PROVE  MemorySound'
<1>1. upload \in Streams /\ upload.off < upload.end
  BY MemoryTypes
<1>2. /\ upload' = [map |-> upload.map, off |-> upload.off, end |-> upload.end, step |-> "fallback"]
      /\ upload' \in Fallbacks
  BY <1>1 DEF GiveUp, Streams, Fallbacks
<1>3. ~Streaming' /\ upload'.off < upload'.end
  BY <1>1, <1>2 DEF Streaming
<1>4. WeightTyped'
  BY <1>2 DEF MemorySound, WeightTyped, NoUpload, Fallbacks, Streams, Ranged, Entries
<1>5. RangesSound'
  BY DEF MemorySound, RangesSound, RangeSound, Length
<1>6. FlightSound'
  BY DEF FlightSound, EntrySound, Misses, Length
<1> QED  BY <1>3, <1>4, <1>5, <1>6 DEF MemorySound, UploadSound, StreamSound

LEMMA MemoryReadStage ==
  ASSUME WeightAssumption, MemorySound, ReadStage
  PROVE  MemorySound'
<1> USE DEF Uploading
<1>1. Streaming /\ upload.step = "read" /\ upload.off + upload.k < upload.end
  BY DEF ReadStage, Streaming
<1>2. /\ upload \in Streams /\ Buf \in 0 .. StageBuffers - 1
      /\ \A i \in DOMAIN flight : flight[i] \in Entries
  BY <1>1, MemoryTypes
<1>3. DOMAIN stage = 0 .. StageBuffers - 1 /\ flight \in Seq(Entries)
  BY DEF MemorySound, WeightTyped
<1>4. UNCHANGED <<fd, ranges, used, device, flight>>
  BY DEF ReadStage
<1>5. CASE GiveUp /\ stage' \in {stage, [stage EXCEPT ![Buf] = Junk]}
  <2>1. DOMAIN stage' = DOMAIN stage
    BY <1>5
  <2>2. \A i \in DOMAIN flight' : EntrySound(flight'[i])
    BY <1>4 DEF MemorySound, FlightSound
  <2> QED  BY <1>1, <1>3, <1>4, <1>5, <2>1, <2>2, MemoryGivenUp
<1>6. CASE /\ Free(Buf)
           /\ stage' = [stage EXCEPT ![Buf] = <<fd, upload.off + upload.k>>]
           /\ upload' = [upload EXCEPT !.step = "copy"]
  <2>1. /\ upload'.map = upload.map /\ upload'.off = upload.off /\ upload'.end = upload.end
        /\ upload'.k = upload.k /\ upload'.arena = upload.arena /\ upload'.at = upload.at
        /\ upload'.step = "copy" /\ upload' \in Streams
    BY <1>2, <1>6 DEF Streams
  <2>2. WeightTyped'
    BY <1>3, <1>4, <1>6, <2>1 DEF MemorySound, WeightTyped, NoUpload, Fallbacks, Streams, Ranged, Entries
  <2>3. RangesSound'
    BY <1>4 DEF MemorySound, RangesSound, RangeSound, Length
  <2>4. FlightSound'
    BY <1>4 DEF MemorySound, FlightSound, EntrySound, Misses, Length
  <2>5. upload.k < upload.end - upload.off
    BY <1>1, <1>2 DEF Streams
  <2>6. UploadSound'
    BY <1>1, <1>4, <2>1, <2>5 DEF MemorySound, UploadSound, Behind, Length, Streaming
  <2>7. /\ \A i \in DOMAIN flight : Ours(flight[i]) => Intact(flight[i]) /\ Guarded(i)
        /\ \A j \in 0 .. upload.k - 1 : Arrived(j)
    BY <1>1 DEF MemorySound, StreamSound
  <2>8. stage'[Buf] = <<upload.map, upload.off + upload.k>>
    BY <1>1, <1>2, <1>3, <1>6 DEF MemorySound, UploadSound
  <2>9. ASSUME NEW i \in DOMAIN flight, Ours(flight[i])
        PROVE  flight[i].buf # Buf
    <3> DEFINE j == flight[i].at - upload.at
    <3>1. /\ j \in Nat /\ j < upload.k /\ flight[i].buf = j % StageBuffers
      BY <1>2, <2>7, <2>9 DEF Intact, Ours, Entries, Streams
    <3>2. CASE upload.k >= StageBuffers
      <4>1. Passed(Buf)
        BY <1>6, <3>2 DEF Free
      <4> QED  BY <2>7, <2>9, <4>1 DEF Guarded, Passed
    <3>3. CASE upload.k < StageBuffers
      <4> HIDE DEF j
      <4>1. upload.k \in Nat /\ StageBuffers \in Nat \ {0} /\ j < StageBuffers
        BY <1>2, <3>1, <3>3 DEF Streams, WeightAssumption
      <4>2. j % StageBuffers = j /\ Buf = upload.k
        BY <3>1, <3>3, <4>1, Modulus DEF Buf
      <4> QED  BY <3>1, <4>1, <4>2
    <3> QED  BY <1>2, <3>2, <3>3 DEF Streams, WeightAssumption
  <2>10. \A i \in DOMAIN flight : Ours(flight[i])' => Intact(flight[i])' /\ Guarded(i)'
    <3> SUFFICES ASSUME NEW i \in DOMAIN flight, Ours(flight[i])' PROVE Intact(flight[i])' /\ Guarded(i)'
      OBVIOUS
    <3>1. Ours(flight[i]) /\ flight'[i] = flight[i]
      BY <1>4, <2>1 DEF Ours
    <3>2. Intact(flight[i]) /\ Guarded(i) /\ flight[i].buf # Buf
      BY <2>7, <2>9, <3>1
    <3>3. stage'[flight[i].buf] = stage[flight[i].buf]
      BY <1>6, <3>2, <1>2, <1>3 DEF Entries
    <3>4. Intact(flight[i])'
      BY <1>4, <2>1, <3>1, <3>2, <3>3 DEF Intact
    <3>5. Guarded(i)'
      BY <1>4, <3>2 DEF Guarded
    <3> QED  BY <3>4, <3>5
  <2>11. \A j \in 0 .. upload'.k - 1 : Arrived(j)'
    BY <1>4, <2>1, <2>7 DEF Arrived, Ours
  <2>12. StreamSound'
    BY <1>4, <2>1, <2>8, <2>10, <2>11 DEF StreamSound, Buf
  <2> QED  BY <2>2, <2>3, <2>4, <2>6, <2>12 DEF MemorySound
<1> QED  BY <1>5, <1>6 DEF ReadStage

(* The copy that is queued next. *)
NextCopy == [kind |-> "copy", buf |-> Buf, arena |-> upload.arena, at |-> upload.at + upload.k]

LEMMA NextCopySound ==
  ASSUME WeightAssumption, MemorySound, Uploading("copy")
  PROVE  /\ NextCopy \in Entries /\ Mark(Buf) \in Entries
         /\ EntrySound(NextCopy) /\ EntrySound(Mark(Buf))
<1>1. Streaming /\ upload.step = "copy"
  BY DEF Uploading, Streaming
<1>2. /\ upload \in Streams /\ Buf \in 0 .. StageBuffers - 1
      /\ upload.at + (upload.end - upload.off) = used[upload.arena]
      /\ \A i \in DOMAIN ranges : ranges[i] \in Ranged
  BY <1>1, MemoryTypes
<1>3. /\ upload.arena \in DOMAIN used /\ upload.k < upload.end - upload.off
      /\ \A i \in DOMAIN ranges : Behind(ranges[i])
  BY <1>1 DEF MemorySound, UploadSound, Length
<1>4. upload.at + upload.k \in Nat /\ upload.at + upload.k < used[upload.arena] /\ upload.at <= upload.at + upload.k
  BY <1>2, <1>3 DEF Streams
<1>5. NextCopy \in Entries /\ Mark(Buf) \in Entries
  BY <1>2, <1>4 DEF NextCopy, Mark, Entries, Streams
<1>6. ASSUME NEW i \in DOMAIN ranges PROVE Misses(NextCopy, ranges[i])
  <2>1. ranges[i] \in Ranged /\ Behind(ranges[i])
    BY <1>2, <1>3
  <2>2. ASSUME ranges[i].how = "arena", ranges[i].arena = upload.arena
        PROVE  ranges[i].at + Length(ranges[i]) <= upload.at + upload.k
    <3>1. ranges[i].at + Length(ranges[i]) <= upload.at
      BY <2>1, <2>2 DEF Behind
    <3>2. ranges[i].at \in Nat /\ Length(ranges[i]) \in Int
      BY <2>1, <2>2 DEF Ranged, Length
    <3> QED  BY <1>2, <3>1, <3>2 DEF Streams
  <2> QED  BY <2>2 DEF Misses, NextCopy
<1> QED  BY <1>3, <1>4, <1>5, <1>6 DEF EntrySound, NextCopy, Mark

(* A copy and its event mark behind a stream. *)
LEMMA Queued ==
  ASSUME NEW S, NEW s \in Seq(S), NEW e \in S, NEW f \in S
  PROVE  /\ s \o <<e, f>> \in Seq(S) /\ Len(s) \in Nat
         /\ DOMAIN s = 1 .. Len(s) /\ DOMAIN (s \o <<e, f>>) = 1 .. Len(s) + 2
         /\ (s \o <<e, f>>)[Len(s) + 1] = e /\ (s \o <<e, f>>)[Len(s) + 2] = f
         /\ \A i \in 1 .. Len(s) : (s \o <<e, f>>)[i] = s[i]
<1> DEFINE t == <<e, f>>
<1>1. t \in Seq(S) /\ Len(t) = 2 /\ t[1] = e /\ t[2] = f
  OBVIOUS
<1>2. Len(s) \in Nat /\ DOMAIN s = 1 .. Len(s)
  BY LenProperties
<1> HIDE DEF t
<1>3. /\ s \o t \in Seq(S) /\ Len(s \o t) = Len(s) + 2
      /\ \A i \in 1 .. Len(s) + 2 : (s \o t)[i] = IF i <= Len(s) THEN s[i] ELSE t[i - Len(s)]
  <2>1. /\ s \o t \in Seq(S) /\ Len(s \o t) = Len(s) + Len(t)
        /\ \A i \in 1 .. Len(s) + Len(t) : (s \o t)[i] = IF i <= Len(s) THEN s[i] ELSE t[i - Len(s)]
    BY <1>1, ConcatProperties
  <2> QED  BY <1>1, <2>1
<1>4. DOMAIN (s \o t) = 1 .. Len(s) + 2
  BY <1>3, LenProperties
<1>5. (s \o t)[Len(s) + 1] = e /\ (s \o t)[Len(s) + 2] = f
  <2>1. Len(s) + 1 \in 1 .. Len(s) + 2 /\ Len(s) + 2 \in 1 .. Len(s) + 2
    BY <1>2
  <2>2. /\ ~(Len(s) + 1 <= Len(s)) /\ ~(Len(s) + 2 <= Len(s))
        /\ (Len(s) + 1) - Len(s) = 1 /\ (Len(s) + 2) - Len(s) = 2
    BY <1>2
  <2> QED  BY <1>1, <1>3, <2>1, <2>2
<1>6. \A i \in 1 .. Len(s) : (s \o t)[i] = s[i]
  BY <1>2, <1>3
<1> QED  BY <1>2, <1>3, <1>4, <1>5, <1>6 DEF t

LEMMA MemoryQueueCopy ==
  ASSUME WeightAssumption, MemorySound, QueueCopy
  PROVE  MemorySound'
<1>1. Streaming /\ upload.step = "copy" /\ Uploading("copy")
  BY DEF QueueCopy, Streaming, Uploading
<1>2. /\ upload \in Streams /\ Buf \in 0 .. StageBuffers - 1
      /\ \A i \in DOMAIN flight : flight[i] \in Entries
  BY <1>1, MemoryTypes
<1>3. DOMAIN stage = 0 .. StageBuffers - 1 /\ flight \in Seq(Entries)
  BY DEF MemorySound, WeightTyped
<1>4. UNCHANGED <<fd, ranges, used, device, stage>>
  BY DEF QueueCopy
<1>5. NextCopy \in Entries /\ Mark(Buf) \in Entries /\ EntrySound(NextCopy) /\ EntrySound(Mark(Buf))
  BY <1>1, NextCopySound
<1>6. \A i \in DOMAIN flight : EntrySound(flight[i])
  BY DEF MemorySound, FlightSound
<1>7. CASE GiveUp /\ flight' \in {flight, Append(flight, NextCopy)}
  <2>1. DOMAIN stage' = DOMAIN stage
    BY <1>4
  <2>2. flight' \in Seq(Entries) /\ \A i \in DOMAIN flight' : EntrySound(flight'[i])
    <3>1. CASE flight' = flight
      BY <1>3, <1>6, <3>1
    <3>2. CASE flight' = Append(flight, NextCopy)
      <4>1. /\ flight' \in Seq(Entries) /\ Len(flight) \in Nat
            /\ DOMAIN flight = 1 .. Len(flight) /\ DOMAIN flight' = 1 .. Len(flight) + 1
            /\ flight'[Len(flight) + 1] = NextCopy
            /\ \A i \in 1 .. Len(flight) : flight'[i] = flight[i]
        BY <1>3, <1>5, <3>2, Appended
      <4>2. \A i \in 1 .. Len(flight) + 1 : i \in 1 .. Len(flight) \/ i = Len(flight) + 1
        BY <4>1
      <4> QED  BY <1>5, <1>6, <4>1, <4>2
    <3> QED  BY <1>7, <3>1, <3>2
  <2> QED  BY <1>1, <1>4, <1>7, <2>1, <2>2, MemoryGivenUp
<1>8. CASE /\ flight' = flight \o <<NextCopy, Mark(Buf)>>
           /\ upload' = [upload EXCEPT !.step = "read", !.k = @ + 1]
  <2> DEFINE n == Len(flight)
  <2>1. /\ upload'.map = upload.map /\ upload'.off = upload.off /\ upload'.end = upload.end
        /\ upload'.k = upload.k + 1 /\ upload'.arena = upload.arena /\ upload'.at = upload.at
        /\ upload'.step = "read" /\ upload' \in Streams
    <3>1. upload.k + 1 \in Nat
      BY <1>2 DEF Streams
    <3>2. upload' = [map |-> upload.map, off |-> upload.off, end |-> upload.end, step |-> "read",
                     k |-> upload.k + 1, arena |-> upload.arena, at |-> upload.at]
      BY <1>2, <1>8 DEF Streams
    <3> QED  BY <1>2, <3>1, <3>2 DEF Streams
  <2>2. /\ flight' \in Seq(Entries) /\ n \in Nat
        /\ DOMAIN flight = 1 .. n /\ DOMAIN flight' = 1 .. n + 2
        /\ flight'[n + 1] = NextCopy /\ flight'[n + 2] = Mark(Buf)
        /\ \A i \in 1 .. n : flight'[i] = flight[i]
    BY <1>3, <1>5, <1>8, Queued
  <2>3. \A i \in 1 .. n + 2 : i \in 1 .. n \/ i = n + 1 \/ i = n + 2
    BY <2>2
  <2> HIDE DEF n
  <2>4. WeightTyped'
    BY <1>3, <1>4, <2>1, <2>2 DEF MemorySound, WeightTyped, NoUpload, Fallbacks, Streams, Ranged, Entries
  <2>5. RangesSound'
    BY <1>4 DEF MemorySound, RangesSound, RangeSound, Length
  <2>6. FlightSound'
    <3>1. \A i \in DOMAIN flight' : EntrySound(flight'[i])
      BY <1>5, <1>6, <2>2, <2>3
    <3> QED  BY <1>4, <3>1 DEF FlightSound, EntrySound, Misses, Length
  <2>7. UploadSound'
    <3>1. upload.k + 1 <= upload.end - upload.off
      BY <1>1, <1>2 DEF MemorySound, UploadSound, Length, Streams
    <3> QED  BY <1>1, <1>4, <2>1, <3>1 DEF MemorySound, UploadSound, Behind, Length, Streaming, Uploading
  <2>8. /\ \A i \in DOMAIN flight : Ours(flight[i]) => Intact(flight[i]) /\ Guarded(i)
        /\ \A j \in 0 .. upload.k - 1 : Arrived(j)
        /\ stage[Buf] = <<upload.map, upload.off + upload.k>>
    BY <1>1 DEF MemorySound, StreamSound
  <2>9. ASSUME NEW i \in DOMAIN flight', Ours(flight[i])'
        PROVE  Intact(flight[i])' /\ Guarded(i)'
    <3>1. CASE i \in 1 .. n
      <4>1. flight'[i] = flight[i] /\ i \in DOMAIN flight /\ Ours(flight[i])
        BY <2>1, <2>2, <2>9, <3>1 DEF Ours
      <4>2. Intact(flight[i]) /\ Guarded(i) /\ flight[i] \in Entries
        BY <1>2, <2>8, <4>1
      <4>3. Intact(flight[i])'
        <5>1. flight[i].at - upload.at < upload.k + 1
          BY <1>2, <4>1, <4>2 DEF Intact, Streams, Entries, Ours
        <5> QED  BY <1>4, <2>1, <4>1, <4>2, <5>1 DEF Intact
      <4>4. Guarded(i)'
        <5>1. PICK l \in DOMAIN flight : i < l /\ flight[l].kind = "mark" /\ flight[l].buf = flight[i].buf
          BY <4>2 DEF Guarded
        <5>2. l \in DOMAIN flight' /\ flight'[l] = flight[l]
          BY <2>2, <5>1
        <5> QED  BY <4>1, <5>1, <5>2 DEF Guarded
      <4> QED  BY <4>3, <4>4
    <3>2. CASE i = n + 1
      <4>1. flight'[i] = NextCopy
        BY <2>2, <3>2
      <4>2. (upload.at + upload.k) - upload.at = upload.k /\ upload.k < upload.k + 1
        BY <1>2 DEF Streams
      <4>3. Intact(flight[i])'
        BY <1>4, <2>1, <2>8, <4>1, <4>2 DEF Intact, NextCopy, Buf
      <4>4. n + 2 \in DOMAIN flight' /\ i < n + 2
        BY <2>2, <3>2
      <4>5. flight'[n + 2].kind = "mark" /\ flight'[n + 2].buf = flight'[i].buf
        BY <2>2, <4>1 DEF Mark, NextCopy
      <4>6. Guarded(i)'
        BY <4>4, <4>5 DEF Guarded
      <4> QED  BY <4>3, <4>6
    <3>3. CASE i = n + 2
      BY <2>2, <2>9, <3>3 DEF Ours, Mark
    <3> QED  BY <2>2, <2>3, <2>9, <3>1, <3>2, <3>3
  <2>10. ASSUME NEW j \in 0 .. upload'.k - 1
         PROVE  Arrived(j)'
    <3>1. CASE j = upload.k
      <4>1. n + 1 \in DOMAIN flight' /\ flight'[n + 1] = NextCopy
        BY <2>2
      <4>2. upload.at <= upload.at + upload.k
        BY <1>2 DEF Streams
      <4> QED  BY <2>1, <3>1, <4>1, <4>2 DEF Arrived, Ours, NextCopy
    <3>2. CASE j # upload.k
      <4>1. Arrived(j)
        BY <1>2, <2>1, <2>8, <3>2 DEF Streams
      <4>2. \A i \in DOMAIN flight : i \in DOMAIN flight' /\ flight'[i] = flight[i]
        BY <2>2
      <4> QED  BY <1>4, <2>1, <4>1, <4>2 DEF Arrived, Ours
    <3> QED  BY <3>1, <3>2
  <2>11. StreamSound'
    BY <2>1, <2>9, <2>10 DEF StreamSound
  <2> QED  BY <2>4, <2>5, <2>6, <2>7, <2>11 DEF MemorySound
<1> QED  BY <1>7, <1>8 DEF QueueCopy, NextCopy

(* A range that holds its bytes, and that no copy in flight will hit, may  *)
(* be recorded.                                                            *)
LEMMA MemoryRecord ==
  ASSUME WeightAssumption, MemorySound, NEW r \in Ranged, RangeSound(r), Record(r), upload' = NoUpload,
         \A i \in DOMAIN flight : flight[i].kind = "copy" => Misses(flight[i], r),
         UNCHANGED <<used, device, stage, flight>>
  PROVE  MemorySound'
<1> DEFINE n == Len(ranges)
<1>1. ranges \in Seq(Ranged)
  BY DEF MemorySound, WeightTyped
<1>2. /\ ranges' \in Seq(Ranged) /\ n \in Nat /\ DOMAIN ranges = 1 .. n /\ DOMAIN ranges' = 1 .. n + 1
      /\ ranges'[n + 1] = r /\ \A i \in 1 .. n : ranges'[i] = ranges[i]
  BY <1>1, Appended DEF Record
<1>3. \A i \in 1 .. n + 1 : i \in 1 .. n \/ i = n + 1
  BY <1>2
<1> HIDE DEF n
<1>4. ~Streaming' /\ Uploading("none")'
  BY DEF Streaming, Uploading, NoUpload
<1>5. WeightTyped'
  BY <1>2 DEF MemorySound, WeightTyped, NoUpload, Fallbacks, Streams, Ranged, Entries
<1>6. RangesSound'
  <2>1. \A i \in DOMAIN ranges' : RangeSound(ranges'[i])
    BY <1>2, <1>3 DEF MemorySound, RangesSound
  <2> QED  BY <2>1 DEF RangesSound, RangeSound, Length
<1>7. FlightSound'
  <2> SUFFICES ASSUME NEW i \in DOMAIN flight, flight[i].kind = "copy"
               PROVE  /\ flight[i].arena \in DOMAIN used /\ flight[i].at < used[flight[i].arena]
                      /\ \A l \in DOMAIN ranges' : Misses(flight[i], ranges'[l])
    BY DEF FlightSound, EntrySound, Misses, Length
  <2>1. /\ flight[i].arena \in DOMAIN used /\ flight[i].at < used[flight[i].arena]
        /\ \A l \in DOMAIN ranges : Misses(flight[i], ranges[l])
    BY DEF MemorySound, FlightSound, EntrySound
  <2>2. Misses(flight[i], r)
    OBVIOUS
  <2> QED  BY <1>2, <1>3, <2>1, <2>2
<1> QED  BY <1>4, <1>5, <1>6, <1>7 DEF MemorySound, UploadSound, StreamSound

LEMMA MemoryFinishUpload ==
  ASSUME WeightAssumption, MemorySound, FinishUpload
  PROVE  MemorySound'
<1>1. Streaming /\ upload.step = "read" /\ upload.off + upload.k = upload.end
  BY DEF FinishUpload, Streaming, Uploading
<1>2. /\ upload \in Streams /\ upload.off < upload.end
      /\ upload.at + (upload.end - upload.off) = used[upload.arena]
  BY <1>1, MemoryTypes
<1>3. UNCHANGED <<used, device, stage, flight>>
  BY DEF FinishUpload
<1>4. CASE GiveUp /\ UNCHANGED ranges
  <2>1. flight' \in Seq(Entries) /\ \A i \in DOMAIN flight' : EntrySound(flight'[i])
    BY <1>3 DEF MemorySound, WeightTyped, FlightSound
  <2> QED  BY <1>1, <1>3, <1>4, <2>1, MemoryGivenUp
<1> DEFINE r == [map |-> upload.map, off |-> upload.off, end |-> upload.end, how |-> "arena",
                 arena |-> upload.arena, at |-> upload.at]
<1>5. CASE Drained /\ Record(r) /\ upload' = NoUpload
  <2>1. r \in Ranged /\ Length(r) = upload.k
    BY <1>1, <1>2 DEF Ranged, Streams, Length
  <2>2. DOMAIN flight = {}
    BY <1>5, Nothing DEF Drained
  <2>3. \A j \in 0 .. upload.k - 1 :
          device[upload.arena][upload.at + j] = <<upload.map, upload.off + j>>
    BY <1>1, <2>2 DEF MemorySound, StreamSound, Arrived
  <2>4. upload.arena \in DOMAIN used /\ upload.at + upload.k = used[upload.arena]
    BY <1>1, <1>2 DEF MemorySound, UploadSound, Streams
  <2>5. r.off < r.end /\ r.arena \in DOMAIN used /\ r.at + Length(r) <= used[r.arena]
    BY <1>2, <2>1, <2>4 DEF Streams
  <2>6. RangeSound(r)
    BY <2>1, <2>3, <2>5 DEF RangeSound
  <2> HIDE DEF r
  <2> QED  BY <1>3, <1>5, <2>1, <2>2, <2>6, MemoryRecord
<1> QED  BY <1>4, <1>5 DEF FinishUpload

LEMMA MemoryFallback ==
  ASSUME WeightAssumption, MemorySound, Fallback
  PROVE  MemorySound'
<1>1. upload \in Fallbacks /\ upload.off < upload.end
  BY DEF MemorySound, WeightTyped, UploadSound, Fallback, Uploading, NoUpload, Streams
<1>2. UNCHANGED <<used, device, stage, flight>> /\ upload' = NoUpload
  BY DEF Fallback
<1>3. CASE UNCHANGED ranges
  <2>1. ~Streaming' /\ Uploading("none")'
    BY <1>2 DEF Streaming, Uploading, NoUpload
  <2>2. WeightTyped'
    BY <1>2, <1>3 DEF MemorySound, WeightTyped, NoUpload, Fallbacks, Streams, Ranged, Entries
  <2>3. RangesSound'
    BY <1>2, <1>3 DEF MemorySound, RangesSound, RangeSound, Length
  <2>4. FlightSound'
    BY <1>2, <1>3 DEF MemorySound, FlightSound, EntrySound, Misses, Length
  <2> QED  BY <2>1, <2>2, <2>3, <2>4 DEF MemorySound, UploadSound, StreamSound
<1> DEFINE r == [map |-> upload.map, off |-> upload.off, end |-> upload.end, how |-> "own"]
<1>4. CASE Record(r)
  <2>1. r \in Ranged /\ r.how = "own" /\ r.off < r.end
    BY <1>1 DEF Ranged, Fallbacks
  <2> HIDE DEF r
  <2>2. RangeSound(r) /\ \A i \in DOMAIN flight : Misses(flight[i], r)
    BY <2>1 DEF RangeSound, Misses
  <2> QED  BY <1>2, <1>4, <2>1, <2>2, MemoryRecord
<1> QED  BY <1>3, <1>4 DEF Fallback

LEMMA OneUnit ==
  ASSUME NEW A, NEW X, NEW d, DOMAIN d = A, \A a \in A : DOMAIN d[a] = X,
         NEW a \in A, NEW x \in X, NEW v, NEW e, e = [d EXCEPT ![a][x] = v]
  PROVE  /\ DOMAIN e = A /\ \A b \in A : DOMAIN e[b] = X
         /\ e[a][x] = v
         /\ \A b \in A : \A y \in X : ~(b = a /\ y = x) => e[b][y] = d[b][y]
<1>1. e = [d EXCEPT ![a] = [d[a] EXCEPT ![x] = v]]
  OBVIOUS
<1>2. DOMAIN e = A /\ \A b \in A : e[b] = IF b = a THEN [d[a] EXCEPT ![x] = v] ELSE d[b]
  BY <1>1
<1>3. DOMAIN [d[a] EXCEPT ![x] = v] = X /\ \A y \in X : [d[a] EXCEPT ![x] = v][y] = IF y = x THEN v ELSE d[a][y]
  OBVIOUS
<1> QED  BY <1>2, <1>3

LEMMA MemoryCopyEngine ==
  ASSUME WeightAssumption, MemorySound, CopyEngine
  PROVE  MemorySound'
<1> DEFINE n == Len(flight)
           h == flight[1]
<1>1. WeightTyped /\ flight \in Seq(Entries) /\ flight # <<>>
  BY DEF MemorySound, WeightTyped, CopyEngine
<1>2. UNCHANGED <<fd, ranges, used, stage, upload>>
  BY DEF CopyEngine
<1>3. /\ Head(flight) = h /\ n \in Nat \ {0} /\ DOMAIN flight = 1 .. n
      /\ flight' \in Seq(Entries) /\ DOMAIN flight' = 1 .. n - 1
      /\ \A i \in 1 .. n - 1 : flight'[i] = flight[i + 1]
  BY <1>1, Tailed DEF CopyEngine
<1>4. /\ \A i \in DOMAIN ranges : ranges[i] \in Ranged
      /\ \A i \in DOMAIN flight : flight[i] \in Entries
      /\ \A a \in DOMAIN used : used[a] \in 0 .. ArenaUnits
      /\ DOMAIN used = 1 .. Len(used) /\ Len(used) \in Nat
      /\ Streaming => upload \in Streams /\ upload.at + (upload.end - upload.off) = used[upload.arena]
                      /\ upload.k <= upload.end - upload.off
  BY MemoryTypes
<1>5. 1 \in DOMAIN flight /\ h \in Entries /\ EntrySound(h)
  BY <1>3, <1>4 DEF MemorySound, FlightSound
<1>6. device' = IF h.kind = "mark" THEN device
                ELSE [device EXCEPT ![h.arena][h.at] = stage[h.buf]]
  BY <1>3 DEF CopyEngine
<1>7. \A i \in DOMAIN flight' : i + 1 \in DOMAIN flight /\ flight'[i] = flight[i + 1]
  BY <1>3
<1> HIDE DEF n, h
(* One unit of one arena changes, if any. *)
<1>8. /\ DOMAIN device' = DOMAIN device
      /\ \A a \in 1 .. MaxArenas : DOMAIN device'[a] = DOMAIN device[a]
      /\ \A a \in 1 .. MaxArenas : \A x \in 0 .. ArenaUnits - 1 :
           ~(h.kind = "copy" /\ h.arena = a /\ h.at = x) => device'[a][x] = device[a][x]
      /\ h.kind = "copy" => device'[h.arena][h.at] = stage[h.buf]
  <2>1. CASE h.kind = "mark"
    BY <1>6, <2>1
  <2>2. CASE h.kind = "copy"
    <3>1. h.arena \in 1 .. MaxArenas /\ h.at \in 0 .. ArenaUnits - 1
      BY <1>1, <1>4, <1>5, <2>2 DEF EntrySound, WeightTyped, Entries, WeightAssumption
    <3>2. device' = [device EXCEPT ![h.arena][h.at] = stage[h.buf]]
      BY <1>6, <2>2
    <3>3. DOMAIN device = 1 .. MaxArenas /\ \A a \in 1 .. MaxArenas : DOMAIN device[a] = 0 .. ArenaUnits - 1
      BY <1>1 DEF WeightTyped
    <3>4. /\ DOMAIN device' = 1 .. MaxArenas /\ \A b \in 1 .. MaxArenas : DOMAIN device'[b] = 0 .. ArenaUnits - 1
          /\ device'[h.arena][h.at] = stage[h.buf]
          /\ \A b \in 1 .. MaxArenas : \A y \in 0 .. ArenaUnits - 1 :
               ~(b = h.arena /\ y = h.at) => device'[b][y] = device[b][y]
      BY <3>1, <3>2, <3>3, OneUnit
    <3>5. ASSUME NEW a \in 1 .. MaxArenas, NEW x \in 0 .. ArenaUnits - 1,
                 ~(h.kind = "copy" /\ h.arena = a /\ h.at = x)
          PROVE  device'[a][x] = device[a][x]
      BY <2>2, <3>4, <3>5
    <3> QED  BY <3>3, <3>4, <3>5
  <2> QED  BY <1>5, <2>1, <2>2 DEF Entries
<1>9. WeightTyped'
  BY <1>1, <1>2, <1>3, <1>8 DEF WeightTyped, NoUpload, Fallbacks, Streams, Ranged, Entries
<1>10. RangesSound'
  <2> SUFFICES ASSUME NEW i \in DOMAIN ranges PROVE RangeSound(ranges[i])'
    BY <1>2 DEF RangesSound
  <2>1. RangeSound(ranges[i]) /\ ranges'[i] = ranges[i] /\ ranges[i] \in Ranged
    BY <1>2, <1>4 DEF MemorySound, RangesSound
  <2>2. ASSUME ranges[i].how = "arena", NEW j \in 0 .. Length(ranges[i]) - 1
        PROVE  device'[ranges[i].arena][ranges[i].at + j] = device[ranges[i].arena][ranges[i].at + j]
    <3>1. /\ ranges[i].arena \in DOMAIN used /\ ranges[i].at + Length(ranges[i]) <= used[ranges[i].arena]
          /\ ranges[i].at \in Nat /\ Length(ranges[i]) \in Int
      BY <2>1, <2>2 DEF RangeSound, Ranged, Length
    <3>2. ranges[i].arena \in 1 .. MaxArenas /\ ranges[i].at + j \in 0 .. ArenaUnits - 1
      <4>1. used[ranges[i].arena] \in 0 .. ArenaUnits /\ Len(used) <= MaxArenas
        BY <1>1, <1>4, <3>1 DEF WeightTyped
      <4>2. ranges[i].at + j \in Nat /\ ranges[i].at + j < used[ranges[i].arena]
        BY <3>1, <4>1
      <4> QED  BY <1>4, <3>1, <4>1, <4>2 DEF WeightAssumption
    <3>3. ~(h.kind = "copy" /\ h.arena = ranges[i].arena /\ h.at = ranges[i].at + j)
      BY <1>5, <2>2, <3>1 DEF EntrySound, Misses, Entries
    <3> QED  BY <1>8, <3>2, <3>3
  <2> QED  BY <1>2, <2>1, <2>2 DEF RangeSound, Length
<1>11. FlightSound'
  <2>1. \A i \in DOMAIN flight' : EntrySound(flight'[i])
    BY <1>7 DEF MemorySound, FlightSound
  <2> QED  BY <1>2, <2>1 DEF FlightSound, EntrySound, Misses, Length
<1>12. UploadSound'
  BY <1>2 DEF MemorySound, UploadSound, Behind, Length, Streaming, Uploading
<1>13. StreamSound'
  <2> SUFFICES ASSUME Streaming
               PROVE  /\ \A i \in DOMAIN flight' : Ours(flight'[i]) => Intact(flight'[i]) /\ Guarded(i)'
                      /\ \A j \in 0 .. upload.k - 1 : Arrived(j)'
                      /\ upload.step = "copy" => stage[Buf] = <<upload.map, upload.off + upload.k>>
    BY <1>2 DEF StreamSound, Streaming, Ours, Intact, Buf
  <2>1. /\ \A i \in DOMAIN flight : Ours(flight[i]) => Intact(flight[i]) /\ Guarded(i)
        /\ \A j \in 0 .. upload.k - 1 : Arrived(j)
        /\ upload.step = "copy" => stage[Buf] = <<upload.map, upload.off + upload.k>>
    BY DEF MemorySound, StreamSound
  <2>2. ASSUME NEW i \in DOMAIN flight', Ours(flight'[i])
        PROVE  Intact(flight'[i]) /\ Guarded(i)'
    <3>1. i + 1 \in DOMAIN flight /\ flight'[i] = flight[i + 1] /\ i \in 1 .. n - 1
      BY <1>3, <1>7
    <3>2. Intact(flight'[i]) /\ Guarded(i + 1)
      BY <2>1, <2>2, <3>1
    <3>3. PICK l \in DOMAIN flight :
            i + 1 < l /\ flight[l].kind = "mark" /\ flight[l].buf = flight'[i].buf
      BY <3>1, <3>2 DEF Guarded
    <3>4. l - 1 \in 1 .. n - 1 /\ (l - 1) + 1 = l /\ i < l - 1
      BY <1>3, <3>1, <3>3
    <3>5. l - 1 \in DOMAIN flight' /\ flight'[l - 1] = flight[l]
      BY <1>3, <3>4
    <3> QED  BY <3>2, <3>3, <3>4, <3>5 DEF Guarded
  <2>3. ASSUME NEW j \in 0 .. upload.k - 1
        PROVE  Arrived(j)'
    <3> DEFINE x == upload.at + j
    <3>1. /\ upload \in Streams /\ upload.arena \in 1 .. MaxArenas /\ x \in 0 .. ArenaUnits - 1
          /\ x - upload.at = j /\ upload.at <= x
      <4>1. /\ upload \in Streams /\ upload.arena \in DOMAIN used /\ used[upload.arena] \in 0 .. ArenaUnits
            /\ upload.at + (upload.end - upload.off) = used[upload.arena]
            /\ upload.k <= upload.end - upload.off /\ Len(used) <= MaxArenas
        BY <1>1, <1>4 DEF MemorySound, UploadSound, WeightTyped
      <4> QED  BY <1>4, <4>1 DEF Streams, WeightAssumption
    <3>2. CASE h.kind = "copy" /\ h.arena = upload.arena /\ h.at = x
      <4>1. Ours(h) /\ Intact(h)
        BY <1>5, <2>1, <3>1, <3>2 DEF Ours, h
      <4>2. device'[upload.arena][x] = <<upload.map, upload.off + j>>
        BY <1>8, <3>1, <3>2, <4>1 DEF Intact
      <4> QED  BY <1>2, <4>2 DEF Arrived
    <3>3. CASE ~(h.kind = "copy" /\ h.arena = upload.arena /\ h.at = x)
      <4>1. CASE device[upload.arena][x] = <<upload.map, upload.off + j>>
        <5>1. device'[upload.arena][x] = device[upload.arena][x]
          BY <1>8, <3>1, <3>3
        <5> QED  BY <1>2, <4>1, <5>1 DEF Arrived
      <4>2. CASE \E i \in DOMAIN flight : Ours(flight[i]) /\ flight[i].at = x
        <5>1. PICK i \in DOMAIN flight : Ours(flight[i]) /\ flight[i].at = x
          BY <4>2
        <5>2. i # 1
          BY <3>3, <5>1 DEF Ours, h
        <5>3. i - 1 \in DOMAIN flight' /\ flight'[i - 1] = flight[i]
          <6>1. i - 1 \in 1 .. n - 1 /\ (i - 1) + 1 = i
            BY <1>3, <5>2
          <6> QED  BY <1>3, <6>1
        <5> QED  BY <1>2, <5>1, <5>3 DEF Arrived, Ours
      <4> QED  BY <2>1, <4>1, <4>2 DEF Arrived
    <3> QED  BY <3>2, <3>3
  <2> QED  BY <2>1, <2>2, <2>3
<1> QED  BY <1>9, <1>10, <1>11, <1>12, <1>13 DEF MemorySound

-----------------------------------------------------------------------------
(* The calls that start the engine *)

LEMMA StartupIs ==
  ASSUME NEW s \in Startups
  PROVE  /\ Len(s) \in {5, 9} /\ s[1] = Call("build", Target) /\ s[2] = Call("register", Target)
         /\ s[3] = Call("fd", Target) /\ s[4] = Call("prepare", Target)
         /\ Len(s) = 5 => s[5] = Call("open", Target)
         /\ Len(s) = 9 => /\ s[5] = Call("register", Support) /\ s[6] = Call("fd", Support)
                          /\ s[7] = Call("prepare", Support) /\ s[8] = Call("fd", Target)
                          /\ s[9] = Call("open", Target)
<1> DEFINE Calls == {Call(op, m) : op \in {"build", "register", "fd", "prepare", "open"}, m \in Files}
<1>1. /\ MapModel \in Seq(Calls) /\ Len(MapModel) = 4 /\ MapModel[1] = Call("build", Target)
      /\ MapModel[2] = Call("register", Target) /\ MapModel[3] = Call("fd", Target)
      /\ MapModel[4] = Call("prepare", Target)
  BY DEF MapModel, Files
<1>2. /\ MapDspark \in Seq(Calls) /\ Len(MapDspark) = 4 /\ MapDspark[1] = Call("register", Support)
      /\ MapDspark[2] = Call("fd", Support) /\ MapDspark[3] = Call("prepare", Support)
      /\ MapDspark[4] = Call("fd", Target)
  BY DEF MapDspark, Files
<1>3. Done \in Seq(Calls) /\ Len(Done) = 1 /\ Done[1] = Call("open", Target)
  BY DEF Done, Files
<1> HIDE DEF Calls
<1>4. CASE s = MapModel \o Done
  <2>1. /\ Len(s) = Len(MapModel) + Len(Done)
        /\ \A i \in 1 .. Len(MapModel) + Len(Done) :
             s[i] = IF i <= Len(MapModel) THEN MapModel[i] ELSE Done[i - Len(MapModel)]
    BY <1>1, <1>3, <1>4, ConcatProperties
  <2> QED  BY <1>1, <1>3, <2>1
<1>5. CASE s = MapModel \o MapDspark \o Done
  <2> DEFINE x == MapModel \o MapDspark
  <2>1. /\ x \in Seq(Calls) /\ Len(x) = Len(MapModel) + Len(MapDspark)
        /\ \A i \in 1 .. Len(MapModel) + Len(MapDspark) :
             x[i] = IF i <= Len(MapModel) THEN MapModel[i] ELSE MapDspark[i - Len(MapModel)]
    BY <1>1, <1>2, ConcatProperties
  <2>2. s = x \o Done
    BY <1>5
  <2> HIDE DEF x
  <2>3. /\ Len(x) = 8 /\ \A i \in 1 .. 4 : x[i] = MapModel[i]
        /\ x[5] = MapDspark[1] /\ x[6] = MapDspark[2] /\ x[7] = MapDspark[3] /\ x[8] = MapDspark[4]
    BY <1>1, <1>2, <2>1
  <2>4. /\ Len(s) = Len(x) + Len(Done)
        /\ \A i \in 1 .. Len(x) + Len(Done) : s[i] = IF i <= Len(x) THEN x[i] ELSE Done[i - Len(x)]
    BY <1>3, <2>1, <2>2, ConcatProperties
  <2>5. Len(s) = 9 /\ s[9] = Done[1] /\ \A i \in 1 .. 8 : s[i] = x[i]
    BY <1>3, <2>3, <2>4
  <2> QED  BY <1>1, <1>2, <1>3, <2>3, <2>5
<1> QED  BY <1>4, <1>5 DEF Startups

(* Where the start of the engine can be when it makes a call.              *)
LEMMA Whereabouts ==
  ASSUME StartSound, ~opened, here # 0
  PROVE  /\ here \in 1 .. Len(startup) /\ Len(startup) \in {5, 9} /\ File \in Files
         /\ startup[here].op = "build" => here = 1
         /\ startup[here].op = "register" => here \in {2, 5} /\ startup[here + 1].map = File
         /\ startup[here].op = "fd" => here \in {3, 6, 8} /\ (here # 8 => startup[here + 1].map = File)
         /\ startup[here].op = "prepare" => here \in {4, 7}
         /\ startup[here].op = "open" => here \in {5, 9}
         /\ here \in 1 .. 4 => File = Target
         /\ startup[here].op # "open" => here + 1 <= Len(startup)
<1>1. startup \in Startups /\ here \in Nat /\ here <= Len(startup)
  BY DEF StartSound
<1>2. /\ Len(startup) \in {5, 9} /\ startup[1] = Call("build", Target) /\ startup[2] = Call("register", Target)
      /\ startup[3] = Call("fd", Target) /\ startup[4] = Call("prepare", Target)
      /\ Len(startup) = 5 => startup[5] = Call("open", Target)
      /\ Len(startup) = 9 => /\ startup[5] = Call("register", Support) /\ startup[6] = Call("fd", Support)
                             /\ startup[7] = Call("prepare", Support) /\ startup[8] = Call("fd", Target)
                             /\ startup[9] = Call("open", Target)
  BY <1>1, StartupIs
<1>3. /\ here \in 1 .. Len(startup)
      /\ here \in {1, 2, 3, 4, 5} \/ (Len(startup) = 9 /\ here \in {6, 7, 8, 9})
  <2>1. CASE Len(startup) = 5
    BY <1>1, <2>1
  <2>2. CASE Len(startup) = 9
    BY <1>1, <2>2
  <2> QED  BY <1>2, <2>1, <2>2
<1>4. \A op, m : Call(op, m).op = op /\ Call(op, m).map = m
  BY DEF Call
<1>5. CASE here = 1
  BY <1>2, <1>3, <1>4, <1>5 DEF File, Files
<1>6. CASE here = 2
  BY <1>2, <1>3, <1>4, <1>6 DEF File, Files
<1>7. CASE here = 3
  BY <1>2, <1>3, <1>4, <1>7 DEF File, Files
<1>8. CASE here = 4
  BY <1>2, <1>3, <1>4, <1>8 DEF File, Files
<1>9. CASE here = 5
  BY <1>2, <1>3, <1>4, <1>9 DEF File, Files
<1>10. CASE Len(startup) = 9 /\ here = 6
  BY <1>2, <1>4, <1>10 DEF File, Files
<1>11. CASE Len(startup) = 9 /\ here = 7
  BY <1>2, <1>4, <1>11 DEF File, Files
<1>12. CASE Len(startup) = 9 /\ here = 8
  BY <1>2, <1>4, <1>12 DEF File, Files
<1>13. CASE Len(startup) = 9 /\ here = 9
  BY <1>2, <1>4, <1>13 DEF File, Files
<1> QED  BY <1>3, <1>5, <1>6, <1>7, <1>8, <1>9, <1>10, <1>11, <1>12, <1>13

-----------------------------------------------------------------------------
(* Spans *)

(* What the start asks for at once fits in an arena, is never replaced by  *)
(* artifacts as a whole, and cuts no tensor in two.                        *)
LEMMA SpanShape ==
  ASSUME WeightAssumption, NEW m \in Files, NEW c \in Nat, Ahead(m, c) # {},
         NEW off, off = Min({t.off : t \in Ahead(m, c)}), NEW end, end = SpanEnd(m, off)
  PROVE  /\ off \in Nat /\ end \in Nat /\ c <= off /\ off < end /\ end - off <= ArenaUnits
         /\ ~FullyReplaced(m, off, end)
         /\ \A t \in Prepared(m) : c <= t.off /\ t.off < end => Inside(t, off, end)
<1>1. \A t \in Tensors[m] :
        /\ t.off \in Nat /\ t.end \in Nat /\ t.off < t.end /\ t.end - t.off <= ArenaUnits
        /\ \A n \in Tensors[m] : n = t \/ n.end <= t.off \/ t.end <= n.off
  BY DEF WeightAssumption
<1>2. Prepared(m) \subseteq Tensors[m] /\ \A d : Ahead(m, d) \subseteq Prepared(m)
  BY DEF Prepared, Ahead
<1>3. {t.off : t \in Ahead(m, c)} \in SUBSET Nat /\ {t.off : t \in Ahead(m, c)} # {}
  BY <1>1, <1>2
<1>4. off \in {t.off : t \in Ahead(m, c)} /\ \A y \in {t.off : t \in Ahead(m, c)} : off <= y
  BY <1>3, MinOfNats
<1>5. PICK b \in Ahead(m, c) : b.off = off
  BY <1>4
<1>6. off \in Nat /\ c <= off /\ b \in Prepared(m) /\ b \in Tensors[m]
  BY <1>1, <1>2, <1>5 DEF Ahead
<1>7. b \in Spanned(m, off)
  <2>1. b \in Ahead(m, off)
    BY <1>5, <1>6 DEF Ahead
  <2>2. ASSUME NEW n \in Ahead(m, off + 1) PROVE ~(n.off <= b.off)
    <3>1. off + 1 <= n.off /\ n.off \in Nat
      BY <1>1, <1>2, <2>2 DEF Ahead
    <3> QED  BY <1>5, <1>6, <3>1
  <2> QED  BY <2>1, <2>2 DEF Spanned
<1>8. \A t \in Spanned(m, off) : t \in Prepared(m) /\ off <= t.off
  BY <1>2 DEF Spanned, Ahead
<1>9. \A t \in Spanned(m, off) : t.end - off <= ArenaUnits
  <2> SUFFICES ASSUME NEW t \in Spanned(m, off) PROVE t.end - off <= ArenaUnits
    OBVIOUS
  <2>1. t \in Tensors[m] /\ off <= t.off
    BY <1>2, <1>8
  <2>2. CASE t.off = off
    BY <1>1, <2>1, <2>2
  <2>3. CASE t.off # off
    <3>1. t \in Ahead(m, off + 1)
      BY <1>1, <1>6, <1>8, <2>1, <2>3 DEF Ahead
    <3>2. t.end - off <= MaxSpan
      BY <1>1, <2>1, <3>1 DEF Spanned
    <3> QED  BY <1>1, <1>6, <2>1, <3>2 DEF WeightAssumption
  <2> QED  BY <2>2, <2>3
<1> DEFINE Ends == {t.end : t \in Spanned(m, off)}
<1>10. Ends \in SUBSET Nat /\ Ends # {} /\ off + ArenaUnits \in Nat /\ \A y \in Ends : y <= off + ArenaUnits
  <2>1. off + ArenaUnits \in Nat /\ ArenaUnits \in Nat
    BY <1>6 DEF WeightAssumption
  <2>2. ASSUME NEW t \in Spanned(m, off) PROVE t.end \in Nat /\ t.end <= off + ArenaUnits
    <3>1. t.end \in Nat /\ t.end - off <= ArenaUnits
      BY <1>1, <1>2, <1>8, <1>9, <2>2
    <3> QED  BY <1>6, <2>1, <3>1
  <2> QED  BY <1>7, <2>1, <2>2
<1>11. end \in Ends /\ \A y \in Ends : y <= end
  <2>1. end = Max(Ends)
    BY DEF SpanEnd
  <2> HIDE DEF Ends
  <2> QED  BY <1>10, <2>1, MaxOfNats
<1>12. PICK l \in Spanned(m, off) : l.end = end
  BY <1>11
<1>13. end \in Nat /\ end - off <= ArenaUnits /\ b.end <= end /\ b.end \in Nat /\ off < b.end
  BY <1>1, <1>5, <1>6, <1>7, <1>9, <1>10, <1>11, <1>12
<1>14. off < end
  BY <1>6, <1>13
<1>15. ASSUME NEW t \in Prepared(m), c <= t.off, t.off < end
       PROVE  Inside(t, off, end)
  <2>1. t \in Ahead(m, c) /\ t \in Tensors[m] /\ l \in Tensors[m] /\ off <= l.off
    BY <1>2, <1>8, <1>15 DEF Ahead
  <2>2. off <= t.off
    BY <1>4, <2>1
  <2>3. l = t \/ l.end <= t.off \/ t.end <= l.off
    BY <1>1, <2>1
  <2>4. t.end <= end
    BY <1>1, <1>12, <1>13, <1>15, <2>1, <2>3
  <2> QED  BY <2>2, <2>4 DEF Inside
<1>16. ASSUME FullyReplaced(m, off, end) PROVE FALSE
  <2>1. PICK d \in derived : d.off <= off + SlackAt(off, off) /\ off < d.end
    <3>1. off \in {off} \cup {d.end : d \in derived} /\ off <= off
      BY <1>6
    <3> QED  BY <1>14, <1>16, <3>1 DEF FullyReplaced
  <2>2. d \in Tensors[m] /\ b \notin derived
    BY <1>6, <1>16, <2>1 DEF FullyReplaced, Replaces, Experts, Prepared
  <2>3. d.off <= off
    BY <1>1, <1>6, <2>1, <2>2 DEF SlackAt
  <2>4. d = b \/ d.end <= b.off \/ b.end <= d.off
    BY <1>1, <1>6, <2>2
  <2> QED  BY <1>1, <1>5, <1>6, <1>13, <2>1, <2>2, <2>3, <2>4
<1> QED  BY <1>6, <1>13, <1>14, <1>15, <1>16

-----------------------------------------------------------------------------
(* What is on the device stays there while ranges are only added           *)

Grown == ranges' = ranges \/ \E r \in Ranged : ranges' = Append(ranges, r)

LEMMA GrownKeeps ==
  ASSUME ranges \in Seq(Ranged), Grown
  PROVE  \A i \in DOMAIN ranges : i \in DOMAIN ranges' /\ ranges'[i] = ranges[i]
<1>1. CASE ranges' = ranges
  BY <1>1
<1>2. CASE \E r \in Ranged : ranges' = Append(ranges, r)
  <2>1. PICK r \in Ranged : ranges' = Append(ranges, r)
    BY <1>2
  <2>2. /\ Len(ranges) \in Nat /\ DOMAIN ranges = 1 .. Len(ranges) /\ DOMAIN ranges' = 1 .. Len(ranges) + 1
        /\ \A i \in 1 .. Len(ranges) : ranges'[i] = ranges[i]
    BY <2>1, Appended
  <2> QED  BY <2>2
<1> QED  BY <1>1, <1>2 DEF Grown

LEMMA CachedStays ==
  ASSUME ranges \in Seq(Ranged), Grown, UNCHANGED image,
         NEW m, NEW off, NEW end, IsCached(m, off, end)
  PROVE  IsCached(m, off, end)'
<1>1. \A i \in DOMAIN ranges : i \in DOMAIN ranges' /\ ranges'[i] = ranges[i]
  BY GrownKeeps
<1>2. CASE image # "none"
  BY <1>2 DEF IsCached
<1>3. CASE Holding(m, off, end) # {}
  <2>1. PICK i \in DOMAIN ranges : Covers(ranges[i], m, off, end)
    BY <1>3 DEF Holding
  <2>2. i \in Holding(m, off, end)'
    BY <1>1, <2>1 DEF Holding, Covers
  <2> QED  BY <2>2 DEF IsCached
<1> QED  BY <1>2, <1>3 DEF IsCached

LEMMA RecordedIsCached ==
  ASSUME ranges \in Seq(Ranged), NEW r \in Ranged, Record(r)
  PROVE  IsCached(r.map, r.off, r.end)'
<1>1. /\ Len(ranges) \in Nat /\ DOMAIN ranges' = 1 .. Len(ranges) + 1 /\ ranges'[Len(ranges) + 1] = r
  BY Appended DEF Record
<1>2. r.off \in Nat /\ r.end \in Nat
  BY DEF Ranged
<1>3. Len(ranges) + 1 \in Holding(r.map, r.off, r.end)'
  BY <1>1, <1>2 DEF Holding, Covers
<1> QED  BY <1>3 DEF IsCached

-----------------------------------------------------------------------------
(* Steps of the start of the engine *)

(* What the start knows of the range it asked for. *)
Spanning(off, end) ==
  ~opened => /\ here \in {4, 7} /\ off \in Nat /\ end \in Nat
             /\ \A t \in Prepared(base) : from <= t.off /\ t.off < end => Inside(t, off, end)

LEMMA StartInit ==
  ASSUME WeightInit
  PROVE  FdSound /\ StartSound
<1>1. Len(startup) \in {5, 9}
  BY StartupIs DEF WeightInit
<1>2. Uploading("none") /\ startup \in Startups /\ here = 1 /\ from = 0 /\ ~opened /\ opened \in BOOLEAN
  BY DEF WeightInit, Uploading, NoUpload
<1>3. FdSound
  BY <1>2 DEF WeightInit, FdSound, Files
<1>4. here \in Nat /\ here <= Len(startup) /\ here \notin {3, 4, 6, 7} /\ here \notin {5, 8, 9}
  <2>1. CASE Len(startup) = 5
    BY <1>2, <2>1
  <2>2. CASE Len(startup) = 9
    BY <1>2, <2>2
  <2> QED  BY <1>1, <2>1, <2>2
<1>5. from \in Nat
  BY <1>2
<1>6. StartSound
  BY <1>2, <1>4, <1>5 DEF StartSound
<1> QED  BY <1>3, <1>6

(* Nothing about the start changes but the upload it waits for. *)
LEMMA StartKept ==
  ASSUME FdSound, StartSound, Grown, ranges \in Seq(Ranged),
         UNCHANGED <<startup, here, from, opened, derived, base, image, fd, fdBase>>,
         \/ Uploading("none")'
         \/ opened
         \/ upload'.map = base /\ Spanning(upload'.off, upload'.end)
  PROVE  FdSound' /\ StartSound'
<1>1. FdSound'
  BY DEF FdSound
<1>2. \A t : t \in Prepared(base)' <=> t \in Prepared(base)
  BY DEF Prepared, Replaces
<1>3. Ready => Ready'
  <2>1. ASSUME Ready, NEW t \in Prepared(base) PROVE IsCached(base, t.off, t.end)'
    BY <2>1, CachedStays DEF Ready
  <2> QED  BY <1>2, <2>1 DEF Ready
<1>4. ReadyTo(from) => ReadyTo(from)'
  <2>1. ASSUME ReadyTo(from), NEW t \in Prepared(base), t.off < from PROVE IsCached(base, t.off, t.end)'
    BY <2>1, CachedStays DEF ReadyTo
  <2> QED  BY <1>2, <2>1 DEF ReadyTo
<1>5. ~opened /\ ~Uploading("none")' =>
        /\ here \in {4, 7} /\ upload'.map = base
        /\ \A t \in Prepared(base)' :
             from <= t.off /\ t.off < upload'.end => Inside(t, upload'.off, upload'.end)
  BY <1>2 DEF Spanning
<1> QED  BY <1>1, <1>3, <1>4, <1>5 DEF StartSound, File, Uploading, Inside

(* The answer to what it asked for. *)
LEMMA StartAnswered ==
  ASSUME WeightAssumption, FdSound, StartSound, Grown, ranges \in Seq(Ranged), Uploading("none")',
         ranges' \in Seq(Ranged),
         UNCHANGED <<derived, base, image, fd, fdBase>>,
         NEW off, NEW end, Spanning(off, end), NEW cached \in BOOLEAN, Answered(end, cached),
         ~opened /\ cached => IsCached(base, off, end)'
  PROVE  FdSound' /\ StartSound'
<1>1. startup' = startup /\ opened' = opened
  BY DEF Answered
<1>2. CASE opened
  <2>1. UNCHANGED <<here, from>>
    BY <1>2 DEF Answered
  <2> QED  BY <1>1, <2>1, StartKept
<1>3. CASE ~opened /\ ~cached
  <2>1. here' = 0 /\ from' = 0
    BY <1>3 DEF Answered
  <2>2. fdBase # NoFile
    BY <1>3 DEF FdSound, Spanning
  <2>3. FdSound'
    BY <2>2 DEF FdSound
  <2>4. StartSound'
    <3>1. Len(startup) \in {5, 9}
      BY StartupIs DEF StartSound
    <3> QED  BY <1>1, <1>3, <2>1, <3>1 DEF StartSound, Uploading
  <2> QED  BY <2>3, <2>4
<1>4. CASE ~opened /\ cached
  <2>1. from' = end /\ here' = here /\ here \in {4, 7} /\ off \in Nat /\ end \in Nat
    BY <1>4 DEF Answered, Spanning
  <2>2. /\ base \in Files /\ ReadyTo(from) /\ from \in Nat
        /\ \A t \in Prepared(base) : from <= t.off /\ t.off < end => Inside(t, off, end)
    BY <1>4, <2>1, Whereabouts DEF StartSound, Spanning
  <2>3. FdSound'
    BY <1>1, <2>1 DEF FdSound
  <2>4. \A t \in Prepared(base) : t.off \in Nat /\ t.end \in Nat
    BY <2>2 DEF Prepared, WeightAssumption
  <2>5. \A t : t \in Prepared(base)' <=> t \in Prepared(base)
    BY DEF Prepared, Replaces
  <2>6. ASSUME NEW t \in Prepared(base), t.off < end
        PROVE  IsCached(base, t.off, t.end)'
    <3>1. t.off \in Nat /\ t.end \in Nat
      BY <2>4
    <3>2. CASE t.off < from
      <4>1. IsCached(base, t.off, t.end)
        BY <2>2, <3>2 DEF ReadyTo
      <4> QED  BY <4>1, CachedStays
    <3>3. CASE from <= t.off
      <4>1. off <= t.off /\ t.end <= end
        BY <2>2, <2>6, <3>3 DEF Inside
      <4>2. IsCached(base, off, end)' /\ base' = base
        BY <1>4
      <4>3. \A i \in DOMAIN ranges' : ranges'[i] \in Ranged
        BY ElementOfSeq, LenProperties
      <4>4. CASE image' # "none"
        BY <4>4 DEF IsCached
      <4>5. CASE Holding(base, off, end)' # {}
        <5>1. PICK i \in DOMAIN ranges' : Covers(ranges[i], base, off, end)'
          BY <4>5 DEF Holding
        <5>2. ranges'[i].off \in Nat /\ ranges'[i].end \in Nat
          BY <4>3 DEF Ranged
        <5>3. Covers(ranges[i], base, t.off, t.end)'
          BY <2>1, <3>1, <4>1, <5>1, <5>2 DEF Covers
        <5>4. i \in Holding(base, t.off, t.end)'
          BY <5>1, <5>3 DEF Holding
        <5> QED  BY <5>4 DEF IsCached
      <4> QED  BY <4>2, <4>4, <4>5 DEF IsCached
    <3> QED  BY <2>2, <3>1, <3>2, <3>3
  <2>7. ReadyTo(from)'
    BY <2>1, <2>5, <2>6 DEF ReadyTo
  <2>8. StartSound'
    BY <1>1, <1>4, <2>1, <2>7 DEF StartSound, File, Uploading
  <2> QED  BY <2>3, <2>8
<1> QED  BY <1>2, <1>3, <1>4

LEMMA StartLookup ==
  ASSUME WeightAssumption, FdSound, StartSound, ranges \in Seq(Ranged), Uploading("none"),
         NEW m \in Files, NEW off \in Nat, NEW end \in Nat, Lookup(m, off, end),
         Spanning(off, end), ~opened => m = base,
         UNCHANGED <<derived, base, image, fd, fdBase, ranges>>
  PROVE  FdSound' /\ StartSound'
<1>1. Grown /\ ranges' \in Seq(Ranged)
  BY DEF Grown, Ranged
<1>2. CASE IsCached(m, off, end) /\ Answered(end, TRUE) /\ UNCHANGED upload
  <2>1. Uploading("none")'
    BY <1>2 DEF Uploading
  <2>2. ~opened => IsCached(base, off, end)'
    BY <1>1, <1>2, CachedStays
  <2> QED  BY <1>1, <1>2, <2>1, <2>2, StartAnswered
<1>3. CASE Answered(end, FALSE) /\ UNCHANGED upload
  <2>1. Uploading("none")'
    BY <1>3 DEF Uploading
  <2> QED  BY <1>1, <1>3, <2>1, StartAnswered
<1>4. CASE /\ UNCHANGED <<startup, here, from, opened>>
           /\ upload'.map = m /\ upload'.off = off /\ upload'.end = end
  BY <1>1, <1>4, StartKept
<1>5. \/ IsCached(m, off, end) /\ Answered(end, TRUE) /\ UNCHANGED upload
      \/ Answered(end, FALSE) /\ UNCHANGED upload
      \/ /\ UNCHANGED <<startup, here, from, opened>>
         /\ upload'.map = m /\ upload'.off = off /\ upload'.end = end
  <2> DEFINE need == end - off
             room == {a \in DOMAIN used : used[a] + need <= ArenaUnits}
             a == IF room # {} THEN Min(room) ELSE Len(used) + 1
             x == IF room # {} THEN used[a] ELSE 0
  <2>1. \/ IsCached(m, off, end) /\ Answered(end, TRUE) /\ UNCHANGED upload
        \/ Answered(end, FALSE) /\ UNCHANGED upload
        \/ /\ UNCHANGED <<startup, here, from, opened>>
           /\ \/ upload' = [map |-> m, off |-> off, end |-> end, step |-> "fallback"]
              \/ upload' = [map |-> m, off |-> off, end |-> end, step |-> "read", k |-> 0, arena |-> a, at |-> x]
    BY DEF Lookup
  <2> HIDE DEF a, x
  <2>2. CASE upload' = [map |-> m, off |-> off, end |-> end, step |-> "fallback"]
    BY <2>1, <2>2
  <2>3. CASE upload' = [map |-> m, off |-> off, end |-> end, step |-> "read", k |-> 0, arena |-> a, at |-> x]
    BY <2>1, <2>3
  <2> QED  BY <2>1, <2>2, <2>3
<1> QED  BY <1>2, <1>3, <1>4, <1>5

-----------------------------------------------------------------------------
(* Every step *)

LEMMA InvPrepareSpan ==
  ASSUME WeightAssumption, WeightInv, PrepareSpan
  PROVE  WeightInv'
<1> DEFINE off == Min({t.off : t \in Ahead(File, from)})
           end == SpanEnd(File, off)
<1>1. /\ MemorySound /\ FdSound /\ StartSound /\ ranges \in Seq(Ranged)
      /\ ~opened /\ here # 0 /\ Uploading("none") /\ startup[here].op = "prepare"
  BY DEF WeightInv, PrepareSpan, At, MemorySound, WeightTyped
<1>2. here \in {4, 7} /\ base = File /\ File \in Files /\ from \in Nat
  BY <1>1, Whereabouts DEF StartSound
<1>3. Ahead(File, from) # {}
  BY DEF PrepareSpan
<1>4. /\ off \in Nat /\ end \in Nat /\ from <= off /\ off < end /\ end - off <= ArenaUnits
      /\ ~FullyReplaced(File, off, end)
      /\ \A t \in Prepared(File) : from <= t.off /\ t.off < end => Inside(t, off, end)
  BY <1>2, <1>3, SpanShape
<1>5. Lookup(File, off, end)
  BY <1>4 DEF PrepareSpan
<1>6. UNCHANGED <<derived, base, image, fd, fdBase, fails, ranges, device, stage, flight>>
  BY DEF PrepareSpan
<1> HIDE DEF off, end
<1>7. Spanning(off, end)
  BY <1>2, <1>4 DEF Spanning
<1>8. FdSound' /\ StartSound'
  BY <1>1, <1>2, <1>4, <1>5, <1>6, <1>7, StartLookup
<1>9. fdBase \in {NoFile, File} => fd = File
  BY <1>1, <1>2 DEF FdSound
<1>10. MemorySound'
  BY <1>1, <1>2, <1>4, <1>5, <1>6, <1>9, MemoryLookup
<1> QED  BY <1>8, <1>10 DEF WeightInv

LEMMA InvLaunchAsks ==
  ASSUME WeightAssumption, WeightInv, LaunchAsks
  PROVE  WeightInv'
<1>1. /\ MemorySound /\ FdSound /\ StartSound /\ ranges \in Seq(Ranged)
      /\ opened /\ Uploading("none")
  BY DEF WeightInv, LaunchAsks, MemorySound, WeightTyped
<1>2. PICK m \in Files : \E t \in Prepared(m) : Lookup(m, t.off, t.end)
  BY DEF LaunchAsks
<1>3. PICK t \in Prepared(m) : Lookup(m, t.off, t.end)
  BY <1>2
<1>4. t.off \in Nat /\ t.end \in Nat /\ t.off < t.end /\ t.end - t.off <= ArenaUnits
  BY DEF Prepared, WeightAssumption
<1>5. UNCHANGED <<derived, base, image, fd, fdBase, fails, ranges, device, stage, flight>>
  BY DEF LaunchAsks
<1>6. Spanning(t.off, t.end)
  BY <1>1 DEF Spanning
<1>7. FdSound' /\ StartSound'
  BY <1>1, <1>3, <1>4, <1>5, <1>6, StartLookup
<1>8. fdBase \in {NoFile, m} => fd = m
  BY <1>1 DEF FdSound
<1>9. MemorySound'
  BY <1>1, <1>3, <1>4, <1>5, <1>8, MemoryLookup
<1> QED  BY <1>7, <1>9 DEF WeightInv

(* The steps of the loader and of the copy engine do not move the start.   *)
LEMMA InvInside ==
  ASSUME WeightAssumption, WeightInv, ReadStage \/ QueueCopy \/ CopyEngine
  PROVE  WeightInv'
<1>1. MemorySound /\ FdSound /\ StartSound /\ ranges \in Seq(Ranged)
  BY DEF WeightInv, MemorySound, WeightTyped
<1>2. MemorySound'
  BY <1>1, MemoryReadStage, MemoryQueueCopy, MemoryCopyEngine
<1>3. /\ UNCHANGED <<startup, here, from, opened, derived, base, image, fd, fdBase, ranges>>
      /\ Uploading("none")' \/ ~Uploading("none")
      /\ ~Uploading("none") => upload'.map = upload.map /\ upload'.off = upload.off /\ upload'.end = upload.end
  <2>1. CASE ReadStage \/ QueueCopy
    <3>1. upload \in Streams
      BY <1>1, <2>1, MemoryTypes DEF ReadStage, QueueCopy, Uploading, Streaming
    <3>2. UNCHANGED <<startup, here, from, opened, derived, base, image, fd, fdBase, ranges>>
      BY <2>1 DEF ReadStage, QueueCopy
    <3>3. ~Uploading("none")
      BY <3>1 DEF Streams, Uploading
    <3>4. \/ upload' = [map |-> upload.map, off |-> upload.off, end |-> upload.end, step |-> "fallback"]
          \/ upload' = [upload EXCEPT !.step = "copy"]
          \/ upload' = [upload EXCEPT !.step = "read", !.k = @ + 1]
      BY <2>1 DEF ReadStage, QueueCopy, GiveUp
    <3>5. upload'.map = upload.map /\ upload'.off = upload.off /\ upload'.end = upload.end
      <4>1. CASE upload' = [map |-> upload.map, off |-> upload.off, end |-> upload.end, step |-> "fallback"]
        BY <4>1
      <4>2. CASE upload' = [upload EXCEPT !.step = "copy"]
        BY <3>1, <4>2 DEF Streams
      <4>3. CASE upload' = [upload EXCEPT !.step = "read", !.k = @ + 1]
        BY <3>1, <4>3 DEF Streams
      <4> QED  BY <3>4, <4>1, <4>2, <4>3
    <3> QED  BY <3>2, <3>3, <3>5
  <2>2. CASE CopyEngine
    BY <2>2 DEF CopyEngine, Uploading
  <2> QED  BY <2>1, <2>2
<1>4. ~Uploading("none") /\ ~opened =>
        upload.map = base /\ upload.off \in Nat /\ upload.end \in Nat /\ Spanning(upload.off, upload.end)
  BY <1>1 DEF MemorySound, WeightTyped, StartSound, Spanning, Uploading, NoUpload, Fallbacks, Streams
<1>5. Grown
  BY <1>3 DEF Grown
<1>6. \/ Uploading("none")'
      \/ opened
      \/ upload'.map = base /\ Spanning(upload'.off, upload'.end)
  BY <1>3, <1>4
<1>7. FdSound' /\ StartSound'
  BY <1>1, <1>3, <1>5, <1>6, StartKept
<1> QED  BY <1>2, <1>7 DEF WeightInv

LEMMA InvFinishUpload ==
  ASSUME WeightAssumption, WeightInv, FinishUpload
  PROVE  WeightInv'
<1>1. MemorySound /\ FdSound /\ StartSound /\ ranges \in Seq(Ranged)
  BY DEF WeightInv, MemorySound, WeightTyped
<1>2. MemorySound' /\ ranges' \in Seq(Ranged)
  <2>1. MemorySound'
    BY <1>1, MemoryFinishUpload
  <2>2. Ranged' = Ranged
    BY DEF Ranged
  <2> QED  BY <2>1, <2>2 DEF MemorySound, WeightTyped
<1>3. /\ UNCHANGED <<derived, base, image, fd, fdBase>>
      /\ Streaming /\ ~Uploading("none")
  BY DEF FinishUpload, Streaming, Uploading
<1>4. /\ upload \in Streams /\ upload.off \in Nat /\ upload.end \in Nat
      /\ ~opened => upload.map = base /\ Spanning(upload.off, upload.end)
  BY <1>1, <1>3, MemoryTypes DEF Streams, StartSound, Spanning
<1>5. PICK off \in Nat, end \in Nat : off = upload.off /\ end = upload.end
  BY <1>4
<1> DEFINE r == [map |-> upload.map, off |-> upload.off, end |-> upload.end, how |-> "arena",
                 arena |-> upload.arena, at |-> upload.at]
<1>6. CASE Record(r) /\ upload' = NoUpload /\ Answered(upload.end, TRUE)
  <2>1. r \in Ranged /\ r.map = upload.map /\ r.off = off /\ r.end = end
    BY <1>4, <1>5 DEF Ranged, Streams
  <2> HIDE DEF r
  <2>2. PICK q \in Ranged : Record(q) /\ q.map = upload.map /\ q.off = off /\ q.end = end
    BY <1>6, <2>1
  <2>3. IsCached(q.map, q.off, q.end)' /\ Grown
    BY <1>1, <2>2, RecordedIsCached DEF Record, Grown
  <2>4. Uploading("none")'
    BY <1>6 DEF Uploading, NoUpload
  <2>5. Spanning(off, end) /\ Answered(end, TRUE) /\ (~opened => IsCached(base, off, end)')
    <3>1. Spanning(off, end) /\ Answered(end, TRUE)
      BY <1>4, <1>6, <1>5 DEF Spanning
    <3>2. ~opened => q.map = base' /\ q.off = off /\ q.end = end
      BY <1>3, <1>4, <2>2
    <3> QED  BY <2>3, <3>1, <3>2
  <2>6. FdSound' /\ StartSound'
    BY <1>1, <1>2, <1>3, <2>3, <2>4, <2>5, StartAnswered
  <2> QED  BY <1>2, <2>6 DEF WeightInv
<1>7. CASE GiveUp /\ UNCHANGED <<startup, here, from, opened, ranges>>
  <2>1. upload'.map = upload.map /\ upload'.off = upload.off /\ upload'.end = upload.end
    BY <1>7 DEF GiveUp
  <2>2. Grown
    BY <1>7 DEF Grown
  <2>3. opened \/ (upload'.map = base /\ Spanning(upload'.off, upload'.end))
    BY <1>4, <2>1
  <2>4. FdSound' /\ StartSound'
    BY <1>1, <1>3, <1>7, <2>2, <2>3, StartKept
  <2> QED  BY <1>2, <2>4 DEF WeightInv
<1> QED  BY <1>6, <1>7 DEF FinishUpload

LEMMA InvFallback ==
  ASSUME WeightAssumption, WeightInv, Fallback
  PROVE  WeightInv'
<1>1. MemorySound /\ FdSound /\ StartSound /\ ranges \in Seq(Ranged)
  BY DEF WeightInv, MemorySound, WeightTyped
<1>2. MemorySound' /\ ranges' \in Seq(Ranged)
  <2>1. MemorySound'
    BY <1>1, MemoryFallback
  <2>2. Ranged' = Ranged
    BY DEF Ranged
  <2> QED  BY <2>1, <2>2 DEF MemorySound, WeightTyped
<1>3. UNCHANGED <<derived, base, image, fd, fdBase>> /\ Uploading("none")' /\ ~Uploading("none")
  BY DEF Fallback, Uploading, NoUpload
<1>4. /\ upload \in Fallbacks /\ upload.off \in Nat /\ upload.end \in Nat
      /\ ~opened => upload.map = base /\ Spanning(upload.off, upload.end)
  BY <1>1, <1>3 DEF MemorySound, WeightTyped, Fallback, Uploading, NoUpload, Fallbacks, Streams, StartSound, Spanning
<1>5. PICK off \in Nat, end \in Nat : off = upload.off /\ end = upload.end
  BY <1>4
<1>6. Spanning(off, end)
  BY <1>4, <1>5 DEF Spanning
<1> DEFINE r == [map |-> upload.map, off |-> upload.off, end |-> upload.end, how |-> "own"]
<1>7. CASE Answered(upload.end, TRUE) /\ Record(r)
  <2>1. r \in Ranged /\ r.map = upload.map /\ r.off = off /\ r.end = end
    BY <1>4, <1>5 DEF Ranged, Fallbacks
  <2> HIDE DEF r
  <2>2. PICK q \in Ranged : Record(q) /\ q.map = upload.map /\ q.off = off /\ q.end = end
    BY <1>7, <2>1
  <2>3. IsCached(q.map, q.off, q.end)' /\ Grown
    BY <1>1, <2>2, RecordedIsCached DEF Record, Grown
  <2>4. ~opened => IsCached(base, off, end)'
    <3>1. ~opened => q.map = base' /\ q.off = off /\ q.end = end
      BY <1>3, <1>4, <2>2
    <3> QED  BY <2>3, <3>1
  <2>5. Answered(end, TRUE)
    BY <1>7, <1>5
  <2>6. FdSound' /\ StartSound'
    BY <1>1, <1>2, <1>3, <1>6, <2>3, <2>4, <2>5, StartAnswered
  <2> QED  BY <1>2, <2>6 DEF WeightInv
<1>8. CASE Answered(upload.end, FALSE) /\ UNCHANGED ranges
  <2>1. Grown
    BY <1>8 DEF Grown
  <2>2. Answered(end, FALSE)
    BY <1>8, <1>5
  <2>3. FdSound' /\ StartSound'
    BY <1>1, <1>2, <1>3, <1>6, <2>1, <2>2, StartAnswered
  <2> QED  BY <1>2, <2>3 DEF WeightInv
<1> QED  BY <1>7, <1>8 DEF Fallback

(* The calls of the start that load nothing. *)
LEMMA InvCalls ==
  ASSUME WeightAssumption, WeightInv, BuildArtifacts \/ SetFd \/ EngineOpen \/ PrepareDone
  PROVE  WeightInv'
<1>1. /\ MemorySound /\ FdSound /\ StartSound /\ ranges \in Seq(Ranged) /\ Uploading("none")
      /\ ~opened /\ here # 0 /\ startup' = startup /\ here' = here + 1 /\ from' = 0
      /\ UNCHANGED <<base, image, ranges, used, device, stage, flight, upload>>
  BY DEF WeightInv, MemorySound, WeightTyped, BuildArtifacts, SetFd, EngineOpen, PrepareDone, At, GoOn
<1>2. MemorySound'
  BY <1>1, MemoryKept
<1>3. /\ here \in 1 .. Len(startup) /\ File \in Files /\ here + 1 \in Nat /\ Uploading("none")'
      /\ startup \in Startups /\ opened \in BOOLEAN /\ Len(startup) \in {5, 9}
  BY <1>1, Whereabouts DEF Uploading, StartSound
<1>4. ASSUME Grown, UNCHANGED derived
      PROVE  (Ready => Ready') /\ (base \in Files => ReadyTo(0)')
  <2>1. \A t : t \in Prepared(base)' <=> t \in Prepared(base)
    BY <1>1, <1>4 DEF Prepared, Replaces
  <2>2. ASSUME Ready, NEW t \in Prepared(base) PROVE IsCached(base, t.off, t.end)'
    BY <1>1, <1>4, <2>2, CachedStays DEF Ready
  <2>3. base \in Files => \A t \in Prepared(base) : t.off \in Nat
    BY DEF Prepared, WeightAssumption
  <2>4. base' = base
    BY <1>1
  <2> QED  BY <2>1, <2>2, <2>3, <2>4 DEF Ready, ReadyTo
<1>5. Grown
  BY <1>1 DEF Grown
<1>6. CASE BuildArtifacts
  <2>1. here = 1 /\ here' = 2 /\ ~opened' /\ opened' \in BOOLEAN /\ UNCHANGED <<fd, fdBase>> /\ here + 1 <= Len(startup)
    <3>1. startup[here].op = "build" /\ opened' = opened /\ UNCHANGED <<fd, fdBase>>
      BY <1>6 DEF BuildArtifacts, At
    <3>2. here = 1 /\ here + 1 <= Len(startup)
      BY <1>1, <3>1, Whereabouts
    <3> QED  BY <1>1, <1>3, <3>1, <3>2
  <2>2. FdSound'
    BY <1>1, <2>1 DEF FdSound
  <2>3. StartSound'
    BY <1>1, <1>3, <2>1 DEF StartSound
  <2> QED  BY <1>2, <2>2, <2>3 DEF WeightInv
<1>7. CASE SetFd
  <2>1. /\ here \in {3, 6, 8} /\ (here # 8 => startup[here + 1].map = File) /\ here + 1 <= Len(startup)
        /\ ~opened' /\ opened' \in BOOLEAN /\ fd' = File /\ fdBase' = File /\ derived' = derived
    <3>1. /\ startup[here].op = "fd" /\ opened' = opened /\ fd' = File /\ fdBase' = File
          /\ derived' = derived
      BY <1>7 DEF SetFd, At
    <3>2. here \in {3, 6, 8} /\ (here # 8 => startup[here + 1].map = File) /\ here + 1 <= Len(startup)
      BY <1>1, <3>1, Whereabouts
    <3> QED  BY <1>1, <1>3, <3>1, <3>2
  <2>2. FdSound'
    BY <1>3, <2>1 DEF FdSound, WeightAssumption
  <2>3. here' \in {4, 7, 9}
    BY <1>1, <2>1
  <2>4. CASE here' = 9
    <3>1. base \in Files /\ Ready
      BY <1>1, <2>1, <2>4 DEF StartSound
    <3>2. base' \in Files /\ Ready'
      BY <1>1, <1>4, <1>5, <2>1, <3>1
    <3>3. StartSound'
      BY <1>1, <1>3, <2>1, <2>4, <3>2 DEF StartSound
    <3> QED  BY <1>2, <2>2, <3>3 DEF WeightInv
  <2>5. CASE here' \in {4, 7}
    <3>1. here \in {3, 6}
      BY <1>1, <2>1, <2>5
    <3>2. base = File
      BY <1>1, <3>1 DEF StartSound
    <3>3. base' = File' /\ ReadyTo(from)'
      BY <1>1, <1>3, <1>4, <1>5, <2>1, <3>1, <3>2 DEF File
    <3>4. StartSound'
      BY <1>1, <1>3, <2>1, <2>5, <3>3 DEF StartSound
    <3> QED  BY <1>2, <2>2, <3>4 DEF WeightInv
  <2> QED  BY <2>3, <2>4, <2>5
<1>8. CASE EngineOpen
  <2>1. here \in {5, 9} /\ opened' = TRUE /\ UNCHANGED <<fd, fdBase, derived>>
    <3>1. startup[here].op = "open" /\ opened' = TRUE /\ UNCHANGED <<fd, fdBase, derived>>
      BY <1>8 DEF EngineOpen, At
    <3> QED  BY <1>1, <3>1, Whereabouts
  <2>2. base' \in Files /\ Ready'
    BY <1>1, <1>4, <1>5, <2>1 DEF StartSound
  <2>3. FdSound'
    BY <1>1, <2>1 DEF FdSound
  <2>4. StartSound'
    BY <1>1, <1>3, <2>1, <2>2 DEF StartSound
  <2> QED  BY <1>2, <2>3, <2>4 DEF WeightInv
<1>9. CASE PrepareDone
  <2>1. /\ here \in {4, 7} /\ ~opened' /\ opened' \in BOOLEAN /\ UNCHANGED <<fd, fdBase, derived>>
        /\ here + 1 <= Len(startup) /\ Ahead(File, from) = {}
    <3>1. /\ startup[here].op = "prepare" /\ opened' = opened /\ UNCHANGED <<fd, fdBase, derived>>
          /\ Ahead(File, from) = {}
      BY <1>9 DEF PrepareDone, At
    <3>2. here \in {4, 7} /\ here + 1 <= Len(startup)
      BY <1>1, <3>1, Whereabouts
    <3> QED  BY <1>1, <1>3, <3>1, <3>2
  <2>2. base = File /\ ReadyTo(from) /\ from \in Nat
    BY <1>1, <2>1 DEF StartSound
  <2>3. Ready
    <3>1. ASSUME NEW t \in Prepared(base) PROVE IsCached(base, t.off, t.end)
      <4>1. t.off \in Nat
        BY <1>3, <2>2 DEF Prepared, WeightAssumption
      <4>2. ~(from <= t.off)
        BY <2>1, <2>2 DEF Ahead
      <4> QED  BY <2>2, <4>1, <4>2 DEF ReadyTo
    <3> QED  BY <3>1 DEF Ready
  <2>4. base' \in Files /\ Ready'
    BY <1>1, <1>3, <1>4, <1>5, <2>1, <2>2, <2>3
  <2>5. FdSound'
    BY <1>1, <2>1 DEF FdSound
  <2>6. here' \in {5, 8}
    BY <1>1, <2>1
  <2>7. StartSound'
    BY <1>1, <1>3, <2>1, <2>4, <2>6 DEF StartSound
  <2> QED  BY <1>2, <2>5, <2>7 DEF WeightInv
<1> QED  BY <1>6, <1>7, <1>8, <1>9

LEMMA InvRegister ==
  ASSUME WeightAssumption, WeightInv, Register
  PROVE  WeightInv'
<1>1. /\ MemorySound /\ FdSound /\ StartSound /\ Uploading("none")
      /\ ~opened /\ here # 0 /\ startup[here].op = "register"
      /\ startup' = startup /\ here' = here + 1 /\ from' = 0 /\ opened' = opened
      /\ base' = File /\ fd' = fd /\ fdBase' = IF fdBase = NoFile THEN File ELSE fdBase
      /\ ranges' = <<>> /\ used' = <<>> /\ device' = Fresh /\ flight' = <<>> /\ stage' = stage /\ upload' = upload
  BY DEF WeightInv, Register, At, GoOn
<1>2. /\ here \in {2, 5} /\ here \in 1 .. Len(startup) /\ File \in Files /\ here + 1 <= Len(startup)
      /\ startup[here + 1].map = File /\ (here = 2 => File = Target)
  BY <1>1, Whereabouts
<1>3. MemorySound'
  BY <1>1, MemoryFreed DEF MemorySound, WeightTyped
<1>4. here' \in {3, 6} /\ Uploading("none")'
  BY <1>1, <1>2 DEF Uploading
<1>5. FdSound'
  <2>1. CASE fdBase = NoFile
    <3>1. here = 2 /\ fd = Target /\ fdBase' = Target /\ Target # NoFile
      BY <1>1, <1>2, <2>1 DEF FdSound, WeightAssumption, Files
    <3> QED  BY <1>1, <3>1 DEF FdSound, Files
  <2>2. CASE fdBase # NoFile
    BY <1>1, <2>2 DEF FdSound
  <2> QED  BY <2>1, <2>2
<1>6. File' = File
  BY <1>1, <1>2 DEF File
<1>7. ReadyTo(from)'
  <2>1. ASSUME NEW t \in Prepared(base)' PROVE ~(t.off < 0)
    <3>1. t \in Tensors[base'] /\ base' \in Files
      BY <1>1, <1>2 DEF Prepared
    <3> QED  BY <3>1 DEF WeightAssumption
  <2> QED  BY <1>1, <2>1 DEF ReadyTo
<1>8. StartSound'
  BY <1>1, <1>2, <1>4, <1>6, <1>7 DEF StartSound
<1> QED  BY <1>3, <1>5, <1>8 DEF WeightInv

LEMMA InvClose ==
  ASSUME WeightAssumption, WeightInv, Close
  PROVE  WeightInv'
<1>1. MemorySound /\ Uploading("none")
  BY DEF WeightInv, Close
<1>2. DOMAIN stage' = 0 .. StageBuffers - 1
  BY DEF Close
<1>3. MemorySound'
  BY <1>1, <1>2, MemoryFreed DEF Close
<1>4. startup' \in Startups /\ here' = 1 /\ from' = 0 /\ ~opened' /\ opened' \in BOOLEAN /\ Uploading("none")'
  BY <1>1 DEF Close, Uploading
<1>5. here' \in Nat /\ here' <= Len(startup') /\ here' \notin {3, 4, 6, 7} /\ here' \notin {5, 8, 9}
  <2>1. Len(startup') = 5 \/ Len(startup') = 9
    BY <1>4, StartupIs
  <2>2. CASE Len(startup') = 5
    BY <1>4, <2>2
  <2>3. CASE Len(startup') = 9
    BY <1>4, <2>3
  <2> QED  BY <2>1, <2>2, <2>3
<1>6. from' \in Nat
  BY <1>4
<1>7. StartSound'
  BY <1>4, <1>5, <1>6 DEF StartSound
<1>8. FdSound'
  BY <1>4 DEF FdSound, Close, Files
<1> QED  BY <1>3, <1>7, <1>8 DEF WeightInv

(* The invariant of the weights: what was recorded holds its bytes and is  *)
(* out of the way of every copy in flight, the upload on its way has its   *)
(* units in their buffers, and the start of the engine has loaded what it  *)
(* has passed (cuda_model_range_ptr_from_fd, accelerator_prepare_model_    *)
(* tensor_spans).                                                          *)
THEOREM WeightsKept ==
  ASSUME WeightAssumption
  PROVE  WeightSpec => []WeightInv
<1>1. WeightInit => WeightInv
  BY MemoryInit, StartInit DEF WeightInv
<1>2. WeightInv /\ [WeightNext]_wvars => WeightInv'
  <2> SUFFICES ASSUME WeightInv, [WeightNext]_wvars PROVE WeightInv'
    OBVIOUS
  <2>1. CASE UNCHANGED wvars
    <3>1. MemorySound'
      BY <2>1, MemoryKept DEF WeightInv, wvars
    <3>2. ranges \in Seq(Ranged) /\ Grown
      BY <2>1 DEF WeightInv, MemorySound, WeightTyped, wvars, Grown
    <3>3. FdSound /\ StartSound /\ UNCHANGED <<startup, here, from, opened, derived, base, image, fd, fdBase, upload>>
      BY <2>1 DEF WeightInv, wvars
    <3>4. ~Uploading("none") /\ ~opened => upload.map = base /\ Spanning(upload.off, upload.end)
      BY <3>3 DEF WeightInv, MemorySound, WeightTyped, StartSound, Spanning, Uploading, NoUpload, Fallbacks, Streams
    <3>5. \/ Uploading("none")'
          \/ opened
          \/ upload'.map = base /\ Spanning(upload'.off, upload'.end)
      BY <3>3, <3>4 DEF Uploading
    <3>6. FdSound' /\ StartSound'
      BY <3>2, <3>3, <3>5, StartKept
    <3> QED  BY <3>1, <3>6 DEF WeightInv
  <2>2. CASE BuildArtifacts \/ SetFd \/ EngineOpen \/ PrepareDone
    BY <2>2, InvCalls
  <2>3. CASE Register
    BY <2>3, InvRegister
  <2>4. CASE PrepareSpan
    BY <2>4, InvPrepareSpan
  <2>5. CASE LaunchAsks
    BY <2>5, InvLaunchAsks
  <2>6. CASE ReadStage \/ QueueCopy \/ CopyEngine
    BY <2>6, InvInside
  <2>7. CASE FinishUpload
    BY <2>7, InvFinishUpload
  <2>8. CASE Fallback
    BY <2>8, InvFallback
  <2>9. CASE Close
    BY <2>9, InvClose
  <2> QED  BY <2>1, <2>2, <2>3, <2>4, <2>5, <2>6, <2>7, <2>8, <2>9 DEF WeightNext
<1> QED  BY <1>1, <1>2, PTL DEF WeightSpec

(* What a lookup returns is one of the ranges that hold what it asked for. *)
LEMMA FoundHolds ==
  ASSUME ranges \in Seq(Ranged), NEW m, NEW off, NEW end, Holding(m, off, end) # {}
  PROVE  Found(m, off, end) \in Holding(m, off, end)
<1> DEFINE H == Holding(m, off, end)
           exact == NewestAt(off) \cap H
<1>1. H \in SUBSET Nat /\ exact \in SUBSET Nat
  BY LenProperties DEF Holding
<1>2. CASE exact # {}
  <2>1. Found(m, off, end) = Min(exact)
    BY <1>2 DEF Found
  <2> HIDE DEF exact
  <2>2. Min(exact) \in exact
    BY <1>1, <1>2, MinOfNats
  <2> QED  BY <2>1, <2>2 DEF exact
<1>3. CASE exact = {}
  <2>1. Found(m, off, end) = Min(H)
    BY <1>3 DEF Found
  <2> HIDE DEF H, exact
  <2>2. Min(H) \in H
    BY <1>1, MinOfNats DEF H
  <2> QED  BY <2>1, <2>2 DEF H
<1> QED  BY <1>2, <1>3

(* No launch is ever given another tensor's bytes, a byte that was not     *)
(* copied yet or one that a late copy overwrote, whatever uploads failed   *)
(* before it (cuda_model_range_ptr).                                       *)
THEOREM LookupsAreTrue ==
  ASSUME WeightAssumption
  PROVE  WeightSpec => []LookupsTrue
<1>1. WeightInv => LookupsTrue
  <2> SUFFICES ASSUME WeightInv, NEW m \in Files, NEW t \in Tensors[m], Holding(m, t.off, t.end) # {},
                      NEW u \in t.off .. t.end - 1
               PROVE  UnitAt(ranges[Found(m, t.off, t.end)], u) = <<m, u>>
    BY DEF LookupsTrue
  <2> DEFINE r == ranges[Found(m, t.off, t.end)]
  <2>1. ranges \in Seq(Ranged) /\ RangesSound
    BY DEF WeightInv, MemorySound, WeightTyped
  <2>2. Found(m, t.off, t.end) \in Holding(m, t.off, t.end)
    BY <2>1, FoundHolds
  <2>3. r \in Ranged /\ RangeSound(r) /\ Covers(r, m, t.off, t.end)
    BY <2>1, <2>2, ElementOfSeq, LenProperties DEF Holding, RangesSound
  <2> HIDE DEF r
  <2>4. /\ t.off \in Nat /\ t.end \in Nat /\ r.off \in Nat /\ r.end \in Nat /\ r.map = m
        /\ r.off <= t.off /\ t.end <= r.end
    BY <2>3 DEF WeightAssumption, Ranged, Covers
  <2>5. CASE r.how = "arena"
    <3>1. r.at \in Nat
      BY <2>3, <2>5 DEF Ranged
    <3>2. u - r.off \in 0 .. Length(r) - 1 /\ r.at + u - r.off = r.at + (u - r.off) /\ r.off + (u - r.off) = u
      BY <2>4, <3>1 DEF Length
    <3>3. device[r.arena][r.at + (u - r.off)] = <<r.map, r.off + (u - r.off)>>
      BY <2>3, <2>5, <3>2 DEF RangeSound
    <3> QED  BY <2>4, <2>5, <3>2, <3>3 DEF UnitAt, r
  <2>6. CASE r.how # "arena"
    BY <2>4, <2>6 DEF UnitAt, r
  <2> QED  BY <2>5, <2>6
<1> QED  BY <1>1, WeightsKept, PTL

(* An engine that has opened has every tensor of the file that was mapped  *)
(* last on the device, however its tensors lie, whichever experts have     *)
(* artifacts and whatever spans the start went through in whatever way     *)
(* (accelerator_prepare_model_tensor_spans, cuda_span_fully_replaced).     *)
THEOREM EverythingPrepared ==
  ASSUME WeightAssumption
  PROVE  WeightSpec => []PreparedAll
<1>1. WeightInv => PreparedAll
  <2> SUFFICES ASSUME WeightInv, opened, NEW t \in Tensors[base]
               PROVE  IsCached(base, t.off, t.end) \/ (Replaces(base) /\ t.expert)
    BY DEF PreparedAll
  <2>1. Ready
    BY DEF WeightInv, StartSound
  <2>2. CASE t \in Prepared(base)
    BY <2>1, <2>2 DEF Ready
  <2>3. CASE t \notin Prepared(base)
    BY <2>3 DEF Prepared, Replaces, Experts
  <2> QED  BY <2>2, <2>3
<1> QED  BY <1>1, WeightsKept, PTL

=============================================================================

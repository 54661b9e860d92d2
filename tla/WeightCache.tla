---------------------------- MODULE WeightCache -----------------------------
(***************************************************************************)
(* The weights on the device: ranges of the mapped model files, copied     *)
(* into arenas by way of a few pinned buffers and an upload stream, mapped *)
(* page by page, or copied at once; what the start of an engine prepares,  *)
(* and what a launch is given when it asks for a tensor.                   *)
(*                                                                         *)
(* A file is a sequence of units; a unit on the device is the file and the *)
(* offset it was copied from.  One unit is copied at a time.               *)
(***************************************************************************)
EXTENDS Integers, Sequences, FiniteSets, SequencesExt, FiniteSetsExt

CONSTANTS
  Target, Support,   \* the two model files
  Tensors,           \* Tensors[m]: the tensors of file m, [off, end, expert]
  Gap, MaxSpan,      \* what may lie between two tensors of a span, and its length
  StageBuffers,      \* pinned buffers an upload goes through
  ArenaUnits,        \* units of an arena
  MaxArenas,         \* arenas the device has room for
  MaxFails,          \* bound: uploads that fail
  NoFile

Files == {Target, Support}
Experts == {t \in Tensors[Target] : t.expert}

(* Tensors fit in an arena and do not overlap.                             *)
WeightAssumption ==
  /\ Target # Support /\ NoFile \notin Files
  /\ Gap \in Nat /\ MaxSpan \in Nat \ {0} /\ StageBuffers \in Nat \ {0} /\ ArenaUnits \in Nat \ {0}
  /\ MaxArenas \in Nat /\ MaxFails \in Nat /\ MaxSpan <= ArenaUnits
  /\ \A m \in Files : \A t \in Tensors[m] :
       /\ t.off \in Nat /\ t.end \in Nat /\ t.expert \in BOOLEAN
       /\ t.off < t.end /\ t.end - t.off <= ArenaUnits
       /\ \A n \in Tensors[m] : n = t \/ n.end <= t.off \/ t.end <= n.off

VARIABLES
  startup,     \* the calls that start the engine
  here, from,  \* the one it is in, or 0 once it failed; the offset it has come to
  opened,      \* the engine was opened
  derived,     \* expert tensors that have an aligned artifact
  base,        \* g_model_host_base
  image,       \* "none", "registered" or "owned": how the whole of base is on the device
  fd,          \* the file g_model_fd reads
  fdBase,      \* g_model_fd_host_base
  fails,       \* uploads that failed
  full,        \* g_model_cache_full
  ranges,      \* g_model_ranges
  used,        \* used[a]: units of arena a that were given out
  device,      \* what the units of the arenas hold
  stage,       \* what the pinned buffers hold
  flight,      \* the upload stream: copies and event marks that have not been reached
  upload       \* the upload the host is in

wvars == <<startup, here, from, opened, derived, base, image, fd, fdBase, fails, full,
           ranges, used, device, stage, flight, upload>>

-----------------------------------------------------------------------------
(* Startup leaves out what an artifact replaces, when all are replaced.    *)
Replaces(m) == m = Target /\ derived # {} /\ derived = Experts
Prepared(m) == {t \in Tensors[m] : ~(Replaces(m) /\ t \in derived)}

(* The tensors from offset c on, and those of the span that begins at s:   *)
(* in order, as long as each follows closely and the span is short.        *)
Ahead(m, c) == {t \in Prepared(m) : c <= t.off}
Spanned(m, s) ==
  {t \in Ahead(m, s) : \A n \in Ahead(m, s + 1) :
     n.off <= t.off => /\ n.end - s <= MaxSpan
                       /\ \E l \in Ahead(m, s) : l.off < n.off /\ n.off <= l.end + Gap}
SpanEnd(m, s) == Max({t.end : t \in Spanned(m, s)})

(* cuda_span_fully_replaced: artifacts follow each other from off to end,  *)
(* with small gaps between them, but none before the first.                *)
(* Mutant: the gap is allowed in front of the first artifact as well.      *)
SlackAlways(off, cursor) == Gap
SlackAt(off, cursor) == IF cursor = off THEN 0 ELSE Gap

FullyReplaced(m, off, end) ==
  /\ Replaces(m)
  /\ \A c \in {off} \cup {d.end : d \in derived} :
       off <= c /\ c < end =>
         \E d \in derived : d.off <= c + SlackAt(off, c) /\ c < d.end

(* The range a lookup returns, the newest of one offset first.             *)
Covers(r, m, off, end) == r.map = m /\ r.off <= off /\ end <= r.end
Holding(m, off, end) == {i \in DOMAIN ranges : Covers(ranges[i], m, off, end)}
NewestAt(off) == {i \in DOMAIN ranges : /\ ranges[i].off = off
                                        /\ \A j \in DOMAIN ranges : ranges[j].off = off => j <= i}
Found(m, off, end) ==
  LET exact == NewestAt(off) \cap Holding(m, off, end)
  IN  IF exact # {} THEN Min(exact) ELSE Min(Holding(m, off, end))

IsCached(m, off, end) == image # "none" \/ Holding(m, off, end) # {}

(* The unit a range has for a unit of its file.                            *)
UnitAt(r, u) == IF r.how = "arena" THEN device[r.arena][r.at + u - r.off] ELSE <<r.map, u>>

-----------------------------------------------------------------------------
Junk == <<NoFile, 0>>
NoUpload == [step |-> "none"]
Uploading(step) == upload.step = step
Fresh == [a \in 1 .. MaxArenas |-> [i \in 0 .. ArenaUnits - 1 |-> Junk]]

(* ds4_engine_map_model and ds4_engine_map_dspark, call by call.           *)
Call(op, m) == [op |-> op, map |-> m]
MapModel == <<Call("build", Target), Call("register", Target), Call("fd", Target), Call("prepare", Target)>>
MapDspark == <<Call("register", Support), Call("fd", Support), Call("prepare", Support), Call("fd", Target)>>
Done == <<Call("open", Target)>>
Startups == {MapModel \o Done, MapModel \o MapDspark \o Done}

WeightInit ==
  /\ startup \in Startups /\ here = 1 /\ from = 0 /\ opened = FALSE /\ derived = {}
  /\ base = NoFile /\ image = "none" /\ fd = Target /\ fdBase = NoFile
  /\ fails = 0 /\ full = FALSE
  /\ ranges = <<>> /\ used = <<>> /\ device = Fresh
  /\ stage = [b \in 0 .. StageBuffers - 1 |-> Junk] /\ flight = <<>> /\ upload = NoUpload

At(op) == ~opened /\ Uploading("none") /\ here # 0 /\ startup[here].op = op
File == startup[here].map
GoOn == here' = here + 1 /\ from' = 0 /\ UNCHANGED startup

(* Artifacts of none, some or all of the experts.                          *)
BuildArtifacts ==
  /\ At("build") /\ derived' \in SUBSET Experts /\ GoOn
  /\ UNCHANGED <<opened, base, image, fd, fdBase, fails, full, ranges, used, device, stage, flight, upload>>

(* ds4_gpu_set_model_map_range: the ranges of the model before are freed,  *)
(* which waits for the device; then the whole file is registered, copied,  *)
(* or neither.                                                             *)
Register ==
  /\ At("register") /\ GoOn
  /\ base' = File /\ flight' = <<>>
  /\ image' \in IF Replaces(File) THEN {"none", "owned"} ELSE {"none", "registered", "owned"}
  /\ fdBase' = IF fdBase = NoFile THEN File ELSE fdBase
  /\ ranges' = <<>> /\ used' = <<>> /\ device' = Fresh /\ full' = FALSE
  /\ UNCHANGED <<opened, derived, fd, fails, stage, upload>>

SetFd ==
  /\ At("fd") /\ fd' = File /\ fdBase' = File /\ GoOn
  /\ UNCHANGED <<opened, derived, base, image, fails, full, ranges, used, device, stage, flight, upload>>

EngineOpen ==
  /\ At("open") /\ opened' = TRUE /\ GoOn
  /\ UNCHANGED <<derived, base, image, fd, fdBase, fails, full, ranges, used, device, stage, flight, upload>>

(* accelerator_prepare_model_tensor_spans has come to the last tensor.     *)
PrepareDone ==
  /\ At("prepare") /\ Ahead(File, from) = {} /\ GoOn
  /\ UNCHANGED <<opened, derived, base, image, fd, fdBase, fails, full, ranges, used, device, stage, flight, upload>>

-----------------------------------------------------------------------------
(* What the caller does with the answer: the start of the engine goes on   *)
(* behind the span only if it is on the device; a launch takes it or fails. *)
Answered(end, cached) ==
  /\ IF opened THEN UNCHANGED <<here, from>>
     ELSE IF cached THEN from' = end /\ UNCHANGED here ELSE here' = 0 /\ from' = 0
  /\ UNCHANGED <<startup, opened>>

(* cuda_model_range_ptr up to the copy: the image, a range that is there,  *)
(* or room in an arena.  A file other than the one g_model_fd reads, a     *)
(* cache that is full and one over its budget leave the file itself.       *)
Lookup(m, off, end) ==
  LET need == end - off
      room == {a \in DOMAIN used : used[a] + need <= ArenaUnits}
  IN
  \/ /\ IsCached(m, off, end) /\ Answered(end, TRUE)
     /\ UNCHANGED <<full, used, upload>>
  \/ /\ ~IsCached(m, off, end) /\ fdBase \notin {NoFile, m}
     /\ upload' = [map |-> m, off |-> off, end |-> end, step |-> "fallback"]
     /\ UNCHANGED <<startup, here, from, opened, full, used>>
  \/ /\ ~IsCached(m, off, end) /\ fdBase \in {NoFile, m} /\ ~full
     /\ LET a == IF room # {} THEN Min(room) ELSE Len(used) + 1 IN
        /\ a <= MaxArenas
        /\ upload' = [map |-> m, off |-> off, end |-> end, step |-> "read", k |-> 0, arena |-> a,
                      at |-> IF room # {} THEN used[a] ELSE 0]
        /\ used' = IF room # {} THEN [used EXCEPT ![a] = @ + need] ELSE Append(used, need)
     /\ UNCHANGED <<startup, here, from, opened, full>>
  \/ /\ ~IsCached(m, off, end) /\ fdBase \in {NoFile, m}
     /\ UNCHANGED full \/ (room = {} /\ full' = TRUE)
     /\ Answered(end, FALSE)
     /\ UNCHANGED <<used, upload>>

PrepareSpan ==
  /\ At("prepare")
  /\ Ahead(File, from) # {}
  /\ LET off == Min({t.off : t \in Ahead(File, from)})
         end == SpanEnd(File, off)
     IN IF FullyReplaced(File, off, end)
        THEN Answered(end, TRUE) /\ UNCHANGED <<full, used, upload>>
        ELSE Lookup(File, off, end)
  /\ UNCHANGED <<derived, base, image, fd, fdBase, fails, ranges, device, stage, flight>>

LaunchAsks ==
  /\ opened /\ Uploading("none")
  /\ \E m \in Files : \E t \in Prepared(m) : ~IsCached(m, t.off, t.end) /\ Lookup(m, t.off, t.end)
  /\ UNCHANGED <<derived, base, image, fd, fdBase, fails, ranges, device, stage, flight>>

-----------------------------------------------------------------------------
(* cuda_model_range_ptr_from_fd, the loop.  A buffer is waited for only    *)
(* once this upload has been through all of them.                          *)
Buf == upload.k % StageBuffers
Mark(b) == [kind |-> "mark", buf |-> b]
Passed(b) == \A i \in DOMAIN flight : ~(flight[i].kind = "mark" /\ flight[i].buf = b)
GiveUp == /\ fails < MaxFails /\ fails' = fails + 1
          /\ upload' = [map |-> upload.map, off |-> upload.off, end |-> upload.end, step |-> "fallback"]
(* Mutant: buffers are never waited for.                                   *)
FreeAlways(b) == TRUE
Free(b) == upload.k >= StageBuffers => Passed(b)

ReadStage ==
  /\ Uploading("read") /\ upload.off + upload.k < upload.end
  /\ \/ /\ Free(Buf)
        /\ stage' = [stage EXCEPT ![Buf] = <<fd, upload.off + upload.k>>]
        /\ upload' = [upload EXCEPT !.step = "copy"] /\ UNCHANGED fails
     \/ GiveUp /\ stage' \in {stage, [stage EXCEPT ![Buf] = Junk]}
  /\ UNCHANGED <<startup, here, from, opened, derived, base, image, fd, fdBase, full, ranges, used, device, flight>>

QueueCopy ==
  /\ Uploading("copy")
  /\ LET copy == [kind |-> "copy", buf |-> Buf, arena |-> upload.arena, at |-> upload.at + upload.k] IN
     \/ /\ flight' = flight \o <<copy, Mark(Buf)>>
        /\ upload' = [upload EXCEPT !.step = "read", !.k = @ + 1] /\ UNCHANGED fails
     \/ GiveUp /\ flight' \in {flight, Append(flight, copy)}
  /\ UNCHANGED <<startup, here, from, opened, derived, base, image, fd, fdBase, full, ranges, used, device, stage>>

(* Everything was queued: the host waits for the stream, then the range is *)
(* recorded.                                                               *)
Record(r) == ranges' = Append(ranges, r)

(* Mutant: the range is recorded without waiting for the stream.           *)
DrainedNot == TRUE
Drained == flight = <<>>

FinishUpload ==
  /\ Uploading("read") /\ upload.off + upload.k = upload.end
  /\ \/ /\ Drained
        /\ Record([map |-> upload.map, off |-> upload.off, end |-> upload.end, how |-> "arena",
                   arena |-> upload.arena, at |-> upload.at])
        /\ upload' = NoUpload /\ Answered(upload.end, TRUE) /\ UNCHANGED fails
     \/ GiveUp /\ UNCHANGED <<startup, here, from, opened, ranges>>
  /\ UNCHANGED <<derived, base, image, fd, fdBase, full, used, device, stage, flight>>

(* The end of cuda_model_range_ptr: map the pages, or allocate and copy at *)
(* once, or fail.                                                          *)
Fallback ==
  /\ Uploading("fallback") /\ upload' = NoUpload
  /\ \/ /\ Answered(upload.end, TRUE)
        /\ Record([map |-> upload.map, off |-> upload.off, end |-> upload.end, how |-> "own"])
     \/ Answered(upload.end, FALSE) /\ UNCHANGED ranges
  /\ UNCHANGED <<derived, base, image, fd, fdBase, fails, full, used, device, stage, flight>>

(* The copy engine works on its own.                                       *)
CopyEngine ==
  /\ flight # <<>> /\ flight' = Tail(flight)
  /\ device' = IF Head(flight).kind = "mark" THEN device
               ELSE [device EXCEPT ![Head(flight).arena][Head(flight).at] = stage[Head(flight).buf]]
  /\ UNCHANGED <<startup, here, from, opened, derived, base, image, fd, fdBase, fails, full, ranges, used, stage, upload>>

(* ds4_gpu_cleanup, on closing or on a start that failed.                  *)
Close ==
  /\ Uploading("none") /\ (opened \/ here = 0)
  /\ startup' \in Startups /\ here' = 1 /\ from' = 0 /\ opened' = FALSE /\ derived' = {}
  /\ base' = NoFile /\ image' = "none" /\ fd' = Target /\ fdBase' = NoFile
  /\ full' = FALSE
  /\ ranges' = <<>> /\ used' = <<>> /\ device' = Fresh /\ flight' = <<>>
  /\ stage' = [b \in 0 .. StageBuffers - 1 |-> Junk] /\ fails' = 0 /\ UNCHANGED upload

WeightNext ==
  \/ BuildArtifacts \/ Register \/ SetFd \/ EngineOpen \/ PrepareDone \/ PrepareSpan \/ LaunchAsks
  \/ ReadStage \/ QueueCopy \/ FinishUpload \/ Fallback \/ CopyEngine \/ Close
WeightSpec == WeightInit /\ [][WeightNext]_wvars

-----------------------------------------------------------------------------
(* Whatever a launch asks for, the range that is found holds those bytes   *)
(* of that file: no failed or late copy, no buffer used again and no other *)
(* file's offset shows through.                                            *)
LookupsTrue ==
  \A m \in Files : \A t \in Tensors[m] :
    Holding(m, t.off, t.end) # {} =>
      \A u \in t.off .. t.end - 1 : UnitAt(ranges[Found(m, t.off, t.end)], u) = <<m, u>>

(* An engine that opened has every tensor of the file mapped last on the   *)
(* device, as itself or as an artifact, so that no launch has to wait.     *)
PreparedAll == opened => \A t \in Tensors[base] : IsCached(base, t.off, t.end) \/ (Replaces(base) /\ t.expert)

=============================================================================

------------------------------- MODULE KVStore -------------------------------
(***************************************************************************)
(* The directory of session checkpoints of ds4_kvstore.c: one file for     *)
(* each text, found again by the longest text that begins a prompt, and    *)
(* evicted when the next checkpoint would not fit the budget.              *)
(*                                                                         *)
(* A file is named by the hash of its text, so the text is its name here:  *)
(* two texts never collide.  One process works on the directory, and each  *)
(* step that touches the disk is an action: the process may be killed      *)
(* between any two.  What it keeps in memory is then gone, and so is the   *)
(* file it was writing: the name left behind is never looked at again.     *)
(***************************************************************************)
EXTENDS Integers, Functions, SequencesExt

CONSTANTS
  Snapshots,   \* session states: [text |-> what they are keyed by, tokens |-> Nat]
  Prompts,     \* the texts a program looks up
  Engines,     \* what a process may run: [model, quant, ctx]
  RejectQuant, \* kc->reject_different_quant
  Budget,      \* kc->budget_bytes
  Overhead,    \* fixed header and text length
  Reasons,     \* why checkpoints are stored
  Trailers,    \* sizes of the trailer the hooks may write
  MinTokens,   \* opt.min_tokens
  Step,        \* kv_cache_continued_step
  MaxHits,     \* hits are counted up to here
  Faults,      \* what the file system may refuse
  None

Sites == {"look", "read", "unlink", "stage", "write", "rename", "load", "touch"}

ASSUME StoreAssumption ==
  /\ \A s \in Snapshots : s = [text |-> s.text, tokens |-> s.tokens]
  /\ \A s \in Snapshots : s.text \in Seq(Range(s.text)) /\ s.tokens \in Nat
  /\ \A p \in Prompts : p \in Seq(Range(p))
  /\ None \notin Snapshots \cup Engines /\ \A e \in Engines : e.ctx \in Nat
  /\ Budget \in Nat \ {0} /\ Overhead \in Nat \ {0} /\ Trailers \subseteq Nat
  /\ MinTokens \in Nat \ {0} /\ Step \in Nat /\ MaxHits \in Nat
  /\ Reasons \subseteq {"cold", "continued", "evict", "shutdown", "other"}
  /\ RejectQuant \in BOOLEAN /\ Faults \subseteq Sites

VARIABLES
  files,   \* the directory, by text
  up,      \* the running engine, or None
  live,    \* the valid checkpoint of its session, or None
  last,    \* kc->continued_last_store_tokens
  pc,      \* where the running call stands
  job,     \* what it is storing, and whether in place of a file it could not read
  tmp,     \* the file it is writing under another name, or None
  seen,    \* kc->entry while making room: the files it read and still counts
  total,   \* the bytes it believes are used
  ret,     \* what the last call came to
  refused  \* whether making room last could not read or remove a file

memory == <<up, live, last>>
call == <<pc, job, tmp, seen, total, ret>>
vars == <<files, memory, call, refused>>

NoJob == [reason |-> "none", trailer |-> 0, extra |-> 0, unread |-> FALSE]

Fails(site) == site \in Faults

-----------------------------------------------------------------------------
(* The payload of a state is counted as one byte for each token. *)
FileSize(text, tokens, trailer) == Overhead + Len(text) + tokens + trailer
SizeOf(k) == FileSize(k, files[k].tokens, files[k].trailer)
Required(bytes) == bytes + (bytes \div 100) + (IF bytes % 100 = 0 THEN 0 ELSE 1)

(* ds4_kvstore_read_entry_file: a file shorter than its header says is     *)
(* passed over.                                                            *)
Entries == {k \in DOMAIN files : files[k].whole}

(* kv_cache_refresh: the directory may not open, and any file of it may    *)
(* not be read; what is not read is not there.                             *)
Views == IF Fails("look") THEN SUBSET Entries ELSE {Entries}

TotalOf(v) == SumFunction([k \in v |-> SizeOf(k)])
Total == TotalOf(Entries)

SameModel(f) == f.model = up.model /\ (RejectQuant => f.quant = up.quant)

(* Mutant: only a checkpoint of the very same context will do. *)
CompatibleSameCtx(f) == SameModel(f) /\ f.ctx = up.ctx

(* Mutant: a checkpoint of any context will do. *)
CompatibleAnyCtx(f) == SameModel(f)

(* kv_cache_existing_compatible *)
Compatible(f) == SameModel(f) /\ f.ctx <= up.ctx

(* ds4_kvstore_find_text_prefix, among the files it read *)
Matches(v, p) ==
  {k \in v :
     IsPrefix(k, p) /\ files[k].tokens >= MinTokens
       /\ SameModel(files[k]) /\ up.ctx >= files[k].ctx}
Best(v, p) == IF Matches(v, p) = {} THEN None
              ELSE CHOOSE k \in Matches(v, p) : \A j \in Matches(v, p) : Len(j) <= Len(k)

(* kv_cache_reason_is_anchor *)
Anchor(f) == f.reason \in {"cold", "evict", "shutdown"}

(* Mutant: a waypoint is worth what it would be without the incoming text. *)
SupersedesNone(k) == FALSE

(* kv_cache_incoming_supersedes_continued.  Opening has nothing incoming.  *)
Supersedes(k) ==
  /\ job.reason # "none" /\ files[k].reason = "continued"
  /\ k # <<>> /\ IsStrictPrefix(k, live.text)
  /\ SameModel(files[k]) /\ up.ctx <= files[k].ctx

(* ds4_kvstore_entry_eviction_score times the size, for h hits. *)
Weight(k, h) ==
  LET f == files[k]
  IN CASE Anchor(f) -> 200 * (h + 1) * f.tokens
       [] Supersedes(k) -> (5 + 50 * h) * f.tokens
       [] OTHER -> 100 * (h + 1) * f.tokens

(* Hits decay with the time since the last use, which is anything: what is *)
(* left of them is between none and all, for each file on its own.  A file *)
(* may have the lowest score when, its own hits forgotten and those of all *)
(* others counted in full, no other scores less.                           *)
Victims ==
  {k \in seen : \A j \in seen \ {k} :
     Weight(j, files[j].hits) * SizeOf(k) >= Weight(k, 0) * SizeOf(j)}

Without(k) == [j \in DOMAIN files \ {k} |-> files[j]]
With(k, f) == [j \in DOMAIN files \cup {k} |-> IF j = k THEN f ELSE files[j]]

(* What a store writes for the live checkpoint, before its last byte. *)
NewFile ==
  [tokens |-> live.tokens, reason |-> job.reason, trailer |-> job.trailer,
   model |-> up.model, quant |-> up.quant, ctx |-> up.ctx,
   hits |-> 0, whole |-> FALSE]

-----------------------------------------------------------------------------
Init ==
  /\ files = [k \in {} |-> None]
  /\ up = None /\ live = None /\ last = 0
  /\ pc = "idle" /\ job = NoJob /\ tmp = None /\ seen = {} /\ total = 0
  /\ ret = "none" /\ refused = FALSE

Idle == up # None /\ pc = "idle"
Goto(s) == pc' = s /\ UNCHANGED memory
Return(r) == pc' = "idle" /\ ret' = r /\ job' = NoJob /\ tmp' = None /\ seen' = {} /\ total' = 0

(* ds4_kvstore_evict looks at the directory and adds up what it read. *)
Look ==
  \E v \in Views : seen' = v /\ total' = TotalOf(v) /\ refused' = (v # Entries)

(* ds4_kvstore_open ends with an eviction for nothing in particular. *)
Open(e) ==
  /\ up = None
  /\ up' = e /\ live' = None /\ last' = 0
  /\ pc' = "evict" /\ job' = NoJob /\ ret' = "none"
  /\ Look
  /\ UNCHANGED <<files, tmp>>

(* The process ends, between two calls or in the middle of one. *)
Stop ==
  /\ up # None
  /\ up' = None /\ live' = None /\ last' = 0
  /\ Return("none")
  /\ UNCHANGED <<files, refused>>

(* The program brings its session anywhere. *)
Serve(s) ==
  /\ Idle /\ s # live /\ s.tokens <= up.ctx
  /\ live' = s /\ ret' = "none"
  /\ UNCHANGED <<files, up, last, pc, job, tmp, seen, total, refused>>

-----------------------------------------------------------------------------
(* ds4_kvstore_store_live_prefix_text, for the whole live checkpoint. *)

(* ds4_kvstore_maybe_store_continued asks for the last two conjuncts. *)
MayStore(reason) ==
  /\ Idle /\ live # None /\ live.tokens >= MinTokens
  /\ reason = "continued" =>
       Step > 0 /\ live.tokens % Step = 0 /\ live.tokens > last

(* ds4_kvstore_note_store, after a continued store. *)
NoteStore(reason) ==
  last' = IF reason = "continued" /\ live.tokens > last THEN live.tokens ELSE last

Kept == live.text \in Entries /\ Compatible(files[live.text])

(* A compatible file of that text is kept: only its trailer is new. *)
StoreKept(reason, t) ==
  /\ MayStore(reason) /\ Kept
  /\ \/ /\ t = 0 \/ Fails("write")
        /\ Return("kept") /\ NoteStore(reason)
        /\ UNCHANGED <<files, up, live>>
     \/ /\ t > 0
        /\ files' = [files EXCEPT ![live.text].trailer = 0]
        /\ job' = [NoJob EXCEPT !.reason = reason, !.trailer = t]
        /\ Goto("trailer")
        /\ ret' = "none" /\ UNCHANGED <<tmp, seen, total>>
  /\ UNCHANGED refused

(* kv_cache_rewrite_trailer: cut off, now written.  Failing changes        *)
(* nothing for the caller.                                                 *)
StoreTrailer ==
  /\ pc = "trailer"
  /\ \/ files' = [files EXCEPT ![live.text].trailer = @ + job.trailer]
     \/ Fails("write") /\ UNCHANGED files
  /\ Return("kept") /\ NoteStore(job.reason)
  /\ UNCHANGED <<up, live, refused>>

(* None is there, or none that can be looked at: nothing is removed.  One  *)
(* that is incompatible, or whose text cannot be read to compare it, is    *)
(* removed before anything else.                                           *)
StoreNew(reason, t) ==
  /\ MayStore(reason)
  /\ \/ /\ live.text \notin Entries \/ Fails("look")
        /\ UNCHANGED files
     \/ /\ live.text \in Entries
        /\ Compatible(files[live.text]) => Fails("read")
        /\ files' = Without(live.text) \/ (Fails("unlink") /\ UNCHANGED files)
  /\ job' = [reason |-> reason, trailer |-> t,
             extra |-> FileSize(live.text, live.tokens, t), unread |-> Kept]
  /\ Goto("stage")
  /\ ret' = "none"
  /\ UNCHANGED <<tmp, seen, total, refused>>

(* The payload is saved apart; then its size is known. *)
Stage ==
  /\ pc = "stage" /\ Required(job.extra) <= Budget
  /\ Look
  /\ Goto("evict")
  /\ UNCHANGED <<files, job, tmp, ret>>

StageFault ==
  /\ pc = "stage" /\ (Fails("stage") \/ Required(job.extra) > Budget)
  /\ Return("failed")
  /\ UNCHANGED <<files, memory, refused>>

(* Mutant: the new file is forgotten. *)
TargetNoExtra == Budget

(* ds4_kvstore_evict *)
Target == Budget - job.extra

EvictOne(k) ==
  /\ pc = "evict" /\ total > Target /\ k \in Victims
  /\ files' = Without(k)
  /\ seen' = seen \ {k}
  /\ total' = IF total >= SizeOf(k) THEN total - SizeOf(k) ELSE 0
  /\ UNCHANGED <<memory, pc, job, tmp, ret, refused>>

EvictDenied ==
  /\ pc = "evict" /\ total > Target /\ Fails("unlink")
  /\ \E k \in Victims : seen' = seen \ {k}
  /\ total' = 0 /\ refused' = TRUE
  /\ UNCHANGED <<files, memory, pc, job, tmp, ret>>

EvictDone ==
  /\ pc = "evict" /\ (total <= Target \/ seen = {})
  /\ IF job = NoJob THEN Return("opened") /\ UNCHANGED memory
     ELSE Goto("create") /\ seen' = {} /\ total' = 0 /\ UNCHANGED <<job, tmp, ret>>
  /\ UNCHANGED <<files, refused>>

(* The file is written under another name, then renamed. *)
Create ==
  /\ pc = "create"
  /\ tmp' = NewFile
  /\ Goto("write")
  /\ UNCHANGED <<files, job, seen, total, ret, refused>>

(* Mutant: a short write goes unnoticed. *)
WriteUnchecked ==
  /\ pc = "write"
  /\ \/ tmp' = [tmp EXCEPT !.whole = TRUE]
     \/ Fails("write") /\ UNCHANGED tmp
  /\ Goto("rename")
  /\ UNCHANGED <<files, job, seen, total, ret, refused>>

Write ==
  /\ pc = "write"
  /\ tmp' = [tmp EXCEPT !.whole = TRUE]
  /\ Goto("rename")
  /\ UNCHANGED <<files, job, seen, total, ret, refused>>

Rename ==
  /\ pc = "rename"
  /\ files' = With(live.text, tmp)
  /\ Return("stored") /\ NoteStore(job.reason)
  /\ UNCHANGED <<up, live, refused>>

StoreFault ==
  /\ \/ pc \in {"create", "write"} /\ Fails("write")
     \/ pc = "rename" /\ Fails("rename")
  /\ Return("failed")
  /\ UNCHANGED <<files, memory, refused>>

-----------------------------------------------------------------------------
(* ds4_kvstore_try_load_text *)

LoadMiss(p) ==
  /\ Idle /\ \E v \in Views : Best(v, p) = None
  /\ Return("missed")
  /\ UNCHANGED <<files, memory, refused>>

(* The session takes a payload that leaves it a token of context, and the  *)
(* header is touched.                                                      *)
Load(p) ==
  /\ Idle
  /\ \E v \in Views :
       LET k == Best(v, p)
           f == files[k]
       IN /\ k # None /\ f.tokens < up.ctx
          /\ live' = [text |-> k, tokens |-> f.tokens]
          /\ last' = f.tokens
          /\ \/ files' = [files EXCEPT ![k].hits = IF @ < MaxHits THEN @ + 1 ELSE @]
             \/ Fails("touch") /\ UNCHANGED files
  /\ Return("loaded")
  /\ UNCHANGED <<up, refused>>

(* Otherwise the session is invalidated, unless the file could not even be *)
(* opened; the file stays.                                                 *)
LoadFault(p) ==
  /\ Idle
  /\ \E v \in Views :
       /\ Best(v, p) # None
       /\ \/ live' = None /\ (Fails("load") \/ files[Best(v, p)].tokens >= up.ctx)
          \/ live' = live /\ Fails("load")
  /\ Return("failed")
  /\ UNCHANGED <<files, up, last, refused>>

-----------------------------------------------------------------------------
Work ==
  \/ StoreTrailer \/ Stage \/ StageFault
  \/ (\E k \in DOMAIN files : EvictOne(k)) \/ EvictDenied \/ EvictDone
  \/ Create \/ Write \/ Rename \/ StoreFault

Next ==
  \/ \E e \in Engines : Open(e)
  \/ \E s \in Snapshots : Serve(s)
  \/ \E r \in Reasons, t \in Trailers : StoreKept(r, t) \/ StoreNew(r, t)
  \/ \E p \in Prompts : LoadMiss(p) \/ Load(p) \/ LoadFault(p)
  \/ Work \/ Stop

Spec == Init /\ [][Next]_vars

-----------------------------------------------------------------------------
(* Properties *)

(* Wherever the process is killed and whatever fails, a file that bears    *)
(* the name of a checkpoint holds all of it.                               *)
FilesWhole == \A k \in DOMAIN files : files[k].whole

(* When a checkpoint has been stored, the directory is within its budget,  *)
(* the new file included: the next eviction has no reason to remove what   *)
(* was just written.  Only a file that could not be read or removed while  *)
(* room was made for this very checkpoint takes it over; what was refused  *)
(* an earlier store is made up for.                                        *)
BudgetKept == ret \in {"stored", "opened"} /\ ~refused => Total <= Budget

(* What a store reports as stored, a lookup by the same engine finds, when *)
(* it can read the directory: its idea of a compatible file is the one of  *)
(* the lookup.                                                             *)
StoredIsFound ==
  Idle /\ ret \in {"stored", "kept"} => Best(Entries, live.text) = live.text

(* A checkpoint the running engine could load is given up only to make     *)
(* room, and only while there is too little of it.  Storing under the same *)
(* text takes it away or replaces it only when that store could not look   *)
(* at it or read its text, and then no other file.                         *)
KeepsUsable ==
  [][\A k \in Entries :
       up # None /\ SameModel(files[k]) /\ files[k].ctx <= up.ctx =>
         \/ k \in DOMAIN files' /\ files'[k].tokens = files[k].tokens
         \/ pc = "evict" /\ Total > Target
         \/ k = live.text /\ (job.unread \/ job'.unread)]_vars

(* Making room, an anchor goes only after every waypoint eviction sees     *)
(* that the incoming checkpoint contains and nobody ever loaded.           *)
AnchorsLast ==
  [][\A k \in Entries : pc = "evict" /\ k \notin DOMAIN files' /\ Anchor(files[k]) =>
       ~\E j \in seen :
          /\ job.reason # "none" /\ files[j].reason = "continued" /\ files[j].hits = 0
          /\ IsStrictPrefix(j, live.text) /\ files[j].model = up.model
          /\ files[j].quant = up.quant /\ files[j].ctx = up.ctx]_vars

=============================================================================

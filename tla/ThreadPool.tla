------------------------------ MODULE ThreadPool ------------------------------
(***************************************************************************)
(* The CPU worker pool of platform.c and the one computation that runs on  *)
(* it: the arg max of the DSpark Markov head over the rows of the          *)
(* vocabulary, each thread leaving the best of its slice in a slot.        *)
(*                                                                         *)
(* Every access to the pool is inside its mutex, so a critical section is  *)
(* one action.  A thread in pthread_cond_wait is at "wait" (workers, on    *)
(* work_cond) or "blocked" (the caller, on done_cond); a wake-up, spurious *)
(* ones included, sends it back to test its condition.                     *)
(***************************************************************************)
EXTENDS Integers

CONSTANTS
  NThreads,     \* g_pool.n_threads, the caller's own thread included
  GenMod,       \* g_pool.generation counts modulo this (2^32)
  MinParallel,  \* min_parallel_rows: fewer rows run on the caller's thread
  Scores,       \* the score vectors a caller may ask about
  Low,          \* -FLT_MAX
  None

(* The rows 0 .. n - 1 of a score vector. *)
RowsOf(s) == DOMAIN s
NRows(s) == IF DOMAIN s = {} THEN 0 ELSE (CHOOSE i \in DOMAIN s : \A j \in DOMAIN s : j <= i) + 1

(* A vocabulary is not empty, and no logit is below -FLT_MAX. *)
IsVector(s) ==
  /\ NRows(s) \in Nat \ {0} /\ DOMAIN s = 0 .. NRows(s) - 1
  /\ \A r \in DOMAIN s : s[r] \in Int /\ s[r] >= Low

(* What the constants are (assumed where values are given to them). *)
PoolAssumption ==
  /\ NThreads \in Nat \ {0} /\ MinParallel \in Nat \ {0}
  /\ GenMod \in Nat /\ GenMod > 1
  /\ Low \in Int /\ None \notin Scores
  /\ \A s \in Scores : IsVector(s)

VARIABLES
  initialized, shutdown, gen, done,  \* g_pool
  job,      \* g_pool.fn, ctx and n_rows: the score vector to search
  best,     \* ctx.best_idx and best_val, by slot
  ran,      \* how often each row of the job was searched
  mpc,      \* where the caller stands
  result,   \* what it was told
  wpc, wseen, wjob  \* each worker: where it stands, seen_generation, its job

pool == <<initialized, shutdown, gen, done, job>>
caller == <<mpc, result>>
workers == <<wpc, wseen, wjob>>
vars == <<pool, best, ran, caller, workers>>

Workers == 1 .. NThreads - 1
NWorkers == NThreads - 1
Slots == 0 .. NThreads - 1

(* Mutant: rounded down, so the last rows are nobody's. *)
PerThreadDown(s) == NRows(s) \div NThreads
PerThread(s) == (NRows(s) + NThreads - 1) \div NThreads
Slice(s, tid) ==
  {r \in RowsOf(s) : tid * PerThread(s) <= r /\ r < (tid + 1) * PerThread(s)}

(* dspark_markov_q8_0_argmax_worker over a set of consecutive rows: the    *)
(* first of the best, in the slot its first row falls in.                  *)
FirstOf(rows) == CHOOSE r \in rows : \A x \in rows : r <= x
SlotOf(s, rows) ==
  IF PerThread(s) = 0 THEN 0 ELSE FirstOf(rows) \div PerThread(s)
BestOf(s, rows) ==
  LET high == {r \in rows : s[r] > Low /\ \A x \in rows : s[x] <= s[r]}
  IN IF high = {} THEN [idx |-> FirstOf(rows), val |-> Low]
     ELSE [idx |-> FirstOf(high), val |-> s[FirstOf(high)]]
Search(s, rows) ==
  /\ best' = [best EXCEPT ![SlotOf(s, rows)] = BestOf(s, rows)]
  /\ ran' = [r \in DOMAIN ran |-> IF r \in rows THEN ran[r] + 1 ELSE ran[r]]

(* Mutant: of equal slots the last one wins. *)
CombinedLast(b) ==
  LET high == {i \in Slots : \A j \in Slots : b[j].val <= b[i].val}
  IN b[CHOOSE i \in high : \A j \in high : j <= i].idx

(* The slots are compared in order: of equal ones the first wins. *)
Combined(b) ==
  LET high == {i \in Slots : b[i].val > Low /\ \A j \in Slots : b[j].val <= b[i].val}
  IN IF high = {} THEN 0 ELSE b[CHOOSE i \in high : \A j \in high : i <= j].idx

Cleared == [i \in Slots |-> [idx |-> 0, val |-> Low]]

-----------------------------------------------------------------------------
Init ==
  /\ initialized = FALSE /\ shutdown = FALSE /\ gen = 0 /\ done = 0 /\ job = None
  /\ best = Cleared /\ ran = [r \in {} |-> 0]
  /\ mpc = "idle" /\ result = None
  /\ wpc = [w \in Workers |-> "none"]
  /\ wseen = [w \in Workers |-> 0] /\ wjob = [w \in Workers |-> None]

(* ds4_threads_init: new workers have seen generation 0. *)
ThreadsInit ==
  /\ mpc = "idle" /\ ~initialized
  /\ initialized' = TRUE /\ shutdown' = FALSE /\ gen' = 0 /\ done' = 0
  /\ wpc' = [w \in Workers |-> "check"]
  /\ wseen' = [w \in Workers |-> 0]
  /\ UNCHANGED <<job, best, ran, caller, wjob>>

(* ds4_parallel_for: too few rows, or nobody to share them with. *)
CallSerial(s) ==
  /\ mpc = "idle" /\ initialized
  /\ NThreads <= 1 \/ NRows(s) < MinParallel
  /\ job' = s /\ best' = Cleared /\ ran' = [r \in RowsOf(s) |-> 0]
  /\ mpc' = "serial" /\ result' = None
  /\ UNCHANGED <<initialized, shutdown, gen, done, workers>>

SerialRun ==
  /\ mpc = "serial"
  /\ Search(job, RowsOf(job))
  /\ mpc' = "idle" /\ result' = Combined(best')
  /\ UNCHANGED <<pool, workers>>

(* Every worker that waits on work_cond is woken. *)
Broadcast == wpc' = [w \in Workers |-> IF wpc[w] = "wait" THEN "check" ELSE wpc[w]]

(* Mutant: the count of the last job is kept. *)
CallParallelKeepsDone(s) ==
  /\ mpc = "idle" /\ initialized
  /\ NThreads > 1 /\ NRows(s) >= MinParallel
  /\ job' = s /\ best' = Cleared /\ ran' = [r \in RowsOf(s) |-> 0]
  /\ gen' = (gen + 1) % GenMod
  /\ Broadcast
  /\ mpc' = "share" /\ result' = None
  /\ UNCHANGED <<initialized, shutdown, done, wseen, wjob>>

(* The job is published; then the caller searches its own slice. *)
CallParallel(s) ==
  /\ mpc = "idle" /\ initialized
  /\ NThreads > 1 /\ NRows(s) >= MinParallel
  /\ job' = s /\ best' = Cleared /\ ran' = [r \in RowsOf(s) |-> 0]
  /\ done' = 0 /\ gen' = (gen + 1) % GenMod
  /\ Broadcast
  /\ mpc' = "share" /\ result' = None
  /\ UNCHANGED <<initialized, shutdown, wseen, wjob>>

CallerShare ==
  /\ mpc = "share"
  /\ Search(job, Slice(job, 0))
  /\ mpc' = "await"
  /\ UNCHANGED <<pool, result, workers>>

CallerBlock ==
  /\ mpc = "await" /\ done < NWorkers
  /\ mpc' = "blocked"
  /\ UNCHANGED <<pool, best, ran, result, workers>>

CallerReturn ==
  /\ mpc = "await" /\ done >= NWorkers
  /\ mpc' = "idle" /\ result' = Combined(best)
  /\ UNCHANGED <<pool, best, ran, workers>>

CallerWakes ==
  /\ mpc = "blocked"
  /\ mpc' = "await"
  /\ UNCHANGED <<pool, best, ran, result, workers>>

-----------------------------------------------------------------------------
(* ds4_worker_main *)

WorkerWait(w) ==
  /\ wpc[w] = "check" /\ wseen[w] = gen /\ ~shutdown
  /\ wpc' = [wpc EXCEPT ![w] = "wait"]
  /\ UNCHANGED <<pool, best, ran, caller, wseen, wjob>>

WorkerWakes(w) ==
  /\ wpc[w] = "wait"
  /\ wpc' = [wpc EXCEPT ![w] = "check"]
  /\ UNCHANGED <<pool, best, ran, caller, wseen, wjob>>

WorkerExit(w) ==
  /\ wpc[w] = "check" /\ shutdown
  /\ wpc' = [wpc EXCEPT ![w] = "gone"]
  /\ UNCHANGED <<pool, best, ran, caller, wseen, wjob>>

WorkerTake(w) ==
  /\ wpc[w] = "check" /\ wseen[w] # gen /\ ~shutdown
  /\ wseen' = [wseen EXCEPT ![w] = gen]
  /\ wjob' = [wjob EXCEPT ![w] = job]
  /\ wpc' = [wpc EXCEPT ![w] = "run"]
  /\ UNCHANGED <<pool, best, ran, caller>>

(* A worker whose slice is empty has nothing to search. *)
WorkerRun(w) ==
  /\ wpc[w] = "run"
  /\ IF Slice(wjob[w], w) # {} THEN Search(wjob[w], Slice(wjob[w], w))
                               ELSE UNCHANGED <<best, ran>>
  /\ wpc' = [wpc EXCEPT ![w] = "report"]
  /\ UNCHANGED <<pool, caller, wseen, wjob>>

(* The last worker to report signals done_cond. *)
WorkerReport(w) ==
  /\ wpc[w] = "report"
  /\ done' = done + 1
  /\ mpc' = IF done' = NWorkers /\ mpc = "blocked" THEN "await" ELSE mpc
  /\ wpc' = [wpc EXCEPT ![w] = "check"]
  /\ wjob' = [wjob EXCEPT ![w] = None]
  /\ UNCHANGED <<initialized, shutdown, gen, job, best, ran, result, wseen>>

-----------------------------------------------------------------------------
(* Mutant: the workers that wait are not woken. *)
ShutdownQuiet ==
  /\ mpc = "idle" /\ initialized
  /\ shutdown' = TRUE /\ gen' = (gen + 1) % GenMod
  /\ mpc' = "join"
  /\ UNCHANGED <<initialized, done, job, best, ran, result, workers>>

(* ds4_threads_shutdown, at engine close: tell the workers, join them,     *)
(* clear the pool.                                                         *)
Shutdown ==
  /\ mpc = "idle" /\ initialized
  /\ shutdown' = TRUE /\ gen' = (gen + 1) % GenMod
  /\ Broadcast
  /\ mpc' = "join"
  /\ UNCHANGED <<initialized, done, job, best, ran, result, wseen, wjob>>

Joined ==
  /\ mpc = "join" /\ \A w \in Workers : wpc[w] = "gone"
  /\ initialized' = FALSE /\ shutdown' = FALSE /\ gen' = 0 /\ done' = 0 /\ job' = None
  /\ mpc' = "idle"
  /\ UNCHANGED <<best, ran, result, workers>>

-----------------------------------------------------------------------------
CallerStep == SerialRun \/ CallerShare \/ CallerBlock \/ CallerReturn \/ Joined
WorkerStep(w) ==
  WorkerWait(w) \/ WorkerExit(w) \/ WorkerTake(w) \/ WorkerRun(w) \/ WorkerReport(w)

Next ==
  \/ ThreadsInit \/ (\E s \in Scores : CallSerial(s) \/ CallParallel(s))
  \/ CallerStep \/ CallerWakes
  \/ \E w \in Workers : WorkerStep(w) \/ WorkerWakes(w)
  \/ Shutdown

(* The scheduler runs every thread that can run; nothing makes a program   *)
(* call, and nothing makes a wake-up happen that nobody asked for.         *)
Fairness ==
  /\ WF_vars(CallerStep)
  /\ \A w \in Workers : WF_vars(WorkerStep(w))

Spec == Init /\ [][Next]_vars
FairSpec == Spec /\ Fairness

-----------------------------------------------------------------------------
(* Properties *)

InCall == mpc \in {"serial", "share", "await", "blocked"}

(* The context of a job is on the stack of its caller: no worker reads or  *)
(* writes it once the call has returned, and none works on an older job.   *)
JobAlive ==
  \A w \in Workers : wpc[w] \in {"run", "report"} =>
    /\ mpc \in {"share", "await", "blocked"}
    /\ wjob[w] = job /\ wseen[w] = gen

(* When a call returns each of its rows was searched once, by one thread.  *)
RowsOnce == mpc = "idle" /\ result # None => \A r \in DOMAIN ran : ran[r] = 1

(* The caller is told the first best row, as one thread alone would find   *)
(* it, and is told: the pool implements ParallelArgmax.                    *)
Abstract == INSTANCE ParallelArgmax WITH
  Requests <- Scores, request <- IF InCall THEN job ELSE None, answer <- result
Implements == Abstract!Spec

(* A shutdown ends: every worker is joined, even one that had a job to     *)
(* take or had not yet started.                                            *)
ShutdownEnds == (mpc = "join") ~> (mpc = "idle")

=============================================================================

-------------------------- MODULE DecodeGraphsProofs --------------------------
(***************************************************************************)
(* Theorems about DecodeGraphs, for every number of layers, of variants of *)
(* a recording, of sessions and of sizes of the scratch buffer.            *)
(***************************************************************************)
EXTENDS DecodeGraphs, SequenceTheorems, TLAPS

Places == Layers \X Islands \X (1 .. Variants)
Piece == [piece : {"top", "middle", "tail"}, sound : BOOLEAN]
Buffers == Addresses \cup {NoSession}
Used == [tmp : Nat, other : Buffers, swapped : BOOLEAN]
Graph == {NoGraph} \cup [on : {TRUE}, used : Used]
Entry == [state : 0 .. 3, key : {<<>>} \cup Slots \X BOOLEAN, exec : Graph]
Resting == [at : {"idle"}, ok : BOOLEAN, ran : Seq(Piece)]
Decoding == [at : {"begin", "eager", "capture", "end", "middle"}, ok : {TRUE}, ran : Seq(Piece),
             sess : Slots, pos : {0, 1}, il : Layers, island : Islands]
Args == ({0, 1} \X Nat) \cup Buffers
Node == {Unset} \cup [valid : {TRUE}, shape : {0, 1}, args : Args]

TypeOK ==
  /\ entries \in [Places -> Entry]
  /\ recorded \in Graph
  /\ tmp \in Nat
  /\ other \in [Slots -> Buffers]
  /\ swapped \in [Slots -> BOOLEAN]
  /\ nodes \in [{"scores", "experts"} -> Node]
  /\ run \in Resting \cup Decoding

(* How many pieces have run when a token stands there. *)
Reached(r) == 3 * r.il + (IF r.at = "middle" THEN 1 ELSE 2 * r.island)

(* The pieces that ran did so in order, each with what was there. *)
Sofar(ran) ==
  \A i \in 1 .. Len(ran) : ran[i].sound /\ ran[i].piece = Pieces[((i - 1) % 3) + 1]

RunOk(r, alive) ==
  /\ Sofar(r.ran)
  /\ r.at # "idle" => r.sess \in alive /\ Len(r.ran) = Reached(r)
  /\ r.at = "middle" => r.island = 0
  /\ r.at = "idle" /\ r.ok /\ r.ran # <<>> => Len(r.ran) = 3 * Cardinality(Layers)
RunInv == RunOk(run, Live)

(* A recording holds the scratch and the buffers that are there, of a      *)
(* session that lives, with the hidden states where its key has them.      *)
EntryInv ==
  \A e \in Places : entries[e].state = 2 =>
    /\ 0 < tmp /\ entries[e].key \in Live \X BOOLEAN
    /\ entries[e].exec.used =
         [tmp |-> tmp, other |-> other[entries[e].key[1]], swapped |-> entries[e].key[2]]

RecordInv == run.at = "end" => 0 < tmp /\ recorded.used = Now(tmp)

GInv == TypeOK /\ RunInv /\ EntryInv /\ RecordInv

-----------------------------------------------------------------------------
(* Pieces *)

(* The piece that is due after m of them. *)
LEMMA Due ==
  ASSUME NEW n \in Nat, NEW m \in Nat
  PROVE  /\ m = 3 * n => Pieces[(m % 3) + 1] = "top"
         /\ m = 3 * n + 1 => Pieces[(m % 3) + 1] = "middle"
         /\ m = 3 * n + 2 => Pieces[(m % 3) + 1] = "tail"
<1>1. /\ m = 3 * n => (m % 3) + 1 = 1
      /\ m = 3 * n + 1 => (m % 3) + 1 = 2
      /\ m = 3 * n + 2 => (m % 3) + 1 = 3
  OBVIOUS
<1>2. Pieces[1] = "top" /\ Pieces[2] = "middle" /\ Pieces[3] = "tail"
  BY DEF Pieces
<1> QED  BY <1>1, <1>2

(* The piece that is due runs with what is there. *)
LEMMA PieceMore ==
  ASSUME NEW ran \in Seq(Piece), Sofar(ran), NEW p \in {"top", "middle", "tail"},
         p = Pieces[(Len(ran) % 3) + 1]
  PROVE  LET more == Append(ran, [piece |-> p, sound |-> TRUE])
         IN more \in Seq(Piece) /\ Len(more) = Len(ran) + 1 /\ Sofar(more)
<1> DEFINE new == [piece |-> p, sound |-> TRUE]
           more == Append(ran, new)
<1>1. new \in Piece
  BY DEF Piece
<1>2. /\ more \in Seq(Piece) /\ Len(more) = Len(ran) + 1 /\ Len(ran) \in Nat
      /\ more[Len(ran) + 1] = new
      /\ \A i \in 1 .. Len(ran) : more[i] = ran[i]
  BY <1>1, AppendProperties
<1>3. ASSUME NEW i \in 1 .. Len(more) PROVE more[i].sound /\ more[i].piece = Pieces[((i - 1) % 3) + 1]
  <2>1. CASE i = Len(ran) + 1
    <3>1. i - 1 = Len(ran)
      BY <1>2, <2>1
    <3> QED  BY <1>2, <2>1, <3>1
  <2>2. CASE i # Len(ran) + 1
    <3>1. i \in 1 .. Len(ran)
      BY <1>2, <2>2
    <3> QED  BY <1>2, <3>1 DEF Sofar
  <2> QED  BY <2>1, <2>2
<1> QED  BY <1>2, <1>3 DEF Sofar

(* What follows an island when its piece has run. *)
LEMMA PastOk ==
  ASSUME NEW alive, NEW r \in Decoding, Sofar(r.ran), r.sess \in alive,
         Len(r.ran) = 3 * r.il + 2 * r.island + 1
  PROVE  Past(r) \in Resting \cup Decoding /\ RunOk(Past(r), alive)
<1>1. r.il \in Nat /\ r.island \in {0, 1} /\ r.il < Cardinality(Layers) /\ r.ran \in Seq(Piece)
  BY GraphsAssumption DEF Decoding, Islands
<1>2. CASE r.island = 0
  <2>1. Past(r) = [r EXCEPT !.at = "middle"]
    BY <1>2 DEF Past
  <2>2. /\ Past(r) \in Decoding /\ Past(r).at = "middle" /\ Past(r).ran = r.ran
        /\ Past(r).il = r.il /\ Past(r).island = 0 /\ Past(r).sess = r.sess
    BY <1>2, <2>1 DEF Decoding
  <2>3. Len(Past(r).ran) = Reached(Past(r))
    BY <1>1, <1>2, <2>2 DEF Reached
  <2> QED  BY <2>2, <2>3 DEF RunOk
<1>3. CASE r.island = 1 /\ r.il + 1 \in Layers
  <2>1. Past(r) = [r EXCEPT !.at = "begin", !.island = 0, !.il = r.il + 1]
    BY <1>3 DEF Past
  <2>2. /\ Past(r) \in Decoding /\ Past(r).at = "begin" /\ Past(r).ran = r.ran
        /\ Past(r).il = r.il + 1 /\ Past(r).island = 0 /\ Past(r).sess = r.sess
    BY <1>3, <2>1 DEF Decoding, Islands
  <2>3. Len(Past(r).ran) = Reached(Past(r))
    BY <1>1, <1>3, <2>2 DEF Reached
  <2> QED  BY <2>2, <2>3 DEF RunOk
<1>4. CASE r.island = 1 /\ r.il + 1 \notin Layers
  <2>1. Past(r) = [at |-> "idle", ok |-> TRUE, ran |-> r.ran]
    BY <1>4 DEF Past
  <2>2. r.il + 1 = Cardinality(Layers)
    BY <1>1, <1>4, GraphsAssumption
  <2>3. Len(r.ran) = 3 * Cardinality(Layers)
    BY <1>1, <1>4, <2>2
  <2> QED  BY <1>1, <2>1, <2>3 DEF Resting, RunOk
<1> QED  BY <1>1, <1>2, <1>3, <1>4

(* An island whose piece runs with what is there. *)
LEMMA IslandRuns ==
  ASSUME GInv, NEW u, run.at \in {"begin", "eager", "end"}
  PROVE  LET next == Past(Ran(PieceOf(run.island), u, u))
         IN next \in Resting \cup Decoding /\ RunOk(next, Live)
<1> DEFINE p == PieceOf(run.island)
           r == Ran(p, u, u)
           new == [piece |-> p, sound |-> TRUE]
<1>1. run \in Decoding /\ run.il \in Nat /\ run.island \in {0, 1}
  <2>1. run \in Decoding
    BY DEF GInv, TypeOK, Resting
  <2>2. run.il \in Layers /\ run.island \in Islands
    BY <2>1 DEF Decoding
  <2> QED  BY <2>1, <2>2, GraphsAssumption DEF Islands
<1>2. /\ run.ran \in Seq(Piece) /\ Sofar(run.ran) /\ run.sess \in Live
      /\ Len(run.ran) = 3 * run.il + 2 * run.island
  BY <1>1 DEF GInv, RunInv, RunOk, Reached, Decoding
<1>3. p \in {"top", "middle", "tail"} /\ p = Pieces[(Len(run.ran) % 3) + 1]
  <2>0. Len(run.ran) \in Nat
    BY <1>2, LenProperties
  <2>1. CASE run.island = 0
    <3>1. Len(run.ran) = 3 * run.il /\ p = "top"
      BY <1>1, <1>2, <2>1 DEF PieceOf
    <3> QED  BY <1>1, <2>0, <3>1, Due
  <2>2. CASE run.island = 1
    <3>1. Len(run.ran) = 3 * run.il + 2 /\ p = "tail"
      BY <1>1, <1>2, <2>2 DEF PieceOf
    <3> QED  BY <1>1, <2>0, <3>1, Due
  <2> QED  BY <1>1, <2>1, <2>2
<1>4. r = [run EXCEPT !.ran = Append(run.ran, new)]
  BY DEF Ran
<1> HIDE DEF p
<1>5. /\ Append(run.ran, new) \in Seq(Piece) /\ Len(Append(run.ran, new)) = Len(run.ran) + 1
      /\ Sofar(Append(run.ran, new))
  BY <1>2, <1>3, PieceMore
<1>6. r \in Decoding /\ r.ran = Append(run.ran, new) /\ r.il = run.il /\ r.island = run.island /\ r.sess = run.sess
  BY <1>1, <1>4, <1>5 DEF Decoding
<1> HIDE DEF r
<1>7. Len(r.ran) = 3 * r.il + 2 * r.island + 1
  BY <1>1, <1>2, <1>5, <1>6
<1> QED  BY <1>2, <1>5, <1>6, <1>7, PastOk DEF r, p

(* The attention behind it. *)
LEMMA MiddleRuns ==
  ASSUME GInv, NEW u, run.at = "middle"
  PROVE  LET next == [Ran("middle", u, u) EXCEPT !.at = "begin", !.island = 1]
         IN next \in Decoding /\ RunOk(next, Live)
<1> DEFINE new == [piece |-> "middle", sound |-> TRUE]
           next == [Ran("middle", u, u) EXCEPT !.at = "begin", !.island = 1]
<1>1. run \in Decoding /\ run.il \in Nat /\ run.island = 0
  <2>1. run \in Decoding
    BY DEF GInv, TypeOK, Resting
  <2>2. run.il \in Layers /\ run.island = 0
    BY <2>1 DEF Decoding, GInv, RunInv, RunOk
  <2> QED  BY <2>1, <2>2, GraphsAssumption
<1>2. /\ run.ran \in Seq(Piece) /\ Sofar(run.ran) /\ run.sess \in Live
      /\ Len(run.ran) = 3 * run.il + 1
  BY <1>1 DEF GInv, RunInv, RunOk, Reached, Decoding
<1>3. "middle" = Pieces[(Len(run.ran) % 3) + 1]
  <2>1. Len(run.ran) \in Nat
    BY <1>2, LenProperties
  <2> QED  BY <1>1, <1>2, <2>1, Due
<1>4. /\ Append(run.ran, new) \in Seq(Piece) /\ Len(Append(run.ran, new)) = Len(run.ran) + 1
      /\ Sofar(Append(run.ran, new))
  BY <1>2, <1>3, PieceMore
<1>5. /\ next \in Decoding /\ next.ran = Append(run.ran, new) /\ next.at = "begin"
      /\ next.il = run.il /\ next.island = 1 /\ next.sess = run.sess
  BY <1>1, <1>4 DEF Decoding, Ran, Islands
<1> HIDE DEF next
<1>6. RunOk(next, Live)
  BY <1>1, <1>2, <1>4, <1>5 DEF RunOk, Reached
<1> QED  BY <1>5, <1>6 DEF next

-----------------------------------------------------------------------------
(* Entries and the scratch buffer *)

LEMMA BlankEntry == Blank \in Entry /\ Blank.state = 0
BY DEF Blank, Entry, Graph

LEMMA ClearedType == Cleared \in [Places -> Entry] /\ \A e \in Places : Cleared[e].state = 0
BY BlankEntry DEF Cleared, Places

(* The variant that is found is free or has the key. *)
LEMMA FoundHasKey ==
  ASSUME GInv, run.at # "idle", NEW v \in Find
  PROVE  /\ v \in 1 .. Variants /\ Here(v) \in Places
         /\ Key \in Live \X BOOLEAN /\ Key \in Slots \X BOOLEAN
         /\ entries[Here(v)].state # 0 => entries[Here(v)].key = Key
<1>1. v \in 1 .. Variants /\ (entries[Here(v)].state # 0 => entries[Here(v)].key = Key)
  BY DEF Find, Least, Holding, Free
<1>2. run \in Decoding /\ run.sess \in Live /\ run.sess \in Slots
  BY DEF GInv, TypeOK, Resting, Decoding, RunInv, RunOk
<1> QED  BY <1>1, <1>2 DEF GInv, TypeOK, Decoding, Here, Places, Key

LEMMA MarkedEntries ==
  ASSUME GInv, run.at # "idle", NEW v \in Find, NEW state \in 0 .. 3, NEW exec \in Graph,
         entries' = Marked(v, state, exec), UNCHANGED <<tmp, other>>,
         state = 2 => 0 < tmp /\ exec.used = Now(tmp)
  PROVE  entries' \in [Places -> Entry] /\ EntryInv'
<1> DEFINE new == [state |-> state, key |-> Key, exec |-> exec]
<1>1. Here(v) \in Places /\ Key \in Live \X BOOLEAN /\ Key \in Slots \X BOOLEAN
  BY FoundHasKey
<1>2. new \in Entry
  BY <1>1 DEF Entry
<1>3. entries' = [entries EXCEPT ![Here(v)] = new]
  BY DEF Marked
<1>4. entries' \in [Places -> Entry]
  BY <1>1, <1>2, <1>3 DEF GInv, TypeOK
<1>5. ASSUME NEW e \in Places, entries'[e].state = 2
      PROVE  /\ 0 < tmp' /\ entries'[e].key \in Live' \X BOOLEAN
             /\ entries'[e].exec.used =
                  [tmp |-> tmp', other |-> other'[entries'[e].key[1]], swapped |-> entries'[e].key[2]]
  <2>0. Live' = Live
    BY DEF Live
  <2>1. CASE e = Here(v)
    <3>1. entries'[e] = new
      BY <1>1, <1>3, <2>1 DEF GInv, TypeOK
    <3>2. Key[1] = run.sess /\ Key[2] = swapped[run.sess]
      BY DEF Key
    <3> QED  BY <1>1, <1>5, <2>0, <3>1, <3>2 DEF Now
  <2>2. CASE e # Here(v)
    <3>1. entries'[e] = entries[e]
      BY <1>1, <1>3, <2>2 DEF GInv, TypeOK
    <3> QED  BY <1>5, <2>0, <3>1 DEF GInv, EntryInv
  <2> QED  BY <2>1, <2>2
<1> QED  BY <1>4, <1>5 DEF EntryInv

LEMMA KilledEntries ==
  ASSUME GInv, run.at # "idle", UNCHANGED <<tmp, other>>,
         entries' = KilledIfFound \/ \E v \in Find : entries' = Killed(v)
  PROVE  entries' \in [Places -> Entry] /\ EntryInv'
<1>1. ASSUME NEW v \in Find, entries' = Killed(v) PROVE entries' \in [Places -> Entry] /\ EntryInv'
  <2>1. NoGraph \in Graph /\ 3 \in 0 .. 3
    BY DEF Graph
  <2> QED  BY <1>1, <2>1, MarkedEntries DEF Killed
<1>2. CASE Find = {} /\ entries' = entries
  BY <1>2 DEF GInv, TypeOK, EntryInv, Live
<1> QED  BY <1>1, <1>2 DEF KilledIfFound

LEMMA Clears ==
  ASSUME entries' = Cleared
  PROVE  entries' \in [Places -> Entry] /\ EntryInv'
BY ClearedType DEF EntryInv

(* Nodes that are set again have this launch's arguments. *)
LEMMA RelaunchArgs ==
  ASSUME GInv, NEW g \in {"scores", "experts"}, NEW shape \in {0, 1}, NEW args \in Args
  PROVE  /\ Relaunch(g, shape, args).args = args
         /\ [nodes EXCEPT ![g] = Relaunch(g, shape, args)] \in [{"scores", "experts"} -> Node]
         /\ [nodes EXCEPT ![g] = Unset] \in [{"scores", "experts"} -> Node]
<1>1. nodes[g] \in Node
  BY DEF GInv, TypeOK
<1>2. Relaunch(g, shape, args).args = args /\ Relaunch(g, shape, args) \in Node
  <2>1. CASE nodes[g].valid /\ nodes[g].shape = shape
    <3>1. nodes[g] \in [valid : {TRUE}, shape : {0, 1}, args : Args]
      <4>1. ~Unset.valid
        BY DEF Unset
      <4>2. nodes[g] # Unset
        BY <2>1, <4>1
      <4> QED  BY <1>1, <4>2 DEF Node
    <3> QED  BY <2>1, <3>1 DEF Relaunch, Node
  <2>2. CASE ~(nodes[g].valid /\ nodes[g].shape = shape)
    BY <2>2 DEF Relaunch, Node
  <2> QED  BY <2>1, <2>2
<1>3. Unset \in Node
  BY DEF Node
<1> QED  BY <1>2, <1>3 DEF GInv, TypeOK

(* A buffer that has no size is in no recording. *)
LEMMA GrowKeeps ==
  ASSUME GInv, NEW size \in Nat, Grow(size) \/ GrowFails(size), UNCHANGED other
  PROVE  tmp' \in Nat /\ entries' \in [Places -> Entry] /\ EntryInv'
<1>1. tmp' \in Nat
  BY DEF Grow, GrowFails, GInv, TypeOK
<1>2. CASE entries' = Cleared
  BY <1>1, <1>2, Clears
<1>3. CASE entries' = entries /\ tmp' = tmp
  BY <1>3 DEF GInv, TypeOK, EntryInv, Live
<1>4. CASE entries' = entries /\ tmp = 0
  BY <1>1, <1>4 DEF GInv, TypeOK, EntryInv
<1> QED  BY <1>2, <1>3, <1>4, <1>1 DEF Grow, GrowFails

-----------------------------------------------------------------------------
(* Steps *)

LEMMA InitOk == Init => GInv
<1> SUFFICES ASSUME Init PROVE GInv
  OBVIOUS
<1>1. run \in Resting /\ run.ran = <<>> /\ run.at = "idle"
  BY EmptySeq DEF Init, Resting
<1>2. RunInv
  BY <1>1, EmptySeq DEF RunInv, RunOk, Sofar
<1>3. entries \in [Places -> Entry] /\ \A e \in Places : entries[e].state = 0
  BY ClearedType DEF Init
<1>4. recorded \in Graph /\ tmp \in Nat /\ other \in [Slots -> Buffers] /\ swapped \in [Slots -> BOOLEAN]
  BY DEF Init, Graph, Buffers
<1>5. nodes \in [{"scores", "experts"} -> Node]
  BY DEF Init, Node
<1> QED  BY <1>1, <1>2, <1>3, <1>4, <1>5 DEF GInv, TypeOK, EntryInv, RecordInv

(* Where a token stands while it is decoded. *)
LEMMA Standing ==
  ASSUME GInv, run.at # "idle"
  PROVE  /\ run \in Decoding /\ run.sess \in Live /\ run.sess \in Slots
         /\ run.il \in Layers /\ run.island \in Islands /\ RunOk(run, Live)
         /\ Now(tmp) \in Used
<1>1. run \in Decoding /\ run.sess \in Live /\ RunOk(run, Live)
  BY DEF GInv, TypeOK, Resting, RunInv, RunOk
<1>2. run.sess \in Slots /\ run.il \in Layers /\ run.island \in Islands
  BY <1>1 DEF Decoding
<1> QED  BY <1>1, <1>2 DEF GInv, TypeOK, Now, Used

LEMMA SwapType ==
  ASSUME GInv, run.at # "idle", NEW island, Swap(island)
  PROVE  swapped' \in [Slots -> BOOLEAN]
BY Standing DEF Swap, GInv, TypeOK

(* A step inside an island that runs nothing. *)
LEMMA Moves ==
  ASSUME GInv, run.at \in {"begin", "eager", "capture", "end"},
         NEW at \in {"begin", "eager", "capture", "end"}, run' = [run EXCEPT !.at = at]
  PROVE  run' \in Resting \cup Decoding /\ RunOk(run', Live) /\ run'.at = at /\ run'.sess = run.sess
<1>1. run \in Decoding /\ RunOk(run, Live)
  BY Standing
<1>2. /\ run' \in Decoding /\ run'.at = at /\ run'.ran = run.ran /\ run'.sess = run.sess
      /\ run'.il = run.il /\ run'.island = run.island
  BY <1>1 DEF Decoding
<1> QED  BY <1>1, <1>2 DEF RunOk, Reached

LEMMA FailsOk ==
  ASSUME GInv, run.at # "idle", Fails
  PROVE  /\ run' \in Resting /\ RunOk(run', Live) /\ run'.at = "idle"
         /\ swapped' \in [Slots -> BOOLEAN]
<1>1. run' \in Resting /\ RunOk(run', Live) /\ run'.at = "idle"
  BY EmptySeq DEF Fails, Resting, RunOk, Sofar
<1> QED  BY <1>1, Standing DEF Fails, GInv, TypeOK

(* What is left to show of a step that opens and closes no session. *)
LEMMA Steps ==
  ASSUME GInv, UNCHANGED other, entries' \in [Places -> Entry], EntryInv', recorded' \in Graph, tmp' \in Nat,
         swapped' \in [Slots -> BOOLEAN], nodes' \in [{"scores", "experts"} -> Node], run' \in Resting \cup Decoding, RunOk(run', Live), RecordInv'
  PROVE  GInv'
<1>1. Live' = Live /\ RunInv' = RunOk(run', Live')
  BY DEF Live, RunInv
<1> QED  BY <1>1 DEF GInv, TypeOK

LEMMA StartTokenOk == ASSUME GInv, StartToken PROVE GInv'
<1>1. PICK s \in Live, p \in {0, 1} :
        run' = [at |-> "begin", ok |-> TRUE, ran |-> <<>>, sess |-> s, pos |-> p, il |-> 0, island |-> 0]
  BY DEF StartToken
<1>2. 0 \in Layers
  BY GraphsAssumption
<1>3. run' \in Decoding
  BY <1>1, <1>2, EmptySeq DEF Decoding, Live, Islands
<1>4. RunOk(run', Live)
  BY <1>1, EmptySeq DEF RunOk, Reached, Sofar
<1> QED  BY <1>1, <1>3, <1>4, Steps DEF StartToken, GInv, TypeOK, EntryInv, RecordInv, Live

LEMMA BeginEagerOk == ASSUME GInv, BeginEager PROVE GInv'
<1>1. run' \in Resting \cup Decoding /\ RunOk(run', Live) /\ run'.at = "eager"
  BY Moves DEF BeginEager, Begin
<1> QED  BY <1>1, Steps DEF BeginEager, GInv, TypeOK, EntryInv, RecordInv, Live

LEMMA BeginWarmOk == ASSUME GInv, BeginWarm PROVE GInv'
<1>1. run' \in Resting \cup Decoding /\ RunOk(run', Live) /\ run'.at = "eager"
  BY Moves DEF BeginWarm, Begin
<1>2. PICK v \in Find : entries' = Marked(v, 1, NoGraph)
  BY DEF BeginWarm
<1>3. 1 \in 0 .. 3 /\ NoGraph \in Graph
  BY DEF Graph
<1>4. entries' \in [Places -> Entry] /\ EntryInv'
  BY <1>2, <1>3, MarkedEntries DEF BeginWarm, Begin
<1> QED  BY <1>1, <1>4, Steps DEF BeginWarm, GInv, TypeOK, RecordInv

(* A replayed recording is of this session, as it stands, and of the       *)
(* scratch buffer that is there.                                           *)
LEMMA BeginReplayOk == ASSUME GInv, BeginReplay PROVE GInv'
<1>0. run.at = "begin" /\ UNCHANGED <<recorded, tmp, other, nodes>>
  BY DEF BeginReplay, Begin
<1>1. PICK v \in Find :
        /\ entries[Here(v)].state = 2
        /\ \/ /\ run' = Past(Ran(PieceOf(run.island), entries[Here(v)].exec.used, Now(tmp)))
              /\ Swap(run.island)
              /\ UNCHANGED entries
           \/ /\ entries' = Killed(v)
              /\ run' = [run EXCEPT !.at = "eager"]
              /\ UNCHANGED swapped
  BY DEF BeginReplay
<1>2. CASE entries' = Killed(v) /\ run' = [run EXCEPT !.at = "eager"] /\ UNCHANGED swapped
  <2>1. run' \in Resting \cup Decoding /\ RunOk(run', Live) /\ run'.at = "eager"
    BY <1>0, <1>2, Moves
  <2>2. entries' \in [Places -> Entry] /\ EntryInv'
    BY <1>0, <1>2, KilledEntries
  <2> QED  BY <1>0, <1>2, <2>1, <2>2, Steps DEF GInv, TypeOK, RecordInv
<1>3. CASE /\ run' = Past(Ran(PieceOf(run.island), entries[Here(v)].exec.used, Now(tmp)))
           /\ Swap(run.island) /\ UNCHANGED entries
  <2>1. entries[Here(v)].exec.used = Now(tmp)
    BY <1>0, <1>1, FoundHasKey DEF GInv, EntryInv, Key, Now
  <2>2. run' \in Resting \cup Decoding /\ RunOk(run', Live)
    BY <1>0, <1>3, <2>1, IslandRuns
  <2>3. run'.at # "end"
    BY <1>0, <1>3 DEF Past, Ran
  <2>4. swapped' \in [Slots -> BOOLEAN]
    BY <1>0, <1>3, SwapType
  <2> QED  BY <1>0, <1>3, <2>2, <2>3, <2>4, Steps DEF GInv, TypeOK, RecordInv, EntryInv, Live
<1> QED  BY <1>1, <1>2, <1>3

LEMMA BeginCaptureOk == ASSUME GInv, BeginCapture PROVE GInv'
<1>0. run.at = "begin" /\ UNCHANGED <<recorded, tmp, other, swapped, nodes>>
  BY DEF BeginCapture, Begin
<1>1. PICK v \in Find :
        \/ run' = [run EXCEPT !.at = "capture"] /\ UNCHANGED entries
        \/ entries' = Killed(v) /\ run' = [run EXCEPT !.at = "eager"]
  BY DEF BeginCapture
<1>2. run' \in Resting \cup Decoding /\ RunOk(run', Live) /\ run'.at # "end"
  BY <1>0, <1>1, Moves
<1>3. entries' \in [Places -> Entry] /\ EntryInv'
  <2>1. CASE UNCHANGED entries
    BY <1>0, <2>1 DEF GInv, TypeOK, EntryInv, Live
  <2>2. CASE entries' = Killed(v)
    BY <1>0, <2>2, KilledEntries
  <2> QED  BY <1>1, <2>1, <2>2
<1> QED  BY <1>0, <1>2, <1>3, Steps DEF GInv, TypeOK, RecordInv

(* A capture holds what is there: encoding fits the scratch buffer. *)
LEMMA EncodeOk == ASSUME GInv, Encode PROVE GInv'
<1>0. run.at = "capture" /\ UNCHANGED <<entries, tmp, other, swapped, nodes>>
  BY DEF Encode
<1>1. run' \in Resting \cup Decoding /\ RunOk(run', Live) /\ run'.at = "end" /\ run'.sess = run.sess
  BY <1>0, Moves DEF Encode
<1>2. 0 < tmp
  <2>1. run.il \in Layers /\ run.island \in Islands
    BY <1>0, Standing
  <2>2. IslandNeeds[run.il][run.island] \in 1 .. MaxTmp
    BY <2>1, GraphsAssumption
  <2>3. IslandNeeds[run.il][run.island] <= tmp /\ tmp \in Nat /\ MaxTmp \in Nat
    BY GraphsAssumption DEF Encode, GInv, TypeOK
  <2> QED  BY <2>2, <2>3
<1>3. recorded' \in Graph /\ recorded'.used = Now(tmp)
  BY <1>0, Standing DEF Encode, Graph
<1>4. RecordInv'
  BY <1>0, <1>1, <1>2, <1>3 DEF RecordInv, Now
<1> QED  BY <1>0, <1>1, <1>3, <1>4, Steps DEF GInv, TypeOK, EntryInv, Live

LEMMA AbortOk == ASSUME GInv, Abort PROVE GInv'
<1>0. run.at = "capture" /\ UNCHANGED <<recorded, tmp, other, swapped, nodes>> /\ entries' = KilledIfFound
  BY DEF Abort
<1>1. run' \in Resting \cup Decoding /\ RunOk(run', Live) /\ run'.at = "begin"
  BY <1>0, Moves DEF Abort
<1>2. entries' \in [Places -> Entry] /\ EntryInv'
  BY <1>0, KilledEntries
<1> QED  BY <1>0, <1>1, <1>2, Steps DEF GInv, TypeOK, RecordInv

LEMMA EndLaunchedOk == ASSUME GInv, EndLaunched PROVE GInv'
<1>0. run.at = "end" /\ UNCHANGED <<tmp, other, nodes>> /\ recorded' = NoGraph
  BY DEF EndLaunched
<1>1. PICK v \in Find :
        /\ entries' = Marked(v, 2, recorded)
        /\ run' = Past(Ran(PieceOf(run.island), recorded.used, Now(tmp)))
        /\ Swap(run.island)
  BY DEF EndLaunched
<1>2. 0 < tmp /\ recorded.used = Now(tmp) /\ recorded \in Graph
  BY <1>0 DEF GInv, RecordInv, TypeOK
<1>3. entries' \in [Places -> Entry] /\ EntryInv'
  <2>1. 2 \in 0 .. 3
    OBVIOUS
  <2> QED  BY <1>0, <1>1, <1>2, <2>1, MarkedEntries
<1>4. run' \in Resting \cup Decoding /\ RunOk(run', Live)
  BY <1>0, <1>1, <1>2, IslandRuns
<1>5. run'.at # "end"
  <2>1. Past(Ran(PieceOf(run.island), recorded.used, Now(tmp))).at # "end"
    BY <1>0 DEF Past, Ran
  <2> QED  BY <1>1, <2>1
<1>6. swapped' \in [Slots -> BOOLEAN]
  BY <1>0, <1>1, SwapType
<1> QED  BY <1>0, <1>3, <1>4, <1>5, <1>6, Steps DEF Graph, GInv, TypeOK, RecordInv

LEMMA EndFailedOk == ASSUME GInv, EndFailed PROVE GInv'
<1>0. run.at = "end" /\ UNCHANGED <<tmp, other, swapped, nodes>> /\ entries' = KilledIfFound /\ recorded' = NoGraph
  BY DEF EndFailed
<1>1. run' \in Resting \cup Decoding /\ RunOk(run', Live) /\ run'.at = "begin"
  BY <1>0, Moves DEF EndFailed
<1>2. entries' \in [Places -> Entry] /\ EntryInv'
  BY <1>0, KilledEntries
<1> QED  BY <1>0, <1>1, <1>2, Steps DEF Graph, GInv, TypeOK, RecordInv

(* An island that is encoded outside a capture: scratch first, then the    *)
(* places of the hidden states, then what ran.                             *)
LEMMA EagerOk == ASSUME GInv, Eager PROVE GInv'
<1> DEFINE need == IslandNeeds[run.il][run.island]
<1>0. run.at = "eager" /\ UNCHANGED <<recorded, other>>
  BY DEF Eager
<1>1. need \in Nat
  <2>1. run.il \in Layers /\ run.island \in Islands
    BY <1>0, Standing
  <2>2. need \in 1 .. MaxTmp
    BY <2>1, GraphsAssumption
  <2> QED  BY <2>2, GraphsAssumption
<1> HIDE DEF need
<1>a. other[run.sess] \in Args /\ 0 \in {0, 1} /\ "experts" \in {"scores", "experts"}
  BY <1>0, Standing DEF Args, GInv, TypeOK
<1>b. nodes' \in [{"scores", "experts"} -> Node]
  <2>1. nodes \in [{"scores", "experts"} -> Node]
    BY DEF GInv, TypeOK
  <2> QED  BY <1>a, <2>1, RelaunchArgs DEF Eager
<1>2. \/ /\ Grow(need) /\ Swap(run.island)
         /\ \E u : run' = Past(Ran(PieceOf(run.island), u, u))
      \/ (Grow(need) \/ GrowFails(need)) /\ Fails
  <2>1. CASE /\ Grow(need) /\ Swap(run.island)
             /\ run' = Past(Ran(PieceOf(run.island), Now(tmp'), Now(tmp')))
    BY <2>1
  <2>2. CASE /\ Grow(need) /\ Swap(run.island) /\ run.island = 1
             /\ LET c == Relaunch("experts", 0, other[run.sess])
                IN run' = Past(Ran("tail", c.args, other[run.sess]))
    <3>1. Relaunch("experts", 0, other[run.sess]).args = other[run.sess]
      BY <1>a, RelaunchArgs
    <3>2. PieceOf(run.island) = "tail"
      BY <2>2 DEF PieceOf
    <3> QED  BY <2>2, <3>1, <3>2
  <2> QED  BY <2>1, <2>2 DEF Eager, need
<1>3. tmp' \in Nat /\ entries' \in [Places -> Entry] /\ EntryInv'
  BY <1>0, <1>1, <1>2, GrowKeeps
<1>4. run' \in Resting \cup Decoding /\ RunOk(run', Live) /\ run'.at # "end" /\ swapped' \in [Slots -> BOOLEAN]
  <2>1. CASE Fails
    BY <1>0, <2>1, FailsOk
  <2>2. ASSUME NEW u, run' = Past(Ran(PieceOf(run.island), u, u)), Swap(run.island)
        PROVE  run' \in Resting \cup Decoding /\ RunOk(run', Live) /\ run'.at # "end" /\ swapped' \in [Slots -> BOOLEAN]
    <3>1. run'.at # "end"
      <4>1. Past(Ran(PieceOf(run.island), u, u)).at # "end"
        BY <1>0 DEF Past, Ran
      <4> QED  BY <2>2, <4>1
    <3> QED  BY <1>0, <2>2, <3>1, IslandRuns, SwapType
  <2> QED  BY <1>2, <2>1, <2>2
<1> QED  BY <1>0, <1>b, <1>3, <1>4, Steps DEF GInv, TypeOK, RecordInv

LEMMA MiddleOk == ASSUME GInv, Middle PROVE GInv'
<1>0. run.at = "middle" /\ UNCHANGED <<recorded, other>>
  BY DEF Middle
<1> DEFINE here == <<run.pos, tmp'>>
           c == Relaunch("scores", run.pos, here)
<1>1. PICK need \in 0 .. MaxTmp :
        \/ /\ Grow(need) /\ UNCHANGED swapped
           /\ \/ run' = [Ran("middle", here, here) EXCEPT !.at = "begin", !.island = 1] /\ UNCHANGED nodes
              \/ /\ nodes' = [nodes EXCEPT !["scores"] = c]
                 /\ run' = [Ran("middle", c.args, here) EXCEPT !.at = "begin", !.island = 1]
        \/ GrowFails(need) /\ Fails /\ UNCHANGED nodes
        \/ Grow(need) /\ Fails /\ nodes' \in {nodes, [nodes EXCEPT !["scores"] = Unset]}
  BY DEF Middle
<1>2. need \in Nat
  BY GraphsAssumption
<1>3. tmp' \in Nat /\ entries' \in [Places -> Entry] /\ EntryInv'
  BY <1>0, <1>1, <1>2, GrowKeeps
<1>a. here \in Args /\ run.pos \in {0, 1} /\ "scores" \in {"scores", "experts"}
  <2>1. run.pos \in {0, 1}
    BY <1>0, Standing DEF Decoding
  <2> QED  BY <1>3, <2>1 DEF Args
<1>b. c.args = here
  BY <1>a, RelaunchArgs
<1>c. nodes' \in [{"scores", "experts"} -> Node]
  <2>1. nodes \in [{"scores", "experts"} -> Node]
    BY DEF GInv, TypeOK
  <2> QED  BY <1>1, <1>a, <2>1, RelaunchArgs
<1> HIDE DEF here, c
<1>4. run' \in Resting \cup Decoding /\ RunOk(run', Live) /\ run'.at # "end" /\ swapped' \in [Slots -> BOOLEAN]
  <2>1. CASE Fails
    BY <1>0, <2>1, FailsOk
  <2>2. ASSUME NEW u, run' = [Ran("middle", u, u) EXCEPT !.at = "begin", !.island = 1], UNCHANGED swapped
        PROVE  run' \in Resting \cup Decoding /\ RunOk(run', Live) /\ run'.at # "end" /\ swapped' \in [Slots -> BOOLEAN]
    <3>1. run' \in Decoding /\ RunOk(run', Live)
      BY <1>0, <2>2, MiddleRuns
    <3>2. run'.at # "end"
      <4>1. run \in Decoding
        BY <1>0, Standing
      <4>2. run'.at = "begin"
        BY <2>2, <4>1 DEF Ran, Decoding
      <4> QED  BY <4>2
    <3> QED  BY <2>2, <3>1, <3>2 DEF GInv, TypeOK
  <2> QED  BY <1>1, <1>b, <2>1, <2>2
<1> QED  BY <1>0, <1>3, <1>4, <1>c, Steps DEF GInv, TypeOK, RecordInv

LEMMA PrefillOk == ASSUME GInv, Prefill PROVE GInv'
<1>1. PICK need \in 1 .. MaxTmp : Grow(need) \/ GrowFails(need)
  BY DEF Prefill
<1>2. need \in Nat
  BY GraphsAssumption
<1>3. tmp' \in Nat /\ entries' \in [Places -> Entry] /\ EntryInv'
  BY <1>1, <1>2, GrowKeeps DEF Prefill
<1> QED  BY <1>3, Steps DEF Prefill, GInv, TypeOK, RunInv, RecordInv

(* A session that opens is on a free address, which no recording names.    *)
LEMMA OpenOk == ASSUME GInv, NEW s \in Slots, Open(s) PROVE GInv'
<1>1. PICK a \in Addresses : other' = [other EXCEPT ![s] = a]
  BY DEF Open
<1>2. /\ run.at = "idle" /\ other[s] = NoSession /\ s \notin Live
      /\ swapped' = [swapped EXCEPT ![s] = FALSE]
      /\ UNCHANGED <<entries, recorded, tmp, nodes, run>>
  BY DEF Open, Live
<1>3. other' \in [Slots -> Buffers] /\ swapped' \in [Slots -> BOOLEAN]
  BY <1>1, <1>2 DEF GInv, TypeOK, Buffers
<1>4. \A u \in Live : u \in Live' /\ other'[u] = other[u]
  BY <1>1, <1>2 DEF Live, GInv, TypeOK
<1>5. EntryInv'
  BY <1>2, <1>4 DEF GInv, EntryInv
<1>6. RunInv'
  BY <1>2 DEF GInv, RunInv, RunOk
<1> QED  BY <1>2, <1>3, <1>5, <1>6 DEF GInv, TypeOK, RecordInv

LEMMA CloseOk == ASSUME GInv, NEW s \in Slots, Close(s) PROVE GInv'
<1>1. other' \in [Slots -> Buffers]
  BY DEF Close, GInv, TypeOK, Buffers
<1>2. entries' \in [Places -> Entry] /\ EntryInv'
  BY Clears DEF Close
<1>3. RunInv' /\ RecordInv'
  BY DEF Close, GInv, RunInv, RunOk, RecordInv
<1> QED  BY <1>1, <1>2, <1>3 DEF Close, GInv, TypeOK

-----------------------------------------------------------------------------
(* The theorems *)

LEMMA GInvStep == GInv /\ [Next]_vars => GInv'
<1> SUFFICES ASSUME GInv, [Next]_vars PROVE GInv'
  OBVIOUS
<1>1. CASE StartToken
  BY <1>1, StartTokenOk
<1>2. CASE EncodeStep
  BY <1>2, BeginEagerOk, BeginWarmOk, BeginReplayOk, BeginCaptureOk, EncodeOk, AbortOk,
     EndLaunchedOk, EndFailedOk, EagerOk, MiddleOk DEF EncodeStep
<1>3. CASE Prefill
  BY <1>3, PrefillOk
<1>4. ASSUME NEW s \in Slots, Open(s) \/ Close(s) PROVE GInv'
  BY <1>4, OpenOk, CloseOk
<1>5. CASE UNCHANGED vars
  <2>1. Live' = Live
    BY <1>5 DEF vars, Live
  <2> QED  BY <1>5, <2>1 DEF vars, GInv, TypeOK, RunInv, EntryInv, RecordInv, Now
<1> QED  BY <1>1, <1>2, <1>3, <1>4, <1>5 DEF Next

(* Every recording that is kept holds the scratch buffer and the buffers   *)
(* that are there, whatever grew, closed or failed since it was made.      *)
THEOREM GraphInvariant == Spec => []GInv
BY InitOk, GInvStep, PTL DEF Spec

(* However many recordings fail and wherever a token stops, the pieces of  *)
(* the layers it encoded ran once each and in order, and a token that is   *)
(* done ran all of them.                                                   *)
THEOREM PiecesOnce == Spec => []RanOnce
<1>1. GInv => RanOnce
  BY DEF GInv, RunInv, RunOk, Sofar, RanOnce
<1> QED  BY <1>1, GraphInvariant, PTL

(* What ran, recorded or not, used what was there and this token's         *)
(* arguments.                                                              *)
THEOREM NoStaleReplay == Spec => []ReplaySound
<1>1. GInv => ReplaySound
  BY DEF GInv, RunInv, RunOk, Sofar, ReplaySound
<1> QED  BY <1>1, GraphInvariant, PTL

=============================================================================

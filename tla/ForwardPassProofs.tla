-------------------------- MODULE ForwardPassProofs ---------------------------
(***************************************************************************)
(* The artifact of the forward pass is safe from kills: for any tape,      *)
(* barrier, batch and ceiling the process implements PassArtifact, every   *)
(* committed row is the book that the tape up to it replays to, the counts *)
(* add up to the rows of the tape, and, when the barrier is pinned, every  *)
(* exclusion window brackets its gap.                                      *)
(***************************************************************************)
EXTENDS ForwardPass, FoldProofs, SequenceTheorems, TLAPS

Uncommitted == {k \in DOMAIN files : k[2] > checkpoint.barrier}

\* Records keep their fields, and barriers, ids and counts are numbers.
Shape ==
    /\ DOMAIN pass = {"pc", "limit", "read", "barrier", "state", "since", "fetched", "final"}
    /\ "id" \in DOMAIN pass.state /\ "id" \in DOMAIN checkpoint.state
    /\ pass.barrier \in Nat /\ pass.since \in Nat /\ pass.state.id \in Nat
    /\ checkpoint.barrier \in Nat /\ checkpoint.state.id \in Nat
    /\ \A k \in DOMAIN files : k[2] \in Nat

\* A running process stands on the checkpoint, and has gone on from it as far
\* as since says.
Resumed ==
    pass.pc # "off" =>
        /\ pass.barrier = checkpoint.barrier
        /\ pass.since = 0 => pass.state.id = checkpoint.state.id
        /\ pass.since > 0 => pass.state.id > checkpoint.state.id
        /\ pass.pc = "sweep" => pass.since = 0
        /\ pass.pc = "close" => pass.since > 0

\* What it writes belongs to the next barrier and to rows after the checkpoint.
Ahead ==
    pass.pc \notin {"off", "sweep"} =>
        /\ \A k \in Uncommitted : k[2] = pass.barrier + 1
        /\ \A k \in Uncommitted : \A r \in files[k].rows :
              r.id \in (checkpoint.state.id + 1)..pass.state.id
        /\ \A k, m \in Uncommitted : \A r \in files[k].rows, q \in files[m].rows :
              r.id = q.id => r = q

Inv == Shape /\ Resumed /\ Ahead

-----------------------------------------------------------------------------

\* A row leaves the state with its own id (_Pass.consume).
LEMMA ConsumedId ==
    ASSUME NEW s, "id" \in DOMAIN s, NEW read, NEW id
    PROVE  /\ "id" \in DOMAIN Consumed(s, read, id)
           /\ Consumed(s, read, id).id = id
<1> DEFINE o == Observed(s, read, tape[id])
<1>1. "id" \in DOMAIN o
  BY DEF Observed
<1>2. ASSUME NEW t, NEW row, NEW u, "id" \in DOMAIN u
      PROVE  "id" \in DOMAIN Admitted(u, t)
  BY <1>2 DEF Admitted, Evicted
<1>3. "id" \in DOMAIN Laddered(o, tape[id])
  <2>1. CASE Refused(o, tape[id])
    BY <1>1, <2>1 DEF Laddered
  <2>2. CASE ~Refused(o, tape[id])
    <3> DEFINE u == [o EXCEPT !.poisoned = @ \ {tape[id].ticker}]
    <3>1. "id" \in DOMAIN u
      BY <1>1
    <3>2. "id" \in DOMAIN Admitted(u, tape[id].ticker)
      BY <1>2, <3>1
    <3> QED BY <2>2, <3>2 DEF Laddered
  <2> QED BY <2>1, <2>2
<1> QED BY <1>3 DEF Consumed

\* No files, no checkpoint, no process.
LEMMA Initially == Init => Inv
BY DEF Init, Inv, Shape, Resumed, Ahead, Uncommitted, Idle, NoCheckpoint, Start

-----------------------------------------------------------------------------

\* The recorder touches neither the files nor the process.
LEMMA RecorderStep ==
    ASSUME Inv, Recorder
    PROVE  Inv' /\ UNCHANGED <<files, checkpoint, pass>>
<1>1. \A t \in Tickers : RecordSnapshot(t) => UNCHANGED <<files, checkpoint, pass>>
  BY DEF RecordSnapshot
<1>2. \A t \in Tickers : RecordDelta(t) => UNCHANGED <<files, checkpoint, pass>>
  BY DEF RecordDelta
<1>3. RecordGap => UNCHANGED <<files, checkpoint, pass>>
  BY DEF RecordGap
<1>4. UNCHANGED <<files, checkpoint, pass>>
  BY <1>1, <1>2, <1>3 DEF Recorder
<1> QED BY <1>4 DEF Inv, Shape, Resumed, Ahead, Uncommitted

\* The steps of the process that leave the checkpoint and the committed files
\* as they are (Begin, Sweep, Fetch, CloseFile, Finish, Kill).
LEMMA BeginStep ==
    ASSUME Inv, Begin
    PROVE  Inv'
BY DEF Begin, Restored, Idle, Inv, Shape, Resumed, Ahead, Uncommitted

\* The sweep at the start deletes files that no commit covers.
LEMMA SweepStep ==
    ASSUME Inv, Sweep
    PROVE  Inv'
<1>1. CASE Stale = {} /\ pass' = [pass EXCEPT !.pc = "read"] /\ UNCHANGED files
  <2>1. UNCHANGED checkpoint /\ Uncommitted' = {}
    BY <1>1 DEF Sweep, Stale, Uncommitted
  <2> QED BY <1>1, <2>1 DEF Sweep, Inv, Shape, Resumed, Ahead
<1>2. ASSUME NEW k \in Stale, files' = [f \in DOMAIN files \ {k} |-> files[f]],
             UNCHANGED pass
      PROVE  Inv'
  BY <1>2 DEF Sweep, Inv, Shape, Resumed, Ahead, Uncommitted
<1> QED BY <1>1, <1>2 DEF Sweep

\* A read takes the rows that follow the last consumed one.
LEMMA FetchStep ==
    ASSUME Inv, Fetch
    PROVE  Inv'
<1> DEFINE to == Min({pass.state.id + ReadBatch, pass.limit, Len(tape)})
<1>1. CASE to > pass.state.id
  <2>1. pass' = [pass EXCEPT !.pc = "consume", !.fetched = to]
    BY <1>1 DEF Fetch
  <2> HIDE DEF to
  <2> QED BY <2>1 DEF Fetch, Inv, Shape, Resumed, Ahead, Uncommitted
<1>2. CASE ~(to > pass.state.id)
  <2>1. pass' = [pass EXCEPT !.pc = IF pass.since > 0 THEN "close" ELSE "done",
                             !.final = TRUE]
    BY <1>2 DEF Fetch
  <2> HIDE DEF to
  <2> QED BY <2>1 DEF Fetch, Inv, Shape, Resumed, Ahead, Uncommitted
<1> QED BY <1>1, <1>2

\* Closing files commits none of them.
LEMMA CloseStep ==
    ASSUME Inv, CloseFile
    PROVE  Inv' /\ \A k \in DOMAIN files : files'[k].rows = files[k].rows
BY DEF CloseFile, Open, Inv, Shape, Resumed, Ahead, Uncommitted

\* A finished process leaves what it committed.
LEMMA FinishStep ==
    ASSUME Inv, Finish \/ Kill
    PROVE  Inv'
BY DEF Finish, Kill, Idle, Start, Inv, Shape, Resumed, Ahead, Uncommitted

\* The row that a step consumes is the next one, and the files it changes are
\* none of the committed ones.
LEMMA ConsumeStep ==
    ASSUME Inv, Consume
    PROVE  /\ Inv'
           /\ \A k \in DOMAIN files \ Uncommitted :
                 k \in DOMAIN files' /\ files'[k] = files[k]
           /\ \A k \in DOMAIN files' : k \in DOMAIN files \/ k[2] > checkpoint.barrier
<1> DEFINE id  == pass.state.id + 1
           st  == Consumed(pass.state, pass.read, id)
           nxt == IF pass.since + 1 = BarrierRows THEN "close"
                  ELSE IF id = pass.fetched THEN "read" ELSE "consume"
           key == <<tape[id].ticker, pass.barrier + 1>>
           out == [id |-> id, levels |-> LadderOf(st, tape[id].ticker).levels]
           old == IF key \in DOMAIN files /\ ~files[key].closed THEN files[key].rows ELSE {}
           new == [rows |-> old \cup {out}, closed |-> FALSE]
<1>1. /\ pass.pc = "consume" /\ UNCHANGED checkpoint
      /\ pass' = [pass EXCEPT !.state = st, !.since = @ + 1, !.pc = nxt]
      /\ files' = Emitted(files, pass.state, st, pass.barrier, id)
  BY DEF Consume
<1>2. "id" \in DOMAIN st /\ st.id = id
  BY ConsumedId DEF Inv, Shape
<1>3. \/ files' = files
      \/ files' = [k \in DOMAIN files \cup {key} |-> IF k = key THEN new ELSE files[k]]
  BY <1>1 DEF Emitted
<1>4. key[2] = pass.barrier + 1 /\ out.id = id
  OBVIOUS
<1>5. \A r \in new.rows : r = out \/ (key \in DOMAIN files /\ r \in files[key].rows)
  OBVIOUS
<1> HIDE DEF st, nxt, key, out, old, new
<1>6. /\ DOMAIN pass' = DOMAIN pass /\ pass'.state = st /\ pass'.since = pass.since + 1
      /\ pass'.barrier = pass.barrier /\ pass'.pc = nxt
  BY <1>1 DEF Inv, Shape
<1>7. nxt \in {"close", "read", "consume"}
  BY DEF nxt
<1>8. /\ pass.barrier = checkpoint.barrier /\ pass.barrier \in Nat
      /\ pass.since \in Nat /\ pass.state.id \in Nat /\ checkpoint.state.id \in Nat
      /\ pass.state.id >= checkpoint.state.id
      /\ \A k \in DOMAIN files : k[2] \in Nat
  BY <1>1 DEF Inv, Shape, Resumed
<1>9. Shape' /\ Resumed'
  BY <1>1, <1>2, <1>3, <1>4, <1>6, <1>7, <1>8 DEF Inv, Shape, Resumed
<1>10. Ahead'
  <2>1. \A k \in Uncommitted' : k = key \/ k \in Uncommitted
    BY <1>1, <1>3 DEF Uncommitted
  <2>2. \A k \in Uncommitted' : \A r \in files'[k].rows :
           r = out \/ \E m \in Uncommitted : r \in files[m].rows
    BY <1>1, <1>3, <1>4, <1>5, <1>8 DEF Uncommitted
  <2>3. \A m \in Uncommitted : \A r \in files[m].rows :
           r.id \in (checkpoint.state.id + 1)..pass.state.id
    BY <1>1 DEF Inv, Ahead
  <2>4. \A k \in Uncommitted' : k[2] = pass'.barrier + 1
    BY <1>1, <1>4, <1>6, <2>1 DEF Inv, Ahead
  <2>5. \A k \in Uncommitted' : \A r \in files'[k].rows :
           r.id \in (checkpoint'.state.id + 1)..pass'.state.id
    BY <1>1, <1>2, <1>4, <1>6, <1>8, <2>2, <2>3
  <2>6. \A k, m \in Uncommitted : \A r \in files[k].rows, q \in files[m].rows :
           r.id = q.id => r = q
    BY <1>1 DEF Inv, Ahead
  <2>7. \A k, m \in Uncommitted' : \A r \in files'[k].rows, q \in files'[m].rows :
           r.id = q.id => r = q
    BY <1>4, <1>8, <2>2, <2>3, <2>6
  <2> QED BY <2>4, <2>5, <2>7 DEF Ahead
<1>11. \A k \in DOMAIN files \ Uncommitted : k \in DOMAIN files' /\ files'[k] = files[k]
  BY <1>3, <1>4, <1>8 DEF Uncommitted
<1>12. \A k \in DOMAIN files' : k \in DOMAIN files \/ k[2] > checkpoint.barrier
  BY <1>3, <1>4, <1>8
<1> QED BY <1>9, <1>10, <1>11, <1>12 DEF Inv

\* A barrier covers the rows it wrote and leaves nothing uncommitted.
LEMMA CommitStep ==
    ASSUME Inv, Commit
    PROVE  Inv' /\ Promise!Extend
<1>1. /\ pass.pc = "close" /\ UNCHANGED files
      /\ checkpoint' = [barrier |-> pass.barrier + 1, state |-> pass.state]
      /\ pass'.barrier = pass.barrier + 1 /\ pass'.since = 0 /\ pass'.state = pass.state
      /\ pass'.pc \in {"done", "read", "consume"} /\ DOMAIN pass' = DOMAIN pass
  BY DEF Commit, Inv, Shape
<1>2. /\ pass.barrier = checkpoint.barrier /\ pass.barrier \in Nat
      /\ pass.state.id > checkpoint.state.id
      /\ \A k \in DOMAIN files : k[2] \in Nat
  BY <1>1 DEF Inv, Shape, Resumed
<1>3. \A k \in Uncommitted : k[2] = pass.barrier + 1
  BY <1>1 DEF Inv, Ahead
<1>4. Uncommitted' = {}
  BY <1>1, <1>2, <1>3 DEF Uncommitted
<1>5. Inv'
  BY <1>1, <1>4 DEF Inv, Shape, Resumed, Ahead
<1>6. Artifact \subseteq Artifact'
  BY <1>1, <1>2 DEF Artifact, Committed
<1>7. \A r \in Artifact' \ Artifact : \E k \in Uncommitted : r \in files[k].rows
  BY <1>1, <1>2 DEF Artifact, Committed, Uncommitted
<1>8. /\ \A k \in Uncommitted : \A r \in files[k].rows :
            r.id \in (checkpoint.state.id + 1)..pass.state.id
      /\ \A k, m \in Uncommitted : \A r \in files[k].rows, q \in files[m].rows :
            r.id = q.id => r = q
  BY <1>1 DEF Inv, Ahead
<1>9. checkpoint'.state.id = pass.state.id
  BY <1>1
<1> QED BY <1>2, <1>5, <1>6, <1>7, <1>8, <1>9 DEF Promise!Extend

-----------------------------------------------------------------------------

\* A step that keeps the checkpoint and the committed files keeps the artifact.
LEMMA SameArtifact ==
    ASSUME Inv, UNCHANGED checkpoint,
           \A k \in DOMAIN files \ Uncommitted : k \in DOMAIN files' /\ files'[k].rows = files[k].rows,
           \A k \in DOMAIN files' : k \in DOMAIN files \/ k[2] > checkpoint.barrier,
           \A k \in DOMAIN files' : k[2] \in Nat
    PROVE  UNCHANGED <<checkpoint.state.id, Artifact>>
<1>1. checkpoint.barrier \in Nat /\ \A k \in DOMAIN files : k[2] \in Nat
  BY DEF Inv, Shape
<1>2. Committed = DOMAIN files \ Uncommitted
  BY <1>1 DEF Committed, Uncommitted
<1>3. Committed' = Committed
  BY <1>1, <1>2 DEF Committed, Uncommitted
<1>4. \A k \in Committed : files'[k].rows = files[k].rows
  BY <1>2
<1> QED BY <1>3, <1>4 DEF Artifact

\* Only a barrier moves the checkpoint and the artifact.
LEMMA QuietStep ==
    ASSUME Inv, Recorder \/ Begin \/ Sweep \/ Fetch \/ Consume \/ CloseFile \/ Finish \/ Kill
    PROVE  Inv' /\ UNCHANGED <<checkpoint, Artifact>>
<1>0. checkpoint.barrier \in Nat /\ \A k \in DOMAIN files : k[2] \in Nat
  BY DEF Inv, Shape
<1>1. CASE Recorder
  BY <1>1, RecorderStep DEF Artifact, Committed
<1>2. CASE Begin \/ Fetch \/ Finish \/ Kill
  <2>1. UNCHANGED <<files, checkpoint>>
    BY <1>2 DEF Begin, Fetch, Finish, Kill
  <2> QED BY <1>2, <2>1, BeginStep, FetchStep, FinishStep DEF Artifact, Committed
<1>3. CASE Sweep
  <2>1. Inv' /\ UNCHANGED checkpoint
    BY <1>3, SweepStep DEF Sweep
  <2>2. \A k \in DOMAIN files \ Uncommitted :
           k \in DOMAIN files' /\ files'[k].rows = files[k].rows
    BY <1>3 DEF Sweep, Stale, Uncommitted
  <2>3. \A k \in DOMAIN files' : k \in DOMAIN files
    BY <1>3 DEF Sweep
  <2>4. \A k \in DOMAIN files' : k[2] \in Nat
    BY <1>0, <2>3
  <2> QED BY <2>1, <2>2, <2>3, <2>4, SameArtifact
<1>4. CASE Consume
  <2>1. Inv' /\ UNCHANGED checkpoint
    BY <1>4, ConsumeStep DEF Consume
  <2>2. \A k \in DOMAIN files' : k[2] \in Nat
    BY <2>1 DEF Inv, Shape
  <2> QED BY <1>4, <2>1, <2>2, ConsumeStep, SameArtifact
<1>5. CASE CloseFile
  <2>1. Inv' /\ UNCHANGED checkpoint /\ DOMAIN files' = DOMAIN files
    BY <1>5, CloseStep DEF CloseFile
  <2>2. \A k \in DOMAIN files : files'[k].rows = files[k].rows
    BY <1>5, CloseStep
  <2> QED BY <1>0, <2>1, <2>2, SameArtifact
<1> QED BY <1>1, <1>2, <1>3, <1>4, <1>5

\* Every step keeps the invariant and is a step of PassArtifact or invisible.
LEMMA StepImplements ==
    ASSUME Inv, [Next]_vars
    PROVE  Inv' /\ (Promise!Extend \/ UNCHANGED <<checkpoint.state.id, Artifact>>)
<1>1. CASE Recorder \/ Begin \/ Sweep \/ Fetch \/ Consume \/ CloseFile \/ Finish \/ Kill
  BY <1>1, QuietStep
<1>2. CASE Commit
  BY <1>2, CommitStep
<1>3. CASE UNCHANGED vars
  BY <1>3 DEF vars, Inv, Shape, Resumed, Ahead, Uncommitted, Artifact, Committed
<1> QED BY <1>1, <1>2, <1>3 DEF Next

(* For any tape, barrier, batch and ceiling, and wherever the pass is killed *)
(* (_Pass.restore, _Pass.commit): the committed artifact grows only at       *)
(* barriers, by at most one row for each new id, and keeps every row.        *)
THEOREM KillsAreInvisible == Spec => ArtifactSpec
<1>1. Init => Inv /\ Promise!Init
  BY Initially DEF Init, NoCheckpoint, Start, Promise!Init, Artifact, Committed
<1>2. Inv /\ [Next]_vars
        => Inv' /\ (Promise!Extend \/ UNCHANGED <<checkpoint.state.id, Artifact>>)
  BY StepImplements
<1> QED BY <1>1, <1>2, PTL DEF Spec, ArtifactSpec, Promise!Spec

-----------------------------------------------------------------------------
(***************************************************************************)
(* What a pass knows at a row.  T and G are a tape and its gap rows, s is  *)
(* the state of a pass that has consumed the first s.id rows of the tape.  *)
(***************************************************************************)
Edge   == [start : Nat, end : Nat]
Edges  == UNION {[D -> Edge] : D \in SUBSET Nat}
Counts == [Tickers -> Nat]
States == [id : Nat, ladders : Seq(Ladder), poisoned : SUBSET Tickers, skipped : Counts,
           seen : Counts, edges : Edges, last : Nat]

\* One clock stamps rows and gap rows, and rows that share a stamp are the
\* levels of one snapshot.
WellFormed(T, G) ==
    /\ T \in Seq(Row) /\ G \in Seq(Gap)
    /\ \A i \in DOMAIN T : T[i].at > 0
    /\ \A i, j \in DOMAIN T : i <= j => T[i].at <= T[j].at
    /\ \A i, j \in DOMAIN T : i # j /\ T[i].at = T[j].at =>
          T[i].snap /\ T[i].ticker = T[j].ticker /\ T[i].level # T[j].level
    /\ \A g \in DOMAIN G : G[g].at > 0
    /\ \A g, h \in DOMAIN G : g <= h => G[g].at <= G[h].at
    /\ \A i \in DOMAIN T, g \in DOMAIN G : T[i].at # G[g].at

\* The stamp of the snapshot that governs a book, and the rows it is made of.
SnapsOf(T, t, id) ==
    {T[i].at : i \in {j \in 1..id : T[j].ticker = t /\ T[j].snap}} \cup {0}
StampOf(T, t, id) == Max(SnapsOf(T, t, id))
RowsOf(T, t, id, from, l) ==
    {i \in 1..id : /\ T[i].ticker = t /\ T[i].level = l
                   /\ IF T[i].snap THEN T[i].at = from ELSE T[i].at > from}
BookOn(T, t, id) ==
    [l \in Levels |->
       SumFunction([i \in RowsOf(T, t, id, StampOf(T, t, id), l) |-> T[i].size])]

\* The ladders are of different tickers, and no more than the ceiling.
Sized(T, G, s) ==
    /\ s \in States /\ s.id \in 0..Len(T)
    /\ \A i, j \in DOMAIN s.ladders : s.ladders[i].ticker = s.ladders[j].ticker => i = j
    /\ Ceiling # 0 => Len(s.ladders) <= Ceiling
    /\ s.poisoned \cap Books(s) = {}
    /\ DOMAIN s.edges \subseteq DOMAIN G

\* Every row is counted once.
About(T, t, id) == {i \in 1..id : T[i].ticker = t}

Counting(T, s) == \A t \in Tickers : s.seen[t] = Cardinality(About(T, t, s.id))

\* A resident ladder is the book, a ticker that has neither a ladder nor poison
\* has no row yet, and the snapshot being read has its ladder.
Matching(T, s) ==
    /\ \A i \in DOMAIN s.ladders :
          LET b == s.ladders[i]
          IN  b.key = StampOf(T, b.ticker, s.id) /\ b.levels = BookOn(T, b.ticker, s.id)
    /\ \A i \in 1..s.id : T[i].ticker \in Books(s) \cup s.poisoned
    /\ s.id > 0 /\ T[s.id].snap => T[s.id].ticker \in Books(s)

\* The edges of a gap row are the last row before it and the first row after.
Latest(T, s) == s.last = IF s.id = 0 THEN 0 ELSE T[s.id].at

Frames(e, T, id, at) ==
    /\ e.start \in {T[i].at : i \in 1..id} \cup {0} /\ e.start < at
    /\ \A i \in 1..id : T[i].at < at => T[i].at <= e.start
    /\ e.end \in {T[i].at : i \in 1..id} /\ e.end > at
    /\ \A i \in 1..id : T[i].at > at => T[i].at >= e.end

Bracketed(T, G, s) ==
    /\ \A g \in DOMAIN G : g \in DOMAIN s.edges <=> \E i \in 1..s.id : T[i].at > G[g].at
    /\ \A g \in DOMAIN s.edges : Frames(s.edges[g], T, s.id, G[g].at)

Tracked(T, G, s) ==
    /\ Sized(T, G, s) /\ Counting(T, s) /\ Matching(T, s) /\ Latest(T, s)
    /\ Pinned => Bracketed(T, G, s)

-----------------------------------------------------------------------------

\* What the row adds to the inventories (ExclusionInventory.observe).
LEMMA ObservedFields ==
    ASSUME NEW s \in States, NEW read \in Nat, NEW row \in Row
    PROVE  LET o == Observed(s, read, row)
           IN  /\ o \in States
               /\ o.id = s.id /\ o.ladders = s.ladders /\ o.poisoned = s.poisoned
               /\ o.skipped = s.skipped
               /\ o.seen = [s.seen EXCEPT ![row.ticker] = @ + 1]
               /\ o.last = row.at
               /\ DOMAIN o.edges = DOMAIN s.edges \cup Passed(s, read, row)
               /\ \A g \in DOMAIN s.edges : o.edges[g] = s.edges[g]
               /\ \A g \in Passed(s, read, row) : o.edges[g] = [start |-> s.last, end |-> row.at]
<1> DEFINE edge == [start |-> s.last, end |-> row.at]
           new  == [g \in DOMAIN s.edges \cup Passed(s, read, row) |->
                      IF g \in DOMAIN s.edges THEN s.edges[g] ELSE edge]
           cnt  == [s.seen EXCEPT ![row.ticker] = @ + 1]
           o    == Observed(s, read, row)
<1>1. row.ticker \in Tickers /\ row.at \in Nat
  BY DEF Row
<1>2. cnt \in Counts
  BY <1>1 DEF States, Counts
<1>3. s.edges \in Edges /\ edge \in Edge
  BY <1>1 DEF States, Edge
<1>4. PICK D \in SUBSET Nat : s.edges \in [D -> Edge]
  BY <1>3 DEF Edges
<1>5. Passed(s, read, row) \subseteq Nat /\ Passed(s, read, row) \cap DOMAIN s.edges = {}
  BY DEF Passed
<1>6. /\ DOMAIN new = DOMAIN s.edges \cup Passed(s, read, row)
      /\ \A g \in DOMAIN s.edges : new[g] = s.edges[g]
      /\ \A g \in Passed(s, read, row) : new[g] = edge
  BY <1>5
<1>7. new \in Edges
  <2>1. new \in [D \cup Passed(s, read, row) -> Edge]
    BY <1>3, <1>4, <1>5
  <2>2. D \cup Passed(s, read, row) \in SUBSET Nat
    BY <1>5
  <2> HIDE DEF new
  <2> QED BY <2>1, <2>2 DEF Edges
<1>8. o = [s EXCEPT !.seen = cnt, !.edges = new, !.last = row.at]
  BY DEF Observed, States
<1> HIDE DEF new, cnt, o
<1>9. /\ o \in States /\ o.id = s.id /\ o.ladders = s.ladders /\ o.poisoned = s.poisoned
      /\ o.skipped = s.skipped /\ o.seen = cnt /\ o.last = row.at /\ o.edges = new
  BY <1>1, <1>2, <1>7, <1>8 DEF States
<1> QED BY <1>6, <1>9 DEF cnt, o

\* What the row makes of a ladder (Ladder.apply).
LEMMA AppliedFields ==
    ASSUME NEW b \in Ladder, NEW row \in Row
    PROVE  LET a == Applied(b, row)
           IN  /\ a \in Ladder /\ a.ticker = b.ticker
               /\ a.key = IF row.snap THEN row.at ELSE b.key
               /\ a.levels = IF ~row.snap THEN [b.levels EXCEPT ![row.level] = @ + row.size]
                             ELSE IF b.key = row.at THEN [b.levels EXCEPT ![row.level] = row.size]
                             ELSE [NoLevels EXCEPT ![row.level] = row.size]
<1> DEFINE a == Applied(b, row)
           was == IF b.key = row.at THEN b.levels ELSE NoLevels
           plus == [b.levels EXCEPT ![row.level] = @ + row.size]
           set  == [was EXCEPT ![row.level] = row.size]
<1>1. row.level \in Levels /\ row.size \in Int /\ row.at \in Nat /\ row.snap \in BOOLEAN
  BY DEF Row
<1>2. b.levels \in Book /\ NoLevels \in Book
  BY DEF Ladder, NoLevels, Book
<1>3. plus \in Book /\ was \in Book
  BY <1>1, <1>2 DEF Book
<1>4. set \in Book
  BY <1>1, <1>3 DEF Book
<1>5. a = IF ~row.snap THEN [b EXCEPT !.levels = plus]
          ELSE [b EXCEPT !.key = row.at, !.levels = set]
  BY DEF Applied, Ladder
<1>6. set = IF b.key = row.at THEN [b.levels EXCEPT ![row.level] = row.size]
            ELSE [NoLevels EXCEPT ![row.level] = row.size]
  OBVIOUS
<1> HIDE DEF a, was, plus, set
<1>7. /\ a \in Ladder /\ a.ticker = b.ticker /\ a.key = IF row.snap THEN row.at ELSE b.key
      /\ a.levels = IF ~row.snap THEN plus ELSE set
  BY <1>1, <1>3, <1>4, <1>5 DEF Ladder
<1> QED BY <1>6, <1>7 DEF a, plus

\* The place of a resident ladder.
LEMMA PlaceIs ==
    ASSUME NEW s, NEW t, Resident(s, t)
    PROVE  PlaceOf(s, t) \in DOMAIN s.ladders /\ s.ladders[PlaceOf(s, t)].ticker = t
BY DEF Resident, PlaceOf

Fresh(t) == [ticker |-> t, levels |-> NoLevels, key |-> 0]

Distinct(ladders) ==
    \A i, j \in DOMAIN ladders : ladders[i].ticker = ladders[j].ticker => i = j

\* Making room takes the first ladder (_Pass._evict).
LEMMA EvictedFields ==
    ASSUME NEW s \in States, s.ladders # <<>>, Distinct(s.ladders)
    PROVE  LET e == Evicted(s)
           IN  /\ e \in States
               /\ e.id = s.id /\ e.skipped = s.skipped /\ e.seen = s.seen
               /\ e.edges = s.edges /\ e.last = s.last
               /\ e.ladders = Tail(s.ladders)
               /\ e.poisoned = s.poisoned \cup {s.ladders[1].ticker}
               /\ Distinct(e.ladders)
               /\ \A i \in DOMAIN e.ladders : i + 1 \in DOMAIN s.ladders
                                             /\ e.ladders[i] = s.ladders[i + 1]
               /\ Books(s) = Books(e) \cup {s.ladders[1].ticker}
               /\ s.ladders[1].ticker \notin Books(e)
<1> DEFINE e == Evicted(s)
           q == s.ladders
<1>1. q \in Seq(Ladder) /\ s.poisoned \in SUBSET Tickers
  BY DEF States
<1>2. /\ Tail(q) \in Seq(Ladder) /\ Head(q) = q[1] /\ Len(q) \in Nat /\ Len(q) # 0
      /\ Len(Tail(q)) = Len(q) - 1
      /\ \A i \in 1..Len(Tail(q)) : Tail(q)[i] = q[i + 1]
  BY <1>1, HeadTailProperties, LenProperties, EmptySeq
<1>3. DOMAIN q = 1..Len(q) /\ DOMAIN Tail(q) = 1..(Len(q) - 1) /\ 1 \in DOMAIN q
  BY <1>1, <1>2, LenProperties
<1>4. q[1] \in Ladder
  BY <1>1, <1>3, ElementOfSeq, LenProperties
<1>5. q[1].ticker \in Tickers
  BY <1>4 DEF Ladder
<1>6. e = [s EXCEPT !.ladders = Tail(q), !.poisoned = s.poisoned \cup {q[1].ticker}]
  BY <1>2 DEF Evicted, States
<1> HIDE DEF e, q
<1>7. /\ e \in States /\ e.id = s.id /\ e.skipped = s.skipped /\ e.seen = s.seen
      /\ e.edges = s.edges /\ e.last = s.last
      /\ e.ladders = Tail(q) /\ e.poisoned = s.poisoned \cup {q[1].ticker}
  BY <1>1, <1>2, <1>5, <1>6 DEF States
<1>8. \A i \in DOMAIN e.ladders : i + 1 \in DOMAIN q /\ e.ladders[i] = q[i + 1]
  BY <1>2, <1>3, <1>7
<1>9. \A i \in DOMAIN e.ladders : i \in Nat /\ i + 1 # 1
  BY <1>3, <1>7
<1>10. Distinct(q)
  BY DEF q
<1>11. Distinct(e.ladders)
  <2> SUFFICES ASSUME NEW i \in DOMAIN e.ladders, NEW j \in DOMAIN e.ladders,
                      e.ladders[i].ticker = e.ladders[j].ticker
               PROVE  i = j
    BY DEF Distinct
  <2>1. i + 1 = j + 1
    BY <1>8, <1>10 DEF Distinct
  <2> QED BY <1>9, <2>1
<1>12. q[1].ticker \notin Books(e)
  BY <1>3, <1>8, <1>9, <1>10 DEF Distinct, Books
<1>13. \A j \in DOMAIN q : j = 1 \/ (j - 1 \in DOMAIN e.ladders /\ e.ladders[j - 1] = q[j])
  <2> TAKE j \in DOMAIN q
  <2>1. j # 1 => j - 1 \in 1..(Len(q) - 1) /\ (j - 1) + 1 = j
    BY <1>2, <1>3
  <2> QED BY <1>3, <1>7, <1>8, <2>1
<1>14. Books(s) = Books(e) \cup {q[1].ticker}
  BY <1>3, <1>8, <1>13 DEF Books, q
<1> QED BY <1>7, <1>8, <1>11, <1>12, <1>14 DEF e, q

WithLadders(s, q) == [s EXCEPT !.ladders = q]

\* A ladder at the end.
LEMMA AppendedLadder ==
    ASSUME NEW s \in States, Distinct(s.ladders), NEW b \in Ladder, b.ticker \notin Books(s)
    PROVE  LET a == WithLadders(s, Append(s.ladders, b))
           IN  /\ a \in States
               /\ a.id = s.id /\ a.skipped = s.skipped /\ a.seen = s.seen /\ a.edges = s.edges
               /\ a.last = s.last /\ a.poisoned = s.poisoned
               /\ Len(a.ladders) = Len(s.ladders) + 1
               /\ Distinct(a.ladders)
               /\ \A i \in DOMAIN a.ladders :
                     a.ladders[i] = b \/ (i \in DOMAIN s.ladders /\ a.ladders[i] = s.ladders[i])
               /\ Books(a) = Books(s) \cup {b.ticker}
<1> DEFINE q == s.ladders
           p == Append(q, b)
           a == WithLadders(s, p)
<1>1. q \in Seq(Ladder)
  BY DEF States
<1>2. /\ p \in Seq(Ladder) /\ Len(p) = Len(q) + 1 /\ p[Len(q) + 1] = b
      /\ \A i \in 1..Len(q) : p[i] = q[i]
  BY <1>1, AppendProperties
<1>3. Len(q) \in Nat /\ DOMAIN q = 1..Len(q) /\ DOMAIN p = 1..(Len(q) + 1)
  BY <1>1, <1>2, LenProperties
<1> HIDE DEF p, q
<1>4. /\ a \in States /\ a.ladders = p
      /\ a.id = s.id /\ a.skipped = s.skipped /\ a.seen = s.seen /\ a.edges = s.edges
      /\ a.last = s.last /\ a.poisoned = s.poisoned
  BY <1>2 DEF States, WithLadders
<1> HIDE DEF a
<1>5. \A i \in DOMAIN p : i = Len(q) + 1 \/ (i \in DOMAIN q /\ p[i] = q[i])
  BY <1>2, <1>3
<1>6. \A i \in DOMAIN q : i \in DOMAIN p /\ q[i].ticker # b.ticker
  BY <1>3 DEF Books, q
<1>7. Distinct(p)
  BY <1>2, <1>5, <1>6 DEF Distinct, q
<1>8. Books(a) = Books(s) \cup {b.ticker}
  BY <1>2, <1>3, <1>4, <1>5, <1>6 DEF Books, q
<1> QED BY <1>2, <1>4, <1>5, <1>7, <1>8 DEF a, p, q

\* A ladder moved to the end.
LEMMA MovedLadder ==
    ASSUME NEW s \in States, Distinct(s.ladders), NEW t, Resident(s, t)
    PROVE  LET a == WithLadders(s, Append(RemoveAt(s.ladders, PlaceOf(s, t)), LadderOf(s, t)))
           IN  /\ a \in States
               /\ a.id = s.id /\ a.skipped = s.skipped /\ a.seen = s.seen /\ a.edges = s.edges
               /\ a.last = s.last /\ a.poisoned = s.poisoned
               /\ Len(a.ladders) = Len(s.ladders)
               /\ Distinct(a.ladders)
               /\ \A i \in DOMAIN a.ladders : \E j \in DOMAIN s.ladders :
                     a.ladders[i] = s.ladders[j]
               /\ Books(a) = Books(s)
<1> DEFINE q == s.ladders
           k == PlaceOf(s, t)
           r == RemoveAt(q, k)
           e == WithLadders(s, r)
           a == WithLadders(s, Append(r, q[k]))
<1>1. q \in Seq(Ladder) /\ Len(q) \in Nat /\ DOMAIN q = 1..Len(q)
  BY LenProperties DEF States
<1>2. k \in 1..Len(q) /\ q[k].ticker = t
  BY <1>1, PlaceIs
<1>3. /\ r \in Seq(Ladder) /\ DOMAIN r = 1..(Len(q) - 1)
      /\ \A j \in 1..(Len(q) - 1) : r[j] = q[IF j < k THEN j ELSE j + 1]
  BY <1>1, <1>2, WithoutOne
<1>4. Len(r) = Len(q) - 1
  BY <1>1, <1>2, <1>3, LenProperties
<1>5. q[k] \in Ladder
  BY <1>1, <1>2, ElementOfSeq
<1> HIDE DEF k, r, q
<1>6. /\ e \in States /\ e.ladders = r
      /\ e.id = s.id /\ e.skipped = s.skipped /\ e.seen = s.seen /\ e.edges = s.edges
      /\ e.last = s.last /\ e.poisoned = s.poisoned
  BY <1>3 DEF States, WithLadders
<1>7. \A j \in DOMAIN r : (IF j < k THEN j ELSE j + 1) \in (1..Len(q)) \ {k}
  BY <1>1, <1>2, <1>3
<1>8. \A i, j \in DOMAIN r :
         (IF i < k THEN i ELSE i + 1) = (IF j < k THEN j ELSE j + 1) => i = j
  BY <1>1, <1>2, <1>3
<1>9. Distinct(q)
  BY DEF q
<1>10. Distinct(e.ladders)
  <2> SUFFICES ASSUME NEW i \in DOMAIN r, NEW j \in DOMAIN r, r[i].ticker = r[j].ticker
               PROVE  i = j
    BY <1>6 DEF Distinct
  <2>1. (IF i < k THEN i ELSE i + 1) = (IF j < k THEN j ELSE j + 1)
    BY <1>1, <1>3, <1>7, <1>9 DEF Distinct
  <2> QED BY <1>8, <2>1
<1>11. \A j \in DOMAIN r : r[j] = q[IF j < k THEN j ELSE j + 1] /\ r[j].ticker # t
  BY <1>1, <1>2, <1>3, <1>7, <1>9 DEF Distinct
<1>12. q[k].ticker \notin Books(e)
  BY <1>2, <1>6, <1>11 DEF Books
<1>13. a = WithLadders(e, Append(e.ladders, q[k]))
  BY <1>6 DEF States, WithLadders, e
<1>14. Books(s) = Books(e) \cup {t}
  <2>1. \A x \in Books(e) : x \in Books(s)
    BY <1>1, <1>3, <1>6, <1>7, <1>11 DEF Books, q
  <2>2. ASSUME NEW i \in DOMAIN q, i # k PROVE q[i].ticker \in Books(e)
    <3>1. CASE i < k
      <4>1. i \in DOMAIN r
        BY <1>1, <1>2, <1>3, <3>1
      <4> QED BY <1>6, <1>11, <3>1, <4>1 DEF Books
    <3>2. CASE ~(i < k)
      <4>1. i - 1 \in DOMAIN r /\ ~(i - 1 < k) /\ (i - 1) + 1 = i
        BY <1>1, <1>2, <1>3, <2>2, <3>2
      <4> QED BY <1>6, <1>11, <4>1 DEF Books
    <3> QED BY <3>1, <3>2
  <2>3. t \in Books(s)
    BY <1>1, <1>2 DEF Books, q
  <2>4. \A x \in Books(s) : x \in Books(e) \cup {t}
    BY <1>2, <2>2 DEF Books, q
  <2> QED BY <2>1, <2>3, <2>4
<1>15. /\ a \in States
       /\ a.id = e.id /\ a.skipped = e.skipped /\ a.seen = e.seen /\ a.edges = e.edges
       /\ a.last = e.last /\ a.poisoned = e.poisoned
       /\ Len(a.ladders) = Len(e.ladders) + 1
       /\ Distinct(a.ladders)
       /\ \A i \in DOMAIN a.ladders :
             a.ladders[i] = q[k] \/ (i \in DOMAIN e.ladders /\ a.ladders[i] = e.ladders[i])
       /\ Books(a) = Books(e) \cup {q[k].ticker}
  <2> HIDE DEF e, a
  <2> QED BY <1>5, <1>6, <1>10, <1>12, <1>13, AppendedLadder
<1> HIDE DEF a, e
<1>16. Len(a.ladders) = Len(q)
  BY <1>1, <1>4, <1>6, <1>15
<1>17. \A i \in DOMAIN a.ladders : \E j \in DOMAIN q : a.ladders[i] = q[j]
  BY <1>1, <1>2, <1>6, <1>7, <1>11, <1>15
<1>18. Books(a) = Books(s)
  BY <1>2, <1>14, <1>15
<1> QED BY <1>6, <1>15, <1>16, <1>17, <1>18 DEF a, q, k, r, LadderOf

\* The ticker of a row that is not refused has a ladder after _Pass._open: its
\* own, or an empty one, with the first of the others evicted if need be.
LEMMA AdmittedFields ==
    ASSUME NEW s \in States, Distinct(s.ladders), Ceiling # 0 => Len(s.ladders) <= Ceiling,
           s.poisoned \cap Books(s) = {}, NEW t \in Tickers \ s.poisoned
    PROVE  LET a == Admitted(s, t)
           IN  /\ a \in States
               /\ a.id = s.id /\ a.skipped = s.skipped /\ a.seen = s.seen /\ a.edges = s.edges
               /\ a.last = s.last
               /\ Distinct(a.ladders) /\ (Ceiling # 0 => Len(a.ladders) <= Ceiling)
               /\ a.poisoned \cap Books(a) = {} /\ t \in Books(a)
               /\ s.poisoned \subseteq a.poisoned
               /\ Books(s) \subseteq Books(a) \cup a.poisoned
               /\ \A i \in DOMAIN a.ladders :
                     \/ \E j \in DOMAIN s.ladders : a.ladders[i] = s.ladders[j]
                     \/ t \notin Books(s) /\ a.ladders[i] = Fresh(t)
<1> DEFINE a == Admitted(s, t)
<1>1. CASE Resident(s, t)
  <2>1. t \in Books(s)
    BY <1>1 DEF Resident, Books
  <2>2. CASE Ceiling = 0
    BY <1>1, <2>1, <2>2 DEF Admitted
  <2>3. CASE Ceiling # 0
    <3>1. a = WithLadders(s, Append(RemoveAt(s.ladders, PlaceOf(s, t)), LadderOf(s, t)))
      BY <1>1, <2>3 DEF Admitted, WithLadders
    <3>2. LET b == WithLadders(s, Append(RemoveAt(s.ladders, PlaceOf(s, t)), LadderOf(s, t)))
          IN
          /\ b \in States
          /\ b.id = s.id /\ b.skipped = s.skipped /\ b.seen = s.seen /\ b.edges = s.edges
          /\ b.last = s.last /\ b.poisoned = s.poisoned
          /\ Len(b.ladders) = Len(s.ladders)
          /\ Distinct(b.ladders)
          /\ \A i \in DOMAIN b.ladders : \E j \in DOMAIN s.ladders :
                b.ladders[i] = s.ladders[j]
          /\ Books(b) = Books(s)
      BY <1>1, MovedLadder
    <3> HIDE DEF a
    <3>3. Ceiling # 0 => Len(a.ladders) <= Ceiling
      BY <3>1, <3>2
    <3> QED BY <2>1, <3>1, <3>2, <3>3 DEF a
  <2> QED BY <2>2, <2>3
<1>2. CASE ~Resident(s, t)
  <2> DEFINE b    == Fresh(t)
             full == Ceiling # 0 /\ Len(s.ladders) >= Ceiling
             room == IF full THEN Evicted(s) ELSE s
  <2>1. a = WithLadders(room, Append(room.ladders, b))
    BY <1>2 DEF Admitted, Fresh, WithLadders
  <2>2. b \in Ladder /\ b.ticker = t
    BY DEF Fresh, Ladder, Book, NoLevels
  <2>3. t \notin Books(s)
    BY <1>2 DEF Resident, Books
  <2>4. Ceiling \in Nat /\ Len(s.ladders) \in Nat
    BY PassAssumption, LenProperties DEF States
  <2>5. /\ room \in States
        /\ room.id = s.id /\ room.skipped = s.skipped /\ room.seen = s.seen
        /\ room.edges = s.edges /\ room.last = s.last
        /\ Distinct(room.ladders) /\ (Ceiling # 0 => Len(room.ladders) + 1 <= Ceiling)
        /\ s.poisoned \subseteq room.poisoned
        /\ Books(s) \subseteq Books(room) \cup room.poisoned
        /\ Books(room) \subseteq Books(s)
        /\ room.poisoned \cap Books(room) = {} /\ t \notin room.poisoned
        /\ \A i \in DOMAIN room.ladders : \E j \in DOMAIN s.ladders :
              room.ladders[i] = s.ladders[j]
    <3>1. CASE full
      <4>1. s.ladders # <<>>
        BY <2>4, <3>1, EmptySeq
      <4> DEFINE e == Evicted(s)
      <4>2. /\ e \in States
            /\ e.id = s.id /\ e.skipped = s.skipped /\ e.seen = s.seen
            /\ e.edges = s.edges /\ e.last = s.last
            /\ e.ladders = Tail(s.ladders)
            /\ e.poisoned = s.poisoned \cup {s.ladders[1].ticker}
            /\ Distinct(e.ladders)
            /\ \A i \in DOMAIN e.ladders : i + 1 \in DOMAIN s.ladders
                                          /\ e.ladders[i] = s.ladders[i + 1]
            /\ Books(s) = Books(e) \cup {s.ladders[1].ticker}
            /\ s.ladders[1].ticker \notin Books(e)
        BY <4>1, EvictedFields
      <4>3. Len(e.ladders) = Len(s.ladders) - 1
        BY <4>1, <4>2, HeadTailProperties DEF States
      <4> HIDE DEF e
      <4>4. room = e
        BY <3>1 DEF e
      <4>5. Ceiling # 0 => Len(e.ladders) + 1 <= Ceiling
        BY <2>4, <4>3
      <4>6. t \notin e.poisoned /\ Books(e) \subseteq Books(s)
        BY <2>3, <4>2
      <4>7. e.poisoned \cap Books(e) = {}
        BY <4>2
      <4> HIDE DEF room
      <4> QED BY <4>2, <4>4, <4>5, <4>6, <4>7
    <3>2. CASE ~full
      BY <2>4, <3>2
    <3> QED BY <3>1, <3>2
  <2> HIDE DEF room, b, full, a
  <2>6. /\ a \in States
        /\ a.id = room.id /\ a.skipped = room.skipped /\ a.seen = room.seen
        /\ a.edges = room.edges /\ a.last = room.last /\ a.poisoned = room.poisoned
        /\ Len(a.ladders) = Len(room.ladders) + 1
        /\ Distinct(a.ladders)
        /\ \A i \in DOMAIN a.ladders :
              a.ladders[i] = b \/ (i \in DOMAIN room.ladders /\ a.ladders[i] = room.ladders[i])
        /\ Books(a) = Books(room) \cup {t}
    <3>1. b.ticker \notin Books(room)
      BY <2>2, <2>3, <2>5
    <3> QED BY <2>1, <2>2, <2>5, <3>1, AppendedLadder
  <2>7. \A i \in DOMAIN a.ladders :
           \/ \E j \in DOMAIN s.ladders : a.ladders[i] = s.ladders[j]
           \/ t \notin Books(s) /\ a.ladders[i] = b
    BY <2>3, <2>5, <2>6
  <2>8. a.poisoned \cap Books(a) = {} /\ t \in Books(a)
    BY <2>5, <2>6
  <2>9. Books(s) \subseteq Books(a) \cup a.poisoned /\ s.poisoned \subseteq a.poisoned
    BY <2>5, <2>6
  <2>10. Ceiling # 0 => Len(a.ladders) <= Ceiling
    BY <2>5, <2>6
  <2> QED BY <2>5, <2>6, <2>7, <2>8, <2>9, <2>10 DEF a, b
<1> QED BY <1>1, <1>2

\* A row that is refused is counted; another one is applied to the ladder of
\* its ticker, which is there then (_Pass._ladder).
LEMMA RefusedFields ==
    ASSUME NEW s \in States, NEW row \in Row, Refused(s, row)
    PROVE  LET p == Laddered(s, row)
           IN  /\ p \in States
               /\ p.id = s.id /\ p.seen = s.seen /\ p.edges = s.edges /\ p.last = s.last
               /\ p.ladders = s.ladders /\ p.poisoned = s.poisoned
               /\ p.skipped = [s.skipped EXCEPT ![row.ticker] = @ + 1]
<1> DEFINE p   == Laddered(s, row)
           cnt == [s.skipped EXCEPT ![row.ticker] = @ + 1]
<1>1. p = [s EXCEPT !.skipped = cnt]
  BY DEF Laddered
<1>2. row.ticker \in Tickers
  BY DEF Row
<1>3. cnt \in Counts
  BY <1>2 DEF States, Counts
<1> HIDE DEF p, cnt
<1>4. /\ p \in States
      /\ p.id = s.id /\ p.seen = s.seen /\ p.edges = s.edges /\ p.last = s.last
      /\ p.ladders = s.ladders /\ p.poisoned = s.poisoned /\ p.skipped = cnt
  BY <1>1, <1>3 DEF States
<1> QED BY <1>4 DEF p, cnt

\* A row that has a ladder changes the ladders, the most recent last, and what is poisoned.
LEMMA LadderedFields ==
    ASSUME NEW s \in States, Distinct(s.ladders), Ceiling # 0 => Len(s.ladders) <= Ceiling,
           s.poisoned \cap Books(s) = {}, NEW row \in Row, ~Refused(s, row)
    PROVE  LET p == Laddered(s, row)
               t == row.ticker
           IN  /\ p \in States
               /\ p.id = s.id /\ p.seen = s.seen /\ p.edges = s.edges /\ p.last = s.last
               /\ p.skipped = s.skipped
               /\ Distinct(p.ladders) /\ (Ceiling # 0 => Len(p.ladders) <= Ceiling)
               /\ p.poisoned \cap Books(p) = {} /\ t \in Books(p)
               /\ s.poisoned \ {t} \subseteq p.poisoned
               /\ Books(s) \subseteq Books(p) \cup p.poisoned
               /\ \A i \in DOMAIN p.ladders :
                     \/ p.ladders[i].ticker # t
                        /\ \E j \in DOMAIN s.ladders : p.ladders[i] = s.ladders[j]
                     \/ \E j \in DOMAIN s.ladders : /\ s.ladders[j].ticker = t
                                                   /\ p.ladders[i] = Applied(s.ladders[j], row)
                     \/ t \notin Books(s) /\ p.ladders[i] = Applied(Fresh(t), row)
<1> DEFINE t == row.ticker
           u == [s EXCEPT !.poisoned = @ \ {t}]
           a == Admitted(u, t)
           q == [i \in DOMAIN a.ladders |->
                   IF a.ladders[i].ticker = t THEN Applied(a.ladders[i], row) ELSE a.ladders[i]]
           p == Laddered(s, row)
<1>1. t \in Tickers
  BY DEF Row
<1>2. /\ u \in States /\ u.id = s.id /\ u.skipped = s.skipped /\ u.seen = s.seen
      /\ u.edges = s.edges /\ u.last = s.last /\ u.ladders = s.ladders
      /\ u.poisoned = s.poisoned \ {t}
  BY DEF States
<1>3. Books(u) = Books(s)
  BY <1>2 DEF Books
<1>4. p = WithLadders(a, q)
  BY DEF Laddered, WithLadders
<1> HIDE DEF t, u, p
<1>5. /\ a \in States
      /\ a.id = u.id /\ a.skipped = u.skipped /\ a.seen = u.seen /\ a.edges = u.edges
      /\ a.last = u.last
      /\ Distinct(a.ladders) /\ (Ceiling # 0 => Len(a.ladders) <= Ceiling)
      /\ a.poisoned \cap Books(a) = {} /\ t \in Books(a)
      /\ u.poisoned \subseteq a.poisoned
      /\ Books(u) \subseteq Books(a) \cup a.poisoned
      /\ \A i \in DOMAIN a.ladders :
            \/ \E j \in DOMAIN u.ladders : a.ladders[i] = u.ladders[j]
            \/ t \notin Books(u) /\ a.ladders[i] = Fresh(t)
  <2>1. t \in Tickers \ u.poisoned
    BY <1>1, <1>2
  <2>2. u.poisoned \cap Books(u) = {}
    BY <1>2, <1>3
  <2> QED BY <1>2, <2>1, <2>2, AdmittedFields
<1> HIDE DEF a
<1>6. a.ladders \in Seq(Ladder) /\ Len(a.ladders) \in Nat /\ DOMAIN a.ladders = 1..Len(a.ladders)
  BY <1>5, LenProperties DEF States
<1>7. \A i \in DOMAIN a.ladders : a.ladders[i] \in Ladder
  BY <1>6, ElementOfSeq
<1>8. \A i \in DOMAIN q : q[i] \in Ladder /\ q[i].ticker = a.ladders[i].ticker
  BY <1>7, AppliedFields
<1>9. q \in Seq(Ladder) /\ Len(q) = Len(a.ladders) /\ DOMAIN q = DOMAIN a.ladders
  <2>1. DOMAIN q = DOMAIN a.ladders /\ DOMAIN q = 1..Len(a.ladders)
    BY <1>6
  <2>2. q = [i \in 1..Len(a.ladders) |-> q[i]]
    BY <1>6
  <2>3. q \in Seq(Ladder)
    <3> HIDE DEF q
    <3>1. \A i \in 1..Len(a.ladders) : q[i] \in Ladder
      BY <1>8, <2>1
    <3> QED BY <1>6, <2>2, <3>1, IsASeq
  <2> HIDE DEF q
  <2> QED BY <1>6, <2>1, <2>3, LenProperties
<1>10. \A i \in DOMAIN q : /\ a.ladders[i].ticker = t => q[i] = Applied(a.ladders[i], row)
                           /\ a.ladders[i].ticker # t => q[i] = a.ladders[i]
  OBVIOUS
<1> HIDE DEF q
<1>11. /\ p \in States /\ p.ladders = q
       /\ p.id = a.id /\ p.skipped = a.skipped /\ p.seen = a.seen /\ p.edges = a.edges
       /\ p.last = a.last /\ p.poisoned = a.poisoned
  BY <1>4, <1>5, <1>9 DEF States, WithLadders
<1>12. Books(p) = Books(a)
  BY <1>8, <1>9, <1>11 DEF Books
<1>13. Distinct(p.ladders)
  BY <1>5, <1>8, <1>9, <1>11 DEF Distinct
<1>14. \A i \in DOMAIN p.ladders :
          \/ p.ladders[i].ticker # t /\ \E j \in DOMAIN s.ladders : p.ladders[i] = s.ladders[j]
          \/ \E j \in DOMAIN s.ladders : /\ s.ladders[j].ticker = t
                                        /\ p.ladders[i] = Applied(s.ladders[j], row)
          \/ t \notin Books(s) /\ p.ladders[i] = Applied(Fresh(t), row)
  <2> TAKE i \in DOMAIN p.ladders
  <2>1. i \in DOMAIN a.ladders /\ i \in DOMAIN q /\ p.ladders[i] = q[i]
    BY <1>9, <1>11
  <2>2. CASE a.ladders[i].ticker # t
    <3>1. Fresh(t).ticker = t
      BY DEF Fresh
    <3>2. \E j \in DOMAIN s.ladders : a.ladders[i] = s.ladders[j]
      BY <1>2, <1>5, <2>1, <2>2, <3>1
    <3> QED BY <1>8, <1>10, <2>1, <2>2, <3>2
  <2>3. CASE a.ladders[i].ticker = t
    <3>1. p.ladders[i] = Applied(a.ladders[i], row)
      BY <1>10, <2>1, <2>3
    <3> QED BY <1>2, <1>3, <1>5, <2>1, <2>3, <3>1
  <2> QED BY <2>2, <2>3
<1>15. s.poisoned \ {t} \subseteq p.poisoned
  BY <1>2, <1>5, <1>11
<1> QED BY <1>2, <1>3, <1>5, <1>9, <1>11, <1>12, <1>13, <1>14, <1>15 DEF p, t

-----------------------------------------------------------------------------
(***************************************************************************)
(* The book of a ticker, row by row.                                       *)
(***************************************************************************)

\* The fields of a row, and how two rows relate.
LEMMA RowFacts ==
    ASSUME NEW T, NEW G, WellFormed(T, G), NEW i \in 1..Len(T)
    PROVE  /\ T[i] \in Row /\ T[i].at \in Nat /\ T[i].at > 0
           /\ T[i].ticker \in Tickers /\ T[i].size \in Int /\ T[i].level \in Levels
           /\ T[i].snap \in BOOLEAN
           /\ \A j \in 1..Len(T) : j < i =>
                 /\ T[j].at <= T[i].at
                 /\ T[j].at = T[i].at =>
                       T[i].snap /\ T[j].snap /\ T[j].ticker = T[i].ticker /\ T[j].level # T[i].level
<1>1. T \in Seq(Row) /\ DOMAIN T = 1..Len(T) /\ Len(T) \in Nat
  BY LenProperties DEF WellFormed
<1>2. T[i] \in Row
  BY <1>1, ElementOfSeq
<1>3. /\ T[i].at \in Nat /\ T[i].ticker \in Tickers /\ T[i].size \in Int
      /\ T[i].level \in Levels /\ T[i].snap \in BOOLEAN
  BY <1>2 DEF Row
<1>4. T[i].at > 0
  BY <1>1 DEF WellFormed
<1>5. ASSUME NEW j \in 1..Len(T), j < i
      PROVE  /\ T[j].at <= T[i].at
             /\ T[j].at = T[i].at =>
                   T[i].snap /\ T[j].snap /\ T[j].ticker = T[i].ticker /\ T[j].level # T[i].level
  <2>1. j \in DOMAIN T /\ i \in DOMAIN T /\ j # i /\ j <= i
    BY <1>1, <1>5
  <2>2. T[j].at <= T[i].at
    BY <2>1 DEF WellFormed
  <2>3. \A a, b \in DOMAIN T : a # b /\ T[a].at = T[b].at =>
          T[a].snap /\ T[a].ticker = T[b].ticker /\ T[a].level # T[b].level
    BY DEF WellFormed
  <2> QED BY <2>1, <2>2, <2>3
<1> QED BY <1>2, <1>3, <1>4, <1>5

\* The stamp of the governing snapshot is the latest one of its ticker.
LEMMA StampIs ==
    ASSUME NEW T, NEW G, WellFormed(T, G), NEW id \in 0..Len(T), NEW t
    PROVE  /\ StampOf(T, t, id) \in SnapsOf(T, t, id) /\ StampOf(T, t, id) \in Nat
           /\ \A x \in SnapsOf(T, t, id) : x <= StampOf(T, t, id)
<1>1. Len(T) \in Nat
  BY LenProperties DEF WellFormed
<1> DEFINE S == {j \in 1..id : T[j].ticker = t /\ T[j].snap}
           Z == SnapsOf(T, t, id)
<1>2. \A j \in 1..id : j \in 1..Len(T) /\ T[j].at \in Nat /\ T[j].at > 0
  BY <1>1, RowFacts
<1>3. Z \in SUBSET Nat /\ Z = {T[i].at : i \in S} \cup {0}
  BY <1>2 DEF SnapsOf
<1>4. \E m \in Z : \A x \in Z : x <= m
  <2>1. CASE S = {}
    BY <1>3, <2>1
  <2>2. CASE S # {}
    <3>1. id \in Nat /\ S \in SUBSET (1..id)
      BY <1>1
    <3>2. PICK k \in S : \A j \in S : j <= k
      <4>1. S \in SUBSET (0..id)
        BY <3>1
      <4> HIDE DEF S
      <4> QED BY <2>2, <3>1, <4>1, LargestOf
    <3>3. \A j \in S : T[j].at <= T[k].at
      <4> TAKE j \in S
      <4>1. j = k \/ j < k
        BY <3>2
      <4>2. j < k => T[j].at <= T[k].at
        BY <1>2, RowFacts
      <4> QED BY <1>2, <4>1, <4>2
    <3>4. T[k].at \in Z /\ \A x \in Z : x <= T[k].at
      BY <1>2, <1>3, <3>3
    <3> QED BY <3>4
  <2> QED BY <2>1, <2>2
<1>5. PICK m \in Z : \A x \in Z : x <= m
  BY <1>4
<1> HIDE DEF Z
<1>6. Max(Z) = m
  <2>1. Z \in SUBSET Int
    BY <1>3
  <2> QED BY <1>5, <2>1, MaxIs
<1> QED BY <1>3, <1>5, <1>6 DEF StampOf, Z

\* What a book adds up is finite, and its levels are numbers.
LEMMA SumsAreFinite ==
    ASSUME NEW T, NEW G, WellFormed(T, G), NEW id \in 0..Len(T), NEW t, NEW from, NEW l
    PROVE  /\ IsFiniteSet(RowsOf(T, t, id, from, l))
           /\ RowsOf(T, t, id, from, l) \subseteq 1..id
           /\ [i \in RowsOf(T, t, id, from, l) |-> T[i].size]
                \in [RowsOf(T, t, id, from, l) -> Int]
<1>1. Len(T) \in Nat
  BY LenProperties DEF WellFormed
<1>2. IsFiniteSet(1..id) /\ RowsOf(T, t, id, from, l) \in SUBSET (1..id)
  BY <1>1, FS_Interval DEF RowsOf
<1>3. \A i \in 1..id : T[i].size \in Int
  BY <1>1, RowFacts
<1> QED BY <1>2, <1>3, FS_Subset

\* What the rows of a ticker add up to is a book.
LEMMA BookType ==
    ASSUME NEW T, NEW G, WellFormed(T, G), NEW id \in 0..Len(T), NEW t
    PROVE  BookOn(T, t, id) \in Book
<1> DEFINE R(l) == RowsOf(T, t, id, StampOf(T, t, id), l)
<1>1. \A l \in Levels : SumFunction([i \in R(l) |-> T[i].size]) \in Int
  <2> TAKE l \in Levels
  <2> DEFINE r == R(l)
  <2>1. IsFiniteSet(r) /\ [i \in r |-> T[i].size] \in [r -> Int]
    BY SumsAreFinite
  <2> HIDE DEF r
  <2>2. SumFunction([i \in r |-> T[i].size]) \in Int
    BY <2>1, SumType
  <2> QED BY <2>2 DEF r
<1> QED BY <1>1 DEF BookOn, Book

\* A ticker without a row has the empty book.
LEMMA NoRowsNoBook ==
    ASSUME NEW T, NEW id, NEW t, \A i \in 1..id : T[i].ticker # t
    PROVE  StampOf(T, t, id) = 0 /\ BookOn(T, t, id) = NoLevels
<1>1. SnapsOf(T, t, id) = {0}
  BY DEF SnapsOf
<1>2. StampOf(T, t, id) = 0
  BY <1>1, MaxIs DEF StampOf
<1>3. \A from, l : RowsOf(T, t, id, from, l) = {}
  BY DEF RowsOf
<1>4. \A from, l : SumFunction([i \in RowsOf(T, t, id, from, l) |-> T[i].size]) = 0
  <2> TAKE from, l
  <2> DEFINE f == [i \in RowsOf(T, t, id, from, l) |-> T[i].size]
  <2>1. DOMAIN f = {}
    BY <1>3
  <2> HIDE DEF f
  <2>2. SumFunction(f) = 0
    BY <2>1, SumOverNothing
  <2> QED BY <2>2 DEF f
<1> QED BY <1>2, <1>4 DEF BookOn, NoLevels

\* The rows up to an id stay, so the book does.
LEMMA BookStays ==
    ASSUME NEW T, NEW U, NEW id, NEW t, \A i \in 1..id : U[i] = T[i]
    PROVE  StampOf(U, t, id) = StampOf(T, t, id) /\ BookOn(U, t, id) = BookOn(T, t, id)
<1>1. SnapsOf(U, t, id) = SnapsOf(T, t, id)
  BY DEF SnapsOf
<1>2. StampOf(U, t, id) = StampOf(T, t, id)
  BY <1>1 DEF StampOf
<1>3. \A from, l : RowsOf(U, t, id, from, l) = RowsOf(T, t, id, from, l)
  BY DEF RowsOf
<1>4. \A from, l : [i \in RowsOf(U, t, id, from, l) |-> U[i].size]
                     = [i \in RowsOf(T, t, id, from, l) |-> T[i].size]
  <2> TAKE from, l
  <2>1. \A i \in RowsOf(T, t, id, from, l) : U[i].size = T[i].size
    BY DEF RowsOf
  <2> QED BY <1>3, <2>1
<1> QED BY <1>2, <1>4 DEF BookOn

\* A row of another ticker changes nothing.
LEMMA OtherBook ==
    ASSUME NEW T, NEW G, WellFormed(T, G), NEW id \in 0..(Len(T) - 1),
           NEW t, T[id + 1].ticker # t
    PROVE  /\ StampOf(T, t, id + 1) = StampOf(T, t, id)
           /\ BookOn(T, t, id + 1) = BookOn(T, t, id)
<1>1. Len(T) \in Nat
  BY LenProperties DEF WellFormed
<1>2. 1..(id + 1) = (1..id) \cup {id + 1}
  BY <1>1
<1>3. StampOf(T, t, id + 1) = StampOf(T, t, id)
  <2>1. SnapsOf(T, t, id + 1) = SnapsOf(T, t, id)
    BY <1>2 DEF SnapsOf
  <2> QED BY <2>1 DEF StampOf
<1>4. \A from, l : RowsOf(T, t, id + 1, from, l) = RowsOf(T, t, id, from, l)
  BY <1>2 DEF RowsOf
<1> QED BY <1>3, <1>4 DEF BookOn

\* A delta adds its size to its level.
LEMMA DeltaBook ==
    ASSUME NEW T, NEW G, WellFormed(T, G), NEW id \in 0..(Len(T) - 1), ~T[id + 1].snap
    PROVE  LET row == T[id + 1]
               t   == row.ticker
           IN  /\ StampOf(T, t, id + 1) = StampOf(T, t, id)
               /\ BookOn(T, t, id + 1) = [BookOn(T, t, id) EXCEPT ![row.level] = @ + row.size]
<1> DEFINE row  == T[id + 1]
           t    == row.ticker
           from == StampOf(T, t, id)
           R(l) == RowsOf(T, t, id, from, l)
           N(l) == RowsOf(T, t, id + 1, from, l)
<1>1. Len(T) \in Nat /\ id + 1 \in 1..Len(T) /\ id \in 0..Len(T)
  BY LenProperties DEF WellFormed
<1>2. 1..(id + 1) = (1..id) \cup {id + 1} /\ id + 1 \notin 1..id
  BY <1>1
<1>3. StampOf(T, t, id + 1) = from
  <2>1. SnapsOf(T, t, id + 1) = SnapsOf(T, t, id)
    BY <1>2 DEF SnapsOf
  <2> QED BY <2>1 DEF StampOf
<1>4. row.at > from
  <2>1. from \in SnapsOf(T, t, id) /\ from \in Nat
    BY <1>1, StampIs
  <2>2. row.at \in Nat /\ row.at > 0
    BY <1>1, RowFacts
  <2>3. \A j \in 1..id : T[j].at \in Nat /\ T[j].at < row.at
    <3> TAKE j \in 1..id
    <3>1. j \in 1..Len(T) /\ j < id + 1
      BY <1>1
    <3>2. T[j].at \in Nat
      BY <3>1, RowFacts
    <3>3. T[j].at <= row.at /\ T[j].at # row.at
      BY <1>1, <3>1, RowFacts
    <3> QED BY <2>2, <3>2, <3>3
  <2> QED BY <2>1, <2>2, <2>3 DEF SnapsOf
<1>5. \A l : l # row.level => N(l) = R(l)
  BY <1>2 DEF RowsOf
<1>6. N(row.level) = R(row.level) \cup {id + 1}
  BY <1>2, <1>4 DEF RowsOf
<1>7. row.level \in Levels /\ row.size \in Int
  BY <1>1, RowFacts
<1>8. SumFunction([i \in N(row.level) |-> T[i].size])
        = SumFunction([i \in R(row.level) |-> T[i].size]) + row.size
  <2> DEFINE r == R(row.level)
             f == [i \in r \cup {id + 1} |-> T[i].size]
             x == id + 1
  <2>1. IsFiniteSet(r) /\ r \subseteq 1..id /\ [i \in r |-> T[i].size] \in [r -> Int]
    BY <1>1, SumsAreFinite
  <2>2. \A i \in r : T[i].size \in Int
    BY <1>1, <2>1, RowFacts
  <2>3. x \notin r
    BY <1>2, <2>1
  <2>4. f \in [r \cup {x} -> Int] /\ f[x] = row.size
    BY <1>7, <2>2
  <2>5. [y \in r |-> f[y]] = [i \in r |-> T[i].size]
    OBVIOUS
  <2> HIDE DEF r, x, f
  <2>6. SumFunction(f) = SumFunction([y \in r |-> f[y]]) + f[x]
    BY <2>1, <2>3, <2>4, SumAddsElement
  <2>7. SumFunction(f) = SumFunction([i \in r |-> T[i].size]) + row.size
    BY <2>4, <2>5, <2>6
  <2> QED BY <1>6, <2>7 DEF r, x, f
<1>9. BookOn(T, t, id) = [l \in Levels |-> SumFunction([i \in R(l) |-> T[i].size])]
  BY DEF BookOn
<1>10. BookOn(T, t, id + 1) = [l \in Levels |-> SumFunction([i \in N(l) |-> T[i].size])]
  BY <1>3 DEF BookOn
<1> HIDE DEF row, R, N, from, t
<1>11. BookOn(T, t, id + 1) = [BookOn(T, t, id) EXCEPT ![row.level] = @ + row.size]
  <2>1. \A l \in Levels : SumFunction([i \in N(l) |-> T[i].size]) =
           IF l = row.level THEN SumFunction([i \in R(l) |-> T[i].size]) + row.size
                            ELSE SumFunction([i \in R(l) |-> T[i].size])
    BY <1>5, <1>8
  <2> DEFINE S(l) == SumFunction([i \in R(l) |-> T[i].size])
             M(l) == SumFunction([i \in N(l) |-> T[i].size])
  <2>2. /\ BookOn(T, t, id) = [l \in Levels |-> S(l)]
        /\ BookOn(T, t, id + 1) = [l \in Levels |-> M(l)]
        /\ \A l \in Levels : M(l) = IF l = row.level THEN S(l) + row.size ELSE S(l)
    BY <1>9, <1>10, <2>1
  <2> HIDE DEF S, M
  <2> QED BY <1>7, <2>2
<1> QED BY <1>3, <1>11 DEF row, t, from

\* A snapshot row sets its level, of the book so far when the message has
\* begun and of an empty one when it begins.
LEMMA SnapBook ==
    ASSUME NEW T, NEW G, WellFormed(T, G), NEW id \in 0..(Len(T) - 1), T[id + 1].snap
    PROVE  LET row == T[id + 1]
               t   == row.ticker
           IN  /\ StampOf(T, t, id + 1) = row.at
               /\ BookOn(T, t, id + 1) =
                    IF StampOf(T, t, id) = row.at
                    THEN [BookOn(T, t, id) EXCEPT ![row.level] = row.size]
                    ELSE [NoLevels EXCEPT ![row.level] = row.size]
<1> DEFINE row  == T[id + 1]
           t    == row.ticker
           R(l) == RowsOf(T, t, id, row.at, l)
           N(l) == RowsOf(T, t, id + 1, row.at, l)
           same == StampOf(T, t, id) = row.at
<1>1. Len(T) \in Nat /\ id + 1 \in 1..Len(T) /\ id \in 0..Len(T)
  BY LenProperties DEF WellFormed
<1>2. 1..(id + 1) = (1..id) \cup {id + 1} /\ id + 1 \notin 1..id
  BY <1>1
<1>3. /\ row.at \in Nat /\ row.at > 0 /\ row.size \in Int /\ row.level \in Levels
      /\ row.ticker \in Tickers
  BY <1>1, RowFacts
<1>4. \A j \in 1..id : /\ T[j].at \in Nat /\ T[j].at <= row.at
                       /\ T[j].at = row.at => T[j].level # row.level
  <2> TAKE j \in 1..id
  <2>1. j \in 1..Len(T) /\ j < id + 1
    BY <1>1
  <2>2. T[j].at \in Nat
    BY <2>1, RowFacts
  <2>3. T[j].at <= row.at /\ (T[j].at = row.at => T[j].level # row.level)
    BY <1>1, <2>1, RowFacts
  <2> QED BY <2>2, <2>3
<1>5. StampOf(T, t, id + 1) = row.at
  <2>1. row.at \in SnapsOf(T, t, id + 1)
    BY <1>2 DEF SnapsOf
  <2>2. SnapsOf(T, t, id + 1) \in SUBSET Int /\ \A x \in SnapsOf(T, t, id + 1) : x <= row.at
    BY <1>2, <1>3, <1>4 DEF SnapsOf
  <2> QED BY <2>1, <2>2, MaxIs DEF StampOf
<1>6. N(row.level) = {id + 1}
  BY <1>2, <1>3, <1>4 DEF RowsOf
<1>7. \A l : l # row.level => N(l) = R(l)
  BY <1>2 DEF RowsOf
<1>8. ~same => \A l : R(l) = {}
  <2> SUFFICES ASSUME ~same, NEW l, NEW j \in R(l) PROVE FALSE
    OBVIOUS
  <2>1. j \in 1..id /\ T[j].ticker = t /\ T[j].snap /\ T[j].at = row.at
    <3>1. j \in 1..id /\ T[j].ticker = t
          /\ (IF T[j].snap THEN T[j].at = row.at ELSE T[j].at > row.at)
      BY DEF RowsOf
    <3>2. ~(T[j].at > row.at)
      BY <1>3, <1>4, <3>1
    <3> QED BY <3>1, <3>2
  <2>2. row.at \in SnapsOf(T, t, id)
    BY <2>1 DEF SnapsOf
  <2>3. row.at <= StampOf(T, t, id) /\ StampOf(T, t, id) \in SnapsOf(T, t, id)
    BY <1>1, <2>2, StampIs
  <2>4. StampOf(T, t, id) \in Nat /\ StampOf(T, t, id) <= row.at
    BY <1>3, <1>4, <2>3 DEF SnapsOf
  <2> QED BY <1>3, <2>3, <2>4
<1>9. SumFunction([i \in N(row.level) |-> T[i].size]) = row.size
  <2> DEFINE f == [i \in {id + 1} |-> T[i].size]
             x == id + 1
  <2>1. f \in [{x} -> Int] /\ f[x] = row.size
    BY <1>3
  <2> HIDE DEF f, x
  <2>2. SumFunction(f) = f[x]
    BY <2>1, SumOverOne
  <2> QED BY <1>6, <2>1, <2>2 DEF f, x
<1>10. ~same => \A l \in Levels : SumFunction([i \in R(l) |-> T[i].size]) = 0
  <2> SUFFICES ASSUME ~same, NEW l \in Levels
               PROVE  SumFunction([i \in R(l) |-> T[i].size]) = 0
    OBVIOUS
  <2> DEFINE f == [i \in R(l) |-> T[i].size]
  <2>1. DOMAIN f = {}
    BY <1>8
  <2> HIDE DEF f
  <2>2. SumFunction(f) = 0
    BY <2>1, SumOverNothing
  <2> QED BY <2>2 DEF f
<1> DEFINE S(l) == SumFunction([i \in R(l) |-> T[i].size])
           M(l) == SumFunction([i \in N(l) |-> T[i].size])
<1>11. /\ same => BookOn(T, t, id) = [l \in Levels |-> S(l)]
       /\ BookOn(T, t, id + 1) = [l \in Levels |-> M(l)]
       /\ \A l \in Levels : M(l) = IF l = row.level THEN row.size ELSE S(l)
       /\ ~same => \A l \in Levels : S(l) = 0
       /\ NoLevels = [l \in Levels |-> 0]
  BY <1>5, <1>7, <1>9, <1>10 DEF BookOn, NoLevels
<1> HIDE DEF S, M, row, t, R, N, same
<1>12. BookOn(T, t, id + 1) = IF same THEN [BookOn(T, t, id) EXCEPT ![row.level] = row.size]
                              ELSE [NoLevels EXCEPT ![row.level] = row.size]
  BY <1>3, <1>11
<1> QED BY <1>5, <1>12 DEF row, t, same

-----------------------------------------------------------------------------
(***************************************************************************)
(* One row keeps what the pass knows (_Pass.consume).                      *)
(***************************************************************************)

\* The steps between a state and the next: the inventories, then the ladder.
LEMMA ConsumedSteps ==
    ASSUME NEW s \in States, NEW read \in Nat, NEW id \in Nat, tape[id] \in Row
    PROVE  LET o == Observed(s, read, tape[id])
               p == Laddered(o, tape[id])
               c == Consumed(s, read, id)
           IN  p \in States => /\ c \in States /\ c.id = id
                               /\ c.ladders = p.ladders /\ c.poisoned = p.poisoned
                               /\ c.skipped = p.skipped /\ c.seen = p.seen
                               /\ c.edges = p.edges /\ c.last = p.last
<1> DEFINE p == Laddered(Observed(s, read, tape[id]), tape[id])
<1>1. Consumed(s, read, id) = [p EXCEPT !.id = id]
  BY DEF Consumed
<1> HIDE DEF p
<1>2. LET c == [p EXCEPT !.id = id]
      IN  p \in States => /\ c \in States /\ c.id = id
                               /\ c.ladders = p.ladders /\ c.poisoned = p.poisoned
                               /\ c.skipped = p.skipped /\ c.seen = p.seen
                               /\ c.edges = p.edges /\ c.last = p.last
  BY DEF States
<1> QED BY <1>1, <1>2 DEF p

\* The row is applied to what the ladder stood for.
LEMMA AppliedMatches ==
    ASSUME WellFormed(tape, gaps), NEW id \in 0..(Len(tape) - 1), NEW b \in Ladder,
           b.ticker = tape[id + 1].ticker,
           \/ /\ b.key = StampOf(tape, b.ticker, id)
              /\ b.levels = BookOn(tape, b.ticker, id)
           \/ /\ b = Fresh(b.ticker) /\ tape[id + 1].snap
              /\ StampOf(tape, b.ticker, id) # tape[id + 1].at
    PROVE  LET a == Applied(b, tape[id + 1])
           IN  /\ a.key = StampOf(tape, a.ticker, id + 1)
               /\ a.levels = BookOn(tape, a.ticker, id + 1)
<1> DEFINE row == tape[id + 1]
           t   == b.ticker
           a   == Applied(b, row)
<1>1. Len(tape) \in Nat /\ id + 1 \in 1..Len(tape)
  BY LenProperties DEF WellFormed
<1>2. row \in Row /\ row.at \in Nat /\ row.at > 0 /\ row.snap \in BOOLEAN
  BY <1>1, RowFacts
<1>3. /\ a.ticker = t
      /\ a.key = IF row.snap THEN row.at ELSE b.key
      /\ a.levels = IF ~row.snap THEN [b.levels EXCEPT ![row.level] = @ + row.size]
                    ELSE IF b.key = row.at THEN [b.levels EXCEPT ![row.level] = row.size]
                    ELSE [NoLevels EXCEPT ![row.level] = row.size]
  BY <1>2, AppliedFields
<1>4. t = row.ticker
  OBVIOUS
<1>5. \/ b.key = StampOf(tape, t, id) /\ b.levels = BookOn(tape, t, id)
      \/ b.key = 0 /\ row.snap /\ StampOf(tape, t, id) # row.at
  BY DEF Fresh
<1>6. CASE ~row.snap
  <2>1. /\ StampOf(tape, row.ticker, id + 1) = StampOf(tape, row.ticker, id)
        /\ BookOn(tape, row.ticker, id + 1)
              = [BookOn(tape, row.ticker, id) EXCEPT ![row.level] = @ + row.size]
    BY <1>6, DeltaBook
  <2> HIDE DEF a, row, t
  <2>2. a.key = StampOf(tape, t, id + 1) /\ a.levels = BookOn(tape, t, id + 1)
    BY <1>3, <1>4, <1>5, <1>6, <2>1
  <2> QED BY <1>3, <2>2 DEF a, row
<1>7. CASE row.snap
  <2>1. /\ StampOf(tape, row.ticker, id + 1) = row.at
        /\ BookOn(tape, row.ticker, id + 1) =
              IF StampOf(tape, row.ticker, id) = row.at
              THEN [BookOn(tape, row.ticker, id) EXCEPT ![row.level] = row.size]
              ELSE [NoLevels EXCEPT ![row.level] = row.size]
    BY <1>7, SnapBook
  <2> HIDE DEF a, row, t
  <2>2. row.at # 0
    BY <1>2
  <2>3. a.key = StampOf(tape, t, id + 1)
    BY <1>3, <1>4, <1>7, <2>1
  <2>4. a.levels = BookOn(tape, t, id + 1)
    BY <1>3, <1>4, <1>5, <1>7, <2>1, <2>2
  <2> QED BY <1>3, <2>3, <2>4 DEF a, row
<1> QED BY <1>6, <1>7

\* A row does not continue a message of a ticker that has no ladder.
LEMMA MessageHasLadder ==
    ASSUME WellFormed(tape, gaps), NEW s, Sized(tape, gaps, s), Matching(tape, s),
           s.id < Len(tape), tape[s.id + 1].ticker \notin Books(s)
    PROVE  StampOf(tape, tape[s.id + 1].ticker, s.id) # tape[s.id + 1].at
<1> DEFINE id  == s.id
           row == tape[id + 1]
           t   == row.ticker
<1>1. Len(tape) \in Nat /\ id \in 0..Len(tape) /\ id + 1 \in 1..Len(tape)
  BY LenProperties DEF WellFormed, Sized
<1>2. row.at \in Nat /\ row.at > 0
  BY <1>1, RowFacts
<1> SUFFICES ASSUME StampOf(tape, t, id) = row.at PROVE FALSE
  OBVIOUS
<1>3. row.at \in SnapsOf(tape, t, id)
  BY <1>1, StampIs
<1>4. PICK j \in 1..id : tape[j].at = row.at
  BY <1>2, <1>3 DEF SnapsOf
<1>5. id \in 1..Len(tape) /\ id < id + 1 /\ j \in 1..Len(tape) /\ (j = id \/ j < id)
  BY <1>1
<1>6. tape[id].at \in Nat /\ tape[id].at <= row.at
  <2>1. tape[id].at \in Nat
    BY <1>5, RowFacts
  <2>2. tape[id].at <= row.at
    BY <1>1, <1>5, RowFacts
  <2> QED BY <2>1, <2>2
<1>7. tape[j].at <= tape[id].at
  <2>1. j < id => tape[j].at <= tape[id].at
    BY <1>5, RowFacts
  <2> QED BY <1>5, <1>6, <2>1
<1>8. tape[id].at = row.at
  BY <1>2, <1>4, <1>6, <1>7
<1>9. tape[id].snap /\ tape[id].ticker = t
  BY <1>1, <1>5, <1>8, RowFacts
<1> QED BY <1>1, <1>5, <1>9 DEF Matching

\* The ladder goes on standing for the book (Ladder.apply).
LEMMA ConsumeKeepsMatching ==
    ASSUME WellFormed(tape, gaps), NEW s, Sized(tape, gaps, s), Matching(tape, s),
           s.id < Len(tape),
           NEW c \in States, c.id = s.id + 1,
           \/ /\ Refused(s, tape[c.id])
              /\ c.ladders = s.ladders /\ c.poisoned = s.poisoned
           \/ LET row == tape[c.id]
                  t   == row.ticker
              IN  /\ ~Refused(s, row)
                  /\ t \in Books(c) /\ s.poisoned \ {t} \subseteq c.poisoned
                  /\ Books(s) \subseteq Books(c) \cup c.poisoned
                  /\ \A i \in DOMAIN c.ladders :
                        \/ c.ladders[i].ticker # t
                           /\ \E j \in DOMAIN s.ladders : c.ladders[i] = s.ladders[j]
                        \/ \E j \in DOMAIN s.ladders : /\ s.ladders[j].ticker = t
                                                      /\ c.ladders[i] = Applied(s.ladders[j], row)
                        \/ t \notin Books(s) /\ c.ladders[i] = Applied(Fresh(t), row)
    PROVE  Matching(tape, c)
<1> DEFINE id  == s.id
           row == tape[id + 1]
           t   == row.ticker
           Stands(b, n) == /\ b.key = StampOf(tape, b.ticker, n)
                           /\ b.levels = BookOn(tape, b.ticker, n)
<1>1. Len(tape) \in Nat /\ id \in 0..(Len(tape) - 1) /\ id + 1 \in 1..Len(tape)
  BY LenProperties DEF WellFormed, Sized
<1>2. row \in Row /\ row.ticker \in Tickers /\ row.snap \in BOOLEAN
  BY <1>1, RowFacts
<1>3. 1..(id + 1) = (1..id) \cup {id + 1}
  BY <1>1
<1>4. \A j \in DOMAIN s.ladders : s.ladders[j] \in Ladder /\ Stands(s.ladders[j], id)
  <2>1. s.ladders \in Seq(Ladder)
    BY DEF Sized, States
  <2>2. \A j \in DOMAIN s.ladders : s.ladders[j] \in Ladder
    BY <2>1, ElementOfSeq, LenProperties
  <2> QED BY <2>2 DEF Matching
<1>5. \A j \in DOMAIN s.ladders : s.ladders[j].ticker # t => Stands(s.ladders[j], id + 1)
  <2> SUFFICES ASSUME NEW j \in DOMAIN s.ladders, s.ladders[j].ticker # t
               PROVE  Stands(s.ladders[j], id + 1)
    OBVIOUS
  <2> DEFINE b == s.ladders[j]
             u == b.ticker
  <2>1. StampOf(tape, u, id + 1) = StampOf(tape, u, id) /\ BookOn(tape, u, id + 1) = BookOn(tape, u, id)
    BY <1>1, OtherBook
  <2> QED BY <1>4, <2>1
<1>6. \A i \in 1..id : tape[i].ticker \in Books(s) \cup s.poisoned
  BY DEF Matching
<1>7. CASE Refused(s, row) /\ c.ladders = s.ladders /\ c.poisoned = s.poisoned
  <2>1. t \in s.poisoned /\ ~row.snap
    BY <1>7 DEF Refused
  <2>2. t \notin Books(s) /\ Books(c) = Books(s)
    BY <1>7, <2>1 DEF Sized, Books
  <2>3. \A i \in DOMAIN c.ladders : Stands(c.ladders[i], c.id)
    BY <1>5, <1>7, <2>2 DEF Books
  <2>4. \A i \in 1..c.id : tape[i].ticker \in Books(c) \cup c.poisoned
    BY <1>3, <1>6, <1>7, <2>1, <2>2
  <2> QED BY <2>1, <2>3, <2>4 DEF Matching
<1>8. CASE /\ ~Refused(s, row)
           /\ t \in Books(c) /\ s.poisoned \ {t} \subseteq c.poisoned
           /\ Books(s) \subseteq Books(c) \cup c.poisoned
           /\ \A i \in DOMAIN c.ladders :
                 \/ c.ladders[i].ticker # t
                    /\ \E j \in DOMAIN s.ladders : c.ladders[i] = s.ladders[j]
                 \/ \E j \in DOMAIN s.ladders : /\ s.ladders[j].ticker = t
                                               /\ c.ladders[i] = Applied(s.ladders[j], row)
                 \/ t \notin Books(s) /\ c.ladders[i] = Applied(Fresh(t), row)
  <2>1. ASSUME NEW j \in DOMAIN s.ladders, s.ladders[j].ticker = t
        PROVE  Stands(Applied(s.ladders[j], row), id + 1)
    <3> DEFINE b == s.ladders[j]
    <3>1. b \in Ladder /\ b.ticker = row.ticker /\ Stands(b, id)
      BY <1>4, <2>1
    <3> HIDE DEF b
    <3> QED BY <1>1, <3>1, AppliedMatches DEF b
  <2>2. ASSUME t \notin Books(s)
        PROVE  Stands(Applied(Fresh(t), row), id + 1)
    <3> DEFINE b == Fresh(t)
    <3>1. b \in Ladder /\ b.ticker = t /\ b = Fresh(b.ticker) /\ b.key = 0 /\ b.levels = NoLevels
      BY <1>2 DEF Fresh, Ladder, Book, NoLevels
    <3>2. StampOf(tape, t, id) # row.at
      BY <2>2, MessageHasLadder
    <3>3. ~row.snap => Stands(b, id)
      <4> SUFFICES ASSUME ~row.snap PROVE Stands(b, id)
        OBVIOUS
      <4>1. t \notin s.poisoned
        BY <1>8 DEF Refused
      <4>2. \A i \in 1..id : tape[i].ticker # t
        BY <1>6, <2>2, <4>1
      <4>3. StampOf(tape, t, id) = 0 /\ BookOn(tape, t, id) = NoLevels
        BY <4>2, NoRowsNoBook
      <4> QED BY <3>1, <4>3
    <3> HIDE DEF b
    <3>4. Stands(b, id) \/ (b = Fresh(b.ticker) /\ row.snap /\ StampOf(tape, b.ticker, id) # row.at)
      BY <3>1, <3>2, <3>3
    <3> QED BY <1>1, <3>1, <3>4, AppliedMatches DEF b
  <2>3. \A i \in DOMAIN c.ladders : Stands(c.ladders[i], c.id)
    <3> TAKE i \in DOMAIN c.ladders
    <3>1. CASE c.ladders[i].ticker # t /\ \E j \in DOMAIN s.ladders : c.ladders[i] = s.ladders[j]
      BY <1>5, <3>1
    <3>2. CASE \E j \in DOMAIN s.ladders : /\ s.ladders[j].ticker = t
                                          /\ c.ladders[i] = Applied(s.ladders[j], row)
      BY <2>1, <3>2
    <3>3. CASE t \notin Books(s) /\ c.ladders[i] = Applied(Fresh(t), row)
      BY <2>2, <3>3
    <3> QED BY <1>8, <3>1, <3>2, <3>3
  <2>4. \A i \in 1..c.id : tape[i].ticker \in Books(c) \cup c.poisoned
    BY <1>3, <1>6, <1>8
  <2>5. tape[c.id].ticker \in Books(c)
    BY <1>8
  <2> HIDE DEF t, row
  <2> QED BY <2>3, <2>4, <2>5 DEF Matching
<1> QED BY <1>7, <1>8

\* One more row, counted with its ticker.
LEMMA RowIsCounted ==
    ASSUME NEW T, NEW id \in Nat, NEW t
    PROVE  /\ Cardinality(About(T, t, id)) \in Nat
           /\ Cardinality(About(T, t, id + 1))
                = Cardinality(About(T, t, id)) + (IF T[id + 1].ticker = t THEN 1 ELSE 0)
<1> DEFINE A == About(T, t, id)
           B == About(T, t, id + 1)
<1>1. IsFiniteSet(1..id) /\ A \in SUBSET (1..id)
  BY FS_Interval DEF About
<1>2. 1..(id + 1) = (1..id) \cup {id + 1} /\ id + 1 \notin 1..id
  OBVIOUS
<1>3. IsFiniteSet(A)
  <2> HIDE DEF A
  <2> QED BY <1>1, FS_Subset
<1>4. B = IF T[id + 1].ticker = t THEN A \cup {id + 1} ELSE A
  BY <1>2 DEF About
<1>5. id + 1 \notin A
  BY <1>2 DEF About
<1> HIDE DEF A, B
<1>6. Cardinality(A) \in Nat /\ Cardinality(A \cup {id + 1}) = Cardinality(A) + 1
  BY <1>3, <1>5, FS_CardinalityType, FS_AddElement
<1>7. Cardinality(B) = Cardinality(A) + (IF T[id + 1].ticker = t THEN 1 ELSE 0)
  BY <1>4, <1>6
<1> QED BY <1>6, <1>7 DEF A, B

\* The first row after a gap row closes its window, which then stays
\* (ExclusionInventory.observe).
LEMMA ConsumeKeepsBracketed ==
    ASSUME WellFormed(tape, gaps), NEW s, Sized(tape, gaps, s), Latest(tape, s),
           Bracketed(tape, gaps, s), s.id < Len(tape),
           NEW read \in Nat, read <= Len(gaps),
           \A g \in DOMAIN gaps : g > read => tape[s.id + 1].at < gaps[g].at,
           NEW c, c.id = s.id + 1,
           DOMAIN c.edges = DOMAIN s.edges \cup Passed(s, read, tape[s.id + 1]),
           \A g \in DOMAIN s.edges : c.edges[g] = s.edges[g],
           \A g \in Passed(s, read, tape[s.id + 1]) :
              c.edges[g] = [start |-> s.last, end |-> tape[s.id + 1].at]
    PROVE  Bracketed(tape, gaps, c)
<1> DEFINE id  == s.id
           row == tape[id + 1]
           new == Passed(s, read, row)
<1>1. Len(tape) \in Nat /\ id \in 0..(Len(tape) - 1) /\ id + 1 \in 1..Len(tape)
  BY LenProperties DEF WellFormed, Sized
<1>2. DOMAIN tape = 1..Len(tape) /\ DOMAIN gaps = 1..Len(gaps) /\ Len(gaps) \in Nat
  BY LenProperties DEF WellFormed
<1>3. 1..(id + 1) = (1..id) \cup {id + 1}
  BY <1>1
<1>4. row.at \in Nat /\ row.at > 0
  BY <1>1, RowFacts
<1>5. \A g \in DOMAIN gaps : gaps[g].at \in Nat
  <2> TAKE g \in DOMAIN gaps
  <2>1. gaps[g] \in Gap
    BY ElementOfSeq, <1>2 DEF WellFormed
  <2> QED BY <2>1 DEF Gap
<1>6. \A i \in 1..id : tape[i].at \in Nat /\ tape[i].at <= row.at
  <2> TAKE i \in 1..id
  <2>1. i \in 1..Len(tape) /\ i < id + 1
    BY <1>1
  <2>2. tape[i].at \in Nat
    BY <2>1, RowFacts
  <2>3. tape[i].at <= row.at
    BY <1>1, <2>1, RowFacts
  <2> QED BY <2>2, <2>3
<1>7. \A i \in 1..(id + 1), g \in DOMAIN gaps : tape[i].at # gaps[g].at
  BY <1>1, <1>2 DEF WellFormed
<1>8. DOMAIN s.edges \subseteq DOMAIN gaps
  BY DEF Sized
<1>9. new = {g \in DOMAIN gaps : g <= read /\ g \notin DOMAIN s.edges /\ gaps[g].at <= row.at}
  BY <1>2 DEF Passed
<1>10. \A g \in DOMAIN gaps : g \notin DOMAIN s.edges =>
          \A i \in 1..id : tape[i].at < gaps[g].at
  <2> SUFFICES ASSUME NEW g \in DOMAIN gaps, g \notin DOMAIN s.edges, NEW i \in 1..id
               PROVE  tape[i].at < gaps[g].at
    OBVIOUS
  <2>1. ~(tape[i].at > gaps[g].at)
    BY DEF Bracketed
  <2>2. tape[i].at # gaps[g].at
    BY <1>3, <1>7
  <2> QED BY <1>5, <1>6, <2>1, <2>2
<1>11. s.last \in {tape[i].at : i \in 1..id} \cup {0} /\ \A i \in 1..id : tape[i].at <= s.last
  <2>1. CASE id = 0
    BY <1>1, <2>1 DEF Latest
  <2>2. CASE id # 0
    <3>1. id \in 1..id /\ id \in 1..Len(tape) /\ s.last = tape[id].at
      BY <1>1, <2>2 DEF Latest
    <3>2. \A i \in 1..id : i = id \/ (i \in 1..Len(tape) /\ i < id)
      BY <1>1
    <3>3. \A i \in 1..id : i < id => tape[i].at <= tape[id].at
      <4> TAKE i \in 1..id
      <4>1. i \in 1..Len(tape)
        BY <1>1
      <4> QED BY <3>1, <4>1, RowFacts
    <3> QED BY <1>6, <3>1, <3>2, <3>3
  <2> QED BY <2>1, <2>2
<1> HIDE DEF row
<1>12. \A g \in DOMAIN gaps : g \in DOMAIN c.edges <=> \E i \in 1..c.id : tape[i].at > gaps[g].at
  <2> TAKE g \in DOMAIN gaps
  <2>1. CASE g \in DOMAIN s.edges
    <3>1. \E i \in 1..id : tape[i].at > gaps[g].at
      BY <2>1 DEF Bracketed
    <3> QED BY <1>3, <2>1, <3>1
  <2>2. CASE g \notin DOMAIN s.edges
    <3>1. \A i \in 1..id : ~(tape[i].at > gaps[g].at)
      BY <1>5, <1>6, <1>10, <2>2
    <3>2. row.at > gaps[g].at <=> ~(row.at <= gaps[g].at)
      BY <1>4, <1>5
    <3>3. row.at # gaps[g].at
      <4>1. id + 1 \in 1..(id + 1)
        BY <1>1
      <4>2. tape[id + 1].at # gaps[g].at
        BY <1>7, <4>1, Zenon
      <4> QED BY <4>2 DEF row
    <3>4. g \in DOMAIN c.edges <=> g <= read /\ gaps[g].at <= row.at
      BY <1>9, <2>2 DEF row
    <3>5. g \in Nat /\ (g <= read \/ g > read)
      BY <1>2
    <3>6. g > read => row.at < gaps[g].at
      BY DEF row
    <3>7. g \in DOMAIN c.edges <=> row.at > gaps[g].at
      BY <1>4, <1>5, <3>3, <3>4, <3>5, <3>6
    <3> QED BY <1>3, <3>1, <3>7 DEF row
  <2> QED BY <2>1, <2>2
<1>13. ASSUME NEW g \in DOMAIN c.edges
       PROVE  Frames(c.edges[g], tape, c.id, gaps[g].at)
  <2> DEFINE e  == c.edges[g]
             at == gaps[g].at
             A  == {tape[i].at : i \in 1..id}
  <2>0. c.id = id + 1 /\ row = tape[id + 1]
    BY DEF row
  <2>1. {tape[i].at : i \in 1..(id + 1)} = A \cup {row.at}
    BY <1>3, <2>0
  <2>2. g \in DOMAIN gaps /\ at \in Nat
    BY <1>5, <1>8, <1>9 DEF row
  <2>3. CASE g \in DOMAIN s.edges
    <3>1. e = s.edges[g]
      BY <2>3
    <3> HIDE DEF e
    <3>2. /\ e.start \in A \cup {0} /\ e.start < at
          /\ \A i \in 1..id : tape[i].at < at => tape[i].at <= e.start
          /\ e.end \in A /\ e.end > at
          /\ \A i \in 1..id : tape[i].at > at => tape[i].at >= e.end
      BY <2>3, <3>1 DEF Bracketed, Frames
    <3>3. e.end \in Nat /\ e.end <= row.at
      BY <1>6, <3>2
    <3>4. row.at > at /\ row.at >= e.end /\ ~(row.at < at)
      BY <1>4, <2>2, <3>2, <3>3
    <3> HIDE DEF A, at
    <3>5. e.start \in A \cup {row.at} \cup {0} /\ e.end \in A \cup {row.at}
      BY <3>2
    <3>6. \A i \in 1..(id + 1) : tape[i].at < at => tape[i].at <= e.start
      BY <1>3, <2>0, <3>2, <3>4
    <3>7. \A i \in 1..(id + 1) : tape[i].at > at => tape[i].at >= e.end
      BY <1>3, <2>0, <3>2, <3>4
    <3> QED BY <2>0, <2>1, <3>2, <3>5, <3>6, <3>7 DEF Frames, e, at
  <2>4. CASE g \notin DOMAIN s.edges
    <3>1. g \in new
      BY <2>4 DEF row
    <3>2. e.start = s.last /\ e.end = row.at
      <4>1. c.edges[g] = [start |-> s.last, end |-> row.at]
        BY <3>1 DEF row
      <4> QED BY <4>1
    <3>3. at < row.at
      <4>1. at <= row.at
        BY <1>9, <3>1
      <4>2. row.at # at
        <5>1. id + 1 \in 1..(id + 1)
          BY <1>1
        <5>2. tape[id + 1].at # gaps[g].at
          BY <1>7, <2>2, <5>1, Zenon
        <5> QED BY <2>0, <5>2 DEF at
      <4> QED BY <1>4, <2>2, <4>1, <4>2
    <3> HIDE DEF e
    <3>4. \A i \in 1..id : tape[i].at < at
      BY <1>10, <2>2, <2>4
    <3>5. at > 0
      BY <2>2 DEF WellFormed
    <3>6. s.last \in A \cup {0} /\ s.last < at
      BY <1>11, <3>4, <3>5
    <3>7. \A i \in 1..id : ~(tape[i].at > at)
      BY <1>6, <2>2, <3>4
    <3>8. ~(row.at < at) /\ row.at > at /\ row.at >= row.at
      BY <1>4, <2>2, <3>3
    <3> HIDE DEF A, at
    <3>9. e.start \in A \cup {row.at} \cup {0} /\ e.end \in A \cup {row.at}
      BY <3>2, <3>6
    <3>10. \A i \in 1..(id + 1) : tape[i].at < at => tape[i].at <= e.start
      BY <1>3, <1>11, <2>0, <3>2, <3>8
    <3>11. \A i \in 1..(id + 1) : tape[i].at > at => tape[i].at >= e.end
      BY <1>3, <2>0, <3>2, <3>7, <3>8
    <3> QED BY <2>0, <2>1, <3>2, <3>6, <3>8, <3>9, <3>10, <3>11 DEF Frames, e, at
  <2> QED BY <2>3, <2>4
<1> QED BY <1>12, <1>13 DEF Bracketed

\* One row keeps all of it, and is counted as skipped or has its ladder.
LEMMA ConsumeTracked ==
    ASSUME WellFormed(tape, gaps), NEW s, Tracked(tape, gaps, s), s.id < Len(tape),
           NEW read \in Nat, read <= Len(gaps),
           Pinned => \A g \in DOMAIN gaps : g > read => tape[s.id + 1].at < gaps[g].at
    PROVE  LET row == tape[s.id + 1]
               c   == Consumed(s, read, s.id + 1)
           IN  /\ Tracked(tape, gaps, c) /\ c.id = s.id + 1
               /\ c.seen = [s.seen EXCEPT ![row.ticker] = @ + 1]
               /\ Refused(s, row) => c.skipped = [s.skipped EXCEPT ![row.ticker] = @ + 1]
               /\ ~Refused(s, row) => c.skipped = s.skipped /\ Resident(c, row.ticker)
<1> DEFINE id  == s.id
           row == tape[id + 1]
           t   == row.ticker
           o   == Observed(s, read, row)
           p   == Laddered(o, row)
           c   == Consumed(s, read, id + 1)
<1>1. Len(tape) \in Nat /\ id \in 0..(Len(tape) - 1) /\ id + 1 \in 1..Len(tape) /\ id + 1 \in Nat
  BY LenProperties DEF WellFormed, Tracked, Sized
<1>2. row \in Row /\ row.ticker \in Tickers /\ row.at \in Nat
  BY <1>1, RowFacts
<1>3. /\ s \in States /\ Distinct(s.ladders) /\ (Ceiling # 0 => Len(s.ladders) <= Ceiling)
      /\ s.poisoned \cap Books(s) = {}
  BY DEF Tracked, Sized, Distinct
<1>0. c = Consumed(s, read, id + 1) /\ o = Observed(s, read, tape[id + 1])
      /\ p = Laddered(o, tape[id + 1])
  OBVIOUS
<1> HIDE DEF row
<1>4. /\ o \in States
      /\ o.id = s.id /\ o.ladders = s.ladders /\ o.poisoned = s.poisoned
      /\ o.skipped = s.skipped
      /\ o.seen = [s.seen EXCEPT ![row.ticker] = @ + 1]
      /\ o.last = row.at
      /\ DOMAIN o.edges = DOMAIN s.edges \cup Passed(s, read, row)
      /\ \A g \in DOMAIN s.edges : o.edges[g] = s.edges[g]
      /\ \A g \in Passed(s, read, row) : o.edges[g] = [start |-> s.last, end |-> row.at]
  BY <1>2, <1>3, ObservedFields
<1>5. p \in States =>
         /\ c \in States /\ c.id = id + 1
         /\ c.ladders = p.ladders /\ c.poisoned = p.poisoned
         /\ c.skipped = p.skipped /\ c.seen = p.seen /\ c.edges = p.edges /\ c.last = p.last
  BY <1>1, <1>2, <1>3, ConsumedSteps DEF row
<1>6. Books(o) = Books(s) /\ (Refused(o, row) <=> Refused(s, row))
  BY <1>4 DEF Books, Refused
<1> HIDE DEF o, p, c
<1>7. /\ p \in States /\ p.seen = o.seen /\ p.edges = o.edges /\ p.last = o.last
      /\ Distinct(p.ladders) /\ (Ceiling # 0 => Len(p.ladders) <= Ceiling)
      /\ p.poisoned \cap Books(p) = {}
      /\ Refused(s, row) =>
            /\ p.skipped = [s.skipped EXCEPT ![row.ticker] = @ + 1]
            /\ p.ladders = s.ladders /\ p.poisoned = s.poisoned
      /\ ~Refused(s, row) =>
            /\ p.skipped = s.skipped
            /\ t \in Books(p) /\ s.poisoned \ {t} \subseteq p.poisoned
            /\ Books(s) \subseteq Books(p) \cup p.poisoned
            /\ \A i \in DOMAIN p.ladders :
                  \/ p.ladders[i].ticker # t
                     /\ \E j \in DOMAIN s.ladders : p.ladders[i] = s.ladders[j]
                  \/ \E j \in DOMAIN s.ladders : /\ s.ladders[j].ticker = t
                                                /\ p.ladders[i] = Applied(s.ladders[j], row)
                  \/ t \notin Books(s) /\ p.ladders[i] = Applied(Fresh(t), row)
  <2>1. CASE Refused(s, row)
    <3>1. /\ p \in States
          /\ p.id = o.id /\ p.seen = o.seen /\ p.edges = o.edges /\ p.last = o.last
          /\ p.ladders = o.ladders /\ p.poisoned = o.poisoned
          /\ p.skipped = [o.skipped EXCEPT ![row.ticker] = @ + 1]
      BY <1>2, <1>4, <1>6, <2>1, RefusedFields DEF p
    <3>2. Books(p) = Books(s)
      BY <1>4, <3>1 DEF Books
    <3> QED BY <1>3, <1>4, <2>1, <3>1, <3>2
  <2>2. CASE ~Refused(s, row)
    <3>1. /\ Distinct(o.ladders) /\ (Ceiling # 0 => Len(o.ladders) <= Ceiling)
          /\ o.poisoned \cap Books(o) = {} /\ ~Refused(o, row)
      BY <1>3, <1>4, <1>6, <2>2
    <3>2. /\ p \in States
          /\ p.id = o.id /\ p.seen = o.seen /\ p.edges = o.edges /\ p.last = o.last
          /\ p.skipped = o.skipped
          /\ Distinct(p.ladders) /\ (Ceiling # 0 => Len(p.ladders) <= Ceiling)
          /\ p.poisoned \cap Books(p) = {} /\ t \in Books(p)
          /\ o.poisoned \ {t} \subseteq p.poisoned
          /\ Books(o) \subseteq Books(p) \cup p.poisoned
          /\ \A i \in DOMAIN p.ladders :
                \/ p.ladders[i].ticker # t
                   /\ \E j \in DOMAIN o.ladders : p.ladders[i] = o.ladders[j]
                \/ \E j \in DOMAIN o.ladders : /\ o.ladders[j].ticker = t
                                              /\ p.ladders[i] = Applied(o.ladders[j], row)
                \/ t \notin Books(o) /\ p.ladders[i] = Applied(Fresh(t), row)
      BY <1>2, <1>4, <3>1, LadderedFields DEF p
    <3> QED BY <1>4, <1>6, <2>2, <3>2
  <2> QED BY <2>1, <2>2
<1>8. /\ c \in States /\ c.id = id + 1
      /\ c.ladders = p.ladders /\ c.poisoned = p.poisoned
      /\ c.skipped = p.skipped /\ c.seen = o.seen /\ c.edges = o.edges /\ c.last = row.at
  BY <1>4, <1>5, <1>7
<1>9. Books(c) = Books(p)
  BY <1>8 DEF Books
<1>10. Sized(tape, gaps, c)
  <2>1. Passed(s, read, row) \subseteq DOMAIN gaps
    <3>1. DOMAIN gaps = 1..Len(gaps) /\ Len(gaps) \in Nat
      BY LenProperties DEF WellFormed
    <3> QED BY <3>1 DEF Passed
  <2>2. DOMAIN c.edges \subseteq DOMAIN gaps
    BY <1>4, <1>8, <2>1 DEF Tracked, Sized
  <2>3. c.id \in 0..Len(tape)
    BY <1>1, <1>8
  <2> QED BY <1>7, <1>8, <1>9, <2>2, <2>3 DEF Sized, Distinct
<1>11. Counting(tape, c)
  <2> SUFFICES ASSUME NEW u \in Tickers
               PROVE  c.seen[u] = Cardinality(About(tape, u, c.id))
    BY DEF Counting
  <2> DEFINE A == Cardinality(About(tape, u, id))
             B == Cardinality(About(tape, u, id + 1))
  <2>1. s.seen[u] = A
    BY DEF Tracked, Counting
  <2>2. B = A + (IF t = u THEN 1 ELSE 0) /\ A \in Nat
    <3>1. /\ B = A + (IF tape[id + 1].ticker = u THEN 1 ELSE 0)
          /\ A \in Nat
      <4>1. id \in Nat
        BY <1>1
      <4> QED BY <4>1, RowIsCounted
    <3> HIDE DEF A, B
    <3> QED BY <3>1 DEF row
  <2>3. c.seen[u] = IF t = u THEN s.seen[u] + 1 ELSE s.seen[u]
    <3>1. s.seen \in [Tickers -> Nat]
      BY <1>3 DEF States, Counts
    <3>2. c.seen = [s.seen EXCEPT ![row.ticker] = @ + 1]
      BY <1>4, <1>8
    <3> QED BY <1>2, <3>1, <3>2
  <2>4. c.seen[u] = B
    <3> HIDE DEF A, B, t
    <3> QED BY <2>1, <2>2, <2>3
  <2> QED BY <1>8, <2>4
<1>12. Matching(tape, c)
  <2>1. row = tape[c.id] /\ Sized(tape, gaps, s) /\ Matching(tape, s)
    BY <1>8 DEF row, Tracked
  <2> DEFINE r == tape[c.id]
  <2>2. CASE Refused(s, row)
    <3>1. Refused(s, tape[c.id]) /\ c.ladders = s.ladders /\ c.poisoned = s.poisoned
      BY <1>7, <1>8, <2>1, <2>2
    <3> QED BY <1>8, <2>1, <3>1, ConsumeKeepsMatching
  <2>3. CASE ~Refused(s, row)
    <3> HIDE DEF t
    <3>1. r = row /\ r.ticker = t
      BY <2>1 DEF t
    <3>2. /\ ~Refused(s, r)
          /\ t \in Books(c) /\ s.poisoned \ {t} \subseteq c.poisoned
          /\ Books(s) \subseteq Books(c) \cup c.poisoned
          /\ \A i \in DOMAIN c.ladders :
                \/ c.ladders[i].ticker # t
                   /\ \E j \in DOMAIN s.ladders : c.ladders[i] = s.ladders[j]
                \/ \E j \in DOMAIN s.ladders : /\ s.ladders[j].ticker = t
                                              /\ c.ladders[i] = Applied(s.ladders[j], r)
                \/ t \notin Books(s) /\ c.ladders[i] = Applied(Fresh(t), r)
      BY <1>7, <1>8, <1>9, <2>3, <3>1
    <3>3. /\ ~Refused(s, tape[c.id])
          /\ tape[c.id].ticker \in Books(c)
          /\ s.poisoned \ {tape[c.id].ticker} \subseteq c.poisoned
          /\ Books(s) \subseteq Books(c) \cup c.poisoned
          /\ \A i \in DOMAIN c.ladders :
                \/ c.ladders[i].ticker # tape[c.id].ticker
                   /\ \E j \in DOMAIN s.ladders : c.ladders[i] = s.ladders[j]
                \/ \E j \in DOMAIN s.ladders :
                      /\ s.ladders[j].ticker = tape[c.id].ticker
                      /\ c.ladders[i] = Applied(s.ladders[j], tape[c.id])
                \/ /\ tape[c.id].ticker \notin Books(s)
                   /\ c.ladders[i] = Applied(Fresh(tape[c.id].ticker), tape[c.id])
      BY <3>1, <3>2
    <3> QED BY <1>8, <2>1, <3>3, ConsumeKeepsMatching
  <2> QED BY <2>2, <2>3
<1>13. Latest(tape, c)
  BY <1>1, <1>8 DEF Latest, row
<1>14. Pinned => Bracketed(tape, gaps, c)
  <2> SUFFICES ASSUME Pinned PROVE Bracketed(tape, gaps, c)
    OBVIOUS
  <2>1. /\ Sized(tape, gaps, s) /\ Latest(tape, s) /\ Bracketed(tape, gaps, s)
        /\ \A g \in DOMAIN gaps : g > read => tape[s.id + 1].at < gaps[g].at
    BY DEF Tracked
  <2>2. /\ c.id = s.id + 1
        /\ DOMAIN c.edges = DOMAIN s.edges \cup Passed(s, read, tape[s.id + 1])
        /\ \A g \in DOMAIN s.edges : c.edges[g] = s.edges[g]
        /\ \A g \in Passed(s, read, tape[s.id + 1]) :
              c.edges[g] = [start |-> s.last, end |-> tape[s.id + 1].at]
    BY <1>4, <1>8 DEF row
  <2> QED BY <2>1, <2>2, ConsumeKeepsBracketed
<1>15. ~Refused(s, row) => Resident(c, t)
  BY <1>7, <1>9 DEF Books, Resident
<1>16. Tracked(tape, gaps, c)
  BY <1>10, <1>11, <1>12, <1>13, <1>14 DEF Tracked
<1> QED BY <1>4, <1>7, <1>8, <1>15, <1>16 DEF row, c

-----------------------------------------------------------------------------
(***************************************************************************)
(* The recorder appends: what a pass knows of the rows it has read stays.  *)
(***************************************************************************)
Grown(T, G, U, H) ==
    /\ Len(T) <= Len(U) /\ \A i \in 1..Len(T) : U[i] = T[i]
    /\ Len(G) <= Len(H) /\ \A g \in 1..Len(G) : H[g] = G[g]
    /\ \A h \in 1..Len(H) : h > Len(G) => \A i \in 1..Len(T) : T[i].at < H[h].at

\* A tape that grows leaves what a state has read of it as it was.
LEMMA TrackedStays ==
    ASSUME NEW T, NEW G, NEW U, NEW H, WellFormed(T, G), WellFormed(U, H), Grown(T, G, U, H),
           NEW s, Tracked(T, G, s)
    PROVE  Tracked(U, H, s)
<1>1. /\ Len(T) \in Nat /\ Len(U) \in Nat /\ Len(G) \in Nat /\ Len(H) \in Nat
      /\ DOMAIN G = 1..Len(G) /\ DOMAIN H = 1..Len(H)
  BY LenProperties DEF WellFormed
<1>2. s.id \in 0..Len(T) /\ Len(T) <= Len(U) /\ Len(G) <= Len(H)
  BY DEF Tracked, Sized, Grown
<1>3. \A i \in 1..s.id : i \in 1..Len(T) /\ U[i] = T[i]
  <2>1. \A i \in 1..s.id : i \in 1..Len(T)
    BY <1>1, <1>2
  <2> QED BY <2>1 DEF Grown
<1>4. \A g \in DOMAIN G : g \in DOMAIN H /\ H[g] = G[g]
  <2>1. \A g \in DOMAIN G : g \in DOMAIN H
    BY <1>1, <1>2
  <2> QED BY <1>1, <2>1 DEF Grown
<1>5. Sized(U, H, s)
  <2>1. Sized(T, G, s) /\ s.id \in 0..Len(U) /\ DOMAIN s.edges \subseteq DOMAIN H
    BY <1>1, <1>2, <1>4 DEF Tracked, Sized
  <2> QED BY <2>1 DEF Sized
<1>6. Counting(U, s)
  <2>1. \A t : About(U, t, s.id) = About(T, t, s.id)
    BY <1>3 DEF About
  <2> QED BY <2>1 DEF Tracked, Counting
<1>7. Matching(U, s)
  <2>1. \A t : StampOf(U, t, s.id) = StampOf(T, t, s.id) /\ BookOn(U, t, s.id) = BookOn(T, t, s.id)
    BY <1>3, BookStays
  <2>2. s.id > 0 => s.id \in 1..s.id
    BY <1>1, <1>2
  <2> QED BY <1>3, <2>1, <2>2 DEF Tracked, Matching
<1>8. Latest(U, s)
  <2>1. s.id # 0 => s.id \in 1..s.id
    BY <1>1, <1>2
  <2> QED BY <1>3, <2>1 DEF Tracked, Latest
<1>9. ASSUME Bracketed(T, G, s) PROVE Bracketed(U, H, s)
  <2>1. ASSUME NEW h \in DOMAIN H, h \notin DOMAIN G
        PROVE  h \notin DOMAIN s.edges /\ \A i \in 1..s.id : ~(U[i].at > H[h].at)
    <3>1. DOMAIN s.edges \subseteq DOMAIN G
      BY DEF Tracked, Sized
    <3>2. h \in 1..Len(H) /\ h > Len(G)
      BY <1>1, <2>1
    <3>3. \A i \in 1..Len(T) : T[i].at < H[h].at
      BY <3>2 DEF Grown
    <3>4. H[h].at \in Nat
      <4>1. H[h] \in Gap
        BY <3>2, ElementOfSeq DEF WellFormed
      <4> QED BY <4>1 DEF Gap
    <3>5. \A i \in 1..s.id : T[i].at \in Nat
      BY <1>3, RowFacts
    <3> QED BY <1>3, <2>1, <3>1, <3>3, <3>4, <3>5
  <2>2. \A h \in DOMAIN H : h \in DOMAIN s.edges <=> \E i \in 1..s.id : U[i].at > H[h].at
    <3> TAKE h \in DOMAIN H
    <3>1. CASE h \in DOMAIN G
      BY <1>3, <1>4, <1>9, <3>1 DEF Bracketed
    <3> QED BY <2>1, <3>1
  <2>3. {U[i].at : i \in 1..s.id} = {T[i].at : i \in 1..s.id}
    BY <1>3
  <2>4. \A g \in DOMAIN s.edges : g \in DOMAIN G
    BY DEF Tracked, Sized
  <2>5. \A e, at : Frames(e, T, s.id, at) => Frames(e, U, s.id, at)
    BY <1>3, <2>3 DEF Frames
  <2> QED BY <1>4, <1>9, <2>2, <2>4, <2>5 DEF Bracketed
<1> QED BY <1>5, <1>6, <1>7, <1>8, <1>9 DEF Tracked

\* The clock is ahead of every stamp.
LEMMA NowIsLater ==
    ASSUME WellFormed(tape, gaps)
    PROVE  /\ Now \in Nat /\ Now > 0
           /\ \A i \in 1..Len(tape) : tape[i].at < Now
           /\ \A g \in 1..Len(gaps) : gaps[g].at < Now
<1>1. /\ Len(tape) \in Nat /\ Len(gaps) \in Nat
      /\ DOMAIN tape = 1..Len(tape) /\ DOMAIN gaps = 1..Len(gaps)
  BY LenProperties DEF WellFormed
<1>2. \A i \in 1..Len(tape) : tape[i].at \in Nat /\ tape[i].at > 0
  BY RowFacts
<1>3. \A g \in 1..Len(gaps) : gaps[g].at \in Nat /\ gaps[g].at > 0
  <2> TAKE g \in 1..Len(gaps)
  <2>1. gaps[g] \in Gap
    BY <1>1, ElementOfSeq DEF WellFormed
  <2> QED BY <1>1, <2>1 DEF Gap, WellFormed
<1> DEFINE a == IF Len(tape) = 0 THEN 0 ELSE tape[Len(tape)].at
           b == IF Len(gaps) = 0 THEN 0 ELSE gaps[Len(gaps)].at
           m == IF a >= b THEN a ELSE b
           S == Stamps \cup {0}
<1>4. a \in S /\ a \in Nat /\ \A i \in 1..Len(tape) : tape[i].at <= a
  <2>1. \A i, j \in 1..Len(tape) : i <= j => tape[i].at <= tape[j].at
    BY <1>1 DEF WellFormed
  <2>2. Len(tape) # 0 => Len(tape) \in 1..Len(tape) /\ \A i \in 1..Len(tape) : i <= Len(tape)
    BY <1>1
  <2> QED BY <1>1, <1>2, <2>1, <2>2 DEF Stamps
<1>5. b \in S /\ b \in Nat /\ \A g \in 1..Len(gaps) : gaps[g].at <= b
  <2>1. \A i, j \in 1..Len(gaps) : i <= j => gaps[i].at <= gaps[j].at
    BY <1>1 DEF WellFormed
  <2>2. Len(gaps) # 0 => Len(gaps) \in 1..Len(gaps) /\ \A i \in 1..Len(gaps) : i <= Len(gaps)
    BY <1>1
  <2> QED BY <1>1, <1>3, <2>1, <2>2 DEF Stamps
<1> HIDE DEF a, b
<1>6. m \in S /\ m \in Nat /\ a <= m /\ b <= m
  BY <1>4, <1>5
<1> HIDE DEF m
<1>7. S \in SUBSET Int /\ \A x \in S : x <= m
  <2>1. \A i \in 1..Len(tape) : tape[i].at <= m
    BY <1>2, <1>4, <1>6
  <2>2. \A g \in 1..Len(gaps) : gaps[g].at <= m
    BY <1>3, <1>5, <1>6
  <2> QED BY <1>1, <1>2, <1>3, <1>6, <2>1, <2>2 DEF Stamps
<1> HIDE DEF S
<1>8. Max(S) = m
  BY <1>6, <1>7, MaxIs
<1>9. Now = m + 1
  BY <1>8 DEF Now, S
<1>10. \A i \in 1..Len(tape) : tape[i].at < m + 1
  BY <1>2, <1>4, <1>6
<1>11. \A g \in 1..Len(gaps) : gaps[g].at < m + 1
  BY <1>3, <1>5, <1>6
<1> QED BY <1>6, <1>9, <1>10, <1>11

\* The rows of one message at the end of the tape.
LEMMA AppendedRows ==
    ASSUME WellFormed(tape, gaps), NEW q \in Seq(Row), NEW t,
           \A k \in 1..Len(q) : q[k].at = Now /\ q[k].ticker = t,
           \A j, k \in 1..Len(q) : j # k => q[j].snap /\ q[j].level # q[k].level
    PROVE  WellFormed(tape \o q, gaps) /\ Grown(tape, gaps, tape \o q, gaps)
<1> DEFINE U == tape \o q
           n == Len(tape)
<1>1. tape \in Seq(Row) /\ gaps \in Seq(Gap)
  BY DEF WellFormed
<1>2. n \in Nat /\ Len(q) \in Nat /\ DOMAIN tape = 1..n /\ Len(gaps) \in Nat /\ DOMAIN gaps = 1..Len(gaps)
  BY <1>1, LenProperties
<1>3. /\ U \in Seq(Row) /\ Len(U) = n + Len(q)
      /\ \A i \in 1..(n + Len(q)) : U[i] = IF i <= n THEN tape[i] ELSE q[i - n]
  BY <1>1, ConcatProperties
<1>4. DOMAIN U = 1..(n + Len(q))
  BY <1>2, <1>3, LenProperties
<1> HIDE DEF U
<1>5. ASSUME NEW i \in DOMAIN U
      PROVE  \/ i \in 1..n /\ U[i] = tape[i] /\ U[i].at \in Nat /\ U[i].at > 0 /\ U[i].at < Now
             \/ /\ i > n /\ i - n \in 1..Len(q) /\ U[i] = q[i - n]
                /\ U[i].at = Now /\ U[i].ticker = t
  <2>1. CASE i <= n
    <3>1. i \in 1..n /\ U[i] = tape[i]
      BY <1>2, <1>3, <1>4, <1>5, <2>1
    <3>2. tape[i].at \in Nat /\ tape[i].at > 0
      BY <3>1, RowFacts
    <3>3. tape[i].at < Now
      BY <3>1, NowIsLater
    <3> QED BY <3>1, <3>2, <3>3
  <2>2. CASE ~(i <= n)
    <3>1. i > n /\ i - n \in 1..Len(q) /\ U[i] = q[i - n]
      BY <1>2, <1>3, <1>4, <1>5, <2>2
    <3> QED BY <3>1
  <2> QED BY <2>1, <2>2
<1>6. Now \in Nat /\ Now > 0 /\ \A g \in 1..Len(gaps) : gaps[g].at < Now
  BY NowIsLater
<1>7. \A i \in DOMAIN U : U[i].at > 0
  BY <1>5, <1>6
<1>8. ASSUME NEW i \in DOMAIN U, NEW j \in DOMAIN U, i <= j
      PROVE  U[i].at <= U[j].at
  <2>1. CASE j \in 1..n
    <3>1. i \in 1..n
      BY <1>2, <1>4, <1>8, <2>1
    <3>2. U[i] = tape[i] /\ U[j] = tape[j]
      BY <1>2, <1>3, <1>4, <2>1, <3>1
    <3>3. tape[i].at <= tape[j].at
      BY <1>2, <1>8, <2>1, <3>1 DEF WellFormed
    <3> QED BY <3>2, <3>3
  <2>2. CASE j \notin 1..n
    <3>1. U[j].at = Now
      BY <1>5, <2>2
    <3>2. U[i].at < Now \/ U[i].at = Now
      BY <1>5
    <3>3. U[i].at \in Nat
      BY <1>5, <1>6
    <3> QED BY <1>6, <3>1, <3>2, <3>3
  <2> QED BY <2>1, <2>2
<1>9. ASSUME NEW i \in DOMAIN U, NEW j \in DOMAIN U, i # j, U[i].at = U[j].at
      PROVE  U[i].snap /\ U[i].ticker = U[j].ticker /\ U[i].level # U[j].level
  <2>1. CASE i \in 1..n /\ U[i] = tape[i] /\ U[i].at < Now
    <3>1. U[j] = tape[j] /\ j \in 1..n
      BY <1>5, <1>6, <1>9, <2>1
    <3>2. i \in DOMAIN tape /\ j \in DOMAIN tape /\ tape[i].at = tape[j].at
      BY <1>2, <1>9, <2>1, <3>1
    <3>3. tape[i].snap /\ tape[i].ticker = tape[j].ticker /\ tape[i].level # tape[j].level
      BY <1>9, <3>2 DEF WellFormed
    <3> QED BY <2>1, <3>1, <3>3
  <2>2. CASE /\ i > n /\ i - n \in 1..Len(q) /\ U[i] = q[i - n]
             /\ U[i].at = Now /\ U[i].ticker = t
    <3>1. /\ j > n /\ j - n \in 1..Len(q) /\ U[j] = q[j - n]
          /\ U[j].at = Now /\ U[j].ticker = t
      BY <1>5, <1>6, <1>9, <2>2
    <3>2. i - n # j - n
      BY <1>2, <1>4, <1>9
    <3>3. q[i - n].snap /\ q[i - n].level # q[j - n].level
      BY <2>2, <3>1, <3>2
    <3> QED BY <2>2, <3>1, <3>3
  <2> QED BY <1>5, <2>1, <2>2
<1>10. \A i \in DOMAIN U, g \in DOMAIN gaps : U[i].at # gaps[g].at
  <2> TAKE i \in DOMAIN U, g \in DOMAIN gaps
  <2>1. CASE i \in 1..n /\ U[i] = tape[i]
    BY <1>2, <2>1 DEF WellFormed
  <2>2. CASE U[i].at = Now
    <3>1. gaps[g].at < Now
      BY <1>2, <1>6
    <3>2. gaps[g].at \in Nat
      <4>1. gaps[g] \in Gap
        BY <1>1, <1>2, ElementOfSeq
      <4> QED BY <4>1 DEF Gap
    <3> QED BY <1>6, <2>2, <3>1, <3>2
  <2> QED BY <1>5, <2>1, <2>2
<1>11. WellFormed(U, gaps)
  BY <1>3, <1>7, <1>8, <1>9, <1>10 DEF WellFormed
<1>12. Grown(tape, gaps, U, gaps)
  <2>1. Len(tape) <= Len(U) /\ \A i \in 1..Len(tape) : U[i] = tape[i]
    BY <1>2, <1>3
  <2> QED BY <1>2, <2>1 DEF Grown
<1> QED BY <1>11, <1>12 DEF U

\* A gap row at the end of theirs.
LEMMA AppendedGap ==
    ASSUME WellFormed(tape, gaps), NEW gap \in Gap, gap.at = Now
    PROVE  WellFormed(tape, Append(gaps, gap)) /\ Grown(tape, gaps, tape, Append(gaps, gap))
<1> DEFINE H == Append(gaps, gap)
           n == Len(gaps)
<1>1. tape \in Seq(Row) /\ gaps \in Seq(Gap)
  BY DEF WellFormed
<1>2. n \in Nat /\ Len(tape) \in Nat /\ DOMAIN gaps = 1..n /\ DOMAIN tape = 1..Len(tape)
  BY <1>1, LenProperties
<1>3. H \in Seq(Gap) /\ Len(H) = n + 1 /\ H[n + 1] = gap /\ \A g \in 1..n : H[g] = gaps[g]
  BY <1>1, AppendProperties
<1>4. DOMAIN H = 1..(n + 1)
  BY <1>2, <1>3, LenProperties
<1> HIDE DEF H
<1>5. /\ Now \in Nat /\ Now > 0 /\ \A g \in 1..n : gaps[g].at < Now
      /\ \A i \in 1..Len(tape) : tape[i].at < Now
  BY NowIsLater
<1>6. \A g \in 1..n : gaps[g].at \in Nat /\ gaps[g].at > 0
  <2> TAKE g \in 1..n
  <2>1. gaps[g] \in Gap
    BY <1>1, <1>2, ElementOfSeq
  <2> QED BY <1>2, <2>1 DEF Gap, WellFormed
<1>7. \A g \in DOMAIN H : (g \in 1..n /\ H[g] = gaps[g]) \/ (g = n + 1 /\ H[g].at = Now)
  BY <1>2, <1>3, <1>4
<1>8. \A g \in DOMAIN H : H[g].at > 0
  BY <1>5, <1>6, <1>7
<1>9. \A g, h \in DOMAIN H : g <= h => H[g].at <= H[h].at
  <2> SUFFICES ASSUME NEW g \in DOMAIN H, NEW h \in DOMAIN H, g <= h
               PROVE  H[g].at <= H[h].at
    OBVIOUS
  <2>1. CASE h \in 1..n /\ H[h] = gaps[h]
    <3>1. g \in 1..n /\ H[g] = gaps[g]
      BY <1>2, <1>4, <1>7, <2>1
    <3>2. gaps[g].at <= gaps[h].at
      BY <1>2, <2>1, <3>1 DEF WellFormed
    <3> QED BY <2>1, <3>1, <3>2
  <2>2. CASE h = n + 1 /\ H[h].at = Now
    <3>1. H[g].at < Now \/ H[g].at = Now
      BY <1>5, <1>7
    <3>2. H[g].at \in Nat
      BY <1>5, <1>6, <1>7
    <3> QED BY <1>5, <2>2, <3>1, <3>2
  <2> QED BY <1>7, <2>1, <2>2
<1>10. \A i \in DOMAIN tape, g \in DOMAIN H : tape[i].at # H[g].at
  <2> TAKE i \in DOMAIN tape, g \in DOMAIN H
  <2>1. tape[i].at < Now /\ tape[i].at \in Nat
    BY <1>2, <1>5, RowFacts
  <2>2. g \in 1..n => tape[i].at # gaps[g].at
    BY <1>2 DEF WellFormed
  <2> QED BY <1>5, <1>7, <2>1, <2>2
<1>11. WellFormed(tape, H)
  BY <1>3, <1>8, <1>9, <1>10 DEF WellFormed
<1>12. Grown(tape, gaps, tape, H)
  <2>1. \A h \in 1..(n + 1) : h > n => h = n + 1
    BY <1>2
  <2>2. \A h \in 1..Len(H) : h > Len(gaps) => \A i \in 1..Len(tape) : tape[i].at < H[h].at
    BY <1>2, <1>3, <1>4, <1>5, <1>7, <2>1
  <2> QED BY <1>2, <1>3, <2>2 DEF Grown
<1> QED BY <1>11, <1>12 DEF H

\* Whatever the recorder does.
LEMMA RecorderGrows ==
    ASSUME WellFormed(tape, gaps), Recorder
    PROVE  WellFormed(tape', gaps') /\ Grown(tape, gaps, tape', gaps')
<1>1. ASSUME NEW t \in Tickers, RecordSnapshot(t)
      PROVE  WellFormed(tape', gaps') /\ Grown(tape, gaps, tape', gaps')
  <2>1. PICK b \in [Levels -> 0..MaxSize] :
          LET full == {l \in Levels : b[l] > 0}
              rows == {[ticker |-> t, snap |-> TRUE, at |-> Now, level |-> l, size |-> b[l]] :
                         l \in full}
          IN  /\ \E ordered \in SetToSeqs(rows) : tape' = tape \o ordered
              /\ UNCHANGED gaps
    BY <1>1 DEF RecordSnapshot
  <2> DEFINE full == {l \in Levels : b[l] > 0}
             row(l) == [ticker |-> t, snap |-> TRUE, at |-> Now, level |-> l, size |-> b[l]]
             rows == {row(l) : l \in full}
             f    == [l \in full |-> row(l)]
  <2>2. PICK q \in SetToSeqs(rows) : tape' = tape \o q
    BY <2>1
  <2>3. IsFiniteSet(rows)
    <3>1. IsFiniteSet(full)
      BY PassAssumption, FS_Subset
    <3>2. f \in Surjection(full, rows)
      BY DEF Surjection
    <3> HIDE DEF full, rows, f
    <3> QED BY <3>1, <3>2, FS_Surjection
  <2>0. \A l \in full : row(l) \in Row /\ row(l).at = Now /\ row(l).ticker = t
                        /\ row(l).snap /\ row(l).level = l
    <3> TAKE l \in full
    <3>1. b[l] \in Int /\ l \in Levels
      BY PassAssumption
    <3>2. Now \in Nat
      BY NowIsLater
    <3> QED BY <3>1, <3>2 DEF Row
  <2> HIDE DEF row, full
  <2>4. \A r \in rows : r \in Row /\ r.at = Now /\ r.ticker = t /\ r.snap
    BY <2>0
  <2>5. \A r, p \in rows : r # p => r.level # p.level
    BY <2>0
  <2> HIDE DEF rows
  <2>6. Cardinality(rows) \in Nat
    BY <2>3, FS_CardinalityType
  <2>7. /\ q \in [1..Cardinality(rows) -> rows]
        /\ \A i, j \in 1..Cardinality(rows) : i # j => q[i] # q[j]
    BY <2>2 DEF SetToSeqs
  <2>8. q \in Seq(Row) /\ Len(q) = Cardinality(rows)
    <3>1. q \in [1..Cardinality(rows) -> Row]
      BY <2>4, <2>7
    <3>2. q \in Seq(Row)
      BY <2>6, <3>1
    <3> QED BY <2>6, <3>1, <3>2, LenProperties
  <2>9. \A k \in 1..Len(q) : q[k].at = Now /\ q[k].ticker = t
    BY <2>4, <2>7, <2>8
  <2>10. \A j, k \in 1..Len(q) : j # k => q[j].snap /\ q[j].level # q[k].level
    BY <2>4, <2>5, <2>7, <2>8
  <2>11. WellFormed(tape \o q, gaps) /\ Grown(tape, gaps, tape \o q, gaps)
    BY <2>8, <2>9, <2>10, AppendedRows
  <2> QED BY <2>1, <2>2, <2>11
<1>2. ASSUME NEW t \in Tickers, RecordDelta(t)
      PROVE  WellFormed(tape', gaps') /\ Grown(tape, gaps, tape', gaps')
  <2>1. PICK l \in Levels : \E d \in -MaxSize..MaxSize :
           tape' = Append(tape, [ticker |-> t, snap |-> FALSE, at |-> Now, level |-> l, size |-> d])
           /\ UNCHANGED gaps
    BY <1>2 DEF RecordDelta
  <2>2. PICK d \in -MaxSize..MaxSize :
           tape' = Append(tape, [ticker |-> t, snap |-> FALSE, at |-> Now, level |-> l, size |-> d])
           /\ UNCHANGED gaps
    BY <2>1
  <2> DEFINE row == [ticker |-> t, snap |-> FALSE, at |-> Now, level |-> l, size |-> d]
             q   == <<row>>
  <2>3. row \in Row /\ row.at = Now /\ row.ticker = t
    BY NowIsLater, PassAssumption DEF Row
  <2> HIDE DEF row
  <2>4. q \in Seq(Row) /\ Len(q) = 1 /\ q[1] = row
    BY <2>3
  <2>5. tape \o q = Append(tape, row)
    BY <2>3, AppendIsConcat DEF WellFormed
  <2>6. \A k \in 1..Len(q) : k = 1
    BY <2>4
  <2>7. \A k \in 1..Len(q) : q[k].at = Now /\ q[k].ticker = t
    BY <2>3, <2>4, <2>6
  <2> HIDE DEF q
  <2>8. WellFormed(tape \o q, gaps) /\ Grown(tape, gaps, tape \o q, gaps)
    BY <2>4, <2>6, <2>7, AppendedRows
  <2> QED BY <2>2, <2>5, <2>8 DEF row
<1>3. ASSUME RecordGap
      PROVE  WellFormed(tape', gaps') /\ Grown(tape, gaps, tape', gaps')
  <2> DEFINE gap == [ticker |-> ALL, at |-> Now]
  <2>1. gap \in Gap /\ gap.at = Now
    BY NowIsLater DEF Gap
  <2>2. tape' = tape /\ gaps' = Append(gaps, gap)
    BY <1>3 DEF RecordGap
  <2> HIDE DEF gap
  <2> QED BY <2>1, <2>2, AppendedGap
<1> QED BY <1>1, <1>2, <1>3 DEF Recorder

-----------------------------------------------------------------------------
(***************************************************************************)
(* The invariants of the process, its checkpoint and its files.            *)
(***************************************************************************)
Passes == [ pc : {"off", "sweep", "read", "consume", "close", "done"},
            limit : Nat, read : Nat, barrier : Nat, state : States,
            since : Nat, fetched : Nat, final : BOOLEAN ]

\* The rows and the gap rows that a pinned pass does not read are later than
\* those it reads.
Bounds ==
    /\ pass.state.id <= pass.limit /\ pass.fetched <= pass.limit /\ pass.limit <= Len(tape)
    /\ \A g \in 1..Len(gaps) : g > pass.read => \A i \in 1..pass.limit : tape[i].at < gaps[g].at

\* Both the checkpoint and the process know what they have consumed.
RunInv ==
    /\ WellFormed(tape, gaps)
    /\ pass \in Passes /\ checkpoint \in [barrier : Nat, state : States]
    /\ Tracked(tape, gaps, checkpoint.state) /\ Tracked(tape, gaps, pass.state)
    /\ pass.read <= Len(gaps) /\ pass.fetched <= Len(tape) /\ pass.since <= BarrierRows
    /\ pass.pc = "sweep" => pass.state = checkpoint.state
    /\ pass.pc \in {"sweep", "read", "consume"} => pass.since < BarrierRows /\ ~pass.final
    /\ pass.pc = "consume" => pass.state.id < pass.fetched
    /\ pass.pc = "close" /\ ~pass.final => pass.state.id <= pass.fetched
    /\ Pinned /\ pass.pc # "off" => Bounds

Right(T, t, r) ==
    r.id \in 1..Len(T) /\ T[r.id].ticker = t /\ r.levels = BookOn(T, t, r.id)

\* Every row of every file is the book at its id, what is committed is closed,
\* and a process that consumes has its files open.
FileInv ==
    /\ DOMAIN files \subseteq Tickers \X Nat
    /\ \A k \in DOMAIN files : files[k] \in [rows : SUBSET Out, closed : BOOLEAN]
    /\ \A k \in DOMAIN files : \A r \in files[k].rows : Right(tape, k[1], r)
    /\ \A k \in Committed : files[k].closed
    /\ pass.pc \in {"read", "consume"} => \A k \in Uncommitted : ~files[k].closed

\* A row is on a file or counted as skipped.
Everything == UNION {files[k].rows : k \in DOMAIN files}

OfTicker(T, R, t) == {r \in R : T[r.id].ticker = t}

Balanced(T, R, s) ==
    /\ IsFiniteSet(R) /\ \A r \in R : r.id \in 1..s.id
    /\ \A t \in Tickers : Cardinality(OfTicker(T, R, t)) + s.skipped[t] = s.seen[t]

CountInv ==
    /\ Balanced(tape, Artifact, checkpoint.state)
    /\ pass.pc \notin {"off", "sweep"} => Balanced(tape, Everything, pass.state)

PassInv == Inv /\ RunInv /\ FileInv /\ CountInv

\* Nothing is known before the first row.
LEMMA StartTracked ==
    ASSUME NEW T, NEW G, WellFormed(T, G)
    PROVE  Start \in States /\ Tracked(T, G, Start)
<1>1. Len(T) \in Nat
  BY LenProperties DEF WellFormed
<1>2. Start \in States
  <2>1. <<>> \in Edges
    <3>1. <<>> \in [{} -> Edge]
      OBVIOUS
    <3> QED BY <3>1 DEF Edges
  <2>2. <<>> \in Seq(Ladder) /\ [t \in Tickers |-> 0] \in Counts
    BY DEF Counts
  <2> QED BY <2>1, <2>2 DEF Start, States
<1>3. Sized(T, G, Start)
  <2>1. Start.id = 0 /\ Start.ladders = <<>> /\ Start.poisoned = {} /\ Start.edges = <<>>
    BY DEF Start
  <2>2. DOMAIN Start.ladders = {} /\ DOMAIN Start.edges = {} /\ Len(Start.ladders) = 0
    BY <2>1
  <2>3. Ceiling # 0 => Len(Start.ladders) <= Ceiling
    BY <2>2, PassAssumption
  <2> QED BY <1>1, <1>2, <2>1, <2>2, <2>3 DEF Sized
<1>4. Counting(T, Start)
  <2>1. \A t : About(T, t, Start.id) = {}
    BY DEF Start, About
  <2> QED BY <2>1, FS_EmptySet DEF Counting, Start
<1>5. Matching(T, Start)
  <2>1. Start.id = 0 /\ DOMAIN Start.ladders = {}
    BY DEF Start
  <2> QED BY <2>1 DEF Matching
<1>6. Latest(T, Start)
  BY DEF Latest, Start
<1>7. Bracketed(T, G, Start)
  <2>1. DOMAIN Start.edges = {} /\ Start.id = 0
    BY DEF Start
  <2> QED BY <2>1 DEF Bracketed
<1> QED BY <1>2, <1>3, <1>4, <1>5, <1>6, <1>7 DEF Tracked

\* The process is off, over a tape without rows.
LEMMA RunStarts == Init => RunInv
<1> SUFFICES ASSUME Init PROVE RunInv
  OBVIOUS
<1>1. tape = <<>> /\ gaps = <<>> /\ pass = Idle /\ checkpoint = NoCheckpoint
  BY DEF Init
<1>2. WellFormed(tape, gaps) /\ Len(tape) = 0 /\ Len(gaps) = 0
  BY <1>1 DEF WellFormed
<1>3. Start \in States /\ Tracked(tape, gaps, Start)
  BY <1>2, StartTracked
<1>4. Idle \in Passes /\ Idle.state = Start /\ Idle.pc = "off" /\ Idle.read = 0
      /\ Idle.fetched = 0 /\ Idle.since = 0
  BY <1>3 DEF Idle, Passes
<1>5. NoCheckpoint \in [barrier : Nat, state : States] /\ NoCheckpoint.state = Start
  BY <1>3 DEF NoCheckpoint
<1>6. 0 <= BarrierRows
  BY PassAssumption
<1> HIDE DEF Start, Idle, NoCheckpoint
<1> QED BY <1>1, <1>2, <1>3, <1>4, <1>5, <1>6 DEF RunInv

\* The recorder adds what the process has not read.
LEMMA RunUnderRecorder ==
    ASSUME Inv, RunInv, Recorder
    PROVE  RunInv'
<1>1. UNCHANGED <<files, checkpoint, pass>>
  BY RecorderStep
<1>2. WellFormed(tape', gaps') /\ Grown(tape, gaps, tape', gaps')
  BY RecorderGrows DEF RunInv
<1>3. Tracked(tape', gaps', checkpoint.state) /\ Tracked(tape', gaps', pass.state)
  BY <1>2, TrackedStays DEF RunInv
<1>4. /\ Len(tape) \in Nat /\ Len(tape') \in Nat /\ Len(gaps) \in Nat /\ Len(gaps') \in Nat
      /\ Len(tape) <= Len(tape') /\ Len(gaps) <= Len(gaps')
  BY <1>2, LenProperties DEF RunInv, WellFormed, Grown
<1>5. /\ pass.read \in Nat /\ pass.fetched \in Nat /\ pass.limit \in Nat /\ pass.state.id \in Nat
      /\ pass.read <= Len(gaps) /\ pass.fetched <= Len(tape)
  BY DEF RunInv, Passes, States
<1>6. pass.read <= Len(gaps') /\ pass.fetched <= Len(tape')
  BY <1>4, <1>5
<1>7. Pinned /\ pass.pc # "off" => Bounds'
  <2> SUFFICES ASSUME Pinned, pass.pc # "off" PROVE Bounds'
    OBVIOUS
  <2>1. Bounds
    BY DEF RunInv
  <2>2. pass.limit <= Len(tape')
    BY <1>4, <1>5, <2>1 DEF Bounds
  <2>3. \A i \in 1..pass.limit : i \in 1..Len(tape) /\ tape'[i] = tape[i]
    <3>1. \A i \in 1..pass.limit : i \in 1..Len(tape)
      BY <1>4, <1>5, <2>1 DEF Bounds
    <3> QED BY <1>2, <3>1 DEF Grown
  <2>4. ASSUME NEW g \in 1..Len(gaps'), g > pass.read, NEW i \in 1..pass.limit
        PROVE  tape'[i].at < gaps'[g].at
    <3>1. CASE g \in 1..Len(gaps)
      <4>1. gaps'[g] = gaps[g]
        BY <1>2, <3>1 DEF Grown
      <4>2. tape[i].at < gaps[g].at
        BY <2>1, <2>4, <3>1 DEF Bounds
      <4> QED BY <2>3, <4>1, <4>2
    <3>2. CASE g > Len(gaps)
      BY <1>2, <2>3, <3>2 DEF Grown
    <3> QED BY <1>4, <3>1, <3>2
  <2> QED BY <1>1, <2>1, <2>2, <2>4 DEF Bounds
<1> QED BY <1>1, <1>2, <1>3, <1>6, <1>7 DEF RunInv

\* A process begins where the checkpoint stands.
LEMMA RunBegins ==
    ASSUME RunInv, Begin
    PROVE  RunInv'
<1>1. UNCHANGED <<tape, gaps, checkpoint>>
  BY DEF Begin
<1>2. /\ Len(tape) \in Nat /\ Len(gaps) \in Nat
      /\ checkpoint \in [barrier : Nat, state : States]
      /\ checkpoint.state \in States /\ checkpoint.barrier \in Nat
      /\ checkpoint.state.id \in Nat /\ checkpoint.state.id <= Len(tape)
      /\ Tracked(tape, gaps, checkpoint.state)
  <2>1. checkpoint.state.id \in 0..Len(tape) /\ checkpoint.state \in States
    BY DEF RunInv, Tracked, Sized
  <2> QED BY <2>1, LenProperties DEF RunInv, WellFormed
<1> DEFINE lim == IF Pinned THEN Len(tape) ELSE MaxRows
<1>3. lim \in Nat
  BY <1>2, PassAssumption
<1>4. /\ pass'.pc = "sweep" /\ pass'.limit = lim /\ pass'.read = Len(gaps)
      /\ pass'.barrier = checkpoint.barrier /\ pass'.state = checkpoint.state
      /\ pass'.since = 0 /\ pass'.fetched = 0 /\ pass'.final = FALSE
      /\ pass' \in Passes
  <2>1. pass' = [ pc |-> "sweep", limit |-> lim, read |-> Len(gaps),
                  barrier |-> checkpoint.barrier, state |-> checkpoint.state,
                  since |-> 0, fetched |-> 0, final |-> FALSE ]
    BY DEF Begin, Idle, Restored
  <2> HIDE DEF lim
  <2> QED BY <1>2, <1>3, <2>1 DEF Passes
<1>5. 0 < BarrierRows /\ 0 <= BarrierRows
  BY PassAssumption
<1>6. Pinned => Bounds'
  <2> SUFFICES ASSUME Pinned PROVE Bounds'
    OBVIOUS
  <2>1. lim = Len(tape)
    OBVIOUS
  <2>2. \A g \in 1..Len(gaps) : ~(g > Len(gaps))
    BY <1>2
  <2> HIDE DEF lim
  <2> QED BY <1>1, <1>2, <1>4, <2>1, <2>2 DEF Bounds
<1> HIDE DEF lim
<1>7. WellFormed(tape, gaps)
  BY DEF RunInv
<1>8. pass'.read <= Len(gaps') /\ pass'.fetched <= Len(tape') /\ pass'.since <= BarrierRows
  <2>1. Len(gaps) <= Len(gaps) /\ 0 <= Len(tape)
    BY <1>2
  <2> QED BY <1>1, <1>4, <1>5, <2>1
<1>9. Tracked(tape', gaps', checkpoint'.state) /\ Tracked(tape', gaps', pass'.state)
  BY <1>1, <1>2, <1>4
<1> QED BY <1>1, <1>2, <1>4, <1>5, <1>6, <1>7, <1>8, <1>9 DEF RunInv

\* A step that leaves the tape, the checkpoint and what the process has
\* consumed as they are.
LEMMA RunStays ==
    ASSUME RunInv, UNCHANGED <<tape, gaps, checkpoint>>, pass' \in Passes,
           pass'.state = pass.state, pass'.read = pass.read, pass'.limit = pass.limit,
           pass'.fetched <= Len(tape), pass'.since <= BarrierRows,
           pass'.pc = "sweep" => pass.pc = "sweep",
           pass'.pc \in {"sweep", "read", "consume"} => pass'.since < BarrierRows /\ ~pass'.final,
           pass'.pc = "consume" => pass'.state.id < pass'.fetched,
           pass'.pc = "close" /\ ~pass'.final => pass'.state.id <= pass'.fetched,
           pass.pc # "off", Pinned => pass'.fetched <= pass'.limit
    PROVE  RunInv'
<1>1. Pinned => Bounds'
  BY DEF RunInv, Bounds
<1> QED BY <1>1 DEF RunInv

\* Sweeping and closing files.
LEMMA RunSweeps ==
    ASSUME RunInv, Sweep \/ CloseFile
    PROVE  RunInv'
<1>0. /\ pass \in Passes /\ WellFormed(tape, gaps)
      /\ pass.pc = "sweep" => pass.state = checkpoint.state /\ pass.since < BarrierRows /\ ~pass.final
  BY DEF RunInv
<1>1. UNCHANGED <<tape, gaps, checkpoint>>
  BY DEF Sweep, CloseFile
<1>2. CASE pass' = pass
  BY <1>1, <1>2 DEF RunInv, Bounds
<1>3. CASE pass.pc = "sweep" /\ pass' = [pass EXCEPT !.pc = "read"]
  <2>1. /\ pass' \in Passes /\ pass'.pc = "read" /\ pass'.since = pass.since
        /\ pass'.final = pass.final /\ pass'.state = pass.state /\ pass'.read = pass.read
        /\ pass'.limit = pass.limit /\ pass'.fetched = pass.fetched
    BY <1>0, <1>3 DEF Passes
  <2>2. pass.fetched <= Len(tape) /\ pass.since <= BarrierRows
        /\ (Pinned => pass.fetched <= pass.limit)
    BY <1>3 DEF RunInv, Bounds
  <2> QED BY <1>0, <1>1, <1>3, <2>1, <2>2, RunStays
<1> QED BY <1>2, <1>3 DEF Sweep, CloseFile

\* A read goes as far as the batch, the limit and the tape allow.
LEMMA RunFetches ==
    ASSUME RunInv, Fetch
    PROVE  RunInv'
<1> DEFINE to == Min({pass.state.id + ReadBatch, pass.limit, Len(tape)})
           a  == pass.state.id + ReadBatch
           b  == pass.limit
           n  == Len(tape)
<1>1. /\ pass \in Passes /\ pass.pc = "read" /\ UNCHANGED <<tape, gaps, checkpoint>>
      /\ pass.state.id \in Nat /\ pass.since < BarrierRows /\ ~pass.final
      /\ pass.fetched <= n /\ pass.since \in Nat /\ b \in Nat /\ pass.since <= BarrierRows
      /\ (Pinned => pass.fetched <= pass.limit)
  BY DEF Fetch, RunInv, Passes, States, Bounds
<1>2. a \in Nat /\ b \in Nat /\ n \in Nat
  <2>1. n \in Nat
    BY LenProperties DEF RunInv, WellFormed
  <2>2. ReadBatch \in Nat
    BY PassAssumption
  <2> QED BY <1>1, <2>1, <2>2
<1>3. to \in Nat /\ to <= b /\ to <= n
  <2> DEFINE m == IF a <= b /\ a <= n THEN a ELSE IF b <= n THEN b ELSE n
  <2> HIDE DEF a, b, n
  <2>1. m \in {a, b, n} /\ m \in Nat /\ m <= a /\ m <= b /\ m <= n /\ {a, b, n} \in SUBSET Int
    BY <1>2
  <2>2. \A x \in {a, b, n} : m <= x
    BY <2>1
  <2> HIDE DEF m
  <2>3. Min({a, b, n}) = m
    BY <2>1, <2>2, MinIs
  <2> USE DEF a, b, n
  <2> QED BY <2>1, <2>3
<1>4. CASE to > pass.state.id
  <2>1. pass' = [pass EXCEPT !.pc = "consume", !.fetched = to]
    BY <1>4 DEF Fetch
  <2> HIDE DEF to
  <2>2. /\ pass' \in Passes /\ pass'.pc = "consume" /\ pass'.fetched = to
        /\ pass'.since = pass.since /\ pass'.final = pass.final /\ pass'.state = pass.state
        /\ pass'.read = pass.read /\ pass'.limit = pass.limit
    BY <1>1, <1>3, <2>1 DEF Passes
  <2>3. pass'.state.id < pass'.fetched
    BY <1>1, <1>3, <1>4, <2>2
  <2> QED BY <1>1, <1>3, <2>2, <2>3, RunStays
<1>5. CASE ~(to > pass.state.id)
  <2> DEFINE next == IF pass.since > 0 THEN "close" ELSE "done"
  <2>1. pass' = [pass EXCEPT !.pc = next, !.final = TRUE]
    BY <1>5 DEF Fetch
  <2>2. next \in {"close", "done"}
    OBVIOUS
  <2> HIDE DEF to, next
  <2>3. /\ pass' \in Passes /\ pass'.pc = next /\ pass'.fetched = pass.fetched
        /\ pass'.since = pass.since /\ pass'.final = TRUE /\ pass'.state = pass.state
        /\ pass'.read = pass.read /\ pass'.limit = pass.limit
    BY <1>1, <2>1, <2>2 DEF Passes
  <2> QED BY <1>1, <2>2, <2>3, RunStays
<1> QED BY <1>4, <1>5

\* What the consumed row leaves.
LEMMA RowConsumed ==
    ASSUME RunInv, pass.pc = "consume"
    PROVE  LET id  == pass.state.id + 1
               row == tape[id]
               c   == Consumed(pass.state, pass.read, id)
           IN  /\ id \in 1..Len(tape) /\ pass.state.id \in Nat
               /\ id <= pass.fetched /\ (Pinned => id <= pass.limit)
               /\ Tracked(tape, gaps, c) /\ c.id = id
               /\ c.seen = [pass.state.seen EXCEPT ![row.ticker] = @ + 1]
               /\ Refused(pass.state, row) =>
                     c.skipped = [pass.state.skipped EXCEPT ![row.ticker] = @ + 1]
               /\ ~Refused(pass.state, row) =>
                     c.skipped = pass.state.skipped /\ Resident(c, row.ticker)
<1> DEFINE s == pass.state
<1>1. /\ s.id \in Nat /\ pass.fetched \in Nat /\ pass.read \in Nat /\ pass.limit \in Nat
      /\ s.id < pass.fetched /\ pass.fetched <= Len(tape) /\ pass.read <= Len(gaps)
      /\ (Pinned => Bounds) /\ WellFormed(tape, gaps) /\ Tracked(tape, gaps, s)
  BY DEF RunInv, Passes, States
<1>2. Len(tape) \in Nat /\ DOMAIN gaps = 1..Len(gaps)
  BY <1>1, LenProperties DEF WellFormed
<1>3. s.id < Len(tape) /\ s.id + 1 \in 1..Len(tape) /\ s.id + 1 <= pass.fetched
  BY <1>1, <1>2
<1>4. Pinned => s.id + 1 <= pass.limit /\ s.id + 1 \in 1..pass.limit
  BY <1>1, <1>3 DEF Bounds
<1>5. Pinned => \A g \in DOMAIN gaps : g > pass.read => tape[s.id + 1].at < gaps[g].at
  BY <1>1, <1>2, <1>4 DEF Bounds
<1> HIDE DEF s
<1>6. LET row == tape[s.id + 1]
          c   == Consumed(s, pass.read, s.id + 1)
      IN  /\ Tracked(tape, gaps, c) /\ c.id = s.id + 1
          /\ c.seen = [s.seen EXCEPT ![row.ticker] = @ + 1]
          /\ Refused(s, row) => c.skipped = [s.skipped EXCEPT ![row.ticker] = @ + 1]
          /\ ~Refused(s, row) => c.skipped = s.skipped /\ Resident(c, row.ticker)
  BY <1>1, <1>3, <1>5, ConsumeTracked
<1> QED BY <1>1, <1>3, <1>4, <1>6 DEF s

\* One row.
LEMMA RunConsumes ==
    ASSUME RunInv, Consume
    PROVE  RunInv'
<1> DEFINE id  == pass.state.id + 1
           c   == Consumed(pass.state, pass.read, id)
           nxt == IF pass.since + 1 = BarrierRows THEN "close"
                  ELSE IF id = pass.fetched THEN "read" ELSE "consume"
<1>1. /\ pass.pc = "consume" /\ UNCHANGED <<tape, gaps, checkpoint>>
      /\ pass' = [pass EXCEPT !.state = c, !.since = @ + 1, !.pc = nxt]
  BY DEF Consume
<1>2. /\ id \in 1..Len(tape) /\ id <= pass.fetched /\ (Pinned => id <= pass.limit)
      /\ Tracked(tape, gaps, c) /\ c.id = id
  BY <1>1, RowConsumed
<1>3. /\ pass \in Passes /\ pass.since \in Nat /\ pass.since < BarrierRows /\ ~pass.final
      /\ pass.fetched \in Nat /\ BarrierRows \in Nat /\ id \in Nat
  <2>1. BarrierRows \in Nat
    BY PassAssumption
  <2>2. pass \in Passes /\ pass.since < BarrierRows /\ ~pass.final
    BY <1>1 DEF RunInv
  <2>3. pass.state.id \in Nat
    BY <1>1, RowConsumed
  <2> QED BY <2>1, <2>2, <2>3 DEF Passes
<1>4. /\ nxt \in {"read", "consume", "close"}
      /\ nxt \in {"read", "consume"} => pass.since + 1 # BarrierRows
      /\ nxt = "consume" => id # pass.fetched
  OBVIOUS
<1>5. c \in States
  BY <1>2 DEF Tracked, Sized
<1> DEFINE more == pass.since + 1
<1>0. more \in Nat /\ pass' = [pass EXCEPT !.state = c, !.since = more, !.pc = nxt]
  BY <1>1, <1>3
<1> HIDE DEF c, id, nxt, more
<1>6. /\ pass' \in Passes /\ pass'.pc = nxt /\ pass'.fetched = pass.fetched
      /\ pass'.since = more /\ pass'.final = pass.final /\ pass'.state = c
      /\ pass'.read = pass.read /\ pass'.limit = pass.limit
  BY <1>0, <1>3, <1>4, <1>5 DEF Passes
<1>7. pass'.since <= BarrierRows
  BY <1>3, <1>6 DEF more
<1>8. nxt \in {"read", "consume"} => pass'.since < BarrierRows
  BY <1>3, <1>4, <1>6 DEF more
<1>9. nxt = "consume" => id < pass.fetched
  BY <1>2, <1>3, <1>4
<1>10. Pinned => Bounds'
  BY <1>1, <1>2, <1>6 DEF RunInv, Bounds
<1>11. pass'.read <= Len(gaps) /\ pass'.fetched <= Len(tape)
  BY <1>6 DEF RunInv
<1> QED BY <1>1, <1>2, <1>3, <1>4, <1>6, <1>7, <1>8, <1>9, <1>10, <1>11 DEF RunInv

\* The checkpoint takes over what the process knows.
LEMMA RunCommits ==
    ASSUME RunInv, Commit
    PROVE  RunInv'
<1> DEFINE nxt == IF pass.final THEN "done"
                  ELSE IF pass.state.id = pass.fetched THEN "read" ELSE "consume"
<1>1. /\ pass.pc = "close" /\ UNCHANGED <<tape, gaps, files>>
      /\ checkpoint' = [barrier |-> pass.barrier + 1, state |-> pass.state]
      /\ pass' = [pass EXCEPT !.barrier = @ + 1, !.since = 0, !.pc = nxt]
  BY DEF Commit
<1>2. /\ pass \in Passes /\ pass.barrier \in Nat /\ pass.state \in States
      /\ pass.state.id \in Nat /\ pass.fetched \in Nat
      /\ Tracked(tape, gaps, pass.state) /\ WellFormed(tape, gaps)
      /\ pass.read <= Len(gaps) /\ pass.fetched <= Len(tape)
      /\ ~pass.final => pass.state.id <= pass.fetched
  BY <1>1 DEF RunInv, Passes, States
<1>3. 0 < BarrierRows /\ 0 <= BarrierRows
  BY PassAssumption
<1>4. /\ nxt \in {"read", "consume", "done"}
      /\ nxt \in {"read", "consume"} => ~pass.final
      /\ nxt = "consume" => pass.state.id < pass.fetched
  BY <1>2
<1> DEFINE more == pass.barrier + 1
<1>0. more \in Nat /\ pass' = [pass EXCEPT !.barrier = more, !.since = 0, !.pc = nxt]
  BY <1>1, <1>2
<1> HIDE DEF nxt, more
<1>5. /\ pass' \in Passes /\ pass'.pc = nxt /\ pass'.fetched = pass.fetched
      /\ pass'.since = 0 /\ pass'.final = pass.final /\ pass'.state = pass.state
      /\ pass'.read = pass.read /\ pass'.limit = pass.limit
  BY <1>0, <1>2, <1>4 DEF Passes
<1>6. checkpoint' \in [barrier : Nat, state : States] /\ checkpoint'.state = pass.state
  BY <1>1, <1>2
<1>7. Pinned => Bounds'
  BY <1>1, <1>5 DEF RunInv, Bounds
<1> QED BY <1>1, <1>2, <1>3, <1>4, <1>5, <1>6, <1>7 DEF RunInv

\* A process that ends, by itself or killed.
LEMMA RunEnds ==
    ASSUME RunInv, Finish \/ Kill
    PROVE  RunInv'
<1>1. pass' = Idle /\ UNCHANGED <<tape, gaps, checkpoint>>
  BY DEF Finish, Kill
<1>2. WellFormed(tape, gaps) /\ Len(tape) \in Nat /\ Len(gaps) \in Nat
  BY LenProperties DEF RunInv, WellFormed
<1>3. Start \in States /\ Tracked(tape, gaps, Start)
  BY <1>2, StartTracked
<1>4. Idle \in Passes /\ Idle.state = Start /\ Idle.pc = "off" /\ Idle.read = 0
      /\ Idle.fetched = 0 /\ Idle.since = 0
  BY <1>3 DEF Idle, Passes
<1>5. 0 <= BarrierRows /\ 0 <= Len(tape) /\ 0 <= Len(gaps)
  BY <1>2, PassAssumption
<1> HIDE DEF Start, Idle
<1> QED BY <1>1, <1>2, <1>3, <1>4, <1>5 DEF RunInv

-----------------------------------------------------------------------------

\* The rows that are there stay right on a longer tape.
LEMMA FilesUnderRecorder ==
    ASSUME Inv, RunInv, FileInv, Recorder
    PROVE  FileInv'
<1>1. UNCHANGED <<files, checkpoint, pass>>
  BY RecorderStep
<1>2. Grown(tape, gaps, tape', gaps') /\ WellFormed(tape, gaps) /\ WellFormed(tape', gaps')
  BY RecorderGrows DEF RunInv
<1>3. Len(tape) \in Nat /\ Len(tape') \in Nat /\ Len(tape) <= Len(tape')
  BY <1>2, LenProperties DEF WellFormed, Grown
<1>4. ASSUME NEW k \in DOMAIN files, NEW r \in files[k].rows
      PROVE  Right(tape', k[1], r)
  <2>1. Right(tape, k[1], r)
    BY <1>4 DEF FileInv
  <2>2. r.id \in 1..Len(tape) /\ r.id \in 1..Len(tape')
    BY <1>3, <2>1 DEF Right
  <2>3. \A i \in 1..r.id : tape'[i] = tape[i]
    <3>1. \A i \in 1..r.id : i \in 1..Len(tape)
      BY <1>3, <2>2
    <3> QED BY <1>2, <3>1 DEF Grown
  <2>4. BookOn(tape', k[1], r.id) = BookOn(tape, k[1], r.id)
    BY <2>3, BookStays
  <2>5. tape'[r.id] = tape[r.id]
    BY <1>2, <2>2 DEF Grown
  <2> QED BY <2>1, <2>2, <2>4, <2>5 DEF Right
<1> QED BY <1>1, <1>4 DEF FileInv, Committed, Uncommitted

\* Steps of the process that keep the files, or drop or close some.
LEMMA FilesInQuiet ==
    ASSUME Inv, FileInv, Begin \/ Fetch \/ Sweep \/ CloseFile \/ Finish \/ Kill
    PROVE  FileInv'
<1>1. UNCHANGED <<tape, checkpoint>>
  BY DEF Begin, Fetch, Sweep, CloseFile, Finish, Kill
<1>2. CASE Begin \/ Finish \/ Kill
  <2>0. Begin => pass'.pc = "sweep"
    <3> DEFINE lim == IF Pinned THEN Len(tape) ELSE MaxRows
    <3>1. Begin => pass' = [ pc |-> "sweep", limit |-> lim, read |-> Len(gaps),
                             barrier |-> checkpoint.barrier, state |-> checkpoint.state,
                             since |-> 0, fetched |-> 0, final |-> FALSE ]
      BY DEF Begin, Idle, Restored
    <3> QED BY <3>1
  <2>1. pass'.pc \in {"off", "sweep"} /\ UNCHANGED files
    BY <1>2, <2>0 DEF Begin, Finish, Kill, Idle
  <2> QED BY <1>1, <2>1 DEF FileInv, Committed
<1>3. CASE Fetch
  <2>1. pass.pc = "read" /\ UNCHANGED files
    BY <1>3 DEF Fetch
  <2> QED BY <1>1, <2>1 DEF FileInv, Committed, Uncommitted
<1>4. CASE Sweep
  <2>1. CASE Stale = {} /\ UNCHANGED files
    <3>1. Uncommitted' = {}
      BY <1>1, <2>1 DEF Stale, Uncommitted
    <3> QED BY <1>1, <2>1, <3>1 DEF FileInv, Committed
  <2>2. CASE pass' = pass /\ \E k \in Stale : files' = [f \in DOMAIN files \ {k} |-> files[f]]
    <3>1. DOMAIN files' \subseteq DOMAIN files /\ \A k \in DOMAIN files' : files'[k] = files[k]
      BY <2>2
    <3>2. pass.pc = "sweep" /\ pass'.pc = "sweep"
      BY <1>4, <2>2 DEF Sweep
    <3> QED BY <1>1, <3>1, <3>2 DEF FileInv, Committed
  <2> QED BY <1>4, <2>1, <2>2 DEF Sweep
<1>5. CASE CloseFile
  <2>1. PICK k \in Open : files' = [files EXCEPT ![k].closed = TRUE]
    BY <1>5 DEF CloseFile
  <2>2. pass.pc = "close" /\ pass' = pass /\ k \in DOMAIN files
    BY <1>5, <2>1 DEF CloseFile, Open
  <2>3. files[k] \in [rows : SUBSET Out, closed : BOOLEAN]
    BY <2>2 DEF FileInv
  <2>4. /\ DOMAIN files' = DOMAIN files
        /\ \A m \in DOMAIN files : /\ files'[m].rows = files[m].rows
                                   /\ files'[m] \in [rows : SUBSET Out, closed : BOOLEAN]
                                   /\ files'[m].closed = (files[m].closed \/ m = k)
    BY <2>1, <2>2, <2>3 DEF FileInv
  <2> QED BY <1>1, <2>2, <2>4 DEF FileInv, Committed
<1> QED BY <1>2, <1>3, <1>4, <1>5

\* What a consumed row puts on the files (_Emitter.write).
LEMMA RowEmitted ==
    ASSUME Inv, RunInv, FileInv, Consume
    PROVE  LET id  == pass.state.id + 1
               row == tape[id]
               key == <<row.ticker, pass.barrier + 1>>
           IN  IF Refused(pass.state, row) THEN files' = files
               ELSE \E out \in Out, old \in SUBSET Out :
                      /\ out.id = id /\ Right(tape, row.ticker, out)
                      /\ old = IF key \in DOMAIN files THEN files[key].rows ELSE {}
                      /\ files' = [k \in DOMAIN files \cup {key} |->
                                     IF k = key THEN [rows |-> old \cup {out}, closed |-> FALSE]
                                     ELSE files[k]]
<1> DEFINE id  == pass.state.id + 1
           row == tape[id]
           t   == row.ticker
           c   == Consumed(pass.state, pass.read, id)
           key == <<t, pass.barrier + 1>>
           out == [id |-> id, levels |-> LadderOf(c, t).levels]
           old == IF key \in DOMAIN files /\ ~files[key].closed THEN files[key].rows ELSE {}
<1>1. pass.pc = "consume" /\ files' = Emitted(files, pass.state, c, pass.barrier, id)
  BY DEF Consume
<1>2. CASE Refused(pass.state, row)
  BY <1>1, <1>2 DEF Emitted
<1>3. CASE ~Refused(pass.state, row)
  <2>1. /\ id \in 1..Len(tape) /\ Tracked(tape, gaps, c) /\ c.id = id /\ Resident(c, t)
    BY <1>1, <1>3, RowConsumed
  <2>2. WellFormed(tape, gaps) /\ Len(tape) \in Nat /\ id \in 0..Len(tape) /\ id \in Nat
    BY <2>1, LenProperties DEF RunInv, WellFormed
  <2>3. files' = [k \in DOMAIN files \cup {key} |->
                    IF k = key THEN [rows |-> old \cup {out}, closed |-> FALSE] ELSE files[k]]
    BY <1>1, <1>3 DEF Emitted
  <2>4. LadderOf(c, t).levels = BookOn(tape, t, id)
    <3> HIDE DEF c, t, id
    <3>1. PlaceOf(c, t) \in DOMAIN c.ladders /\ c.ladders[PlaceOf(c, t)].ticker = t
      BY <2>1, PlaceIs
    <3>2. Matching(tape, c)
      BY <2>1 DEF Tracked
    <3> QED BY <2>1, <3>1, <3>2 DEF LadderOf, Matching
  <2>5. BookOn(tape, t, id) \in Book
    BY <2>2, BookType
  <2>6. out \in Out /\ out.id = id /\ Right(tape, t, out)
    <3> HIDE DEF c, t
    <3>1. out \in Out /\ out.id = id /\ out.levels = BookOn(tape, t, id)
      BY <2>2, <2>4, <2>5 DEF Out
    <3>2. tape[out.id].ticker = t
      BY <3>1 DEF t
    <3> QED BY <2>1, <3>1, <3>2 DEF Right
  <2>7. key \in DOMAIN files => ~files[key].closed
    <3>1. key[2] = pass.barrier + 1 /\ pass.barrier = checkpoint.barrier
          /\ checkpoint.barrier \in Nat
      BY <1>1 DEF Inv, Shape, Resumed
    <3>2. key \in DOMAIN files => key \in Uncommitted
      BY <3>1 DEF Uncommitted
    <3> QED BY <1>1, <3>2 DEF FileInv
  <2>8. old = (IF key \in DOMAIN files THEN files[key].rows ELSE {}) /\ old \in SUBSET Out
    BY <2>7 DEF FileInv
  <2> HIDE DEF out, old
  <2> QED BY <1>3, <2>3, <2>6, <2>8
<1> QED BY <1>2, <1>3

\* A row goes to an open file of the next barrier.
LEMMA FilesInConsume ==
    ASSUME Inv, RunInv, FileInv, Consume
    PROVE  FileInv'
<1> DEFINE id  == pass.state.id + 1
           t   == tape[id].ticker
           key == <<t, pass.barrier + 1>>
<1>1. pass.pc = "consume" /\ UNCHANGED <<tape, checkpoint>>
  BY DEF Consume
<1>2. CASE files' = files
  BY <1>1, <1>2 DEF FileInv, Committed, Uncommitted
<1>3. CASE files' # files
  <2>1. PICK out \in Out : \E old \in SUBSET Out :
          /\ out.id = id /\ Right(tape, t, out)
          /\ old = IF key \in DOMAIN files THEN files[key].rows ELSE {}
          /\ files' = [k \in DOMAIN files \cup {key} |->
                         IF k = key THEN [rows |-> old \cup {out}, closed |-> FALSE]
                         ELSE files[k]]
    BY <1>3, RowEmitted
  <2>2. PICK old \in SUBSET Out :
          /\ old = IF key \in DOMAIN files THEN files[key].rows ELSE {}
          /\ files' = [k \in DOMAIN files \cup {key} |->
                         IF k = key THEN [rows |-> old \cup {out}, closed |-> FALSE]
                         ELSE files[k]]
    BY <2>1
  <2>3. /\ key \in Tickers \X Nat /\ key[1] = t /\ key[2] = pass.barrier + 1
        /\ pass.barrier = checkpoint.barrier /\ checkpoint.barrier \in Nat
    <3>1. pass.barrier = checkpoint.barrier /\ checkpoint.barrier \in Nat
      BY <1>1 DEF Inv, Shape, Resumed
    <3>2. id \in 1..Len(tape) /\ WellFormed(tape, gaps)
      BY <1>1, RowConsumed DEF RunInv
    <3>3. t \in Tickers
      BY <3>2, RowFacts
    <3> QED BY <3>1, <3>3
  <2> HIDE DEF key, t, id
  <2>4. \A k \in DOMAIN files' :
           \/ k = key /\ files'[k] = [rows |-> old \cup {out}, closed |-> FALSE]
           \/ k # key /\ k \in DOMAIN files /\ files'[k] = files[k]
    BY <2>2
  <2>5. DOMAIN files' \subseteq Tickers \X Nat
    BY <2>3, <2>4 DEF FileInv
  <2>6. \A k \in DOMAIN files' : files'[k] \in [rows : SUBSET Out, closed : BOOLEAN]
    <3>1. \A k \in DOMAIN files : files[k] \in [rows : SUBSET Out, closed : BOOLEAN]
      BY DEF FileInv
    <3>2. old \cup {out} \in SUBSET Out
      OBVIOUS
    <3>3. [rows |-> old \cup {out}, closed |-> FALSE] \in [rows : SUBSET Out, closed : BOOLEAN]
      BY <3>2
    <3> QED BY <2>4, <3>1, <3>3
  <2>7. \A r \in old : Right(tape, t, r)
    BY <2>2, <2>3 DEF FileInv
  <2>8. \A k \in DOMAIN files' : \A r \in files'[k].rows : Right(tape, k[1], r)
    BY <2>1, <2>3, <2>4, <2>7 DEF FileInv
  <2>9. \A k \in Committed' : files'[k].closed
    <3> SUFFICES ASSUME NEW k \in Committed' PROVE files'[k].closed
      OBVIOUS
    <3>1. k \in DOMAIN files' /\ k[2] <= checkpoint.barrier
      BY <1>1 DEF Committed
    <3>2. k # key
      BY <2>3, <3>1
    <3>3. k \in Committed /\ files'[k] = files[k]
      BY <2>4, <3>1, <3>2 DEF Committed
    <3> QED BY <3>3 DEF FileInv
  <2>10. \A k \in Uncommitted' : ~files'[k].closed
    BY <1>1, <2>4 DEF FileInv, Uncommitted
  <2> QED BY <1>1, <2>5, <2>6, <2>8, <2>9, <2>10 DEF FileInv
<1> QED BY <1>2, <1>3

\* A barrier covers closed files only (_Pass.commit).
LEMMA FilesInCommit ==
    ASSUME Inv, FileInv, Commit
    PROVE  FileInv'
<1>1. /\ pass.pc = "close" /\ Open = {} /\ UNCHANGED <<tape, files>>
      /\ checkpoint'.barrier = pass.barrier + 1
      /\ pass.barrier = checkpoint.barrier /\ checkpoint.barrier \in Nat
  BY DEF Commit, Inv, Shape, Resumed
<1>2. \A k \in DOMAIN files : k[2] \in Nat
  BY DEF Inv, Shape
<1>3. \A k \in Uncommitted : k[2] = pass.barrier + 1
  BY <1>1 DEF Inv, Ahead
<1>4. \A k \in DOMAIN files : k \in Committed \/ k \in Uncommitted
  BY <1>1, <1>2 DEF Committed, Uncommitted
<1>5. \A k \in Uncommitted : files[k].closed
  BY <1>1, <1>3 DEF Open, Uncommitted
<1>6. \A k \in Committed' : files'[k].closed
  BY <1>1, <1>4, <1>5 DEF FileInv, Committed
<1>7. Uncommitted' = {}
  BY <1>1, <1>2, <1>3 DEF Uncommitted
<1> QED BY <1>1, <1>6, <1>7 DEF FileInv

-----------------------------------------------------------------------------

\* A skipped row and a written one keep the balance.
LEMMA SkipBalances ==
    ASSUME NEW T, NEW R, NEW s \in States, NEW c, NEW t \in Tickers, Balanced(T, R, s),
           c.id = s.id + 1, c.seen = [s.seen EXCEPT ![t] = @ + 1],
           c.skipped = [s.skipped EXCEPT ![t] = @ + 1]
    PROVE  Balanced(T, R, c)
<1>1. s.id \in Nat /\ s.seen \in [Tickers -> Nat] /\ s.skipped \in [Tickers -> Nat]
  BY DEF States, Counts
<1>2. \A r \in R : r.id \in 1..c.id
  BY <1>1 DEF Balanced
<1>3. ASSUME NEW u \in Tickers
      PROVE  Cardinality(OfTicker(T, R, u)) + c.skipped[u] = c.seen[u]
  <2> DEFINE n == Cardinality(OfTicker(T, R, u))
  <2>1. IsFiniteSet(OfTicker(T, R, u))
    <3>1. IsFiniteSet(R) /\ OfTicker(T, R, u) \in SUBSET R
      BY DEF Balanced, OfTicker
    <3> QED BY <3>1, FS_Subset
  <2>2. n \in Nat /\ n + s.skipped[u] = s.seen[u]
    BY <2>1, FS_CardinalityType DEF Balanced
  <2> HIDE DEF n
  <2>3. c.skipped[u] = IF u = t THEN s.skipped[u] + 1 ELSE s.skipped[u]
    BY <1>1
  <2>4. c.seen[u] = IF u = t THEN s.seen[u] + 1 ELSE s.seen[u]
    BY <1>1
  <2>5. s.skipped[u] \in Nat /\ s.seen[u] \in Nat
    BY <1>1
  <2>6. n + c.skipped[u] = c.seen[u]
    BY <2>2, <2>3, <2>4, <2>5
  <2> QED BY <2>6 DEF n
<1> QED BY <1>2, <1>3 DEF Balanced

\* A row that is seen and written out keeps the counts in balance.
LEMMA WriteBalances ==
    ASSUME NEW T, NEW R, NEW s \in States, NEW c, NEW t \in Tickers, Balanced(T, R, s),
           c.id = s.id + 1, c.seen = [s.seen EXCEPT ![t] = @ + 1], c.skipped = s.skipped,
           NEW out, out.id = s.id + 1, T[out.id].ticker = t
    PROVE  Balanced(T, R \cup {out}, c)
<1>1. s.id \in Nat /\ s.seen \in [Tickers -> Nat] /\ s.skipped \in [Tickers -> Nat]
  BY DEF States, Counts
<1>2. \A r \in R \cup {out} : r.id \in 1..c.id
  BY <1>1 DEF Balanced
<1>3. IsFiniteSet(R \cup {out}) /\ IsFiniteSet(R) /\ out \notin R
  <2>1. IsFiniteSet(R) /\ \A r \in R : r.id # s.id + 1
    BY <1>1 DEF Balanced
  <2> QED BY <2>1, FS_AddElement
<1>4. ASSUME NEW u \in Tickers
      PROVE  Cardinality(OfTicker(T, R \cup {out}, u)) + c.skipped[u] = c.seen[u]
  <2> DEFINE A == OfTicker(T, R, u)
             B == OfTicker(T, R \cup {out}, u)
             n == Cardinality(A)
             m == Cardinality(B)
  <2>1. IsFiniteSet(A) /\ out \notin A
    <3>1. A \in SUBSET R
      BY DEF OfTicker
    <3> QED BY <1>3, <3>1, FS_Subset
  <2>2. B = IF u = t THEN A \cup {out} ELSE A
    BY DEF OfTicker
  <2>3. n + s.skipped[u] = s.seen[u]
    BY DEF Balanced
  <2> HIDE DEF A, B
  <2>4. n \in Nat /\ Cardinality(A \cup {out}) = n + 1
    BY <2>1, FS_CardinalityType, FS_AddElement
  <2>5. m = IF u = t THEN n + 1 ELSE n
    BY <2>2, <2>4
  <2>6. c.skipped[u] = s.skipped[u] /\ c.seen[u] = IF u = t THEN s.seen[u] + 1 ELSE s.seen[u]
    BY <1>1
  <2>7. s.skipped[u] \in Nat /\ s.seen[u] \in Nat
    BY <1>1
  <2> HIDE DEF n, m
  <2>8. m + c.skipped[u] = c.seen[u]
    BY <2>3, <2>4, <2>5, <2>6, <2>7
  <2> QED BY <2>8 DEF m, B
<1> QED BY <1>2, <1>3, <1>4 DEF Balanced

\* The rows that are accounted for stay where they are.
LEMMA CountUnderRecorder ==
    ASSUME Inv, RunInv, CountInv, Recorder
    PROVE  CountInv'
<1>1. UNCHANGED <<files, checkpoint, pass>> /\ UNCHANGED Artifact
  BY RecorderStep, QuietStep
<1>2. Grown(tape, gaps, tape', gaps') /\ WellFormed(tape, gaps)
  BY RecorderGrows DEF RunInv
<1>3. ASSUME NEW R, NEW s, Tracked(tape, gaps, s), Balanced(tape, R, s)
      PROVE  Balanced(tape', R, s)
  <2>1. \A r \in R : r.id \in 1..Len(tape)
    <3>1. Len(tape) \in Nat /\ s.id \in 0..Len(tape)
      BY <1>2, <1>3, LenProperties DEF WellFormed, Tracked, Sized
    <3> QED BY <1>3, <3>1 DEF Balanced
  <2>2. \A t : OfTicker(tape', R, t) = OfTicker(tape, R, t)
    BY <1>2, <2>1 DEF Grown, OfTicker
  <2> QED BY <1>3, <2>2 DEF Balanced
<1>4. Everything' = Everything
  BY <1>1 DEF Everything
<1>5. Balanced(tape', Artifact, checkpoint.state)
  BY <1>3 DEF CountInv, RunInv
<1>6. pass.pc \notin {"off", "sweep"} => Balanced(tape', Everything, pass.state)
  BY <1>3 DEF CountInv, RunInv
<1> QED BY <1>1, <1>4, <1>5, <1>6 DEF CountInv

\* Without a row and without a barrier nothing is counted.
LEMMA CountInQuiet ==
    ASSUME Inv, RunInv, FileInv, CountInv, Begin \/ Fetch \/ Sweep \/ CloseFile \/ Finish \/ Kill
    PROVE  CountInv'
<1>1. UNCHANGED tape /\ UNCHANGED <<checkpoint, Artifact>>
  BY QuietStep DEF Begin, Fetch, Sweep, CloseFile, Finish, Kill
<1>2. Balanced(tape', Artifact', checkpoint'.state)
  BY <1>1 DEF CountInv
<1>3. CASE Begin \/ Finish \/ Kill
  <2>0. Begin => pass'.pc = "sweep"
    <3> DEFINE lim == IF Pinned THEN Len(tape) ELSE MaxRows
    <3>1. Begin => pass' = [ pc |-> "sweep", limit |-> lim, read |-> Len(gaps),
                             barrier |-> checkpoint.barrier, state |-> checkpoint.state,
                             since |-> 0, fetched |-> 0, final |-> FALSE ]
      BY DEF Begin, Idle, Restored
    <3> QED BY <3>1
  <2>1. pass'.pc \in {"off", "sweep"}
    BY <1>3, <2>0 DEF Finish, Kill, Idle
  <2> QED BY <1>2, <2>1 DEF CountInv
<1>4. CASE Fetch
  <2>1. pass.pc = "read" /\ pass'.state = pass.state /\ UNCHANGED files
    BY <1>4 DEF Fetch, RunInv, Passes
  <2>2. Everything' = Everything
    BY <2>1 DEF Everything
  <2> QED BY <1>1, <1>2, <2>1, <2>2 DEF CountInv
<1>5. CASE Sweep
  <2>1. CASE Stale = {} /\ pass' = [pass EXCEPT !.pc = "read"] /\ UNCHANGED files
    <3>1. pass'.state = checkpoint.state
      BY <1>5, <2>1 DEF Sweep, RunInv, Passes
    <3>2. Everything' = Artifact
      <4>1. Committed = DOMAIN files
        BY <2>1 DEF Stale, Committed, Inv, Shape
      <4> QED BY <2>1, <4>1 DEF Everything, Artifact
    <3> QED BY <1>1, <1>2, <3>1, <3>2 DEF CountInv
  <2>2. CASE pass' = pass
    <3>1. pass'.pc = "sweep"
      BY <1>5, <2>2 DEF Sweep
    <3> QED BY <1>2, <3>1 DEF CountInv
  <2> QED BY <1>5, <2>1, <2>2 DEF Sweep
<1>6. CASE CloseFile
  <2>1. pass.pc = "close" /\ pass' = pass /\ DOMAIN files' = DOMAIN files
    BY <1>6 DEF CloseFile
  <2>2. \A k \in DOMAIN files : files'[k].rows = files[k].rows
    BY <1>6, CloseStep
  <2>3. Everything' = Everything
    BY <2>1, <2>2 DEF Everything
  <2> QED BY <1>1, <1>2, <2>1, <2>3 DEF CountInv
<1> QED BY <1>3, <1>4, <1>5, <1>6

\* A consumed row is written or skipped.
LEMMA CountInConsume ==
    ASSUME Inv, RunInv, FileInv, CountInv, Consume
    PROVE  CountInv'
<1> DEFINE id  == pass.state.id + 1
           row == tape[id]
           t   == row.ticker
           c   == Consumed(pass.state, pass.read, id)
           key == <<t, pass.barrier + 1>>
<1>1. pass.pc = "consume" /\ UNCHANGED <<tape, checkpoint, Artifact>> /\ pass'.state = c
  BY QuietStep DEF Consume, RunInv, Passes
<1>2. /\ id \in 1..Len(tape) /\ c.id = id
      /\ c.seen = [pass.state.seen EXCEPT ![t] = @ + 1]
      /\ Refused(pass.state, row) => c.skipped = [pass.state.skipped EXCEPT ![t] = @ + 1]
      /\ ~Refused(pass.state, row) => c.skipped = pass.state.skipped
  BY <1>1, RowConsumed
<1>3. t \in Tickers /\ pass.state \in States
  BY <1>2, RowFacts DEF RunInv, Passes
<1>4. Balanced(tape, Everything, pass.state)
  BY <1>1 DEF CountInv
<1>5. Balanced(tape, Everything', c)
  <2>1. CASE Refused(pass.state, row)
    <3>1. Everything' = Everything
      BY <2>1, RowEmitted DEF Everything
    <3> HIDE DEF c, t
    <3> QED BY <1>2, <1>3, <1>4, <2>1, <3>1, SkipBalances
  <2>2. CASE ~Refused(pass.state, row)
    <3>1. PICK out \in Out : \E old \in SUBSET Out :
            /\ out.id = id /\ Right(tape, t, out)
            /\ old = IF key \in DOMAIN files THEN files[key].rows ELSE {}
            /\ files' = [k \in DOMAIN files \cup {key} |->
                           IF k = key THEN [rows |-> old \cup {out}, closed |-> FALSE]
                           ELSE files[k]]
      BY <2>2, RowEmitted
    <3>2. PICK old \in SUBSET Out :
            /\ old = IF key \in DOMAIN files THEN files[key].rows ELSE {}
            /\ files' = [k \in DOMAIN files \cup {key} |->
                           IF k = key THEN [rows |-> old \cup {out}, closed |-> FALSE]
                           ELSE files[k]]
      BY <3>1
    <3> HIDE DEF c, t, key
    <3>3. Everything' = Everything \cup {out}
      <4>1. DOMAIN files' = DOMAIN files \cup {key}
        BY <3>2
      <4>2. files'[key].rows = old \cup {out} /\ \A k \in DOMAIN files \ {key} : files'[k] = files[k]
        BY <3>2
      <4>3. Everything' \subseteq Everything \cup {out}
        <5> SUFFICES ASSUME NEW r \in Everything' PROVE r \in Everything \cup {out}
          OBVIOUS
        <5>1. PICK k \in DOMAIN files' : r \in files'[k].rows
          BY DEF Everything
        <5>2. CASE k = key
          BY <3>2, <4>2, <5>1, <5>2 DEF Everything
        <5>3. CASE k # key
          BY <4>1, <4>2, <5>1, <5>3 DEF Everything
        <5> QED BY <5>2, <5>3
      <4>4. Everything \cup {out} \subseteq Everything'
        <5>1. out \in Everything'
          BY <4>1, <4>2 DEF Everything
        <5>2. ASSUME NEW r \in Everything PROVE r \in Everything'
          <6>1. PICK k \in DOMAIN files : r \in files[k].rows
            BY DEF Everything
          <6>2. r \in files'[k].rows
            BY <3>2, <4>2, <6>1
          <6> QED BY <4>1, <6>2 DEF Everything
        <5> QED BY <5>1, <5>2
      <4> QED BY <4>3, <4>4
    <3>4. tape[out.id].ticker = t
      BY <3>1 DEF Right
    <3> QED BY <1>2, <1>3, <1>4, <2>2, <3>1, <3>3, <3>4, WriteBalances
  <2> QED BY <2>1, <2>2
<1>6. Balanced(tape, Artifact, checkpoint.state)
  BY DEF CountInv
<1> HIDE DEF c
<1> QED BY <1>1, <1>5, <1>6 DEF CountInv

\* A barrier makes everything that was written the artifact.
LEMMA CountInCommit ==
    ASSUME Inv, RunInv, CountInv, Commit
    PROVE  CountInv'
<1>1. /\ pass.pc = "close" /\ UNCHANGED <<tape, files>>
      /\ checkpoint' = [barrier |-> pass.barrier + 1, state |-> pass.state]
      /\ pass'.state = pass.state
      /\ pass.barrier = checkpoint.barrier /\ checkpoint.barrier \in Nat
  BY DEF Commit, Inv, Shape, Resumed
<1>2. \A k \in DOMAIN files : k[2] \in Nat
  BY DEF Inv, Shape
<1>3. \A k \in Uncommitted : k[2] = pass.barrier + 1
  BY <1>1 DEF Inv, Ahead
<1>4. Committed' = DOMAIN files
  BY <1>1, <1>2, <1>3 DEF Committed, Uncommitted
<1>5. Artifact' = Everything /\ Everything' = Everything
  BY <1>1, <1>4 DEF Artifact, Everything
<1>6. Balanced(tape, Everything, pass.state)
  BY <1>1 DEF CountInv
<1> QED BY <1>1, <1>5, <1>6 DEF CountInv

-----------------------------------------------------------------------------

\* No rows, no files, nothing counted.
LEMMA PassStarts == Init => PassInv
<1> SUFFICES ASSUME Init PROVE PassInv
  OBVIOUS
<1>1. Inv /\ RunInv
  BY Initially, RunStarts
<1>2. DOMAIN files = {} /\ pass.pc = "off" /\ checkpoint.state = Start
  BY DEF Init, Idle, NoCheckpoint
<1>3. FileInv
  BY <1>2 DEF FileInv, Committed
<1>4. Artifact = {}
  BY <1>2 DEF Artifact, Committed
<1>5. Balanced(tape, {}, Start)
  <2>1. \A t : OfTicker(tape, {}, t) = {}
    BY DEF OfTicker
  <2> QED BY <2>1, FS_EmptySet DEF Balanced, Start
<1> QED BY <1>1, <1>2, <1>3, <1>4, <1>5 DEF PassInv, CountInv

\* One step per action.
LEMMA PassStep == PassInv /\ [Next]_vars => PassInv'
<1> SUFFICES ASSUME PassInv, [Next]_vars PROVE PassInv'
  OBVIOUS
<1>0. Inv /\ RunInv /\ FileInv /\ CountInv /\ Inv'
  BY StepImplements DEF PassInv
<1>1. CASE Recorder
  BY <1>0, <1>1, RunUnderRecorder, FilesUnderRecorder, CountUnderRecorder DEF PassInv
<1>2. CASE Begin
  BY <1>0, <1>2, RunBegins, FilesInQuiet, CountInQuiet DEF PassInv
<1>3. CASE Sweep
  BY <1>0, <1>3, RunSweeps, FilesInQuiet, CountInQuiet DEF PassInv
<1>4. CASE Fetch
  BY <1>0, <1>4, RunFetches, FilesInQuiet, CountInQuiet DEF PassInv
<1>5. CASE Consume
  BY <1>0, <1>5, RunConsumes, FilesInConsume, CountInConsume DEF PassInv
<1>6. CASE CloseFile
  BY <1>0, <1>6, RunSweeps, FilesInQuiet, CountInQuiet DEF PassInv
<1>7. CASE Commit
  BY <1>0, <1>7, RunCommits, FilesInCommit, CountInCommit DEF PassInv
<1>8. CASE Finish \/ Kill
  BY <1>0, <1>8, RunEnds, FilesInQuiet, CountInQuiet DEF PassInv
<1>9. CASE UNCHANGED vars
  <2>1. RunInv'
    BY <1>0, <1>9 DEF vars, RunInv, Bounds
  <2>2. FileInv'
    BY <1>0, <1>9 DEF vars, FileInv, Committed, Uncommitted
  <2>3. CountInv'
    BY <1>0, <1>9 DEF vars, CountInv, Artifact, Committed, Everything
  <2> QED BY <1>0, <2>1, <2>2, <2>3 DEF PassInv
<1> QED BY <1>1, <1>2, <1>3, <1>4, <1>5, <1>6, <1>7, <1>8, <1>9 DEF Next

\* What a pass knows at a row is a state that is well formed.
LEMMA StateIsWellFormed ==
    ASSUME WellFormed(tape, gaps), NEW s, Tracked(tape, gaps, s)
    PROVE  StateOK(s)
<1> DEFINE n == Len(s.ladders)
           f == [i \in 1..n |-> s.ladders[i].ticker]
<1>1. /\ s \in States /\ s.id \in 0..Len(tape) /\ s.poisoned \cap Books(s) = {}
      /\ DOMAIN s.edges \subseteq DOMAIN gaps /\ (Ceiling # 0 => n <= Ceiling)
  BY DEF Tracked, Sized
<1>2. /\ s.ladders \in Seq(Ladder) /\ s.poisoned \subseteq Tickers /\ s.last \in Nat
      /\ s.skipped \in [Tickers -> Nat] /\ s.seen \in [Tickers -> Nat]
  BY <1>1 DEF States, Counts
<1>3. n \in Nat /\ DOMAIN s.ladders = 1..n
  BY <1>2, LenProperties
<1>4. Cardinality(Books(s)) = n
  <2>1. f \in Bijection(1..n, Books(s))
    <3>1. \A i, j \in 1..n : f[i] = f[j] => i = j
      BY <1>3 DEF Tracked, Sized
    <3>2. f \in [1..n -> Books(s)]
      BY <1>3 DEF Books
    <3>3. \A t \in Books(s) : \E i \in 1..n : f[i] = t
      BY <1>3 DEF Books
    <3> HIDE DEF f
    <3> QED BY <3>1, <3>2, <3>3 DEF Bijection, Injection, Surjection, IsInjective
  <2> HIDE DEF f, n
  <2> QED BY <1>3, <2>1, FS_CountingElements DEF ExistsBijection
<1> QED BY <1>1, <1>2, <1>4 DEF StateOK

\* The replay of the model is the book of the proof.
LEMMA ReplayIsBook ==
    ASSUME NEW t, NEW id
    PROVE  Replayed(t, id) = BookOn(tape, t, id)
<1>1. Governing(t, id) = StampOf(tape, t, id)
  BY DEF Governing, StampOf, SnapsOf
<1> QED BY <1>1 DEF Replayed, BookOn, RowsOf

\* The invariant implies what the run checks.
LEMMA RowsMatch == PassInv => CommittedRowsMatchTheTape
<1> SUFFICES ASSUME PassInv, NEW k \in Committed
             PROVE  /\ files[k].closed
                    /\ \A r \in files[k].rows :
                          tape[r.id].ticker = k[1] /\ r.levels = Replayed(k[1], r.id)
  BY DEF CommittedRowsMatchTheTape
<1>1. files[k].closed /\ \A r \in files[k].rows : Right(tape, k[1], r)
  BY DEF PassInv, FileInv, Committed
<1> QED BY <1>1, ReplayIsBook DEF Right

\* The invariant says what becomes of every row of the tape.
LEMMA RowsAreCounted == PassInv => EveryRowIsAccountedFor
<1> SUFFICES ASSUME PassInv PROVE EveryRowIsAccountedFor
  OBVIOUS
<1>1. /\ WellFormed(tape, gaps) /\ pass \in Passes
      /\ Tracked(tape, gaps, checkpoint.state) /\ Tracked(tape, gaps, pass.state)
      /\ pass.read <= Len(gaps) /\ pass.fetched <= Len(tape) /\ pass.since <= BarrierRows
      /\ checkpoint.barrier \in Nat
  BY DEF PassInv, RunInv
<1>2. TypeOK
  <2>1. StateOK(checkpoint.state) /\ StateOK(pass.state)
    BY <1>1, StateIsWellFormed
  <2>2. DOMAIN files \subseteq Tickers \X Nat
        /\ \A k \in DOMAIN files : files[k] \in [rows : SUBSET Out, closed : BOOLEAN]
    BY DEF PassInv, FileInv
  <2>3. Len(tape) \in Nat /\ Len(gaps) \in Nat /\ BarrierRows \in Nat
    <3>1. BarrierRows \in Nat
      BY PassAssumption
    <3> QED BY <1>1, <3>1, LenProperties DEF WellFormed
  <2>4. /\ pass.since \in Nat /\ pass.fetched \in Nat /\ pass.read \in Nat
        /\ pass.barrier \in Nat /\ pass.final \in BOOLEAN
        /\ pass.pc \in {"off", "sweep", "read", "consume", "close", "done"}
    BY <1>1 DEF Passes
  <2>5. pass.since \in 0..BarrierRows /\ pass.fetched \in 0..Len(tape) /\ pass.read \in 0..Len(gaps)
    BY <1>1, <2>3, <2>4
  <2> QED BY <1>1, <2>1, <2>2, <2>4, <2>5 DEF TypeOK, WellFormed
<1>3. ASSUME NEW t \in Tickers
      PROVE  /\ Cardinality({r \in Artifact : tape[r.id].ticker = t})
                  + checkpoint.state.skipped[t] = checkpoint.state.seen[t]
             /\ checkpoint.state.seen[t]
                  = Cardinality({i \in 1..checkpoint.state.id : tape[i].ticker = t})
  <2>1. Cardinality(OfTicker(tape, Artifact, t)) + checkpoint.state.skipped[t]
          = checkpoint.state.seen[t]
    BY DEF PassInv, CountInv, Balanced
  <2>2. checkpoint.state.seen[t] = Cardinality(About(tape, t, checkpoint.state.id))
    BY <1>1 DEF Tracked, Counting
  <2> QED BY <2>1, <2>2 DEF OfTicker, About
<1> QED BY <1>2, <1>3 DEF EveryRowIsAccountedFor

\* A bounded pass has read every gap row that a row of its comes after.
LEMMA WindowsAreRight == Pinned /\ PassInv => WindowsBracketTheirGaps
<1> SUFFICES ASSUME Pinned, PassInv, pass.pc = "done", NEW g \in DOMAIN gaps
             PROVE  LET read   == {tape[i].at : i \in 1..pass.state.id}
                        before == {a \in read : a < gaps[g].at}
                        after  == {a \in read : a > gaps[g].at}
                    IN  /\ after # {} => g <= pass.read
                        /\ g <= pass.read =>
                             Window(g) = [start |-> Max(before \cup {0}),
                                          end   |-> IF after = {} THEN 0 ELSE Min(after)]
  BY DEF WindowsBracketTheirGaps
<1> DEFINE s      == pass.state
           at     == gaps[g].at
           read   == {tape[i].at : i \in 1..s.id}
           before == {a \in read : a < at}
           after  == {a \in read : a > at}
<1>1. /\ WellFormed(tape, gaps) /\ pass \in Passes /\ Bounds
      /\ Sized(tape, gaps, s) /\ Latest(tape, s) /\ Bracketed(tape, gaps, s)
  BY DEF PassInv, RunInv, Tracked
<1>2. /\ Len(tape) \in Nat /\ Len(gaps) \in Nat /\ DOMAIN gaps = 1..Len(gaps)
      /\ DOMAIN tape = 1..Len(tape)
  BY <1>1, LenProperties DEF WellFormed
<1>3. s.id \in 0..Len(tape) /\ s \in States /\ DOMAIN s.edges \subseteq DOMAIN gaps
  BY <1>1 DEF Sized
<1>4. \A i \in 1..s.id : i \in 1..Len(tape) /\ tape[i].at \in Nat /\ tape[i].at # at
  <2>1. \A i \in 1..s.id : i \in 1..Len(tape)
    BY <1>2, <1>3
  <2>2. \A i \in 1..s.id : tape[i].at \in Nat
    BY <1>1, <2>1, RowFacts
  <2>3. \A i \in 1..s.id : tape[i].at # at
    BY <1>1, <1>2, <2>1 DEF WellFormed
  <2> QED BY <2>1, <2>2, <2>3
<1>5. at \in Nat /\ at > 0 /\ pass.read \in Nat /\ g \in 1..Len(gaps)
  <2>1. gaps[g] \in Gap
    BY <1>1, <1>2, ElementOfSeq DEF WellFormed
  <2> QED BY <1>1, <1>2, <2>1 DEF WellFormed, Gap, Passes
<1>6. before \cup {0} \in SUBSET Int /\ after \in SUBSET Int
  BY <1>4
<1>7. after # {} => g <= pass.read
  <2> SUFFICES ASSUME g > pass.read PROVE after = {}
    BY <1>2, <1>5
  <2>1. \A i \in 1..pass.limit : tape[i].at < at
    BY <1>1, <1>5 DEF Bounds
  <2>2. \A i \in 1..s.id : i \in 1..pass.limit
    <3>1. s.id <= pass.limit /\ pass.limit \in Nat
      BY <1>1 DEF Bounds, Passes
    <3> QED BY <1>3, <3>1
  <2> QED BY <1>4, <1>5, <2>1, <2>2
<1>8. CASE g \in DOMAIN s.edges
  <2> DEFINE e == s.edges[g]
  <2>1. Frames(e, tape, s.id, at)
    BY <1>1, <1>8 DEF Bracketed
  <2>2. e = [start |-> e.start, end |-> e.end]
    <3>1. PICK D \in SUBSET Nat : s.edges \in [D -> Edge]
      BY <1>3 DEF States, Edges
    <3>2. e \in Edge
      BY <1>8, <3>1
    <3> HIDE DEF e
    <3> QED BY <3>2 DEF Edge
  <2> HIDE DEF e
  <2>3. e.start \in before \cup {0} /\ \A x \in before \cup {0} : x <= e.start
    <3>1. e.start \in read \cup {0} /\ e.start < at
      BY <2>1 DEF Frames
    <3>2. \A x \in before : x <= e.start
      BY <2>1 DEF Frames
    <3>3. e.start \in Nat
      BY <1>4, <3>1
    <3> QED BY <3>1, <3>2, <3>3
  <2>4. e.end \in after /\ \A x \in after : e.end <= x
    <3>1. e.end \in read /\ e.end > at
      BY <2>1 DEF Frames
    <3>2. \A x \in after : x >= e.end
      BY <2>1 DEF Frames
    <3> QED BY <3>1, <3>2
  <2> HIDE DEF before, after
  <2>5. Max(before \cup {0}) = e.start /\ Min(after) = e.end /\ after # {}
    BY <1>6, <2>3, <2>4, MaxIs, MinIs
  <2>6. Window(g) = e
    BY <1>8 DEF Window, e
  <2> QED BY <1>7, <2>2, <2>5, <2>6 DEF before, after
<1>9. CASE g \notin DOMAIN s.edges
  <2>1. after = {}
    BY <1>1, <1>9 DEF Bracketed
  <2>2. s.last \in before \cup {0} /\ \A x \in before \cup {0} : x <= s.last
    <3>1. CASE s.id = 0
      BY <1>1, <3>1 DEF Latest
    <3>2. CASE s.id # 0
      <4>1. s.last = tape[s.id].at /\ s.id \in 1..s.id
        BY <1>1, <1>2, <1>3, <3>2 DEF Latest
      <4>2. s.last \in Nat /\ s.last < at
        <5>1. ~(tape[s.id].at > at) /\ tape[s.id].at \in Nat /\ tape[s.id].at # at
          BY <1>4, <2>1, <4>1
        <5> QED BY <1>5, <4>1, <5>1
      <4>3. \A i \in 1..s.id : tape[i].at <= s.last
        <5>1. \A i \in 1..s.id : i \in DOMAIN tape /\ s.id \in DOMAIN tape /\ i <= s.id
          BY <1>2, <1>4, <4>1
        <5> QED BY <1>1, <4>1, <5>1 DEF WellFormed
      <4> QED BY <4>1, <4>2, <4>3
    <3> QED BY <3>1, <3>2
  <2> HIDE DEF before
  <2>3. Max(before \cup {0}) = s.last
    BY <1>6, <2>2, MaxIs
  <2>4. Window(g) = [start |-> s.last, end |-> 0]
    BY <1>9 DEF Window
  <2> QED BY <2>1, <2>3, <2>4 DEF before
<1> QED BY <1>8, <1>9

(* For any tape, barrier, batch and ceiling, and wherever passes are killed: *)
(* every committed row is the book at its id (compare_points).               *)
THEOREM CommittedRowsAreTheBook == Spec => []CommittedRowsMatchTheTape
BY PassStarts, PassStep, RowsMatch, PTL DEF Spec

(* For any tape, barrier, batch and ceiling: every row below the checkpoint  *)
(* is on the artifact once or counted as skipped (_Pass.restore).            *)
THEOREM RowsAreAccountedFor == Spec => []EveryRowIsAccountedFor
BY PassStarts, PassStep, RowsAreCounted, PTL DEF Spec

(* The windows of a pass that is bounded to the tape it began with bracket   *)
(* their gaps (ExclusionInventory.observe); without the bound they may not,  *)
(* as the growing run shows.                                                 *)
THEOREM WindowsOfBoundedPasses ==
    ASSUME Pinned
    PROVE  Spec => []WindowsBracketTheirGaps
<1>1. PassInv => WindowsBracketTheirGaps
  BY WindowsAreRight
<1> QED BY <1>1, PassStarts, PassStep, PTL DEF Spec
=============================================================================

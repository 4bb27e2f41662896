----------------------------- MODULE ForwardPass ------------------------------
(***************************************************************************)
(* The forward pass over ws_book_events (bot/replay/forward_pass.py): one  *)
(* scan that carries a ladder per ticker and writes a row per book event,  *)
(* with a barrier every BarrierRows rows.  A barrier closes the partition  *)
(* files and then replaces the checkpoint; a pass that is killed resumes   *)
(* from the checkpoint and drops the files of the barrier it was writing.  *)
(* The recorder goes on appending to the tape meanwhile.                   *)
(*                                                                         *)
(* Ids are positions of the tape.  Stamps are drawn from one clock that    *)
(* only moves forward; the rows of one message share its stamp.            *)
(***************************************************************************)
EXTENDS Integers, Sequences, FiniteSets, FiniteSetsExt, Functions, SequencesExt

CONSTANTS
    Tickers,
    ALL,           \* the empty ticker of a gap row
    Levels,        \* the prices of a side
    MaxSize,       \* bound on the size of a level
    BarrierRows,   \* BARRIER_ROWS
    ReadBatch,     \* READ_BATCH_ROWS
    Ceiling,       \* max_resident_ladders; 0 for none
    Pinned,        \* --max-id is the last id on the tape when the pass starts
    MaxRows,       \* bound on the tape
    MaxGaps,       \* bound on the gap rows
    MaxKills       \* bound on the passes that die

ASSUME PassAssumption ==
    /\ ALL \notin Tickers /\ IsFiniteSet(Levels)
    /\ {MaxSize, BarrierRows, ReadBatch} \subseteq Nat \ {0}
    /\ {Ceiling, MaxRows, MaxGaps, MaxKills} \subseteq Nat
    /\ Pinned \in BOOLEAN

VARIABLES
    tape,        \* ws_book_events
    gaps,        \* ws_gaps, ordered by detected_at
    files,       \* the parquet files, by partition and barrier
    checkpoint,  \* checkpoint.json
    pass,        \* the process
    kills        \* history: how many passes died

vars == <<tape, gaps, files, checkpoint, pass, kills>>

Row    == [ticker : Tickers, snap : BOOLEAN, at : Nat, level : Levels, size : Int]
Gap    == [ticker : Tickers \cup {ALL}, at : Nat]
Book   == [Levels -> Int]
Ladder == [ticker : Tickers, levels : Book, key : Nat]
Out    == [id : Nat, levels : Book]

NoLevels == [l \in Levels |-> 0]

\* What a checkpoint carries besides the barrier: the id, the ladders in the
\* order of the dict, the poisoned tickers, and the accumulators.
Start == [ id       |-> 0,
           ladders  |-> <<>>,
           poisoned |-> {},
           skipped  |-> [t \in Tickers |-> 0],    \* poisoned_rows
           seen     |-> [t \in Tickers |-> 0],    \* TickerInventory
           edges    |-> <<>>,                     \* ExclusionInventory
           last     |-> 0 ]

NoCheckpoint == [barrier |-> 0, state |-> Start]

Idle == [ pc |-> "off", limit |-> 0, read |-> 0, barrier |-> 0, state |-> Start,
          since |-> 0, fetched |-> 0, final |-> FALSE ]

Init ==
    /\ tape = <<>> /\ gaps = <<>>
    /\ files = <<>>
    /\ checkpoint = NoCheckpoint
    /\ pass = Idle
    /\ kills = 0

-----------------------------------------------------------------------------
(***************************************************************************)
(* The recorder                                                            *)
(***************************************************************************)

Stamps == {tape[i].at : i \in DOMAIN tape} \cup {gaps[g].at : g \in DOMAIN gaps}
Now    == Max(Stamps \cup {0}) + 1

\* The book of a ticker that the rows up to an id replay to: the snapshot
\* message that governs, then the deltas after it.
Governing(t, id) ==
    Max({tape[i].at : i \in {j \in 1..id : tape[j].ticker = t /\ tape[j].snap}} \cup {0})

Replayed(t, id) ==
    LET from == Governing(t, id)
        counted(l) == {i \in 1..id : /\ tape[i].ticker = t /\ tape[i].level = l
                                     /\ IF tape[i].snap THEN tape[i].at = from
                                                        ELSE tape[i].at > from}
    IN  [l \in Levels |-> SumFunction([i \in counted(l) |-> tape[i].size])]

\* A snapshot is one message of a row per level, in the venue's order.
RecordSnapshot(t) ==
    \E b \in [Levels -> 0..MaxSize] :
        LET full == {l \in Levels : b[l] > 0}
            rows == {[ticker |-> t, snap |-> TRUE, at |-> Now, level |-> l, size |-> b[l]] :
                       l \in full}
        IN  /\ full # {} /\ Len(tape) + Cardinality(full) <= MaxRows
            /\ \E ordered \in SetToSeqs(rows) : tape' = tape \o ordered
            /\ UNCHANGED <<gaps, files, checkpoint, pass, kills>>

\* The recorded deltas never take a level below zero.
RecordDelta(t) ==
    \E l \in Levels, d \in -MaxSize..MaxSize :
        /\ d # 0 /\ Replayed(t, Len(tape))[l] + d \in 0..MaxSize
        /\ Len(tape) < MaxRows
        /\ tape' = Append(tape, [ticker |-> t, snap |-> FALSE, at |-> Now,
                                 level |-> l, size |-> d])
        /\ UNCHANGED <<gaps, files, checkpoint, pass, kills>>

RecordGap ==
    /\ Len(gaps) < MaxGaps
    /\ gaps' = Append(gaps, [ticker |-> ALL, at |-> Now])
    /\ UNCHANGED <<tape, files, checkpoint, pass, kills>>

-----------------------------------------------------------------------------
(***************************************************************************)
(* One row: the accumulators, the ladder and the emitters                  *)
(***************************************************************************)

\* ExclusionInventory: the gap rows it read that have no window yet and do
\* not come after the row get the row before it and the row as their edges.
Passed(s, read, row) ==
    {g \in 1..read : g \notin DOMAIN s.edges /\ gaps[g].at <= row.at}

\* Mutant: the row replaces the last one before the windows are cut.
ObservedLate(s, read, row) ==
    LET edge == [start |-> row.at, end |-> row.at]
    IN  [s EXCEPT !.seen[row.ticker] = @ + 1,
                  !.edges = [g \in DOMAIN @ \cup Passed(s, read, row) |->
                               IF g \in DOMAIN @ THEN @[g] ELSE edge],
                  !.last = row.at]

Observed(s, read, row) ==
    LET edge == [start |-> s.last, end |-> row.at]
    IN  [s EXCEPT !.seen[row.ticker] = @ + 1,
                  !.edges = [g \in DOMAIN @ \cup Passed(s, read, row) |->
                               IF g \in DOMAIN @ THEN @[g] ELSE edge],
                  !.last = row.at]

\* Ladder.apply: the first row of a snapshot message clears the book.
Applied(ladder, row) ==
    IF ~row.snap THEN [ladder EXCEPT !.levels[row.level] = @ + row.size]
    ELSE [ladder EXCEPT
            !.key = row.at,
            !.levels = [IF ladder.key = row.at THEN @ ELSE NoLevels
                          EXCEPT ![row.level] = row.size]]

Resident(s, t) == \E i \in DOMAIN s.ladders : s.ladders[i].ticker = t
PlaceOf(s, t)  == CHOOSE i \in DOMAIN s.ladders : s.ladders[i].ticker = t
LadderOf(s, t) == s.ladders[PlaceOf(s, t)]

\* The first ladder of the dict makes room.
Evicted(s) ==
    [s EXCEPT !.ladders  = Tail(@),
              !.poisoned = @ \cup {Head(s.ladders).ticker}]

\* Not resident: a new ladder, at the end. Resident: applied in its place,
\* or moved to the end when the ladders are bounded.
Admitted(s, t) ==
    IF Resident(s, t)
    THEN IF Ceiling = 0 THEN s
         ELSE [s EXCEPT !.ladders =
                 Append(RemoveAt(@, PlaceOf(s, t)), LadderOf(s, t))]
    ELSE LET room == IF Ceiling # 0 /\ Len(s.ladders) >= Ceiling THEN Evicted(s) ELSE s
         IN  [room EXCEPT !.ladders =
                Append(@, [ticker |-> t, levels |-> NoLevels, key |-> 0])]

\* A poisoned ticker waits for a snapshot.
Refused(s, row) == row.ticker \in s.poisoned /\ ~row.snap

\* _Pass._ladder
Laddered(s, row) ==
    IF Refused(s, row) THEN [s EXCEPT !.skipped[row.ticker] = @ + 1]
    ELSE LET open == Admitted([s EXCEPT !.poisoned = @ \ {row.ticker}], row.ticker)
         IN  [open EXCEPT !.ladders = [i \in DOMAIN @ |->
                IF @[i].ticker = row.ticker THEN Applied(@[i], row) ELSE @[i]]]

Consumed(s, read, id) ==
    [Laddered(Observed(s, read, tape[id]), tape[id]) EXCEPT !.id = id]

\* The row goes to the file of its partition and of the next barrier, which
\* the first row opens.
Emitted(fs, before, after, barrier, id) ==
    LET t   == tape[id].ticker
        key == <<t, barrier + 1>>
        out == [id |-> id, levels |-> LadderOf(after, t).levels]
        old == IF key \in DOMAIN fs /\ ~fs[key].closed THEN fs[key].rows ELSE {}
    IN  IF Refused(before, tape[id]) THEN fs
        ELSE [k \in DOMAIN fs \cup {key} |->
                IF k = key THEN [rows |-> old \cup {out}, closed |-> FALSE] ELSE fs[k]]

-----------------------------------------------------------------------------
(***************************************************************************)
(* The process                                                             *)
(***************************************************************************)

\* Mutant: the files of the checkpoint's own barrier go too.
StaleFromBarrier == {k \in DOMAIN files : k[2] >= checkpoint.barrier}

\* The files stamped above the barrier of the checkpoint.
Stale == {k \in DOMAIN files : k[2] > checkpoint.barrier}

\* Mutant: the ladders come back without their batch keys.
RestoredWithoutKeys ==
    [checkpoint.state EXCEPT !.ladders = [i \in DOMAIN @ |-> [@[i] EXCEPT !.key = 0]]]

Restored == checkpoint.state

\* read_gap_rows, then the checkpoint.
Begin ==
    /\ pass.pc = "off"
    /\ pass' = [Idle EXCEPT !.pc      = "sweep",
                            !.limit   = IF Pinned THEN Len(tape) ELSE MaxRows,
                            !.read    = Len(gaps),
                            !.barrier = checkpoint.barrier,
                            !.state   = Restored]
    /\ UNCHANGED <<tape, gaps, files, checkpoint, kills>>

Sweep ==
    /\ pass.pc = "sweep"
    /\ IF Stale = {}
       THEN pass' = [pass EXCEPT !.pc = "read"] /\ UNCHANGED files
       ELSE \E k \in Stale :
              /\ files' = [f \in DOMAIN files \ {k} |-> files[f]]
              /\ UNCHANGED pass
    /\ UNCHANGED <<tape, gaps, checkpoint, kills>>

\* One statement reads the next batch; an empty one ends the scan.
Fetch ==
    /\ pass.pc = "read"
    /\ LET to == Min({pass.state.id + ReadBatch, pass.limit, Len(tape)})
       IN  pass' = IF to > pass.state.id
                   THEN [pass EXCEPT !.pc = "consume", !.fetched = to]
                   ELSE [pass EXCEPT !.pc = IF pass.since > 0 THEN "close" ELSE "done",
                                     !.final = TRUE]
    /\ UNCHANGED <<tape, gaps, files, checkpoint, kills>>

Consume ==
    /\ pass.pc = "consume"
    /\ LET id   == pass.state.id + 1
           s    == Consumed(pass.state, pass.read, id)
           next == IF pass.since + 1 = BarrierRows THEN "close"
                   ELSE IF id = pass.fetched THEN "read" ELSE "consume"
       IN  /\ pass' = [pass EXCEPT !.state = s, !.since = @ + 1, !.pc = next]
           /\ files' = Emitted(files, pass.state, s, pass.barrier, id)
    /\ UNCHANGED <<tape, gaps, checkpoint, kills>>

Open == {k \in DOMAIN files : k[2] = pass.barrier + 1 /\ ~files[k].closed}

CloseFile ==
    /\ pass.pc = "close"
    /\ \E k \in Open : files' = [files EXCEPT ![k].closed = TRUE]
    /\ UNCHANGED <<tape, gaps, checkpoint, pass, kills>>

\* Mutant: the barrier number stays, and the next file replaces the last.
CommitSameBarrier ==
    /\ pass.pc = "close" /\ Open = {}
    /\ checkpoint' = [barrier |-> pass.barrier + 1, state |-> pass.state]
    /\ pass' = [pass EXCEPT !.since = 0,
                            !.pc = IF pass.final THEN "done"
                                   ELSE IF pass.state.id = pass.fetched THEN "read"
                                   ELSE "consume"]
    /\ UNCHANGED <<tape, gaps, files, kills>>

\* The checkpoint replaces the one before, in one rename.
Commit ==
    /\ pass.pc = "close" /\ Open = {}
    /\ checkpoint' = [barrier |-> pass.barrier + 1, state |-> pass.state]
    /\ pass' = [pass EXCEPT !.barrier = @ + 1, !.since = 0,
                            !.pc = IF pass.final THEN "done"
                                   ELSE IF pass.state.id = pass.fetched THEN "read"
                                   ELSE "consume"]
    /\ UNCHANGED <<tape, gaps, files, kills>>

\* The inventory is written and the process ends; a later one goes on.
Finish ==
    /\ pass.pc = "done"
    /\ pass' = Idle
    /\ UNCHANGED <<tape, gaps, files, checkpoint, kills>>

\* The process is killed, or an exception (BudgetExceeded, a failed read)
\* ends it.
Kill ==
    /\ pass.pc \in {"sweep", "read", "consume", "close"} /\ kills < MaxKills
    /\ pass' = Idle
    /\ kills' = kills + 1
    /\ UNCHANGED <<tape, gaps, files, checkpoint>>

Recorder == (\E t \in Tickers : RecordSnapshot(t) \/ RecordDelta(t)) \/ RecordGap

Next ==
    \/ Recorder
    \/ Begin \/ Sweep \/ Fetch \/ Consume \/ CloseFile \/ Commit \/ Finish
    \/ Kill

Spec == Init /\ [][Next]_vars

-----------------------------------------------------------------------------

Books(s) == {s.ladders[i].ticker : i \in DOMAIN s.ladders}

StateOK(s) ==
    /\ s.id \in 0..Len(tape)
    /\ s.ladders \in Seq(Ladder) /\ Cardinality(Books(s)) = Len(s.ladders)
    /\ Ceiling # 0 => Len(s.ladders) <= Ceiling
    /\ s.poisoned \subseteq Tickers \ Books(s)
    /\ {s.skipped, s.seen} \subseteq [Tickers -> Nat]
    /\ DOMAIN s.edges \subseteq DOMAIN gaps
    /\ s.last \in Nat

TypeOK ==
    /\ tape \in Seq(Row) /\ gaps \in Seq(Gap)
    /\ DOMAIN files \subseteq Tickers \X Nat
    /\ \A k \in DOMAIN files :
          files[k].rows \subseteq Out /\ files[k].closed \in BOOLEAN
    /\ checkpoint.barrier \in Nat /\ StateOK(checkpoint.state)
    /\ pass.pc \in {"off", "sweep", "read", "consume", "close", "done"}
    /\ StateOK(pass.state) /\ pass.barrier \in Nat
    /\ pass.since \in 0..BarrierRows /\ pass.final \in BOOLEAN
    /\ pass.fetched \in 0..Len(tape) /\ pass.read \in 0..Len(gaps)

Committed == {k \in DOMAIN files : k[2] <= checkpoint.barrier}
Artifact  == UNION {files[k].rows : k \in Committed}

(* Every file that a checkpoint covers is closed, and each of its rows holds *)
(* the book that the tape replays to at the row's id, whatever was evicted,  *)
(* poisoned, killed in the middle of a snapshot message and resumed: what    *)
(* the parity check samples (bot/replay/parity.py, compare_points).          *)
CommittedRowsMatchTheTape ==
    \A k \in Committed :
        /\ files[k].closed
        /\ \A r \in files[k].rows :
              tape[r.id].ticker = k[1] /\ r.levels = Replayed(k[1], r.id)

(* Up to the checkpoint every row of the tape is on the artifact once or is  *)
(* counted in poisoned_rows, and the coverage counts each row once, however  *)
(* often a pass read it (_Pass.restore), in a state that is well formed.     *)
EveryRowIsAccountedFor ==
    /\ TypeOK
    /\ LET s == checkpoint.state
       IN  \A t \in Tickers :
             LET written == {r \in Artifact : tape[r.id].ticker = t}
             IN  /\ Cardinality(written) + s.skipped[t] = s.seen[t]
                 /\ s.seen[t] = Cardinality({i \in 1..s.id : tape[i].ticker = t})

\* ExclusionInventory.windows
Window(g) ==
    IF g \in DOMAIN pass.state.edges THEN pass.state.edges[g]
    ELSE [start |-> pass.state.last, end |-> 0]

(* The inventory of a pass has a window for every gap row that the tape it   *)
(* read goes past, from the last row before the gap to the first row after   *)
(* it (ExclusionInventory.observe).                                          *)
WindowsBracketTheirGaps ==
    pass.pc = "done" =>
        \A g \in DOMAIN gaps :
            LET read   == {tape[i].at : i \in 1..pass.state.id}
                before == {a \in read : a < gaps[g].at}
                after  == {a \in read : a > gaps[g].at}
            IN  /\ after # {} => g <= pass.read
                /\ g <= pass.read =>
                     Window(g) = [start |-> Max(before \cup {0}),
                                  end   |-> IF after = {} THEN 0 ELSE Min(after)]

Promise == INSTANCE PassArtifact WITH upto <- checkpoint.state.id, rows <- Artifact

(* The artifact grows only at a barrier, by rows of new ids, and no row of   *)
(* it ever changes or goes (forward_pass.py, _checkpoint).                   *)
ArtifactSpec == Promise!Spec
=============================================================================

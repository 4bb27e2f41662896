------------------------------ MODULE RunScope -------------------------------
(***************************************************************************)
(* The run scope of the tape studies (bot/replay/run_scope.py, its script  *)
(* scripts/replay_run_scope.py, and load_run_scope and screen_windows of   *)
(* bot/lag/tape_studies.py): from the blind windows and the coverage of    *)
(* the tape, the event days that every city could be read on are frozen,   *)
(* with their split, in files written one after another, and every study   *)
(* screens its evidence against what it loads from them.                   *)
(*                                                                         *)
(* Time is in units of which DayLength make a day; an interval has both    *)
(* its ends.  The blind windows and the coverage that the tool is given    *)
(* reach equally far, to the last row of the tape.  The frozen universe    *)
(* that lies beside the files is another tool's and left out.              *)
(***************************************************************************)
EXTENDS Integers, Sequences, FiniteSets, FiniteSetsExt, Folds

CONSTANTS
    Cities,
    Offset,         \* when the observation window of a city opens, after 0:00Z
    DayLength,
    LastDate,       \* event dates are 0..LastDate
    QuietOpen, QuietClose,  \* the band of every day that studies ignore
    Tolerance,      \* OUTAGE_TOLERANCE_US
    Pad,            \* INCIDENT_PAD
    Incident,       \* when the gap of the padded incident was detected
    NOTDETECTED,    \* gap_detected_at of a window without a gap row
    DEval,          \* D_EVAL: an accrual is a whole number of these
    Requests,       \* the values of --d-eval that are tried
    Openings,       \* the values of --start that are tried
    Tapes,          \* what a recorder may have written
    Offers          \* sequences of evidence windows that a study may screen

Dates == 0..LastDate

ASSUME ScopeAssumption ==
    /\ DayLength \in Nat \ {0} /\ LastDate \in Nat
    /\ Offset \in [Cities -> 0..DayLength]
    /\ QuietOpen \in 0..DayLength /\ QuietClose \in QuietOpen..DayLength
    /\ {Tolerance, Pad} \subseteq Nat /\ DEval \in Nat \ {0}
    /\ Requests \subseteq Nat \ {0} /\ NOTDETECTED \notin Nat

\* A row of the blind-window table.
BlindRows == [start : Nat, end : Nat, detected : Nat \cup {NOTDETECTED}]

ASSUME ScopeTapesAssumption ==
    /\ IsFiniteSet(Cities)
    /\ \A t \in Tapes :
          /\ t.first \in Nat /\ t.listed \subseteq Cities \X Dates
          /\ IsFiniteSet(t.blind) /\ t.blind \subseteq BlindRows
          /\ \A row \in t.blind : row.start <= row.end
    /\ Offers \subseteq Seq([city : Cities, date : Int, start : Int, end : Int])

VARIABLES
    tape,       \* its blind windows, the city-days with a market, its first row
    tapeLast,   \* its last row so far
    job,        \* the tool: <<>>, or what it has still to write, in order
    disk,       \* the files: <<>>, or <<content>>
    torn        \* the files that a kill left half written

scopeVars == <<tape, tapeLast, job, disk, torn>>

Files == <<"exclusions", "event_days", "split", "summary">>
FileNames == {Files[i] : i \in DOMAIN Files}

Larger(x, y)  == IF x > y THEN x ELSE y
Smaller(x, y) == IF x < y THEN x ELSE y

\* observation_window: midnight to midnight of local standard time.
WindowOf(cd) == [start |-> cd[2] * DayLength + Offset[cd[1]],
                 end   |-> (cd[2] + 1) * DayLength + Offset[cd[1]]]

-----------------------------------------------------------------------------
(***************************************************************************)
(* Exclusions                                                              *)
(***************************************************************************)

\* Mutant: a window inherits the end of the last one, not the later end.
MergeShort(merged, x) ==
    LET n == Len(merged)
    IN  IF n > 0 /\ x.start <= merged[n].end
        THEN [merged EXCEPT ![n].end = x.end]
        ELSE Append(merged, [start |-> x.start, end |-> x.end])

\* One step of the loop that merges intervals, taken in the order of their starts.
Merge(merged, x) ==
    LET n == Len(merged)
    IN  IF n > 0 /\ x.start <= merged[n].end
        THEN [merged EXCEPT ![n].end = Larger(@, x.end)]
        ELSE Append(merged, [start |-> x.start, end |-> x.end])

\* The last in the order of (start, end).
LastOf(S) == CHOOSE x \in S : \A y \in S :
                y.start < x.start \/ (y.start = x.start /\ y.end <= x.end)

\* merge_intervals, and the merging half of union_overlap_us
Merged(S) == MapThenFoldSet(LAMBDA x, m : Merge(m, x), <<>>, LAMBDA x : x, LastOf, S)

Overlap(x, w) == Larger(0, Smaller(x.end, w.end) - Larger(x.start, w.start))

\* union_overlap_us
UnionOverlap(S, w) ==
    LET m == Merged(S)
    IN  MapThenSumSet(LAMBDA i : Overlap(m[i], w), DOMAIN m)

\* intersects: endpoint-inclusive, by bisection on the starts.
Intersects(merged, w) ==
    LET index == Cardinality({i \in DOMAIN merged : merged[i].start <= w.end})
    IN  index > 0 /\ merged[index].end >= w.start

Padded(row)  == row.detected = Incident
Widened(row) == IF Padded(row)
                THEN [row EXCEPT !.start = @ - Pad, !.end = @ + Pad]
                ELSE row

Clipped(x, span) == [start |-> Larger(x.start, span.start), end |-> Smaller(x.end, span.end)]

\* The rows of the blind-window table: the windows that have closed.
Rows == {row \in tape.blind : row.end <= tapeLast}

\* blind_exclusions, without the identities that it carries along.
BlindExclusions(span) ==
    {Clipped(Widened(row), span) :
        row \in {r \in Rows : Widened(r).end >= span.start /\ Widened(r).start <= span.end}}

QuietBands ==
    {[start |-> d * DayLength + QuietOpen, end |-> d * DayLength + QuietClose] :
        d \in 0..(LastDate + 1)}

\* quiet_band_exclusions
QuietExclusions(span) ==
    {Clipped(x, span) : x \in {b \in QuietBands : b.end > span.start /\ b.start < span.end}}

-----------------------------------------------------------------------------
(***************************************************************************)
(* The inventory of event days                                             *)
(***************************************************************************)

\* The city-days of the coverage: those with a market whose rows have begun.
Present == {cd \in tape.listed : cd[2] * DayLength <= tapeLast}

TapeSpan == [start |-> tape.first, end |-> tapeLast]

Evaluable(cd, opening) ==
    LET w == WindowOf(cd)
    IN  /\ tape.first <= w.start /\ w.end <= tapeLast
        /\ opening <= w.start
        /\ UnionOverlap(BlindExclusions(TapeSpan), w) <= Tolerance

\* The dates on which every city of the coverage is evaluable.
Shared(opening) ==
    LET cities == {cd[1] : cd \in Present}
        ready(d) == {c \in cities : <<c, d>> \in Present /\ Evaluable(<<c, d>>, opening)}
    IN  {d \in Dates : ready(d) # {} /\ ready(d) = cities}

\* Mutant: a day that is missing does not end the run.
ExtendAcross(run, d, n) == IF Len(run) = n THEN run ELSE Append(run, d)

\* One step of the loop over the shared dates, which it leaves at n of them.
Extend(run, d, n) ==
    IF Len(run) = n THEN run
    ELSE IF run # <<>> /\ d - run[Len(run)] # 1 THEN <<d>>
    ELSE Append(run, d)

\* The dates of the scope, or too few of them.
Run(opening, n) ==
    MapThenFoldSet(LAMBDA d, run : Extend(run, d, n), <<>>, LAMBDA d : d, Max, Shared(opening))

\* split_lengths
Discovery(n) == (2 * n) \div 3

\* freeze_split
SplitOf(run) ==
    LET windows == {WindowOf(cd) : cd \in {x \in Present : \E i \in DOMAIN run : run[i] = x[2]}}
        d       == Discovery(Len(run))
    IN  [discovery |-> {run[i] : i \in 1..d},
         holdout   |-> {run[i] : i \in (d + 1)..Len(run)},
         start     |-> Min({w.start : w \in windows}),
         end       |-> Max({w.end : w \in windows})]

SideOf(split, d) ==
    IF d \in split.discovery THEN "discovery"
    ELSE IF d \in split.holdout THEN "holdout"
    ELSE ""

\* The rows of event_days with the spans of apply_spans.
DaysOf(split, exclusions) ==
    [cd \in Present |->
        LET side == SideOf(split, cd[2])
        IN  [split |-> side,
             span  |-> IF side = "" THEN 0
                       ELSE DayLength - UnionOverlap(exclusions, WindowOf(cd))]]

-----------------------------------------------------------------------------
(***************************************************************************)
(* The tool                                                                *)
(***************************************************************************)

\* The padded incident is one of the past: its row is in the table.
ScopeInit ==
    /\ tape \in Tapes
    /\ tapeLast \in {(d + 1) * DayLength : d \in Dates}
    /\ \A row \in tape.blind :
        /\ ~(row.start < tapeLast /\ tapeLast < row.end)
        /\ Padded(row) => row.end <= tapeLast
    /\ job = <<>>
    /\ disk = [f \in FileNames |-> <<>>]
    /\ torn = {}

\* Another day of tape; its last row never lies inside a blind window.
Extension ==
    /\ tapeLast < (LastDate + 2) * DayLength
    /\ tapeLast' = Smaller(tapeLast + DayLength, (LastDate + 2) * DayLength)
    /\ \A row \in tape.blind : ~(row.start < tapeLast' /\ tapeLast' < row.end)
    /\ UNCHANGED <<tape, job, disk, torn>>

\* The tool reads, freezes and splits; it ends here when it finds no run, or
\* when the incident lies in the scope and not in the table.
Freeze(opening, n) ==
    LET run   == Run(opening, n)
        split == SplitOf(run)
        span  == [start |-> split.start, end |-> split.end]
        excl  == BlindExclusions(span) \cup QuietExclusions(span)
        padded == {row \in Rows : /\ Padded(row)
                                  /\ Widened(row).end >= span.start
                                  /\ Widened(row).start <= span.end}
    IN  /\ job = <<>>
        /\ n % DEval = 0 /\ Len(run) = n
        /\ Incident \in span.start..span.end => Cardinality(padded) = 1
        /\ job' = <<excl, DaysOf(split, excl), split, opening>>
        /\ UNCHANGED <<tape, tapeLast, disk, torn>>

\* The next file: the last Len(job) of them are still to be written.
NextFile == Files[1 + Len(Files) - Len(job)]

\* Mutant: a file that is there is replaced.
WriteOver ==
    /\ job # <<>>
    /\ disk' = [disk EXCEPT ![NextFile] = <<Head(job)>>]
    /\ torn' = torn \ {NextFile}
    /\ job' = Tail(job)
    /\ UNCHANGED <<tape, tapeLast>>

\* write_exclusions, write_event_days, write_split: an existing file is never
\* overwritten, the tool ends instead.  The summary is written in any case.
Write ==
    /\ job # <<>>
    /\ IF disk[NextFile] = <<>> \/ NextFile = "summary"
       THEN /\ disk' = [disk EXCEPT ![NextFile] = <<Head(job)>>]
            /\ job' = Tail(job)
       ELSE /\ job' = <<>>
            /\ UNCHANGED disk
    /\ UNCHANGED <<tape, tapeLast, torn>>

\* The tool is killed between two files, or while it writes one.
KillTool ==
    /\ job # <<>>
    /\ job' = <<>>
    /\ \/ UNCHANGED <<disk, torn>>
       \/ /\ disk[NextFile] = <<>>
          /\ disk' = [disk EXCEPT ![NextFile] = <<Head(job)>>]
          /\ torn' = torn \cup {NextFile}
    /\ UNCHANGED <<tape, tapeLast>>

ScopeNext ==
    \/ Extension
    \/ \E opening \in Openings, n \in Requests : Freeze(opening, n)
    \/ Write
    \/ KillTool

ScopeSpec == ScopeInit /\ [][ScopeNext]_scopeVars

-----------------------------------------------------------------------------
(***************************************************************************)
(* The studies                                                             *)
(***************************************************************************)

InScope(days) == {cd \in DOMAIN days : days[cd].split # ""}

\* load_run_scope accepts the three files: each whole, the split the rows'.
Loadable ==
    /\ \A f \in {"exclusions", "event_days", "split"} : disk[f] # <<>> /\ f \notin torn
    /\ LET days  == disk["event_days"][1]
           split == disk["split"][1]
       IN  \A cd \in InScope(days) : days[cd].split = SideOf(split, cd[2])

Loaded == [merged |-> Merged(disk["exclusions"][1]),
           days   |-> InScope(disk["event_days"][1])]

\* screen_windows keeps this evidence window.
Keeps(scope, x) ==
    /\ <<x.city, x.date>> \in scope.days
    /\ LET w == WindowOf(<<x.city, x.date>>) IN w.start <= x.start /\ x.end <= w.end
    /\ ~Intersects(scope.merged, x)

\* screen_windows: what the loop over the offer has appended.
Screened(scope, offered) ==
    LET kept[i \in 0..Len(offered)] ==
            IF i = 0 THEN <<>>
            ELSE IF Keeps(scope, offered[i]) THEN Append(kept[i - 1], offered[i])
            ELSE kept[i - 1]
    IN  kept[Len(offered)]

\* keep_mask: walks the offer against what came back, with a cursor.
KeepMask(offered, kept) ==
    LET at[i \in 0..Len(offered)] ==
            IF i = 0 THEN 1
            ELSE IF at[i - 1] <= Len(kept) /\ kept[at[i - 1]] = offered[i]
            THEN at[i - 1] + 1
            ELSE at[i - 1]
    IN  [mask |-> [i \in 1..Len(offered) |-> at[i] > at[i - 1]],
         ok   |-> at[Len(offered)] = Len(kept) + 1]

-----------------------------------------------------------------------------
(***************************************************************************)
(* Properties                                                              *)
(***************************************************************************)

\* All that a study must not read: the blind windows, the incident's widened,
\* and the quiet bands.
Unreadable == {Widened(row) : row \in tape.blind} \cup QuietBands

\* The units of a window that nothing in S covers.
Readable(S, w) ==
    {t \in w.start..(w.end - 1) : ~\E x \in S : x.start <= t /\ t + 1 <= x.end}

\* Evidence that a study keeps lies in the observation window of its day, and
\* nothing that must not be read reaches into it: through the clipping to the
\* scope, the merging and the bisection, and whatever kills and later runs of
\* the tool over a longer tape left in the directory.
KeptAreReadable ==
    Loadable =>
        LET scope == Loaded
        IN  \A cd \in Cities \X Dates : LET w == WindowOf(cd) IN
            \A s \in (w.start - 1)..w.end : \A e \in s..(w.end + 1) :
                Keeps(scope, [city |-> cd[1], date |-> cd[2], start |-> s, end |-> e]) =>
                    /\ w.start <= s /\ e <= w.end
                    /\ ~\E x \in Unreadable : x.start < e /\ s < x.end

\* The span that a loaded event day is given is the time that could be read in
\* its window, every excluded instant counted once: neither the clipping of an
\* exclusion to the scope nor one that overlaps another makes it wrong.
SpansAddUp ==
    Loadable =>
        LET days == disk["event_days"][1]
        IN  \A cd \in InScope(days) :
                days[cd].span = Cardinality(Readable(Unreadable, WindowOf(cd)))

\* The mask that keep_mask rebuilds is that of the windows that were kept, and
\* it never refuses what screen_windows returns, equal windows included.
MaskIsRight ==
    Loadable =>
        \A offered \in Offers :
            LET m == KeepMask(offered, Screened(Loaded, offered))
            IN  /\ m.ok
                /\ \A i \in DOMAIN offered : m.mask[i] = Keeps(Loaded, offered[i])

\* What a study loads and screens with it is evidence that can be read, of
\* spans that are true, one mask entry to each window.
ScopeIsReadable == KeptAreReadable /\ SpansAddUp /\ MaskIsRight

\* The dates that every city could be read on, by the definition.
Usable(d, opening) ==
    \A c \in {cd[1] : cd \in Present} :
        LET w == WindowOf(<<c, d>>)
        IN  /\ <<c, d>> \in Present
            /\ tape.first <= w.start /\ w.end <= tapeLast /\ opening <= w.start
            /\ DayLength - Cardinality(Readable({Widened(r) : r \in Rows}, w)) <= Tolerance

\* A scope that is frozen is the first run of consecutive dates on which every
\* city could be read, of the length asked for, and its discovery days come
\* before its holdout days: nothing in it was picked.
ScopeIsEarliest ==
    [][ job = <<>> /\ job' # <<>> =>
          LET split == job'[3]
              first == Min(split.discovery \cup split.holdout)
              n     == Cardinality(split.discovery) + Cardinality(split.holdout)
          IN  /\ split.discovery \cup split.holdout = first..(first + n - 1)
              /\ n % DEval = 0 /\ Cardinality(split.discovery) = Discovery(n)
              /\ \A d \in split.discovery, h \in split.holdout : d < h
              /\ \A d \in first..(first + n - 1) : Usable(d, job'[4])
              /\ \A d \in 0..(first - 1) : \E k \in d..(d + n - 1) : ~Usable(k, job'[4])
      ]_scopeVars

\* What a study has once been able to load, every later study loads: neither
\* another run of the tool nor a kill changes it.
ScopeIsFrozen == [][Loadable => Loadable' /\ Loaded' = Loaded
                                /\ disk'["split"] = disk["split"]]_scopeVars
=============================================================================

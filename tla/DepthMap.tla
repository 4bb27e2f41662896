------------------------------- MODULE DepthMap -------------------------------
(***************************************************************************)
(* The depth study (bot/lag/depth_map_run.py with depth_map.py): how much  *)
(* rests at and near the best price of every market, weighted by the time  *)
(* that it rests there, and how often the depth that a trade takes comes   *)
(* back.  The tape of a city is read file by file, the state in force at   *)
(* the end of a file carried into the next; a state is cut into cells      *)
(* wherever an hour, a bucket of hours to the close or the event day ends. *)
(* Prices and sizes are in any unit, time in any unit of the tape.         *)
(***************************************************************************)
EXTENDS TapeStudy

CONSTANTS
    DmCities,       \* the series, in order
    DmSeriesOf, DmDateOf,   \* a leg's series and event date
    DmOrder,        \* the order of the legs' names
    DmClose,        \* the close of a leg
    DmDays,         \* the frozen scope: [start, end] of a <<series, date>>
    DmMerged,       \* the exclusions, as <<from, to>>
    DmScope,        \* <<from, to>>: the span whose files are read
    DmDayLength, DmHour, DmBucket, DmMaxBuckets, DmFinalBuckets,
    DmLevels,       \* how many levels of a side the tape stores
    DmDollar, DmBand, DmSlippage, DmTouchBar, DmRefill,
    DmTapes         \* [book: a sequence of [date, rows] per series, prints: rows]

VARIABLES
    dmTape,
    dmAt,           \* [city, file]: what is read next
    dmCarry,        \* the last state of each leg met
    dmQuotes,       \* the distances from the middle quoted on the event day
    dmTally,        \* the weights of a city's cells
    dmScreen,       \* how many cells, and how much time, was kept or not
    dmDepths,       \* the weights of each universe
    dmPicks,        \* the leg nearest the money of each city and day
    dmGroups,       \* the prints of each state in force, and their fate
    dmPhase

dmVars == <<dmTape, dmAt, dmCarry, dmQuotes, dmTally, dmScreen, dmDepths, dmPicks, dmGroups, dmPhase>>

DmLegs == DOMAIN DmClose
DmSides == {"yes", "no"}
DayOf(leg) == DmDays[<<DmSeriesOf[leg], DmDateOf[leg]>>]
LegInScope(leg) == <<DmSeriesOf[leg], DmDateOf[leg]>> \in DOMAIN DmDays
NODEPTH == -1

-----------------------------------------------------------------------------
(***************************************************************************)
(* A book state: its levels per side as a sequence of <<price, size>>, cut *)
(* to DmLevels, and how many there were                                    *)
(***************************************************************************)

Touch(r, side) == IF r.ladder[side] = <<>> THEN 0 ELSE r.ladder[side][1][2]

\* cumulative_depth
CumulativeDepth(r, side) ==
    LET l == r.ladder[side]
    IN  MapThenSumSet(LAMBDA i : l[i][2], {i \in DOMAIN l : l[i][1] >= l[1][1] - DmBand})

\* walk_capacity: what can be sold into the levels before the mean slippage
\* passes the bar; the levels may run out first.
Walk(r, side) ==
    LET l           == r.ladder[side]
        distance(i) == l[1][1] - l[i][1]
        quantity(i) == MapThenSumSet(LAMBDA j : l[j][2], 1..i)
        cost(i)     == MapThenSumSet(LAMBDA j : distance(j) * l[j][2], 1..i)
        crosses     == {i \in DOMAIN l : cost(i) > DmSlippage * quantity(i)}
        i           == Min(crosses)
    IN  IF crosses = {}
        THEN [capacity |-> quantity(Len(l)), censored |-> r.levels[side] > DmLevels]
        ELSE [capacity |-> (distance(i) * quantity(i - 1) - cost(i - 1)) \div (distance(i) - DmSlippage),
              censored |-> FALSE]

\* The measures of a state, as <<name, side, value>>.
MeasuresOf(r) ==
    UNION {{<<"touch", s, Touch(r, s)>>, <<"cum5", s, CumulativeDepth(r, s)>>,
            <<"capacity", s, Walk(r, s).capacity>>}
           \cup (IF Walk(r, s).censored THEN {<<"capacity_censored", s, Walk(r, s).capacity>>} ELSE {}) :
           s \in DmSides}
    \cup (IF Touch(r, "yes") > 0 /\ Touch(r, "no") > 0
          THEN {<<"spread", "both", DmDollar - r.bid - r.noBid>>} ELSE {})

-----------------------------------------------------------------------------
(***************************************************************************)
(* Cells                                                                   *)
(***************************************************************************)

\* _plan: the end of a leg's event day, and where its states are cut.
EndOf(leg) == Min({DayOf(leg).end, DmClose[leg]})

Breaks(leg) ==
    LET first == DayOf(leg).start \div DmHour
    IN  {DayOf(leg).start, EndOf(leg)}
        \cup {h * DmHour : h \in first..((EndOf(leg) + DmHour - 1) \div DmHour)}
        \cup {DmClose[leg] - k * DmBucket : k \in 1..DmMaxBuckets}

\* _bucket_of: the edge of a bucket is of the newer one.
BucketOf(leg, at) == (DmClose[leg] - (at + 1)) \div DmBucket

\* cell_edges, and the cells between them.
CellsOf(leg, book, until) ==
    LET times == {book[i].at : i \in DOMAIN book} \cup until
        edges == times \cup {b \in Breaks(leg) : Min(times) < b /\ b < Max(times)}
    IN  {[leg |-> leg, start |-> e, end |-> Min({f \in edges : f > e}), row |-> book[InForce(book, e)]] :
            e \in edges \ {Max(edges)}}

\* _measure: the fate of a cell.
FateOf(cell) ==
    LET screened == Screen(DayOf(cell.leg), DmMerged, cell.start, cell.end)
    IN  IF screened = "kept" /\ cell.end > DmClose[cell.leg] THEN "past_close" ELSE screened

Span(cell) == cell.end - cell.start

\* _measure: the kept cells by market, bucket, hour and measure.
Weights(cells) ==
    LET kept == {c \in cells : FateOf(c) = "kept"}
        key(c, m) == <<c.leg, BucketOf(c.leg, c.start), (c.start \div DmHour) % 24, m>>
    IN  Tallied(UNION {{[of |-> c, key |-> key(c, m), weight |-> Span(c)] : m \in MeasuresOf(c.row)} : c \in kept})

Counted(screen, cells) ==
    [f \in {"out_of_window", "excluded", "past_close", "kept"} |->
        screen[f] + Cardinality({c \in cells : FateOf(c) = f})]
    @@ [f \in {"kept_us", "nominal_us"} |->
        screen[f] + MapThenSumSet(Span, {c \in cells :
            IF f = "kept_us" THEN FateOf(c) = "kept"
            ELSE c.start >= DayOf(c.leg).start /\ c.end <= EndOf(c.leg)})]

-----------------------------------------------------------------------------
(***************************************************************************)
(* The sweep of the book                                                   *)
(***************************************************************************)

\* ScreenTally, and the tallies of DepthSweep, before the first file.
NoScreen == [f \in {"out_of_window", "excluded", "past_close", "kept", "kept_us", "nominal_us"} |-> 0]
NoDepths == [u \in {"all_legs", "atm"} |-> <<>>]

DmStart(t) ==
    /\ dmTape = t
    /\ dmAt = [city |-> 1, file |-> 1]
    /\ dmCarry = <<>> /\ dmQuotes = <<>> /\ dmTally = <<>>
    /\ dmScreen = NoScreen /\ dmDepths = NoDepths
    /\ dmPicks = <<>> /\ dmGroups = {} /\ dmPhase = "book"

DmInit == \E t \in DmTapes : DmStart(t)

\* partition_files
FilesOf(series) ==
    SelectSeq(dmTape.book[series],
              LAMBDA f : f.date \in WindowDates(DmScope[1], DmScope[2], DmDayLength))

City == DmCities[dmAt.city]

\* Mutant: a file is measured without the state that the file before left.
JoinedNot(leg, rows) == LastAtEach(rows)

\* _join: a file's states of a leg, after the state in force before them.
Joined(leg, rows) ==
    (IF leg \in DOMAIN dmCarry THEN <<dmCarry[leg]>> ELSE <<>>) \o LastAtEach(rows)

Distances(leg, rows) ==
    LET quoted == SelectSeq(rows, LAMBDA r : /\ TwoSided(r)
                                             /\ DayOf(leg).start <= r.at /\ r.at <= DayOf(leg).end)
        mid(r) == Mid2(r, DmDollar) - DmDollar
    IN  [i \in DOMAIN quoted |-> IF mid(quoted[i]) < 0 THEN -mid(quoted[i]) ELSE mid(quoted[i])]

\* _sweep_file: legs outside the scope are passed over; rows out of order stop
\* the study.
SweepFile ==
    /\ dmPhase = "book" /\ dmAt.file <= Len(FilesOf(City))
    /\ LET rows == FilesOf(City)[dmAt.file].rows
           legs == {rows[i].leg : i \in DOMAIN rows} \cap {l \in DmLegs : LegInScope(l)}
           book == [l \in legs |-> Joined(l, OfLeg(rows, l))]
           cells == UNION {CellsOf(l, book[l], {}) : l \in legs}
           seen(l) == Distances(l, OfLeg(rows, l))
       IN  IF \/ \E l \in legs : ~InOrderOfArrival(book[l])
              \/ \E c \in cells : FateOf(c) = "kept" /\ BucketOf(c.leg, c.start) >= DmMaxBuckets
           THEN /\ dmPhase' = "raised"
                /\ UNCHANGED <<dmAt, dmCarry, dmQuotes, dmTally, dmScreen>>
           ELSE /\ dmAt' = [dmAt EXCEPT !.file = @ + 1]
                /\ dmCarry' = [l \in legs |-> Last(book[l])] @@ dmCarry
                /\ dmQuotes' = [l \in legs |-> (IF l \in DOMAIN dmQuotes THEN dmQuotes[l] ELSE <<>>)
                                                  \o seen(l)] @@ dmQuotes
                /\ dmTally' = Pooled(<<dmTally, Weights(cells)>>)
                /\ dmScreen' = Counted(dmScreen, cells)
                /\ UNCHANGED dmPhase
    /\ UNCHANGED <<dmTape, dmDepths, dmPicks, dmGroups>>

\* _close_carries: the last state of a leg stays in force to the end.
LastCells ==
    UNION {CellsOf(l, <<dmCarry[l]>>, {EndOf(l)}) : l \in {x \in DOMAIN dmCarry : dmCarry[x].at < EndOf(x)}}

\* atm_leg: of the legs of a day that quoted, the one whose median is nearest
\* the middle, the first in name when several are.
NearestTheMoney(date) ==
    LET median(l) == TwiceMedianOf(DOMAIN dmQuotes[l], LAMBDA i : dmQuotes[l][i])
        legs == {l \in DOMAIN dmQuotes : DmDateOf[l] = date /\ dmQuotes[l] # <<>>}
    IN  {l \in legs : \A m \in legs \ {l} : median(l) < median(m) \/ (median(l) = median(m) /\ DmOrder[l] < DmOrder[m])}

\* _picks: the leg of each event day of a city that quoted at all.
PicksOf(city) ==
    LET dates == {d[2] : d \in {x \in DOMAIN DmDays : x[1] = city}}
    IN  [d \in {city} \X {x \in dates : NearestTheMoney(x) # {}} |-> CHOOSE l \in NearestTheMoney(d[2]) : TRUE]

\* _fold_root: the weights of markets become those of their city.
CityWeights(tally, legs) ==
    Tallied({[of |-> k, key |-> <<DmSeriesOf[k[1]], k[2], k[3], k[4]>>, weight |-> tally[k]] :
                k \in {x \in DOMAIN tally : x[1] \in legs}})

\* _close_carries, _picks and _fold_root, after the last file of a city.
FinishCity ==
    /\ dmPhase = "book" /\ dmAt.file > Len(FilesOf(City))
    /\ LET tally == Pooled(<<dmTally, Weights(LastCells)>>)
           picks == PicksOf(City)
       IN  /\ dmScreen' = Counted(dmScreen, LastCells)
           /\ dmPicks' = picks @@ dmPicks
           /\ dmDepths' = [all_legs |-> Pooled(<<dmDepths.all_legs, CityWeights(tally, DmLegs)>>),
                           atm      |-> Pooled(<<dmDepths.atm, CityWeights(tally, Range(picks))>>)]
    /\ dmCarry' = <<>> /\ dmQuotes' = <<>> /\ dmTally' = <<>>
    /\ dmAt' = [city |-> dmAt.city + 1, file |-> 1]
    /\ dmPhase' = IF dmAt.city = Len(DmCities) THEN "prints" ELSE "book"
    /\ UNCHANGED <<dmTape, dmGroups>>

-----------------------------------------------------------------------------
(***************************************************************************)
(* The sweep of the prints                                                 *)
(***************************************************************************)

\* _read_legs: the rows of the files that an event day touches.
StatesOf(leg) ==
    LET dates == WindowDates(DayOf(leg).start, DayOf(leg).end, DmDayLength)
        files == SelectSeq(dmTape.book[DmSeriesOf[leg]], LAMBDA f : f.date \in dates)
    IN  LastAtEach(OfLeg(FlattenSeq([i \in DOMAIN files |-> files[i].rows]), leg))

\* classify_print: which side's best price a print is at.
ClassOf(price, r) ==
    CASE price = r.bid -> "yes"
      [] price # r.bid /\ DmDollar - price = r.noBid -> "no"
      [] OTHER -> "none"

\* _replenishment, for the prints while states[pre] was in force: the first at
\* a best price takes depth there, and the group has one fate.
GroupOf(leg, states, prints, pre) ==
    LET group    == SelectSeq(prints, LAMBDA p : InForce(states, p.at) = pre)
        matches  == {i \in DOMAIN group : ClassOf(group[i].price, states[pre]) # "none"}
        print    == group[Min(matches)]
        side     == ClassOf(print.price, states[pre])
        deadline == print.at + DmRefill
        screened == Screen(DayOf(leg), DmMerged, states[pre].at, deadline)
        refilled(i) == 2 * Touch(states[i], side) >= Touch(states[pre], side)
        later    == {i \in (pre + 1)..Len(states) : states[i].at <= deadline /\ refilled(i)}
        fate == CASE pre = 0 -> "no_pre_state"
                  [] pre > 0 /\ matches = {} -> "no_match"
                  [] pre > 0 /\ matches # {} /\ pre = Len(states) -> "no_post_state"
                  [] pre > 0 /\ matches # {} /\ pre < Len(states) /\ deadline > DmClose[leg] -> "past_close"
                  [] OTHER -> screened
    IN  IF fate # "kept" THEN [leg |-> leg, pre |-> pre, fate |-> fate]
        ELSE [leg |-> leg, pre |-> pre, fate |-> fate, bucket |-> BucketOf(leg, print.at),
              event |-> ~refilled(pre + 1),
              took |-> IF later = {} THEN NODEPTH ELSE states[Min(later)].at - print.at]

\* sweep_resilience
SweepPrints ==
    /\ dmPhase = "prints"
    /\ LET legs == {l \in DmLegs : LegInScope(l) /\ StatesOf(l) # <<>> /\ OfLeg(dmTape.prints, l) # <<>>}
           pres(l) == {InForce(StatesOf(l), p.at) : p \in Range(OfLeg(dmTape.prints, l))}
       IN  IF \E l \in legs : ~InOrderOfArrival(OfLeg(dmTape.prints, l))
           THEN dmPhase' = "raised" /\ UNCHANGED dmGroups
           ELSE /\ dmGroups' = UNION {{GroupOf(l, StatesOf(l), OfLeg(dmTape.prints, l), n) : n \in pres(l)} : l \in legs}
                /\ dmPhase' = "done"
    /\ UNCHANGED <<dmTape, dmAt, dmCarry, dmQuotes, dmTally, dmScreen, dmDepths, dmPicks>>

DmNext == SweepFile \/ FinishCity \/ SweepPrints

DmSpec == DmInit /\ [][DmNext]_dmVars

-----------------------------------------------------------------------------
(***************************************************************************)
(* The verdict                                                             *)
(***************************************************************************)

\* _readout: the bins of one measure over some buckets.
BinsOf(depths, name, side, buckets) ==
    Tallied({[of |-> k, key |-> k[4][3], weight |-> depths[k]] :
                k \in {x \in DOMAIN depths : x[4][1] = name /\ x[4][2] = side /\ x[2] \in buckets}})

\* pooled_prints: the takes of the last hours, in the legs picked.
FinalEvents ==
    {g \in dmGroups : /\ g.fate = "kept" /\ g.event /\ g.bucket \in DmFinalBuckets
                      /\ g.leg \in Range(dmPicks)}

Replenished == {g \in FinalEvents : g.took # NODEPTH}

\* replenish_median_s: a take that did not come back counts as the longest.
MedianRefill ==
    LET rank == (Cardinality(FinalEvents) + 1) \div 2
    IN  IF 2 * Cardinality(Replenished) <= Cardinality(FinalEvents) THEN NODEPTH
        ELSE CHOOSE t \in {g.took : g \in Replenished} :
                /\ Cardinality({g \in Replenished : g.took < t}) < rank
                /\ Cardinality({g \in Replenished : g.took <= t}) >= rank

MedianTouch(side) == Quantile(BinsOf(dmDepths.atm, "touch", side, DmFinalBuckets), 1, 2, NODEPTH)

\* execute: thin depth is refuted by a deep touch that comes back.
Refuted ==
    /\ \A s \in DmSides : MedianTouch(s) > DmTouchBar
    /\ 2 * Cardinality(Replenished) > Cardinality(FinalEvents) /\ FinalEvents # {}

-----------------------------------------------------------------------------
(***************************************************************************)
(* Properties                                                              *)
(***************************************************************************)

\* The rows of a leg as if the tape had been one file.
WholeTape(leg) == LastAtEach(OfLeg(FlattenSeq([i \in DOMAIN FilesOf(DmSeriesOf[leg]) |->
                                                  FilesOf(DmSeriesOf[leg])[i].rows]), leg))

\* The kept instants of a leg, and what it measured then: those of a day
\* before its close, between edges that no exclusion lies in.
Instants(leg) ==
    LET rows   == WholeTape(leg)
        marks  == [i \in DOMAIN rows |-> MeasuresOf(rows[i])]
        edges  == Breaks(leg) \cup {r.at : r \in Range(rows)}
        from(u) == Max({e \in edges : e <= u})
        to(u)   == Min({e \in edges : e > u})
        kept   == {u \in Max({rows[1].at, DayOf(leg).start})..(EndOf(leg) - 1) :
                       ~Meets(DmMerged, from(u), to(u))}
    IN  IF rows = <<>> THEN {}
        ELSE UNION {{[leg |-> leg, at |-> u, mark |-> m] : m \in marks[InForce(rows, u)]} : u \in kept}

\* However the tape is cut into files, and a state with it, the weight of a
\* depth is the time for which it was in force before the close of its event
\* day; and what refutes that depth is thin is depth that came back in time,
\* as the tape of the same markets says.
DepthsFollowTheBook ==
    dmPhase = "done" =>
        /\ LET timed == UNION {Instants(l) : l \in {x \in DmLegs : LegInScope(x)}}
               mark(x) == [of |-> x, weight |-> 1,
                           key |-> <<DmSeriesOf[x.leg], BucketOf(x.leg, x.at), (x.at \div DmHour) % 24, x.mark>>]
           IN  /\ dmDepths.all_legs = Tallied({mark(x) : x \in timed})
               /\ dmDepths.atm = Tallied({mark(x) : x \in {y \in timed : y.leg \in Range(dmPicks)}})
        /\ dmScreen.kept_us <= dmScreen.nominal_us
        /\ Refuted => MedianRefill \in 0..DmRefill
=============================================================================

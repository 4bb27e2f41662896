---------------------------- MODULE SettlementStudy ----------------------------
(***************************************************************************)
(* The settlement study (bot/lag/settlement_run.py with settlement_source, *)
(* settlement_straddle, settlement_entry, settlement_price and             *)
(* settlement_delta): days whose official extreme and whose decoded        *)
(* readings settle different markets, and what it earns to buy the         *)
(* official one when the readings first leave it.  Of rising ladders only. *)
(* The closes and results of the markets are a frozen sidecar.             *)
(***************************************************************************)
EXTENDS LockEvents

CONSTANTS
    StClose,        \* when each leg closes
    StSize,         \* what an entry buys
    StFee(_, _), StTick,
    StMinute,       \* the span after an entry that is screened
    StMinDays,
    StJobs,         \* [notices, ladder: rows, readings: by station, settles: by station and date, results]
    NONOTICE, MISDATED

\* A bracket is not empty, a lower tail is named by its cap alone, and the rows
\* of a leg are in the order in which they arrived.
ASSUME SettlementAssumption ==
    /\ StMinute \in Int /\ IsFiniteSet(LkNames)
    /\ \A l \in LkNames :
          /\ LkLegs[l].lo \in Int
          /\ LkLegs[l].listed \in {"bracket", "above", "below"}
          /\ LkLegs[l].listed = "bracket" => LkLegs[l].hi \in Int /\ LkLegs[l].lo <= LkLegs[l].hi
          /\ LkLegs[l].listed = "below" => LkLegs[l].hi = LkLegs[l].lo
    /\ \A j \in StJobs :
          /\ \A s \in DOMAIN j.readings : IsFiniteSet(j.readings[s])
          /\ \A s \in DOMAIN j.readings : \A r \in j.readings[s] :
                r.valid \in Int /\ r.at \in Int /\ r.temp \in Int
          /\ \A k \in DOMAIN j.settles : j.settles[k] \in Int
          /\ Len(j.ladder) \in Nat /\ DOMAIN j.ladder = 1..Len(j.ladder)
          /\ \A i \in DOMAIN j.ladder : j.ladder[i].at \in Int
          /\ \A i, k \in DOMAIN j.ladder : i < k /\ j.ladder[i].leg = j.ladder[k].leg
                                            => j.ladder[i].at <= j.ladder[k].at

VARIABLES
    stJob,
    stManifest,     \* whether a manifest has been written
    stBoundary,     \* the date from which a root settles from another source
    stLeft,         \* the roots still to sweep
    stStraddles,    \* the straddles, with their entries
    stCounts,
    stPriced,       \* the crossings whose minute survived the screen
    stVerdict, stPhase

stVars == <<stJob, stManifest, stBoundary, stLeft, stStraddles, stCounts, stPriced, stVerdict, stPhase>>

StRoots == {d[1] : d \in DOMAIN LkDays} \ LkFalling
StDaysOf(root) == {d \in DOMAIN LkDays : d[1] = root}

\* The counts of Sweep, PriceCounts and BoundarySplit at first.
NoStraddles == [c \in {"days", "noReadings", "unsettled", "noStraddle", "wide",
                       "excluded", "dropped", "before"} |-> 0]

StStart(j) ==
    /\ stJob = j /\ stManifest = FALSE /\ stBoundary = NONOTICE
    /\ stLeft = Ordered(StRoots, LkSeriesOrder)
    /\ stStraddles = {} /\ stPriced = {}
    /\ stCounts = NoStraddles
    /\ stVerdict = "none" /\ stPhase = "preflight"

StInit == \E j \in StJobs : StStart(j)

\* The ladder rows of a day's legs, in files of whole arrival days.
StDates(day) == WindowDates(LkDays[day].start, LkDays[day].end, LkDayLength)
PartitionOf(day) ==
    Among(stJob.ladder, {i \in DOMAIN stJob.ladder : /\ LkLegs[stJob.ladder[i].leg].series = day[1]
                                                     /\ stJob.ladder[i].at \div LkDayLength \in StDates(day)})

\* boundary_split: the first date that a notice names, inside the window.
Notices == {stJob.notices[r] : r \in DOMAIN stJob.notices} \ {NONOTICE}
BoundaryIn(dates) ==
    IF MISDATED \in Notices \/ Notices = {} THEN NONOTICE
    ELSE IF Min(dates) < Min(Notices) /\ Min(Notices) <= Max(dates) THEN Min(Notices) ELSE NONOTICE

\* check_settlement_scope: every root is in the frozen sidecar.
ScopeIsListed == StRoots \subseteq DOMAIN stJob.notices

\* execute, up to write_manifest: a run whose sidecar or tape is of another
\* freeze leaves no manifest behind.
Preflight ==
    /\ stPhase = "preflight"
    /\ LET days   == UNION {StDaysOf(r) : r \in StRoots}
           dates  == {d[2] : d \in days}
           census == \A d \in days : PartitionOf(d) # <<>>
       IN  IF ScopeIsListed /\ census /\ BoundaryIn(dates) # NONOTICE
           THEN /\ stBoundary' = BoundaryIn(dates) /\ stManifest' = TRUE /\ stPhase' = "sweep"
                /\ stCounts' = [stCounts EXCEPT !.before = Cardinality({d \in dates : d < BoundaryIn(dates)})]
           ELSE stPhase' = "aborted" /\ UNCHANGED <<stBoundary, stManifest, stCounts>>
    /\ UNCHANGED <<stJob, stLeft, stStraddles, stPriced, stVerdict>>

\* Mutant: the lower tail settles at its cap too.
EdgesWithTheCap(day) ==
    {LkLegs[l].hi : l \in {x \in LadderOf(day) : LkLegs[x].listed \in {"bracket", "below"}}}

\* cell_edges: the last degree of every row that has one.
CellEdges(day) ==
    {LkLegs[l].hi : l \in {x \in LadderOf(day) : LkLegs[x].listed = "bracket"}}
    \cup {LkLegs[l].hi - 1 : l \in {x \in LadderOf(day) : LkLegs[x].listed = "below"}}

\* separating_strikes
Separating(t, u, edges) == {k \in edges : (t > k) # (u > k)}

\* settling_row, over all the rows of the day.
SettlingRows(day, temp) == {l \in LadderOf(day) : SettlesYes(l, LkLegs[l].listed, temp)}

Observations(day) ==
    LET station == LkDays[day].station
    IN  IF station \in DOMAIN stJob.readings THEN InWindow(day, stJob.readings[station]) ELSE {}

\* The official extreme of a day, where the sidecar lists one, the decoded one
\* and the strikes that separate the two.
StationDate(day) == <<LkDays[day].station, day[2]>>
Settled(day) == Observations(day) # {} /\ StationDate(day) \in DOMAIN stJob.settles
Official(day) == stJob.settles[StationDate(day)]
Observed(day) == Extreme(day[1], Observations(day), LkDays[day].end)
Strikes(day) == Separating(Observed(day), Official(day), CellEdges(day))

\* The strikes that the highest reading so far is on another side of than the
\* official extreme.
PastAt(day, at) == Separating(Extreme(day[1], Observations(day), at), Official(day), Strikes(day))

\* entry_of: the first reading with such a strike.  Readings of one valid_time
\* count together, where the code takes them in the order they were recorded: the
\* second of the day's first two would there be a crossing.
EntryOf(day) ==
    LET window == Observations(day)
        apart  == {r \in window : PastAt(day, r.valid) # {}}
        first  == CHOOSE r \in apart : \A x \in apart : r.valid <= x.valid
        leg    == CHOOSE l \in SettlingRows(day, Official(day)) : TRUE
    IN  [at |-> first.valid, leg |-> leg, strike |-> Min(PastAt(day, first.valid)),
         kind |-> IF \A x \in window : first.valid <= x.valid THEN "open" ELSE "crossing",
         inTime |-> first.valid <= StClose[leg]]

\* straddle_of, and entry_of it.
StraddleOf(day) ==
    [day |-> day, observed |-> Observed(day), official |-> Official(day), entry |-> EntryOf(day)]

\* delta_partition: the two readings are more than a degree apart.
Wide(observed, official) == observed - official > 1 \/ official - observed > 1

\* sweep_settlements, for one root; a day that no single row settles, or that
\* the sidecar does not list, ends the run.
SweepSettlements ==
    /\ stPhase = "sweep" /\ stLeft # <<>>
    /\ LET days    == StDaysOf(Head(stLeft))
           read    == {d \in days : Observations(d) # {}}
           settled == {d \in days : Settled(d)}
           apart   == {d \in settled : Strikes(d) # {}}
           broken  == {d \in settled : LadderOf(d) = {}}
                      \cup {d \in apart : Cardinality(SettlingRows(d, Official(d))) # 1}
       IN  IF broken # {} THEN stPhase' = "raised" /\ UNCHANGED <<stStraddles, stCounts>>
           ELSE /\ stStraddles' = stStraddles \cup {StraddleOf(d) : d \in apart}
                /\ stCounts' = [stCounts EXCEPT
                       !.days = @ + Cardinality(days),
                       !.noReadings = @ + Cardinality(days \ read),
                       !.unsettled = @ + Cardinality(read \ settled),
                       !.noStraddle = @ + Cardinality(settled \ apart),
                       !.wide = @ + Cardinality({d \in apart : Wide(Observed(d), Official(d))})]
                /\ stPhase' = IF Len(stLeft) = 1 THEN "price" ELSE "sweep"
    /\ stLeft' = Tail(stLeft)
    /\ UNCHANGED <<stJob, stManifest, stBoundary, stPriced, stVerdict>>

\* read_window, of one leg.
LadderRows(leg, day) ==
    LET rows == stJob.ladder
    IN  Among(rows, {i \in DOMAIN rows : /\ rows[i].leg = leg
                                         /\ LkDays[day].start <= rows[i].at /\ rows[i].at <= LkDays[day].end})

\* price_of: the middle of the book at the entry, net of a fee and a tick, in
\* half cents for the whole size; no price without a row or without a side.
PriceOf(straddle) ==
    LET entry  == straddle.entry
        rows   == LadderRows(entry.leg, straddle.day)
        i      == InForce(rows, entry.at)
        priced == i # 0 /\ TwoSided(rows[i])
        won    == IF stJob.results[entry.leg] = "yes" THEN 2 * LkDollar ELSE 0
        mid    == Mid2(rows[i], LkDollar)
    IN  [straddle |-> straddle, noRow |-> i = 0, priced |-> priced,
         row |-> IF i = 0 THEN <<>> ELSE rows[i],
         censored |-> i # 0 /\ rows[i].noSizes < StSize,
         net |-> IF priced THEN StSize * (won - mid - 2 * StTick) - 2 * StFee(StSize, mid) ELSE 0]

\* screen_entry_minutes: what becomes of the minute of an entry.
MinuteFate(straddle) ==
    LET at == straddle.entry.at
    IN  Screen(LkDays[straddle.day], LkMerged, at, at + StMinute)

\* price_entries: the crossings whose minute survives the screen.
PriceEntries ==
    /\ stPhase = "price"
    /\ LET crossings == {s \in stStraddles : s.entry.kind = "crossing"}
           kept      == {s \in crossings : MinuteFate(s) = "kept"}
       IN  /\ stPriced' = {PriceOf(s) : s \in kept}
           /\ stCounts' = [stCounts EXCEPT
                  !.excluded = Cardinality({s \in crossings : MinuteFate(s) = "excluded"}),
                  !.dropped = Cardinality(crossings \ kept)]
    /\ stPhase' = "decide"
    /\ UNCHANGED <<stJob, stManifest, stBoundary, stLeft, stStraddles, stVerdict>>

\* cluster_aggregates of a split: an entry without a price weighs on no side.
ClustersPriced(discovery) ==
    ClustersOf({p \in stPriced : p.priced /\ (p.straddle.day[2] \in LkDiscovery) = discovery},
               LAMBDA p : p.straddle.day, LAMBDA p : p.net, LAMBDA p : 2 * StSize)

\* decide: a shortfall of days is read before the economics.
DecideSettlement ==
    /\ stPhase = "decide"
    /\ \E s, t \in BOOLEAN :
         LET discovery == ClustersPriced(TRUE)
             holdout   == ClustersPriced(FALSE)
             gate      == Gate(discovery, 0, TRUE, StMinDays, s)
             repeated  == Holdout(discovery, holdout, StMinDays, t)
             compared  == DOMAIN holdout # {} /\ EstimateOf(discovery).total # 0
         IN  stVerdict' =
               IF DOMAIN discovery = {} \/ ~gate.powered \/ (compared /\ ~repeated.powered)
               THEN "UNDERPOWERED"
               ELSE IF compared /\ GatePassed(gate) /\ Replicated(repeated) THEN "PASS" ELSE "CLOSED"
    /\ stPhase' = "done"
    /\ UNCHANGED <<stJob, stManifest, stBoundary, stLeft, stStraddles, stCounts, stPriced>>

\* result_payload: the share of the crossings' days that the screen left is a
\* quotient, and a run without a crossing fails on it with its verdict in hand.
WriteResults ==
    /\ stPhase = "done"
    /\ stPhase' = IF \E s \in stStraddles : s.entry.kind = "crossing" THEN "written" ELSE "unwritten"
    /\ UNCHANGED <<stJob, stManifest, stBoundary, stLeft, stStraddles, stCounts, stPriced, stVerdict>>

StNext == Preflight \/ SweepSettlements \/ PriceEntries \/ DecideSettlement \/ WriteResults

StSpec == StInit /\ [][StNext]_stVars

-----------------------------------------------------------------------------
(***************************************************************************)
(* Properties                                                              *)
(***************************************************************************)

\* One row settles each degree between those that a day reads or is settled at.
Degrees(day) ==
    LET temps == {r.temp : r \in Observations(day)} \cup {Official(day)} IN Min(temps)..Max(temps)
Partitioned(day) == \A temp \in Degrees(day) : Cardinality(SettlingRows(day, temp)) = 1

\* The two sources of a straddle settle different markets, and no other swept
\* day has sources that do, as long as its rows partition the degrees.
StraddlesDisagree ==
    stPhase # "raised" =>
        \A d \in UNION {StDaysOf(r) : r \in StRoots \ Range(stLeft)} :
            Settled(d) /\ Partitioned(d) =>
                ((\E s \in stStraddles : s.day = d)
                 <=> SettlingRows(d, Official(d)) # SettlingRows(d, Observed(d)))

\* What an entry is bought against: at a crossing the readings rise past the
\* row that is bought, which until then they had not passed.  Readings that
\* stay below it never cross: such a day is open from its first reading, and
\* so is one whose first reading is past the row already.
CrossingsRunPast ==
    \A s \in {x \in stStraddles : Partitioned(x.day)} :
        LET window   == Observations(s.day)
            leg      == s.entry.leg
            high(at) == Extreme(s.day[1], window, at)
            in(temp) == SettlesYes(leg, LkLegs[leg].listed, temp)
            past(at) == high(at) > s.official /\ ~in(high(at))
            first    == Min({r.valid : r \in window})
        IN  /\ in(s.official) /\ ~in(s.observed)
            /\ s.entry.kind = "crossing" =>
                  /\ s.observed > s.official /\ past(s.entry.at)
                  /\ \A r \in window : r.valid < s.entry.at => ~past(r.valid)
            /\ s.entry.kind = "open" =>
                  s.entry.at = first /\ (past(first) \/ s.observed < s.official)

\* A price is of the book that was known at the entry, read on the day itself,
\* in a minute that no exclusion meets.
PricesWereKnown ==
    \A p \in stPriced :
        LET at   == p.straddle.entry.at
            rows == {r \in Range(stJob.ladder) : r.leg = p.straddle.entry.leg /\ r.at <= at
                                                 /\ r.at >= LkDays[p.straddle.day].start}
        IN  /\ p.noRow <=> rows = {}
            /\ p.priced => p.row \in rows /\ \A r \in rows : r.at <= p.row.at
            /\ \A x \in LkMerged : ~(x[1] <= at + StMinute /\ at <= x[2])

\* Nothing is swept, priced or decided without a manifest, and an aborted run
\* leaves none.
ManifestFirst ==
    /\ stPhase \in {"preflight", "aborted"} <=> ~stManifest
    /\ stPhase = "aborted" => stStraddles = {} /\ stVerdict = "none"

SettlementIsHonest == StraddlesDisagree /\ CrossingsRunPast /\ PricesWereKnown /\ ManifestFirst
=============================================================================

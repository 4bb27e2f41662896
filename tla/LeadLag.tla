------------------------------- MODULE LeadLag --------------------------------
(***************************************************************************)
(* The lead-lag study (bot/lag/lead_lag.py and lead_lag_run.py): when the  *)
(* market of one city of a corridor moves by the bar, how soon the market  *)
(* of the next city follows, read both ways.  Of each city and day one leg *)
(* is watched, the one nearest the half.  The study reports a median lead  *)
(* and decides nothing.                                                    *)
(***************************************************************************)
EXTENDS TapeStudy, TapeStats

CONSTANTS
    LgLegs,         \* the legs: [city, date], their names by LgOrder
    LgOrder,
    LgCorridors,    \* by name, the cities of a corridor in order
    LgDays,         \* the frozen event days: <<city, date>> -> [start, end]
    LgMerged,       \* the exclusions, as <<from, to>>
    LgDiscovery,    \* the dates that are read
    LgDayLength, LgDollar,
    LgBar,          \* the move, in half cents
    LgWindow,       \* the time that a move has, and its answer with it
    LgBlock,        \* how many days of a corridor are drawn together
    LgMinDays,
    LgJobs,         \* [book: rows [id, leg, at, bid, noBid], recorded: cities]
    NOBOUND

\* Names, instants and quotes are numbers in order; the rows of a leg are read in
\* the order of their arrival.
ASSUME LeadAssumption ==
    /\ IsFiniteSet(LgDiscovery) /\ LgDiscovery \subseteq Int
    /\ LgDayLength \in Nat \ {0} /\ LgDollar \in Int /\ LgBar \in Nat /\ LgWindow \in Int
    /\ LgMerged \subseteq Int \X Int
    /\ \A l \in DOMAIN LgLegs : LgOrder[l] \in Int
    /\ \A l, m \in DOMAIN LgLegs : LgOrder[l] = LgOrder[m] => l = m
    /\ IsFiniteSet(DOMAIN LgCorridors) /\ \A c \in DOMAIN LgCorridors : Len(LgCorridors[c]) \in Nat
    /\ \A d \in DOMAIN LgDays : d = <<d[1], d[2]>> /\ LgDays[d].start \in Int /\ LgDays[d].end \in Int
    /\ \A j \in LgJobs :
          /\ Len(j.book) \in Nat /\ DOMAIN j.book = 1..Len(j.book)
          /\ \A i \in DOMAIN j.book :
                /\ j.book[i].leg \in DOMAIN LgLegs
                /\ j.book[i].at \in Int /\ j.book[i].bid \in Int /\ j.book[i].noBid \in Int
          /\ \A i, k \in DOMAIN j.book : i < k /\ j.book[i].leg = j.book[k].leg
                                          => j.book[i].at <= j.book[k].at

VARIABLES lgJob, lgLeft, lgEpisodes, lgWatched, lgSilent, lgCounts, lgReadouts, lgPhase

lgVars == <<lgJob, lgLeft, lgEpisodes, lgWatched, lgSilent, lgCounts, lgReadouts, lgPhase>>

Readings == {"forward", "reverse"}
NoReadout == [days |-> 0, median2 |-> NOBOUND, low |-> NOBOUND, high |-> NOBOUND]

\* A pair of cities that follow each other in a corridor.
Pairs == UNION {{[corridor |-> c, upstream |-> LgCorridors[c][i], downstream |-> LgCorridors[c][i + 1]] :
                    i \in 1..(Len(LgCorridors[c]) - 1)} : c \in DOMAIN LgCorridors}

\* CITY_SERIES: the cities of the corridors, and no others.
Paired == UNION {Range(LgCorridors[c]) : c \in DOMAIN LgCorridors}

\* CORRIDORS: no two of them have the same pair of neighbours.
ASSUME PairAssumption ==
    \A p, q \in Pairs : p.upstream = q.upstream /\ p.downstream = q.downstream => p = q

\* ScreenTally at first.
NoneOffered == [offered |-> 0, kept |-> 0, excluded |-> 0, outside |-> 0]

LgStart(j) ==
    /\ lgJob = j /\ lgLeft = Ordered(LgDiscovery, [d \in LgDiscovery |-> d])
    /\ lgEpisodes = [r \in Readings |-> {}] /\ lgWatched = <<>> /\ lgSilent = {}
    /\ lgCounts = NoneOffered
    /\ lgReadouts = [r \in Readings |-> NoReadout]
    /\ lgPhase = IF {d[1] : d \in DOMAIN LgDays} = j.recorded THEN "sweep" ELSE "raised"

LgInit == \E j \in LgJobs : LgStart(j)

\* read_city_day: the rows of the day's legs, in files of whole arrival days.
RowsOfDay(day) ==
    LET rows  == lgJob.book
        dates == WindowDates(LgDays[day].start, LgDays[day].end, LgDayLength)
    IN  Among(rows, {i \in DOMAIN rows : /\ LgLegs[rows[i].leg].city = day[1]
                                         /\ LgLegs[rows[i].leg].date = day[2]
                                         /\ rows[i].at \div LgDayLength \in dates})

TwoBids(r) == r.bid > 0 /\ r.noBid > 0
BothSides(rows) == Among(rows, {i \in DOMAIN rows : TwoBids(rows[i])})
FromHalf(r) == LET m == Mid2(r, LgDollar) - LgDollar IN IF m < 0 THEN -m ELSE m

\* The rows of the event day itself.
InDay(day, rows) ==
    Among(rows, {i \in DOMAIN rows : LgDays[day].start <= rows[i].at /\ rows[i].at <= LgDays[day].end})

\* atm_series: the leg whose median quote is nearest the half, over the whole
\* day, and its rows of the event day; no leg where none had two sides.
WatchedLeg(day, rows) ==
    LET inside    == InDay(day, rows)
        of(l)     == {i \in DOMAIN inside : inside[i].leg = l /\ TwoBids(inside[i])}
        legs      == {l \in DOMAIN LgLegs : of(l) # {}}
        median(l) == TwiceMedianOf(of(l), LAMBDA i : FromHalf(inside[i]))
        nearest   == {[leg |-> l, off |-> median(l)] : l \in legs}
    IN  {[day |-> day, leg |-> x.leg, rows |-> OfLeg(inside, x.leg)] :
            x \in {y \in nearest : \A z \in nearest : y.off < z.off
                                       \/ (y.off = z.off /\ LgOrder[y.leg] <= LgOrder[z.leg])}}

\* leader_crossings, of the states with two sides: from an anchor the first
\* state within the window that is the bar away, and the next anchor behind it.
Moved(s, i, k) == Mid2(s[k], LgDollar) - Mid2(s[i], LgDollar)
Hits(s, i) ==
    {k \in (i + 1)..Len(s) : /\ s[k].at <= s[i].at + LgWindow
                             /\ Moved(s, i, k) >= LgBar \/ Moved(s, i, k) <= -LgBar}

CrossingFrom(s, i) ==
    LET k == Min(Hits(s, i))
    IN  [anchor |-> s[i].at, cross |-> s[k].at, deadline |-> s[i].at + LgWindow,
         direction |-> IF Moved(s, i, k) > 0 THEN 1 ELSE -1]

NextAnchor(s, i) ==
    IF Hits(s, i) = {} THEN i + 1
    ELSE Min({j \in i..(Len(s) + 1) : j > Len(s) \/ s[j].at > CrossingFrom(s, i).cross})

Crossings(rows) ==
    LET s == BothSides(rows)
        from[i \in 1..(Len(s) + 1)] ==
            IF i > Len(s) THEN {}
            ELSE (IF Hits(s, i) = {} THEN {} ELSE {CrossingFrom(s, i)}) \cup from[NextAnchor(s, i)]
    IN  from[1]

\* Mutant: the follower is measured from the anchor, over the move itself.
AnsweredFromAnchor(rows, c) ==
    LET s    == BothSides(rows)
        base == InForce(s, c.anchor)
        hits == {k \in DOMAIN s : /\ s[k].at > c.cross /\ s[k].at <= c.deadline
                                  /\ (Mid2(s[k], LgDollar) - Mid2(s[base], LgDollar)) * c.direction >= LgBar}
    IN  IF base = 0 THEN {} ELSE {s[k].at : k \in {i \in hits : \A j \in hits : i <= j}}

\* follower_view and follower_response: the first state behind the crossing, no
\* later than its deadline, that is the bar away from the last one up to it.
Answered(rows, c) ==
    LET s    == BothSides(rows)
        base == InForce(s, c.cross)
        hits == {k \in DOMAIN s : /\ s[k].at > c.cross /\ s[k].at <= c.deadline
                                  /\ (Mid2(s[k], LgDollar) - Mid2(s[base], LgDollar)) * c.direction >= LgBar}
    IN  IF base = 0 THEN {} ELSE {s[k].at : k \in {i \in hits : \A j \in hits : i <= j}}

\* pair_episodes
EpisodesOfPair(pair, reading, date, leader, follower) ==
    UNION {{[pair |-> pair, date |-> date, direction |-> c.direction, anchor |-> c.anchor,
             cross |-> c.cross, answer |-> at, lead |-> at - c.cross,
             leader   |-> IF reading = "forward" THEN pair.upstream ELSE pair.downstream,
             follower |-> IF reading = "forward" THEN pair.downstream ELSE pair.upstream] :
                at \in Answered(follower, c)} : c \in Crossings(leader)}

\* screen_windows for the leader's and for the follower's event day, which lie
\* in time zones of their own; keep_mask of both.
FatesOf(e) == [city \in {e.leader, e.follower} |->
                  Screen(LgDays[<<city, e.date>>], LgMerged, e.anchor, e.answer)]

\* sweep_pairs, for one event date.
SweepDate ==
    /\ lgPhase = "sweep" /\ lgLeft # <<>>
    /\ LET date   == Head(lgLeft)
           days   == {d \in DOMAIN LgDays : d[1] \in Paired /\ d[2] = date}
           read   == {[day |-> d, rows |-> RowsOfDay(d)] : d \in days}
           picked == UNION {WatchedLeg(r.day, r.rows) : r \in read}
           rowsOf(city) == (CHOOSE x \in picked : x.day[1] = city).rows
           built  == {x.day[1] : x \in picked}
           found(reading) ==
               UNION {EpisodesOfPair(p, reading, date,
                          rowsOf(IF reading = "forward" THEN p.upstream ELSE p.downstream),
                          rowsOf(IF reading = "forward" THEN p.downstream ELSE p.upstream)) :
                      p \in {q \in Pairs : {q.upstream, q.downstream} \subseteq built}}
           judged == [reading \in Readings |-> {[e |-> e, fates |-> FatesOf(e)] : e \in found(reading)}]
           kept   == [reading \in Readings |->
                         {j.e : j \in {x \in judged[reading] : Range(x.fates) = {"kept"}}}]
           fates(f) == MapThenSumSet(LAMBDA r : MapThenSumSet(LAMBDA j :
                           Cardinality({c \in DOMAIN j.fates : j.fates[c] = f}), judged[r]), Readings)
           sum(S)   == MapThenSumSet(LAMBDA r : Cardinality(S[r]), Readings)
           broken   == \E r \in read : \E i \in 1..(Len(r.rows) - 1) : r.rows[i].id > r.rows[i + 1].id
       IN  IF broken THEN lgPhase' = "raised" /\ UNCHANGED <<lgEpisodes, lgWatched, lgSilent, lgCounts>>
           ELSE /\ lgEpisodes' = [r \in Readings |-> lgEpisodes[r] \cup kept[r]]
                /\ lgWatched' = [d \in DOMAIN lgWatched \cup {x.day : x \in picked} |->
                                    IF d \in DOMAIN lgWatched THEN lgWatched[d]
                                    ELSE (CHOOSE x \in picked : x.day = d).leg]
                /\ lgSilent' = lgSilent \cup (days \ {x.day : x \in picked})
                /\ lgCounts' = [offered  |-> lgCounts.offered + sum(judged),
                                kept     |-> lgCounts.kept + sum(kept),
                                excluded |-> lgCounts.excluded + fates("excluded"),
                                outside  |-> lgCounts.outside + fates("out_of_window")]
                /\ lgPhase' = IF Len(lgLeft) = 1 THEN "forward" ELSE "sweep"
    /\ lgLeft' = Tail(lgLeft)
    /\ UNCHANGED <<lgJob, lgReadouts>>

PanelOf(S) == {<<e.pair.corridor, e.date>> : e \in S}

\* day_blocks: runs of LgBlock of the days of a corridor that have an episode.
BlockOf(panel, key) ==
    <<key[1], (Cardinality({k \in panel : k[1] = key[1] /\ k[2] <= key[2]}) - 1) \div LgBlock>>

\* sign_observations and _admits: how many leads lie above and below theta, in
\* each block; where they share one ratio no statistic is defined, and the
\* theta is refused.
Testable(S, theta) ==
    ~Degenerate(ClustersOf(S, LAMBDA e : BlockOf(PanelOf(S), <<e.pair.corridor, e.date>>),
                    LAMBDA e : IF e.lead > theta THEN 1 ELSE IF e.lead < theta THEN -1 ELSE 0,
                    LAMBDA e : 1))

\* median_interval: from the lead nearest the median outwards as long as the
\* candidate is admitted, which the resamples decide where it can be tested.
Walked(S, down) ==
    LET leads == {e.lead : e \in S}
        mid2  == TwiceMedianOf(S, LAMBDA e : e.lead)
        off(c) == IF 2 * c < mid2 THEN mid2 - 2 * c ELSE 2 * c - mid2
        start == CHOOSE c \in leads : \A x \in leads : off(c) < off(x) \/ (off(c) = off(x) /\ c <= x)
        upTo(c) == {x \in leads : IF down THEN c <= x /\ x <= start ELSE start <= x /\ x <= c}
    IN  {NOBOUND} \cup {c \in leads : start \in upTo(c) /\ \A x \in upTo(c) : Testable(S, x)}

\* readout, of one reading: nothing but counts from too few days.
ReadOut ==
    /\ lgPhase \in Readings
    /\ LET S == lgEpisodes[lgPhase]
       IN  IF Cardinality(PanelOf(S)) < LgMinDays
           THEN lgReadouts' = [lgReadouts EXCEPT ![lgPhase].days = Cardinality(PanelOf(S))]
           ELSE \E low \in Walked(S, TRUE), high \in Walked(S, FALSE) :
                  lgReadouts' = [lgReadouts EXCEPT ![lgPhase] =
                      [days |-> Cardinality(PanelOf(S)), median2 |-> TwiceMedianOf(S, LAMBDA e : e.lead),
                       low |-> low, high |-> high]]
    /\ lgPhase' = IF lgPhase = "forward" THEN "reverse" ELSE "done"
    /\ UNCHANGED <<lgJob, lgLeft, lgEpisodes, lgWatched, lgSilent, lgCounts>>

LgNext == SweepDate \/ ReadOut

LgSpec == LgInit /\ [][LgNext]_lgVars

-----------------------------------------------------------------------------
(***************************************************************************)
(* Properties                                                              *)
(***************************************************************************)

\* The quote of a leg with two sides that stands at an instant.
QuoteAt(leg, day, at) ==
    LET book == lgJob.book
        rows == Among(book, {i \in DOMAIN book : /\ book[i].leg = leg /\ TwoBids(book[i])
                                                  /\ book[i].at >= LgDays[day].start})
    IN  Mid2(rows[InForce(rows, at)], LgDollar)

\* What was said to answer a move, against the quotes of the tape.
ComesAfter(e) ==
    LET leader   == lgWatched[<<e.leader, e.date>>]
        follower == lgWatched[<<e.follower, e.date>>]
        stood    == QuoteAt(follower, <<e.follower, e.date>>, e.cross)
        moved(q) == (q - stood) * e.direction >= LgBar
        rows     == {x \in Range(lgJob.book) : /\ x.leg = follower /\ TwoBids(x)
                                               /\ x.at >= LgDays[<<e.follower, e.date>>].start}
    IN  /\ e.anchor <= e.cross /\ e.cross < e.answer /\ e.answer <= e.anchor + LgWindow
        /\ \E x \in rows : x.at = e.answer /\ moved(Mid2(x, LgDollar))
        /\ \A x \in rows : e.cross < x.at /\ x.at < e.answer => ~moved(Mid2(x, LgDollar))
        /\ \E a, c \in {x \in Range(lgJob.book) : x.leg = leader /\ TwoBids(x)} :
              /\ a.at = e.anchor /\ c.at = e.cross
              /\ (Mid2(c, LgDollar) - Mid2(a, LgDollar)) * e.direction >= LgBar

\* An answer is never read off the prices that made the move: it comes after
\* the crossing, by the deadline that the anchor set, and is the bar away from
\* where the follower stood when the leader crossed; until then it was not.
AnswersComeAfter == \A r \in Readings : \A e \in lgEpisodes[r] : ComesAfter(e)

\* One ramp is one episode: the spans in which a leader's moves are found do not
\* meet.  And no span from anchor to answer meets an exclusion or leaves the
\* event day of either city.
EpisodesAreApart ==
    \A r \in Readings : \A e \in lgEpisodes[r] :
        /\ \A x \in lgEpisodes[r] : x.leader = e.leader /\ x.follower = e.follower /\ x.date = e.date /\ x # e
                                        => x.cross < e.anchor \/ e.cross < x.anchor
        /\ \A x \in LgMerged : ~(x[1] <= e.answer /\ e.anchor <= x[2])
        /\ \A city \in {e.leader, e.follower} :
              LgDays[<<city, e.date>>].start <= e.anchor /\ e.answer <= LgDays[<<city, e.date>>].end

\* The interval around a median has the lead nearest to it inside, as far as
\* each of its ends was admitted.
HoldsItsMedian(x, S) ==
    LET near == {e \in S : \A f \in S : (2 * e.lead - x.median2) * (2 * e.lead - x.median2)
                                            <= (2 * f.lead - x.median2) * (2 * f.lead - x.median2)}
    IN  x.median2 # NOBOUND =>
            /\ x.low # NOBOUND => \E e \in near : x.low <= e.lead
            /\ x.high # NOBOUND => \E e \in near : e.lead <= x.high
            /\ x.low # NOBOUND /\ x.high # NOBOUND => x.low <= x.high

IntervalsHoldTheirMedian == \A r \in Readings : HoldsItsMedian(lgReadouts[r], lgEpisodes[r])

\* An answer follows its move and was not there before it, one ramp is one
\* episode of the event days of both cities, and the interval of the leads holds
\* the lead nearest to their median (the three properties above, together).
LeadsAreMeasured == AnswersComeAfter /\ EpisodesAreApart /\ IntervalsHoldTheirMedian
=============================================================================

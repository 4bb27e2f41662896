------------------------------ MODULE LadderStudy ------------------------------
(***************************************************************************)
(* The ladder study (bot/lag/ladder_consistency.py and ladder_run.py): how *)
(* often a day's whole ladder, or its two tails, can be taken at once for  *)
(* more than the fees.  The rows of a ladder's legs are read in the order  *)
(* of their arrival; each leaves a state, the last row of every leg.       *)
(* Prices are cents; an excess is in parts of a cent, LdUnit of them.      *)
(***************************************************************************)
EXTENDS LockEvents

CONSTANTS
    LdLegs,         \* how many legs a ladder has
    LdFee(_, _),    \* what a taker is charged for a count at a price
    LdUnit,         \* a multiple of every depth
    LdTick,         \* what crossing a leg's spread is put at
    LdDepthMin, LdPersist, LdBar, LdMinDays,
    LdTemps,        \* the degrees that a day may settle at
    LdJobs          \* [book: rows [id, leg, at, bid, bidDepth, ask, askDepth]; recorded: series]

VARIABLES
    ldJob,
    ldLeft,     \* the series still to sweep
    ldCounts,   \* of each stream
    ldScreened, \* the candidates and what the screen did to them
    ldIncomplete,   \* the days without a ladder
    ldKept,     \* the admitted episodes
    ldVerdict

ldVars == <<ldJob, ldLeft, ldCounts, ldScreened, ldIncomplete, ldKept, ldVerdict>>

Streams == {"sum_buy", "sum_sell", "monotonicity"}

\* A day lists no more legs than LADDER_LEGS; where it lists as many, one of
\* them is paid at every degree.  The names tell tails from brackets.
ASSUME LadderAssumption ==
    /\ IsFiniteSet(LkNames) /\ LkDollar \in Nat /\ LkDayLength \in Nat \ {0}
    /\ \A l \in LkNames : /\ LkLegs[l].kind \in {"bracket", "above", "below"}
                          /\ LkLegs[l].kind = "bracket" <=> LkLegs[l].listed = "bracket"
    /\ \A d \in DOMAIN LkDays : Cardinality(LadderOf(d)) <= LdLegs
    /\ \A d \in DOMAIN LkDays : Cardinality(LadderOf(d)) = LdLegs => \A temp \in LdTemps :
           Cardinality({l \in LadderOf(d) : SettlesYes(l, LkLegs[l].listed, temp)}) = 1

\* The files of a ladder come in the order of their dates, and a row with a
\* later id in one of them arrived later.  LdUnit divides by the depths.
ASSUME LadderBookAssumption ==
    /\ LdLegs \in Nat /\ LdUnit \in Nat \ {0} /\ LdTick \in Int /\ LdPersist \in Int
    /\ \A j \in LdJobs :
          /\ Len(j.book) \in Nat /\ DOMAIN j.book = 1..Len(j.book)
          /\ \A i \in DOMAIN j.book :
                LET r == j.book[i]
                IN  /\ r.leg \in LkNames /\ {r.id, r.at, r.bid, r.ask} \subseteq Int
                    /\ \A n \in {r.bidDepth, r.askDepth} : n \in Nat /\ (n > 0 => LdUnit % n = 0)
          /\ \A i, k \in DOMAIN j.book :
                LET q == j.book[i]
                    r == j.book[k]
                IN  /\ LdFee(q.askDepth, r.ask) \in Int /\ LdFee(q.bidDepth, r.bid) \in Int
                    /\ i < k /\ q.at > r.at /\ DayOfLeg(q.leg) = DayOfLeg(r.leg) =>
                           q.at \div LkDayLength = r.at \div LkDayLength /\ q.id > r.id

\* StreamTally and ScreenTally at first.
NoEpisodes   == [c \in {"found", "tradeable", "kept", "censored", "incomplete"} |-> 0]
NoCandidates == [c \in {"candidates", "excluded", "outside"} |-> 0]

LdStart(j) ==
    /\ ldJob = j
    /\ ldLeft = Ordered({d[1] : d \in DOMAIN LkDays}, LkSeriesOrder)
    /\ ldCounts = [s \in Streams |-> NoEpisodes]
    /\ ldScreened = NoCandidates
    /\ ldIncomplete = {} /\ ldKept = {} /\ ldVerdict = "none"

LdInit == \E j \in LdJobs : LdStart(j)

DatesOf(day) == WindowDates(LkDays[day].start, LkDays[day].end, LkDayLength)

\* census: the legs with a row on the arrival days of any of the series' days.
OnTape(day) ==
    LET dates == UNION {DatesOf(d) : d \in {x \in DOMAIN LkDays : x[1] = day[1]}}
    IN  {r.leg : r \in {x \in Range(ldJob.book) : DayOfLeg(x.leg) = day /\ x.at \div LkDayLength \in dates}}

\* build_ladder: the legs, if they are as many as a ladder has and one of them
\* is its lower and one its upper tail.
TailsOf(legs, kind) == {l \in legs : KindIn(l, legs) = kind}
IsLadder(legs) ==
    /\ Cardinality(legs) = LdLegs
    /\ \A kind \in {"below", "above"} : Cardinality(TailsOf(legs, kind)) = 1

\* read_legs: whole arrival days, so the rows before the event day and after it.
RowsOfLadder(day, legs) ==
    Among(ldJob.book, {i \in DOMAIN ldJob.book : /\ ldJob.book[i].leg \in legs
                                                 /\ ldJob.book[i].at \div LkDayLength \in DatesOf(day)})

\* The legs of a stream's package.
PackageOf(stream, legs) ==
    IF stream = "monotonicity" THEN TailsOf(legs, "below") \cup TailsOf(legs, "above") ELSE legs

\* build_ladder_tape: the last row of a leg up to a row.
CarriedRow(rows, leg, i) == rows[Max({j \in 1..i : rows[j].leg = leg})]

\* What taking a package charges: the sum of its prices, and the fees for a
\* count of each.  A book is a row of each leg.
LadderPrice(stream, row) == IF stream = "sum_buy" THEN row.ask ELSE row.bid
LadderSize(stream, row)  == IF stream = "sum_buy" THEN row.askDepth ELSE row.bidDepth

LadderTotal(stream, book)   == MapThenSumSet(LAMBDA l : LadderPrice(stream, book[l]), DOMAIN book)
LadderFees(stream, book, n) == MapThenSumSet(LAMBDA l : LdFee(n, LadderPrice(stream, book[l])), DOMAIN book)
LadderDepth(stream, book) == Min({LadderSize(stream, book[l]) : l \in DOMAIN book})

\* _stream_states, for a state in which every leg of the package is live, and
\* _floor_at, taken off its magnitude where the package can be taken at all.
StateOf(stream, rows, package, i) ==
    LET book  == [l \in package |-> CarriedRow(rows, l, i)]
        total == LadderTotal(stream, book)
        over  == IF stream = "sum_buy" THEN LkDollar - total ELSE total - LkDollar
        depth == LadderDepth(stream, book)
        holds == over > 0 /\ depth > 0
    IN  [i |-> i, at |-> rows[i].at, holds |-> holds, depth |-> depth,
         excess |-> IF holds
                    THEN LdUnit * (over - LdTick * Cardinality(package))
                             - (LdUnit * LadderFees(stream, book, depth)) \div depth
                    ELSE 0]

\* Mutant: an episode is read where it begins.
StateItBeginsWith(run) ==
    CHOOSE s \in run : \A q \in run : s.i <= q.i

\* _worst_state: the first of the states of the least excess.
WorstState(run) ==
    CHOOSE s \in run : \A q \in run : s.excess < q.excess \/ (s.excess = q.excess /\ s.i <= q.i)

\* _episode: a run of states that hold, and the state that closes it.
EpisodeOf(stream, day, run) ==
    LET first == CHOOSE s \in run.states : \A q \in run.states : s.i <= q.i
        worst == WorstState(run.states)
    IN  [day |-> day, stream |-> stream, first |-> first.i, start |-> first.at, end |-> run.close.at,
         excess |-> worst.excess, depth |-> worst.depth,
         tradeable |-> /\ run.close.at - first.at >= LdPersist
                       /\ worst.excess > 0 /\ worst.depth >= LdDepthMin]

\* A stream's view of a ladder: the states from the first in which every leg
\* of its package is live.
ViewOf(stream, ladder) ==
    LET package == PackageOf(stream, ladder.legs)
        live    == {i \in DOMAIN ladder.rows :
                       \A l \in package : \E j \in 1..i : ladder.rows[j].leg = l}
    IN  [stream |-> stream, day |-> ladder.day, rows |-> Len(ladder.rows),
         states |-> {StateOf(stream, ladder.rows, package, i) : i \in live}]

\* ladder_episodes of a stream: each maximal run of states that hold, and the
\* row that ends it; a run that the tape ends is dropped.
EpisodesOf(view) ==
    LET holding  == {s \in view.states : s.holds}
        firsts   == {s \in holding : ~\E q \in holding : q.i = s.i - 1}
        after(s) == {q \in view.states : q.i > s.i /\ ~q.holds}
        close(s) == CHOOSE q \in after(s) : \A r \in after(s) : q.i <= r.i
        runs     == {[states |-> {q \in holding : s.i <= q.i /\ q.i < close(s).i}, close |-> close(s)] :
                        s \in {x \in firsts : after(x) # {}}}
    IN  [stream |-> view.stream, day |-> view.day,
         found |-> {EpisodeOf(view.stream, view.day, r) : r \in runs},
         censored |-> Cardinality({x \in firsts : after(x) = {}}),
         incomplete |-> view.rows - Cardinality(view.states)]

OutOfOrder(rows) == \E i \in 1..(Len(rows) - 1) : rows[i].id > rows[i + 1].id

\* The days of a series on which a ladder is on tape, and what they are read as.
DaysOfSeries(series)  == {d \in DOMAIN LkDays : d[1] = series}
CompleteDays(series)  == {d \in DaysOfSeries(series) : IsLadder(OnTape(d))}
TapeOfLadder(day)     == [day |-> day, legs |-> OnTape(day), rows |-> RowsOfLadder(day, OnTape(day))]
StreamsOn(day)        == {EpisodesOf(ViewOf(s, TapeOfLadder(day))) : s \in Streams}
EpisodesOn(series)    == UNION {StreamsOn(d) : d \in CompleteDays(series)}
FateOf(e)             == Screen(LkDays[e.day], LkMerged, e.start, e.end)
OfStream(S, s)        == Cardinality({e \in S : e.stream = s})

\* StreamTally.add and ScreenTally.add
CensoredIn(read, s)   == MapThenSumSet(LAMBDA x : x.censored, {x \in read : x.stream = s})
IncompleteIn(read, s) == MapThenSumSet(LAMBDA x : x.incomplete, {x \in read : x.stream = s})

Tally(counts, read, found, offered, kept) ==
    [s \in Streams |->
        [found |-> counts[s].found + OfStream(found, s),
         tradeable |-> counts[s].tradeable + OfStream(offered, s),
         kept |-> counts[s].kept + OfStream(kept, s),
         censored |-> counts[s].censored + CensoredIn(read, s),
         incomplete |-> counts[s].incomplete + IncompleteIn(read, s)]]

ScreenedWith(screened, offered) ==
    [candidates |-> screened.candidates + Cardinality(offered),
     excluded |-> screened.excluded + Cardinality({e \in offered : FateOf(e) = "excluded"}),
     outside |-> screened.outside + Cardinality({e \in offered : FateOf(e) = "out_of_window"})]

\* sweep_ladders, for one series; the run ends with an error where the frozen
\* days are not those of the recorded series, or where rows are out of order.
SweepSeries ==
    /\ ldVerdict = "none" /\ ldLeft # <<>>
    /\ LET series == Head(ldLeft)
       IN  IF \/ ldJob.recorded # {d[1] : d \in DOMAIN LkDays}
              \/ \E d \in CompleteDays(series) : OutOfOrder(TapeOfLadder(d).rows)
           THEN ldVerdict' = "raised" /\ UNCHANGED <<ldCounts, ldScreened, ldIncomplete, ldKept>>
           ELSE \E read \in {EpisodesOn(series)} :
                LET found   == UNION {x.found : x \in read}
                    offered == {e \in found : e.tradeable}
                    kept    == {e \in offered : FateOf(e) = "kept"}
                IN  /\ ldIncomplete' = ldIncomplete \cup (DaysOfSeries(series) \ CompleteDays(series))
                    /\ ldKept' = ldKept \cup kept
                    /\ ldScreened' = ScreenedWith(ldScreened, offered)
                    /\ ldCounts' = Tally(ldCounts, read, found, offered, kept)
                    /\ UNCHANGED ldVerdict
    /\ ldLeft' = Tail(ldLeft)
    /\ UNCHANGED ldJob

\* readout: the admitted episodes of a split, in clusters of a city and a day.
AdmittedIn(discovery) == {e \in ldKept : (e.day[2] \in LkDiscovery) = discovery}
CityDaysOf(S) == {e.day : e \in S}
MedianExcess2(S) == TwiceMedianOf(S, LAMBDA e : e.excess)

\* decide: an edge under the bar is closed, whatever the resamples say; too few
\* days are rarity, which closes the question too.
DecideLadder ==
    /\ ldVerdict = "none" /\ ldLeft = <<>>
    /\ LET discovery == AdmittedIn(TRUE)
           holdout   == AdmittedIn(FALSE)
           economic  == MedianExcess2(discovery) >= 2 * LdBar
           alike(S)  == Cardinality({e.excess : e \in S}) = 1 \/ Cardinality(CityDaysOf(S)) = 1
       IN  \E significant \in [{"gate", "holdout"} -> BOOLEAN], tied \in BOOLEAN :
             ldVerdict' =
               IF discovery = {} THEN "CLOSED"
               ELSE IF ~economic \/ holdout = {} THEN "CLOSED"
               ELSE IF tied \/ alike(discovery) \/ alike(holdout) THEN "UNDECIDABLE"
               ELSE IF /\ significant["gate"] /\ significant["holdout"]
                       /\ Cardinality(CityDaysOf(discovery)) >= LdMinDays
                       /\ 2 * MedianExcess2(holdout) >= MedianExcess2(discovery)
                       /\ 2 * Cardinality(CityDaysOf(holdout)) >= LdMinDays
               THEN "PASS" ELSE "CLOSED"
    /\ UNCHANGED <<ldJob, ldLeft, ldCounts, ldScreened, ldIncomplete, ldKept>>

LdNext == SweepSeries \/ DecideLadder

LdSpec == LdInit /\ [][LdNext]_ldVars

-----------------------------------------------------------------------------
(***************************************************************************)
(* Properties                                                              *)
(***************************************************************************)

\* The last row of a leg at an instant.
BookAt(leg, at) ==
    LET rows == OfLeg(ldJob.book, leg)
    IN  rows[InForce(rows, at)]

\* What the package of a stream leaves for one contract at an instant, after
\* its costs and with the day settled at a temperature.
LeavesAt(stream, day, at, temp) ==
    LET legs  == {l \in LadderOf(day) : stream # "monotonicity" \/ LkLegs[l].listed # "bracket"}
        won   == LkDollar * Cardinality({l \in legs : SettlesYes(l, LkLegs[l].listed, temp)})
        book  == [l \in legs |-> BookAt(l, at)]
        depth == LadderDepth(stream, book)
        paid  == LadderTotal(stream, book)
    IN  depth * ((IF stream = "sum_buy" THEN won - paid ELSE paid - won) - LdTick * Cardinality(legs))
            - LadderFees(stream, book, depth)

\* An admitted episode could be taken at every instant of its span for more
\* than it costs, whatever temperature then settled the day: every leg has a
\* book at that instant, and no more than one leg of a ladder is paid.  The
\* span is long enough, of the event day, and meets no exclusion.
EpisodesPayThroughout ==
    \A e \in ldKept :
        /\ e.end - e.start >= LdPersist
        /\ LkDays[e.day].start <= e.start /\ e.end <= LkDays[e.day].end
        /\ \A x \in LkMerged : \A u \in e.start..e.end : ~(x[1] <= u /\ u <= x[2])
        /\ \A u \in e.start..(e.end - 1) :
              /\ \A l \in PackageOf(e.stream, LadderOf(e.day)) : InForce(OfLeg(ldJob.book, l), u) > 0
              /\ \A temp \in LdTemps : LeavesAt(e.stream, e.day, u, temp) > 0

\* Every offered package is kept or counted by what it was screened for.
Counted(c) == MapThenSumSet(LAMBDA s : ldCounts[s][c], Streams)

CandidatesAddUp ==
    /\ ldScreened.candidates = Counted("tradeable")
    /\ Counted("tradeable") = Counted("kept") + ldScreened.excluded + ldScreened.outside
    /\ Counted("kept") = Cardinality(ldKept)

LadderIsTakeable == EpisodesPayThroughout /\ CandidatesAddUp

\* "An episode tradeable under this reading was tradeable at every instant it
\* held" (ladder_consistency.py:256): of its size too.
TradeableAtEveryInstant ==
    \A e \in ldKept : \A u \in e.start..(e.end - 1) :
        \A l \in PackageOf(e.stream, LadderOf(e.day)) :
            LdDepthMin <= IF e.stream = "sum_buy" THEN BookAt(l, u).askDepth ELSE BookAt(l, u).bidDepth
=============================================================================

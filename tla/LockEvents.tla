------------------------------ MODULE LockEvents -------------------------------
(***************************************************************************)
(* When the readings of a station settle a market before its day is over   *)
(* (bot/lag/lock_events.py, with resolve_event_kinds of markets/parser.py  *)
(* and settles_yes of forecast_probability.py).  The day of a falling      *)
(* ladder is the mirror image of a rising one.                             *)
(***************************************************************************)
EXTENDS TapeStudy, TapeStats

CONSTANTS
    LkLegs,     \* the legs: [series, date, kind, lo, hi], the kind as its name is
                \* read on its own, and the kind that the venue listed
    LkFalling,  \* the series of daily lows
    LkDays,     \* the frozen event days: <<series, date>> -> [start, end, station]
    LkMargin,   \* what a recorded reading may be rounded by
    LkDiscovery,    \* the dates of the discovery split
    LkDependent,    \* the series of the universe that locks are studied in
    LkMerged,       \* the exclusions, as <<from, to>>
    LkSeriesOrder,  \* the order of the series' names
    LkDayLength, LkDollar

ASSUME LockAssumption ==
    /\ IsFiniteSet(DOMAIN LkDays) /\ LkMerged \subseteq Int \X Int
    /\ \A d \in DOMAIN LkDays : LkDays[d].start \in Int /\ LkDays[d].end \in Int
    /\ \A d \in DOMAIN LkDays : LkSeriesOrder[d[1]] \in Int
    /\ \A c, d \in DOMAIN LkDays : LkSeriesOrder[c[1]] = LkSeriesOrder[d[1]] => c[1] = d[1]

LkNames == DOMAIN LkLegs
DayOfLeg(l) == <<LkLegs[l].series, LkLegs[l].date>>
LadderOf(day) == {l \in LkNames : DayOfLeg(l) = day}

Mirrored(series, x) == IF series \in LkFalling THEN -x ELSE x

\* resolve_event_kinds: of the open-ended legs of a ladder the lowest is its
\* lower tail.
KindIn(l, legs) ==
    LET tails == {m \in legs : LkLegs[m].kind = "above"}
    IN  IF l \in tails /\ Cardinality(tails) > 1 /\ \A m \in tails : LkLegs[l].lo <= LkLegs[m].lo
        THEN "below" ELSE LkLegs[l].kind

\* settles_yes
SettlesYes(l, kind, temp) ==
    CASE kind = "bracket" -> LkLegs[l].lo <= temp /\ temp <= LkLegs[l].hi
      [] kind = "above"   -> temp > LkLegs[l].lo
      [] kind = "below"   -> temp < LkLegs[l].lo

\* A side that wins at equality is reached at its strike, the other past it.
Reaches(lock, temp, margin) ==
    LET t == Mirrored(lock.series, temp)
        k == Mirrored(lock.series, lock.strike) + margin
    IN  IF lock.side = "yes" THEN t >= k ELSE t > k

\* The side that a day's extreme can settle, and the strike that it passes.
LockOf(l, kind) ==
    LET series  == LkLegs[l].series
        falling == series \in LkFalling
    IN  [leg |-> l, series |-> series,
         side |-> IF kind = (IF falling THEN "below" ELSE "above") THEN "yes" ELSE "no",
         strike |-> IF kind = "bracket" /\ ~falling THEN LkLegs[l].hi ELSE LkLegs[l].lo]

InWindow(day, readings) == {r \in readings : LkDays[day].start <= r.valid /\ r.valid < LkDays[day].end}

\* The extreme of the day when a reading is taken.
Extreme(series, readings, at) ==
    Mirrored(series, Max({Mirrored(series, r.temp) : r \in {x \in readings : x.valid <= at}}))

\* detect_lock_events: the first crossing, though it is within the margin: one
\* past the margin later in the day is not a second one.  Readings of one
\* valid_time count together: the code's stable sort tells them apart by the order
\* in which they were recorded.
Detected(l, kind, readings) ==
    LET lock    == LockOf(l, kind)
        window  == InWindow(DayOfLeg(l), readings)
        temp(r) == Extreme(lock.series, window, r.valid)
        crossed == {r \in window : Reaches(lock, temp(r), 0)}
    IN  {[leg |-> l, series |-> lock.series, side |-> lock.side, strike |-> lock.strike,
          at |-> r.at, temp |-> temp(r), ambiguous |-> ~Reaches(lock, temp(r), LkMargin)] :
            r \in {x \in crossed : \A y \in crossed : x.valid <= y.valid}}

\* clears_strike
Clears(lock, temp) == Reaches(lock, temp, LkMargin)

\* scan_locks of a station-day, and survey_lock_supply's.
LadderLocks(legs, readings) == UNION {Detected(l, KindIn(l, legs), readings) : l \in legs}

\* scan_locks of near_lock.py, which reads every leg on its own.
LoneLocks(legs, readings) == UNION {Detected(l, LkLegs[l].kind, readings) : l \in legs}
=============================================================================

------------------------------- MODULE LockStudy -------------------------------
(***************************************************************************)
(* The lock studies: how many markets are settled by their readings before *)
(* the day is over (bot/lag/lock_supply.py), and how long the book of one  *)
(* takes to say so (bot/lag/lock_convergence.py).  Readings are the frozen *)
(* archive's, stamped with the minute they are of; the tape is read one    *)
(* station-day at a time.                                                  *)
(***************************************************************************)
EXTENDS LockEvents

CONSTANTS
    LkBand, LkPersist, LkThreshold, LkMinDays, LkJobs,
    UNCONVERGED

\* A ladder that is read whole is the one that the venue listed, and the rows
\* of a market are in the order in which they arrived.
ASSUME LockStudyAssumption ==
    /\ LkMargin \in Int /\ LkPersist \in Nat /\ UNCONVERGED \notin Int
    /\ \A l \in LkNames :
          /\ LkLegs[l].lo \in Int
          /\ LkLegs[l].listed \in {"bracket", "above", "below"}
          /\ LkLegs[l].listed = "bracket" => LkLegs[l].hi \in Int
          /\ KindIn(l, LadderOf(DayOfLeg(l))) = LkLegs[l].listed
    /\ \A j \in LkJobs :
          /\ \A s \in DOMAIN j.readings : IsFiniteSet(j.readings[s])
          /\ \A s \in DOMAIN j.readings : \A r \in j.readings[s] :
                r.valid \in Int /\ r.at \in Int /\ r.temp \in Int
          /\ Len(j.book) \in Nat /\ DOMAIN j.book = 1..Len(j.book)
          /\ \A i \in DOMAIN j.book : j.book[i].at \in Int
          /\ \A i, k \in DOMAIN j.book : i < k /\ j.book[i].leg = j.book[k].leg
                                          => j.book[i].at <= j.book[k].at

VARIABLES
    lkJob,      \* [readings, settles: by station and date; arrivals: by station; book, prints: rows; roots]
    lkSupply,   \* the counts of each station-day
    lkLocks,    \* the clean locks
    lkCounts,   \* what else the study counted
    lkLeft,     \* the station-days still to sweep
    lkKept,     \* the half-lives whose evidence survived the screen
    lkVerdict, lkPhase

lkVars == <<lkJob, lkSupply, lkLocks, lkCounts, lkLeft, lkKept, lkVerdict, lkPhase>>

StationOf(day) == LkDays[day].station
RecordedOn(day) == <<StationOf(day), day[2]>>
ReadingsOf(day) ==
    IF RecordedOn(day) \in DOMAIN lkJob.readings THEN lkJob.readings[RecordedOn(day)] ELSE {}

NoCounts ==
    [c \in {"markets", "ambiguous", "noLock", "unobserved", "stationDays", "unsettled", "contradicts",
            "noBook", "taking", "providing", "dropped", "excluded", "outside"} |-> 0]

AddedTo(counts, more) == [c \in DOMAIN counts |-> counts[c] + (IF c \in DOMAIN more THEN more[c] ELSE 0)]

LkStart(j) ==
    /\ lkJob = j /\ lkSupply = <<>> /\ lkLocks = {} /\ lkCounts = NoCounts
    /\ lkLeft = <<>> /\ lkKept = {} /\ lkVerdict = "" /\ lkPhase = "survey"

LkInit == \E j \in LkJobs : LkStart(j)

\* survey_lock_supply, from the frozen list of markets: the locks of the first
\* reading of the day are kept apart from those of the middle of it.
Survey ==
    /\ lkPhase = "survey"
    /\ LET mixed == lkJob.roots \cap LkFalling # {} /\ ~(lkJob.roots \subseteq LkFalling)
           row(day) ==
               LET window == InWindow(day, ReadingsOf(day))
                   first  == CHOOSE r \in window : \A x \in window : r.valid <= x.valid
                   found  == LadderLocks(LadderOf(day), ReadingsOf(day))
                   clean  == {k \in found : ~k.ambiguous}
                   open   == {k \in clean : k.at = first.at}
               IN  [readings |-> Cardinality(window), markets |-> Cardinality(LadderOf(day)),
                    clean |-> Cardinality(clean), ambiguous |-> Cardinality(found \ clean),
                    windowOpen |-> Cardinality(open), midDay |-> Cardinality(clean \ open)]
           days == {d \in DOMAIN LkDays : d[1] \in lkJob.roots /\ LadderOf(d) # {}}
       IN  lkSupply' = IF mixed THEN <<>> ELSE [d \in days |-> row(d)]
    /\ lkPhase' = "scan"
    /\ UNCHANGED <<lkJob, lkLocks, lkCounts, lkLeft, lkKept, lkVerdict>>

\* census: the legs with a row in a file of the days that a series is swept on.
Census(day) ==
    LET dates == UNION {WindowDates(LkDays[d].start, LkDays[d].end, LkDayLength) :
                           d \in {x \in DOMAIN LkDays : x[1] = day[1]}}
    IN  {l \in LadderOf(day) : \E i \in DOMAIN lkJob.book :
             lkJob.book[i].leg = l /\ lkJob.book[i].at \div LkDayLength \in dates}

\* The station-days with a lock, by series and then by date.
SweepOrder(days) ==
    SetToSortSeq(days, LAMBDA c, d : LkSeriesOrder[c[1]] < LkSeriesOrder[d[1]]
                                     \/ (c[1] = d[1] /\ c[2] < d[2]))

\* scan_locks
ScanLocks ==
    /\ lkPhase = "scan"
    /\ LET days    == {d \in DOMAIN LkDays : d[1] \in LkDependent}
           read    == {d \in days : RecordedOn(d) \in DOMAIN lkJob.readings}
           found   == UNION {LadderLocks(Census(d), ReadingsOf(d)) : d \in read}
           markets == UNION {Census(d) : d \in days}
           seen    == UNION {Census(d) : d \in read}
           clean   == {k \in found : ~k.ambiguous}
       IN  IF days = {} THEN lkPhase' = "raised" /\ UNCHANGED <<lkLocks, lkCounts, lkLeft>>
           ELSE /\ lkLocks' = clean
                /\ lkCounts' = AddedTo(NoCounts,
                       [markets |-> Cardinality(markets), ambiguous |-> Cardinality(found \ clean),
                        noLock |-> Cardinality(seen) - Cardinality(found),
                        unobserved |-> Cardinality(markets \ seen)])
                /\ lkLeft' = SweepOrder({DayOfLeg(k.leg) : k \in clean})
                /\ lkPhase' = "sweep"
    /\ UNCHANGED <<lkJob, lkSupply, lkKept, lkVerdict>>

\* in_band: a book with an empty side is in no band.
InBand(row, side) ==
    /\ TwoSided(row)
    /\ IF side = "yes" THEN Mid2(row, LkDollar) >= LkBand
       ELSE Mid2(row, LkDollar) <= 2 * LkDollar - LkBand

\* Mutant: only the book at the end of the persistence has to hold.
ConvergedAtEnds(rows, lock, end) ==
    LET holds(u) == /\ InForce(rows, u) > 0 /\ InBand(rows[InForce(rows, u)], lock.side)
                    /\ InBand(rows[InForce(rows, u + LkPersist)], lock.side)
        able == {u \in {lock.at} \cup {r.at : r \in {x \in Range(rows) : x.at > lock.at}} :
                    u + LkPersist <= end /\ holds(u)}
    IN  IF able = {} THEN UNCONVERGED ELSE Min(able)

\* converged: the lock or the first row after it from which on the book stays
\* in the band; not one whose persistence the event day cuts off.
Converged(rows, lock, end) ==
    LET holds(u) == /\ InForce(rows, u) > 0
                    /\ \A i \in InForce(rows, u)..InForce(rows, u + LkPersist) : InBand(rows[i], lock.side)
        able == {u \in {lock.at} \cup {r.at : r \in {x \in Range(rows) : x.at > lock.at}} :
                    u + LkPersist <= end /\ holds(u)}
    IN  IF able = {} THEN UNCONVERGED ELSE Min(able)

\* read_window of a market's rows, whose ends both belong to it.
RowsIn(rows, leg, day) ==
    Among(rows, {i \in DOMAIN rows : /\ rows[i].leg = leg
                                     /\ LkDays[day].start <= rows[i].at /\ rows[i].at <= LkDays[day].end})

\* A lock's half-life, which the end of the day censors, and its evidence.
Measure(lock, day) ==
    LET end  == LkDays[day].end
        conv == Converged(RowsIn(lkJob.book, lock.leg, day), lock, end)
        done == conv # UNCONVERGED
    IN  [lock |-> lock, day |-> day, half |-> (IF done THEN conv ELSE end) - lock.at, censored |-> ~done,
         fate |-> Screen(LkDays[day], LkMerged, lock.at, IF done THEN conv + LkPersist ELSE end)]

\* post_lock_fills: who took, after the lock, from whom.
FillsOf(lock, day) ==
    LET prints == RowsIn(lkJob.prints, lock.leg, day)
        after  == {i \in DOMAIN prints : prints[i].at > lock.at}
        kept   == {i \in after : Screen(LkDays[day], LkMerged, prints[i].at, prints[i].at) = "kept"}
        side(yes) == Cardinality({i \in kept : prints[i].taker \in {"yes", "no"}
                                               /\ (prints[i].taker = lock.side) = yes})
    IN  [taking |-> side(FALSE), providing |-> side(TRUE), dropped |-> Cardinality(after \ kept)]

\* One station-day of sweep_convergence; a day that is not settled is counted
\* and left out.
SweepDay ==
    /\ lkPhase = "sweep" /\ lkLeft # <<>>
    /\ LET day   == Head(lkLeft)
           locks == {k \in lkLocks : DayOfLeg(k.leg) = day}
           known == RecordedOn(day) \in DOMAIN lkJob.settles
           measures == {Measure(k, day) : k \in locks}
           fills == {[leg |-> k.leg] @@ FillsOf(k, day) : k \in locks}
           count(f) == Cardinality({m \in measures : m.fate = f})
       IN  IF ~known
           THEN /\ lkCounts' = AddedTo(lkCounts, [stationDays |-> 1, unsettled |-> 1])
                /\ UNCHANGED lkKept
           ELSE /\ lkKept' = lkKept \cup {m \in measures : m.fate = "kept"}
                /\ lkCounts' = AddedTo(lkCounts,
                       [stationDays |-> 1,
                        contradicts |-> Cardinality({k \in locks : ~Clears(k, lkJob.settles[RecordedOn(day)])}),
                        noBook |-> Cardinality({k \in locks :
                                       InForce(RowsIn(lkJob.book, k.leg, day), k.at) = 0}),
                        taking |-> MapThenSumSet(LAMBDA x : x.taking, fills),
                        providing |-> MapThenSumSet(LAMBDA x : x.providing, fills),
                        dropped |-> MapThenSumSet(LAMBDA x : x.dropped, fills),
                        excluded |-> count("excluded"), outside |-> count("out_of_window")])
    /\ lkLeft' = Tail(lkLeft)
    /\ lkPhase' = IF Len(lkLeft) = 1 THEN "decide" ELSE "sweep"
    /\ UNCHANGED <<lkJob, lkSupply, lkLocks, lkVerdict>>

\* readout: the half-lives of a split, in clusters of a station and a date.
Half(discovery) == {m \in lkKept : (m.day[2] \in LkDiscovery) = discovery}
ClustersIn(S) == {RecordedOn(m.day) : m \in S}
MedianHalf2(S) == TwiceMedianOf(S, LAMBDA m : m.half)

\* decide: a median over the bar, that the resamples do not call into doubt and
\* that the holdout repeats.
DecideLocks ==
    /\ lkPhase \in {"sweep", "decide"} /\ lkLeft = <<>>
    /\ LET discovery == Half(TRUE)
           holdout   == Half(FALSE)
           economic  == MedianHalf2(discovery) >= 2 * LkThreshold
           alike(S)  == Cardinality({m.half : m \in S}) = 1 \/ Cardinality(ClustersIn(S)) = 1
           magnitude == 2 * MedianHalf2(holdout) >= MedianHalf2(discovery)
           powered   == 2 * Cardinality(ClustersIn(holdout)) >= LkMinDays
       IN  \E significant \in [{"gate", "holdout"} -> BOOLEAN], tied \in BOOLEAN :
             LET doubt == tied \/ alike(discovery) \/ alike(holdout)
             IN  lkVerdict' =
                   CASE Cardinality(ClustersIn(discovery)) < LkMinDays -> "UNDERPOWERED"
                     [] OTHER ->
                        IF ~economic \/ holdout = {} THEN "CLOSED"
                        ELSE IF doubt THEN "UNDECIDABLE"
                        ELSE IF /\ significant["gate"] /\ significant["holdout"]
                                /\ magnitude /\ powered
                        THEN "PASS" ELSE "CLOSED"
    /\ lkPhase' = "done"
    /\ UNCHANGED <<lkJob, lkSupply, lkLocks, lkCounts, lkLeft, lkKept>>

LkNext == Survey \/ ScanLocks \/ SweepDay \/ DecideLocks

LkSpec == LkInit /\ [][LkNext]_lkVars

-----------------------------------------------------------------------------
(***************************************************************************)
(* Properties                                                              *)
(***************************************************************************)

\* A lock that the studies call clean is of the side that is paid: whatever is
\* read later that day, and though the settled extreme is rounded by less than
\* the margin.  The whole ladder has to be on the tape, since a lower tail that
\* is read alone is taken for an upper one.
CleanLocksHold ==
    \A k \in lkLocks :
        LET day  == DayOfLeg(k.leg)
            peak == Extreme(day[1], InWindow(day, ReadingsOf(day)), LkDays[day].end)
        IN  Census(day) = LadderOf(day) =>
                \A temp \in (peak - LkMargin + 1)..(peak + LkMargin - 1) :
                    SettlesYes(k.leg, LkLegs[k.leg].listed, temp) = (k.side = "yes")

\* The two studies count the same locks where they see the same markets.
StudiesAgreeOnLocks ==
    lkPhase \notin {"survey", "scan", "raised"} =>
        \A d \in DOMAIN lkSupply :
            d[1] \in LkDependent /\ Census(d) = LadderOf(d) =>
                lkSupply[d].clean = Cardinality({k \in lkLocks : DayOfLeg(k.leg) = d})

\* A half-life ends at the first instant from which the book is in the band for
\* the whole persistence, and only a day that ends first cuts it off: checked
\* instant by instant against the rows of the day.
HalfLivesFollowTheBook ==
    \A m \in lkKept :
        LET rows == RowsIn(lkJob.book, m.lock.leg, m.day)
            quoted(u) == InForce(rows, u) > 0 /\ InBand(rows[InForce(rows, u)], m.lock.side)
            stays(u)  == /\ \A v \in u..(u + LkPersist) : quoted(v)
                         /\ \A i \in DOMAIN rows : u < rows[i].at /\ rows[i].at <= u + LkPersist
                                                     => InBand(rows[i], m.lock.side)
            until == m.lock.at + m.half
        IN  /\ \A u \in m.lock.at..(until - 1) : u + LkPersist <= LkDays[m.day].end => ~stays(u)
            /\ IF m.censored THEN until = LkDays[m.day].end ELSE stays(until)

LocksAreMeasuredRight == CleanLocksHold /\ StudiesAgreeOnLocks /\ HalfLivesFollowTheBook
=============================================================================

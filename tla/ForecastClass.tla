----------------------------- MODULE ForecastClass ----------------------------
(***************************************************************************)
(* The forecast-source study (bot/lag/forecast_sample.py, forecast_classes *)
(* .py, forecast_entry.py and forecast_class_run.py, with the freezers in  *)
(* scripts/): a sample of markets priced at a lead before their close, the *)
(* daily highs that three classes of forecast had issued by then, a blend  *)
(* of them fitted on discovery days, and what buying the side it favours   *)
(* earned on holdout days.  Every input is frozen as a body and a sidecar  *)
(* that vouches for it.  Prices and chances are in percent.                *)
(***************************************************************************)
EXTENDS TapeStudy, TapeStats

CONSTANTS
    FcMarkets,      \* [station, date, close, strike] of each market
    FcCandidates,   \* the candidate days in order: every fourth was read before
    FcBoundary,     \* the first holdout day
    FcGating, FcReported,       \* the two leads
    FcOffset,       \* the age of a composite, by lead
    FcDay, FcHour,  \* the length of a day, and of the step of a forecast
    FcDepthWindow, FcSize, FcTick,
    FcEras,         \* [from, cap] of each era of the tape, in order
    FcPreCap,       \* the cap before the first
    FcAllowance,    \* how long a model run takes to appear
    FcMembers,      \* the members of each class
    FcChance(_, _), \* the chance of a market under a daily high
    FcMinDays,
    FcJobs,         \* [prints, results, composites, bulletins, runs]
    NOCAP           \* an era whose prints never go stale

VARIABLES fcJob, fcDisk, fcWriting, fcSample, fcRecords, fcEntries, fcVerdict

fcVars == <<fcJob, fcDisk, fcWriting, fcSample, fcRecords, fcEntries, fcVerdict>>

FcLegs    == DOMAIN FcMarkets
FcClasses == DOMAIN FcMembers
FcLeads   == {FcGating, FcReported}
Blended   == UNION Range(FcMembers)

\* The ladders of one event close together: the barrier below relies on it.
ASSUME FcOneClose ==
    \A l, m \in FcLegs : /\ FcMarkets[l].station = FcMarkets[m].station
                         /\ FcMarkets[l].date = FcMarkets[m].date
                         => FcMarkets[l].close = FcMarkets[m].close

\* Classes a, b and c; instants are whole, four cycles of runs fill a day, and
\* so do its hours.
ASSUME ForecastAssumption ==
    /\ DOMAIN FcMembers = {"a", "b", "c"}
    /\ \A l \in FcLegs : FcMarkets[l].date \in Int /\ FcMarkets[l].close \in Int
    /\ FcGating \in Int /\ FcReported \in Int /\ FcAllowance \in Nat
    /\ FcHour \in Nat \ {0} /\ FcDay \in Nat /\ FcDay \div 4 > 0 /\ FcDay % FcHour = 0
    /\ FcDay \div FcHour > 1
    /\ \A job \in FcJobs, l \in FcLegs : \A i \in DOMAIN job.prints[l] : job.prints[l][i].at \in Int

\* F4_LEADS and PREVIOUS_DAY_OFFSET: leads of 24 and 36 hours, and composites
\* of 24 and 48.
ASSUME AgesAssumption ==
    /\ FcOffset[FcGating] \in Int /\ FcGating < FcOffset[FcGating] + FcHour
    /\ FcOffset[FcReported] \in Int /\ FcReported < FcOffset[FcReported]

-----------------------------------------------------------------------------
(***************************************************************************)
(* The sample                                                              *)
(***************************************************************************)

\* read_sample_plan: the days that no earlier study has read.
UnreadDays == {FcCandidates[i] : i \in {j \in DOMAIN FcCandidates : (j - 1) % 4 # 0}}

SplitAt(date) == IF date < FcBoundary THEN "discovery" ELSE "holdout"

AsOf(leg, lead) == FcMarkets[leg].close - lead

\* era_of, and the cap of the era.
CapAt(at) ==
    IF at < FcEras[1].from THEN FcPreCap
    ELSE FcEras[Max({i \in DOMAIN FcEras : FcEras[i].from <= at})].cap

\* The last print at or before the lead, in order of time and then of the file.
PrintAt(prints, at) ==
    {i \in DOMAIN prints :
        /\ prints[i].at <= at
        /\ \A j \in DOMAIN prints \ {i} : prints[j].at > at \/ prints[j].at < prints[i].at
                                          \/ (prints[j].at = prints[i].at /\ j < i)}

Trailing(prints, at) ==
    MapThenSumSet(LAMBDA i : prints[i].count,
                  {i \in DOMAIN prints : at - FcDepthWindow < prints[i].at /\ prints[i].at <= at})

\* build_sample, of one lead.
SampleAt(job, lead) ==
    LET at(l)    == AsOf(l, lead)
        entry(l) == job.prints[l][CHOOSE i \in PrintAt(job.prints[l], at(l)) : TRUE]
        fresh(l) == CapAt(at(l)) = NOCAP \/ at(l) - entry(l).at <= CapAt(at(l))
        legs     == {l \in FcLegs : /\ FcMarkets[l].date \in UnreadDays
                                    /\ job.results[l] \in {"yes", "no"}
                                    /\ PrintAt(job.prints[l], at(l)) # {} /\ fresh(l)}
    IN  {[leg |-> l, lead |-> lead, price |-> entry(l).price, result |-> job.results[l],
          trailing |-> Trailing(job.prints[l], at(l))] : l \in legs}

SampleOf(job) == UNION {SampleAt(job, lead) : lead \in FcLeads}

-----------------------------------------------------------------------------
(***************************************************************************)
(* The classes of forecast                                                 *)
(***************************************************************************)

DayStart(date) == date * FcDay
FullWindow     == FcDay \div FcHour

\* Mutant: a composite takes every hour at every lead.
WindowHoursFull(class, date, lead) == {DayStart(date) + k * FcHour : k \in 0..(FullWindow - 1)}

\* window_basis_for: at the short lead a composite leaves out the last hour,
\* which a market that closes on summer time does not reach.
WindowHours(class, date, lead) ==
    {DayStart(date) + k * FcHour :
        k \in 0..(IF class = "a" /\ lead = FcGating THEN FullWindow - 2 ELSE FullWindow - 1)}

Highest(S) == Max({x.high : x \in S})

\* class_a_record: the highest hour of composites that are as old as the lead.
CompositeOf(job, station, date, lead, member) ==
    LET hours == WindowHours("a", date, lead)
        found == {c \in job.composites : c.station = station /\ c.member = member
                                         /\ c.lead = lead /\ c.hour \in hours}
    IN  IF {c.hour : c \in found} # hours THEN {}
        ELSE {[high |-> Highest(found), issue |-> Max(hours) - FcOffset[lead]]}

\* daily_high_row and class_b_record: the newest bulletin behind the lead.
BulletinOf(job, station, date, at) ==
    LET behind == {b \in job.bulletins : b.station = station /\ b.date = date /\ b.runtime <= at}
    IN  {[high |-> b.high, issue |-> b.runtime] :
            b \in {x \in behind : \A y \in behind : y.runtime <= x.runtime}}

\* choose_run: the last of the cycles, four a day, that has appeared.
ChooseRun(at) == ((at - FcAllowance) \div (FcDay \div 4)) * (FcDay \div 4)

\* class_c_record
RunOf(job, station, date, at) ==
    LET hours == WindowHours("c", date, FcGating)
        found == {r \in job.runs : r.station = station /\ r.run = ChooseRun(at) /\ r.hour \in hours}
    IN  IF {r.hour : r \in found} # hours THEN {}
        ELSE {[high |-> Highest(found), issue |-> ChooseRun(at)]}

\* What a class has for a leg at a lead.
ForecastOf(job, class, leg, lead, member) ==
    LET m == FcMarkets[leg]
    IN  CASE class = "a" -> CompositeOf(job, m.station, m.date, lead, member)
          [] class = "b" -> BulletinOf(job, m.station, m.date, AsOf(leg, lead))
          [] class = "c" -> RunOf(job, m.station, m.date, AsOf(leg, lead))

RecordOf(class, leg, lead, member, r) ==
    [class |-> class, member |-> member, station |-> FcMarkets[leg].station, date |-> FcMarkets[leg].date,
     lead |-> lead, at |-> AsOf(leg, lead), high |-> r.high, issue |-> r.issue]

\* What the freezer of a class retrieves for the events and leads of a sample.
RecordsOf(job, class, leg, lead) ==
    UNION {{RecordOf(class, leg, lead, member, r) : r \in ForecastOf(job, class, leg, lead, member)} :
              member \in FcMembers[class]}

Retrieved(job, sample, class) == UNION {RecordsOf(job, class, x.leg, x.lead) : x \in sample}

\* write_class_freeze: a record issued after the lead is refused.
Admitted(job, sample, class) == {r \in Retrieved(job, sample, class) : r.issue <= r.at}

-----------------------------------------------------------------------------
(***************************************************************************)
(* The blend, and what its side earns                                      *)
(***************************************************************************)

ChancesOf(leg, records, lead) ==
    LET own == {r \in records : /\ r.station = FcMarkets[leg].station /\ r.date = FcMarkets[leg].date
                                /\ r.lead = lead}
    IN  [m \in {r.member : r \in own} |->
            FcChance((CHOOSE r \in own : r.member = m).high, FcMarkets[leg].strike)]

\* The legs of a lead that are deep enough and that every member prices.
Blendable(sample, records, lead) ==
    LET priced == {[leg |-> x.leg, price |-> x.price, result |-> x.result,
                    chance |-> ChancesOf(x.leg, records, lead)] :
                      x \in {y \in sample : y.lead = lead /\ y.trailing >= FcSize}}
    IN  {x \in priced : Blended \subseteq DOMAIN x.chance}

FitRows(legs) == {x \in legs : SplitAt(FcMarkets[x.leg].date) = "discovery"}

WeightOf(w) == MapThenSumSet(LAMBDA m : w[m], Blended)
Mixed(w, chance) == MapThenSumSet(LAMBDA m : w[m] * chance[m], Blended)

\* fit_weights: non-negative least squares on discovery legs, on a small grid.
Fits(rows) ==
    LET miss(w, x) == Mixed(w, x.chance) - (IF x.result = "yes" THEN 200 ELSE 0)
        error(w)   == MapThenSumSet(LAMBDA x : miss(w, x) * miss(w, x), rows)
        least      == Min({error(w) : w \in [Blended -> 0..2]})
    IN  IF rows = {} THEN {} ELSE {w \in [Blended -> 0..2] : error(w) = least}

\* No row to fit, or no weight for any member, stops the study.
Unfit(fits) == fits = {} \/ WeightOf(CHOOSE w \in fits : TRUE) = 0

FeeOf(price) == (7 * FcSize * price * (100 - price) + 9999) \div 10000

\* blend_probability and entry_side.
SideOf(w, x) ==
    CASE Mixed(w, x.chance) > x.price * WeightOf(w) -> "yes"
      [] Mixed(w, x.chance) < x.price * WeightOf(w) -> "no"
      [] OTHER -> "none"

\* entry_of
LegEntry(w, x) ==
    LET side   == SideOf(w, x)
        paid   == IF side = "yes" THEN x.price ELSE 100 - x.price
        earned == FcSize * ((IF x.result = side THEN 100 ELSE 0) - paid - FcTick) - FeeOf(paid)
    IN  [leg |-> x.leg, price |-> x.price, side |-> side, net |-> IF side = "none" THEN 0 ELSE earned]

EntriesOf(legs) ==
    LET fits == Fits(FitRows(legs))
    IN  IF Unfit(fits) THEN {} ELSE {LegEntry(CHOOSE w \in fits : TRUE, x) : x \in legs}

\* readout: the traded legs of a split, clustered by event day.
ReadoutOf(entries, split) ==
    ClustersOf({e \in entries : e.side # "none" /\ SplitAt(FcMarkets[e.leg].date) = split},
               LAMBDA e : FcMarkets[e.leg].date, LAMBDA e : e.net, LAMBDA e : FcSize)

\* decide: a shortfall of event days is read before the economics.
ForecastVerdict(discovery, holdout, sigD, sigH) ==
    LET gate == Gate(discovery, 0, TRUE, FcMinDays, sigD)
        both == discovery # <<>> /\ holdout # <<>> /\ EstimateOf(discovery).total # 0
        held == Holdout(discovery, holdout, FcMinDays, sigH)
    IN  CASE discovery = <<>> -> "UNDERPOWERED"
          [] discovery # <<>> /\ ~gate.powered -> "UNDERPOWERED"
          [] discovery # <<>> /\ gate.powered /\ both /\ ~held.powered -> "UNDERPOWERED"
          [] discovery # <<>> /\ both /\ GatePassed(gate) /\ Replicated(held) -> "PASS"
          [] OTHER -> "CLOSED"

-----------------------------------------------------------------------------
(***************************************************************************)
(* The freezes and the run                                                 *)
(***************************************************************************)

FcStart(j) ==
    /\ fcJob = j
    /\ fcDisk = [f \in {"sample"} \cup FcClasses |-> "none"] /\ fcWriting = {}
    /\ fcSample = {} /\ fcRecords = [c \in FcClasses |-> {}]
    /\ fcEntries = [lead \in FcLeads |-> {}] /\ fcVerdict = "none"

FcInit == \E j \in FcJobs : FcStart(j)

\* write_sample_freeze: neither file may exist.
FreezeSample ==
    /\ fcVerdict = "none" /\ fcDisk["sample"] = "none"
    /\ fcSample' = SampleOf(fcJob)
    /\ fcDisk' = [fcDisk EXCEPT !["sample"] = "torn"] /\ fcWriting' = fcWriting \cup {"sample"}
    /\ UNCHANGED <<fcJob, fcRecords, fcEntries, fcVerdict>>

\* write_class_freeze, after the sample has been read with its sidecar.
FreezeClass(c) ==
    /\ fcVerdict = "none" /\ fcDisk["sample"] = "whole" /\ fcDisk[c] = "none"
    /\ fcRecords' = [fcRecords EXCEPT ![c] = Admitted(fcJob, fcSample, c)]
    /\ fcDisk' = [fcDisk EXCEPT ![c] = "torn"] /\ fcWriting' = fcWriting \cup {c}
    /\ UNCHANGED <<fcJob, fcSample, fcEntries, fcVerdict>>

\* The sidecar follows the body.
Seal(f) ==
    /\ f \in fcWriting /\ fcWriting' = fcWriting \ {f}
    /\ fcDisk' = [fcDisk EXCEPT ![f] = "whole"]
    /\ UNCHANGED <<fcJob, fcSample, fcRecords, fcEntries, fcVerdict>>

\* The freezer dies between the two files: neither read nor written again.
Die(f) ==
    /\ f \in fcWriting /\ fcWriting' = fcWriting \ {f}
    /\ UNCHANGED <<fcJob, fcDisk, fcSample, fcRecords, fcEntries, fcVerdict>>

\* read_class_records: a class that was never frozen has no records; a body
\* that no sidecar vouches for, or fewer than two classes, stops the run.
FreezesReadable ==
    /\ fcDisk["sample"] = "whole" /\ \A c \in FcClasses : fcDisk[c] # "torn"
    /\ Cardinality({c \in FcClasses : fcRecords[c] # {}}) >= 2

\* execute: both leads, though only the first is judged.
Execute(sigD, sigH) ==
    /\ fcVerdict = "none" /\ FreezesReadable
    /\ LET legs(lead) == Blendable(fcSample, UNION Range(fcRecords), lead)
       IN  IF \E lead \in FcLeads : Unfit(Fits(FitRows(legs(lead))))
           THEN fcVerdict' = "raised" /\ UNCHANGED fcEntries
           ELSE /\ fcEntries' = [lead \in FcLeads |-> EntriesOf(legs(lead))]
                /\ fcVerdict' = ForecastVerdict(ReadoutOf(fcEntries'[FcGating], "discovery"),
                                                ReadoutOf(fcEntries'[FcGating], "holdout"), sigD, sigH)
    /\ UNCHANGED <<fcJob, fcDisk, fcWriting, fcSample, fcRecords>>

FcNext ==
    \/ FreezeSample
    \/ \E c \in FcClasses : FreezeClass(c)
    \/ \E f \in {"sample"} \cup FcClasses : Seal(f) \/ Die(f)
    \/ \E sigD, sigH \in BOOLEAN : Execute(sigD, sigH)

FcSpec == FcInit /\ [][FcNext]_fcVars

-----------------------------------------------------------------------------
(***************************************************************************)
(* Properties                                                              *)
(***************************************************************************)

\* A job as it stood a lead before the close of each of its markets, with the
\* holdout outcomes turned over.
AsKnown(job, lead) ==
    LET known(station, date, issue) ==
            \A l \in FcLegs : FcMarkets[l].station = station /\ FcMarkets[l].date = date
                              => issue <= AsOf(l, lead)
        behind(l) == {i \in DOMAIN job.prints[l] : job.prints[l][i].at <= AsOf(l, lead)}
        other(r)  == CASE r = "yes" -> "no" [] r = "no" -> "yes" [] OTHER -> r
    IN  [prints |-> [l \in FcLegs |-> [i \in behind(l) |-> job.prints[l][i]]],
         results |-> [l \in FcLegs |-> IF FcMarkets[l].date < FcBoundary THEN job.results[l]
                                       ELSE other(job.results[l])],
         composites |-> {c \in job.composites : known(c.station, c.hour \div FcDay, c.hour - FcOffset[lead])},
         bulletins |-> {b \in job.bulletins : known(b.station, b.date, b.runtime)},
         runs |-> {r \in job.runs : known(r.station, r.hour \div FcDay, r.run)}]

\* What the study enters, and on which side, is what it could have entered at
\* the lead: no later print, no forecast issued later and no holdout outcome
\* has a part in it.
EntriesUseWhatWasKnown ==
    fcVerdict \in {"PASS", "CLOSED", "UNDERPOWERED"} =>
        \A lead \in FcLeads :
            LET job     == AsKnown(fcJob, lead)
                sample  == SampleOf(job)
                records == UNION {Admitted(job, sample, c) : c \in {x \in FcClasses : fcDisk[x] = "whole"}}
                sides(entries) == {<<e.leg, e.price, e.side>> : e \in entries}
            IN  sides(fcEntries[lead]) = sides(EntriesOf(Blendable(sample, records, lead)))

\* On standard and on summer time alike, the barrier against late forecasts
\* costs no composite: what a class covers of a day it contributes.
CoveredAreKept ==
    \A r \in (IF fcDisk["a"] = "whole" THEN Retrieved(fcJob, fcSample, "a") ELSE {}) :
        r.at + r.lead >= DayStart(r.date + 1) - FcHour - 1 => r \in fcRecords["a"]

\* The study enters on what was known, and loses none of it to its barrier.
ForecastIsHonest == EntriesUseWhatWasKnown /\ CoveredAreKept
=============================================================================

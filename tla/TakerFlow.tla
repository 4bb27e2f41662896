------------------------------- MODULE TakerFlow -------------------------------
(***************************************************************************)
(* The flow study (bot/lag/taker_flow_run.py with taker_flow.py): what the *)
(* book does after a trade, net of two fees, and its stratum of the trades *)
(* near a lock (bot/lag/near_lock.py).  The tape is read a root at a time, *)
(* the prints of an arrival day against the book of that day and the next. *)
(* The exchange's stamps (ts) and the arrivals (at) are two clocks, and    *)
(* only a delta of the book is stamped.  Prices are in cents.              *)
(***************************************************************************)
EXTENDS LockEvents

CONSTANTS
    TfHorizons, TfPrimary,
    TfScope,        \* <<from, to>>: the span whose prints are read
    TfHalfWidth,    \* of the window around a lock
    TfFee(_, _),    \* what a taker is charged for a count at a price
    TfBar,          \* what a contract must earn, in half cents
    TfPrintMin, TfLegMin, TfNearMin,
    TfJobs,         \* [prints, book: rows; near: whether of the stratum; readings: by station]
    NOSTAMP

\* A trade is of one market, the ids of the prints are the table's, and the
\* rows of a market are in the order in which they arrived.
ASSUME FlowAssumption ==
    /\ TfHorizons \in SUBSET Nat /\ IsFiniteSet(TfHorizons)
    /\ \A j \in TfJobs :
          /\ Len(j.prints) \in Nat /\ DOMAIN j.prints = 1..Len(j.prints)
          /\ \A p \in Range(j.prints) : p.id \in Int /\ p.at \in Int /\ p.ts \in Int
          /\ \A p, q \in Range(j.prints) : p.id = q.id => p = q
          /\ \A p, q \in Range(j.prints) : p.trade = q.trade => p.leg = q.leg
          /\ Len(j.book) \in Nat /\ DOMAIN j.book = 1..Len(j.book)
          /\ \A i \in DOMAIN j.book : j.book[i].at \in Int /\ j.book[i].ts \in Int \cup {NOSTAMP}
          /\ \A i, k \in DOMAIN j.book : i < k /\ j.book[i].leg = j.book[k].leg
                                          => j.book[i].at <= j.book[k].at

VARIABLES
    tfJob,
    tfLeft,     \* the roots still to sweep
    tfCounts,   \* of each split and horizon
    tfRead,     \* of all the prints
    tfOutcomes, \* the prints scored at each horizon
    tfVerdict

tfVars == <<tfJob, tfLeft, tfCounts, tfRead, tfOutcomes, tfVerdict>>

SplitNames == {"discovery", "holdout"}
SplitOfLeg(l) == IF LkLegs[l].date \in LkDiscovery THEN "discovery" ELSE "holdout"

\* FlowCounts of a split and horizon, and the counts of a Sweep, at first.
NoFlow == [c \in {"unresolved", "uncovered", "oneSided", "hostClock", "excluded", "outside"} |-> 0]
NothingRead == [c \in {"emptySide", "duplicates", "outOfScope", "inScope", "outsideLock", "noLock", "offUniverse"} |-> 0]

TfStart(j) ==
    /\ tfJob = j
    /\ tfLeft = Ordered({d[1] : d \in DOMAIN LkDays}, LkSeriesOrder)
    /\ tfCounts = [k \in SplitNames \X TfHorizons |-> NoFlow]
    /\ tfRead = NothingRead
    /\ tfOutcomes = {} /\ tfVerdict = "none"

TfInit == \E j \in TfJobs : TfStart(j)

PrintsOfRoot(series) ==
    {p \in Range(tfJob.prints) : LkLegs[p.leg].series = series /\ TfScope[1] <= p.at /\ p.at <= TfScope[2]}

\* screen_prints: without a side there is no direction; of the rows of a trade
\* the first is kept.
Hygienic(prints) ==
    LET signed == {p \in prints : p.taker # ""}
    IN  {p \in signed : \A q \in signed : q.trade = p.trade => p.id <= q.id}

\* The book of a leg on an arrival day and the next.
BookOf(leg, date) ==
    Among(tfJob.book, {i \in DOMAIN tfJob.book : /\ tfJob.book[i].leg = leg
                                                 /\ tfJob.book[i].at \div LkDayLength \in {date, date + 1}})

\* resolve_anchors: the first row that the exchange stamped after the print; if
\* a snapshot lies between, the first row that arrived after it.
AnchorOf(p, rows) ==
    LET stamped == Min({i \in DOMAIN rows : rows[i].ts # NOSTAMP /\ rows[i].ts > p.ts} \cup {Len(rows) + 1})
        arrival == InForce(rows, p.at) + 1
        hidden  == \E i \in arrival..(stamped - 1) : rows[i].ts = NOSTAMP
    IN  [index |-> IF hidden THEN arrival ELSE stamped, hostClock |-> hidden]

Quoted(r) == r.bid > 0 /\ r.noBid > 0

\* Mutant: the evidence of a move begins with its anchor.
EvidenceFromAnchor(p, anchorAt, horizon) == [start |-> anchorAt, end |-> anchorAt + horizon]

\* resolve_horizon: a book delta can arrive before the print that it answers.
EvidenceOf(p, anchorAt, horizon) == [start |-> Min({p.at, anchorAt}), end |-> anchorAt + horizon]

\* print_net_cents, in half cents: the move of the mid towards the taker's
\* side, less a fee for each way.
NetOf(p, move2) == p.count * (IF p.taker = "yes" THEN move2 ELSE -move2) - 4 * TfFee(p.count, p.price)

\* resolve_horizon, screen_windows and print_outcomes of a print.
OutcomeOf(p, horizon) ==
    LET rows     == BookOf(p.leg, p.at \div LkDayLength)
        anchor   == AnchorOf(p, rows)
        resolved == anchor.index <= Len(rows)
        from     == rows[anchor.index]
        evidence == EvidenceOf(p, from.at, horizon)
        to       == rows[InForce(rows, evidence.end)]
        screened == Screen(LkDays[DayOfLeg(p.leg)], LkMerged, evidence.start, evidence.end)
        fate == CASE ~resolved -> "unresolved"
                  [] resolved /\ Last(rows).at < evidence.end -> "uncovered"
                  [] resolved /\ Last(rows).at >= evidence.end ->
                        IF ~(Quoted(from) /\ Quoted(to)) THEN "oneSided" ELSE screened
    IN  [print |-> p, horizon |-> horizon, fate |-> fate,
         hostClock |-> anchor.hostClock /\ fate \in {"kept", "excluded", "out_of_window"},
         anchor |-> anchor.index,
         end |-> IF fate = "kept" THEN InForce(rows, evidence.end) ELSE 0,
         net |-> IF fate = "kept" THEN NetOf(p, Mid2(to, LkDollar) - Mid2(from, LkDollar)) ELSE 0]

\* scan_locks of near_lock.py: a window around each lock, clean or not, of the
\* legs that traded.
LockWindow(leg) ==
    LET station == LkDays[DayOfLeg(leg)].station
        locks   == IF station \in DOMAIN tfJob.readings THEN LoneLocks({leg}, tfJob.readings[station]) ELSE {}
    IN  {<<k.at - TfHalfWidth, k.at + TfHalfWidth>> : k \in locks}

Near(p) == \E w \in LockWindow(p.leg) : w[1] <= p.at /\ p.at <= w[2]

\* The counts of a split and horizon, with the outcomes of a root.
WithOutcomes(counts, found) ==
    LET fated(f) == Cardinality({o \in found : o.fate = f})
    IN  [unresolved |-> counts.unresolved + fated("unresolved"),
         uncovered |-> counts.uncovered + fated("uncovered"),
         oneSided |-> counts.oneSided + fated("oneSided"),
         hostClock |-> counts.hostClock + Cardinality({o \in found : o.hostClock}),
         excluded |-> counts.excluded + fated("excluded"),
         outside |-> counts.outside + fated("out_of_window")]

\* resolve_horizon of what a root has inside, at each horizon.
Score(inside) ==
    \E found \in {{OutcomeOf(p, h) : p \in inside, h \in TfHorizons}} :
        /\ tfOutcomes' = tfOutcomes \cup {o \in found : o.fate = "kept"}
        /\ tfCounts' = [k \in DOMAIN tfCounts |-> WithOutcomes(tfCounts[k],
               {o \in found : SplitOfLeg(o.print.leg) = k[1] /\ o.horizon = k[2]})]

\* sweep_prints, for one root.
SweepRoot ==
    /\ tfVerdict = "none" /\ tfLeft # <<>>
    /\ LET series  == Head(tfLeft)
           all     == PrintsOfRoot(series)
           signed  == {p \in all : p.taker # ""}
           kept    == Hygienic(all)
           scoped  == {p \in kept : DayOfLeg(p.leg) \in DOMAIN LkDays}
           studied == IF tfJob.near /\ series \notin LkDependent THEN {} ELSE scoped
           locked  == {p \in studied : tfJob.near => LockWindow(p.leg) # {}}
           inside  == {p \in locked : tfJob.near => Near(p)}
       IN  /\ Score(inside)
           /\ tfRead' = [emptySide |-> tfRead.emptySide + Cardinality(all \ signed),
                         duplicates |-> tfRead.duplicates + Cardinality(signed \ kept),
                         outOfScope |-> tfRead.outOfScope + Cardinality(kept \ scoped),
                         offUniverse |-> tfRead.offUniverse + Cardinality(scoped \ studied),
                         noLock |-> tfRead.noLock + Cardinality(studied \ locked),
                         outsideLock |-> tfRead.outsideLock + Cardinality(locked \ inside),
                         inScope |-> tfRead.inScope + Cardinality(inside)]
    /\ tfLeft' = Tail(tfLeft)
    /\ UNCHANGED <<tfJob, tfVerdict>>

\* readout: the kept prints of a split at a horizon, in clusters of a market.
ScoredIn(split, horizon) == {o \in tfOutcomes : o.horizon = horizon /\ SplitOfLeg(o.print.leg) = split}
ClustersAt(split) ==
    ClustersOf(ScoredIn(split, TfPrimary), LAMBDA o : o.print.leg, LAMBDA o : o.net, LAMBDA o : o.print.count)

\* status_of of near_lock.py.
NearStatus == IF Cardinality(ScoredIn("discovery", TfPrimary)) < TfNearMin THEN "UNDERPOWERED" ELSE "REPORTED"

\* decide, and status_of the stratum.
DecideFlow ==
    /\ tfVerdict = "none" /\ tfLeft = <<>>
    /\ \E s, t \in BOOLEAN :
         LET discovery == ClustersAt("discovery")
             holdout   == ClustersAt("holdout")
             gate      == Gate(discovery, TfBar, FALSE, TfLegMin, s)
             repeated  == Holdout(discovery, holdout, TfLegMin, t)
             compared  == DOMAIN holdout # {} /\ EstimateOf(discovery).total # 0
             few(split, n) == Cardinality(ScoredIn(split, TfPrimary)) < n
             thin == \/ DOMAIN discovery = {} \/ ~gate.powered
                     \/ few("discovery", TfPrintMin) \/ few("holdout", (TfPrintMin + 1) \div 2)
                     \/ (compared /\ ~repeated.powered)
         IN  tfVerdict' =
               IF tfJob.near
               THEN NearStatus
               ELSE IF thin THEN "UNDERPOWERED"
               ELSE IF ~gate.economic \/ ~compared THEN "CLOSED"
               ELSE IF gate.undecidable \/ Degenerate(holdout) THEN "UNDECIDABLE"
               ELSE IF GatePassed(gate) /\ Replicated(repeated) THEN "PASS" ELSE "CLOSED"
    /\ UNCHANGED <<tfJob, tfLeft, tfCounts, tfRead, tfOutcomes>>

TfNext == SweepRoot \/ DecideFlow

TfSpec == TfInit /\ [][TfNext]_tfVars

-----------------------------------------------------------------------------
(***************************************************************************)
(* Properties                                                              *)
(***************************************************************************)

\* The prints of a split that are scored at a horizon, or counted.
Placed(split, h) ==
    LET c == tfCounts[<<split, h>>]
    IN  Cardinality(ScoredIn(split, h)) + c.unresolved + c.uncovered + c.oneSided + c.excluded + c.outside

\* Every trade is scored or counted once at each horizon, however often it was
\* sent.
TradesCountOnce ==
    /\ \A o, q \in tfOutcomes : o.print.trade = q.print.trade /\ o.horizon = q.horizon => o = q
    /\ \A h \in TfHorizons : tfRead.inScope = Placed("discovery", h) + Placed("holdout", h)

\* A score rests on nothing that the recorder may have missed: the print, the
\* two books and every row between them were received on the event day and in
\* no exclusion, nor did one lie between.  Only a print that arrives after the
\* horizon of the book that answered it is outside the evidence.
ScoresWereSeen ==
    \A o \in tfOutcomes :
        LET rows == BookOf(o.print.leg, o.print.at \div LkDayLength)
            end  == rows[o.anchor].at + o.horizon
            used == {rows[i].at : i \in o.anchor..o.end} \cup {end}
                    \cup (IF o.print.at <= end THEN {o.print.at} ELSE {})
            day  == LkDays[DayOfLeg(o.print.leg)]
        IN  /\ used \subseteq day.start..day.end
            /\ ~Meets(LkMerged, Min(used), Max(used))

\* The trade itself is never its move: the book that a move is measured from is
\* the first that the exchange stamped after the trade, in whatever order its
\* stamps arrived; only behind a snapshot do the arrivals decide.
MovesFollowTheTrade ==
    \A o \in tfOutcomes :
        LET rows == BookOf(o.print.leg, o.print.at \div LkDayLength)
            from == rows[o.anchor]
        IN  IF o.hostClock THEN from.at > o.print.at
            ELSE /\ from.ts # NOSTAMP /\ from.ts > o.print.ts
                 /\ \A i \in 1..(o.anchor - 1) : rows[i].ts # NOSTAMP => rows[i].ts <= o.print.ts

FlowIsMeasuredAfter == TradesCountOnce /\ ScoresWereSeen /\ MovesFollowTheTrade
=============================================================================

------------------------------ MODULE MCStudies -------------------------------
(***************************************************************************)
(* The decisions of the bot, and what replays and studies them: the data   *)
(* that the decisions are made from, the snapshots of the portfolio, the   *)
(* strategies with their sizing, the backtest that replays them with its   *)
(* verdict, the run scope of the tape studies and the depth map.  A        *)
(* behaviour is one of the part that its first state names.                *)
(***************************************************************************)
EXTENDS RunScope, Backtest, BacktestVerdict, DepthMap, MarketData, Portfolio, TLC

CONSTANTS a, b, m1, m2, m3, m4, m5, s1, s2, e1, e2, e3

CityOffsets == a :> 1 @@ b :> 3

CityDays == Cities \X Dates

Blind(starts, lengths) ==
    {[start |-> s, end |-> s + l, detected |-> IF s = Incident THEN s ELSE NOTDETECTED] :
        s \in starts, l \in lengths}

\* Up to two blind windows, the first of them of the incident or not; a market
\* of every city and date, or none of one city on one date.
ScopeTapes ==
    LET early == Blind({1, 4, 9}, {1, 3})
        late  == Blind({7, 11, 17, 26}, {1, 4})
    IN  {[blind |-> B, listed |-> L, first |-> 0] :
            B \in {{}} \cup {{x} : x \in early} \cup {{x, y} : x \in early, y \in late},
            L \in {CityDays, CityDays \ {<<a, 1>>}}}

Evidence ==
    {[city |-> c, date |-> d, start |-> s, end |-> s + 1] :
        c \in Cities, d \in {0, 1}, s \in {5, 9, 12}}

ScopeOffers == UNION {[1..n -> Evidence] : n \in 1..2}

MarketQuotes ==
    {q \in [bid : {0, 20, 80, 95, 96, 150, 300, 500, 930},
            noBid : {0, 60, 490, 660, 830, 840, 895, 904, 970},
            bidDepth : {0, 3, 60}, noDepth : {60}, fair : {20, 69, 250, 590, 950},
            spread : {1, 2, 4}, tail : BOOLEAN, blacklisted : {FALSE}, sameDay : {FALSE}] :
        q.bid + q.noBid <= 1000}

TickerSeries == m1 :> s1 @@ m2 :> s2
TickerDay    == m1 :> e1 @@ m2 :> e1
ListedSeries == <<s1, s2>>
ServedHours  == {e1 :> 2 @@ e2 :> 1}

BtTickerOrder == m1 :> 1 @@ m2 :> 2 @@ m3 :> 3 @@ m4 :> 4 @@ m5 :> 5
BtEvent  == m1 :> e1 @@ m2 :> e1 @@ m3 :> e1 @@ m4 :> e2 @@ m5 :> e3
BtSerial == m1 :> s1 @@ m2 :> s1 @@ m3 :> s1 @@ m4 :> s1 @@ m5 :> s2
BtDays   == m1 :> 0 @@ m2 :> 0 @@ m3 :> 0 @@ m4 :> 1 @@ m5 :> 2
BtOpens  == m1 :> 40 @@ m2 :> 19 @@ m3 :> 40 @@ m4 :> 40 @@ m5 :> 150
BtFairs ==
    [t \in DOMAIN BtTickerOrder |->
        IF t = m5 THEN [r \in {0, 12, 16, 132} |-> [fair |-> 20, spread |-> 2]]
        ELSE [r \in {0, 12, 16, 132} |->
                [fair |-> CASE r = 0 -> 570 [] r = 12 -> 590 [] OTHER -> 50, spread |-> 2]]]
BtDepthSamples ==
    {[series |-> s1, lead |-> 13, depth |-> 7, id |-> 1], [series |-> s1, lead |-> 14, depth |-> 8, id |-> 2],
     [series |-> s1, lead |-> 15, depth |-> 8, id |-> 3], [series |-> s2, lead |-> 14, depth |-> 90, id |-> 4],
     [series |-> s2, lead |-> 3, depth |-> 40, id |-> 5], [series |-> s2, lead |-> 30, depth |-> 41, id |-> 6],
     [series |-> s1, lead |-> 31, depth |-> 80, id |-> 7], [series |-> s1, lead |-> -1, depth |-> 1, id |-> 8]}

Closing == m1 :> 30 @@ m2 :> 31 @@ m3 :> 31 @@ m4 :> 31 @@ m5 :> 150

BtRow(t, at, bid, noBid, sized, result) ==
    [at |-> at, ticker |-> t, close |-> Closing[t], bid |-> bid, noBid |-> noBid,
     bidSize |-> 60, noSize |-> 60, sized |-> sized, result |-> result]

InTime(S) ==
    InOrder(S, {p \in S \X S : \/ p[1].at < p[2].at
                               \/ /\ p[1].at = p[2].at
                                  /\ BtTickerOrder[p[1].ticker] < BtTickerOrder[p[2].ticker]})

\* Books of every market before its decision, one of them old, one without
\* sizes, and some at the decision, after it or of another close.
BtBooks ==
    {BtRow(m1, 17, 300, 660, TRUE, ""), BtRow(m2, 18, 300, 660, TRUE, ""),
     BtRow(m3, 13, 300, 660, FALSE, ""), BtRow(m4, 18, 300, 660, TRUE, ""),
     BtRow(m5, 137, 120, 840, TRUE, "")}
BtLaterBooks ==
    {BtRow(m1, 18, 800, 150, TRUE, ""), BtRow(m1, 19, 800, 150, TRUE, ""),
     [BtRow(m2, 19, 800, 150, TRUE, "") EXCEPT !.close = 32]}

BtPrint(t, at, price, n) == [at |-> at, ticker |-> t, price |-> price, count |-> n]
TapePrints ==
    {BtPrint(m1, 16, 340, 20), BtPrint(m1, 18, 300, 20), BtPrint(m2, 18, 300, 40),
     BtPrint(m3, 12, 300, 40), BtPrint(m4, 19, 300, 40), BtPrint(m5, 138, 120, 40)}
BtLaterPrints ==
    {BtPrint(m1, 19, 850, 3), BtPrint(m1, 30, 300, 20), BtPrint(m1, 31, 200, 20),
     BtPrint(m5, 140, 130, 2)}

BtListing(result) ==
    << BtRow(m1, 0, 0, 0, TRUE, result), BtRow(m2, 0, 0, 0, TRUE, "no"),
       BtRow(m3, 0, 0, 0, TRUE, "no"), BtRow(m4, 0, 0, 0, TRUE, "yes"),
       BtRow(m5, 0, 0, 0, TRUE, "yes") >>

BtTrade(t, at, s) == [at |-> at, ticker |-> t, strategy |-> s]
BtHistories ==
    { << BtTrade(m1, 18, "edge"), BtTrade(m2, 19, "edge"), BtTrade(m4, 19, "edge"),
         BtTrade(m3, 20, "edge"), BtTrade(m5, 138, "tails"), BtTrade(m5, 144, "tails") >>,
      << BtTrade(m3, 12, "edge"), BtTrade(m1, 17, "edge"), BtTrade(m5, 137, "tails"),
         BtTrade(m1, 138, "edge") >> }

BtTapes(result) ==
    {[rows |-> InTime(BtBooks \cup B \cup {BtRow(m1, 30, 0, 1000, TRUE, result)}),
      prints |-> InTime(TapePrints \cup P), markets |-> BtListing(result), runs |-> R, trades |-> H] :
        B \in SUBSET BtLaterBooks, P \in SUBSET BtLaterPrints,
        R \in {{0}, {0, 12, 16, 132}}, H \in BtHistories}

\* A source reads only a part of a tape: the others are pinned.
MCJobs ==
    LET first == CHOOSE h \in BtHistories : Len(h) = 6
        books  == {t \in UNION {BtTapes(x) : x \in {"", "yes"}} :
                      t.prints = InTime(TapePrints) /\ t.trades = first}
        prints == {t \in UNION {BtTapes(x) : x \in {"no", "yes"}} :
                      t.rows = InTime(BtBooks \cup {BtRow(m1, 30, 0, 1000, TRUE, t.markets[1].result)})
                      /\ t.trades = first}
        trades == {t \in BtTapes("yes") : t.prints = InTime(TapePrints)}
    IN  [source : {"file", "undated", "tables"}, strategy : {"edge", "tails"}, tape : books]
        \cup [source : {"prints"}, strategy : {"edge", "tails"}, tape : prints]
        \cup [source : {"trades"}, strategy : {"edge", "tails", "all"}, tape : trades]

Slot(w, bankroll, depth, sigma) == [window |-> w, bankroll |-> bankroll, depth |-> depth, sigma |-> sigma]

\* run_survival, write_combined_report for one strategy, and a ladder of rungs.
SurvivalSlots == << Slot("out_of_sample", "20000", 10, 10), Slot("out_of_sample", "500", 10, 10),
                    Slot("out_of_sample", "20000", 10, 10), Slot("out_of_sample", "500", 10, 10) >>
CombinedSlots == << Slot("in_sample", "20000", 10, 10), Slot("in_sample", "500", 10, 10),
                    Slot("out_of_sample", "20000", 10, 10), Slot("out_of_sample", "500", 10, 10) >>
LadderSlots == << Slot("out_of_sample", "20000", 10, 10), Slot("out_of_sample", "500", 10, 10),
                  Slot("out_of_sample", "20000", 5, 10), Slot("out_of_sample", "20000", 10, 15) >>

NoFidelity == [snaps |-> <<>>, fills |-> <<>>]
Snap(c, p, x) == [city |-> c, primary |-> p, cross |-> x]
Fidelities ==
    { [snaps |-> <<Snap(a, 100, 190), Snap(a, 120, 60), Snap(a, 130, 130), Snap(b, 5000, 0)>>,
       fills |-> <<[primary |-> 40, cross |-> 31]>>],
      [snaps |-> <<Snap(a, 400, 451), Snap(a, 600, 549), Snap(b, 10, 15)>>,
       fills |-> <<[primary |-> -40, cross |-> -50]>>] }

VerdictJobs ==
    [slots : {SurvivalSlots, CombinedSlots, LadderSlots}, fidelity : {NoFidelity}]
    \cup [slots : {LadderSlots}, fidelity : Fidelities]

Sold(c, n) == [city |-> c, net |-> n]
RunOutcomes ==
    { [orders |-> <<Sold(a, -1), Sold(b, -2)>>, frictions |-> <<>>, gross |-> 1],
      [orders |-> <<Sold(a, 2), Sold(b, -1)>>, frictions |-> <<>>, gross |-> UNKNOWN],
      [orders |-> <<>>, frictions |-> <<a, a, b>>, gross |-> UNKNOWN],
      [orders |-> <<Sold(a, -3), Sold(a, 1)>>, frictions |-> <<a, a, b>>, gross |-> 1],
      [orders |-> <<Sold(a, -1)>>, frictions |-> <<a>>, gross |-> -1] }

DepthCities == <<s1, s2>>
DepthScope  == <<2, 135>>
DepthExclusions == {<<15, 17>>}
DepthDays  == <<s1, 0>> :> [start |-> 9, end |-> 41] @@ <<s2, 2>> :> [start |-> 100, end |-> 132]
DepthCloses == m1 :> 38 @@ m2 :> 44 @@ m4 :> 80 @@ m5 :> 132

Ladder(x, n) == [ladder |-> x, levels |-> [yes |-> n, no |-> Len(x.no)],
                 bid |-> IF x.yes = <<>> THEN 0 ELSE x.yes[1][1], bidDepth |-> IF x.yes = <<>> THEN 0 ELSE x.yes[1][2],
                 noBid |-> IF x.no = <<>> THEN 0 ELSE x.no[1][1], noDepth |-> IF x.no = <<>> THEN 0 ELSE x.no[1][2]]
DepthRow(leg, at, x, n) == [leg |-> leg, at |-> at] @@ Ladder(x, n)

Thick == [yes |-> <<<<48, 300>>, <<40, 500>>>>, no |-> <<<<50, 260>>>>]
Thin  == [yes |-> <<<<48, 90>>, <<47, 20>>>>, no |-> <<<<50, 260>>>>]
Empty == [yes |-> <<>>, no |-> <<<<80, 300>>>>]

DepthRows == << DepthRow(m1, 7, Thick, 2), DepthRow(m2, 12, Empty, 0), DepthRow(m1, 20, Thick, 2),
                DepthRow(m4, 26, Thin, 2), DepthRow(m1, 28, Thin, 3), DepthRow(m1, 30, Thin, 2), DepthRow(m1, 30, Thick, 3),
                DepthRow(m2, 31, Thick, 2), DepthRow(m1, 37, Thin, 2), DepthRow(m1, 40, Thick, 2),
                DepthRow(m2, 49, Empty, 0) >>

Crossed == [i \in 1..4 |-> DepthRows[5 - i]]

DepthTapes ==
    LET print(leg, at, p) == [leg |-> leg, at |-> at, price |-> p]
        prints == { <<print(m1, 5, 48), print(m1, 27, 48), print(m1, 28, 30), print(m2, 40, 50), print(m1, 37, 48)>>,
                    <<print(m2, 12, 20), print(m1, 27, 50), print(m1, 27, 48), print(m1, 33, 48), print(m2, 49, 20)>>,
                    <<print(m1, 27, 48), print(m1, 25, 48)>> }
        file(d, rows) == [date |-> d, rows |-> rows]
        cut(rows, i, j) == << file(0, SubSeq(rows, 1, i)), file(0, SubSeq(rows, i + 1, j)),
                              file(1, SubSeq(rows, j + 1, Len(rows))) >>
        last(u) == <<file(2, <<DepthRow(m5, u, Thick, 2)>>)>>
    IN  {[book |-> s1 :> cut(DepthRows, i, j) @@ s2 :> last(IF j = 7 THEN 98 ELSE 110), prints |-> p] :
            i \in {0, 3, 5, 6}, j \in {7, 10}, p \in prints}
        \cup {[book |-> s1 :> cut(Crossed, i, 3) @@ s2 :> last(98), prints |-> <<>>] : i \in 0..2}

\* The backtest of the behaviours that are about something else.
NoTape == [rows |-> <<>>, prints |-> <<>>, markets |-> <<>>, runs |-> {}, trades |-> <<>>]

VARIABLE part

allVars == <<scopeVars, strategyVars, btVars, vdVars, dmVars, marketVars, portfolioVars, part>>

SomeDepthTape == CHOOSE t \in DmTapes : TRUE

Init == /\ part \in {"scope", "strategy", "backtest", "verdict", "depth", "markets", "portfolio"}
        /\ IF part = "scope" THEN ScopeInit
           ELSE /\ tape = [blind |-> {}, listed |-> CityDays, first |-> 0] /\ tapeLast = DayLength
                /\ job = <<>> /\ disk = [f \in FileNames |-> <<>>] /\ torn = {}
        /\ StrategyInit /\ (part # "strategy" => inEvent = 0)
        /\ IF part = "backtest" THEN BtInit
           ELSE /\ btJob = [source |-> "file", strategy |-> "edge", tape |-> NoTape]
                /\ btQueue = <<>> /\ btRun = FreshRun /\ btScored = <<>> /\ btPhase = "load"
        /\ IF part = "verdict" THEN VdInit
           ELSE /\ vdJob = [slots |-> SurvivalSlots, fidelity |-> NoFidelity]
                /\ vdLeft = SurvivalSlots /\ vdRuns = <<>> /\ vdVerdict = ""
        /\ IF part = "depth" THEN DmInit ELSE DmStart(SomeDepthTape)
        /\ MarketDataInit /\ (part # "markets" => trading = "paper")
        /\ PortfolioInit

Next ==
    /\ UNCHANGED part
    /\ \/ part = "scope" /\ ScopeNext /\ UNCHANGED <<strategyVars, btVars, vdVars, dmVars, marketVars, portfolioVars>>
       \/ part = "strategy" /\ StrategyNext /\ UNCHANGED <<scopeVars, btVars, vdVars, dmVars, marketVars, portfolioVars>>
       \/ part = "backtest" /\ BtNext /\ UNCHANGED <<scopeVars, strategyVars, vdVars, dmVars, marketVars, portfolioVars>>
       \/ part = "verdict" /\ VdNext /\ UNCHANGED <<scopeVars, strategyVars, btVars, dmVars, marketVars, portfolioVars>>
       \/ part = "depth" /\ DmNext /\ UNCHANGED <<scopeVars, strategyVars, btVars, vdVars, marketVars, portfolioVars>>
       \/ /\ part = "markets" /\ MarketDataNext
          /\ UNCHANGED <<scopeVars, strategyVars, btVars, vdVars, dmVars, portfolioVars>>
       \/ /\ part = "portfolio" /\ PortfolioNext
          /\ UNCHANGED <<scopeVars, strategyVars, btVars, vdVars, dmVars, marketVars>>

Spec == Init /\ [][Next]_allVars
=============================================================================

----------------------------- MODULE MCTapeInputs ------------------------------
(***************************************************************************)
(* Small inputs of the studies of forecasts, locks, prints and ladders,    *)
(* for MCTapeStudies.                                                      *)
(***************************************************************************)
EXTENDS Integers, Sequences, FiniteSets, TLC

-----------------------------------------------------------------------------
(***************************************************************************)
(* ForecastClass: days of eight units, steps of two; a market closes a     *)
(* unit before the end of its day, on summer time a step earlier, one of   *)
(* them earlier still                                                      *)
(***************************************************************************)

FcMarket(s, d, close, k) == [station |-> s, date |-> d, close |-> close, strike |-> k]

ForecastMarkets ==
    << FcMarket("x", 1, 15, 4), FcMarket("x", 2, 21, 4), FcMarket("y", 2, 23, 4), FcMarket("x", 3, 29, 4),
       FcMarket("y", 3, 26, 3), FcMarket("x", 6, 55, 4), FcMarket("x", 6, 55, 6), FcMarket("y", 7, 61, 4) >>

ForecastDays    == <<1, 2, 3, 4, 5, 6, 7>>
ForecastOffsets == 8 :> 8 @@ 12 :> 16
ForecastEras    == << [from |-> 0, cap |-> 9], [from |-> 15, cap |-> 5] >>
ForecastMembers == [a |-> {"ecmwf"}, b |-> {"nbm"}, c |-> {"hrrr"}]

ChanceOf(high, strike) == CASE high > strike -> 90 [] high = strike -> 50 [] OTHER -> 10

FcPrint(at, price, n) == [at |-> at, price |-> price, count |-> n]

\* Of every market: a print behind both leads, one between them, later ones;
\* the thin ones of few contracts, and the first print of the last one stale.
FcPrints(thin, later, price) ==
    [l \in DOMAIN ForecastMarkets |->
        LET close == ForecastMarkets[l].close
            n     == IF l \in thin THEN 2 ELSE 30
        IN  (IF l = 4 THEN <<FcPrint(close - 8, 70, 3)>> ELSE <<>>)
            \o <<FcPrint(close - (IF l = 8 THEN 18 ELSE 13), 30, n), FcPrint(close - 9, price, n)>>
            \o (IF later THEN <<FcPrint(close - 7, 95, 30), FcPrint(close - 2, 5, 9)>> ELSE <<>>)]

FcTruth == <<5, 6, 3, 5, 3, 6, 6, 3>>

FcResults(flip) ==
    [l \in DOMAIN ForecastMarkets |->
        IF l \in flip THEN "no" ELSE IF FcTruth[l] > ForecastMarkets[l].strike THEN "yes" ELSE "no"]

FcDays == {2, 3, 6, 7}
FcStations == {"x", "y"}
FcHigh(s, d) == IF s = "x" THEN 5 ELSE 3

FcComposites(missing) ==
    {[station |-> s, member |-> "ecmwf", lead |-> lead, hour |-> 8 * d + 2 * k, high |-> FcHigh(s, d) - (k % 2)] :
        s \in FcStations, d \in FcDays, lead \in {8, 12}, k \in 0..3}
    \ {[station |-> "x", member |-> "ecmwf", lead |-> 8, hour |-> 8 * d, high |-> 5] : d \in missing}

FcBulletins(later) ==
    {[station |-> s, date |-> d, runtime |-> 8 * d - n, high |-> FcHigh(s, d) + (n % 3)] :
        s \in FcStations, d \in FcDays, n \in {12, 8, 5} \cup later}

FcRuns ==
    {[station |-> s, run |-> 8 * d - n, hour |-> 8 * d + 2 * k, high |-> FcHigh(s, d) + (IF n < 4 THEN 1 ELSE 0)] :
        s \in FcStations, d \in FcDays, n \in {2, 4, 6, 8, 10, 12, 14}, k \in 0..3}

ForecastJobs ==
    {[prints |-> FcPrints(thin, later, price), results |-> FcResults(flip),
      composites |-> FcComposites(missing), bulletins |-> FcBulletins(late), runs |-> FcRuns] :
        thin \in {{}, {4, 5}}, later \in BOOLEAN, price \in {40, 90}, flip \in {{}, {2, 4}, {6}},
        missing \in {{}, {6}}, late \in {{2, -3}}}

-----------------------------------------------------------------------------
(***************************************************************************)
(* LockStudy: days of twelve units, temperatures in halves of a degree.    *)
(* Two stations, a rising ladder at each and a falling one at the second.  *)
(***************************************************************************)

LockLeg(series, date, listed, lo, hi) ==
    [series |-> series, date |-> date, listed |-> listed, lo |-> lo, hi |-> hi,
     kind |-> IF listed = "bracket" THEN "bracket" ELSE "above"]

LockLegs ==
    [h1lo |-> LockLeg("h", 1, "below", 0, 0), h1mid |-> LockLeg("h", 1, "bracket", 0, 2),
     h1hi |-> LockLeg("h", 1, "above", 2, 2),
     g1lo |-> LockLeg("g", 1, "below", 0, 0), g1hi |-> LockLeg("g", 1, "above", 2, 2),
     w1lo |-> LockLeg("w", 1, "below", 0, 0), w1mid |-> LockLeg("w", 1, "bracket", 0, 2),
     w1hi |-> LockLeg("w", 1, "above", 2, 2),
     h2hi |-> LockLeg("h", 2, "above", 2, 2), g2hi |-> LockLeg("g", 2, "above", 0, 0),
     n2lo |-> LockLeg("n", 2, "below", 0, 0), n2mid |-> LockLeg("n", 2, "bracket", 0, 2),
     n2hi |-> LockLeg("n", 2, "above", 2, 2), n3lo |-> LockLeg("n", 3, "below", 0, 0),
     n3mid |-> LockLeg("n", 3, "bracket", 0, 2), n3hi |-> LockLeg("n", 3, "above", 2, 2),
     h3hi |-> LockLeg("h", 3, "above", 2, 2), k1hi |-> LockLeg("k", 1, "above", 2, 2)]

LockDay(date, station) == [start |-> 12 * date + 2, end |-> 12 * date + 14, station |-> station]

LockDays == <<"h", 1>> :> LockDay(1, "x") @@ <<"g", 1>> :> LockDay(1, "y")
            @@ <<"w", 1>> :> LockDay(1, "y") @@ <<"h", 2>> :> LockDay(2, "x") @@ <<"g", 2>> :> LockDay(2, "y")
            @@ <<"k", 1>> :> LockDay(1, "z") @@ <<"n", 2>> :> LockDay(2, "z")
            @@ <<"n", 3>> :> LockDay(3, "z")

LockOrder == [g |-> 1, h |-> 2, k |-> 3, n |-> 4, w |-> 5]

LockExclusions == {<<12, 13>>, <<22, 22>>}

ReadingAt(at, temp) == [valid |-> at, at |-> at, temp |-> temp]

Row(leg, at, bid, noBid) ==
    [leg |-> leg, at |-> at, bid |-> bid, noBid |-> noBid,
     bidDepth |-> IF bid = 0 THEN 0 ELSE 5, noDepth |-> IF noBid = 0 THEN 0 ELSE 5]

\* A book that enters the band, leaves it for an instant or with a side, and
\* stays: n says when.
LockRows(leg, yes, t, n) ==
    LET in(at)  == IF yes THEN Row(leg, at, 95, 3) ELSE Row(leg, at, 3, 95)
        out(at) == Row(leg, at, 60, 38)
    IN  CASE n = 1 -> <<in(t)>>
          [] n = 2 -> <<out(t), in(t + 2), out(t + 4), in(t + 4), in(t + 7)>>
          [] n = 3 -> <<out(t), in(t + 2), Row(leg, t + 3, 96, 0), in(t + 4)>>
          [] n = 4 -> <<in(t + 9), out(t + 10), in(t + 11)>>
          [] n = 5 -> <<>>

LockBook(n, alone) ==
    LockRows("h1lo", FALSE, 14, n) \o LockRows("h1mid", FALSE, 13, 3) \o LockRows("h1hi", TRUE, 14, n)
    \o LockRows("g1lo", FALSE, 15, 2) \o (IF alone THEN <<>> ELSE LockRows("g1hi", TRUE, 15, 1))
    \o LockRows("w1lo", TRUE, 14, n) \o LockRows("w1mid", FALSE, 16, 1) \o LockRows("w1hi", FALSE, 16, 2)
    \o LockRows("h2hi", TRUE, 27, 5 - n) \o LockRows("g2hi", TRUE, 28, n)

LockPrints == << [leg |-> "h1hi", at |-> 16, taker |-> "no"], [leg |-> "h1hi", at |-> 19, taker |-> "yes"],
                 [leg |-> "h1hi", at |-> 20, taker |-> ""], [leg |-> "h1hi", at |-> 22, taker |-> "no"], [leg |-> "w1mid", at |-> 22, taker |-> "yes"] >>

LockJobs ==
    LET x1(s) == {ReadingAt(15, s[1]), ReadingAt(17, s[2]), ReadingAt(23, s[3]), ReadingAt(26, 40)}
        y1    == {ReadingAt(14, 4), ReadingAt(16, 5), ReadingAt(18, -2), ReadingAt(23, -3)}
        x2    == {ReadingAt(27, 1), ReadingAt(29, 4)}
        readings(s) == <<"x", 1>> :> x1(s) @@ <<"y", 1>> :> y1 @@ <<"y", 2>> :> {ReadingAt(28, 3)}
    IN  {[readings |-> IF n = 4 THEN readings(s) ELSE readings(s) @@ <<"x", 2>> :> x2,
          settles |-> IF n = 3 THEN <<"x", 1>> :> s[3] ELSE <<"x", 1>> :> 5 @@ <<"y", 1>> :> 4 @@ <<"x", 2>> :> 4 @@ <<"y", 2>> :> 3,
          book |-> LockBook(n, s[1] = -2), prints |-> LockPrints,
          roots |-> CASE n = 1 -> {"h", "w"} [] n = 2 -> {"w"} [] OTHER -> {"h", "g"}] :
            s \in {-2, 2, 4, 5} \X {1, 3, 4} \X {-3, 3, 6}, n \in 1..4}

-----------------------------------------------------------------------------
(***************************************************************************)
(* TakerFlow, on the ladders of LockStudy: a trade of each market, sent    *)
(* twice or without a side, and books whose stamps are out of order        *)
(***************************************************************************)

FlowRow(leg, at, ts, bid, noBid) == [leg |-> leg, at |-> at, ts |-> ts, bid |-> bid, noBid |-> noBid]

FlowPrint(id, trade, leg, at, ts, taker, n) ==
    [id |-> id, trade |-> trade, leg |-> leg, at |-> at, ts |-> ts, taker |-> taker, price |-> 50, count |-> n]

\* The quiet end of every other book.
FlowTail(leg, at) ==
    << FlowRow(leg, at, at, 45, 50), FlowRow(leg, at + 2, at + 2, 52, 45), FlowRow(leg, at + 9, at + 9, 52, 45) >>

FlowBooks(none) ==
    LET rows == << FlowRow("h1hi", 15, 15, 40, 58), FlowRow("h1hi", 16, 14, 44, 55), FlowRow("h1hi", 17, none, 44, 55),
                   FlowRow("h1hi", 17, 18, 50, 48), FlowRow("h1hi", 20, 19, 60, 0), FlowRow("h1hi", 23, 24, 55, 43) >>
        kept(S) == SelectSeq([i \in DOMAIN rows |-> [r |-> rows[i], i |-> i]], LAMBDA x : x.i \in S)
    IN  {[i \in DOMAIN kept(S) |-> kept(S)[i].r] \o <<FlowRow("h1hi", 25, 25, 50, 49)>> : S \in SUBSET (2..6)}

FlowTrades ==
    LET all(at, ts, taker) ==
            << FlowPrint(1, 1, "h1hi", at, ts, taker, 4), FlowPrint(2, 1, "h1hi", at + 1, ts, taker, 4),
               FlowPrint(3, 2, "h1hi", 18, 18, "", 4), FlowPrint(4, 3, "h3hi", 27, 27, "no", 4),
               FlowPrint(5, 4, "k1hi", 15, 15, "yes", 4), FlowPrint(6, 5, "g1hi", 16, 16, "yes", 4),
               FlowPrint(7, 6, "h2hi", 28, 27, "yes", 1), FlowPrint(8, 7, "g2hi", 29, 28, "yes", 4),
               FlowPrint(9, 8, "w1hi", 23, 23, "no", 1), FlowPrint(10, 9, "w1lo", 17, 17, "no", 1) >>
    IN  {SubSeq(all(at, ts, taker), 1, n) : at \in {15, 22}, ts \in {14, 16, 23}, taker \in {"yes", "no"}, n \in {6, 10}}

FlowFee(n, price) == (n + 2) \div 3

FlowScope == <<14, 38>>

FlowJobs(none) ==
    LET tails == FlowTail("k1hi", 16) \o FlowTail("g1hi", 17) \o FlowTail("h2hi", 28) \o FlowTail("g2hi", 29)
                 \o FlowTail("w1hi", 24)
    IN  {[prints |-> t, book |-> b \o tails, near |-> near,
          readings |-> [x |-> {ReadingAt(16, 3), ReadingAt(20, 5)}]] :
            t \in FlowTrades, b \in FlowBooks(none), near \in BOOLEAN}

-----------------------------------------------------------------------------
(***************************************************************************)
(* LadderStudy: a lower tail, a bracket and an upper tail, offered at six  *)
(* cents over the dollar until one of their books moves                    *)
(***************************************************************************)

LadderRow(leg, at, bid, n, ask, m) ==
    [id |-> at, leg |-> leg, at |-> at, bid |-> bid, bidDepth |-> n, ask |-> ask, askDepth |-> m]

Flat(leg, at) == LadderRow(leg, at, 31, 4, 35, 4)

\* What the bracket and the upper tail of a day do from an instant on: a cheap
\* bracket that gets dearer, thinner or cheaper, or is gone for an instant, and
\* tails whose bids sum to more than the dollar.
LadderMoves(lo, mid, hi, t, n) ==
    LET open  == <<Flat(lo, t), Flat(mid, t), Flat(hi, t)>>
        cheap(at, ask, m) == LadderRow(mid, at, 10, 4, ask, m)
        close(at) == <<Flat(mid, at)>>
        rich(leg, at, bid, m) == LadderRow(leg, at, bid, m, 70, 4)
    IN  CASE n = 1 -> open \o <<cheap(t + 1, 20, 4), cheap(t + 2, 12, 2)>> \o close(t + 4)
          [] n = 2 -> open \o <<cheap(t + 1, 20, 4), cheap(t + 2, 28, 4)>> \o close(t + 5)
          [] n = 3 -> open \o <<cheap(t + 1, 20, 4), cheap(t + 3, 2, 1)>> \o close(t + 4)
          [] n = 4 -> open \o <<cheap(t + 1, 18, 2), cheap(t + 2, 0, 0), cheap(t + 2, 18, 2)>> \o close(t + 6)
          [] n = 5 -> open \o <<rich(hi, t + 1, 60, 4), rich(lo, t + 2, 55, 2), cheap(t + 3, 35, 4), Flat(hi, t + 7)>>
          [] n = 6 -> open \o <<rich(mid, t + 1, 60, 2), rich(mid, t + 3, 50, 4)>> \o close(t + 4)
          [] n = 7 -> <<Flat(hi, t), cheap(t + 1, 15, 4), Flat(lo, t + 2)>> \o close(t + 4)
          [] n = 8 -> open \o <<cheap(t + 1, 24, 4)>>

LadderBooks ==
    LET rows(x, y, z, t, u) ==
            LadderMoves("h1lo", "h1mid", "h1hi", t, x) \o LadderMoves("w1lo", "w1mid", "w1hi", 16, y)
            \o <<Flat("g1lo", 15), Flat("g1hi", 15)>> \o LadderMoves("n2lo", "n2mid", "n2hi", u, z)
            \o LadderMoves("n3lo", "n3mid", "n3hi", u + 13, 6 - z)
    IN  {rows(x, y, z, when[1], when[2]) :
            x \in 1..8, y \in {1, 5}, z \in {1, 5}, when \in {<<11, 27>>, <<19, 27>>, <<15, 33>>}}

LadderSeries == {"g", "h", "k", "n", "w"}

LadderJobs ==
    LET swapped == LadderMoves("h1lo", "h1mid", "h1hi", 19, 1)
    IN  [book : LadderBooks, recorded : {LadderSeries}]
        \cup {[book |-> <<Flat("g1lo", 15)>>, recorded |-> {"g", "h"}],
              [book |-> SubSeq(swapped, 4, 6) \o SubSeq(swapped, 1, 3), recorded |-> LadderSeries]}

LadderTemps == -1..3

LadderFee(n, price) == (n + 1) \div 2

-----------------------------------------------------------------------------
(***************************************************************************)
(* SettlementStudy, on the rising ladders of LockStudy: readings that run  *)
(* past the official extreme or stay below it, books of each leg that are  *)
(* late, thin or one-sided                                                 *)
(***************************************************************************)

Deep(row, n) == row @@ [noSizes |-> n]

SettlementRows(n) ==
    LET legs == <<"h1lo", "h1mid", "h1hi", "g1lo", "k1hi", "h2hi", "g2hi">>
        first == [i \in DOMAIN legs |-> Deep(Row(legs[i], IF i < 6 THEN 14 ELSE 27, 30, 66), 40)]
    IN  first \o << Deep(Row("h1lo", 16, IF n = 1 THEN 40 ELSE 0, 58), 8), Deep(Row("h1mid", 17, 0, 90), 40),
                    Deep(Row("h1mid", 18, 35, 60), 40), Deep(Row("h1lo", 21, 80, 18), 40),
                    Deep(Row("n2mid", 28, IF n = 1 THEN 50 ELSE 96, 2), 40), Deep(Row("n2lo", 28, 20, 75), 40),
                    Deep(Row("n3lo", 40 + n, 40, 50), 9), Deep(Row("n3mid", 45, 40, 50), 9) >>

SettlementReadings ==
    LET x(s) == {ReadingAt(15, s[1]), ReadingAt(17, s[2]), ReadingAt(21, s[3]), ReadingAt(23, s[4])}
        y(s) == {ReadingAt(14, -3), ReadingAt(16, -2), ReadingAt(19, s[4] - 4)}
        z(s) == {ReadingAt(27, s[1]), ReadingAt(30, 4), ReadingAt(39, -2), ReadingAt(44, 1 + s[2])}
    IN  {[x |-> x(s), y |-> y(s), z |-> z(s)] : s \in {-2, 1} \X {-1, 2} \X {0, 4} \X {2, 4}}

SettlementJobs(none, misdated) ==
    LET notices(f) == [r \in {"g", "h", "k", "n"} |-> IF r \in DOMAIN f THEN f[r] ELSE none]
        official == {<<"x", 1>> :> h @@ <<"y", 1>> :> g @@ <<"z", 2>> :> 1 @@ <<"z", 3>> :> n :
                        h \in {-1, 1}, g \in {-2, 1}, n \in {-1, 3}}
        results(R) == [l \in DOMAIN LockLegs |-> IF l \in R THEN "yes" ELSE "no"]
        job(n, b, r, o, R) ==
            [notices |-> n, ladder |-> b, readings |-> r, settles |-> o, results |-> results(R)]
        some == CHOOSE o \in official : TRUE
        calm == CHOOSE r \in SettlementReadings : TRUE
        paid == {"h1lo", "h1mid", "g1lo", "n2mid", "n3lo"}
    IN  {job(notices([h |-> 3, n |-> 2]), SettlementRows(n), r, o, IF n = 1 THEN paid ELSE {"h1mid"}) :
            n \in {1, 5}, r \in SettlementReadings, o \in official}
        \cup {job(n, b, calm, some, {}) :
                n \in {notices([h |-> 1]), notices([h |-> misdated]), notices(<<>>), notices([g |-> 2]),
                       [h |-> 2, g |-> none, n |-> none]},
                b \in {SettlementRows(1), SubSeq(SettlementRows(1), 1, 10)}}

SettlementClose == [l \in DOMAIN LockLegs |-> 12 * LockLegs[l].date + (IF LockLegs[l].listed = "bracket" THEN 14 ELSE 6)]

SettlementFee(n, mid2) == IF mid2 > 60 /\ mid2 < 140 THEN 3 ELSE 1

-----------------------------------------------------------------------------
(***************************************************************************)
(* LeadLag: a corridor of three cities and one of two, over two days; the  *)
(* windows of the cities differ.  A city has a leg at the half, and one    *)
(* has another far from it; a sixth is in no corridor, and its file is not *)
(* read, whatever the order of its rows                                    *)
(***************************************************************************)

LeadCorridors == [gulf |-> <<"x", "y", "z">>, west |-> <<"u", "v">>]

LeadLegs ==
    LET of(c, d) == [city |-> c, date |-> d]
    IN  [x1 |-> of("x", 1), x1far |-> of("x", 1), y1 |-> of("y", 1), z1 |-> of("z", 1), u1 |-> of("u", 1),
         v1 |-> of("v", 1), x2 |-> of("x", 2), y2 |-> of("y", 2), u2 |-> of("u", 2), v2 |-> of("v", 2),
         w1 |-> of("w", 1), w1far |-> of("w", 1)]

LeadOrder == [x1 |-> 1, x1far |-> 2, y1 |-> 3, z1 |-> 4, u1 |-> 5, v1 |-> 6, x2 |-> 7, y2 |-> 8, u2 |-> 9, v2 |-> 10,
              w1 |-> 11, w1far |-> 12]

LeadDays ==
    LET of(d, n) == [start |-> 12 * d + n, end |-> 12 * d + n + 12]
    IN  [k \in {"x", "y", "z", "u", "v", "w"} \X {1, 2} |->
            of(k[2], CASE k[1] \in {"x", "u"} -> 2 [] k[1] = "z" -> 1 [] OTHER -> 3)]

\* Two-sided quotes around q cents, one of them without a bid where q is 0.
LeadRows(leg, quotes) ==
    [i \in DOMAIN quotes |->
        [id |-> 10 * quotes[i][1] + i, leg |-> leg, at |-> quotes[i][1],
         bid |-> IF quotes[i][2] = 0 THEN 0 ELSE quotes[i][2] - 1, noBid |-> 99 - quotes[i][2]]]

\* A jump, a ramp, a fall, a jump that takes too long, one at the day's end,
\* and no quote of two sides.
LeadMoves ==
    << <<<<14, 50>>, <<16, 56>>, <<18, 50>>>>,
       <<<<15, 50>>, <<16, 53>>, <<17, 56>>, <<17, 57>>, <<18, 56>>, <<19, 62>>>>,
       <<<<19, 50>>, <<20, 44>>, <<23, 60>>>>,
       <<<<15, 50>>, <<16, 0>>, <<20, 57>>>>,
       <<<<24, 50>>, <<25, 40>>, <<25, 41>>, <<26, 30>>>>,
       <<<<15, 0>>, <<17, 0>>>> >>

\* How the next city moves: at t, and back or further on two later.
LeadAnswers(t) ==
    { <<<<15, 50>>, <<t, 56>>, <<t + 2, 62>>>>, <<<<15, 50>>, <<t, 44>>, <<t + 1, 0>>, <<t + 2, 50>>>>,
      <<<<t, 48>>, <<t + 1, 53>>>> }

LeadBook(x, y, z, u, v) ==
    LeadRows("x1", x) \o LeadRows("x1far", <<<<15, 80>>, <<16, 90>>, <<20, 80>>>>) \o LeadRows("y1", y)
    \o LeadRows("z1", z) \o LeadRows("u1", u) \o LeadRows("v1", v)
    \o LeadRows("x2", <<<<30, 50>>, <<31, 56>>, <<33, 62>>>>) \o LeadRows("y2", <<<<29, 40>>, <<32, 46>>>>)
    \o LeadRows("u2", <<<<30, 0>>, <<31, 0>>>>) \o LeadRows("v2", <<<<30, 40>>>>)

LeadJobs ==
    LET cities == {"x", "y", "z", "u", "v", "w"}
        moves(m) == LeadMoves[m]
        sorted(book) == SortSeq(book, LAMBDA a, b : a.id < b.id)
        books == {sorted(LeadBook(moves(m), a, <<<<16, 50>>, <<21, 57>>>>, moves(n), moves(n + 1))) :
                     m \in 1..6, n \in {1, 3}, a \in UNION {LeadAnswers(t) : t \in {16, 18, 21, 22, 26}}}
    IN  [book : books, recorded : {cities}]
        \cup {[book |-> LeadRows("x1", moves(1)), recorded |-> cities \ {"v"}],
              [book |-> LeadRows("x1", moves(2)) \o LeadRows("x1far", moves(1)), recorded |-> cities],
              [book |-> LeadRows("w1", moves(2)) \o LeadRows("w1far", moves(1)), recorded |-> cities]}
=============================================================================

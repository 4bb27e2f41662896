------------------------------ MODULE Backtest -------------------------------
(***************************************************************************)
(* The backtest (bot/backtest): a tape of books or of trade prints, and    *)
(* the runs of the forecast, are replayed through the strategies, the      *)
(* stake and the gates of the live bot (module Strategy), one decision per *)
(* market at a fixed lead before its close, and the orders are filled,     *)
(* settled and compared with the price that the market showed.             *)
(*                                                                         *)
(* Four sources feed one replay: a parquet file of snapshots (cli.py), the *)
(* tables of the bot (statedb.py), a file of trade prints (ticks.py), and  *)
(* the paper trades of the past (replay of engine.py).  Prices are in      *)
(* mills, times in units of which BtMinute make a minute, BtDay a day.     *)
(***************************************************************************)
EXTENDS Strategy

CONSTANTS
    BtTickers, BtEventOf, BtSeriesOf,
    BtOrder,        \* the tickers in their order, a number of each
    BtCutoff,       \* _effective_cutoff_date of a ticker, a day
    BtOpening,      \* when the observation window of a ticker opens
    BtStations,     \* the series that have a station
    BtTails,        \* the tickers of one strike
    BtBlacklist,    \* STRATEGY_BLACKLIST
    BtForecast,     \* [fair, spread] of a ticker by a run of the forecast
    BtMinute, BtDay,
    BtLead,         \* how long before the close a decision is made
    BtTailsFloor,   \* MIN_MINUTES_TO_CLOSE of tails.py
    BtStaleness,    \* how old the book or print of a decision may be
    BtDepthWindow,  \* how far back prints are counted as depth
    BtStart,        \* the rows of the tables before it are not used
    BtCycle, BtLag, \* GEFS cycles, and the time until one is published
    BtGrace,        \* SETTLEMENT_GRACE_DAYS
    BtBounds,       \* the bounds of the lead buckets
    BtSamples,      \* books that the depth table is made of
    BtMinSamples,   \* MIN_BUCKET_ROWS
    BtSeriesCap, BtAggregateCap,
    BtJobs,         \* what may be replayed: [source, strategy, tape]
    NOTIME          \* no close, or no cycle yet

\* A day is of whole minutes, and no two tickers share a place in their order.
ASSUME BtAssumption ==
    /\ {BtMinute, BtDay, BtCycle, BtLead, BtMinSamples} \subseteq Nat \ {0} /\ BtDay % BtMinute = 0
    /\ {BtTailsFloor, BtStaleness, BtDepthWindow, BtStart, BtLag, BtGrace} \subseteq Nat
    /\ {BtSeriesCap, BtAggregateCap} \subseteq Nat
    /\ BtCutoff \in [BtTickers -> Nat] /\ BtOrder \in [BtTickers -> Nat]
    /\ \A t, u \in BtTickers : BtOrder[t] = BtOrder[u] => t = u
    /\ NOTIME \notin Int

VARIABLES
    btJob,
    btQueue,    \* the decisions still to be replayed
    btRun,      \* the replay: its ledger of orders, what it holds, its cycle
    btScored,   \* the orders that are settled
    btPhase

btVars == <<btJob, btQueue, btRun, btScored, btPhase>>

\* A book or the listing of a market, a print, a trade.
BtRows ==
    [at : Int, ticker : BtTickers, close : Int \cup {NOTIME}, bid : 0..Dollar, noBid : 0..Dollar,
     bidSize : Nat, noSize : Nat, sized : BOOLEAN, result : {"", "yes", "no"}]
BtPrints == [at : Int, ticker : BtTickers, price : 0..Dollar, count : Nat]
BtTrades == [at : Int, ticker : BtTickers, strategy : {"edge", "tails"}]

\* Rows and prints are numbered in their order; trades come by their time.
ASSUME TapeRowsAssumption ==
    \A job \in BtJobs :
        LET tape == job.tape
        IN  /\ job.source \in {"file", "undated", "tables", "prints", "trades"}
            /\ job.strategy \in {"edge", "tails", "all"}
            /\ \A s \in {tape.rows, tape.prints, tape.trades, tape.markets} :
                  Len(s) \in Nat /\ DOMAIN s = 1..Len(s)
            /\ \A k \in DOMAIN tape.rows : tape.rows[k] \in BtRows
            /\ \A k \in DOMAIN tape.markets : tape.markets[k] \in BtRows
            /\ \A k \in DOMAIN tape.prints : tape.prints[k] \in BtPrints
            /\ \A k \in DOMAIN tape.trades : tape.trades[k] \in BtTrades
            /\ \A j, k \in DOMAIN tape.trades : j <= k => tape.trades[j].at <= tape.trades[k].at
            /\ tape.runs \subseteq Int /\ IsFiniteSet(tape.runs)
            /\ \A t \in BtTickers, r \in tape.runs :
                  BtForecast[t][r].fair \in Int /\ BtForecast[t][r].spread \in Nat

\* The first of the latest rows among those with an index in I.
LatestOf(rows, I) ==
    CHOOSE i \in I : \A j \in I : rows[j].at < rows[i].at \/ (rows[j].at = rows[i].at /\ i <= j)

\* The elements of a set as a sequence, by the pairs of a strict order.
InOrder(S, before) ==
    [n \in 1..Cardinality(S) |->
        CHOOSE x \in S : Cardinality({y \in S : <<y, x>> \in before}) = n - 1]

-----------------------------------------------------------------------------
(***************************************************************************)
(* What each source hands to the replay                                    *)
(***************************************************************************)

Settling(m) == [m EXCEPT !.at = m.close]

\* fetch_decision_snapshots: per market the latest book that is not stale.
FreshBooks(tape, m) ==
    LET at == m.close - BtLead
    IN  {i \in DOMAIN tape.rows :
            /\ tape.rows[i].ticker = m.ticker
            /\ Max({at - BtStaleness, BtStart}) <= tape.rows[i].at /\ tape.rows[i].at <= at}

DecisionBook(tape, m) ==
    [tape.rows[LatestOf(tape.rows, FreshBooks(tape, m))]
        EXCEPT !.close = m.close, !.result = "", !.sized = TRUE]

\* The prints of a market that its decision may see.
PrintsOf(tape, m) ==
    {i \in DOMAIN tape.prints : tape.prints[i].ticker = m.ticker
                                /\ tape.prints[i].at <= m.close - BtLead}

\* tick_decision_snapshots: the last print that is not stale is the book, and
\* the number of the latest prints its depth on both sides.
FreshPrints(tape, m) ==
    {i \in PrintsOf(tape, m) : tape.prints[i].at >= m.close - BtLead - BtStaleness}

DecisionPrint(tape, m) ==
    LET at    == m.close - BtLead
        price == tape.prints[LatestOf(tape.prints, FreshPrints(tape, m))].price
        depth == Cardinality({i \in PrintsOf(tape, m) : tape.prints[i].at > at - BtDepthWindow})
    IN  [m EXCEPT !.at = at, !.result = "", !.bid = price, !.noBid = Dollar - price,
                  !.bidSize = depth, !.noSize = depth, !.sized = TRUE]

\* load_snapshots: the rows of a file whose rows bear no time are taken for
\* rows of their decision.
UndatedRows(tape) ==
    [k \in DOMAIN tape.rows |->
        [tape.rows[k] EXCEPT !.at = IF tape.rows[k].close = NOTIME THEN NOTIME
                                    ELSE tape.rows[k].close - BtLead]]

\* The rows of the tables and of the prints: of each market that closes a row
\* that carries its result and, if its evidence is fresh, one to decide on.
Listed(tape) == {k \in DOMAIN tape.markets : tape.markets[k].close # NOTIME}

FromTables(tape) ==
    LET n    == Len(tape.markets)
        some == {k \in Listed(tape) : FreshBooks(tape, tape.markets[k]) # {}}
    IN  [i \in some \cup {n + k : k \in Listed(tape)} |->
            IF i <= n THEN DecisionBook(tape, tape.markets[i]) ELSE Settling(tape.markets[i - n])]

FromPrints(tape) ==
    LET some == {k \in Listed(tape) : FreshPrints(tape, tape.markets[k]) # {}}
    IN  [i \in {2 * k - 1 : k \in some} \cup {2 * k : k \in Listed(tape)} |->
            IF i % 2 = 1 THEN DecisionPrint(tape, tape.markets[(i + 1) \div 2])
            ELSE Settling(tape.markets[i \div 2])]

\* The rows of a source, numbered in their order; a number may be missing.
SourceRows(source, tape) ==
    CASE source = "file"    -> tape.rows
      [] source = "undated" -> UndatedRows(tape)
      [] source = "tables"  -> FromTables(tape)
      [] source = "prints"  -> FromPrints(tape)

\* Mutant: rows up to the close are candidates.
DecisionRowsLate(rows, ticker, close) ==
    {i \in DOMAIN rows : rows[i].ticker = ticker /\ rows[i].close = close /\ rows[i].at <= close}

\* The rows that a decision may be made on.
DecisionRows(rows, ticker, close) ==
    {i \in DOMAIN rows :
        rows[i].ticker = ticker /\ rows[i].close = close /\ rows[i].at <= close - BtLead}

\* run_replay: one decision per ticker and close, in the order of their closes.
Keys(rows) ==
    {k \in {<<rows[i].ticker, rows[i].close>> : i \in {j \in DOMAIN rows : rows[j].close # NOTIME}} :
        DecisionRows(rows, k[1], k[2]) # {}}

ByClose(keys) ==
    {p \in keys \X keys : \/ p[1][2] < p[2][2]
                          \/ p[1][2] = p[2][2] /\ BtOrder[p[1][1]] < BtOrder[p[2][1]]}

DecisionAt(rows, strategy, key) ==
    [ticker |-> key[1], asof |-> key[2] - BtLead, close |-> key[2], strategy |-> strategy,
     row |-> rows[LatestOf(rows, DecisionRows(rows, key[1], key[2]))]]

Decisions(rows, strategy) ==
    LET sorted == InOrder(Keys(rows), ByClose(Keys(rows)))
    IN  [n \in DOMAIN sorted |-> DecisionAt(rows, strategy, sorted[n])]

\* fetch_market_close
CloseOf(tape, ticker) ==
    LET C == {tape.markets[k].close : k \in {j \in DOMAIN tape.markets : tape.markets[j].ticker = ticker}}
    IN  IF C = {} THEN NOTIME ELSE CHOOSE c \in C : TRUE

\* fetch_book: the books of a trade's market before it.
BooksBefore(tape, t) ==
    {i \in DOMAIN tape.rows : tape.rows[i].ticker = t.ticker /\ tape.rows[i].at <= t.at}

\* replay of engine.py: the trades of the past in their order, each on the
\* latest book before it; a trade without one is not replayed.
UsableTrades(tape, strategy) ==
    {k \in DOMAIN tape.trades : /\ strategy \in {tape.trades[k].strategy, "all"}
                                /\ BooksBefore(tape, tape.trades[k]) # {}}

InTurn(numbers) == {p \in numbers \X numbers : p[1] < p[2]}

DecisionOn(tape, t) ==
    [ticker |-> t.ticker, asof |-> t.at, close |-> CloseOf(tape, t.ticker), strategy |-> t.strategy,
     row |-> [tape.rows[LatestOf(tape.rows, BooksBefore(tape, t))] EXCEPT !.sized = TRUE]]

TradeDecisions(tape, strategy) ==
    LET sorted == InOrder(UsableTrades(tape, strategy), InTurn(UsableTrades(tape, strategy)))
    IN  [n \in DOMAIN sorted |-> DecisionOn(tape, tape.trades[sorted[n]])]

DecisionsOf(job) ==
    IF job.source = "trades" THEN TradeDecisions(job.tape, job.strategy)
    ELSE Decisions(SourceRows(job.source, job.tape), job.strategy)

\* pick_cycle: back from the last cycle until one is published.
PickCycle(asof) == BtCycle * ((asof - BtLag) \div BtCycle)

\* fetch_forecast: the latest of the runs that the bot had fetched.
FetchedRun(runs, asof) ==
    LET past == {r \in runs : r <= asof}
    IN  IF past = {} THEN {} ELSE {Max(past)}

ForecastRun(job, asof) ==
    IF job.source \in {"tables", "trades"} THEN FetchedRun(job.tape.runs, asof)
    ELSE {PickCycle(asof)} \cap job.tape.runs

-----------------------------------------------------------------------------
(***************************************************************************)
(* The replay                                                              *)
(***************************************************************************)

LeadBucket(lead) == Cardinality({b \in BtBounds : lead > b})

\* statistics.median of sampled depths, cut to an integer where it is used.
MedianDepth(S) ==
    LET n      == Cardinality(S)
        rank(k) == (CHOOSE x \in S : Cardinality({y \in S : y.depth < x.depth}) < k
                                     /\ Cardinality({y \in S : y.depth <= x.depth}) >= k).depth
    IN  (rank((n + 1) \div 2) + rank(n \div 2 + 1)) \div 2

\* load_depth_table: the median of a series in a bucket, if enough books show it.
TableDepth(series, bucket) ==
    LET all == {x \in BtSamples : x.lead >= 0 /\ LeadBucket(x.lead) = bucket}
        own == {x \in all : x.series = series}
    IN  MedianDepth(IF Cardinality(own) >= BtMinSamples THEN own ELSE all)

\* Every bucket has a sample.
ASSUME DepthAssumption ==
    /\ IsFiniteSet(BtSamples) /\ IsFiniteSet(BtBounds) /\ BtBounds \subseteq Int
    /\ \A x \in BtSamples : x.lead \in Int /\ x.depth \in Nat
    /\ \A n \in 0..Cardinality(BtBounds) : \E x \in BtSamples : x.lead >= 0 /\ LeadBucket(x.lead) = n

\* The sizes of a snapshot, or the table's.
DepthOf(d, side) ==
    CASE ~d.row.sized -> TableDepth(BtSeriesOf[d.ticker], LeadBucket(d.close - d.row.at))
      [] d.row.sized /\ side = "buy_yes"  -> d.row.noSize
      [] d.row.sized /\ side = "sell_yes" -> d.row.bidSize

\* build_edge_context, build_tails_context: what the strategies are shown.
Shown(d, run) ==
    [bid |-> d.row.bid, noBid |-> d.row.noBid,
     bidDepth |-> DepthOf(d, "sell_yes"), noDepth |-> DepthOf(d, "buy_yes"),
     fair     |-> BtForecast[d.ticker][run].fair,
     spread   |-> BtForecast[d.ticker][run].spread,
     tail     |-> d.ticker \in BtTails,
     blacklisted |-> BtSeriesOf[d.ticker] \in BtBlacklist,
     sameDay  |-> d.asof \in BtOpening[d.ticker]..(BtOpening[d.ticker] + BtDay - 1)]

\* run_edge, run_tails: a past trade is shown as if its day had not begun.
ShownOfTrade(d, run) == [Shown(d, run) EXCEPT !.sameDay = FALSE]

\* The strategies get the caps themselves as their budgets, not what is left.
Signals(q) == BuildIntents(q, Min({MarketCap, EventCap}))

BtEvents == {BtEventOf[t] : t \in BtTickers}
BtSeries == {BtSeriesOf[t] : t \in BtTickers}

SpentOn(ledger, S) == MapThenSumSet(LAMBDA k : ledger[k].dollars, S)

\* seed_overlays: what the orders hold whose market is not long settled.
OpenFills(ledger, asof) ==
    {k \in DOMAIN ledger : BtCutoff[ledger[k].ticker] + BtGrace > asof \div BtDay}

Seeded(ledger, asof) ==
    LET open == OpenFills(ledger, asof)
    IN  [market |-> [t \in BtTickers |-> SpentOn(ledger, {k \in open : ledger[k].ticker = t})],
         event  |-> [e \in BtEvents |->
                        SpentOn(ledger, {k \in open : BtEventOf[ledger[k].ticker] = e})],
         series |-> [s \in BtSeries |->
                        SpentOn(ledger, {k \in open : BtSeriesOf[ledger[k].ticker] = s})],
         aggregate |-> SpentOn(ledger, open)]

\* The overlays with an order of this cycle.
Carried(held, ticker, dollars) ==
    [held EXCEPT !.market[ticker] = @ + dollars,
                 !.event[BtEventOf[ticker]] = @ + dollars,
                 !.series[BtSeriesOf[ticker]] = @ + dollars,
                 !.aggregate = @ + dollars]

\* build_gate_ctx and the gates that block in paper mode: friction and caps.
GatesPass(held, d, i) ==
    LET dollars == i.price * i.contracts
    IN  /\ i.edge >= RequiredEdge(i.price, i.depth, i.contracts)
        /\ held.market[d.ticker] + dollars <= MarketCap
        /\ held.event[BtEventOf[d.ticker]] + dollars <= EventCap
        /\ held.series[BtSeriesOf[d.ticker]] + dollars <= BtSeriesCap
        /\ held.aggregate + dollars <= BtAggregateCap

\* paper_collateral_per_contract, times the contracts
Collateral(i, row) ==
    (IF i.side = "buy_yes" THEN Dollar - row.noBid ELSE Dollar - row.bid) * i.contracts

\* A strategy is asked about the markets of its kind only, tails.py about none
\* that is without a close or near it.
Routed(d) ==
    IF d.strategy = "tails"
    THEN /\ d.ticker \in BtTails /\ BtSeriesOf[d.ticker] \notin BtBlacklist
         /\ d.close # NOTIME /\ d.close - d.asof > BtTailsFloor
    ELSE d.ticker \notin BtTails

NothingHeld == Seeded(<<>>, 0)

\* A new minute seeds the overlays anew.
AtMinute(run, d) ==
    LET minute == d.asof \div BtMinute
    IN  IF run.minute = minute THEN run
        ELSE [run EXCEPT !.minute = minute, !.held = Seeded(run.ledger, d.asof)]

\* The signal of a decision, through the gates into the ledger.
Booked(cycle, d, signals) ==
    LET passing == {i \in signals : GatesPass(cycle.held, d, i)}
        i       == CHOOSE x \in passing : TRUE
        dollars == Collateral(i, d.row)
    IN  IF passing = {} THEN cycle
        ELSE [cycle EXCEPT
                !.ledger = Append(@, [ticker |-> d.ticker, asof |-> d.asof, side |-> i.side,
                                      price |-> i.price, contracts |-> i.contracts,
                                      dollars |-> dollars, row |-> d.row]),
                !.held = Carried(@, d.ticker, dollars)]

\* One round of the loop of run_replay: a forecast that is missing ends it.
DecideSnapshot(job, run, d) ==
    LET cycle  == AtMinute(run, d)
        latest == ForecastRun(job, d.asof)
    IN  IF BtSeriesOf[d.ticker] \notin BtStations \/ ~Routed(d) THEN cycle
        ELSE IF latest = {} THEN [cycle EXCEPT !.failed = TRUE]
        ELSE Booked(cycle, d, Signals(Shown(d, Max(latest))))

\* One round of the loop of replay: without a forecast a trade is passed over.
DecideTrade(job, run, d) ==
    LET cycle  == AtMinute(run, d)
        latest == ForecastRun(job, d.asof)
    IN  IF BtSeriesOf[d.ticker] \notin BtStations \/ ~Routed(d) \/ latest = {} THEN cycle
        ELSE Booked(cycle, d, Signals(ShownOfTrade(d, Max(latest))))

Decide(job, run, d) ==
    IF job.source = "trades" THEN DecideTrade(job, run, d) ELSE DecideSnapshot(job, run, d)

FreshRun == [ledger |-> <<>>, held |-> NothingHeld, minute |-> NOTIME, failed |-> FALSE]

\* What a job's run is after each of its decisions.
RunsOf(job) ==
    LET ds == DecisionsOf(job)
        after[n \in 0..Len(ds)] ==
            IF n = 0 THEN FreshRun
            ELSE IF after[n - 1].failed THEN after[n - 1] ELSE Decide(job, after[n - 1], ds[n])
    IN  after

\* A replay from its start to its end, at once.
Replayed(job) == RunsOf(job)[Len(DecisionsOf(job))]

-----------------------------------------------------------------------------
(***************************************************************************)
(* Fills and settlement                                                    *)
(***************************************************************************)

\* The price of YES at which an order is executed.
ExecutedYes(o) == IF o.side = "buy_yes" THEN o.price ELSE Dollar - o.price

\* _qualifying_prints: a print through the price, or at it too.
Qualifies(o, p, rule) ==
    IF o.side = "sell_yes"
    THEN IF rule = "conservative" THEN p.price > ExecutedYes(o) ELSE p.price >= ExecutedYes(o)
    ELSE IF rule = "conservative" THEN p.price < ExecutedYes(o) ELSE p.price <= ExecutedYes(o)

\* fill_against_prints: the prints after the decision and up to the close.
FilledBy(tape, o, rule) ==
    LET P == {i \in DOMAIN tape.prints :
                /\ tape.prints[i].ticker = o.ticker
                /\ tape.prints[i].at > o.asof /\ tape.prints[i].at <= o.asof + BtLead
                /\ Qualifies(o, tape.prints[i], rule)}
    IN  Min({o.contracts, MapThenSumSet(LAMBDA i : tape.prints[i].count, P)})

\* realized_pnl_for_trade, before its fee; the price is that of YES.
GrossPnl(side, yes, n, won) ==
    IF side = "buy_yes" THEN (IF won THEN Dollar - yes ELSE -yes) * n
    ELSE (IF won THEN yes ELSE yes - Dollar) * n

\* settle_filled_order: n contracts of an order, at its own price.
NetOfFilled(o, n, result) ==
    IF n = 0 THEN 0
    ELSE GrossPnl(o.side, ExecutedYes(o), n, (result = "yes") = (o.side = "buy_yes"))
         - TakerFee(n, ExecutedYes(o))

\* settle_order: the whole order, at the price of the row it is scored against.
NetOfOrder(o, row, result) ==
    LET yes == IF o.side = "buy_yes" THEN YesAsk(row) ELSE row.bid
    IN  GrossPnl(o.side, yes, o.contracts, (result = "yes") = (o.side = "buy_yes"))
        - TakerFee(o.contracts, yes)

\* The results of a ticker among the rows; a later row's replaces an earlier one's.
ResultOf(rows, ticker) ==
    LET I == {i \in DOMAIN rows : rows[i].ticker = ticker /\ rows[i].result \in {"yes", "no"}}
    IN  IF I = {} THEN "" ELSE rows[Max(I)].result

\* settle_run and tick_settle_orders: the row that the order is scored
\* against, the latest at the decision or, of prints, before the close.
BaselineRow(source, rows, o) ==
    LET close == o.asof + BtLead
        I == IF source = "prints"
             THEN {i \in DOMAIN rows : /\ rows[i].ticker = o.ticker /\ rows[i].close = close
                                       /\ rows[i].at < close}
             ELSE DecisionRows(rows, o.ticker, close)
    IN  rows[LatestOf(rows, I)]

\* An order with its P&L: of prints, by both of the rules for its fills.
Scored(job, o) ==
    LET rows   == SourceRows(job.source, job.tape)
        row    == BaselineRow(job.source, rows, o)
        result == ResultOf(rows, o.ticker)
        net(rule) == IF job.source = "prints" THEN NetOfFilled(o, FilledBy(job.tape, o, rule), result)
                     ELSE NetOfOrder(o, row, result)
    IN  [order |-> o, baseline |-> row, result |-> result,
         net |-> [conservative |-> net("conservative"), inclusive |-> net("inclusive")]]

\* settle_run drops an order without a result, tick_settle_orders raises.
Settleable(job, o) == ResultOf(SourceRows(job.source, job.tape), o.ticker) # ""

-----------------------------------------------------------------------------
(***************************************************************************)
(* The job as a state machine                                              *)
(***************************************************************************)

BtInit ==
    /\ btJob \in BtJobs
    /\ btQueue = <<>> /\ btRun = FreshRun /\ btScored = <<>>
    /\ btPhase = "load"

Load ==
    /\ btPhase = "load"
    /\ btQueue' = DecisionsOf(btJob)
    /\ btPhase' = "replay"
    /\ UNCHANGED <<btJob, btRun, btScored>>

ReplayOne ==
    /\ btPhase = "replay" /\ btQueue # <<>> /\ ~btRun.failed
    /\ btRun' = Decide(btJob, btRun, Head(btQueue))
    /\ btQueue' = Tail(btQueue)
    /\ UNCHANGED <<btJob, btScored, btPhase>>

\* Nothing is settled and reported of a replay that failed, of past trades, or
\* of prints if an order has no result.
SettleAll ==
    /\ btPhase = "replay" /\ btQueue = <<>> /\ ~btRun.failed
    /\ btJob.source # "trades"
    /\ btJob.source = "prints" => \A k \in DOMAIN btRun.ledger : Settleable(btJob, btRun.ledger[k])
    /\ btScored' = [k \in {j \in DOMAIN btRun.ledger : Settleable(btJob, btRun.ledger[j])} |->
                       Scored(btJob, btRun.ledger[k])]
    /\ btPhase' = "settled"
    /\ UNCHANGED <<btJob, btQueue, btRun>>

BtNext == Load \/ ReplayOne \/ SettleAll

BtSpec == BtInit /\ [][BtNext]_btVars

-----------------------------------------------------------------------------
(***************************************************************************)
(* Properties                                                              *)
(***************************************************************************)

\* The job as it would have been at the time t.
Until(rows, t) == [k \in {i \in DOMAIN rows : rows[i].at <= t} |-> rows[k]]

RunsKnown(job, t) ==
    {r \in job.tape.runs : (IF job.source \in {"tables", "trades"} THEN r ELSE r + BtLag) <= t}

KnownAt(job, t) ==
    [source |-> job.source, strategy |-> job.strategy,
     tape |-> [rows    |-> IF job.source = "undated" THEN job.tape.rows ELSE Until(job.tape.rows, t),
               prints  |-> Until(job.tape.prints, t),
               trades  |-> Until(job.tape.trades, t),
               markets |-> job.tape.markets,
               runs    |-> RunsKnown(job, t)]]

UpTo(ledger, t) == [k \in {j \in DOMAIN ledger : ledger[j].asof <= t} |-> ledger[k]]

\* No order, and no price that an order is scored against, depends on anything
\* later than its decision: the replay of what was known at that instant, of
\* the books, the prints and the published forecasts, makes the same orders up
\* to it, whatever the source (test_lookahead_invariance does it for one tape).
\* A file whose rows bear no time is believed.
NoLookAhead ==
    /\ btPhase = "replay" /\ (btQueue = <<>> \/ btRun.failed) =>
          \A t \in {btRun.ledger[k].asof : k \in DOMAIN btRun.ledger} :
              UpTo(Replayed(KnownAt(btJob, t)).ledger, t) = UpTo(btRun.ledger, t)
    /\ \A k \in DOMAIN btScored : btScored[k].baseline = btScored[k].order.row

\* What an order loses at worst, by the P&L that the settlement books.
WorstLoss(o) == -Min({NetOfOrder(o, o.row, "yes"), NetOfOrder(o, o.row, "no")})
                - TakerFee(o.contracts, ExecutedYes(o))

\* If every market that was open at a decision went the wrong way, the losses,
\* without their fees, would stay under the four caps: the overlays that are
\* seeded once a minute and carried by hand within it count every open order,
\* at the price that the settlement charges.
LossesWithinCaps ==
    \A n \in DOMAIN btRun.ledger :
        LET open == {k \in OpenFills(btRun.ledger, btRun.ledger[n].asof) : k <= n}
            loss(S) == MapThenSumSet(LAMBDA k : WorstLoss(btRun.ledger[k]), S)
        IN  /\ \A t \in BtTickers : loss({k \in open : btRun.ledger[k].ticker = t}) <= MarketCap
            /\ \A e \in BtEvents :
                  loss({k \in open : BtEventOf[btRun.ledger[k].ticker] = e}) <= EventCap
            /\ \A s \in BtSeries :
                  loss({k \in open : BtSeriesOf[btRun.ledger[k].ticker] = s}) <= BtSeriesCap
            /\ loss(open) <= BtAggregateCap

\* A replayed strategy sees nothing that its time had not seen, and stakes no
\* more than the caps of its bankroll.
BacktestIsHonest == NoLookAhead /\ LossesWithinCaps
=============================================================================

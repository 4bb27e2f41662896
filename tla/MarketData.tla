----------------------------- MODULE MarketData ------------------------------
(***************************************************************************)
(* The data a decision rests on, bot/main.py: refresh_markets lists the    *)
(* open markets of each series and fetches their books, refresh_forecasts  *)
(* fetches the forecast of each station, both into the memory of App and   *)
(* into the database, and evaluate_strategies decides from the memory      *)
(* while they go on.  A book and a run of the forecast are known by the    *)
(* time they were fetched (snapshot_at, run_time), in minutes, which is    *)
(* also how far apart the rounds are.  What the strategies make of the     *)
(* data is in Strategy and PaperTrader, what becomes of an order in        *)
(* DemoOrders: here any subset of the markets may give an intent.          *)
(*                                                                         *)
(* No section under db_lock awaits anything, so each is one action.        *)
(***************************************************************************)
EXTENDS Naturals, Sequences, FiniteSets, Functions

CONSTANTS
    Tickers,
    SeriesOfTicker,  \* the series, and so the station, of a ticker
    DayOfTicker,     \* event_date
    Odd,             \* tickers that parse_ticker refuses
    Untimed,         \* markets without a close_time
    SeriesList,      \* app.series_list
    HoursServed,     \* the hours that a forecast may have of each local day
    MinHours,        \* MIN_HOURS_PER_DAY of bot/forecast/open_meteo.py
    CycleEvery,      \* the time between two cycles of the forecast model
    StaleAfter,      \* STALE_ORDERBOOK_THRESHOLD_SECONDS
    MaxNow,          \* bound on the time
    MaxFaults        \* bound on what fails and on the restarts

ASSUME MarketDataAssumption ==
    /\ Odd \subseteq Tickers /\ Untimed \subseteq Tickers
    /\ CycleEvery \in Nat \ {0} /\ StaleAfter \in Nat /\ {MaxNow, MaxFaults} \subseteq Nat

VARIABLES
    now,
    faults,     \* how much has failed
    trading,    \* settings.mode, "paper" or "demo"
    cache,      \* of App: latest_orderbooks (latest_markets has the same
                \* tickers) and forecast_run_times, each with what it was fetched at
    stored,     \* rows of markets, orderbook_snapshots and forecasts
    rolledBack,       \* history: the rows that failed commits took back
    gone,       \* history: the tickers that the last listing of their series lacked,
                \* or whose books it did not lead to
    lingering,  \* history: those of them that a failed round left in the memory
    round,      \* the run of refresh_markets
    forecast,   \* the run of refresh_forecasts
    pending,    \* pending_intents
    due,        \* when each loop runs its body again
    decided     \* history: what the last step filled or sent

marketVars == <<now, faults, trading, cache, stored, rolledBack, gone, lingering,
                round, forecast, pending, due, decided>>

Idle == [todo |-> <<>>, listed |-> FALSE, left |-> {}, pairs |-> <<>>]

\* Something fails, or the bot is started again.
Faulty == faults < MaxFaults /\ faults' = faults + 1

Outcome(good) == IF good THEN UNCHANGED faults ELSE Faulty

App == [books |-> <<>>, runs |-> <<>>]

\* What a cache holds once the entries of new are written over those of old.
Updated(old, new) ==
    [k \in DOMAIN old \cup DOMAIN new |-> IF k \in DOMAIN new THEN new[k] ELSE old[k]]

FreshLoops == [markets |-> now, forecasts |-> now, evaluation |-> now]

\* The rows of Market, OrderbookSnapshot and Forecast, before any is written.
EmptyTables == [markets |-> {}, books |-> {}, forecasts |-> {}]

MarketDataInit ==
    /\ now = 0 /\ faults = 0
    /\ trading \in {"paper", "demo"}
    /\ cache = App
    /\ stored = EmptyTables
    /\ rolledBack = {} /\ gone = {} /\ lingering = {}
    /\ round = Idle /\ forecast = <<>>
    /\ pending = {} /\ decided = {}
    /\ due = FreshLoops

-----------------------------------------------------------------------------
(***************************************************************************)
(* refresh_forecasts.  A run that succeeds is followed by one at the next  *)
(* cycle, a run that fails by one a minute later.                          *)
(***************************************************************************)

\* _next_gfs_cycle
NextCycle(t) == (t \div CycleEvery + 1) * CycleEvery

\* _daily_max_per_member: the days of which the forecast has enough hours.
DaysCovered(hours) == {d \in DOMAIN hours : hours[d] >= MinHours}

\* fetch_station takes the time as run_time before it asks.
Requested(series) == [k \in DOMAIN series |-> [series |-> series[k], run |-> now]]

StartForecasts ==
    /\ UNCHANGED faults
    /\ forecast = <<>> /\ due.forecasts <= now
    /\ forecast' = Requested(SeriesList)
    /\ decided' = {}
    /\ UNCHANGED <<now, trading, cache, stored, rolledBack, gone, lingering, round, pending, due>>

\* The answer for the station that the run has come to.  Each request after the
\* first is sent when the answer before it has been saved.  A commit that fails
\* ends the run; the memory has the forecast all the same.
PersistForecast(hours, committed) ==
    /\ Outcome(committed)
    /\ forecast # <<>>
    /\ LET f    == Head(forecast)
           keys == {f.series} \X DaysCovered(hours)
           rows == {<<key, f.run>> : key \in keys}
           rest == Requested([k \in DOMAIN Tail(forecast) |-> Tail(forecast)[k].series])
       IN  /\ cache' = [cache EXCEPT !.runs = Updated(@, [key \in keys |-> f.run])]
           /\ IF committed
              THEN /\ stored' = [stored EXCEPT !.forecasts = @ \cup rows]
                   /\ forecast' = rest
                   /\ due' = IF rest = <<>> THEN [due EXCEPT !.forecasts = NextCycle(now)]
                                            ELSE due
                   /\ UNCHANGED rolledBack
              ELSE /\ rolledBack' = rolledBack \cup (rows \ stored.forecasts)
                   /\ forecast' = <<>>
                   /\ due' = [due EXCEPT !.forecasts = now + 1]
                   /\ UNCHANGED stored
    /\ decided' = {}
    /\ UNCHANGED <<now, trading, gone, lingering, round, pending>>

\* The request fails, or the answer cannot be read: the stations that follow
\* keep the forecast they have.
ForecastFails ==
    /\ Faulty
    /\ forecast # <<>>
    /\ forecast' = <<>>
    /\ due' = [due EXCEPT !.forecasts = now + 1]
    /\ decided' = {}
    /\ UNCHANGED <<now, trading, cache, stored, rolledBack, gone, lingering, round, pending>>

-----------------------------------------------------------------------------
(***************************************************************************)
(* refresh_markets                                                         *)
(***************************************************************************)

\* The round goes on with the next series, or ends.
NextSeries(rest) ==
    /\ round' = [Idle EXCEPT !.todo = rest]
    /\ due' = IF rest = <<>> THEN [due EXCEPT !.markets = now + 1] ELSE due

StartRound ==
    /\ UNCHANGED faults
    /\ round.todo = <<>> /\ due.markets <= now
    /\ round' = [Idle EXCEPT !.todo = SeriesList]
    /\ decided' = {}
    /\ UNCHANGED <<now, trading, cache, stored, rolledBack, gone, lingering,
                   forecast, pending, due>>

\* list_open_markets_for_series: of what the venue lists as open, a market without
\* quotes is left out, and so is one of another series.
ListMarkets(quoted) ==
    /\ UNCHANGED faults
    /\ round.todo # <<>> /\ ~round.listed
    /\ LET listed == {t \in quoted : SeriesOfTicker[t] = Head(round.todo)}
       IN  round' = [round EXCEPT !.listed = TRUE, !.left = listed]
    /\ decided' = {}
    /\ UNCHANGED <<now, trading, cache, stored, rolledBack, gone, lingering,
                   forecast, pending, due>>

\* The series keeps the markets and the books it has.
ListingFails ==
    /\ Faulty
    /\ round.todo # <<>> /\ ~round.listed
    /\ NextSeries(Tail(round.todo))
    /\ decided' = {}
    /\ UNCHANGED <<now, trading, cache, stored, rolledBack, gone, lingering, forecast, pending>>

\* get_orderbook: a market whose book cannot be fetched counts as not seen.
FetchBook(t, answered) ==
    /\ Outcome(answered)
    /\ t \in round.left
    /\ round' = [round EXCEPT !.left = @ \ {t},
                              !.pairs = IF answered THEN Updated(@, [x \in {t} |-> now]) ELSE @]
    /\ decided' = {}
    /\ UNCHANGED <<now, trading, cache, stored, rolledBack, gone, lingering,
                   forecast, pending, due>>

\* The round of the series ends: its listing showed the tickers of seen and none of
\* missed, and the memory holds those of held.
ListingShows(seen, missed, held) ==
    /\ gone' = (gone \ seen) \cup missed
    /\ lingering' = (lingering \ (seen \cup missed)) \cup (missed \cap held)

Listable(series) == {t \in Tickers : SeriesOfTicker[t] = series}

\* Any other exception ends the round, and what it has fetched of the series: the
\* markets that the listing lacked stay in the memory.
RoundBreaks ==
    /\ Faulty
    /\ round.todo # <<>>
    /\ NextSeries(<<>>)
    /\ LET seen == DOMAIN round.pairs \cup round.left
       IN  IF round.listed
           THEN ListingShows(seen, Listable(Head(round.todo)) \ seen, DOMAIN cache.books)
           ELSE UNCHANGED <<gone, lingering>>
    /\ decided' = {}
    /\ UNCHANGED <<now, trading, cache, stored, rolledBack, forecast, pending>>

\* The books of the series are saved under db_lock and put into the memory; then
\* the tickers that were not seen leave it.  Where the commit fails the round
\* ends: the memory is ahead of the database, and nothing leaves it.
SaveSeries(committed) ==
    LET series == Head(round.todo)
        seen   == DOMAIN round.pairs
        kept   == Restrict(round.pairs, seen \ Odd)
        rows   == {<<t, kept[t]>> : t \in DOMAIN kept}
        missed == Listable(series) \ seen
        known  == Updated(cache.books, kept)
    IN  /\ Outcome(committed)
        /\ round.listed /\ round.left = {}
        /\ IF committed
           THEN /\ stored' = [stored EXCEPT !.markets = @ \cup DOMAIN kept,
                                            !.books = @ \cup rows]
                /\ cache' = [cache EXCEPT !.books = Restrict(known, DOMAIN known \ missed)]
                /\ NextSeries(Tail(round.todo))
                /\ UNCHANGED rolledBack
           ELSE /\ cache' = [cache EXCEPT !.books = known]
                /\ rolledBack' = rolledBack \cup (rows \ stored.books)
                /\ NextSeries(<<>>)
                /\ UNCHANGED stored
        /\ ListingShows(seen, missed, DOMAIN cache'.books)
        /\ decided' = {}
        /\ UNCHANGED <<now, trading, forecast, pending>>

-----------------------------------------------------------------------------
(***************************************************************************)
(* evaluate_strategies.  From the copy of the caches to the plan it does   *)
(* not await: the plan is one step.  The orders of a demo plan are placed  *)
(* one after the other, and every placement awaits.                        *)
(***************************************************************************)

KeyOf(t) == <<SeriesOfTicker[t], DayOfTicker[t]>>

\* The markets that the loop over the snapshot does not pass over.
Tradable ==
    {t \in DOMAIN cache.books \ (Odd \cup Untimed) : KeyOf(t) \in DOMAIN cache.runs}

Planned(t) == [market |-> t, book |-> cache.books[t], run |-> cache.runs[KeyOf(t)]]

\* simulate_taker_fill: no fill from a stale book.
FreshEnough(p) == now - p.book <= StaleAfter

\* _eval_loop: the next evaluation comes a minute after this one has placed its
\* last order.
EvaluationEnds ==
    due' = IF pending' = {} THEN [due EXCEPT !.evaluation = now + 1] ELSE due

\* Paper trades are filled on the spot.  The age of a book is not looked at when
\* an order is planned.
EvaluateMarkets(chosen) ==
    /\ UNCHANGED faults
    /\ pending = {} /\ due.evaluation <= now
    /\ chosen \subseteq Tradable
    /\ LET plan == {Planned(t) : t \in chosen}
       IN  IF trading = "paper"
           THEN /\ decided' = {p \in plan : FreshEnough(p)}
                /\ UNCHANGED pending
           ELSE /\ pending' = plan
                /\ decided' = {}
    /\ EvaluationEnds
    /\ UNCHANGED <<now, trading, cache, stored, rolledBack, gone, lingering, round, forecast>>

\* Mutant: the placement trusts the plan.
PlaceAsPlanned(p) ==
    /\ UNCHANGED faults
    /\ p \in pending
    /\ pending' = pending \ {p}
    /\ decided' = {p}
    /\ EvaluationEnds
    /\ UNCHANGED <<now, trading, cache, stored, rolledBack, gone, lingering, round, forecast>>

\* _place: the order of a market that has left the memory is not sent.
PlaceOrder(p) ==
    /\ UNCHANGED faults
    /\ p \in pending
    /\ pending' = pending \ {p}
    /\ decided' = IF p.market \in DOMAIN cache.books THEN {p} ELSE {}
    /\ EvaluationEnds
    /\ UNCHANGED <<now, trading, cache, stored, rolledBack, gone, lingering, round, forecast>>

-----------------------------------------------------------------------------
Minute ==
    /\ UNCHANGED faults
    /\ now < MaxNow
    /\ now' = now + 1
    /\ decided' = {}
    /\ UNCHANGED <<trading, cache, stored, rolledBack, gone, lingering,
                   round, forecast, pending, due>>

\* run cancels its tasks wherever they await; the next process starts with empty
\* caches, and with the database.
RunAgain ==
    /\ Faulty
    /\ cache # App
    /\ cache' = App
    /\ round' = Idle /\ forecast' = <<>> /\ pending' = {}
    /\ due' = FreshLoops
    /\ lingering' = {}
    /\ decided' = {}
    /\ UNCHANGED <<now, trading, stored, rolledBack, gone>>

MarketDataNext ==
    \/ StartForecasts \/ ForecastFails
    \/ \E hours \in HoursServed, committed \in BOOLEAN : PersistForecast(hours, committed)
    \/ StartRound \/ ListingFails \/ RoundBreaks
    \/ \E quoted \in SUBSET Tickers : ListMarkets(quoted)
    \/ \E t \in Tickers, answered \in BOOLEAN : FetchBook(t, answered)
    \/ \E committed \in BOOLEAN : SaveSeries(committed)
    \/ \E chosen \in SUBSET Tickers : EvaluateMarkets(chosen)
    \/ \E p \in pending : PlaceOrder(p)
    \/ Minute \/ RunAgain

MarketDataSpec == MarketDataInit /\ [][MarketDataNext]_marketVars

-----------------------------------------------------------------------------
\* What the bot fills or sends can be traced and is on offer as far as the round
\* knows: no market that the last listing of its series lacked, unless the round
\* failed after that listing, which leaves the market in the memory until a round
\* ends well or the bot is started again; the book and the run of the forecast that
\* the decision was made from have their rows, unless a commit that failed took
\* them back; and a paper fill is from a book that is not stale.
DecisionsAreGrounded ==
    \A p \in decided :
        /\ p.market \in gone => p.market \in lingering
        /\ p.market \in stored.markets \/ <<p.market, p.book>> \in rolledBack
        /\ <<p.market, p.book>> \in stored.books \cup rolledBack
        /\ <<KeyOf(p.market), p.run>> \in stored.forecasts \cup rolledBack
        /\ trading = "paper" => now - p.book <= StaleAfter
=============================================================================

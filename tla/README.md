# A verification project for kalshi-weather

TLA+ modules of the parts of kalshi-weather that move money or make evidence,
TLC runs that check them on small instances, and TLAPS proofs of what they
promise for every instance.

The bot is one asyncio process: nine loops (`bot/main.py:run`) that share an
`App`, a SQLite database behind `db_lock` and two venue clients. Beside it
run a watchdog on a timer and, offline, the replay programs that read the tape
the bot recorded. Nothing in it is parallel; everything in it is interleaved
at `await`s, killed by systemd, and answered late by a venue.

## 1. The system and what makes it hard

| part | state it keeps | operations | what is hard |
| --- | --- | --- | --- |
| order placement (`execution/order_placer.py`, `order_loop.py`) | client ids derived from the intent, the 429 breaker | POST, GET after a 409 | an answer that never comes, a request that arrives after its timeout, a 409 for an order of another size |
| evaluation and commit (`main.py`, `demo_row_translator.py`) | the cycle's accepted orders, in memory | plan, place one by one, `_commit_phase2` | a crash between acceptance and commit; a commit that fails for one order only |
| reconciler (`order_reconciler.py`) | `demo_orders`, `paper_trades`, the watermark | poll orders, poll fills, one transaction | late listings, an order only the venue knows, two rows for one order |
| boot check (`main.py`) | - | startup backfill, comparison of positions | false alarms and missed holes after a crash |
| WebSocket client and recorder (`kalshi_ws.py`, `main.py`) | sequence numbers, a pending gap, a batch, the tape | subscribe, apply, flush, resubscribe, reconnect | lost messages, lost links, gaps recorded late or not at all, sessions that die with a batch in memory |
| reading the tape (`lag/ws_book.py`, `replay/blind_windows.py`, `replay/clears.py`) | - | book at an instant, blind windows | a stale book that looks current |
| forward pass (`replay/forward_pass.py`, `ladder.py`, `inventory.py`, `parity.py`, `artifacts.py`) | ladders with a ceiling, open files, a checkpoint | consume, commit at barriers, evict, restore | kills between two writes, a barrier inside a snapshot, gaps recorded while the pass runs |
| token bucket, 429 breaker | tokens, recent refusals | acquire, refill, close | tokens lost to cancellation |
| loop runner (`observability/loop_runner.py`) | failure streak per loop | run, skip, fail, recover, stop | alarms and back-off across skips |
| observation arrivals, settlement (`main.py`) | seen set, simulated P&L | poll, settle on a timer and on a signal | check-then-insert across an await |
| market and forecast refresh (`main.py`) | memory of `App` beside its tables | list, fetch, prune, commit, evaluate | memory ahead of the tables, a listing that fails, a plan older than its placement |
| portfolio snapshot (`execution/portfolio_snapshot.py`) | totals, realized P&L on rows of orders | balance, pages of positions, one transaction | two reads of a moving account, rows committed late |
| watchdog (`scripts/ws_watchdog.py`) | a state file | compare, push, save | an alarm consumed by a failed push, a state file cut by a kill |
| exposure, gates, sizing, strategies | overlays of a cycle | sum, compare with caps | exposure that misses an order |
| run scope, run manifest (`replay/run_scope.py`, `lag/run_manifest.py`) | manifests | admit station-days, freeze inputs | evidence used twice |
| studies (`lag/`), backtest (`backtest/`) | manifests, frozen samples; else none kept | computations over the tape, file by file, that end in a verdict | look-ahead, edges of windows and cells, state carried across files and exclusions |
| parity gate (`replay/parity.py`) | - | compare the pass with `book_state_at` | two readers that refuse at different instants |
| forecast retrieval, storage schema, reports, operator scripts | caches, tables | fetch, parse, format | outside what a model checker tells apart |

How they interact: the loops call the venue and each other's tables only
through `App`; the recorder writes `ws_book_events`, `ws_gaps` and raw frames
that the replay programs read, while it goes on writing; the reconciler and
the evaluation write the same two tables in separate transactions; the paper
table is what exposure and settlement read. `PROJECT.json` lists every part
with its status and, under `hazards`, each place where the code can go wrong
in a way a test hardly reaches.

What makes each part correct, in one sentence each:

- *orders*: what the venue did for the bot is, in the end, what the tables
  say once, in one row, in one frame of prices, and counted against the caps;
- *recorder*: the book that is replayed from the tape at an instant is the
  venue's book at that instant, or the instant is declared blind;
- *forward pass*: its output is a function of the tape and not of when it was
  killed, and the windows it excludes bracket the gaps;
- *loops*: every loop keeps going, alarms when it cannot, and does what it
  owes once;
- *studies*: nothing after an instant is used to decide at that instant.

## 2. Modules

| module | what it is |
| --- | --- |
| `DemoRows` | the two tables as an entry per order, and every function of a database session as an operator on entries |
| `DemoOrders` | the venue, the evaluation, the reconciler, crash and boot, over `DemoRows` |
| `OrderLedger` | abstract: an order is unknown, held, counted; what `DemoOrders` implements |
| `DemoOrdersProofs` | the session functions; type correctness and the safety of the watermark; rows within the venue's orders, the refinement of `OrderLedger`, and what holds when answers carry the order id |
| `WsTape` | the tape as a sequence, and the pure readers: book at an instant, boundaries, blind windows |
| `WsRecorder` | venue, link, client and session that write the tape |
| `WsRecorderProofs` | replays are the venue's books, losses are blind, gaps are accounted for, for every tape a session can write |
| `PassArtifact` | abstract: a set of rows that covers a growing prefix of the tape |
| `ForwardPass` | the pass, its files and checkpoint, kills and resumes |
| `ForwardPassProofs` | the pass implements `PassArtifact`; its rows are the book, its counts add up, its windows bracket gaps |
| `TokenBucket` | the rate limiter of the venue clients |
| `OrderBreaker` | the 429 breaker of order placement |
| `LoopRunner`, `ObsArrivals` | the supervisor of every loop, and the loop that records observations, under it |
| `PaperTrader` | paper mode: exposure, caps, fills, and the settlers of `simulated_pnl` |
| `Watchdog` | the timer's health check against a recorder that goes on |
| `LoopsProofs` | tokens, arrivals, outages, caps and settlement, for every instance |
| `RunScope` | the frozen run scope of the tape studies, the tool that writes it, and the studies' screening |
| `Strategy` | both strategies, their sizing, fees and friction, and the gates a signal meets |
| `MarketData` | what a decision is made from: listings, books, forecasts, in memory and in the tables |
| `Portfolio` | the snapshot of the venue account and the figures it leaves on rows of orders |
| `Backtest`, `BacktestVerdict` | the replay of a strategy from four kinds of evidence, and what its runs conclude |
| `Parity` | the exclusion windows of a pass and the verdicts of the parity gate, over `WsTape` |
| `TapeStudy`, `TapeStats` | what the studies share: rows, the state in force, screening, tallies; gates, replication, medians |
| `DepthMap` | the depth study |
| `ForecastClass` | the forecast-source study, from frozen sample to verdict |
| `LockEvents`, `LockStudy` | when readings settle a market; the supply of locks and their convergence |
| `TakerFlow` | the flow study and its stratum near locks |
| `LadderStudy` | the ladder consistency study |
| `SettlementStudy` | the study of days that two sources settle apart |
| `LeadLag` | the lead-lag study |
| `StudiesProofs` | stakes and friction, grounded decisions, accountable snapshots, for every instance |
| `TapeProofs` | rows in the order of their arrival; what the flow, lock, settlement and lead-lag studies measure, for every instance |
| `ReplayProofs` | the scope is the earliest, can be read and stays; a verdict is earned; for every instance |
| `FoldProofs` | least elements, counting, recursion over naturals, folds, sums and sizes of finite sets, powers of two: lemmas that the proofs share |
| `MC*` | constants, bounds and symmetry for TLC |

### DemoRows and DemoOrders

An entry is what the database holds about one venue order: the row keyed by
the client id (`own`), the row the reconciler made for an unknown exchange id
(`backfill`, `kw-backfill-...`), and the paper row. `UpsertExchangeRecord`,
`ReconcileFills`, `IdempotentInsert`, `Stitch`, `InsertDemoRow` and
`CommitOrder` are the functions of the same names; a savepoint that raises
leaves the entry as it was, a transaction that raises leaves all of them. The
paper row of an answer is written outside the savepoint of its demo row, so a
savepoint of `_commit_phase2` that fails leaves an order that is counted before
it is recorded (`CommitOrder` with `failed`).
`YesFramePrice` is the complement, done wherever the code does it, so that a
price carries the frame it is really in.

In `DemoOrders` the venue accepts, books, lists and publishes fills with a lag
of at most `Lag`; the evaluation plans orders, posts them one by one (`201`,
`409` and the GET that follows, other refusals, timeout with the request still
on its way) and commits; the reconciler takes `now - Overlap`, polls orders,
polls fills and commits; the process crashes at any step and boots through the
backfill and the position check.

Abstractions: one venue order per client id (the venue answers 409 to the
second), so the branches of `stitch_natural_key_order` for a second holder are
not reached; immediate-or-cancel orders are final when accepted, though the
201 may show the payload before its fills were booked; a poll's pages are one
snapshot; a block under `db_lock` is atomic (it awaits nothing); gates, sizing,
market cache and breaker are a free choice of whether and what to post; fees
and price levels beyond the frame are left out; a payload of a filled order names
a cost (without one `_parse_order` logs, has no price, and no paper row is made).
`OmitsId` says whether answers may lack the order id, which the parser tolerates.

`CommittedFillsCounted` tells two commitments apart, by a history variable. An
answer that *told* fills is counted with all of them, whatever becomes of its
demo row. Of an order committed *untold*, before its fills were booked, the
reconciler makes the paper row; the first one stays
(`on_conflict_do_nothing`), so a poll between two fills counts one of them for
good. The property then asks for a row, not for its size, and says so; that all
known fills are counted is `KnownFillsCounted`, which is violated.

### WsTape and WsRecorder

Position on the tape stands for time: stamps are taken by one process from a
monotone clock and a gap row is stamped where it is written. A market's book
is one price level, enough to tell a right book from a stale or empty one.
The recorder's actions are the client's (open, subscribe, receive, notice a
skip, reconnect, close) and the session's (buffer, flush, persist a gap,
resubscribe, die). One message is on the wire at a time; the venue sends the
snapshots of a subscription before its deltas (`blind_windows.py:94`); only
deltas can be skipped. Markets open and close for good. Trades, heartbeats and
the rotation of the raw tape are left out; a terminal error frame acts as a
lost link.

### ForwardPass

Ids are tape positions. The pass begins (or resumes) from its checkpoint,
fetches a batch, consumes a row at a time into a ladder per ticker, emits one
row into an open file, evicts the least recently used ladder at the ceiling,
and every `BarrierRows` rows closes its files and commits a checkpoint; a kill
may come at any step and loses what is not committed. The temporary file and
`os.replace` of the checkpoint are one step; loss of power is not modelled.
Ladders keep two levels, one side; a ticker is a partition. `Pinned` says the
operator passed `--max-id`, the last id when the pass began. Over the byte
budget is a kill. The boundary detector, the scale census and the trades file
are left out.

### The parts beside the order path

`MCLoops` puts five parts side by side; a behaviour is one of the part its
first state names, because they share nothing but the event loop.

`TokenBucket`: each token of an `acquire` is waited for by a task of its own.
`Ask` starts it, `Take`, `GiveBack` and `Abort` are the three ways in which
the call resumes, and `Cancel` leaves the waiter in the semaphore's queue as an
orphan, since `asyncio.wait` does not cancel what it waits for; a token that an
orphan takes is lost. `Locked` and `Release` are the semaphore's.

`LoopRunner`: the failure streak, the two alarms' times and the sleeps of
`run_loop`; a body ends with `Skipped`, `Failed` or `Succeeded`. `ObsArrivals`
is such a body. Times saturate at `Horizon`, which is beyond every time that a
property tells apart. `Restart` keeps the table and loses the rest.

`PaperTrader`: an evaluation in paper mode awaits nothing, so it is one step:
exposure from the tables, then every intent in turn against the caps and over
the exposure. A settler takes the lock, reads, asks per station-day, books;
the loop reads its clock before it waits for the lock, a signal's run after.

`Watchdog`: a run counts, then pushes and saves, and the recorder writes gap
rows in between. A run that is killed while it writes its state file leaves a torn
one (`write_text` truncates first), and every later run raises when it loads it:
the watchdog is silent from then on, its daily all-clear included. `NoSilentBurst`
is about runs that save; it does not say that a push arrives, nor that a run
comes. `OrderBreaker`: orders are placed one after the other, and
only the first attempt of an order looks at the pause.

### RunScope and Strategy

`MCStudies` puts parts side by side that share no state, most of them functions
more than processes; a behaviour is again one of the part its first state
names.

`RunScope`: `Merged`, `UnionOverlap` and `Intersects` are the interval
functions, `Evaluable`, `Shared`, `Run` and `SplitOf` the inventory and the
split. `Freeze` is the tool up to its first file, `Write` each of its files in
turn (an existing one ends the tool, the summary excepted), `KillTool` a kill
between two files or inside one, `Extension` another day of tape between two
runs. A study is `Loadable`, `Loaded`, `Keeps` and `KeepMask`. A file that a
kill left half written is not readable and stays. The two inputs of the tool,
the blind windows and the coverage, are taken to reach equally far; nothing in
the code compares how far they do. Classes, counts, digests and the frozen
universe are left out.

`Strategy`: prices and money in mills, so that the fee's rounding to the cent
and the half tick are exact. `EdgeSides` and `TailsSides` are the two
`evaluate`s up to the stake, `Stake` is `compute_stake_contracts` with its
truncation, `BuildIntents` and `Passes` what `main.py` does with them. What is
held is charged at the price of the intent; the frame of demo rows is
`DemoRows`' matter. `Decimal`'s 28 digits are taken as exact.

### MarketData and Portfolio

`MarketData`: a refresh lists the markets of each series, fetches their books
one by one, writes memory and a session, and commits; a fetch, a listing or a
commit may fail, the process may be killed and starts with empty memory. An
evaluation plans on memory and, in demo mode, places intent by intent while
the refreshes go on. A book and a forecast run are known by the time they were
fetched. Which markets give an intent is free (`Strategy` says which may).
`Odd` and `Untimed` are the markets whose ticker or close time cannot be read.

`Portfolio`: `ReadBalance`, a `ReadPage` per position, `PageFails`, and
`WriteSnapshot`, between which the account fills and settles, the evaluation
commits and the reconciler books rows of orders. A figure of realized P&L is
the snapshot that read it. One position fits a page; the venue's cursor is
taken to be stable.

### Backtest and BacktestVerdict

`Backtest`: `Load` reads one of four kinds of evidence (snapshots of a file,
the tables of the bot, trade prints, past trades), `ReplayOne` takes one
decision through `Strategy`'s sides, stake and gates, and `SettleAll`
settles and scores. What each source hands to the replay is a numbered set of
rows; decisions are keyed by market and close and sorted (`Keys`, `ByClose`),
and `RunsOf` is the run after each of them, which is what `ReplayOne` builds
step by step and what the property replays with less evidence. The evidence of
a run is chosen at the start from sets in the MC module that put rows before,
at and after each decision. `BacktestVerdict` is
`score_run` and `evaluate_runs`: runs end one after the other, each with any of
a set of outcomes, then the conditions are folded into one verdict.

### The studies of the tape

`TapeStudy` and `TapeStats` hold what `bot/lag` shares: `Screen` is
`screen_windows`, `InForce` the last row up to an instant, the gate and the
replication of a clustered sample leave open whether a seeded resample calls
an estimate significant, except where the code degenerates. Each study then
reads its tape in the code's units (a root, a station-day, a series, a
corridor) with one action per unit, and a last action for the verdict.

- `DepthMap`: files are cut at any point; the last book of a market is carried
  into the next file; a state is split into cells at hours, buckets and the
  ends of the day; a refill is matched to the print that took the depth.
- `ForecastClass`: `FreezeSample`, `FreezeClass` and `Execute`; a freeze is a
  body and the sidecar that `Seal` writes after it, and the tool may die
  between the two; prices, chances and highs are members of small sets.
- `LockEvents`: the kinds of a ladder's legs, running extremes with a margin,
  and locks; falling ladders are mirror images. `LockStudy` counts them
  against the archive, then measures on the tape how long a book takes to
  show it, and what still trades after. Readings of one `valid_time` count
  together, here and in `SettlementStudy`; the code takes them in the order in
  which they were recorded. The tapes of the runs have no such ties.
- `TakerFlow`: hygiene of prints, the anchor on the stamp of the exchange or
  on the arrival, horizons over two days' books, fees and the near-lock
  stratum.
- `LadderStudy`: carried states, episodes per stream, worst state, screening.
- `SettlementStudy`: two sources, straddles, entry minute, price, gates; the
  manifest first.
- `LeadLag`: at-the-money legs, crossings of the bar, the follower's answer.

`Parity` reads the same tapes that `WsRecorder` writes: an instant is a
position of the tape, or that and a tick behind.

## 3. Runs

| run | configuration | asks | result |
| --- | --- | --- | --- |
| `order` | 1 order of 2 contracts, `Lag` and `Overlap` 1, clock to 3, crashes, timeouts, failing savepoints, answers without id | types, watermark, rows and paper rows never above the venue, committed fills counted, `OrderLedger` refined | passes |
| `batch` | 2 orders of 1 contract in a cycle, failing savepoints, ids present | one row per order, boot mismatch only for recent orders | passes |
| `live` | 1 order; 2 markets, 2 changes, 1 fault; fairness | an order the venue booked is eventually mirrored; the recorder becomes current again | passes |
| `frame` | 1 order | paper rows are in the YES frame | **violated** |
| `exposure` | 1 order of 2 contracts, `Lag` and `Overlap` 1 | fills the books know are counted | **violated** |
| `tape` | 2 markets, 2 faults | the replayed book, blind windows, gap rows, the parity gate | passes |
| `hidden` | 2 markets | every resubscription starts a blind window | **violated** |
| `pass` | 2 tickers, 4 rows, 1 gap, 1 kill, `--max-id` given | rows match the tape, every row accounted for, windows bracket gaps, `PassArtifact` refined | passes |
| `growing` | the same without `--max-id` | windows bracket gaps | **violated** |
| `loops` | 2 callers, capacity 2; 1 observation; 3 markets, 2 trades, 2 settlers; 4 gap rows; 3 attempts | rate kept, nothing granted after close, no duplicate arrival, refusals honoured, alarms right, caps hold, settled once, bursts answered; acquires, arrivals and settlement end | passes |
| `studies` | 2 cities, 4 dates, up to 2 blind windows; 9 by 9 bids, 5 fair values, 2 held amounts, 2 fills; 5 markets of evidence; 5 run outcomes; 2 series of depth files; 2 markets, 1 fault; 2 pages, 2 orders, 2 snapshots | scopes readable, earliest, frozen; signals pay friction and fit caps; decisions grounded; snapshots accountable; backtest without look-ahead; verdict earned; depth as the book had it | passes |
| `tape_studies` | six studies, some hundreds of small tapes each | each study measures what its definition says and concludes what its gate allows | passes |

Each passing run reaches every action of its module between them, and each
property has a mutant in `PROJECT.json`, a plausible bug of the code, that
breaks it under the same bounds.

**Bounds.** Two orders suffice for what orders share (one transaction, one
watermark, one cycle); two contracts for partial fills; a clock long enough to
place, lose, list late and poll three times. The tape needs two markets to
tell the message's market from the lost one's, and as many faults as a skip
followed by a lost link or a dead session. The pass needs two tickers and a
ceiling of one to evict, a barrier smaller than a snapshot to split it, and a
kill after a commit; `RecordedBetweenLooks` (in the MC module) lets the
recorder append only when the pass looks at the tape, which no other step of
the pass can observe. Two state constraints (`Bounded`, in `MCWsRecorder` and `MCForwardPass`)
cut the sum of book changes and faults, and of rows, gap rows and kills, so
that a run has many of one or some of each. The bucket needs two callers whose
costs together exceed the capacity and an orphan for each; the loops need a
threshold above one back-off and a refusal longer than the loop's sleep; the
caps need two intents of one event and a third of its series; two settlers
contend. A scope needs two cities whose windows differ, an incident inside the
first days and one after a hole, an extension that lengthens the run, and
`DEval` 2 for a discovery day and a holdout day; windows of evidence are
enumerated to the unit. The grid of prices has both sides of every threshold
of the strategies. The backtest's evidence has rows one unit before, at and
one unit after every decision, an old one, one without sizes and one of another
close; a depth tape is cut into files at several places; the tapes of the
other studies put rows at and around the edges that their definitions name
(horizon, persistence, exclusion, end of the day, cell), and `MCTapeInputs`
lists them. `MarketData` needs one fault and two series to tell a failed listing from
a delisted market; `Portfolio` one move, two orders whose rows are written in
either order, and two snapshots. Symmetry is used only in runs without liveness.

**Fairness.** The reconciler's poll and commit are strongly fair: the loop
retries for ever and a crash may disable a step again and again. The venue
publishes and the unit is restarted by systemd (weak). The boot check is strongly fair to
its passing branch: the operator resumes. In the recorder the client task, the
session's steps and the venue's snapshots are weakly fair; each is an await
that returns or raises. Nothing is assumed of placements, faults or crashes.
In `loops` the event loop runs what is ready and timers fire (weak); the
observation service answers fully if it is asked again and again, and the
weather service answers for each event (strong); the settlement loop gets the
lock because `asyncio.Lock` wakes its waiters in order (strong). A caller that
got an answer need not call again, a signal need not come, and
`EventuallySettled` is stated for processes that stop dying and failing.

## 4. Findings

1. `frame`: the average price of a NO order is complemented twice on its way
   into `paper_trades`.
2. `exposure`: an order whose acceptance was not committed, found by the
   reconciler and adopted after a 409, keeps its fills and is never counted. (A
   poll between two fills of an order undercounts it too, in more steps.)
3. `hidden`: a resubscription whose first sequence number is above the last
   one seen is not found by `blind_windows.py`.
4. `growing`: gap rows are read once while the pass follows a growing tape;
   without `--max-id` their windows are missing or misplaced.

Met while modelling, and stated by no run of their own:

- *Raw probabilities are sized.* `README.md:34` of the repository says that the
  isotonic maps are refitted nightly and that the sizer never sees a raw model
  probability. `app.calibration_maps` is refitted and logged; nothing in
  `src/bot` calls `corrected_probability`, and `_build_intents` sizes with the
  raw fair value. A refit whose jitter is negative wakes before four o'clock
  and is followed by another at four the same night.
- *Decisions have no age limit in demo mode.* The stale check is
  `simulate_taker_fill`'s, which only paper mode calls; a series whose listing
  fails keeps its markets and books, a forecast stays until another replaces
  it. A book that fails once, or has no quotes, takes its market away as if it
  were delisted. Memory is written before the commit that may fail; a round that
  fails after a listing leaves the markets that the listing lacked in memory, and
  they are filled or sent until a round ends well (`lingering` in `MarketData`).
- *Ladder depth.* The comment at `ladder_consistency.py:256` says that a
  tradeable episode was tradeable at every instant it held; the depth is that
  of the state of least excess only, and another state may hold less
  (`TradeableAtEveryInstant` in `LadderStudy` states the comment).
- *Censuses from the tape.* `lock_convergence.scan_locks` takes a lower tail
  whose partner is not on the tape for an upper one; `lock_supply`, which reads
  the archive, does not. `near_lock.scan_locks` does not resolve kinds at all,
  in a stratum that is only reported.
- *Settlement.* Entries after the close are counted and priced all the same;
  a price may be read from before an exclusion; the payload divides zero by
  zero when no straddle was found.
- *Flow and leads.* A print that arrives after its anchor's horizon lies
  outside its own evidence window; the follower's base may date from before an
  exclusion; with an even number of leads the interval may leave out the
  estimate.
- *Parity.* `check_excluded` begins at the last row before a gap,
  `book_state_at` refuses from the gap row until the market's own snapshot: the
  gate calls that a one-sided raise, and looks for it before it looks for a
  missing anchor.
- *Backtest.* Runs at bankrolls other than 20000 and 500 have no base and the
  verdict stays `survive`.
- *P&L of rows.* A second order on a ticker leaves the older row the figure it
  had: rows must not be summed.

## 5. Proofs

Assumptions on constants are named beside their declarations
(`NoneAssumption`, `OrdersAssumption`,
`OverlapCoversLag`, `RecorderAssumption`, `TapeAssumption`, `PassAssumption`,
`BucketAssumption`, `ObsAssumption`, `PaperAssumption`, `ScopeTapesAssumption`,
`VerdictAssumption`, `FlowAssumption`, `LockStudyAssumption`,
`SettlementAssumption`, `LeadAssumption`, `PairAssumption`,
`ForecastAssumption`, `AgesAssumption`, `LadderAssumption`,
`LadderBookAssumption`, `BtAssumption`, `TapeRowsAssumption`,
`DepthAssumption`, ...); each is needed and as weak as the code justifies. The
backtest's say that a day is of whole minutes, that tickers sort one after the
other, that a tape is read as rows of its type with past trades in the order of
their query, and that every bucket of the depth table has a sample, without
which `statistics.median` raises.

Every listed theorem states a property that a run checks.

**Orders** (`DemoOrdersProofs`)

- **`TypeCorrect`**: `Spec => []TypeOK`. `TypeInv` adds
  that a request in flight is one the evaluation made; the lemmas on
  the session functions say that each maps entries to entries.
- **`WatermarkIsSafe`**: `Spec => []BehindWatermark`, the invariant behind the
  one-minute overlap (`_WATERMARK_OVERLAP_SECONDS`). By itself it is not inductive: a poll in progress must
  already have seen all that its future watermark will cover. `WatermarkInv` is
  `TypeInv /\ PollInv /\ RowsInv /\ BehindWatermark`, where `PollInv` says
  that a poll's start is `Overlap` in the past or more and that every order
  older than it was listed by the time the poll looked, and `RowsInv` that a
  row bound to the exchange id stays bound whatever the evaluation commits.
  Venue, evaluation, reconciler and process are a lemma each.
- **`RowsStayWithinTheVenue`**: `Spec => []RowsNeverExceedTheVenue`. Rows are
  written from what a poll or an answer has in hand, so `SizeInv` bounds those
  too: the fills a poll carries, the reply an evaluation holds and the answers
  it keeps for its commit ask for what the venue's order asks for and count no
  more fills. Each session function then keeps `RowsFit`.
- **`TablesOnlyLearn`**: `Spec => LedgerSpec`, the refinement of `OrderLedger`.
  `LedgerInv` adds to the two above that the persisted watermark is never
  younger than the start of the poll in progress, so it moves forward. Each
  session function is shown to `Know` what the entry before it knew, and the
  step to be one of the ledger's or a stutter.
- **`CommittedFills`**: `Spec => []CommittedFillsCounted`, with or without order
  ids in the answers, and with failing savepoints. `NamedInv` holds the property
  itself and what makes it inductive: an order with an answer in hand has
  neither a row under its client id nor a paper row (`AnsweredOnce`, `Fresh`), so
  the commit that counts it finds the place free; and the row of an order
  committed untold is bound to its exchange id and knows its intent
  (`EntriesNamed`, `CommittedOk`), so the transaction that moves the watermark
  past it makes its paper row, if none is there. What is counted stays
  (`CountedStays`).
- **`OneRow`**, **`BootMismatch`**: the invariants of the `batch` run, under
  `~OmitsId`: the hypothesis is the venue's contract, the run's configuration
  satisfies it, and without it an order may have two rows. Every row under a
  client id is then bound to its exchange id (`EntriesNamed`). The boot
  check compares two sums; `SumFunction` over the same orders with the same
  terms settles it (`BootMismatch`).

**The recorder** (`WsRecorderProofs`)

The three invariants of the `tape` run speak of the tape alone, and none of
them is inductive: what a row may say depends on what is on the wire, in the
client and in the batch. `RecInv` is `TypeInv` and, from the tape outwards:

- `TapeInv`: a stored frame is `Whole`. The positions before it, as many as
  its sequence number says, hold the frames of its subscription in the order of
  their numbers (`Block`), all of them stored; a snapshot of a market comes
  once and before every delta; a delta takes up where the last frame of its
  market in that block left the book.
- `BatchInv`, `ReadyInv`: a frame in the batch, or ready in the client, is whole
  too, over frames that are stored or in the batch; the frame behind a skipped
  number is not, but its gap ends the batch, and the session resubscribes
  (`Skipping`), which drops it.
- `ClientInv`, `LinkInv`, `FlowInv`: which of the client's states go together,
  how its number relates to the link's, and that as long as nothing was skipped
  the frames of the link on the tape (`Reached`) and the message on the wire
  together make the venue's books.

`RecInvHolds` has a lemma per action (`ReadLands`, `CommitLands`, ...). Then the
tape by itself:

- **`ReplaysAreTheVenuesBooks`**: by the least position where the fold and the
  book part (`ReplayIsTrue`); the deltas after an anchor are of its block, or an
  empty snapshot, which leaves no row, lies between (`StaleAt`).
- **`LossesAreBlind`**: where a change is missing, the second row is a snapshot;
  its block begins with number one after the first row, which
  the detector sees as a boundary, and the burst lasts up to it (`LossIsBlind`).
- **`GapsAccounted`**: `GapFindsWindow`, since the row after a gap row begins a
  block; `PathsPart`, where one refuses alone only at an edge (`LateRefusal`,
  `EarlyRefusal`), both fold the same from an anchor on (`PassAgrees`), and the
  points of the gate are rows, ticks behind them and gap rows
  (`PointsAreNear`); `SkipsExplained`, since inside a block the
  numbers have no holes but those of empty snapshots.

**The forward pass** (`ForwardPassProofs`)

- **`KillsAreInvisible`**: `Spec => ArtifactSpec`. The
  mapping reads the checkpoint and the committed files. The invariant has
  three parts: the files' shape, that a running pass is ahead of its checkpoint
  by exactly what is uncommitted, and that uncommitted rows have ids above it.
  Every step then either keeps the artifact or extends it (`StepImplements`).
- **`CommittedRowsAreTheBook`**, **`RowsAreAccountedFor`**: the same
  `Inv`, with `RunInv` (`Tracked`: what both the checkpoint and the process know
  of the tape up to their id), `FileInv` (rows are the book at their id,
  committed files are closed) and `CountInv` (a row is on a file or counted).
  `Tracked` is needed for the evicted and the half-read: a resident
  ladder is the sum of the rows since its snapshot, an absent one is poisoned
  until the next snapshot, and the snapshot being read has its ladder, so
  that a barrier in the middle of one loses nothing (`Matching`).
- **`WindowsOfBoundedPasses`**: under `Pinned` (`--max-id` given), which the
  `pass` run satisfies and the `growing` run shows to be needed: every gap row that
  a pass has not read is younger than all of the tape it will read (`Bounds`).

**The loops** (`LoopsProofs`)

- **`ClosedBucketGrantsNothing`**: from the type of `call`,
  by cases on the step; a grant is `Take`, which asks the close event again.
- **`TokensAreConserved`**: `BucketSpec => []RateIsKept`. `TokenInv` says who
  may stand in the queue: every waiting call once, every other place an orphan's;
  then every action moves tokens between semaphore, hands, woken waiters and
  orphans and their sum stays (`Balance`).
- **`ArrivalsOnce`**: `SeenInv`, the seen set is exactly what the table holds
  once. `arrivals[o] <= 1` alone is not inductive.
- **`OutagesHandled`**: `ObsSpec => OutagesAreHandled`. `StreakInv` relates the
  age of an outage to the age of the last failure, and bounds what a streak
  that is not yet alarmed can still wait; `RefusalInv` relates what is left of a
  refusal to the quiet since. The doubling back-off needs `PowerGrows`.
- **`CapsAreKept`**: `PaperSpec => []CapsHold`. An evaluation's running
  exposure `Covers` what is open, intent by intent, and what is accepted stays
  `Capped`; the recursion over intents is unrolled with `UnrollsExists`.
- **`TradesSettledOnce`**: `LockInv`, a run that has read the unsettled trades
  holds the lock and what it read is still unsettled. Every entry into the
  table ends the run that made it.

**Scope and verdict** (`ReplayProofs`)

- **`EarliestScope`**: `ScopeSpec => ScopeIsEarliest`. That the city-days of the
  inventory are those on which every city could be read is a matter of windows:
  merging loses no cell and adds none (`MergedUnrolls`, `MergedIs`), so a day's
  overlap with the blind time is the number of its blind cells. The search for
  the run then keeps, date by date, the last run that it has seen (`ExtendOne`,
  `RunIs`).
- **`ReadableScope`**: `ScopeSpec => []ScopeIsReadable`, over tapes with any
  blind windows, runs of the tool, kills and extensions. `ScopeInv` is
  `ScopeTape` (no blind window lies across the end of the tape, so an extension
  changes nothing of what was read), `ScopeFiles` (a file is absent, torn or
  whole; there are no event days without exclusions; the two that lie there
  together make a `TrueScope`) and `ScopeJob` (what the tool has yet to write
  goes with what it has written). `TrueScope` says what the exclusions and spans
  must have. That a freeze is true, that whole files stay true, that
  screening keeps nothing unreadable and that `keep_mask` finds what was kept
  (`FreezesTrue`, `FilesGrow`, `ScreenUnrolls`, `MaskUnrolls`) is by counting
  over the loops' positions.
- **`FrozenScope`**: `ScopeSpec => ScopeIsFrozen`. The
  invariant is only that `disk` is a function on the file names;
  `WholeFilesStay` says, step by step, that a file that is there and whole is
  neither replaced nor torn, and what a study loads is a function of three of
  them.
- **`VerdictsAreEarned`**: `VdSpec => []VerdictIsEarned`. `VdInv` says that what
  is scored is finite and that the verdict is that of the runs. The second half
  compares the verdict with that of the same runs with one city's net raised
  (`RaisedIsBetter`): it has the same groups and the same skips, and none of
  the conditions that it met before is lost (`BetterVerdict`).

**Strategies, data, portfolio, backtest** (`StudiesProofs`)

- **`StakesFitTheirBudgets`**: `StrategySpec => []SignalsFitTheirBudgets`. A
  stake is at most the budget divided by its price (`StakeFits`), the price it
  was sized with is the one that the gates charge (`IntentFits`), and `FitInv`
  carries that from the cycle that signs to the fill.
- **`SignalsPayTheirWay`**: `StrategySpec => []SignalsSurviveFriction`. A stake
  is within the depth it was sized against, so it moves no price and pays at
  most two cents of fee (`FeeIsBounded`) and half a tick (`WithinDepth`); the
  thresholds of both strategies ask for more than that (`EdgeSurvives`).
- **`GroundedDecisions`**: `MarketDataSpec => []DecisionsAreGrounded`. A
  decision is made from memory, so `GroundInv` says what memory may be ahead
  of the tables by (what a failed commit took back, `CacheInv`) and of the
  listings (what a failed round left in it, `Offered`), and that a
  plan had its rows whatever the memory has become since (`PlanInv`).
- **`AccountableSnapshots`**: `PortfolioSpec => []SnapshotIsAccountable`.
  `CollateralInv` follows a reading between its pages: what is read plus what
  is still to be read (`Unread`) differs from the account at the beginning by
  no more than what moved. `FiguresInv` says that the snapshot being written
  is younger than every figure, and that a row with a figure is one that the
  next figure may still fall to.
- **`BacktestHonest`**: `BtSpec => []BacktestIsHonest`. `ReplayInv` says that
  the run in hand is `RunsOf` after some number of decisions, that the queue
  holds the rest, and that what is scored is scored against its own row
  (`BaselineIs`). *No look-ahead* compares two replays, of the whole evidence
  and of what was known at `t`. Up to `t` each source has the same rows to
  decide on (`SourcesAlike`), hence the same keys in the same places of the sort
  (`CommonStart`: two strict orders that agree on a common initial part put
  it first), hence the same decisions (`RowsStart`, `TradesStart`) with the
  same forecasts (`ForecastAlike`: a cycle that `pick_cycle` picks was
  published, since division rounds down); the runs agree up to there, and later
  decisions leave the orders up to `t` alone (`LaterLeaves`). *The caps* rest
  on `RunOk`, which is inductive over the decisions: the overlays of the minute
  cover what is open in every market, event, series and in all (`Covers`), so
  an order that the gates let through keeps the ledger within its caps
  (`OrderKeepsCaps`). Orders that are open later were open before
  (`OpenShrinks`), and within a minute the same are (`OpenInMinute`, `SameDay`:
  this is what `BtDay % BtMinute = 0` is for). That an order costs what
  it loses at worst is arithmetic on the settlement (`LossIsCost`).

**Studies of the tape** (`TapeProofs`)

These properties compare what an algorithm makes of indices into a series with
what the clock says. The bridge is `InForceIs`: in rows `Ordered` by arrival
those up to an instant are a prefix, of `InForce` rows; and `OrderedIs`,
`AmongIs` and `PickedArrive`: what a study picks from the tape is in that order
and misses nothing.

- **`FlowMeasuredAfter`**: `TfSpec => []FlowIsMeasuredAfter`. `FlowInv` says that
  every score is the outcome of a print that is eligible, of a root that is no
  longer to be swept, so no sweep scores it again (`ScoreOf`, `RootsLeft`), and
  that each horizon has a place for every print in scope (`PrintsPlaced`): the
  fates of a sweep's prints partition them (`FatesAdd`, `FoundAdds`). What a
  score says of the tape follows from its print (`SeenIfScored`,
  `MoveFollowsScore`).
- **`LocksMeasuredRight`**: `LkSpec => []LocksAreMeasuredRight`. An extreme,
  mirrored on a falling ladder, only mounts (`ExtremesMount`), so what passes
  a strike by the margin stays past it (`SideHolds`). A half-life is the least of the
  instants that the scan tries, and no other instant can be earlier: where the
  book stays in the band, it does so from the lock or from the row that
  brought it there (`HoldsIfStays`, `TriedInTime`, `ConvergedIs`). `LockInv` ties the locks in
  hand to those that the readings give.
- **`SettlementHonest`**: `StSpec => []SettlementIsHonest`. On a day whose rows
  partition the degrees in play, two degrees settle different rows exactly
  when an edge of a row separates them (`RowsDiffer`: a row has an edge where
  it ends, `RowHasEdge`, and only there, `EdgeIsLast`). So a day has strikes
  when its sources disagree, and the first reading with a strike is the first
  in another row than the official one (`EntryRunsPast`). `SettleInv` says that
  straddles are those of their days, that every swept day settled apart has one,
  and that prices are of straddles.
- **`LeadsMeasured`**: `LgSpec => []LeadsAreMeasured`. The scan of a leader's
  states jumps from a crossing to the next anchor, each time forwards
  (`NextIsLater`), so the function of `Crossings` exists (`ChainExists`) and by
  induction from its end the moves from any state on are apart (`ApartFrom`,
  `CrossingsAre`). The property looks at the whole tape, where the study reads
  files of arrival days, cut to the event day: an instant of the event day is
  in a file that was read (`DaysMount`), so both have the same state in force
  (`SameRowInForce`, `StoodIs`), and the study misses no earlier answer
  (`AnswerComes`). One leg is watched per day (`OneLegIsWatched`), a move has at most
  one answer (`AnswersAre`) and cities share one pair (`PairAssumption`), so
  episodes of the same cities and date are of different moves
  (`EpisodesApart`). `LeadInv` ties each episode to what was read of its two
  days, which later sweeps leave alone as each date is swept once
  (`Distinct`), and each readout to the episodes that the sweeps left. That
  a median exists is `RankIsMet`.
- **`ForecastHonest`**: `FcSpec => []ForecastIsHonest`. `FcInv` says that a
  file is never rewritten: a class was frozen from the sample that still lies
  there, and what was entered was made of the files that are whole. The rest
  compares two whole computations step by step: a forecast issued by the lead
  is one that was known at it (`ForecastsKnown`; the barrier is per market and
  the records per event, which is where `FcOneClose` is needed), a print behind
  the lead sees the same last print and the same depth (`PrintsBehind`), so
  the samples (`SampleKnown`), the records (`RecordsKnown`) and the legs to be
  blended (`BlendableKnown`) are the same but for holdout outcomes, which the
  fit does not read (`SidesKnown`). That no covering composite is refused
  is arithmetic on its last hour (`CoveredKept`): `AgesAssumption` is met by 24
  and 48 hours of age at leads of 24 and 36, and with equality it would not
  be; at the short lead the dropped hour is what makes it true.
- **`LadderTakeable`**: `LdSpec => []LadderIsTakeable`. `LdInv` says that an
  admitted episode is one that its day's ladder shows (`LadderAdmitted`), that
  it is of a series already swept, and that the counts of candidates, kept,
  excluded and outside add up; each series is swept once, so an episode is
  counted once (`SweptKeepsLdInv`). What an episode promises between its ends
  is read off its states: an instant of its span lies in one of them
  (`EpisodeSpans`), and the row that the state carries for a leg is the last
  of that leg in the whole book, of which the study read only the files of the
  day (`RowCarried`, `BookAtIs`, `CarriedIsBook`). So what the state charges is
  what a taker is charged (`TotalIs`, `FeesAre`), a positive excess at the worst
  state is a positive amount in every state (`ExcessScales`: `LdUnit` is a
  multiple of the depth, so that nothing is rounded),
  and what the package wins is settled by the one leg of a full ladder that is paid
  (`OneIsPaid`), of which the two tails are at most one (`StatePays`).

**How data is folded.** The sums that the properties speak of are
`SumFunction`s over functions with finite domain; `FoldProofs` derives
what they do when one term changes, grows or is added (`SumChanges`,
`SumGrows`, `SumAddsElement`) from the definition of the fold. Induction is
by least counterexample: a set of naturals, or of subsets of a finite set, has
a least element, which needs no theorem with an operator parameter; so a set of
positions that has zero and with each the next has all of them
(`CountInduction`), which is how a loop over a sequence is followed. A
recursive function is shown to exist by the same means (`UnrollsExists`,
`ChainExists`).
Powers of two are counted as subsets (`PowerIsCount`).

**Only model-checked.** `DepthsFollowTheBook`, which compares the cells of a
sweep file by file with an integral over the whole book: its sums over cells
and over units of time range over different sets, and the argument that both
add up the same has not been carried out. `BurstsAreAnswered`, `LoopsEnd`,
`EventuallyMirrored` and `EventuallyCurrent` are liveness, and liveness and
`ENABLED` are out of its reach too.

## 6. What is not modelled

- *Calibration and scoring*: isotonic regression and Brier scores over floats,
  whose result no other part reads.
- *Configuration*, *operator scripts*: settings read once, tools run by hand on
  a stopped bot; migrations.
- *Retrieval and formats*: HTTP details, authentication, decoding of GRIB and
  reports, ticker and METAR text, digests, result payloads, logging.
- *Random resamples*: what a seeded bootstrap calls significant is a free
  choice; where it degenerates is not.
- *Of the studies*: maker edge, placement grid, fee regimes, depth continuity,
  event study, REST agreement and capture simulation.
- *Power loss*: a file that was replaced is on disk.

Inside the modelled parts, whatever the abstractions of section 2 name. Two
facts that the models make visible and no run states: a `seq_skip` gap carries
the ticker of the message after the hole, so `book_state_at` answers for
another market of the same subscription until it is resubscribed (the blind
window covers it); and a last message that is skipped is never noticed. The
comment at `strategy/tails.py:46` calls a floor below 0.095 unsafe at the real
spread; with the half cent that `friction.py` charges, `Strategy` would let it
go down to 0.085.

## 7. Plan

In order of what matters most:

1. **Proofs**: `DepthsFollowTheBook`, cell by cell.
2. **Demo exposure**: the overlays of a demo cycle against fills that are
   reconciled while its orders are awaited.
3. **Studies**: the maker edge with its queue positions, and depth continuity.

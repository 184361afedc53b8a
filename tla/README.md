# Verification of binance-market-monitor

The monitor follows public Binance streams, rebuilds order books from them, ranks
symbols (Stage 1), confirms a candidate with several groups of evidence (Stage 2) and
sends an alert. This directory holds TLA+ models of the parts where order, failure
and interleaving decide whether that works, the TLC configurations that check them,
and theorems about them with proofs for TLAPS.

`tlc -config MCBookSyncSpot.cfg BookSync` runs a model; `tlapm OrderBookFeed_proofs.tla`
checks a proof. `PROJECT.json` maps every definition to the lines it stands for.
Paths below are relative to `src/binance_market_monitor/` of the repository.

## 1. Inventory

One process, one asyncio event loop. Concurrency is interleaving at `await`: code
between two awaits that can suspend is one step.

| component | state | operations | talks to |
|---|---|---|---|
| Local order book, `orderbook/book.py` | `state`, `last_update_id`, `bids`, `asks`, `_buffer` | `buffer_diff`, `apply_diff`, `apply_snapshot`, `invalidate`, `metrics` | called by the depth tasks, the overflow callback, replay |
| Depth tasks, `runtime/engine.py:604-744` | `spot_books`, `futures[..].book`, `spot_book_updated_at` | read a diff, buffer it and ask for a snapshot, apply it, replace a dead book | stream transport, REST (Spot) or WebSocket RPC (Futures) |
| Stream transport, `runtime/transports.py:107-162` | `_closed`, one connection per call | `stream_json` (reconnects by itself), `aclose` | the exchange |
| Engine life cycle, `engine.py:204-250, 486-500, 794-810` | `_tasks`, `_stream_tasks`, `_shutdown`, `deep_symbols` | `run_forever`, `run_bounded`, `_ensure_stream_task`, its done callback, `shutdown` | command line, all stream tasks |
| Broad handlers, `engine.py:531-597` | `histories`, `book_tickers` | rolling ticker, book ticker, closed kline | Stage 1 and 2 read what they write |
| Stage 1, `scanner/stage1.py` | none | `calculate_stage1_candidate`, `rank_stage1_candidates` | histories in, ranking out |
| Candidate manager, `scanner/candidates.py` | `_dynamic`, `_entered_at` | `update` with residence and hysteresis | nobody: the engine does not use it |
| Stage 2, `engine.py:424-484`, `scanner/stage2.py` | none | `make_stage2_decision`, `evaluate_stage2` | reads books, stamps, trades, tickers |
| Alert engine, `alerts/engine.py` | `_last_emitted_at`, `_emission_counts` | `maybe_alert` | Stage 2 |
| Webhook, `alerts/webhook.py` | `failed_deliveries` | `send` with retries | REST transport; awaited by Stage 2 |
| Queues, `queues.py` | a bounded queue, `overflow_count`, loss markers | `put`, `get`, overflow callbacks | depth and trade tasks put an item and take it at once |
| Storage, `storage/parquet.py` | files | `write_rows`, `query` | Stage 1 and 2 |
| Replay, `replay/runner.py` | `books`, `seen`, counters | `run` over a recorded file | books |
| API, `api/server.py` | `ApiState` | read-only endpoints, `/alerts/recent` (last 100) | watchdog, Hermes plugin |
| Watchdog, `scripts/binance_alert_watchdog.py` | a JSON file: `seen`, `initialized`, `last_error_notice_at` | `run_watchdog` once per start | API |
| Universe, `universe.py` | none; the engine keeps `universe` | `select_spot_universe`, once at start-up | `bootstrap` |
| Hermes plugin, `integrations/hermes_plugins/binance_opportunities` | none | `binance_opportunities_list`: four requests, merge, filter, order | API |
| Connectors, config, contracts, connectivity script | none, or start-up only | URLs, validation, requests | - |

What is hard, and what makes each component correct:

* **Book.** Diffs and snapshots come late, twice, out of order or not at all, and a snapshot
  holds `snapshot_limit` levels of each side (default 100) only. Correct: each level of a valid
  book is the exchange's at `last_update_id`, but those that lay beyond its snapshot and have not
  changed since, which are missing; a dead book stays dead until a snapshot; a snapshot never
  leaves the book behind what was buffered.
* **Depth task.** It awaits a snapshot between two reads of the same book; the transport
  reconnects without telling it; the task can end anywhere and be started again on what it
  left. Correct: the above holds of the *published* book across all of that; the freshness
  stamp says the same as the book; the buffer does not grow without failures; the task gets
  back to reading.
* **Task tables.** Done callbacks are late; `shutdown` has two callers and can itself be
  cancelled; a Futures context has children of its own. Correct: one writer per stream,
  every running task reachable, nothing left running after a shutdown, permanent streams
  come back.
* **Alert path.** `evaluate_stage2` suspends in the middle, in `webhook.send`, between
  stamping the cooldown and listing the alert; a post may be taken and its answer lost.
  Correct: no alert lost or doubled between the alert engine, the API and storage while the
  engine runs; each alert ends up delivered or on record as failed, and what counts as delivered
  the receiver has; every round ends; nothing is alerted on stale data.
* **Stage 1.** Two streams that measure volume differently write one bounded history in the
  order in which they arrive; features are differences of samples found by time. Correct: a
  published move happened, the volume claimed was traded, a surge is not overlooked.
* **Candidate manager.** Correct: a slot is lost only after a real residence to a better
  candidate, and a steady ranking leads to steady slots.
* **Hermes tool.** Its four requests see four moments of the engine. Correct: a symbol that gets
  from the candidates to the alerts meanwhile is not missed between the two, and one that stays
  alerted is not shown with an older alert or with none.
* **Replay, watchdog, queues, storage.** Sequential, with boundary cases: duplicates against
  recovery; exactly-once over restarts; limits.

`PROJECT.json` lists the single hazards with their lines and the properties that cover them.

## 2. Modules

    LocalOrderBook      operators: the class, book -> book
      DepthStream       operators: the exchange's events (external)
        OrderBookFeed   a book and any caller
        BookSync        the depth task and transport    --> ExchangeView
    StreamTasks         run_forever, task tables, shutdown
    Ranking             operators: the order of rank_stage1_candidates
      Universe          operators: which markets are watched
        Scanner         histories, Stage 1 and the main loop, over a true market
      CandidateManager  dynamic slots, residence, hysteresis
    AlertPipeline       Stage 2, cooldown, webhook, API list, storage
    AlertWatchdog       the polling script, its state file, the API's list
    Opportunities       the Hermes tool beside the engine whose API it reads
    LocalOrderBook_proofs   lemmas about the class
      OrderBookFeed_proofs, BookSync_proofs
    Scanner_proofs          what Stage 1 publishes is true of the market, and no surge is missed;
                            what the candidate manager takes a slot for
    StreamTasks_proofs, AlertPipeline_proofs, AlertWatchdog_proofs, Opportunities_proofs

`-->` is a refinement: `ExchangeView` is the abstract specification of what a reader of a
book is promised. It shows nothing until it is loaded from a snapshot of the exchange (`Load`);
then it moves forward only, showing what a copy from that snapshot can know of the exchange
(`Follow`), uncrossed; and it is loaded anew only after it has shown nothing (`Hide`). BookSync
checks `View!Spec` under the mapping
`shown <- IF valid THEN [from, id, content] ELSE nothing`. The feed does not implement it: its
callers may load any snapshot into a valid book, which the depth task never does.

**LocalOrderBook.** Each method is an operator. Both sides are one function from
`<<side, price>>` to a quantity, 0 for "not in the dict". `ApplyDiff` is the state machine of
`apply_diff` (`warming` hands over to `buffer_diff`), `ApplySnapshot` the load, the filter
(`>=`), the bridge search per market and the replay; the replay is a recursive *function*
so that it can be proved about. `reason_codes` and `metrics` are left out.

**DepthStream** (external) says what a *true* event is: for a run of update ids, the quantity
after it of every level the run changed. Spot ids count this book's changes one by one;
Futures ids may pass without a change, and events carry `pu`. A `Snapshot` is the book without
the levels that `SnapshotLimit` others of their side are nearer to the spread than (`Cut`).
`Copies` says what a book loaded from one can know later on: every level as it is on the exchange,
but for the levels cut then and unchanged since, which it lacks.

**OrderBookFeed** is the class under every caller: any true diff, in any order, any number of
times, any snapshot, `invalidate` from the queue-overflow callback, replacement by a new
book. (In the engine that callback cannot run: an item is taken from the depth queue as soon as it
is put. It is kept as an operation of the class.) `from` is a history variable: the snapshot a
valid book was loaded from.

**BookSync** is `_sync_spot_book` / `_sync_futures_book` with its surroundings. An action is
what runs between two suspensions: `Start` is `_ensure_stream_task` and the head of the
coroutine, `BufferAndAsk` ends at the `await` of the snapshot request, `SnapshotReply` goes on
from there, `Apply` is a diff on a book that is not warming with the replacement of a dead
book in the same step. `Connect`, `Drop` and `Finish` are `stream_json`: it reconnects by
itself, loses what was in flight and returns at its message limit. Damaged payloads,
failing requests and the cancellation by a failing sibling are `Fault`s, bounded by
`MaxFaults`. On Futures the task is one of the three children of a context task: `siblings` says
that the trade or the mark-price stream still runs, an exception of any child ends all three
(`FailTask`, `Cancelled`), and `Start` waits until all have ended (`TaskDone`), by failure or by
reaching their message limits (`Finish`, `SiblingsFinish`). On either market `Start` also needs the
symbol to be `listed`, which each new ranking may change (`Relist`).
`seen` and `loadedFrom` are history variables for properties only.

**StreamTasks** keeps task *objects* apart from the tables that refer to them, since a done
callback runs later than the task's end. `Turn` is one turn of the loop up to a place where
it suspends, `Begin`/`Close` are the parts of `shutdown` before and after its await, `Interrupt`
the cancellation in that await. `kids` stands for the three children of a Futures context:
asyncio's `gather` cancels them with their parent, except when one has just failed.

**Ranking** is the order of `rank_stage1_candidates`, which Scanner and CandidateManager share.
A symbol is its place in the alphabet, a score stands for a score with its liquidity.

**Universe** has the exclusion rules of `universe.py` and the choice of the most traded pairs.
A name or an asset stands for what the rules ask of it.

**Scanner** puts the handlers and Stage 1 beside the market they observe. A moment is the interval
of the rolling ticker, a second; the loop's rounds may be any number of moments apart, and a symbol's
klines are `KlineEvery` moments apart. `price` and `traded`
are the truth of every moment; `RollingTicker` and `ClosedKline` append a true sample of a
moment to the history (`Put` is the deque with its `maxlen`), or never happen, or happen late.
`HourTotal` is what the exchange's one-hour window holds, which falls when more leaves it than is
traded (`Left`: `Quiet` at every moment, and once, at `BusyAt`, `Busy` more).
`Evaluate` is `evaluate_stage1`: the gates (`Judged`), the samples of 5, 10 and 15 minutes before
(`NearCutoff`), the reason codes and the ranked list. Reason codes that follow from prices and
volumes are computed (`Reasons`); those of volatility and trade counts (`OtherReasons`) may be
there or not, and the score is any of `Score`. `Bootstrap` chooses the universe from any listing.

**AlertPipeline** is a round of `evaluate_stage1` and `evaluate_stage2`. It suspends only in
`sending`; there and between rounds time passes (`Tick`), the streams renew the data
(`Sample`, `Market`, `FuturesStreams`) and the engine may be cancelled. Times are ages, not
counted beyond their limit. `todo` carries the ticker age each candidate was given in Stage 1
and the evidence groups its reason codes stand for. `Groups` and `IsWatch` are
`make_stage2_decision`: the groups of Stage 1, of the trades' flow, of liquidity (the gate of
Stage 1 over again, with the same setting), and of the Futures context, whose two groups may
be any when there is a context (`HasContext`). The engine passes no liquidations. A post ends with
an answer (`PostAccepted`) or without a good one (`PostFails`), and in the latter case the receiver
may have taken the alert all the same (`MayHaveTaken`), as it may when the engine is cancelled while
it waits; `accepted` is the history of what it took, which the engine cannot know.

**AlertWatchdog** is `scripts/binance_alert_watchdog.py`: any number of runs, each of which
loads the state file (`Start`), asks the API (`Fetch`, `FetchFails`), replaces the file
(`Save`) and prints (`Show`), and which may overlap or die anywhere. The API's list is
`since + 1 .. emitted`, as alerts are numbered in the order they are added; an engine that
starts anew empties it. `Unique` is the loop of `_bounded_seen`, `BoundedSeen` cuts what it leaves.
AlertPipeline shows what reaches that list, AlertWatchdog and
Opportunities what becomes of it.

**Opportunities** is a call of `binance_opportunities_list`: `Call`, then one action per endpoint,
between which the engine publishes a ranking (`Publish`), lists the alerts of the round
(`ListAlerts`, all of them at once) or starts anew (`Restart`). The answer is built with the last request
(`Response`: merge, filter, order, limit). `standing`, `steady` and `known` are history variables: the
candidates at every moment of the call so far; those and the symbols served as alerts at every moment
since they ceased to be candidates; and for each symbol the newest alert that was served when the
call began, as long as some alert of it is.

**CandidateManager** is `update` (`Update`) as any caller may use it, with any ranking each time;
`_entered_at` is kept as an age. `held` is the truth that `entered` should agree with. `Filled` fills
the free slots, `Challenged` is the loop of `_apply_hysteresis`. Its specification is named `SlotsSpec`,
because one module of proofs extends it and Scanner.

Definitions marked "Mutant" are deliberate errors, used nowhere: substituted for the
definition that follows them they must break the property `PROJECT.json` names, which
shows that the property depends on that piece of code.

## 3. Runs

| configuration | module | properties |
|---|---|---|
| `MCOrderBookFeedFutures` | OrderBookFeed | TypeOK, ValidMatchesExchange, BufferInOrder, SnapshotCatchesUp, OnlySnapshotsRepair |
| `MCBookSyncSpot` | BookSync | TypeOK, PublishedBookIsTrue, StampedIffUsable, BufferHeldBySnapshots, NeverRewinds, NoSpuriousResync, Settles |
| `MCBookSyncFutures` | BookSync | Settles, ImplementsView |
| `MCStreamTasks` | StreamTasks | TypeOK, OneWriterPerKey, EveryTaskIsReachable, StopsClean, PermanentStreamsReturn, EndsQuietly |
| `MCScanner` | Scanner | TypeOK, MoveHappened, VolumeWasTraded, SurgeIsPublished |
| `MCAlertPipeline` | AlertPipeline | TypeOK, AlertsAccounted, DeliveryAccounted, RoundsEnd, FuturesNeverSilences |
| `MCAlertWatchdog` | AlertWatchdog | TypeOK, ShownOnce, RememberedIsAccounted, ServedIsShown |
| `MCOpportunities` | Opportunities | TypeOK, NothingMissed, NewestAlertShown |
| `MCCandidateManager` | CandidateManager | SlotsTypeOK, NoChurn, Converges |

The Futures book is checked against `ExchangeView`, which says of it what `PublishedBookIsTrue`
and `NeverRewinds` say; these two are proved for either market (section 4).

**Bounds.** *Books*: two prices per side with quantities 0 and 1 are enough for a crossed
book, a removed level, an unchanged one and, with snapshots of one level of each side, one that the
snapshot lacks until an event names it. Three or four update
ids allow a diff before, across and after a snapshot and a gap. A buffer of two
diffs has a bridge and a diff to replay. *BookSync*: two messages per run of the task make it
restart often; with four update ids (three on Futures) and two messages in
flight messages are lost together or in part; two faults combine, such as a
broken connection during a failing snapshot; a snapshot one update older than the request
is a REST cache. *StreamTasks*: one key of each kind, and four task objects, so that an ended
task whose callback is late, its successor and the broad task exist together. *AlertPipeline*:
two symbols, one of them on Futures, so that one candidate waits while another's alert is sent,
two alerts per symbol give a continuation, and no round starts with two alerts listed
(`MaxListed`), so that three are sent at most; candidates with the anomaly and with structure only, so
that a watch may need the flow or the Futures; one retry separates first, middle and last attempts; age limits of
one tick or none suffice because an age matters only as within or beyond its limit.
*AlertWatchdog*: two runs; three alerts against two served and two remembered, so that both
lists are cut; that the two limits can be equal shows that the code's 100 and 1000 are safe.
One fault at a time: a dead run, an unreadable file, a failed request or a restart.
*Scanner*: two symbols, one of them BTCUSDT, and one place in the list, so that they compete; five
moments with windows of one, and a kline in five, are just enough for the three windows of Stage 1 at the last two;
two moves of 4 percent, each with a traded volume five times the usual; one ticker lost or one
kline of a symbol late by one; a history of five, one less than a full run of tickers and a kline
would fill. No symbol is permanent, so klines come only of one that was published once. The hour before
traded 16, one of which leaves it at every moment and eight more at the last one, so that the hour's
total rises and then falls by more than a burst adds. *Opportunities*: two symbols, three alerts of a process, two of which are
served, so that an alert drops off the list; one score of each kind, and floors that exclude
nothing or every plain candidate. *CandidateManager*: two slots, three candidates and a
permanent symbol, three scores on either side of a margin of two, a residence of two ticks.
The proofs of section 4 do away with these bounds for the safety properties.

**Deadlock.** `CHECK_DEADLOCK FALSE` in BookSync: with all updates and faults spent the task
rightly waits for ever. In StreamTasks, AlertPipeline and Scanner a run may end. OrderBookFeed,
AlertWatchdog, Opportunities and CandidateManager never stop.

**Fairness.** Weak fairness on what the event loop runs as soon as it can (a handler, a done
callback, the main loop's turn), and on answers that a timeout bounds: connects, snapshot
requests and webhook posts all carry `timeout_seconds`, so each is answered or fails.
BookSync assumes that when faults are spent the request is *answered*; faults, updates,
new rankings and `Stop` are never forced. `Settles` has the premise that the symbol stays listed
from some moment on: the main loop starts nothing for another. That a Futures task starts again
after its depth stream has returned needs the two siblings to end as well (`SiblingsFinish`): by
failing together with it, or by reaching `deep_stream_message_limit`, since the exchange goes on
sending trades and mark prices. By default that limit is `None`; then none of the three ever
returns by itself, neither `Finish` nor `SiblingsFinish` happens, and only failures, which end all
three, lead to a restart. AlertPipeline assumes an outcome of each post,
not which one, so `RoundsEnd` holds for a receiver that never accepts. AlertWatchdog assumes
that the script is started again and again, which is the purpose of its state file.
CandidateManager assumes that time passes and `update` is called; `Converges` is claimed only of a
ranking that no longer changes. Scanner and Opportunities assume nothing.

**Where the code differs from the documents.** Three runs expect a violation, each of one property
that quotes `docs/2026-07-16-mvp-prd.md`:

| configuration | what TLC shows |
|---|---|
| `MCBookSyncFirstEvent` (Futures) | the first diff after a snapshot must have `pu` = snapshot id, though `U <= snapshot <= u` is what is specified (`book.py:146`) |
| `MCAlertStaleTicker` | an alert is emitted on a ticker that went stale while earlier alerts of the round were delivered (`engine.py:465`) |
| `MCAlertConfidence` | Futures streams that have died still raise the confidence of an alert: the book and the mark price they left are taken whatever their age (`engine.py:780`); `stale_thresholds.futures_mark_price_ms` is used nowhere |

Further differences that modelling brought up, for which no run is kept:

* A buffered Spot diff that ends exactly at the snapshot is kept by the `>=` filter, has no
  bridge, and the good snapshot is discarded (`book.py:108`; FR-BOOK-002 calls such a diff
  obsolete); since the task asks right after buffering, a quiet market repeats this.
* A Futures diff whose `pu` matches is refused when `U > last + 1` (`book.py:149`); FR-BOOK-002 asks
  for `pu` only.
* `metrics()` sums every level of the book whatever the band (`book.py:178`), those that events added
  deeper than the snapshot reached included, while levels in between may be unknown; `range_known`
  (`book.py:170`) compares the band with that of an earlier call only, and `_futures_context` does
  not look at it. FR-BOOK-009 allows "a configured basis-point band fully contained within the
  currently known snapshot range" only.
* A continuation alert repeats the evidence of the last one (`alerts/engine.py:118`); FR-ALERT-005
  asks for evidence that materially changed.
* An API that fails, answers once and fails again is notified twice within the hour, since
  every success clears the time of the last notice (`binance_alert_watchdog.py:96`);
  `test_api_failure_is_notified_at_most_once_per_hour` polls failures only.
* Between an hour total and a closed kline Stage 1 takes the difference of two different
  measures (`engine.py:545`, `engine.py:588`; `stage1.py:189`): a symbol with deep streams may be said
  to have traded what a whole hour did, where FR-STAGE1-007 says that "raw cumulative 1-hour ticker
  totals must never substitute for missing local-window deltas". `VolumeWasTraded` therefore
  speaks of symbols that only the rolling ticker feeds, and fails without that premise.

None of them makes a wrong book valid: they cost availability, or break a rule on alerts.
A damaged depth message leaves its book valid as well (`SkipMessage`, `FailOnMessage`), where
FR-BOOK-004 asks for `invalid`; the gap it leaves is found at the next event.

What the properties do *not* say, and the code does not promise. A valid book lacks the levels
beyond its snapshot until they change, for as long as it stays valid. A receiver may take an alert
twice, or have one that is on record as failed: a lost answer looks like a failure
(`webhook.py:81`). The Hermes tool asks for the candidates first, so a symbol that becomes a
candidate again after that, and whose alert then drops off the served hundred before the alerts are
asked for, is missed, as anything can be at a restart; one whose alert drops off may be shown as a
mere candidate. `AlertsAccounted` and
`DeliveryAccounted` stop at the end of the engine, since an alert already delivered is lost
to the API and to storage when the engine is cancelled in the same round or a write fails.
`StopsClean` exempts a shutdown by the other caller, after which a bootstrap still under way
starts the broad tasks; `EndsQuietly` shows that these, and children orphaned by a
cancellation, end by themselves once the transport is closed. An interrupted shutdown does
not close the transport, and a later call returns at once: `EndsQuietly` has `closed` as
its premise. A broad task that dies of a handler's exception is not started again.
Every alert of a symbol carries the same `Idempotency-Key`, so a receiver that
deduplicates by it keeps only the first. Deep streams are started for every candidate and
stopped for none, so their number grows with the symbols ever ranked. A selected candidate of
the manager that leaves the ranking keeps its last score for as long as nobody beats it by the
margin; with a margin of 0 two equal candidates may exchange a slot at every residence, so
`Converges` is checked with a margin above 0. With no slots at all `update` raises
(`candidates.py:105`).

## 4. Proofs

Proved by TLAPS for every value of the constants that the named assumptions admit: either
market, any sets of prices, quantities, symbols and stream keys, any limits, windows, thresholds
and retries, any number of tasks, runs of the script and alerts. Each of these modules has the
theorems `InductiveInvariant` (`IInv`) and `TypeCorrect` (`TypeOK`), and:

| `OrderBookFeed_proofs` | property | `BookSync_proofs` | property |
|---|---|---|---|
| `ValidIsExact` | `ValidMatchesExchange` | `PublishedIsTrue` | `PublishedBookIsTrue` |
| `BufferStaysInOrder` | `BufferInOrder` | `StampIsHonest` | `StampedIffUsable` |
| `SnapshotNeverFallsBehind` | `SnapshotCatchesUp` | `BufferIsHeld` | `BufferHeldBySnapshots` |
| `RepairNeedsSnapshot` | `OnlySnapshotsRepair` | `NoRewind` | `NeverRewinds` |
| | | `ResyncHasReason` | `NoSpuriousResync` |
| | | `SyncImplementsView` | `ImplementsView` |

| module | theorem | property |
|---|---|---|
| `Scanner_proofs` | `MovesAreReal` | `MoveHappened` |
| | `VolumeIsTraded` | `VolumeWasTraded` |
| | `TickersAreRemembered` | `TickersRemembered`, of no run but checked as part of `RInv` |
| | `SurgesArePublished` | `SurgeIsPublished`, where `FifteenMinutesFit` |
| | `UniverseIsMostTraded` | of no run: what `Selected` chooses |
| | `ListsAreCapped` | `ListsFit`, of no run but checked by TLC |
| `Scanner_proofs`, of CandidateManager | `SlotsInvariant` | `SlotsInv`, of no run but checked by TLC |
| | `SlotsTypeCorrect` | `SlotsTypeOK` |
| | `NobodyChurns` | `NoChurn` |
| `StreamTasks_proofs` | `OneWriter` | `OneWriterPerKey` |
| | `TasksReachable` | `EveryTaskIsReachable` |
| | `CleanStop` | `StopsClean` |
| `AlertPipeline_proofs` | `NoAlertLost` | `AlertsAccounted` |
| | `NoDeliveryLost` | `DeliveryAccounted` |
| | `FuturesAddOnly` | `FuturesNeverSilences` |
| `AlertWatchdog_proofs` | `PrintedOnce` | `ShownOnce` |
| | `NothingForgotten` | `RememberedIsAccounted` |
| `Opportunities_proofs` | `NobodyMissed` | `NothingMissed` |
| | `ShownIsNewest` | `NewestAlertShown` |

Assumptions: `MarketAssumption` (the two markets), `SnapshotAssumption` (a snapshot has at least one
level of each side), `LevelAssumption` (prices and quantities
are naturals, 0 among the quantities), `BoundAssumption` and `SyncAssumption` (the bounds are
naturals, the message limit a positive one), `RankingAssumption`, `UniverseAssumption` and
`ScannerAssumption` (symbols are finitely many numbers; scores, limits, windows and thresholds are
naturals, klines at least a moment apart, histories have room for a sample), `CandidateAssumption` (residence, warmup and margin are
naturals), `KeyAssumption` (broad, permanent and dynamic keys are disjoint, and there are broad
ones), `AlertAssumption` (finitely many symbols, each evidence a finite set of groups),
`WatchdogAssumption` (the script remembers at least as many alerts as the API serves, and the
clock has a first moment) and `OpportunitiesAssumption` (finitely many symbols; scores are
naturals, a limit is positive). The exchange is assumed to send what
`DepthStream` calls true events and never to be crossed, and tickers that are true of their time.

The class. What `Copies` says of a valid book is not inductive by itself: a snapshot turns the
*buffer* into a book, so the buffered diffs must be true of the exchange and in order, in
any state of the book. `Sound(exch, from, book)` says so for any caller, and
`LocalOrderBook_proofs` shows that each method keeps it: `EnqueueSound` (the stable
insertion keeps the order), `SnapshotCopies` (what a snapshot loads is a copy), `ApplyDiffSound` (a true diff
that `Follows` a copy gives a copy at its end: a level that the diff names becomes known, one that
it does not name has not changed), `ApplySnapshotSound` (bridge and replay, by `BridgeSound` and
`ReplaySound`). On Futures the bridge sets `last_update_id` *back* to `pu`, so the book that
the first replayed diff meets is not sound; `BridgeSound` shows that the diff makes it so.
The replay is a recursive function over the buffer; the library's induction theorems cannot
be used with the provers at hand, so `NatSetInduction` derives what is needed from the
finiteness of an interval. `GrowSound`: what is true of the exchange's past stays true when
it moves on. `OrderBookFeed_proofs` adds the invariant of the feed.

The depth task. `IInv` of BookSync is `Sound` with what its surroundings owe it:

* `InboxTrue`, what is in flight is true, so that the diff a handler makes of it is
  (`ReceivedTrue`);
* `SnapshotForWarmingBook`, a snapshot is awaited only for a warming book with a buffer:
  otherwise an answer could replace a valid book by an older one (`NeverRewinds`);
* `BufferPaidFor`, each buffered diff was left by a fault, but the one whose snapshot is
  under way or has left the book dead;
* `SeenHeld`, what the book was given it holds or has buffered, which turns a gap against
  `last_update_id` into a gap against what was received (`NoSpuriousResync`);
* `NeverCrossed`, the exchange's books are not, and so no copy is (`UncrossedCopy`): a diff in order
  never invalidates a book.

One lemma per action shows that it keeps `IInv`; `WithSameExchange` and `WithSameBook` do the
part they share.

The scanner. That a candidate is true of the market is a fact about the samples it is made of,
wherever the search for a cutoff finds them. `IInv` of Scanner adds `HistoryTrue` (each sample has
the price of its time, and as long as no kline can have come the hour's total of its time) and
`TradedGrows` (what was traded is never taken back). `PutHolds` shows that the deque invents
nothing, `AtOrBeforeFinds` and `JudgedOn` that the gates leave a fresh sample and one of a window
before, and `HourDelta` that the difference of two hourly totals is at most what was traded
between, because what leaves the hour only lowers it, and no less than 0, because `Grown` cuts it. `CandidateTrue` puts them together.

That no surge is missed is about what the deque still holds. `TickersRemembered` is the invariant:
a watched symbol's ticker is evicted only behind as many later messages as there are places, where
`Since` counts the later tickers and the klines that may come after it; with `Apart` (nothing is
heard before the bootstrap, and two klines of a symbol are `KlineEvery` apart) it is `RInv`, inductive beside `IInv`. `PutRemembers` is its step.
`SurgesArePublished` then needs the sizes to fit, its one hypothesis besides the assumptions,
`FifteenMinutesFit`: 15 minutes are history enough to be judged, and a history holds their tickers
and the klines of the time, of which `SpacedCount` shows how many there can be, however long the
scanner has run. The instance of section 3 satisfies it, and so do the defaults: 3 points, 15 minutes,
and 1200 places for 900 tickers, one a second, with a kline a minute, even one that is minutes late.
(Event times are taken as whole seconds; the exchange may send fewer tickers, but then `Surges`,
which asks for one at every moment, says nothing.) The configuration accepts less, down to 3 places (`config.py:88`) or a span beyond 15
minutes, and then nothing is promised. `SurgeJudged` shows that the search then finds the very
samples of now and of 5, 10 and 15 minutes before (`AtOrBeforeIsLatest`), `SurgeReasons` that three
reason codes follow, and `FullList` that a candidate of the ranking is left out only when
`MaxDynamic` others are in, whatever the scores and ties. `select_spot_universe` sorts by volume as
the ranking sorts by score, so the same lemmas prove `UniverseIsMostTraded`; `FirstAreAhead` adds
that what is taken is ahead of what is left.

The candidate manager. It ranks as the scanner does, so its theorems stand beside the scanner's;
both use `Ranks` (scores and names order any candidates strictly), `FirstFits` (the first n are at most
n) and `RankTaken` (each place of a ranking is taken, so `RankedOnce` finds all its entries).
`NoChurn` speaks of `held`, the code of `_entered_at`: `SlotsInv` adds that they agree (`EntriesTrue`),
which rests on the entries of lost slots being deleted. One update may displace several, and one
that has just entered may be displaced again by the next; `FairSelections` is what the loop of
`_apply_hysteresis` keeps (`ChallengeFair` a turn, `LoopKeeps` the recursive function): the size, the
ages as they were before the update, the scores of the retained, and for each symbol that lost its
slot a newcomer still selected that is better by the margin. A chain of displacements keeps it
because the margin is not negative.

The task tables. The three properties speak of tasks that run; none is inductive without the
tables themselves. `TableTrue` says that an entry of `_stream_tasks` is for a task of its key, so
that `_ensure_stream_task` finds a running one; `NoOrphans` that before a shutdown children run
only with their task, which is why nothing is started over them; `ShutdownHasCaller` that whoever
closes waits for every unfinished task (`StopsClean` needs it through an interrupted shutdown).
`EnsureKeeps` shows that starting the missing tasks of any set of keys keeps the tables true,
`BeginKeeps` the same of the head of `shutdown`, `ReapStep` of a done callback however late.

The alert path. `listed \o pending` is what the API will show; `AlertsAccounted` says it has no
alert twice and those counted in `_emission_counts`, and nothing else. `RoundTrue` adds that a
round has each symbol once and that its locals are empty outside it, so that a new round starts
from what is listed. What the receiver has taken grows by the alert being sent only,
and by that one before it is called delivered (`DeliveryAccounted`). `NextAlert` is the heart of it: an alert that is emitted
has the next number of its symbol and so is new. For `FuturesNeverSilences`, `MoreGroups` shows that
a context only adds to the evidence groups, for any groups.

The watchdog. That no alert is printed twice rests on what a *cut* list remembers. `Serial` says
it: as long as runs do not overlap, a list of remembered alerts is in the order of emission and
has no gap above the first alert the API still serves (`Orderly`), and each printed alert that is
still served is in it (`Remembers`), in the file as in the variables of the run under way. `UniqueIs`
proves the loop of `_bounded_seen` (by `NatSetInduction`, again over a recursive function), and
`BoundedSeenOrderly` that its last `SeenLimit` values hold all that is served, from
`ServeLimit <= SeenLimit` alone: the code's 100 and 1000 need not be far apart. `HeldIsAccounted`
does the same for runs that overlap, for `RememberedIsAccounted`.

The Hermes tool. `CallTrue` says, for each endpoint still to be asked, where a followed symbol is
to be found: among the candidates fetched, if it was one all along, or still served as an alert; and
that the newest alert it will be shown with is no older than at the call, if it has stayed alerted.
`LongerKeepsLatest` shows the latter when alerts join the list and others drop off it: those that
drop off are behind no older one. `OrderIsTotal` proves that
`_sort_key` orders opportunities strictly, and `FirstOnes` that the first `limit` of them are so
many exactly when one is left out, which turns "not shown" into "better ones reached the limit".
It took the proof to see that the arguments of a call under way must be among `Args` in the
invariant, too: a response is only known to keep a limit that is one.

Each `IInv`, `RInv` and `SlotsInv`, and `ListsFit`, was checked by TLC on the instances of section 3.

Only model-checked is liveness (`Settles`, `PermanentStreamsReturn`, `EndsQuietly`, `RoundsEnd`,
`ServedIsShown`, `Converges`), which is beyond the provers.

## 5. Not modelled

* `run_bounded`, the one-shot mode for smoke runs: it calls the modelled steps once each, in
  order, and gathers the deep streams without a second round.
* The score, volatility and trade counts of Stage 1: a weighted sum, left open in Scanner, so
  that its properties hold for any scoring.
* The queues on their own: the engine takes each item at once, so only the overflow callback
  matters, which OrderBookFeed has. Replay's duplicate filter and counters: the calls it makes
  on a book are OrderBookFeed's. Part numbers of Parquet files: one process only appends, and
  nothing removes a part. `query`, which the engine does not use.
* URLs, parsing of requests, configuration, record types, rendering, the connectivity script:
  no behaviour over time.

## 6. Plan

1. Order book, feed, depth task: **done**, with proofs of all their safety properties.
2. Task tables and shutdown, universe, histories and Stage 1, evidence and alert path,
   watchdog, Hermes tool, candidate manager: **done**, model-checked.
3. That what Stage 1 publishes is true of any market: **done**, with proofs.
4. Proofs of the safety properties of the task tables, the alert path, the watchdog and the Hermes
   tool: **done**.
5. `SurgeIsPublished` of Scanner, with the limits of the deque that it needs: **done**, with proofs.
6. `NoChurn` of CandidateManager, with the truth of its entry times: **done**, with proofs.

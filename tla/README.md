# TLA+ models of binance-ops-dashboard

The system collects 1-minute candles and prices of a few symbols from Binance,
stores them in PostgreSQL and shows them, with its own health, in a web
dashboard. Its hard part is not the data but the promise that **no candle is
missing, none is wrong, and the page shows what the tables hold**, although
everything between the exchange and the screen may fail and several writers and
readers share it without coordination. The models here are about that promise,
about the connection, the request budget and the process it rests on, and about
what the repository's comments and docs say of them.

Paths below are relative to `src/`: `C` = `apps/collector/src`,
`S` = `packages/shared/src`, `D` = `packages/db/src`, `W` = `apps/web/src`.

## 1. Inventory

```
 Binance REST --> BinanceRestClient --> BackfillService --+
                  (WeightLimiter)        ^   ^   ^         |   klines
                                      boot  |  scanner     +--> collector_state --> analytics --> API
 Binance WS ----> WsCollector --------- reconnect ---------+   pipeline_events        |           |
                        |                                                             v           |
                        +--> PgNotifyBus --LISTEN/NOTIFY--> SSE hub --> stream --> useDashboard <-+
```

| component | code | state | operations | interacts with | hard behaviour | what makes it correct |
|---|---|---|---|---|---|---|
| planning functions | `S/backfill-plan.ts`, `S/backoff.ts` | none | restart point, page plan, gaps, coverage, delays | called by backfill, scanner, collector, REST | borders | pages partition the range; gaps are the missing candles |
| kline repository | `D/kline-repository.ts` | tables `klines`, `collector_state`, `pipeline_events` | upsert in chunks of 500, last open time, open times, partial update of the state, events | everything in the collector | statements of several pool connections | a candle, once finished, stays so; an update keeps the columns it does not name |
| backfill service | `C/backfill-service.ts` | none between calls | boot, reconnect, `ensureRange` | REST, repository, bus | runs beside itself and the stream; pages, chunks; throws | what was asked for is stored on return |
| scanner | `C/integrity-scanner.ts` | `running`, timer | scan every interval, at most 20 gaps | repository, backfill | holes of any origin, cap, failures | every hole gets filled |
| collector, candles | `C/ws-collector.ts`, `S/binance/ws-payload.ts` | the statements under way | store a candle, mark it closed, recover after a reconnect | repository, bus, backfill | handlers run beside each other | nothing finished is spoiled |
| collector, connection | `C/ws-collector.ts` | socket, timers, `disconnectedAt`, `lastMessageAt`, attempts | open, message, error, close, watchdog, reconnect, stop | the others | asynchronous handlers overtaken by events; silent sockets; stop before start | one connection, always replaced; nothing after a stop that comes last |
| collector, prices | `C/ws-collector.ts` | last price and sign of life, dirty set | tick, flush every second, open, last flush | repository, bus | flushes and open handlers overlap; a failing statement; the end | what was received is stored |
| REST client | `S/binance/rest.ts`, `S/binance/weight-limiter.ts` | weight counter, window, penalty | acquire, observe, penalise, retry | exchange | concurrent calls, late answers, lost answers | ceiling kept, penalties kept, every call ends |
| collector process | `C/index.ts`, `D/migrate.ts`, `D/client.ts` | where `main` and `cleanup` are, the pool | migrations, boot order, shutdown within 8 s | all of the above | death at any point; boot with a failing database; a signal in the wrong moment | restart loses nothing; a signal ends it in order |
| realtime bus | `D/realtime-bus.ts` | listener, publisher, handlers, closed | publish, subscribe, close, resubscribe | PostgreSQL | reconnecting listener, concurrent connects | a subscriber hears again after an error; nothing leaks |
| SSE hub, stream | `W/server/realtime.ts`, `W/app/api/stream/route.ts` | bus, timers, subscribers, starting, stopping | subscribe, start, linger, stop | bus, analytics, browsers | asynchronous start and stop crossing | subscribers imply a running hub, none imply a stop |
| dashboard hook | `W/lib/useDashboard.ts`, `stream-health.ts`, `merge-kline.ts` | payload, prices, interval, phase | stream events, resync, poll, switch interval | stream and API | events and answers out of order; events that never come; a silent stream | what is shown is the newest, of the interval chosen |
| analytics, API | `D/analytics-repository.ts`, `W/server/*`, routes | none | one SQL statement each; parsing of parameters | tables, hook | edges of windows, several symbols | the statements agree with each other |
| configuration | `S/config.ts` | none | load, check | every process | contradicting settings | only settings that work are accepted |
| components | `W/components/*` | none | badges, tiles, charts and their pointer, price, event log, interval picker | hook | an event of another shape, borders of marks | what is said and drawn is so |
| logger, scripts | `S/logger.ts`, `scripts/*.mjs` | none | | | none of the system's | |

`PROJECT.json` lists the hazards of this code line by line.

## 2. Modules

| module | models | how |
|---|---|---|
| `BackfillPlan` | `S/backfill-plan.ts`, `S/backoff.ts` | operators; the result of `planBackfillPages` is given by count and index instead of a loop |
| `Config` | `S/config.ts` | which settings a process starts with |
| `Analytics` | `D/analytics-repository.ts`, `W/server/dashboard.ts`, `request.ts`, the routes, the badges | operators on tables |
| `Charts` | `W/components/CandleChart.tsx`, `SmallCharts.tsx`, `useSize.ts`, the tiles | geometry in exact fractions of pixels; what the pointer reads |
| `MCBackfillPlan`, `MCAnalytics` | | one state per call; reference definitions of the results |
| `KlineRepository` | `D/kline-repository.ts` | the table as a function from candle to its status; upsert, last open time, open times |
| `CandlePipeline` | boot, backfill, reconnect recovery, stream, scanner, crash | the core: one symbol, actors interleaving over one table |
| `CandleArchive` | what readers of the table may rely on | abstract specification, implemented by `CandlePipeline` |
| `WsCollector` | life of the connection | socket, watchdog, reconnect timer, open handlers, stop |
| `CollectorProcess` | `C/index.ts`, migrations, pool; prices and their flushes | `main`, `cleanup`, overlapping flushes and open handlers over the rows of `collector_state` |
| `RestClient` | `request`, `WeightLimiter`, the exchange's own counter | several callers, clock in ticks |
| `NotifyBus` | `D/realtime-bus.ts`, its listening side | several buses, their connections, and the calls and timers that use them |
| `SseHub` | `W/server/realtime.ts`, `W/app/api/stream/route.ts` | the hub and its requests, composed with `NotifyBus` |
| `SharedHub` | what the browsers that share the hub may rely on | abstract specification, implemented by `SseHub` |
| `Dashboard` | `W/lib/*` of the page, with its stream and its API | candles stored and published, events delivered in order, answers in any |
| `CandleClaims`, `RestClaims`, `HubClaims` | statements of comments, docs and tests that the code does not keep | properties refuted by runs |
| `BackfillPlanProofs`, `AnalyticsProofs`, `CandlePipelineProofs`, `WsCollectorProofs`, `RestClientProofs`, `CollectorProcessProofs`, `SseHubProofs`, `DashboardProofs` | | theorems, see 4 |

How the parts of the collector are divided: `CandlePipeline` has every writer of
`klines` and the boot with its backfill, with the connection reduced to open, silent and
closed; `WsCollector` has that connection in full, with a recovery reduced to the
moment it begins; `CollectorProcess` has what else the process does, with the boot
backfill of a symbol as one step.

### CandlePipeline

Time is counted in candles: `now` is the candle in progress. A candle's data is
reduced to a status: `absent`, `unfinished` (stored while in progress), `final`,
or `mislabelled` (the data of a candle in progress stored as closed). An action
is the code between two `await`s. `jobs[a]` is the call of `ensureRange` by the
boot sequence, the scanner or a reconnect handler; `pc` names the `await` it is
in. `inflight` holds the `handleKline` calls whose statement has been issued and
not executed: `pg`'s pool gives each its own connection, so they execute in any
order. `Crash` loses all of it (a statement that the server already has but has
not executed is taken to be lost, too).

| action | code |
|---|---|
| `Start`, `PlanBoot` | `main()` up to and in `backfillFromLastKnown` |
| `FetchPage`, `WriteChunk`, `ReadBackLast`, `Report` | the awaits of `ensureRange` |
| `Throw` | any of them rejects: who catches it decides what goes on |
| `WsOpen`, `BeginRecovery`, `PlanRecovery` | `onOpen`, before and after its awaits, and the recovery |
| `WsClose`, `GoSilent`, `Watchdog` | the connection is lost, noticed or not |
| `ReceiveUpdate`, `Tick` | messages: an update, and the last one of a candle with `x = true` |
| `UpsertMessage`, `MarkClosed`, `DropMessage` | `handleKline` |
| `BeginScan`, `DetectGaps`, `NextGap` | `scanAll`, `scanSymbol` |

The exchange is `Listed`, the candles it has. That a candle may be missing there
is not an invention: the code skips an empty page (`C/backfill-service.ts`) and
the docs name maintenance windows. `FetchPage` answers with the exchange's state of
any moment between request and parsing, which is what makes `mislabelled`
reachable.

### WsCollector

Ticks of one second; a delay is the number of ticks left and a silence the
number passed, up to the threshold, so that the state space is finite without a
bound on time. `calls` are the calls of `main` and `cleanup` still to come, one of `start()`
and one of `stop()`, in either order: a signal during the boot backfill calls `stop()`
first (`C/index.ts:65-68`, then `:91`), and `start()` connects all the same. `opens` are the calls of `onOpen` under way (a socket may be lost
and replaced while one still awaits its statements). `clears` counts the
`updateState` statements `scheduleReconnect` issues without awaiting. The history
variables `quiet`, `wasUp`, `owed` and `overtaken` are only read by properties.

| action | code |
|---|---|
| `Start`, `Stop` | `start()`, and `stop()` up to its last flush |
| `SocketOpens`, `RecordConnected`, `WriteConnected`, `AfterAwaits`, `EndRecovery`, `FailOpen` | `onOpen` up to its first await, after each of them, and its rejection |
| `OnMessage`, `GoSilent`, `HandshakeHangs` | what the peer does, or no longer does |
| `OnError`, `OnClose`, `ScheduleReconnect`, `TimerFires` | the socket's events, the timer and `connect()` |
| `ExecuteClear`, `FailClear` | the statement `scheduleReconnect` does not await |
| `Watchdog`, `Tick` | `startWatchdog`, and time |

### CollectorProcess

Time counts the messages received and the connections opened, so that of two prices or signs
of life the newer is the greater. `latest` is `latestPrice` with `lastMessageAtBySymbol`,
`dirty` the set of symbols to write in its order of insertion. `flushes[f]` is one call of
`flushState`: the timer does not await it, so several are under way; `flushes[0]` is the one
`stop()` awaits. A turn of its loop reads what it writes when the loop comes to the symbol,
not when the flush began. `opens[i]` is one call of `onOpen`: it takes `now` first, awaits
`recordEvent`, and then writes `now` as the sign of life of one symbol after the other.
Nobody awaits it and `stop()` does not interrupt it, so that it may set a row back behind a
flush. `rows` is `collector_state`; `UpdateState` is the `coalesce` of its update, `Write`
its statement. `lost` is the newest value, by symbol and column, that a statement failed to
write or replaced by an older one; `owed`, `taken` and `refused` are what `stop()` found
received, what a flush of the timer had taken and not reached by then, and what the ending
pool refused. The connection is open at any time here, see `WsCollector`.

| action | code |
|---|---|
| `Migrate` | `runMigrations` with its attempts |
| `BackfillStores`, `BackfillPublishes`, `BackfillThrows`, `RecordEvent` | the loop of `main()` over the symbols, its `try` and its `catch` |
| `UncaughtException` | the process handlers of rejections and exceptions |
| `OnMessage`, `MarkClosed` | a trade or candle of a symbol; `updateState` of a closed candle |
| `FlusherFires`, `ExecuteFlush`, `FailFlush`, `PublishTicker` | `flushState`: up to its first await, its statements, its notices |
| `OnOpen`, `ExecuteOpen`, `FailOpen` | `onOpen`: up to its first await, its statements, its rejection |
| `Signal`, `Stopped`, `BusClosed`, `PoolEnded`, `Timeout` | the signal handler and `cleanup()`, with its 8 seconds |

A pool that is ending refuses new statements and waits for those under way
(`"refused"`, `PoolEnded`). `main()` does not look whether a shutdown has begun:
`NextSymbol` switches the collector on behind `stop()`, as the code does.

### RestClient

One `request` per caller, with `acquire` as one action per round of its loop.
`windowStart` is kept as far as it is compared, whether it is the current minute;
the exchange's minute is taken to be the collector's (Binance counts by the wall
clock minute, and the code relies on it). Answers may carry the weight header or
not, arrive late, in any order, or never. Other processes of the same address
use weight, too. `counted` and `banLeft` are history variables.

### NotifyBus and SseHub

`NotifyBus` has the state of every `PgNotifyBus` (`bus`) and `pg.Client` (`client`),
in slots that are used again when nothing refers to them any more, and the calls
that wait for them: `start()`'s current `subscribe()`, and each `resubscribeAll()` or its
timer. `pc` names the `await` (`connect`, `listen`). `SseHub` adds the hub object:
`hubBus` is `h.bus`, `timer` is `h.timer`, `linger` is `h.lingerTimer`, `stopping` names
the bus `h.stopping` closes, and `h.starting` is the call `calls["start"]`. `stream[s]` is
one request: which promise its `subscribe()` awaits, and whether the browser has
left already; a request counts in `h.subscribers` from its arrival to its release.

| action | code |
|---|---|
| `Arrive`, `Resume`, `JoinHub`, `BeginStart` | `subscribe()` and `start()`, before and after the wait for `h.stopping` |
| `StartNext`, `StartFails` | `start()` after one of its three subscriptions, and its rejection |
| `Abort`, `Settled`, `LingerAfter` | `cleanup()`, the check after `subscribe()`, the release and `scheduleStop()` |
| `LingerFires`, `Stopped` | `stopIfIdle()` before and after the wait for `close()` |
| `Connected`, `ConnectFails`, `Listen`, `ListenFails` | `getListener()` and LISTEN |
| `ClientError`, `TimerFires` | the `'error'` handler and `resubscribeAll()` |

`SharedHub` says the same without promises, timers and connections. Its hub is stopped,
starts, runs or stops (`phase`), a stop is due or not (`stopDue`), and every browser is out,
waits, has left while it waits, or is in (`who`). `Phase` reads the phase off `hubBus`,
`stopping` and the call of `start()`, `Standing` where a browser stands off its request, and
`stopDue` is `linger`. Connections, subscriptions after the first and resubscriptions are
stuttering steps of it.

What `start()` does when a subscription is over is a microtask, so nothing comes
between (`Continuing`). What is broadcast is left to `Dashboard`, and so is a dead
connection that `pg` never reports: the code has nothing that would notice it.

### Dashboard

The data is reduced to the moment it shows: moment `2b+1` is an update of candle `b` in
progress, `2b+2` its last one, and the price of a moment is its number. `Candles` and
`Payload` are what the API answers at a moment. `publishing` are the moments that a
`handleKline` of the collector has stored and not yet published; the calls run beside each
other, so that two are published in either order, and a failed one is only logged.
`listening` is the LISTEN connection behind the stream: while it is down, what is published
reaches no browser, whose stream stays open. (The stores themselves are in order here; that
statements execute in another is in `CandlePipeline`.) `queue` are the events on the way (in
order), `requests` the fetches under way (answered in any order, with what any moment since
they were sent showed). `page` is the state of the hook; `stream` may be `"buffered"`,
behind a proxy that passes on the headers and keeps the rest, the case `stream-health.ts`
was written for.

| action | code |
|---|---|
| `StoreKline`, `PublishKline`, `FailPublish` | `handleKline`: its upsert, its publication, which may fail |
| `ListenBreaks`, `ListenAgain` | the LISTEN connection of the bus breaks, `resubscribeAll()` |
| `Push` | price, figures, notice, from the collector or the hub |
| `OnOpen`, `Break`, `Stall` | `onopen` with its resync, `onerror`, and a proxy that begins to buffer |
| `Deliver`, `DeliverNotice` | the listeners of the event kinds; a notice the event log cannot render |
| `Tick` | the watchdog: phase, and a poll when it is due |
| `SetInterval` | `setInterval` of the hook; the picker is disabled while it loads |
| `Answer`, `Fail` | what follows the `await` of `fetchPayload`, in `resync` and in the switch |

`quiet`, `seen` and `missed` are history variables: the silence as it really is, the newest
moment shown, and, for a page that has a reason to be behind, the moment an answer has to
show to make up for it: a candle was lost while the stream was open (`Lose`) or came out of
order (`Continues`, `Merged`), or a fetch failed or was overtaken.

### Analytics and Config

The tables are functions from open times to rows, and each SQL statement is an
operator on them; a ratio is a pair. `MCAnalytics` makes one call per state, with
its arguments and its result, over every table of a few candles; the reference definitions
in the properties are written without the window that the statement reads.
`LoadConfig` supplies the settings that the routes and the delays are called with.

`Charts` takes what `Analytics` returns and places it: a position is a numerator over the
extent of its axis, so that the comparisons of the properties are exact where the code
computes with floating-point numbers. The path of the average is given by the candles that
have one, in ascending order, and the step of the grid lines by the least power of ten
that fits, where the code has a loop and a logarithm. Texts, colours and strokes are left
out.

What is assumed of the constants is what the code fixes. The limits of parameters and
windows are positive (`MAX_CANDLES` and the limits of `parseInt10` in the routes are literals). There are three
severities, none above `FreshWithin`: both the badge's critical limit (`W/lib/format.ts:103`)
and `staleThresholdSeconds` (`D/analytics-repository.ts:285`) are 30 seconds. One of the interval lengths is 1, the interval that
the collector stores and every other is folded from.

Intervals are multiples of the base interval (`TablesAssumption`). The settings and the parsing
of requests would also let a shorter one be asked for, which has nothing to fold.

Three properties say less of the code than one would first write, because attempts to
prove the stronger forms for every value of the constants failed for good reasons:

- The day's figures of a card are not those of the chart alone (`CardAgrees`): `MAX_CANDLES` (1000)
  one-minute bars are less than the 1441 of a day, unless some are missing. They are those of the
  candles of that day on the chart and of the bars of the day older than the chart.
- The first point of the relative strength may lie before the hours asked for by less than a
  step of the chart, since the buckets are aligned and the edge of the window is not
  (`PanelsAsAsked`).
- Bodies of candles stand apart only while there is a pixel for each: the code never draws one
  narrower than a pixel (`W/components/CandleChart.tsx:100`).

## 3. Runs

Passing runs:

| run | shows | bounds, and why they are enough |
|---|---|---|
| `pure_functions` | pages partition the range, the restart fetches the last candle again, gaps are exactly the missing candles, delays double up to their cap; the reads of the dashboard agree with definitions that fold the whole history, with each other and with the scanner; the pointer reads the mark it is nearest to, and marks are where their values say (`ChartsPointAtWhatTheyDraw`); a request is refused or answered as asked | times 0..9, candle lengths 1 to 3, pages of 1, 2, 3, 4 and 20: unaligned ends, exact and partial last pages, one page, no page, every subset of stored candles. Reads: every table of 8 candles and every pair of tables of 5, candles of 1 to 3, limits below, at and beyond what there is; a chart of at most 3 candles against a day of 4 bars, so that charts shorter than the day and, with gaps, longer ones occur; every parameter absent, at a limit, beyond it, and malformed. Charts: every one of those tables drawn on plots between the narrowest (21 pixels) and one of 102 pixels, so that bodies are limited by the slot, by their least and by their greatest width, and at every pixel of them. All ten properties are theorems without the bounds |
| `pipeline_safety` | what `ensureRange` was asked for is stored; boot finishes the history; `last_open_time` names a stored candle; a finished candle of an earlier run is not spoiled; `CandleArchive` is implemented | 5 candles, pages of 2, chunks of 1, two messages in flight, two faults: several pages, several chunks of a page, a crash in each await, and a second run over what the first left. The last candle is one the exchange does not have. All five are theorems without the bounds |
| `pipeline_healing` | the holes between stored candles of the scanned window are filled, all of them, again and again (liveness) | 6 candles from an empty table, one fault, one recovery, a scan that fills one gap at most: the candles before the first connection make one hole, and a disconnect with its recovery, a silent socket, a dropped statement, a throw or a crash makes another one beside it, so that the cap is exceeded. Each of these was confirmed reachable by a violated invariant. Every candle is one that the exchange has (the last one only ends the one before): gaps that cannot be filled are in Known limits |
| `ws_collector` | see below | threshold of 2 ticks, delays of 1, 2 and 2-3, two open handlers, two unexecuted statements, one failed statement or hung handshake; errors, closes and silences without bound |
| `collector_process` | what was received is stored once no flush has to do with it; an orderly end loses nothing but what a flush of the timer came to too late; an orderly shutdown ends by itself (`ShutdownEnds`) | 2 symbols (a flush and an open handler have a next one), 3 messages or openings, 2 flushes of the timer beside that of `stop()`, an open handler, one fault, 2 attempts of the migrations: a message during a flush, overlapping flushes that execute in the wrong order, an open handler whose statement executes after a newer one or after `stop()`, a failed statement after which a newer one succeeds, a signal at every step of `main()`. The two invariants are theorems without the bounds |
| `rest_client` | no request leaves above the soft ceiling of the minute; every call ends | 2 callers, 2 attempts, a minute of 2 ticks, two requests below the ceiling and others using as much: waiting for the next minute, a refusal, an answer of the minute before, a retry after a loss |
| `sse_hub` | see below | 2 browsers, 2 channels (the code has 3: a first, and a last one after another), 3 buses, 4 connections, 2 resubscriptions at once, 2 faults: a start that fails and one after it, a connection that breaks and the failure of its resubscription, two overlapping resubscriptions, and a stop after each. The slots are never short: with 2 faults at most 2 buses and their connections are orphaned |
| `dashboard` | see below | a table with two candles, the last of which may still be published when the page is rendered, and the first update of a third one; 2 candles to publish, 2 events on the way, 2 fetches under way, one switch, one fault beside the failing attempts to connect, silence after 2 ticks: publications in the wrong order, one that fails or finds nobody listening, an answer overtaken by an event, a poll during a switch, a stream that is buffered, breaks and comes back. With two new moments the safety properties were checked, too (2.3 million states). All but the liveness property are theorems without the bounds |

`ws_collector` checks that there is never a second connection, none before
`start()`, and neither a connection nor a timer as long as `stop()` was the last call (`OneConnection`), the watchdog never takes down a
socket for its predecessor's silence (`OnlySilentSocketsAreTerminated`), a success
resets the backoff (`BackoffRestartsAfterSuccess`), a downtime is not forgotten
before its recovery begins (`DowntimeIsRemembered`), the uptime is empty while
reconnecting (`UptimeEmptyWhileReconnecting`), and a lost connection is always
replaced (`LostConnectionIsReplaced`). The two properties about downtime and uptime
except the runs in which a close overtook an open handler; the exception is needed,
see Known limits.

`sse_hub` checks that a subscribed browser is never left on a stopped hub
(`SubscribedBrowsersAreServed`), the hub is one that its browsers share, whose stop comes due
exactly when the last one goes (`SharedHubSpec`), many browsers share one LISTEN connection, as long as
nothing fails (`OneListenConnection`), an unwatched hub stops, also when the browsers
left before they were subscribed (`UnwatchedHubStops`), and a running hub hears all its
channels, again after its connection broke (`EveryChannelIsHeard`).

`dashboard` checks that a page with an open stream, nothing to be published and nothing on
the way shows the newest candles of the table, none missing, repeated or unfinished, unless it
has a reason to be behind and no answer has made up for it (`SettledChartIsExact`; the
reasons are listed there, Known limits says which the code leaves), that the badge says live only while something arrives
(`LiveBadgeIsHonest`), that the heavy payload is read again only for a stream that was
lost or has gone silent (`HeavyReadsOnlyWithoutStream`), and that the price settles on
the last one, even behind a proxy that buffers for ever (`ShownPriceFollows`).

Runs that refute what the repository says of itself:

| run | the statement | the counterexample |
|---|---|---|
| `claim_unfinished` | refetching the last candle prevents one that stays unfinished for good (`S/backfill-plan.ts:40-42`) | no fault at all: the boot backfill stores the candle in progress, the minute ends, then the stream opens. The row exists, so no gap shows, and nothing fetches it again until the process restarts within that candle's reach |
| `claim_retry_after` | `Retry-After` holds back every request (`S/__tests__/weight-limiter.test.ts:154`) | two requests were in flight when the limit was hit; the refusal received last sets the pause, also when it is the shorter one |
| `claim_failed_start` | a failed `start()` leaves nothing to stop (`W/server/realtime.ts:180`) | the bus has connected when a LISTEN fails or the connection breaks: `start()` drops the bus without `close()`, its connection stays open or is replaced by its own error handler, and nothing refers to it |
| `claim_backfill_notice` | the notice of a completed backfill refreshes the dashboard (`C/backfill-service.ts:200`) | the notice has no `ts` and no `detail`; the page puts it in its event log as it is, rendering it throws, and every open page is replaced by the error page |

### Known limits

More disagreements and limits, met while modelling, which are not runs of their own.

*Candles.* A candle whose last write fails after one of its updates was stored stays
unfinished in the same way as in `claim_unfinished` (`C/ws-collector.ts:237-238` says
that a backfill fills it). The recovery after a reconnect starts from the last stored candle, read
after `onOpen`'s awaits (`C/ws-collector.ts:153`), when the new stream may already have
stored one: it then starts behind the downtime it is meant to fill (comment at `:161`), and
the scanner fills the hole later. The range of a boot backfill that fails is not retried
(`C/index.ts:76-78` leaves it to the scanner, which compares stored candles with each
other, `C/integrity-scanner.ts:101`: what is older than the oldest of its window is not
a gap). Each scan starts with the oldest gaps again, so that as many gaps without data as
the cap allows use up every scan (`C/integrity-scanner.ts:134`, against `:28`). A REST
row whose candle closes between the answer and its parsing is stored as closed with
partial data (`S/binance/rest.ts:158-160`): the status `mislabelled`. A statement of the
stream that waited may overwrite a finished row of a backfill (`D/kline-repository.ts:43-57`
has no condition on the row it replaces); `HistoryIsStable` shows that this cannot
reach candles from before the process started.

*Connection and process.* A socket whose handshake is never answered is ended by nobody,
since the watchdog looks at open sockets only (`C/ws-collector.ts:259`, against
`docs/ARCHITECTURE.md:167`). A connection lost while `onOpen` awaits its statements makes
that handler clear `disconnectedAt` of the new loss (`C/ws-collector.ts:164`), whose
downtime then gets no recovery, and may leave `ws_connected_since` set while reconnecting
(`C/ws-collector.ts:154`); without `~overtaken` TLC violates both properties.
`last_open_time` can go back when a backfill reports the candle it read before the stream
reported a later one (`D/kline-repository.ts:180` calls it monotonic); every restart point
is read from `klines`, so only the display is affected (`D/schema.ts` calls
`collector_state` the basis of the restart point). Of two flushes that overlap the older may
execute last, and its price stays until the next message (`lost` in `CollectorProcess`).
`onOpen` takes `now` before its awaits and writes it after them (`C/ws-collector.ts:135`,
`:156`), so that `last_message_at` goes back behind a message that was flushed meanwhile,
until the next one (`D/kline-repository.ts:180` calls it, too, monotonic); as nothing
interrupts the handler, also after the last flush of `stop()`. What a flush of the timer has
taken when `stop()` comes, and reaches when the pool is ending, is refused and gone
(`C/ws-collector.ts:289-290` empties `dirtySymbols` first). A signal before the handlers are
registered kills the process; one during the boot backfill is followed by a collector that
is started behind `stop()`: it connects (`Start` of `WsCollector`) and writes, on a pool
that ends, until the process does. `stop()` removes the listeners of a socket and then
terminates it (`C/ws-collector.ts:102-103`): the `ws` library reports the end of a handshake
under way as an `error`, which without a listener is thrown, so that the process exits by
`uncaughtException` before the last flush is over. `UncaughtException` of `CollectorProcess`
is such an exit at any moment. `recordEvent` in the catch of the boot backfill is not caught
itself: with the database down the process exits (`C/index.ts:83`), and Docker starts it
again. `RATE_LIMIT_WEIGHT_PER_MIN` times the threshold may be less than the weight of a
request (`S/config.ts:43`); `acquire` then waits for ever
(`S/binance/weight-limiter.ts:42`). `RestClientAssumption` excludes it.

*Hub.* Two states are reachable that no comment excludes. A `close()` that comes
while a resubscription connects ends the listener of the moment, and the new one,
installed afterwards, stays open (`D/realtime-bus.ts:84`, `:152`). Two calls of
`getListener()` that overlap (a resubscription and `start()`'s next channel, or two
resubscriptions) leave two connections that both listen, so that every event reaches
the browsers twice (`D/realtime-bus.ts:116`); hence the condition `faults = 0` of
`OneListenConnection`. `getPublisher()` has the same overlap (`D/realtime-bus.ts:92`), and
a publish after `close()` connects again. Two snapshots of `pushOps` may overlap, the
older one sent last (`W/server/realtime.ts:107`). `lastOps` survives the stop of the hub:
the first browser after an idle hour is sent the figures of an hour ago as the latest ones
(`W/server/realtime.ts:227`), until the next snapshot.

*Page.* A candle whose publication fails is only logged (`C/ws-collector.ts:234-244`), and
what is published while the LISTEN connection of the hub reconnects reaches nobody
(`D/realtime-bus.ts:146-153`, `:159-175`); two publications may go out in the wrong order,
as nothing awaits `handleKline` (`C/ws-collector.ts:206`). In each case the stream of the
page stays open, nothing is read again, and the chart has a candle missing, unfinished or
out of place until the next resync, poll or switch.

The first opening of the stream reads nothing again, so that what was published between
rendering and connecting is missing until the next candle or resync
(`W/lib/useDashboard.ts:88`). A resync that fails on reopening is not repeated while the
stream is live, against the comment at `:66`. An answer older than an event that overtook it
replaces the newer state, and one for the interval left replaces that of the interval
chosen; `missed` in `Dashboard` marks all of these. Charts of 5 minutes and 1 hour,
coverage, statistics and the lines are not refreshed while the stream is live. `mergeKline`
keeps the length of the list: a page loaded with an empty table shows one candle until the
next resync. `EventSource` gives up for good on an answer other than 200 (an error of
`OnError` with no further attempt), and the page then says reconnecting; `OnOpen` under weak
fairness speaks of the other case. The coverage tile shows the first element of an answer
without an order (`W/components/panels.tsx:245`, `D/analytics-repository.ts:198`), so that a
hole in the other symbol may not show (`docs/METRICS.md:57` introduces it as the figure that
tells whether all was collected). A symbol that was not traded for a day has a taker ratio
of 0 and looks entirely sold (`D/analytics-repository.ts:168`), one without statistics
balanced. The crosshair keeps the number of its candle when the list moves on, the tooltip
the figures it was opened with (`W/components/CandleChart.tsx:39`). The average line may
leave the panel: the range of prices is that of the candles drawn, the average includes
earlier ones.

*Scripts.* `chaos.mjs` run to its end may say PASS without any hole having been made, and
leaves the database stopped when it is interrupted.

### Fairness

`CandlePipeline`: Docker restarts the process (`restart: unless-stopped`), the scanner's timer
fires, awaits of the boot and of the scanner that do not throw are answered. Each of the two
is one sequential activity and has weak fairness as a whole, because it has one step at
hand at a time. Nothing else has any: the connection may stay away, a recovery or a
statement of the stream may hang, and time may stand still, the scanner heals without them.
`WsCollector`: timers fire, the event loop delivers a close that was emitted,
statements execute; the exchange need not accept, answer or send anything.
`CollectorProcess`: statements and publications come back, with an answer or an error, and
the three awaits of `cleanup()` return when what they wait for is over. The timer of 8 seconds
has none, it is the remedy for a database that does not answer; so `ShutdownEnds` says that
an orderly shutdown needs no remedy.
`RestClient`: time passes, and `fetch` ends because of `AbortSignal.timeout`.
`SseHub`: a start, every resubscription, and a stop with those who wait for it make
progress; `pg` answers, with at most `MaxFaults` errors in all, which is the assumption that
the database is reachable in the end. Browsers come and go as they like.
`Dashboard`: `EventSource` and the LISTEN connection connect in the end, an open stream delivers, the watchdog
ticks, every fetch ends; a price is published again and again while a stream is open (strong
fairness of `Push("ticker")`: trades go on and the collector flushes every second). Candles, the
user and proxies are under no obligation: a stream may be buffered for ever.
`RestClient` runs with one call per caller (`MaxCalls`), so that `EveryCallEnds` does not speak of
a caller that others overtake for ever.
Where a spec has a last candle (`MaxTime`), a last moment (`MaxMarket`) or a last call
(`MaxCalls`) it simply goes on without them: the liveness properties speak of what
comes before.

Deadlock is checked in every run except those of systems that may really stop: a
process that has ended (`CollectorProcess.cfg`), and a page replaced by the error page
(`Dashboard.cfg`, `ClaimBackfillNotice.cfg`).

## 4. Proofs

All theorems hold for every value of the constants that satisfies the assumption named
in the module of the specification (`PlanAssumption`, `PipelineAssumption`,
`WsCollectorAssumption`, `RestClientAssumption`, `ProcessAssumption`,
`NotifyBusAssumption`, `DashboardAssumption`; `AnalyticsAssumption`, `BoundsAssumption`
and `TablesAssumption` for the calls of `pure_functions`); TLC evaluates these in the runs.

An invariant that a run checks is seldom inductive. Each module below names its
strengthening (`IInv`, where nothing else is said), which consists of named parts, and
has one lemma per action that it is kept; the theorem that states it comes first and
the properties of the run follow from it.

### BackfillPlanProofs, AnalyticsProofs

`BackfillPlanProofs` is about the functions themselves, for all arguments, from lemmas
on `\div` (`DivBounds`, `TimesMonotone`, `DivOfMultiple`) and on the number of the bar a
time falls into (`BarAtBounds`), which turn times into bars:

- `PlanCoversRange`, `PagesAreInOrder`: the pages of a plan hold exactly the bars of the
  aligned range, follow each other without repeating one, start and end on bar starts,
  and have the number of bars they say, none more than one request may have.
- `RestartFetchesTheLastBar`: the plan of a restart asks for exactly the last stored bar
  and everything after it up to the bar in progress.
- `GapsAreExact`, `GapsAreWhole`: a bar lies in a reported gap if and only if it is missing
  and has stored bars on both sides; a gap lies between two stored bars and counts its
  bars right. The gap of a missing bar is the one between its nearest stored bars
  (`NearestBars`), which exist because numbers are well ordered (`LeastOf`).
- `DelayIsCapped`, `DelaysDouble`, `DelaysAreCapped`: lemmas that the clients use.

`AnalyticsProofs` proves first the three properties of `pure_functions` about planning for every
bound of the calls: `PlansAreExact`, `GapReportsAreExact` and `BackoffDoubles`. Between them
and the theorems above lie the sums of the properties, which are cardinalities here, and
the reference definition of the delays, a recursive function. That the two agree on every
attempt needs no induction: if they did not there would be a least attempt at which
they differ, and both follow from the one before (`DoublingIsBackoff`).

The reads of the dashboard follow, for every table, interval, limit, parameter, setting and
size of the screen that the constants allow. None of it is by induction over the tables:

- *Sums.* The statements sum over rows, the properties count or sum over other sets. `Total`
  is a sum as the module of finite sets defines it, and `TotalAdds`, `PartsAdd`,
  `TotalOfTwoParts` and `TotalRenamed` say that it is additive over disjoint sets and may be
  renumbered; that a sum exists for every finite set (`SumsExist`) is by a least
  counterexample in the size of the set.
- *Ascending lists.* In a finite set of `n` numbers there is one with `k - 1` below it, for every
  `k` up to `n` (`AscendingHasRanks`), which is the `k`-th of the list (`AscendingByRank`). The last
  `n` of a list are those of the upper part of its set (`UpperPartLast`).
- `LinesHaveOneStart` (`LinesShareTheirStart`): the points of a line are buckets in which each
  symbol has a close.
- `CoverageAndGapsAgree` (`CoverageCountsTheGaps`): the bars missing in all gaps and the bars held
  make up the range between the first and the last (`GapsAddUp`, adding one stored bar at a
  time, again from a least counterexample).
- `HealthFollowsTheSymbols` (`HealthIsJudgedBySymbols`), for any three severities: each limit is
  the least, the greatest or the one between, so that the badge is what the property says.
- `CandlesAreThoseOfHistory` (`CandlesMatchFullHistory`): the window of `limit + ma` candles that the
  statement reads holds every bar of every candle it returns but the first, and of the `ma - 1`
  before it that the average takes (`WindowKeepsCandles`, `WindowFull`). That the run-up is long
  enough, for every table without a gap, is the point of the theorem.
- `CardsAgreeWithCharts` (`MarketCardsAgreeWithCharts`): candles of one bar are the bars
  themselves (`SingleBarsShown`), so the candles shown of a day and the bars of that day as far
  as the chart reaches back correspond one to one (`ShownAreTheDay`); with the older bars they
  make up the day (`DayInTwoParts`), whatever the length of the chart.
- `RequestsAreAnsweredAsAsked` (`RefusedOrAnsweredAsAsked`): each parser either refuses, or
  returns the default for an absent parameter and the given one otherwise (`NumberParsed`,
  `IntervalParsed`, `SymbolParsed`); a started process has a symbol and an interval (`StartedSettings`), so
  every answer has candles (`StoredCandles`). The list of symbols is built by a recursive function
  of up to three words, which is unfolded (`ShortCsv`).
- `ChartsShowTheirValues` (`ChartsPointAtWhatTheyDraw`): positions are fractions with their own
  denominators. What they are compared by is products (`PixelsOrder`, `FractionsOrder`), what the
  lines share is a common denominator, the product of the first values (`FactorsDivide`,
  `HeightsOfLine`). The mark under the pointer is found by rounding (`NearestPoint`) or cutting
  off (`NearestCandle`). Every price lies strictly within its range (`PriceDomainHoldsPrices`, which needs that
  candles have room: `ChartsAreDrawable`), and a step of 1, 2, 5 or 10 powers of ten fits it two
  to five times (`StepFits`, `MultiplesCounted`).

What is used of powers of 2 (`PowersArePositive`, `PowersDouble`) comes from `FS_SUBSET`, the
number of subsets of a finite set, since the provers know no more of `^` than its sort. In
the library the proof of that theorem rests on `2^(n+1) = 2^n + 2^n`, which is stated there
without proof. It is the one fact of arithmetic taken from outside; `RestClientTypeCorrect`,
`WsCollectorTypeCorrect` and `BackoffDoubles` depend on it.

### CandlePipelineProofs

- `TypeCorrect`: `Spec => []TypeOK`.
- `NothingOldInHand`: `Spec => []InHandInv`, the inductive strengthening. That no step
  spoils history is not inductive: a page fetched, or a message received, is written
  later. `InHandInv` says of everything *in hand* (in-flight messages, rows
  fetched and not written, and the moment a fetch began) that what it holds of the
  time before the process started is final. It holds initially (nothing is in
  hand), `Crash` and `Start` empty what is in hand when the start time moves, and a row fetched
  later than the start is final if it is older than it.
- `HistoryStaysFinished`: `Spec => HistoryIsStable`, from `InHandInv`.
- `PipelineImplementsArchive`: `Spec => ArchiveSpec`, step by step, from the same
  invariant; the refinement mapping is `time <- now, cells <- bars, epoch <- bootedAt`.

Its second part is about what a backfill leaves behind it, for every page size,
chunk size and number of recoveries:

- `WhatIsBehindIsStored`: `Spec => []RangeInv`, the inductive strengthening. The loop
  promises a range and holds, at any moment, only pages and chunks: `RangeInv` says that
  the pages before the one in progress are stored, that of this page every candle is stored
  or still in hand, that no call asks for the future, and that the boot backfill ends at
  the start of the process. "Stored" means `Good`: for the boot backfill also finished, if the
  candle is from before the start. That other writers disturb none of it follows from
  `PipelineImplementsArchive`'s step lemma; that the pages add up to the range, from
  `PlanCoversRange`.
- `RangeIsEnsured`, `BootLeavesHistoryFinished`, `ReportedCandleIsStored`: the invariants
  `EnsureRangeStores`, `BootFinishesHistory` and `LastOpenTimeIsStored`.

### WsCollectorProofs

For every threshold, number of open handlers, of statements and of faults:

- `SocketIsAccountedFor`: `Spec => []IInv`, with `SocketInv` (what socket, timer and the
  silence say about each other), `HandlerInv` (a handler that awaits belongs to the
  socket of the moment, until a close overtook one) and `DowntimeInv` (a connection
  lost and not replaced has left its mark). `OneConnection` is not inductive without
  the timer: `connect()` is safe because a timer only waits while the socket is closed. Nor
  without the calls to come: `start()` is safe, also after `stop()`, because until it is
  called nothing connects.
- `WsCollectorTypeCorrect`, `AtMostOneConnection`, `DowntimeIsNotForgotten`,
  `UptimeIsEmptyWhileDown`, `WatchdogSparesNewSockets`, `SuccessResetsTheBackoff`: the
  properties the run checks, but for its liveness.

### RestClientProofs

`LimiterIsNeverBehind` (`Spec => []NothingUncounted`: the limiter's counter is never behind
what it granted or was told this minute, whatever answer arrives late), `CeilingIsKept`
(`Spec => CeilingHolds`) and `RestClientTypeCorrect`, for any number of callers and
attempts. The type needs one thing of the order of steps: a call under way has made an
attempt (`CallSort`), so that its delay is one of `calculateBackoffDelay`'s domain.

### CollectorProcessProofs

For any number of symbols, messages, flushes and open handlers under way, and faults.

- `NothingIsForgotten`: `Spec => []IInv`. `ReceivedIsStored` speaks of a symbol no flush has
  to do with; while one has, the message is somewhere on its way. `Held` says where:
  its symbol waits in the dirty set or in the rest of a flush (whose turn will read the
  memory anew), or a statement under way has the newest message, or the row has it, or it
  is lost. `Owing` says the same of what `stop()` took over, which only its own flush
  and statements under way may still bring, or a flush of the timer that had taken the symbol,
  unless the ending pool refuses it. `Older` is what makes overlapping flushes
  harmless to reason about: no price in a row, in a statement or owed is ahead of the memory. (A
  sign of life may be: that of `onOpen` is no message.) `Phases`: `shutdown` waits for
  `flushes[0]`, and the pool ends only after it.
- `ReceivedMessagesAreStored` (`ReceivedIsStored`), `OrderlyExitStoresPrices`
  (`OrderlyExitKeepsPrices`).

### SseHubProofs

For any number of browsers, channels, buses, connections, resubscriptions and faults.

- `HubIsConsistent`: `Spec => []IInv`. Who refers to whom (`References`: a call under way
  has a bus with a handler and, while it awaits an answer, a client; `Connecting`: a client that connects does so for
  one call and is nobody's listener yet), the phase (`OnePhase`: the hub runs, starts
  or stops, one at a time, with an open bus), its audience (`Audience`: who is subscribed
  has a running hub, who waits has a start under way, a stop is scheduled for an idle hub), and,
  as long as nothing has failed, who owns each connection (`OwnedWithoutFaults`: the start,
  the running hub, or the stop). `SubscribedBrowsersAreServed` alone is not inductive: a
  start that ends makes subscribers of those who wait, so it must have a hub to show.
- `HubTypeCorrect` (`TypeOK`), `SubscribersHaveAHub`, `StopsAreForIdleHubs`,
  `AtMostOneListener` (`OneListenConnection`, with the condition of Known limits).
- `HubImplementsSharedHub`: `Spec => SharedHubSpec`, one lemma per action (`ArriveHub` to
  `StartNextHub`; `BusKeepsStart` for what the buses do by themselves). The invariant is
  needed for it: that a request which resumes finds no stop under way and none
  scheduled, that a start which ends was the only one and found no hub, and that the timer fires for
  a hub nobody waits for (`OnePhase`, `Audience`).

### DashboardProofs

For every length of the chart, the queue and the table, every threshold, and any number
of fetches, faults and switches.

- `PageIsConsistent`: `Spec => []IInv`. That a settled chart is exact says nothing of a
  chart that is not settled. `NothingIsLost` does: every moment up to the present was shown,
  is on the way, is still to be published, is asked for by a fetch under way, or is missed
  (`MadeUpFor`), in whatever order candles are published and however many publications fail.
  `ChartIsExact`: the chart is the newest candles of the table at the moment last shown,
  unless something is missed: a candle that comes in order (`Continues`) keeps it so.
  `Switching` and `OfTheInterval`: at most one switch is under way, to the interval chosen,
  and the data is of that interval or the switch will bring it. `Watching`: the silence the
  watchdog counts is the real one, up to the threshold. `Closing`: a page replaced by the
  error page has no stream and asks nothing.
- `BadgeIsHonest` (`LiveBadgeIsHonest`), `ChartSettles` (`SettledChartIsExact`; its core
  is that merging the next update into the newest candles of a moment gives the newest
  candles of the next moment), `HeavyReadsAreRare` (`HeavyReadsOnlyWithoutStream`).

The attempt to prove `ChartSettles` found the model wrong: its history variable said only
whether a page had a reason to be behind, and a resync in order ended that even
when it had been asked before the loss. TLC then refuted the property with larger bounds.
`missed` holds the moment that a resync has to show.

### Model-checked only

- Liveness and the fairness it rests on, since `ENABLED` is out of the prover's reach:
  `InteriorHolesAreFilled`, `LostConnectionIsReplaced`, `EveryCallEnds`, `ShutdownEnds`,
  `UnwatchedHubStops`, `EveryChannelIsHeard`, `ShownPriceFollows`.

Every invariant, action property and refinement of a passing run is a theorem. Induction over
data is out of reach too, but nothing is left that needs it: `PlanBackfillPages` is written
by index, sums and lists are reasoned about by least counterexamples, and no module declares
a recursive operator.

## 5. Not modelled

- Several symbols in `CandlePipeline`: each has its own rows and its own calls; what they
  share is the REST budget (`RestClient`) and the order of the scan. `countInRange`,
  which nothing calls, and the scan event.
- The publishing connection of the bus, except that a publish may fail; the size of a
  payload; heartbeats of a stream, which no browser sees.
- The health route, and the cached handle of `W/server/db.ts`.
- The coercion of a single setting, the logger, the SQL of the migrations, the pool's
  size and timeouts.
- Layout of the page, colours, time labels and wording; the sparkline and the history of
  lags it shows.
- `chaos.mjs` and `mutate.mjs`: tools that run shell commands and queries against the
  system from outside, in sequence, and keep no state of it.

## 6. Plan

1. Done: the inventory's components from the exchange to the screen.
2. Done: every safety property and both abstract specifications (`CandleArchive`,
   `SharedHub`) as theorems.
3. Left: two symbols in `CandlePipeline` with the order of the scan; the publishing
   connection of the bus, where `getPublisher()` has the overlap of `getListener()`; a
   boot backfill that fails, with the hole it leaves behind the scanned window.

------------------------------ MODULE Dashboard -------------------------------
(***************************************************************************)
(* The page of the browser: apps/web/src/lib/useDashboard.ts with          *)
(* stream-health.ts and merge-kline.ts, the stream and the API it talks to.*)
(* One symbol.  Events may be sent in any order, or not at all, and arrive *)
(* in the order sent; answers arrive in any order.                         *)
(*                                                                         *)
(* The data is reduced to the moment it shows.  Moment 0 is an empty table;*)
(* the later ones are, in turn, an update of a new bar in progress and its *)
(* last one: bar b is in progress at moment 2b+1 and finished at 2b+2.     *)
(***************************************************************************)
EXTENDS Naturals, Sequences, SequencesExt, FiniteSets, FiniteSetsExt

CONSTANTS
    FirstMoment,    \* when the page is loaded
    MaxMarket,      \* BOUND: the last moment
    CandleLimit,    \* candles of a payload (120)
    StallAfter,     \* STALL_THRESHOLD_MS, in ticks of the watchdog
    PollEvery,      \* FALLBACK_POLL_MS, in ticks
    MaxHandlers,    \* BOUND: candles stored and not yet published
    MaxQueue,       \* BOUND: events on the way
    MaxRequests,    \* BOUND: fetches under way
    MaxSwitches,    \* BOUND: clicks on the interval picker
    MaxFaults       \* BOUND: failed fetches and publications, broken streams and LISTEN
                    \* connections, proxies that begin to buffer

ASSUME DashboardAssumption ==
    /\ {CandleLimit, StallAfter, PollEvery, MaxHandlers, MaxQueue, MaxRequests}
           \subseteq Nat \ {0}
    /\ FirstMoment \in 0 .. MaxMarket

VARIABLES
    market,     \* the moment the tables show
    publishing, \* the moments stored by a handleKline of the collector that has yet to publish
    listening,  \* whether the LISTEN connection behind the server's streams is up
    stream,     \* "connecting", "open", "closed", or "buffered": a proxy passes on the headers
                \* and keeps the rest
    queue,      \* events sent and not yet delivered
    page,       \* what useDashboard holds
    requests,   \* its fetches under way
    switches, faults,
    quiet,      \* history: ticks since the last sign of life of the stream
    seen,       \* history: the newest moment an answer or a merged event has shown
    missed      \* history: the moment a resync has to show to make up for what the page missed,
                \* None for a page that missed nothing, see Lose and Merged

vars == <<market, publishing, listening, stream, queue, page, requests, switches, faults, quiet,
          seen, missed>>

None == -1

LastBar(m) == (m - 1) \div 2

BarsPer(interval) == IF interval = "1m" THEN 1 ELSE 2

\* at: the moment the candle shows; it is finished at the last one of its bars.
CandleOf(interval, openTime, m) ==
    [openTime |-> openTime, at |-> Min({m, 2 * (openTime + BarsPer(interval))})]

\* getCandles at moment m.
Candles(interval, m) ==
    LET n    == BarsPer(interval)
        last == LastBar(m) \div n
        size == Min({CandleLimit, last + 1})
    IN  IF m = 0 THEN <<>>
        ELSE [k \in 1 .. size |-> CandleOf(interval, (last - size + k) * n, m)]

\* buildDashboardPayload at moment m.
Payload(interval, m) == [interval |-> interval, candles |-> Candles(interval, m), last |-> m]

\* The page as the server rendered it.
Loaded(m) ==
    [shown      |-> TRUE,               \* not replaced by the error page
     data       |-> Payload("1m", m),
     price      |-> None,               \* prices[symbol]
     connection |-> "connecting",
     interval   |-> "1m",
     loading    |-> FALSE,              \* loadingCandles
     everOpened |-> FALSE,
     silence    |-> None,               \* now - lastSignalAt, up to StallAfter
     errored    |-> FALSE,
     sincePoll  |-> PollEvery]          \* now - lastPollAt, up to PollEvery

NoRequest == [kind |-> "none", interval |-> "1m", from |-> 0]

Init ==
    /\ market = FirstMoment /\ publishing \in SUBSET ({market} \ {0}) /\ listening = TRUE
    /\ page = Loaded(market)
    /\ stream = "connecting" /\ queue = <<>>
    /\ requests = [r \in 1 .. MaxRequests |-> NoRequest]
    /\ switches = 0 /\ faults = 0
    /\ quiet = 0 /\ seen = market /\ missed = None

Fault == faults < MaxFaults /\ faults' = faults + 1

Pending == {r \in 1 .. MaxRequests : requests[r].kind # "none"}

Begin(kind, interval) ==
    LET free == (1 .. MaxRequests) \ Pending
    IN  /\ free # {}
        /\ requests' = [requests EXCEPT ![Min(free)] =
                            [kind |-> kind, interval |-> interval, from |-> market]]

-------------------------------------------------------------------------------
(***************************************************************************)
(* The server                                                              *)
(***************************************************************************)
\* What happened at moment m and was not shown is missed by a page whose stream is
\* open and tells nothing of it; when a stream is lost, opening it again is to make
\* up for it.
Lose(m) == missed' = IF stream = "open" /\ m > seen THEN Max({missed, m}) ELSE missed

\* broadcast: a stream that is not open loses the event.
Send(kind, m) ==
    IF stream # "open" THEN UNCHANGED queue
    ELSE Len(queue) < MaxQueue /\ queue' = Append(queue, [kind |-> kind, at |-> m])

\* handleKline of the collector, which nothing awaits, up to its upsert.
StoreKline ==
    /\ market < MaxMarket /\ Cardinality(publishing) < MaxHandlers
    /\ market' = market + 1
    /\ publishing' = publishing \cup {market + 1}
    /\ UNCHANGED <<listening, stream, queue, page, requests, switches, faults, quiet, seen,
                   missed>>

\* ... and its publication: those of two updates go out in either order, and no
\* server that is not listening hears of them.
PublishKline(m) ==
    /\ m \in publishing /\ publishing' = publishing \ {m}
    /\ \/ listening /\ Send("kline", m) /\ UNCHANGED missed
       \/ ~listening /\ Lose(m) /\ UNCHANGED queue
    /\ UNCHANGED <<market, listening, stream, page, requests, switches, faults, quiet,
                   seen>>

\* ... which fails, or is not reached: logged, and left to a backfill, which tells no chart.
FailPublish(m) ==
    /\ m \in publishing /\ publishing' = publishing \ {m}
    /\ Fault /\ Lose(m)
    /\ UNCHANGED <<market, listening, stream, queue, page, requests, switches, quiet, seen>>

\* The LISTEN connection behind the streams is lost; resubscribeAll listens again,
\* and asks nobody to make up for the time between.
ListenBreaks ==
    /\ listening /\ Fault /\ listening' = FALSE
    /\ UNCHANGED <<market, publishing, stream, queue, page, requests, switches, quiet,
                   seen, missed>>

ListenAgain ==
    /\ ~listening /\ listening' = TRUE
    /\ UNCHANGED <<market, publishing, stream, queue, page, requests, switches, faults,
                   quiet, seen, missed>>

\* The last price, from flushState of the collector; the operating figures, from
\* pushOps of the server itself; the notice of a backfill, from ensureRange.
Push(kind) ==
    /\ stream = "open" /\ queue = <<>> /\ (listening \/ kind = "ops")
    /\ Send(kind, IF kind = "ticker" THEN market ELSE 0)
    /\ UNCHANGED <<market, publishing, listening, stream, page, requests, switches, faults,
                   quiet, seen, missed>>

-------------------------------------------------------------------------------
(***************************************************************************)
(* The stream                                                              *)
(***************************************************************************)
SignalOnlyForData(p, kind) == IF kind = "ops" THEN p ELSE [p EXCEPT !.silence = 0, !.errored = FALSE]

Signal(p, kind) == [p EXCEPT !.silence = 0, !.errored = FALSE]

ReopenWithoutResync == UNCHANGED requests

\* A stream that opens again makes up for what it missed.
Reopen == IF page.everOpened THEN Begin("resync", page.interval) ELSE UNCHANGED requests

\* 'open' comes with the headers, whether or not a proxy passes on the rest;
\* subscribe sends the last operating figures first.
OnOpen ==
    /\ page.shown /\ stream = "connecting"
    /\ \/ stream' = "open" /\ queue' = <<[kind |-> "ops", at |-> 0]>>
       \/ stream' = "buffered" /\ UNCHANGED queue
    /\ Reopen
    /\ page' = Signal([page EXCEPT !.everOpened = TRUE], "open")
    /\ quiet' = 0
    /\ missed' = IF ~page.everOpened /\ ~(seen + 1 .. market \subseteq publishing) THEN market
                                                                                 ELSE missed
    /\ UNCHANGED <<market, publishing, listening, switches, faults, seen>>

\* A proxy begins to buffer: nothing arrives any more, and nothing tells.
Stall ==
    /\ stream = "open" /\ Fault
    /\ stream' = "buffered" /\ queue' = <<>>
    /\ UNCHANGED <<market, publishing, listening, page, requests, switches, quiet, seen,
                   missed>>

OnErrorUnnoticed(p) == p

OnError(p) == [p EXCEPT !.errored = TRUE]

\* 'error': the stream is broken, or cannot be opened; EventSource tries again.
Break ==
    /\ page.shown
    /\ IF stream = "connecting" THEN UNCHANGED faults ELSE Fault
    /\ stream' = "connecting" /\ queue' = <<>>
    /\ page' = OnError(page)
    /\ quiet' = StallAfter
    /\ UNCHANGED <<market, publishing, listening, requests, switches, seen, missed>>

\* mergeKline: the last candle is replaced or the list moves on by one; it
\* keeps its length, but slice(-0) keeps all.
MergeKline(list, candle) ==
    CASE list = <<>>                             -> <<candle>>
      [] list # <<>> /\ Last(list).openTime = candle.openTime
                                                 -> [list EXCEPT ![Len(list)] = candle]
      [] OTHER                                   -> Tail(Append(list, candle))

\* Whether a candle of moment e belongs to a chart of moment s: it is of the bar that
\* is in progress at s, or of the first one after those that are finished.
Continues(s, e) == s <= e /\ e <= 2 * (s \div 2 + 1)

\* A candle that does not belong leaves the chart wrong: an older one was merged over
\* a newer, or one between was never merged.
Merged(e) ==
    /\ seen' = Max({seen, e})
    /\ missed' = IF Continues(seen, e) THEN missed ELSE Max({missed, seen, e})

\* The event log formats the time and reads the detail of every event: the
\* notice of a backfill has neither.
Unrenderable(event) == event.kind = "pipeline"

Deliver ==
    LET e == Head(queue)
        p == Signal(page, e.kind)
    IN  /\ page.shown /\ stream = "open" /\ queue # <<>> /\ ~Unrenderable(e)
        /\ queue' = Tail(queue)
        /\ quiet' = 0
        /\ \/ e.kind = "ops" /\ page' = p /\ UNCHANGED <<seen, missed>>
           \/ e.kind = "ticker" /\ page' = [p EXCEPT !.price = e.at] /\ UNCHANGED <<seen,
                                                                                    missed>>
           \/ e.kind = "kline" /\ page.interval # "1m" /\ page' = p /\ UNCHANGED <<seen,
                                                                                   missed>>
           \/ /\ e.kind = "kline" /\ page.interval = "1m"
              /\ page' = [p EXCEPT !.data.candles =
                             MergeKline(@, CandleOf("1m", LastBar(e.at), e.at))]
              /\ Merged(e.at)
        /\ UNCHANGED <<market, publishing, listening, stream, requests, switches, faults>>

\* 'pipeline': the event is put in front of the log as it came; what rendering
\* throws puts the error page in the place of the dashboard, whose stream is
\* closed.
DeliverNotice ==
    /\ page.shown /\ stream = "open" /\ queue # <<>> /\ Unrenderable(Head(queue))
    /\ page' = [Loaded(0) EXCEPT !.shown = FALSE]
    /\ stream' = "closed" /\ queue' = <<>>
    /\ requests' = [r \in 1 .. MaxRequests |-> NoRequest]
    /\ UNCHANGED <<market, publishing, listening, switches, faults, quiet, seen, missed>>

DeriveStreamPhase(silence, errored) ==
    CASE errored                                     -> "reconnecting"
      [] ~errored /\ silence = None                  -> "connecting"
      [] ~errored /\ silence # None /\ silence >= StallAfter -> "stalled"
      [] OTHER                                       -> "live"

ShouldPoll(phase) == phase = "stalled"

\* The watchdog's interval.
Tick ==
    LET silence   == IF page.silence = None THEN None ELSE Min({page.silence + 1, StallAfter})
        sincePoll == Min({page.sincePoll + 1, PollEvery})
        phase     == DeriveStreamPhase(silence, page.errored)
        polls     == ShouldPoll(phase) /\ sincePoll >= PollEvery
    IN  /\ page.shown
        /\ page' = [page EXCEPT !.silence = silence, !.connection = phase,
                                !.sincePoll = IF polls THEN 0 ELSE sincePoll]
        /\ IF polls THEN Begin("resync", page.interval) ELSE UNCHANGED requests
        /\ quiet' = Min({quiet + 1, StallAfter + 1})
        /\ UNCHANGED <<market, publishing, listening, stream, queue, switches, faults,
                       seen, missed>>

-------------------------------------------------------------------------------
(***************************************************************************)
(* Fetches                                                                 *)
(***************************************************************************)
\* setInterval; the picker is disabled while a switch loads.
SetInterval(next) ==
    /\ page.shown /\ ~page.loading
    /\ switches < MaxSwitches /\ switches' = switches + 1
    /\ page' = [page EXCEPT !.interval = next, !.loading = TRUE]
    /\ Begin("switch", next)
    /\ UNCHANGED <<market, publishing, listening, stream, queue, faults, quiet, seen,
                   missed>>

ResyncedKeepingPrices(p, payload) == [p EXCEPT !.data = payload]

\* resync drops the tick prices: the page prefers them to those of the payload.
Resynced(p, payload) == [p EXCEPT !.data = payload, !.price = None]

Switched(p, payload) == [p EXCEPT !.data = payload, !.loading = FALSE]

\* An answer; what it read is of any moment since it was sent.  It makes up for what
\* was missed if it shows it, unless it is older than what the page has shown or of
\* another interval than the one chosen since.
Answer(r) ==
    LET req == requests[r]
    IN  /\ r \in Pending
        /\ requests' = [requests EXCEPT ![r] = NoRequest]
        /\ \E m \in req.from .. market :
              /\ \/ req.kind = "resync" /\ page' = Resynced(page, Payload(req.interval, m))
                 \/ req.kind = "switch" /\ page' = Switched(page, Payload(req.interval, m))
              /\ missed' = CASE m < seen \/ req.interval # page.interval -> Max({missed, seen})
                             [] m >= seen /\ req.interval = page.interval
                                          -> IF m >= missed THEN None ELSE missed
              /\ seen' = Max({seen, m})
        /\ UNCHANGED <<market, publishing, listening, stream, queue, switches, faults,
                       quiet>>

\* No answer, or not an ok one: a resync is forgotten; after a switch the
\* interval chosen stays, and so do the candles of the one before.
Fail(r) ==
    /\ r \in Pending /\ Fault
    /\ requests' = [requests EXCEPT ![r] = NoRequest]
    /\ page' = IF requests[r].kind = "switch" THEN [page EXCEPT !.loading = FALSE] ELSE page
    /\ missed' = market
    /\ UNCHANGED <<market, publishing, listening, stream, queue, switches, quiet, seen>>

-------------------------------------------------------------------------------
Next ==
    \/ StoreKline \/ ListenBreaks \/ ListenAgain
    \/ \E m \in publishing : PublishKline(m) \/ FailPublish(m)
    \/ \E kind \in {"ticker", "ops", "pipeline"} : Push(kind)
    \/ OnOpen \/ Stall \/ Break \/ Deliver \/ DeliverNotice \/ Tick
    \/ \E next \in {"1m", "5m"} : SetInterval(next)
    \/ \E r \in 1 .. MaxRequests : Answer(r) \/ Fail(r)

Spec == Init /\ [][Next]_vars

(***************************************************************************)
(* Trades go on and the collector flushes their price every second; an     *)
(* open stream delivers; EventSource connects in the end, and so does the  *)
(* LISTEN connection, whose next try is set by a timer; a fetch ends.      *)
(* New bars, the user and proxies are under no obligation: a stream may    *)
(* be buffered for ever.                                                   *)
(***************************************************************************)
Fairness ==
    /\ SF_vars(Push("ticker")) /\ WF_vars(Deliver \/ DeliverNotice)
    /\ WF_vars(OnOpen) /\ WF_vars(Tick) /\ WF_vars(ListenAgain)
    /\ \A r \in 1 .. MaxRequests : WF_vars(Answer(r))

FairSpec == Spec /\ Fairness
-------------------------------------------------------------------------------
\* The price on the screen: the tick price, or else that of the payload.
ShownPrice == IF page.price = None THEN page.data.last ELSE page.price

\* Whatever the stream does, breaks and comes back, or stays open and silent
\* for ever behind a proxy that buffers: once the price stops moving (it may at
\* any moment), the price on the screen settles on it.
ShownPriceFollows == <>[](page.shown => ShownPrice = market)

\* When the stream is open and nothing is on the way any more, the chart is of the
\* interval chosen, and the 1-minute chart holds the newest candles of the table with
\* nothing missing, repeated, out of order or left unfinished, however events, broken
\* streams, reconnects, polls and switches were interleaved.  Excused is a page that
\* missed something with its stream open or before it first opened: a candle whose
\* publication failed or found the server not listening, one that came out of order,
\* a fetch that failed or was overtaken by a newer one or by another interval.  Nothing
\* in the code notices that, it ends with the next answer in order that shows what was
\* missed (of a fetch begun before the loss, it may not).
SettledChartIsExact ==
    page.shown /\ stream = "open" /\ queue = <<>> /\ publishing = {} /\ Pending = {}
               /\ missed = None =>
        LET chart == page.data.candles
            table == Candles("1m", market)
        IN  /\ page.data.interval = page.interval
            /\ page.interval = "1m" =>
                  /\ market > 0 => chart # <<>>
                  /\ chart = SubSeq(table, Len(table) - Len(chart) + 1, Len(table))

Resyncs == Cardinality({r \in Pending : requests[r].kind = "resync"})

\* The heavy payload is read again only when a lost stream is back, or when an
\* open one has been silent for the whole threshold: no kind of event leaves a
\* healthy stream looking stalled, and nothing polls a server out of reach.
HeavyReadsOnlyWithoutStream ==
    [][Resyncs' > Resyncs => \/ stream = "connecting" /\ stream' # "connecting"
                             \/ stream # "connecting" /\ quiet' >= StallAfter]_vars

\* The badge says live only if something arrived within the threshold and the
\* connection has not been lost since, up to the watchdog's next look.
LiveBadgeIsHonest == page.connection = "live" => quiet <= StallAfter

\* What the collector publishes when a backfill completes is meant to refresh
\* the dashboard at once (backfill-service.ts:200): it stays on the screen.
NoticesAreShown == page.shown
===============================================================================

---------------------------- MODULE CandlePipeline ----------------------------
(***************************************************************************)
(* How the collector keeps one symbol's candles: the boot backfill, the    *)
(* WebSocket stream, the recovery after a reconnect and the integrity      *)
(* scanner, all writing the same klines table without coordination         *)
(* (apps/collector/src: index.ts, backfill-service.ts, ws-collector.ts,    *)
(* integrity-scanner.ts; packages/db: kline-repository.ts).                *)
(*                                                                         *)
(* Time is counted in candles: now is the candle in progress.  A step of   *)
(* the model is the code between two awaits; whatever other callbacks run  *)
(* between them, and a crash, may come in between.  Statements of one      *)
(* process run on several pool connections, so two of them in flight may   *)
(* reach the table in either order.                                        *)
(***************************************************************************)
EXTENDS BackfillPlan, KlineRepository

CONSTANTS
    StartTime,      \* the candle in progress when the model begins
    MaxTime,        \* BOUND: the last candle of the model
    Listed,         \* the candles the exchange has; it has none of the others
    BackfillDays,   \* config.BACKFILL_DAYS
    ReconnectBars,  \* the 60 intervals a reconnect fetches into an empty table
    PageSize,       \* MAX_KLINES_PER_REQUEST
    ChunkSize,      \* UPSERT_CHUNK_SIZE
    ScanWindow,     \* SCAN_WINDOW_HOURS, in candles
    MaxGapsPerScan, \* MAX_GAPS_PER_SCAN
    Reconnects,     \* BOUND: recoveries of the reconnect handler running at once
    MaxInflight,    \* BOUND: handleKline calls running at once
    MaxFaults       \* BOUND: faults (crash, disconnect, silence, failed call)

Bar    == 0 .. MaxTime
Actors == {"boot", "scanner"} \cup Reconnects

ASSUME PipelineAssumption ==
    /\ MaxTime \in Nat /\ StartTime \in Bar
    /\ Listed \subseteq Bar
    /\ BackfillDays \in Nat /\ BackfillDays * MsPerDay <= StartTime
    /\ ReconnectBars \in Nat /\ ReconnectBars <= StartTime
    /\ PageSize \in Nat \ {0} /\ ChunkSize \in Nat \ {0}
    /\ ScanWindow \in Nat /\ MaxGapsPerScan \in Nat
    /\ "boot" \notin Reconnects /\ "scanner" \notin Reconnects
    /\ MaxInflight \in Nat /\ MaxFaults \in Nat

VARIABLES
    now,            \* the candle in progress at the exchange
    bars,           \* the klines table
    lastOpenTime,   \* collector_state.last_open_time
    phase,          \* "down": no process, "boot": before collector.start(), "running"
    bootedAt,       \* now when the process started (history)
    ws,             \* the socket: "closed" (none or connecting), "open", or "silent":
                    \* dead but still OPEN for the collector
    disconnectedAt, \* WsCollector.disconnectedAt
    inflight,       \* handleKline calls: [bar, status, step], step the statement under way
    jobs,           \* per actor, its backfill call
    gaps,           \* scanSymbol: the gaps still to be handed to ensureRange
    faults          \* faults so far

vars == <<now, bars, lastOpenTime, phase, bootedAt, ws, disconnectedAt, inflight,
          jobs, gaps, faults>>

Message == [bar : Bar, status : {"unfinished", "final"}, step : {"upsert", "state"}]

Gap == [startTime : Bar, endTime : Bar, missingCount : Int]

(***************************************************************************)
(* A backfill call.  pc names the await it is in:                          *)
(*   "idle"       no call            "opening"    onOpen, before recovery   *)
(*   "asking"     reading the table  "scanning"   scanSymbol between gaps  *)
(*   "fetching"   fetchKlines        "writing"    upsertKlines             *)
(*   "closing"    all pages done     "reporting"  updateState              *)
(***************************************************************************)
Pc == {"idle", "opening", "asking", "scanning", "fetching", "writing", "closing", "reporting"}

Rows == UNION {[S -> Stored] : S \in SUBSET Bar}

Job == [pc    : Pc,
        from  : Int,                  \* fromMs
        to    : Int,                  \* toMs
        page  : Nat,                  \* index of the page in progress
        sent  : Bar \cup {NoBar},     \* now when the fetch of the page began
        reply : Rows,                 \* rows of the page not yet written
        last  : Bar \cup {NoBar}]     \* the last bar read back before the report

NoRows == [b \in {} |-> "final"]

IdleJob == [pc |-> "idle", from |-> NoBar, to |-> NoBar, page |-> 0, sent |-> NoBar,
            reply |-> NoRows, last |-> NoBar]

Init ==
    /\ now = StartTime
    /\ bars = [b \in Bar |-> "absent"]
    /\ lastOpenTime = NoBar
    /\ phase = "down"
    /\ bootedAt = StartTime
    /\ ws = "closed"
    /\ disconnectedAt = NoBar
    /\ inflight = {}
    /\ jobs = [a \in Actors |-> IdleJob]
    /\ gaps = {}
    /\ faults = 0

Fault == faults < MaxFaults /\ faults' = faults + 1

-------------------------------------------------------------------------------
(***************************************************************************)
(* ensureRange                                                             *)
(***************************************************************************)
Pages(j) == PlanBackfillPages(j.from, j.to, 1, PageSize)

\* The call returns: main() goes on to collector.start() and scanner.start(),
\* scanSymbol to its next gap, the reconnect handler is done.
ReturnJob(a) ==
    /\ phase' = IF a = "boot" THEN "running" ELSE phase
    /\ jobs' = [jobs EXCEPT ![a] = IF a = "scanner" THEN [IdleJob EXCEPT !.pc = "scanning"]
                                                    ELSE IdleJob]

\* ensureRange(from, to): an empty plan returns at once, otherwise the first
\* page is fetched once backfill_started is recorded.
BeginRange(a, from, to) ==
    LET j == [jobs[a] EXCEPT !.pc = "fetching", !.from = from, !.to = to,
                             !.page = 1, !.sent = now]
    IN  IF Pages(j) = <<>>
        THEN ReturnJob(a)
        ELSE jobs' = [jobs EXCEPT ![a] = j] /\ UNCHANGED phase

AfterPageStoppingEarly(j) ==
    IF j.page + 1 < Len(Pages(j))
    THEN [j EXCEPT !.pc = "fetching", !.page = j.page + 1, !.sent = now, !.reply = NoRows]
    ELSE [j EXCEPT !.pc = "closing", !.reply = NoRows]

\* The loop goes on to its next page or leaves.
AfterPage(j) ==
    IF j.page < Len(Pages(j))
    THEN [j EXCEPT !.pc = "fetching", !.page = j.page + 1, !.sent = now, !.reply = NoRows]
    ELSE [j EXCEPT !.pc = "closing", !.reply = NoRows]

RestStatusByAge(b, snapshot, parsedAt) == IF b < parsedAt - 1 THEN "final" ELSE "unfinished"

\* A row of a REST answer the exchange computed during candle snapshot and the
\* collector parsed during parsedAt: isClosed compares closeTime with the
\* collector's clock when the answer is parsed.
RestStatus(b, snapshot, parsedAt) ==
    CASE b < snapshot                  -> "final"
      [] b = snapshot /\ b < parsedAt  -> "mislabelled"
      [] OTHER                         -> "unfinished"

PageRows(j, snapshot) ==
    LET p == Pages(j)[j.page]
    IN  [b \in {c \in Listed : p.startTime <= c /\ c <= p.endTime /\ c <= snapshot}
            |-> RestStatus(b, snapshot, now)]

\* fetchKlines answers; an empty page is skipped.
FetchPage(a) ==
    /\ jobs[a].pc = "fetching"
    /\ \E snapshot \in jobs[a].sent .. now :
          LET rows == PageRows(jobs[a], snapshot)
          IN  jobs' = [jobs EXCEPT ![a] =
                          IF DOMAIN rows = {}
                          THEN AfterPage(jobs[a])
                          ELSE [jobs[a] EXCEPT !.pc = "writing", !.reply = rows]]
    /\ UNCHANGED <<now, bars, lastOpenTime, phase, bootedAt, ws, disconnectedAt, inflight,
                   gaps, faults>>

\* The rows of the next INSERT: the ChunkSize oldest of those left.
FirstChunk(rows) ==
    {b \in DOMAIN rows : Cardinality({c \in DOMAIN rows : c < b}) < ChunkSize}

WriteChunk(a) ==
    /\ jobs[a].pc = "writing"
    /\ LET j     == jobs[a]
           chunk == FirstChunk(j.reply)
           left  == DOMAIN j.reply \ chunk
       IN  /\ bars' = UpsertKlines(bars, [b \in chunk |-> j.reply[b]])
           /\ jobs' = [jobs EXCEPT ![a] =
                          IF left = {} THEN AfterPage(j)
                                       ELSE [j EXCEPT !.reply = [b \in left |-> j.reply[b]]]]
    /\ UNCHANGED <<now, lastOpenTime, phase, bootedAt, ws, disconnectedAt, inflight, gaps, faults>>

\* backfill_completed is recorded and getLastOpenTime answered.
ReadBackLast(a) ==
    /\ jobs[a].pc = "closing"
    /\ \E last \in Bar \cup {NoBar} :
          /\ IsLastOpenTime(bars, last, NoBar)
          /\ jobs' = [jobs EXCEPT ![a].pc = "reporting", ![a].last = last]
    /\ UNCHANGED <<now, bars, lastOpenTime, phase, bootedAt, ws, disconnectedAt, inflight,
                   gaps, faults>>

ReportRequestedEnd(a) ==
    /\ jobs[a].pc = "reporting"
    /\ lastOpenTime' = jobs[a].to
    /\ ReturnJob(a)
    /\ UNCHANGED <<now, bars, bootedAt, ws, disconnectedAt, inflight, gaps, faults>>

\* updateState({lastOpenTimeMs}) coalesces; a failing publish is only logged.
Report(a) ==
    /\ jobs[a].pc = "reporting"
    /\ lastOpenTime' = IF jobs[a].last = NoBar THEN lastOpenTime ELSE jobs[a].last
    /\ ReturnJob(a)
    /\ UNCHANGED <<now, bars, bootedAt, ws, disconnectedAt, inflight, gaps, faults>>

\* A REST request gives up or a statement fails: the rest of the call is
\* abandoned.  main() starts the collector all the same, scanSymbol loses the
\* gaps it had left, onOpen loses the recovery.
Throw(a) ==
    /\ jobs[a].pc # "idle"
    /\ Fault
    /\ phase' = IF a = "boot" THEN "running" ELSE phase
    /\ jobs' = [jobs EXCEPT ![a] = IdleJob]
    /\ gaps' = IF a = "scanner" THEN {} ELSE gaps
    /\ UNCHANGED <<now, bars, lastOpenTime, bootedAt, ws, disconnectedAt, inflight>>

-------------------------------------------------------------------------------
(***************************************************************************)
(* The process                                                             *)
(***************************************************************************)
\* main() reaches backfillFromLastKnown, whose now is Date.now() at the call.
Start ==
    /\ phase = "down"
    /\ phase' = "boot"
    /\ bootedAt' = now
    /\ jobs' = [jobs EXCEPT !["boot"] = [IdleJob EXCEPT !.pc = "asking", !.to = now]]
    /\ UNCHANGED <<now, bars, lastOpenTime, ws, disconnectedAt, inflight, gaps, faults>>

\* getLastOpenTime answered in backfillFromLastKnown.
PlanBoot ==
    /\ jobs["boot"].pc = "asking"
    /\ \E last \in Bar \cup {NoBar} :
          /\ IsLastOpenTime(bars, last, NoBar)
          /\ BeginRange("boot",
                        ResolveBackfillStart(last, jobs["boot"].to, BackfillDays, 1),
                        jobs["boot"].to)
    /\ UNCHANGED <<now, bars, lastOpenTime, bootedAt, ws, disconnectedAt, inflight, gaps, faults>>

CrashKeepingCalls ==
    /\ phase # "down"
    /\ Fault
    /\ phase' = "down"
    /\ ws' = "closed"
    /\ disconnectedAt' = NoBar
    /\ jobs' = [a \in Actors |-> IdleJob]
    /\ gaps' = {}
    /\ UNCHANGED <<now, bars, lastOpenTime, bootedAt, inflight>>

\* SIGKILL, process.exit or the end of a shutdown: everything in memory and
\* every statement not yet executed is gone.
Crash ==
    /\ phase # "down"
    /\ Fault
    /\ phase' = "down"
    /\ ws' = "closed"
    /\ disconnectedAt' = NoBar
    /\ inflight' = {}
    /\ jobs' = [a \in Actors |-> IdleJob]
    /\ gaps' = {}
    /\ UNCHANGED <<now, bars, lastOpenTime, bootedAt>>

-------------------------------------------------------------------------------
(***************************************************************************)
(* The WebSocket                                                           *)
(***************************************************************************)
\* 'open': onOpen up to its first await; it is a reconnect when a close was
\* seen since the last recovery began.
WsOpen ==
    /\ phase = "running" /\ ws = "closed"
    /\ ws' = "open"
    /\ IF disconnectedAt = NoBar
       THEN UNCHANGED jobs
       ELSE \E r \in Reconnects :
               /\ jobs[r].pc = "idle"
               /\ jobs' = [jobs EXCEPT ![r] = [IdleJob EXCEPT !.pc = "opening"]]
    /\ UNCHANGED <<now, bars, lastOpenTime, phase, bootedAt, disconnectedAt, inflight, gaps, faults>>

\* onOpen after its awaits: recoverGapAfterReconnect calls
\* backfillFromLastKnownForReconnect, whose now is Date.now() at the call.
BeginRecovery(r) ==
    /\ jobs[r].pc = "opening"
    /\ disconnectedAt' = NoBar
    /\ jobs' = [jobs EXCEPT ![r].pc = "asking", ![r].to = now]
    /\ UNCHANGED <<now, bars, lastOpenTime, phase, bootedAt, ws, inflight, gaps, faults>>

\* getLastOpenTime answered in backfillFromLastKnownForReconnect.
PlanRecovery(r) ==
    /\ jobs[r].pc = "asking"
    /\ \E last \in Bar \cup {NoBar} :
          /\ IsLastOpenTime(bars, last, NoBar)
          /\ BeginRange(r, IF last = NoBar THEN jobs[r].to - ReconnectBars ELSE last, jobs[r].to)
    /\ UNCHANGED <<now, bars, lastOpenTime, bootedAt, ws, disconnectedAt, inflight, gaps, faults>>

\* 'close', of an open socket or of one that never opened.
WsClose ==
    /\ phase = "running" /\ ws # "silent"
    /\ Fault
    /\ ws' = "closed"
    /\ disconnectedAt' = IF disconnectedAt = NoBar THEN now ELSE disconnectedAt
    /\ UNCHANGED <<now, bars, lastOpenTime, phase, bootedAt, inflight, jobs, gaps>>

\* The peer is gone and no one tells the collector.
GoSilent ==
    /\ ws = "open"
    /\ Fault
    /\ ws' = "silent"
    /\ UNCHANGED <<now, bars, lastOpenTime, phase, bootedAt, disconnectedAt, inflight, jobs, gaps>>

\* The watchdog terminates a socket that has been silent too long; 'close' follows.
Watchdog ==
    /\ ws = "silent"
    /\ ws' = "closed"
    /\ disconnectedAt' = IF disconnectedAt = NoBar THEN now ELSE disconnectedAt
    /\ UNCHANGED <<now, bars, lastOpenTime, phase, bootedAt, inflight, jobs, gaps, faults>>

Received(b, status) == inflight \cup {[bar |-> b, status |-> status, step |-> "upsert"]}

\* An update of the candle in progress arrives.
ReceiveUpdate ==
    /\ ws = "open" /\ now \in Listed
    /\ Cardinality(inflight) < MaxInflight
    /\ inflight' = Received(now, "unfinished")
    /\ UNCHANGED <<now, bars, lastOpenTime, phase, bootedAt, ws, disconnectedAt, jobs, gaps, faults>>

\* The candle in progress closes: an open socket receives it with x = true.
Tick ==
    /\ now < MaxTime
    /\ now' = now + 1
    /\ IF ws = "open" /\ now \in Listed
       THEN Cardinality(inflight) < MaxInflight /\ inflight' = Received(now, "final")
       ELSE UNCHANGED inflight
    /\ UNCHANGED <<bars, lastOpenTime, phase, bootedAt, ws, disconnectedAt, jobs, gaps, faults>>

\* handleKline: the upsert executes; a closed candle goes on to updateState.
UpsertMessage(m) ==
    /\ m \in inflight /\ m.step = "upsert"
    /\ bars' = UpsertKlines(bars, [b \in {m.bar} |-> m.status])
    /\ inflight' = (inflight \ {m}) \cup
                   (IF m.status = "final" THEN {[m EXCEPT !.step = "state"]} ELSE {})
    /\ UNCHANGED <<now, lastOpenTime, phase, bootedAt, ws, disconnectedAt, jobs, gaps, faults>>

\* handleKline: updateState({lastOpenTimeMs: kline.openTime}) executes.
MarkClosed(m) ==
    /\ m \in inflight /\ m.step = "state"
    /\ lastOpenTime' = m.bar
    /\ inflight' = inflight \ {m}
    /\ UNCHANGED <<now, bars, phase, bootedAt, ws, disconnectedAt, jobs, gaps, faults>>

\* handleKline: a statement fails; the error is logged and the candle dropped.
DropMessage(m) ==
    /\ m \in inflight
    /\ Fault
    /\ inflight' = inflight \ {m}
    /\ UNCHANGED <<now, bars, lastOpenTime, phase, bootedAt, ws, disconnectedAt, jobs, gaps>>

-------------------------------------------------------------------------------
(***************************************************************************)
(* The integrity scanner                                                   *)
(***************************************************************************)
\* scanSymbol leaves out the candle in progress.
ScanEnd(t) == t - 1

\* The timer fires; a scan still running makes it a no-op.
BeginScan ==
    /\ phase = "running" /\ jobs["scanner"].pc = "idle"
    /\ jobs' = [jobs EXCEPT !["scanner"] = [IdleJob EXCEPT !.pc = "asking", !.to = ScanEnd(now)]]
    /\ UNCHANGED <<now, bars, lastOpenTime, phase, bootedAt, ws, disconnectedAt, inflight,
                   gaps, faults>>

FirstGaps(found) ==
    {g \in found : Cardinality({h \in found : h.startTime < g.startTime}) < MaxGapsPerScan}

\* getOpenTimes answered: the first MaxGapsPerScan gaps are to be filled.
DetectGaps ==
    /\ jobs["scanner"].pc = "asking"
    /\ LET to    == jobs["scanner"].to
           found == FirstGaps(FindGaps(GetOpenTimes(bars, to - ScanWindow, to), 1))
       IN  /\ gaps' = found
           /\ jobs' = [jobs EXCEPT !["scanner"] =
                          IF found = {} THEN IdleJob ELSE [IdleJob EXCEPT !.pc = "scanning"]]
    /\ UNCHANGED <<now, bars, lastOpenTime, phase, bootedAt, ws, disconnectedAt, inflight, faults>>

\* The for loop over the gaps, oldest first.
NextGap ==
    /\ jobs["scanner"].pc = "scanning"
    /\ IF gaps = {}
       THEN jobs' = [jobs EXCEPT !["scanner"] = IdleJob] /\ UNCHANGED <<phase, gaps>>
       ELSE \E g \in gaps :
               /\ \A h \in gaps : g.startTime <= h.startTime
               /\ gaps' = gaps \ {g}
               /\ BeginRange("scanner", g.startTime, g.endTime)
    /\ UNCHANGED <<now, bars, lastOpenTime, bootedAt, ws, disconnectedAt, inflight, faults>>

-------------------------------------------------------------------------------
Backfill(a) == FetchPage(a) \/ WriteChunk(a) \/ ReadBackLast(a) \/ Report(a)

Boot        == Start \/ PlanBoot \/ Backfill("boot")
Connection  == WsOpen \/ Watchdog
Recovery(r) == BeginRecovery(r) \/ PlanRecovery(r) \/ Backfill(r)
Scanner     == BeginScan \/ DetectGaps \/ NextGap \/ Backfill("scanner")

HandleKline(b) == \E m \in inflight : m.bar = b /\ (UpsertMessage(m) \/ MarkClosed(m))

Next ==
    \/ Boot \/ Connection \/ Scanner \/ Tick
    \/ Crash \/ WsClose \/ GoSilent \/ ReceiveUpdate
    \/ \E r \in Reconnects : Recovery(r)
    \/ \E a \in Actors : Throw(a)
    \/ \E b \in Bar : HandleKline(b)
    \/ \E m \in inflight : DropMessage(m)

Spec == Init /\ [][Next]_vars

(***************************************************************************)
(* Each of the two is one sequential activity, so weak fairness of the     *)
(* whole is weak fairness of its step at hand: Docker restarts the process *)
(* (restart: unless-stopped), the timer of the scanner fires, every await  *)
(* that does not throw is answered.  Faults, the socket, its recoveries,   *)
(* messages and time itself are under no obligation.                       *)
(***************************************************************************)
Fairness == WF_vars(Boot) /\ WF_vars(Scanner)

FairSpec == Spec /\ Fairness
-------------------------------------------------------------------------------
(***************************************************************************)
(* Properties                                                              *)
(***************************************************************************)
TypeOK ==
    /\ now \in Bar
    /\ bars \in [Bar -> Cell]
    /\ lastOpenTime \in Bar \cup {NoBar}
    /\ phase \in {"down", "boot", "running"}
    /\ bootedAt \in Bar
    /\ ws \in {"closed", "open", "silent"}
    /\ disconnectedAt \in Bar \cup {NoBar}
    /\ inflight \subseteq Message
    /\ jobs \in [Actors -> Job]
    /\ gaps \subseteq Gap
    /\ faults \in 0 .. MaxFaults

\* ensureRange keeps what its comment promises: when its page loop is over,
\* every candle the exchange has in [fromMs, toMs] is in the table, whatever
\* the stream, the other backfills and the clock did meanwhile.
EnsureRangeStores ==
    \A a \in Actors : jobs[a].pc \in {"closing", "reporting"} =>
        \A b \in Listed : jobs[a].from <= b /\ b <= jobs[a].to => bars[b] # "absent"

\* A boot backfill that gets through leaves no stale candle behind: from the
\* last candle of the previous run (which may have died unfinished) up to the
\* one in progress at boot, all are stored finished, however long it took and
\* wherever earlier runs were killed.
BootFinishesHistory ==
    jobs["boot"].pc \in {"closing", "reporting"} =>
        \A b \in Listed : jobs["boot"].from <= b /\ b < jobs["boot"].to => bars[b] = "final"

\* collector_state never points at a candle that is not in the table: every
\* path writes the candle before it reports it.
LastOpenTimeIsStored == lastOpenTime # NoBar => bars[lastOpenTime] # "absent"

\* A finished candle from before the process started is never spoiled, by any
\* of the writers and in any order of their statements.
HistoryIsStable ==
    [][\A b \in Bar : b < bootedAt /\ bars[b] = "final" => bars'[b] = "final"]_vars

\* What the readers of the table rely on (CandleArchive): it only gains
\* candles, never one the exchange does not have yet, and what is written of
\* the time before the last start is finished.
Archive == INSTANCE CandleArchive WITH time <- now, cells <- bars, epoch <- bootedAt
ArchiveSpec == Archive!Spec

\* A listed candle missing between two stored ones of the scanned window.
InteriorHole(b) ==
    /\ b \in Listed /\ bars[b] = "absent"
    /\ \E p, c \in StoredBars(bars) :
          ScanEnd(now) - ScanWindow <= p /\ p < b /\ b < c /\ c <= ScanEnd(now)

\* The self-healing promise: again and again there comes a moment when nothing is
\* missing between two stored candles of the scanned window, whatever put the holes
\* there and however many more there are than one scan may fill.
InteriorHolesAreFilled == []<>(\A b \in Bar : ~InteriorHole(b))
===============================================================================

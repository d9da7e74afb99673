--------------------------- MODULE CollectorProcess ---------------------------
(***************************************************************************)
(* The life of the collector process (apps/collector/src/index.ts and      *)
(* packages/db/src/migrate.ts, client.ts), and what it keeps in memory     *)
(* between two flushes: the last price and the last sign of life of each   *)
(* symbol (ws-collector.ts), written to collector_state by flushState; the *)
(* open handler writes the sign of life as well.                           *)
(*                                                                         *)
(* Neither flushState nor onOpen is awaited by its caller, so calls of     *)
(* them overlap, and statements of two calls execute in either order.  The *)
(* backfill is one step (CandlePipeline has its parts); when connections   *)
(* are lost and opened is in WsCollector, here it is open at any time.     *)
(* Time counts the messages received and the connections opened.           *)
(***************************************************************************)
EXTENDS Naturals, Sequences, SequencesExt, FiniteSets, FiniteSetsExt

CONSTANTS
    NumSymbols,     \* symbols are 1 .. NumSymbols, in the order of config.SYMBOLS
    MaxAttempts,    \* MAX_ATTEMPTS of the migrations
    MaxTime,        \* BOUND: messages received and connections opened
    MaxBars,        \* BOUND: bars closed
    MaxFlushes,     \* BOUND: calls of flushState by the timer under way
    MaxOpens,       \* BOUND: calls of onOpen under way
    MaxFaults       \* BOUND: failed statements, uncaught exceptions

ASSUME ProcessAssumption ==
    {NumSymbols, MaxAttempts, MaxTime, MaxBars, MaxFlushes, MaxOpens, MaxFaults}
        \subseteq Nat \ {0}

VARIABLES
    main,       \* what main() awaits, and for which symbol or attempt
    process,    \* "up", or how it ended: "killed", "exit0", "exit1"
    shutdown,   \* what cleanup() awaits: "none", "flush", "bus", "pool"
    pool,       \* of the database: "open", "ending"
    on,         \* the collector's socket and timers exist
    latest,     \* latestPrice and lastMessageAtBySymbol
    dirty,      \* dirtySymbols, in the order of insertion
    flushes,    \* calls of flushState; that of stop() is number 0
    opens,      \* calls of onOpen
    rows,       \* collector_state
    clock, faults,
    lost,       \* history: the newest of what a statement failed to write, or overwrote
                \* with something older
    owed,       \* history: the prices stop() found received
    taken,      \* history: the symbols a flush of the timer had yet to write then
    refused     \* history: the symbols whose statement the ending pool refused

vars == <<main, process, shutdown, pool, on, latest, dirty, flushes, opens, rows, clock, faults,
          lost, owed, taken, refused>>

Symbols == 1 .. NumSymbols

None == 0       \* null

\* What a flush writes: the price, None as long as no trade was seen, and when
\* a message of the symbol was last received.
Columns == {"lastPrice", "lastMessageAt"}

NoCall == [at |-> "idle", symbol |-> None, patch |-> [c \in Columns |-> None], rest |-> <<>>]

NoOpen == [at |-> "idle", symbol |-> None, stamp |-> None]

Init ==
    /\ main = [at |-> "migrate", n |-> 1]
    /\ process = "up" /\ shutdown = "none" /\ pool = "open" /\ on = FALSE
    /\ latest = [s \in Symbols |-> [c \in Columns |-> None]]
    /\ dirty = <<>>
    /\ flushes = [f \in 0 .. MaxFlushes |-> NoCall]
    /\ opens = [i \in 1 .. MaxOpens |-> NoOpen]
    /\ rows = [s \in Symbols |-> [c \in Columns \cup {"lastOpenTime"} |-> None]]
    /\ clock = 0 /\ faults = 0
    /\ lost = [s \in Symbols |-> [c \in Columns |-> None]]
    /\ owed = [s \in Symbols |-> None]
    /\ taken = {} /\ refused = {}

Fault == faults < MaxFaults /\ faults' = faults + 1

memory == <<latest, dirty, flushes, opens, clock>>
history == <<lost, owed, taken, refused>>

-------------------------------------------------------------------------------
(***************************************************************************)
(* main                                                                    *)
(***************************************************************************)
Exit(how) == process' = how /\ UNCHANGED <<main, shutdown, pool, on, memory, rows, history>>

\* One attempt of the migrations.
Migrate ==
    /\ process = "up" /\ main.at = "migrate"
    /\ \/ /\ main' = [at |-> "backfill", n |-> 1]
          /\ UNCHANGED <<process, shutdown, pool, on, memory, rows, faults, history>>
       \/ /\ main.n < MaxAttempts
          /\ main' = [main EXCEPT !.n = @ + 1]
          /\ UNCHANGED <<process, shutdown, pool, on, memory, rows, faults, history>>
       \/ main.n = MaxAttempts /\ Exit("exit1") /\ UNCHANGED faults

\* After a symbol the next one; after the last one the collector and the
\* scanner are started, also when stop() has already been called.
NextSymbol ==
    IF main.n < NumSymbols THEN main' = [at |-> "backfill", n |-> main.n + 1] /\ UNCHANGED on
    ELSE main' = [at |-> "done", n |-> None] /\ on' = TRUE

BackfillStores ==
    /\ process = "up" /\ main.at = "backfill" /\ pool = "open"
    /\ main' = [main EXCEPT !.at = "publish"]
    /\ UNCHANGED <<process, shutdown, pool, on, memory, rows, faults, history>>

\* publish succeeds or fails, and neither matters.
BackfillPublishes ==
    /\ process = "up" /\ main.at = "publish"
    /\ NextSymbol
    /\ UNCHANGED <<process, shutdown, pool, memory, rows, faults, history>>

BackfillThrows ==
    /\ process = "up" /\ main.at = "backfill"
    /\ IF pool = "open" THEN Fault ELSE UNCHANGED faults
    /\ main' = [main EXCEPT !.at = "recordEvent"]
    /\ UNCHANGED <<process, shutdown, pool, on, memory, rows, history>>

\* recordEvent in the catch; when it throws, main is rejected.
RecordEvent ==
    /\ process = "up" /\ main.at = "recordEvent"
    /\ \/ /\ pool = "open" /\ NextSymbol
          /\ UNCHANGED <<process, shutdown, pool, memory, rows, faults, history>>
       \/ /\ IF pool = "open" THEN Fault ELSE UNCHANGED faults
          /\ Exit("exit1")

UncaughtException ==
    /\ process = "up" /\ main.at # "migrate" /\ Fault
    /\ Exit("exit1")

-------------------------------------------------------------------------------
(***************************************************************************)
(* Messages and flushes                                                    *)
(***************************************************************************)
MarkSeen(s) == dirty' = IF Contains(dirty, s) THEN dirty ELSE Append(dirty, s)

OnMessage(s, kind) ==
    /\ process = "up" /\ on
    /\ clock < MaxTime /\ clock' = clock + 1
    /\ latest' = [latest EXCEPT ![s] =
                    [c \in Columns |-> IF c = "lastPrice" /\ kind # "trade" THEN @[c] ELSE clock + 1]]
    /\ MarkSeen(s)
    /\ UNCHANGED <<main, process, shutdown, pool, on, flushes, opens, rows, faults, history>>

\* The symbol of the loop in hand: what is written is read now.  A pool that
\* is ending refuses the statement.
Turn(symbols) ==
    IF symbols = <<>> THEN NoCall
    ELSE [at     |-> IF pool = "open" THEN "statement" ELSE "refused",
          symbol |-> Head(symbols),
          patch  |-> latest[Head(symbols)],
          rest   |-> Tail(symbols)]

\* flushState up to its first await.
FlushState(f) ==
    /\ flushes' = [flushes EXCEPT ![f] = Turn(dirty)]
    /\ dirty' = <<>>

FlusherFires(f) ==
    /\ process = "up" /\ on /\ flushes[f] = NoCall /\ dirty # <<>>
    /\ \A g \in 1 .. f - 1 : flushes[g] # NoCall     \* calls are numbered from 1
    /\ FlushState(f)
    /\ UNCHANGED <<main, process, shutdown, pool, on, latest, opens, rows, clock, faults, history>>

UpdateOverwriting(row, patch) ==
    [field \in DOMAIN row |-> IF field \in DOMAIN patch THEN patch[field] ELSE None]

\* updateState: coalesce(excluded.field, the old value).
UpdateState(row, patch) ==
    [field \in DOMAIN row |->
        IF field \in DOMAIN patch /\ patch[field] # None THEN patch[field] ELSE row[field]]

\* A statement of updateState executes; what it sets back counts as lost.
Write(s, patch) ==
    /\ rows' = [rows EXCEPT ![s] = UpdateState(@, patch)]
    /\ lost' = [lost EXCEPT ![s] =
                    [c \in Columns |-> IF /\ c \in DOMAIN patch /\ patch[c] # None
                                          /\ patch[c] < rows[s][c]
                                       THEN Max({@[c], rows[s][c]}) ELSE @[c]]]

NextTurnRequeueing(f) == flushes' = [flushes EXCEPT ![f] = Turn(Append(@.rest, @.symbol))]

NextTurn(f) == flushes' = [flushes EXCEPT ![f] = Turn(@.rest)]

ExecuteFlush(f) ==
    LET call == flushes[f]
    IN  /\ process = "up" /\ call.at = "statement"
        /\ Write(call.symbol, call.patch)
        /\ IF call.patch["lastPrice"] = None THEN NextTurn(f)
           ELSE flushes' = [flushes EXCEPT ![f].at = "publish"]
        /\ UNCHANGED <<main, process, shutdown, pool, on, latest, dirty, opens, clock, faults,
                       owed, taken, refused>>

\* The statement is rejected: on with the next symbol.
FailFlush(f) ==
    LET call == flushes[f]
    IN  /\ process = "up"
        /\ \/ /\ call.at = "statement" /\ Fault
              /\ lost' = [lost EXCEPT ![call.symbol] =
                                [c \in Columns |-> Max({@[c], call.patch[c]})]]
              /\ UNCHANGED refused
           \/ /\ call.at = "refused"
              /\ refused' = refused \cup {call.symbol}
              /\ UNCHANGED <<faults, lost>>
        /\ NextTurn(f)
        /\ UNCHANGED <<main, process, shutdown, pool, on, latest, dirty, opens, rows, clock,
                       owed, taken>>

PublishTicker(f) ==
    /\ process = "up" /\ flushes[f].at = "publish"
    /\ NextTurn(f)
    /\ UNCHANGED <<main, process, shutdown, pool, on, latest, dirty, opens, rows, clock, faults,
                   history>>

\* handleKline, updateState of a bar that has closed.
MarkClosed(s) ==
    /\ process = "up" /\ on /\ pool = "open"
    /\ rows[s]["lastOpenTime"] < MaxBars
    /\ Write(s, [lastOpenTime |-> rows[s]["lastOpenTime"] + 1])
    /\ UNCHANGED <<main, process, shutdown, pool, on, memory, faults, owed, taken, refused>>

-------------------------------------------------------------------------------
(***************************************************************************)
(* The open handler                                                        *)
(***************************************************************************)
\* onOpen awaits recordEvent (symbol None), then updateState symbol by symbol.
\* A refused statement rejects the call, which is only logged.
OpenTurn(symbol, stamp) ==
    IF pool = "open" /\ symbol <= NumSymbols
    THEN [at |-> "statement", symbol |-> symbol, stamp |-> stamp]
    ELSE NoOpen

\* `now` is taken before the first await and written after it.
OnOpen(i) ==
    /\ process = "up" /\ on /\ opens[i] = NoOpen
    /\ clock < MaxTime /\ clock' = clock + 1
    /\ opens' = [opens EXCEPT ![i] = OpenTurn(None, clock + 1)]
    /\ UNCHANGED <<main, process, shutdown, pool, on, latest, dirty, flushes, rows, faults, history>>

\* stop() does not interrupt the call.
ExecuteOpen(i) ==
    LET call == opens[i]
    IN  /\ process = "up" /\ call.at = "statement"
        /\ IF call.symbol = None THEN UNCHANGED <<rows, lost>>
           ELSE Write(call.symbol, [lastMessageAt |-> call.stamp])
        /\ opens' = [opens EXCEPT ![i] = OpenTurn(call.symbol + 1, call.stamp)]
        /\ UNCHANGED <<main, process, shutdown, pool, on, latest, dirty, flushes, clock, faults,
                       owed, taken, refused>>

FailOpen(i) ==
    /\ process = "up" /\ opens[i].at = "statement" /\ Fault
    /\ opens' = [opens EXCEPT ![i] = NoOpen]
    /\ UNCHANGED <<main, process, shutdown, pool, on, latest, dirty, flushes, rows, clock, history>>

-------------------------------------------------------------------------------
(***************************************************************************)
(* Shutdown                                                                *)
(***************************************************************************)
\* Symbols a flush of the timer has taken and not yet read.
Waiting(s) == \E f \in 1 .. MaxFlushes : Contains(flushes[f].rest, s)

AwaitedNothing == shutdown' = "bus"

AwaitedFirst == shutdown' = "flush"

\* A signal: before the handlers are registered it kills; then the first one
\* begins cleanup(), up to the first await of the collector's stop().
Signal ==
    /\ process = "up" /\ shutdown = "none"
    /\ \/ main.at = "migrate" /\ Exit("killed") /\ UNCHANGED faults
       \/ /\ main.at # "migrate"
          /\ AwaitedFirst
          /\ on' = FALSE
          /\ FlushState(0)
          /\ owed' = [s \in Symbols |-> latest[s]["lastPrice"]]
          /\ taken' = {s \in Symbols : Waiting(s)}
          /\ UNCHANGED <<main, process, pool, latest, opens, rows, clock, faults, lost, refused>>

\* stop() returns, and bus.close() is awaited.
Stopped ==
    /\ process = "up" /\ shutdown = "flush" /\ flushes[0] = NoCall
    /\ shutdown' = "bus"
    /\ UNCHANGED <<main, process, pool, on, memory, rows, faults, history>>

\* bus.close() returns, and pool.end() is awaited: no new statement from now on.
BusClosed ==
    /\ process = "up" /\ shutdown = "bus"
    /\ shutdown' = "pool" /\ pool' = "ending"
    /\ UNCHANGED <<main, process, on, memory, rows, faults, history>>

\* pool.end() waits for the statements under way.
PoolEnded ==
    /\ process = "up" /\ shutdown = "pool"
    /\ \A f \in 0 .. MaxFlushes : flushes[f].at # "statement"
    /\ \A i \in 1 .. MaxOpens : opens[i].at # "statement"
    /\ Exit("exit0") /\ UNCHANGED faults

\* Eight seconds after the signal.
Timeout ==
    process = "up" /\ shutdown # "none" /\ Exit("exit1") /\ UNCHANGED faults

-------------------------------------------------------------------------------
FlushStep(f) == ExecuteFlush(f) \/ FailFlush(f) \/ PublishTicker(f)

Next ==
    \/ Migrate \/ BackfillStores \/ BackfillPublishes \/ BackfillThrows \/ RecordEvent
    \/ UncaughtException
    \/ \E s \in Symbols : OnMessage(s, "trade") \/ OnMessage(s, "kline") \/ MarkClosed(s)
    \/ \E f \in 1 .. MaxFlushes : FlusherFires(f)
    \/ \E f \in 0 .. MaxFlushes : FlushStep(f)
    \/ \E i \in 1 .. MaxOpens : OnOpen(i) \/ ExecuteOpen(i) \/ FailOpen(i)
    \/ Signal \/ Stopped \/ BusClosed \/ PoolEnded \/ Timeout

Spec == Init /\ [][Next]_vars

(***************************************************************************)
(* Statements and publishes come back, one way or the other, and what      *)
(* awaits them goes on.  No fairness of Timeout: it is the remedy for a    *)
(* database that does not answer.                                          *)
(***************************************************************************)
Fairness ==
    /\ \A f \in 0 .. MaxFlushes : WF_vars(FlushStep(f))
    /\ \A i \in 1 .. MaxOpens : WF_vars(ExecuteOpen(i) \/ FailOpen(i))
    /\ WF_vars(Stopped) /\ WF_vars(BusClosed) /\ WF_vars(PoolEnded)

FairSpec == Spec /\ Fairness
-------------------------------------------------------------------------------
InHand(s) ==
    \/ Contains(dirty, s)
    \/ \E f \in 0 .. MaxFlushes : flushes[f].symbol = s \/ Contains(flushes[f].rest, s)

\* What was received is stored in the end: a symbol that no flush has to do
\* with any more has its last price in its row, and a sign of life no older than
\* its last message, although messages arrive while a flush awaits, flushes
\* overlap, and onOpen and handleKline write to the same row.  Except what was
\* in a statement that failed, or that one with an older value overtook: that
\* waits for the next message.  (A late statement of onOpen overtakes the sign
\* of life, never the price.)
ReceivedIsStored ==
    process = "up" /\ pool = "open" =>
        \A s \in Symbols : ~InHand(s) =>
            /\ \/ rows[s]["lastPrice"] = latest[s]["lastPrice"]
               \/ lost[s]["lastPrice"] >= latest[s]["lastPrice"]
            /\ \/ rows[s]["lastMessageAt"] >= latest[s]["lastMessageAt"]
               \/ lost[s]["lastMessageAt"] >= latest[s]["lastMessageAt"]

\* A process that ends in order has stored every price it had received when it
\* was told to stop, whatever flushes and handlers were under way, unless a
\* statement failed or was overtaken; or unless a flush of the timer had taken
\* the symbol before stop() could, and came to it only when the pool was ending.
OrderlyExitKeepsPrices ==
    process = "exit0" =>
        \A s \in Symbols :
            \/ rows[s]["lastPrice"] >= owed[s]
            \/ lost[s]["lastPrice"] >= owed[s]
            \/ s \in taken /\ (s \in refused \/ Waiting(s) \/ \E f \in 1 .. MaxFlushes :
                                    flushes[f].at = "refused" /\ flushes[f].symbol = s)

\* An orderly shutdown ends by itself as long as the database answers, without
\* the eight-second timer, whatever it interrupts: a flush, an open handler, or
\* the boot backfill, which starts the collector again behind stop().
ShutdownEnds == shutdown # "none" ~> process # "up"
===============================================================================

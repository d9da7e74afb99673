----------------------------- MODULE WsCollector ------------------------------
(***************************************************************************)
(* The life of the collector's WebSocket (apps/collector/src/              *)
(* ws-collector.ts): connecting, the watchdog, the reconnect timer, the    *)
(* asynchronous open handler and stop().  What the received candles become *)
(* is in CandlePipeline; here a message only proves the socket alive.      *)
(*                                                                         *)
(* Time advances in ticks of the watchdog's period (1 s); delays and       *)
(* silences are counted in ticks still to wait or already passed, so time  *)
(* has no bound.  collector_state is reduced to ws_connected_since of one  *)
(* symbol.                                                                 *)
(***************************************************************************)
EXTENDS BackfillPlan, FiniteSets

CONSTANTS
    StaleThreshold, \* STALE_THRESHOLD_MS, in ticks
    ReconnectBase,  \* RECONNECT_BASE_MS, in ticks
    ReconnectMax,   \* RECONNECT_MAX_MS, in ticks
    MaxAttempt,     \* BOUND: attempts from here on are counted as one
    MaxOpens,       \* BOUND: open handlers running at once
    MaxStatements,  \* BOUND: statements of scheduleReconnect not yet executed
    MaxFaults       \* BOUND: failed statements and hung handshakes

ASSUME WsCollectorAssumption ==
    /\ StaleThreshold \in Nat \ {0}
    /\ ReconnectBase \in Nat \ {0} /\ ReconnectMax \in Nat
    /\ ReconnectBase <= ReconnectMax     \* loadConfig refuses the contrary
    /\ MaxAttempt \in Nat \ {0} /\ MaxOpens \in Nat \ {0}
    /\ MaxStatements \in Nat \ {0} /\ MaxFaults \in Nat

VARIABLES
    calls,          \* main's calls still to come: "start", "stop"
    phase,          \* "created", "running" after start(), "stopped" after stop()
    socket,         \* the state of this.socket
    orphans,        \* sockets still alive that this.socket no longer refers to
    timer,          \* reconnectTimer: ticks left, or NoTimer
    reconnectAttempt,
    silence,        \* Date.now() - lastMessageAt, up to the threshold
    disconnected,   \* disconnectedAt is not null
    opens,          \* the calls of onOpen: where each is, and its wasReconnect
    clears,         \* scheduleReconnect's updateState statements still to execute
    connectedRow,   \* ws_connected_since is not null
    faults,
    quiet,          \* history: ticks this socket has been open and unheard, up to the
                    \* threshold; NeverOpen before that
    wasUp,          \* history: some socket has been open before
    owed,           \* history: this socket ended a downtime, no recovery began since
    overtaken       \* history: a close came while an onOpen awaited its statements

vars == <<calls, phase, socket, orphans, timer, reconnectAttempt, silence, disconnected, opens,
          clears, connectedRow, faults, quiet, wasUp, owed, overtaken>>

NoTimer   == -1
NeverOpen == -1

\* CONNECTING: "connecting", or "hung" when the handshake will never be
\* answered; OPEN: "open", or "silent" when the peer is gone unnoticed;
\* CLOSING: "closing"; CLOSED: "closed".
SocketState == {"none", "connecting", "hung", "open", "silent", "closing", "closed"}

Alive == SocketState \ {"none", "closed"}

\* "event", "state": awaiting recordEvent, updateState; "written": the
\* statement of updateState executed; "recovering": the backfill runs.
OpenCall == [pc : {"idle", "event", "state", "written", "recovering"}, reconnect : BOOLEAN]

NoCall == [pc |-> "idle", reconnect |-> FALSE]

Init ==
    /\ calls = {"start", "stop"}
    /\ phase = "created" /\ socket = "none" /\ orphans = 0
    /\ timer = NoTimer /\ reconnectAttempt = 0
    /\ silence = StaleThreshold         \* lastMessageAt = 0
    /\ disconnected = FALSE
    /\ opens = [i \in 1 .. MaxOpens |-> NoCall]
    /\ clears = 0
    /\ connectedRow \in BOOLEAN         \* what an earlier process left
    /\ faults = 0
    /\ quiet = NeverOpen /\ wasUp = FALSE /\ owed = FALSE /\ overtaken = FALSE

Fault == faults < MaxFaults /\ faults' = faults + 1

-------------------------------------------------------------------------------
\* start() looks at nothing: it also starts a collector that stop() has stopped
\* already, which a signal during the boot's backfill brings about.
Start ==
    /\ "start" \in calls
    /\ calls' = calls \ {"start"}
    /\ phase' = "running"
    /\ socket' = "connecting"
    /\ UNCHANGED <<orphans, timer, reconnectAttempt, silence, disconnected, opens, clears,
                   connectedRow, faults, quiet, wasUp, owed, overtaken>>

\* stop(), before start() or after it: the timers are cleared, the socket loses
\* its listeners and is terminated.  Calls of onOpen under way are not
\* interrupted.
Stop ==
    /\ "stop" \in calls
    /\ calls' = calls \ {"stop"}
    /\ phase' = "stopped"
    /\ timer' = NoTimer
    /\ socket' = "none"
    /\ UNCHANGED <<orphans, reconnectAttempt, silence, disconnected, opens, clears,
                   connectedRow, faults, quiet, wasUp, owed, overtaken>>

-------------------------------------------------------------------------------
(***************************************************************************)
(* The open handler                                                        *)
(***************************************************************************)
OnOpenKeepingAttempt(i) ==
    /\ silence' = 0
    /\ opens' = [opens EXCEPT ![i] = [pc |-> "event", reconnect |-> disconnected]]
    /\ UNCHANGED reconnectAttempt

OnOpenKeepingLastMessage(i) ==
    /\ reconnectAttempt' = 0
    /\ opens' = [opens EXCEPT ![i] = [pc |-> "event", reconnect |-> disconnected]]
    /\ UNCHANGED silence

\* onOpen up to its first await.
OnOpen(i) ==
    /\ reconnectAttempt' = 0
    /\ silence' = 0
    /\ opens' = [opens EXCEPT ![i] = [pc |-> "event", reconnect |-> disconnected]]

SocketOpens ==
    /\ socket = "connecting"
    /\ socket' = "open"
    /\ \E i \in 1 .. MaxOpens : opens[i].pc = "idle" /\ OnOpen(i)
    /\ quiet' = 0 /\ wasUp' = TRUE /\ owed' = wasUp
    /\ UNCHANGED <<calls, phase, orphans, timer, disconnected, clears, connectedRow, faults,
                   overtaken>>

RecordConnected(i) ==
    /\ opens[i].pc = "event"
    /\ opens' = [opens EXCEPT ![i].pc = "state"]
    /\ UNCHANGED <<calls, phase, socket, orphans, timer, reconnectAttempt, silence,
                   disconnected, clears, connectedRow, faults, quiet, wasUp, owed,
                   overtaken>>

WriteConnected(i) ==
    /\ opens[i].pc = "state"
    /\ opens' = [opens EXCEPT ![i].pc = "written"]
    /\ connectedRow' = TRUE
    /\ UNCHANGED <<calls, phase, socket, orphans, timer, reconnectAttempt, silence,
                   disconnected, clears, faults, quiet, wasUp, owed, overtaken>>

\* onOpen after its awaits: the downtime is forgotten and its recovery begins.
AfterAwaits(i) ==
    /\ opens[i].pc = "written"
    /\ IF opens[i].reconnect
       THEN /\ disconnected' = FALSE /\ owed' = FALSE
            /\ opens' = [opens EXCEPT ![i].pc = "recovering"]
       ELSE /\ opens' = [opens EXCEPT ![i] = NoCall]
            /\ UNCHANGED <<disconnected, owed>>
    /\ UNCHANGED <<calls, phase, socket, orphans, timer, reconnectAttempt, silence, clears,
                   connectedRow, faults, quiet, wasUp, overtaken>>

\* recoverGapAfterReconnect catches what its backfill throws.
EndRecovery(i) ==
    /\ opens[i].pc = "recovering"
    /\ opens' = [opens EXCEPT ![i] = NoCall]
    /\ UNCHANGED <<calls, phase, socket, orphans, timer, reconnectAttempt, silence,
                   disconnected, clears, connectedRow, faults, quiet, wasUp, owed,
                   overtaken>>

\* A statement of onOpen fails: an unhandled rejection, which is only logged.
FailOpen(i) ==
    /\ opens[i].pc \in {"event", "state"}
    /\ Fault
    /\ opens' = [opens EXCEPT ![i] = NoCall]
    /\ UNCHANGED <<calls, phase, socket, orphans, timer, reconnectAttempt, silence,
                   disconnected, clears, connectedRow, quiet, wasUp, owed, overtaken>>

-------------------------------------------------------------------------------
(***************************************************************************)
(* Losing and replacing a connection                                       *)
(***************************************************************************)
\* A message: lastMessageAt = Date.now().
OnMessage ==
    /\ socket = "open"
    /\ silence' = 0 /\ quiet' = 0
    /\ UNCHANGED <<calls, phase, socket, orphans, timer, reconnectAttempt, disconnected,
                   opens, clears, connectedRow, faults, wasUp, owed, overtaken>>

GoSilent ==
    /\ socket = "open"
    /\ socket' = "silent"
    /\ UNCHANGED <<calls, phase, orphans, timer, reconnectAttempt, silence, disconnected,
                   opens, clears, connectedRow, faults, quiet, wasUp, owed, overtaken>>

HandshakeHangs ==
    /\ socket = "connecting"
    /\ Fault
    /\ socket' = "hung"
    /\ UNCHANGED <<calls, phase, orphans, timer, reconnectAttempt, silence, disconnected,
                   opens, clears, connectedRow, quiet, wasUp, owed, overtaken>>

ScheduleReconnectKeepingUptime ==
    IF timer # NoTimer
    THEN UNCHANGED <<timer, reconnectAttempt, clears>>
    ELSE LET attempt == LesserOf(reconnectAttempt + 1, MaxAttempt)
         IN  /\ reconnectAttempt' = attempt
             /\ timer' \in NextReconnectDelays(attempt, ReconnectBase, ReconnectMax)
             /\ UNCHANGED clears

\* scheduleReconnect: at most one timer; updateState is not awaited.
ScheduleReconnect ==
    IF timer # NoTimer
    THEN UNCHANGED <<timer, reconnectAttempt, clears>>
    ELSE LET attempt == LesserOf(reconnectAttempt + 1, MaxAttempt)
         IN  /\ clears < MaxStatements
             /\ reconnectAttempt' = attempt
             /\ timer' \in NextReconnectDelays(attempt, ReconnectBase, ReconnectMax)
             /\ clears' = clears + 1

OnErrorReconnecting ==
    /\ socket \in Alive \ {"closing"}
    /\ socket' = "closing"
    /\ ScheduleReconnect
    /\ UNCHANGED <<calls, phase, orphans, silence, disconnected, opens,
                   connectedRow, faults, quiet, wasUp, owed, overtaken>>

\* The connection breaks, or the exchange ends it (every 24 hours at the
\* latest); 'error' only logs, since 'close' follows.
OnError ==
    /\ socket \in Alive \ {"closing"}
    /\ socket' = "closing"
    /\ UNCHANGED <<calls, phase, orphans, timer, reconnectAttempt, silence, disconnected,
                   opens, clears, connectedRow, faults, quiet, wasUp, owed, overtaken>>

Awaiting(i) == opens[i].pc \in {"event", "state", "written"}

OnCloseUnmarked ==
    /\ socket = "closing"
    /\ socket' = "closed"
    /\ overtaken' = (overtaken \/ \E i \in 1 .. MaxOpens : Awaiting(i))
    /\ ScheduleReconnect
    /\ UNCHANGED <<calls, phase, orphans, silence, disconnected, opens, connectedRow,
                   faults, quiet, wasUp, owed>>

\* 'close': onClose, markDisconnected and scheduleReconnect.
OnClose ==
    /\ socket = "closing"
    /\ socket' = "closed"
    /\ disconnected' = TRUE
    /\ overtaken' = (overtaken \/ \E i \in 1 .. MaxOpens : Awaiting(i))
    /\ ScheduleReconnect
    /\ UNCHANGED <<calls, phase, orphans, silence, opens, connectedRow, faults, quiet,
                   wasUp, owed>>

\* scheduleReconnect's updateState({incrementReconnect, wsConnectedSinceMs: null}).
ExecuteClear ==
    /\ clears > 0
    /\ clears' = clears - 1
    /\ connectedRow' = FALSE
    /\ UNCHANGED <<calls, phase, socket, orphans, timer, reconnectAttempt, silence,
                   disconnected, opens, faults, quiet, wasUp, owed, overtaken>>

FailClear ==
    /\ clears > 0
    /\ Fault
    /\ clears' = clears - 1
    /\ UNCHANGED <<calls, phase, socket, orphans, timer, reconnectAttempt, silence,
                   disconnected, opens, connectedRow, quiet, wasUp, owed, overtaken>>

\* The reconnect timer: the old socket loses its listeners, connect() makes a
\* new one.
TimerFires ==
    /\ timer = 0
    /\ timer' = NoTimer
    /\ orphans' = orphans + (IF socket \in Alive THEN 1 ELSE 0)
    /\ socket' = "connecting" /\ quiet' = NeverOpen
    /\ UNCHANGED <<calls, phase, reconnectAttempt, silence, disconnected, opens, clears,
                   connectedRow, faults, wasUp, owed, overtaken>>

WatchdogRemovingListeners ==
    /\ phase = "running"
    /\ socket \in {"open", "silent"}
    /\ silence >= StaleThreshold
    /\ socket' = "none"
    /\ UNCHANGED <<calls, phase, orphans, timer, reconnectAttempt, silence, disconnected,
                   opens, clears, connectedRow, faults, quiet, wasUp, owed, overtaken>>

\* The watchdog's interval: only an OPEN socket is looked at.
Watchdog ==
    /\ phase = "running"
    /\ socket \in {"open", "silent"}
    /\ silence >= StaleThreshold
    /\ socket' = "closing"
    /\ UNCHANGED <<calls, phase, orphans, timer, reconnectAttempt, silence, disconnected,
                   opens, clears, connectedRow, faults, quiet, wasUp, owed, overtaken>>

\* A tick passes; a timer that is due fires first.
Tick ==
    /\ timer # 0
    /\ timer' = IF timer = NoTimer THEN NoTimer ELSE timer - 1
    /\ silence' = LesserOf(silence + 1, StaleThreshold)
    /\ quiet' = IF socket \in {"open", "silent"} THEN LesserOf(quiet + 1, StaleThreshold) ELSE quiet
    /\ UNCHANGED <<calls, phase, socket, orphans, reconnectAttempt, disconnected, opens,
                   clears, connectedRow, faults, wasUp, owed, overtaken>>

-------------------------------------------------------------------------------
OpenStep(i) == RecordConnected(i) \/ WriteConnected(i) \/ AfterAwaits(i) \/ EndRecovery(i)

Next ==
    \/ Start \/ Stop
    \/ SocketOpens \/ OnMessage \/ GoSilent \/ HandshakeHangs \/ OnError \/ OnClose
    \/ ExecuteClear \/ FailClear
    \/ TimerFires \/ Watchdog \/ Tick
    \/ \E i \in 1 .. MaxOpens : OpenStep(i) \/ FailOpen(i)

Spec == Init /\ [][Next]_vars

(***************************************************************************)
(* Timers fire, an emitted close arrives, statements are executed and      *)
(* awaits continue.  The exchange is under no obligation to accept a       *)
(* connection, to answer a handshake or to say anything.                   *)
(***************************************************************************)
Fairness ==
    /\ WF_vars(OnClose) /\ WF_vars(TimerFires) /\ WF_vars(Watchdog) /\ WF_vars(Tick)
    /\ WF_vars(ExecuteClear)
    /\ \A i \in 1 .. MaxOpens : WF_vars(OpenStep(i))

FairSpec == Spec /\ Fairness
-------------------------------------------------------------------------------
TypeOK ==
    /\ calls \subseteq {"start", "stop"}
    /\ phase \in {"created", "running", "stopped"}
    /\ socket \in SocketState
    /\ orphans \in Nat
    /\ timer \in {NoTimer} \cup 0 .. ReconnectMax
    /\ reconnectAttempt \in 0 .. MaxAttempt
    /\ silence \in 0 .. StaleThreshold
    /\ quiet \in {NeverOpen} \cup 0 .. StaleThreshold
    /\ {disconnected, connectedRow, wasUp, owed, overtaken} \subseteq BOOLEAN
    /\ opens \in [1 .. MaxOpens -> OpenCall]
    /\ clears \in 0 .. MaxStatements
    /\ faults \in 0 .. MaxFaults

\* The collector never holds two connections: whatever the order of errors,
\* closes, watchdog, timer, start() and stop(), a socket is replaced only when it
\* is closed.  And as long as stop() was the last of main's calls there is
\* neither a connection nor a timer to make one, even though handlers and
\* statements are still under way.  (A start() after stop() connects again.)
OneConnection ==
    /\ orphans = 0
    /\ phase = "stopped" => socket = "none" /\ timer = NoTimer

\* The watchdog takes down only a socket that has itself been open and
\* unheard for the whole threshold: never a new one for its predecessor's silence.
OnlySilentSocketsAreTerminated ==
    [][Watchdog => quiet >= StaleThreshold]_vars

\* A success resets the backoff: the first reconnect after a socket that was
\* open waits no longer than the base delay, however many attempts it took.
BackoffRestartsAfterSuccess ==
    [][OnClose /\ quiet # NeverOpen => timer' <= ReconnectBase]_vars

\* A downtime is not forgotten before its recovery begins, whatever fails and
\* however often the connection is lost, unless a close overtook an open
\* handler: that handler then forgets the downtime after its own.
DowntimeIsRemembered == owed /\ ~overtaken => disconnected

\* While the collector waits to reconnect, and no statement is left to execute,
\* ws_connected_since is empty, unless a close overtook an open handler or a
\* statement failed.
UptimeEmptyWhileReconnecting ==
    timer # NoTimer /\ clears = 0 /\ ~overtaken /\ faults = 0 => ~connectedRow

\* A lost connection, noticed or not, is replaced by a new attempt, time and
\* again, until stop().
LostConnectionIsReplaced ==
    phase = "running" /\ socket \in {"silent", "closing", "closed"}
        ~> socket = "connecting" \/ phase = "stopped"
===============================================================================

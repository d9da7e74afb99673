-------------------------- MODULE WsCollectorProofs --------------------------
(***************************************************************************)
(* Theorems about WsCollector for every value of its constants.            *)
(***************************************************************************)
EXTENDS WsCollector, BackfillPlanProofs

-------------------------------------------------------------------------------
\* Where this.socket is: not in use before start() and after stop(), never heard
\* of as long as start() is still to come, closed while a timer waits, never heard
\* of before it opens, and just as long unheard as the watchdog's clock says while
\* it is open.  The attempts are counted from zero since it opened.
SocketInv ==
    /\ orphans = 0
    /\ phase # "running" => socket = "none" /\ timer = NoTimer
    /\ "start" \in calls => phase # "running" /\ quiet = NeverOpen /\ ~wasUp
    /\ timer # NoTimer => socket = "closed"
    /\ socket \in {"connecting", "hung"} => quiet = NeverOpen
    /\ socket \in {"open", "silent"} => quiet = silence
    /\ socket \in {"open", "silent", "closing"} /\ quiet # NeverOpen => reconnectAttempt = 0

\* Until a close has overtaken an open handler, a handler that awaits its
\* statements is that of the socket of the moment.
HandlerInv ==
    ~overtaken => \A i \in 1 .. MaxOpens :
        Awaiting(i) => quiet # NeverOpen /\ socket # "closed"

\* A connection that was lost and not replaced by an open one has left its mark.
DowntimeInv ==
    /\ wasUp /\ ~overtaken /\ (quiet = NeverOpen \/ socket = "closed") => disconnected
    /\ owed /\ ~overtaken => disconnected

IInv == TypeOK /\ SocketInv /\ HandlerInv /\ DowntimeInv /\ UptimeEmptyWhileReconnecting
-------------------------------------------------------------------------------
(***************************************************************************)
(* The invariant                                                           *)
(***************************************************************************)
LEMMA InvInit == Init => IInv
<1> SUFFICES ASSUME Init
             PROVE  IInv
    OBVIOUS
<1>1. NoCall \in OpenCall
    BY DEF NoCall, OpenCall
<1>2. opens \in [1 .. MaxOpens -> OpenCall] /\ \A i \in 1 .. MaxOpens : opens[i] = NoCall
    BY <1>1 DEF Init
<1>3. TypeOK
    <2>1. silence \in 0 .. StaleThreshold
        BY WsCollectorAssumption DEF Init
    <2>2. reconnectAttempt \in 0 .. MaxAttempt /\ clears \in 0 .. MaxStatements /\ faults \in 0 .. MaxFaults
        BY WsCollectorAssumption DEF Init
    <2> QED
        BY <1>2, <2>1, <2>2 DEF Init, TypeOK, NeverOpen, NoTimer, SocketState
<1>4. SocketInv
    BY DEF Init, SocketInv
<1>5. HandlerInv
    BY <1>2 DEF HandlerInv, Awaiting, NoCall
<1>6. DowntimeInv /\ UptimeEmptyWhileReconnecting
    BY DEF Init, DowntimeInv, UptimeEmptyWhileReconnecting
<1> QED
    BY <1>3, <1>4, <1>5, <1>6 DEF IInv

LEMMA InvNext == IInv /\ [Next]_vars => IInv'
<1> SUFFICES ASSUME IInv, [Next]_vars
             PROVE  IInv'
    OBVIOUS
<1> USE DEF IInv, TypeOK, SocketInv, HandlerInv, DowntimeInv, UptimeEmptyWhileReconnecting,
            Awaiting, OpenCall, NoCall, NoTimer, NeverOpen, SocketState
<1>c. /\ StaleThreshold \in Nat \ {0} /\ MaxAttempt \in Nat \ {0} /\ ReconnectMax \in Nat
      /\ MaxStatements \in Nat /\ MaxFaults \in Nat
    BY WsCollectorAssumption
<1>1. CASE Start
    BY <1>1, <1>c DEF Start
<1>2. CASE Stop
    BY <1>2, <1>c DEF Stop
<1>3. CASE SocketOpens
    <2>1. PICK i \in 1 .. MaxOpens : opens[i].pc = "idle" /\ OnOpen(i)
        BY <1>3 DEF SocketOpens
    <2>2. [pc |-> "event", reconnect |-> disconnected] \in OpenCall
        OBVIOUS
    <2>3. opens' \in [1 .. MaxOpens -> OpenCall]
        BY <2>1, <2>2 DEF OnOpen
    <2>4. TypeOK' /\ SocketInv'
        BY <1>3, <1>c, <2>1, <2>3 DEF SocketOpens, OnOpen
    <2>5. HandlerInv'
        BY <1>3, <2>1 DEF SocketOpens, OnOpen
    <2>6. DowntimeInv' /\ UptimeEmptyWhileReconnecting'
        BY <1>3, <2>1 DEF SocketOpens, OnOpen
    <2> QED
        BY <2>4, <2>5, <2>6
<1>4. CASE OnMessage
    BY <1>4, <1>c DEF OnMessage
<1>5. CASE GoSilent
    BY <1>5, <1>c DEF GoSilent
<1>6. CASE HandshakeHangs
    BY <1>6, <1>c DEF HandshakeHangs, Fault
<1>7. CASE OnError
    BY <1>7, <1>c DEF OnError, Alive, SocketState
<1>8. CASE OnClose
    <2>1. timer = NoTimer
        BY <1>8 DEF OnClose
    <2> DEFINE attempt == LesserOf(reconnectAttempt + 1, MaxAttempt)
    <2>2. /\ reconnectAttempt' = attempt /\ attempt \in 1 .. MaxAttempt
          /\ clears' = clears + 1 /\ clears' \in 0 .. MaxStatements
          /\ timer' \in NextReconnectDelays(attempt, ReconnectBase, ReconnectMax)
        BY <1>8, <1>c, <2>1 DEF OnClose, ScheduleReconnect, LesserOf
    <2> HIDE DEF attempt
    <2>6. timer' \in 0 .. ReconnectMax
        <3>1. attempt \in Nat \ {0} /\ ReconnectBase \in Nat
            BY <1>c, <2>2, WsCollectorAssumption
        <3>2. NextReconnectDelays(attempt, ReconnectBase, ReconnectMax) \subseteq 0 .. ReconnectMax
            BY <1>c, <3>1, DelaysAreCapped
        <3> QED
            BY <2>2, <3>2
    <2>3. TypeOK' /\ SocketInv'
        BY <1>8, <1>c, <2>2, <2>6 DEF OnClose
    <2>4. HandlerInv'
        BY <1>8 DEF OnClose
    <2>5. DowntimeInv' /\ UptimeEmptyWhileReconnecting'
        BY <1>8, <2>2 DEF OnClose
    <2> QED
        BY <2>3, <2>4, <2>5
<1>9. CASE ExecuteClear
    <2>1. TypeOK'
        <3>1. clears' \in 0 .. MaxStatements
            BY <1>9, <1>c DEF ExecuteClear
        <3> QED
            BY <1>9, <3>1 DEF ExecuteClear
    <2>2. SocketInv' /\ HandlerInv' /\ DowntimeInv' /\ UptimeEmptyWhileReconnecting'
        BY <1>9, <1>c DEF ExecuteClear
    <2> QED
        BY <2>1, <2>2
<1>10. CASE FailClear
    BY <1>10, <1>c DEF FailClear, Fault
<1>11. CASE TimerFires
    BY <1>11, <1>c DEF TimerFires, Alive, SocketState
<1>12. CASE Watchdog
    BY <1>12, <1>c DEF Watchdog
<1>13. CASE Tick
    BY <1>13, <1>c DEF Tick, LesserOf
<1>14. ASSUME NEW i \in 1 .. MaxOpens, OpenStep(i) \/ FailOpen(i)
       PROVE  IInv'
    <2>1. CASE RecordConnected(i)
        BY <2>1 DEF RecordConnected
    <2>2. CASE WriteConnected(i)
        BY <2>2 DEF WriteConnected
    <2>3. CASE AfterAwaits(i)
        <3>0. NoCall \in OpenCall /\ [opens[i] EXCEPT !.pc = "recovering"] \in OpenCall
            OBVIOUS
        <3>1. TypeOK'
            <4>1. opens' \in [1 .. MaxOpens -> OpenCall]
                BY <2>3, <3>0 DEF AfterAwaits
            <4>2. disconnected' \in BOOLEAN /\ owed' \in BOOLEAN
                BY <2>3 DEF AfterAwaits
            <4>3. UNCHANGED <<calls, phase, socket, orphans, timer, reconnectAttempt, silence, clears,
                              connectedRow, faults, quiet, wasUp, overtaken>>
                BY <2>3 DEF AfterAwaits
            <4> QED
                BY <4>1, <4>2, <4>3
        <3>2. SocketInv' /\ UptimeEmptyWhileReconnecting'
            BY <2>3 DEF AfterAwaits
        <3>3. \A k \in 1 .. MaxOpens : Awaiting(k)' => Awaiting(k)
            BY <2>3 DEF AfterAwaits
        <3>4. HandlerInv'
            BY <2>3, <3>3 DEF AfterAwaits
        <3>5. ~overtaken => quiet # NeverOpen /\ socket # "closed"
            BY <2>3 DEF AfterAwaits
        <3>6. DowntimeInv'
            BY <2>3, <3>5 DEF AfterAwaits
        <3> QED
            BY <3>1, <3>2, <3>4, <3>6
    <2>4. CASE EndRecovery(i)
        BY <2>4 DEF EndRecovery
    <2>5. CASE FailOpen(i)
        <3>1. TypeOK'
            <4>1. opens' \in [1 .. MaxOpens -> OpenCall]
                BY <2>5 DEF FailOpen
            <4>2. faults' \in 0 .. MaxFaults
                BY <2>5, <1>c DEF FailOpen, Fault
            <4> QED
                BY <2>5, <4>1, <4>2 DEF FailOpen
        <3>2. SocketInv' /\ HandlerInv' /\ DowntimeInv' /\ UptimeEmptyWhileReconnecting'
            BY <2>5, <1>c DEF FailOpen, Fault
        <3> QED
            BY <3>1, <3>2
    <2> QED
        BY <1>14, <2>1, <2>2, <2>3, <2>4, <2>5 DEF OpenStep
<1>15. CASE UNCHANGED vars
    BY <1>15 DEF vars
<1> QED
    BY <1>1, <1>2, <1>3, <1>4, <1>5, <1>6, <1>7, <1>8, <1>9, <1>10, <1>11, <1>12, <1>13, <1>14, <1>15 DEF Next
-------------------------------------------------------------------------------
(***************************************************************************)
(* The theorems                                                            *)
(***************************************************************************)
\* The inductive invariant holds in every state the collector reaches.
THEOREM SocketIsAccountedFor == Spec => []IInv
BY InvInit, InvNext, PTL DEF Spec

\* Nothing leaves its type: the reconnect timer in particular never waits longer
\* than the cap.
THEOREM WsCollectorTypeCorrect == Spec => []TypeOK
<1>1. IInv => TypeOK
    BY DEF IInv
<1> QED
    BY <1>1, SocketIsAccountedFor, PTL

\* Whatever the order of errors, closes, timers, the watchdog, start() and
\* stop(), connect() replaces only a closed socket; and from stop() on, unless
\* start() comes after it, there is neither a socket nor a timer.
THEOREM AtMostOneConnection == Spec => []OneConnection
<1>1. IInv => OneConnection
    BY DEF IInv, SocketInv, OneConnection
<1> QED
    BY <1>1, SocketIsAccountedFor, PTL

\* markDisconnected and onOpen: no downtime is forgotten before its recovery,
\* for any number of open handlers, failed statements and lost connections.
THEOREM DowntimeIsNotForgotten == Spec => []DowntimeIsRemembered
<1>1. IInv => DowntimeIsRemembered
    BY DEF IInv, DowntimeInv, DowntimeIsRemembered
<1> QED
    BY <1>1, SocketIsAccountedFor, PTL

\* ws_connected_since is empty while the collector waits to reconnect.
THEOREM UptimeIsEmptyWhileDown == Spec => []UptimeEmptyWhileReconnecting
<1>1. IInv => UptimeEmptyWhileReconnecting
    BY DEF IInv
<1> QED
    BY <1>1, SocketIsAccountedFor, PTL

\* The watchdog's one clock, lastMessageAt, tells how long the socket of the
\* moment has been unheard: it is set again before a new socket counts as open.
THEOREM WatchdogSparesNewSockets == Spec => OnlySilentSocketsAreTerminated
<1>1. IInv /\ [Next]_vars => [Watchdog => quiet >= StaleThreshold]_vars
    BY DEF IInv, SocketInv, Watchdog
<1> QED
    BY <1>1, SocketIsAccountedFor, PTL DEF Spec, OnlySilentSocketsAreTerminated

\* calculateBackoffDelay's first delay, the only one a success leaves to wait.
LEMMA FirstDelay ==
    \A d \in NextReconnectDelays(1, ReconnectBase, ReconnectMax) : d <= ReconnectBase
<1>1. 2 ^ 0 = 1
    OBVIOUS
<1>2. LesserOf(1 - 1, MaxExponent) = 0
    BY PlanAssumption DEF LesserOf
<1>3. CalculateBackoffDelay(1, ReconnectBase, ReconnectMax) = ReconnectBase
    <2>1. CalculateBackoffDelay(1, ReconnectBase, ReconnectMax)
            = LesserOf(ReconnectBase * 2 ^ 0, ReconnectMax)
        BY <1>2 DEF CalculateBackoffDelay
    <2>2. ReconnectBase * 2 ^ 0 = ReconnectBase
        BY <1>1, WsCollectorAssumption
    <2> QED
        BY <2>1, <2>2, WsCollectorAssumption DEF LesserOf
<1> QED
    BY <1>3, WsCollectorAssumption DEF NextReconnectDelays

\* The attempts are counted from zero again since the socket opened, so the
\* close that ends it schedules the first, shortest delay.
THEOREM SuccessResetsTheBackoff == Spec => BackoffRestartsAfterSuccess
<1>1. IInv /\ [Next]_vars => [OnClose /\ quiet # NeverOpen => timer' <= ReconnectBase]_vars
    <2> SUFFICES ASSUME IInv, OnClose, quiet # NeverOpen
                 PROVE  timer' <= ReconnectBase
        OBVIOUS
    <2>1. timer = NoTimer /\ reconnectAttempt = 0
        BY DEF IInv, SocketInv, OnClose
    <2>2. LesserOf(reconnectAttempt + 1, MaxAttempt) = 1
        BY <2>1, WsCollectorAssumption DEF LesserOf
    <2>3. timer' \in NextReconnectDelays(1, ReconnectBase, ReconnectMax)
        BY <2>1, <2>2 DEF OnClose, ScheduleReconnect
    <2> QED
        BY <2>3, FirstDelay
<1> QED
    BY <1>1, SocketIsAccountedFor, PTL DEF Spec, BackoffRestartsAfterSuccess
===============================================================================

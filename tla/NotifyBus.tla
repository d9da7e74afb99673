------------------------------- MODULE NotifyBus ------------------------------
(***************************************************************************)
(* The listening side of PgNotifyBus (packages/db/src/realtime-bus.ts):    *)
(* LISTEN connections, what is subscribed on them, resubscription after an *)
(* error, and close().  SseHub composes it with its only user.             *)
(*                                                                         *)
(* A client is a pg.Client; its slot is used again once nothing refers to  *)
(* it.  A call is subscribe() or resubscribeAll() at one of its awaits, or *)
(* the timer of a resubscribeAll to come.                                  *)
(***************************************************************************)
EXTENDS Naturals, FiniteSets

CONSTANTS
    Buses,          \* BOUND: slots for PgNotifyBus objects
    Clients,        \* BOUND: slots for connections
    Resubs,         \* BOUND: resubscribeAll calls and timers at once
    NumChannels,    \* channels, numbered in the order of their subscription
    MaxFaults,      \* BOUND: broken connections, failed connects and statements
    NoBus, NoClient

Channels == 1 .. NumChannels
NoChannel == 0
Calls == {"start"} \cup Resubs

ASSUME NotifyBusAssumption ==
    /\ NumChannels \in Nat \ {0} /\ MaxFaults \in Nat
    /\ "start" \notin Resubs /\ NoBus \notin Buses /\ NoClient \notin Clients

VARIABLES bus, client, calls, faults

busVars == <<bus, client, calls, faults>>

\* state: "closed" from the beginning of close(); ending: the client close()
\* waits for.
Bus == [state    : {"none", "open", "closed"},
        listener : Clients \cup {NoClient},
        handlers : SUBSET Channels,
        ending   : Clients \cup {NoClient}]

NewBus == [state |-> "open", listener |-> NoClient, handlers |-> {}, ending |-> NoClient]

Client == [state   : {"gone", "connecting", "up"},
           bus     : Buses \cup {NoBus},
           listens : SUBSET Channels]

Gone == [state |-> "gone", bus |-> NoBus, listens |-> {}]

\* "timer": setTimeout(resubscribeAll); "connect", "listen": awaiting
\* client.connect(), client.query(LISTEN); "returned", "threw": subscribe is over.
Call == [pc      : {"idle", "timer", "connect", "listen", "returned", "threw"},
         bus     : Buses \cup {NoBus},
         client  : Clients \cup {NoClient},
         channel : Channels \cup {NoChannel}]

NoCall == [pc |-> "idle", bus |-> NoBus, client |-> NoClient, channel |-> NoChannel]

BusInit ==
    /\ bus = [b \in Buses |-> [NewBus EXCEPT !.state = "none"]]
    /\ client = [c \in Clients |-> Gone]
    /\ calls = [k \in Calls |-> NoCall]
    /\ faults = 0

Fault == faults < MaxFaults /\ faults' = faults + 1

Unreferenced(c) ==
    /\ client[c].state = "gone"
    /\ \A k \in Calls : calls[k].client # c
    /\ \A b \in Buses : bus[b].listener # c /\ bus[b].ending # c

\* No connection and no call of the bus is left.
Abandoned(b) ==
    /\ \A c \in Clients : client[c].bus # b
    /\ \A k \in Calls : calls[k].bus # b

-------------------------------------------------------------------------------
(***************************************************************************)
(* subscribe                                                               *)
(***************************************************************************)
\* getListener: the current listener, or a new client that connects.
GetListener(k, b, ch, listener) ==
    IF listener # NoClient
    THEN /\ calls' = [calls EXCEPT ![k] = [pc |-> "listen", bus |-> b, client |-> listener,
                                           channel |-> ch]]
         /\ UNCHANGED client
    ELSE LET c == CHOOSE d \in Clients : Unreferenced(d)
         IN /\ \E d \in Clients : Unreferenced(d)
            /\ client' = [client EXCEPT ![c] = [state |-> "connecting", bus |-> b, listens |-> {}]]
            /\ calls' = [calls EXCEPT ![k] = [pc |-> "connect", bus |-> b, client |-> c,
                                              channel |-> ch]]

\* subscribe(ch) on a bus: the handler is registered first.
Subscribe(b, current, ch) ==
    /\ bus' = [bus EXCEPT ![b] = [current EXCEPT !.handlers = @ \cup {ch}]]
    /\ GetListener("start", b, ch, current.listener)

NextNumber(b, ch) == ch + 1

\* The channel resubscribeAll goes on with after ch, or NoChannel.
NextChannel(b, ch) ==
    IF \E d \in bus[b].handlers : d > ch
    THEN CHOOSE d \in bus[b].handlers : d > ch /\ \A e \in bus[b].handlers : e > ch => d <= e
    ELSE NoChannel

\* What a call does after its LISTEN.
AfterListen(k) ==
    LET call == calls[k]
        next == NextChannel(call.bus, call.channel)
    IN  IF k = "start"      THEN [call EXCEPT !.pc = "returned"]
        ELSE IF next = NoChannel THEN NoCall
        ELSE [call EXCEPT !.channel = next]

NoRetry(k) ==
    IF k = "start" THEN [calls[k] EXCEPT !.pc = "threw", !.client = NoClient] ELSE NoCall

\* What a call does when it throws: subscribe rejects; resubscribeAll catches
\* and comes back after a while unless the bus is closed.
AfterThrow(k) ==
    CASE k = "start" -> [calls[k] EXCEPT !.pc = "threw", !.client = NoClient]
      [] k # "start" /\ bus[calls[k].bus].state = "open"
                     -> [NoCall EXCEPT !.pc = "timer", !.bus = calls[k].bus]
      [] OTHER       -> NoCall

-------------------------------------------------------------------------------
\* client.connect() resolves: the client becomes the listener, whatever the
\* listener is by now and even if the bus has been closed.
Connected(k) ==
    /\ calls[k].pc = "connect"
    /\ client' = [client EXCEPT ![calls[k].client].state = "up"]
    /\ bus' = [bus EXCEPT ![calls[k].bus].listener = calls[k].client]
    /\ calls' = [calls EXCEPT ![k].pc = "listen"]
    /\ UNCHANGED faults

ConnectFails(k) ==
    /\ calls[k].pc = "connect"
    /\ Fault
    /\ client' = [client EXCEPT ![calls[k].client] = Gone]
    /\ calls' = [calls EXCEPT ![k] = AfterThrow(k)]
    /\ UNCHANGED bus

Listen(k) ==
    LET c == calls[k].client
    IN  /\ calls[k].pc = "listen"
        /\ client[c].state = "up"
        /\ client' = [client EXCEPT ![c].listens = @ \cup {calls[k].channel}]
        /\ calls' = [calls EXCEPT ![k] = AfterListen(k)]
        /\ UNCHANGED <<bus, faults>>

\* The statement fails, or its connection is gone.
ListenFails(k) ==
    /\ calls[k].pc = "listen"
    /\ IF client[calls[k].client].state = "up" THEN Fault ELSE UNCHANGED faults
    /\ calls' = [calls EXCEPT ![k] = AfterThrow(k)]
    /\ UNCHANGED <<bus, client>>

\* 'error' of a listening client: the listener is forgotten, whichever it is,
\* and a resubscription scheduled.
ClientError(c) ==
    LET b == client[c].bus
    IN  /\ client[c].state = "up"
        /\ Fault
        /\ client' = [client EXCEPT ![c] = Gone]
        /\ bus' = [bus EXCEPT ![b].listener = NoClient]
        /\ \/ /\ bus[b].state = "open"
              /\ LET r == CHOOSE q \in Resubs : calls[q].pc = "idle"
                 IN /\ \E q \in Resubs : calls[q].pc = "idle"
                    /\ calls' = [calls EXCEPT ![r] = [NoCall EXCEPT !.pc = "timer", !.bus = b]]
           \/ bus[b].state = "closed" /\ UNCHANGED calls

\* resubscribeAll begins.
TimerFires(r) ==
    LET b == calls[r].bus
    IN  /\ calls[r].pc = "timer"
        /\ IF bus[b].state = "closed"
           THEN calls' = [calls EXCEPT ![r] = NoCall] /\ UNCHANGED client
           ELSE GetListener(r, b, NextChannel(b, NoChannel), bus[b].listener)
        /\ UNCHANGED <<bus, faults>>

-------------------------------------------------------------------------------
\* close() up to its await.
Close(b) ==
    bus' = [bus EXCEPT ![b].state = "closed", ![b].ending = bus[b].listener]

\* The connection has ended; the listener is forgotten.
Ended(b) ==
    /\ client' = [c \in Clients |-> IF c = bus[b].ending THEN Gone ELSE client[c]]
    /\ bus' = [bus EXCEPT ![b].listener = NoClient, ![b].ending = NoClient]

CallStep(k) == Connected(k) \/ Listen(k) \/ ListenFails(k) \/ TimerFires(k)

BusStep  == \E k \in Calls : CallStep(k)
BusFault == (\E k \in Calls : ConnectFails(k)) \/ (\E c \in Clients : ClientError(c))

BusTypeOK ==
    /\ bus \in [Buses -> Bus]
    /\ client \in [Clients -> Client]
    /\ calls \in [Calls -> Call]
    /\ faults \in 0 .. MaxFaults
===============================================================================

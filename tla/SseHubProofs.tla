----------------------------- MODULE SseHubProofs -----------------------------
(***************************************************************************)
(* Theorems about SseHub for any number of browsers, channels, buses,      *)
(* connections, resubscriptions and faults.                                *)
(***************************************************************************)
EXTENDS SseHub, TLAPS, WellFoundedInduction, FiniteSetTheorems

StartCall == calls["start"]

\* Who refers to whom: a call under way to a bus that has a handler to listen
\* for, and while it awaits an answer to a client; a client to its bus.
References ==
    /\ \A k \in Calls :
        /\ calls[k].pc # "idle" => /\ calls[k].bus \in Buses
                                   /\ bus[calls[k].bus].state # "none"
                                   /\ bus[calls[k].bus].handlers # {}
        /\ calls[k].pc \in {"connect", "listen"} => calls[k].client \in Clients
        /\ calls[k].pc \in {"connect", "listen", "returned"} => calls[k].channel \in Channels
    /\ StartCall.pc # "timer"
    /\ \A r \in Resubs : calls[r].pc \notin {"returned", "threw"}
    /\ \A c \in Clients : client[c].state # "gone" =>
            client[c].bus \in Buses /\ bus[client[c].bus].state # "none"
                                    /\ bus[client[c].bus].handlers # {}

\* A client that connects does so for one call, and is no bus's listener yet.
Connecting ==
    \A k \in Calls : calls[k].pc = "connect" =>
        /\ client[calls[k].client].state = "connecting"
        /\ client[calls[k].client].bus = calls[k].bus
        /\ \A j \in Calls : calls[j].pc = "connect" /\ calls[j].client = calls[k].client => j = k
        /\ \A b \in Buses : /\ bus[b].listener # calls[k].client
                            /\ bus[b].ending # calls[k].client

\* The hub runs, starts or stops: one at a time; what runs and what starts
\* has a bus that is open.
OnePhase ==
    /\ hubBus # NoBus => timer /\ ~Starting /\ stopping = NoBus /\ bus[hubBus].state = "open"
    /\ Starting => stopping = NoBus /\ bus[StartCall.bus].state = "open"

\* Who is in the hub waits for a start under way or has a running hub; a stop
\* is scheduled for a running hub that nobody is in.
Audience ==
    /\ \A s \in Browsers : /\ stream[s].pc = "starting" => Starting
                           /\ stream[s].pc = "subscribed" => hubBus # NoBus
    /\ linger => Subscribers(stream) = {} /\ hubBus # NoBus

\* Without failures a connection belongs to the start, the running hub or the
\* stop, and the listener of a bus that starts is the client of its call.
Ownership ==
    /\ \A r \in Resubs : calls[r].pc = "idle"
    /\ StartCall.pc # "threw"
    /\ StartCall.pc = "connect" => bus[StartCall.bus].listener = NoClient
    /\ StartCall.pc \in {"listen", "returned"} =>
            /\ StartCall.client \in Clients
            /\ bus[StartCall.bus].listener = StartCall.client
            /\ client[StartCall.client].state = "up"
    /\ \A c \in Clients : client[c].state # "gone" =>
            \/ Starting /\ StartCall.client = c
            \/ hubBus # NoBus /\ bus[hubBus].listener = c
            \/ stopping # NoBus /\ bus[stopping].ending = c

OwnedWithoutFaults == faults = 0 => Ownership

IInv == TypeOK /\ References /\ Connecting /\ OnePhase /\ Audience /\ OwnedWithoutFaults
-------------------------------------------------------------------------------
(***************************************************************************)
(* Lemmas                                                                  *)
(***************************************************************************)
\* A set of numbers that is not empty has a least one.
LEMMA LeastOf ==
    ASSUME NEW S \in SUBSET Nat, S # {}
    PROVE  \E d \in S : \A e \in S : d <= e
<1>1. PICK d \in S : \A e \in S : ~ (<<e, d>> \in OpToRel(<, Nat))
    BY NatLessThanWellFounded, WFMin
<1>2. \A e \in S : ~ (e < d)
    BY <1>1 DEF OpToRel
<1> QED
    BY <1>2

\* The channel a resubscription goes on with is one, and the first of them exists.
LEMMA NextChannelSort ==
    ASSUME NEW b, NEW ch \in Nat, bus[b].handlers \in SUBSET Channels
    PROVE  /\ NextChannel(b, ch) \in Channels \cup {NoChannel}
           /\ bus[b].handlers # {} => NextChannel(b, NoChannel) \in Channels
<1> DEFINE Above(n) == {d \in bus[b].handlers : d > n}
<1>1. Channels \subseteq Nat /\ \A d \in Channels : d > NoChannel
    BY NotifyBusAssumption DEF Channels, NoChannel
<1>2. ASSUME NEW n \in Nat, \E d \in bus[b].handlers : d > n
      PROVE  NextChannel(b, n) \in Channels
    <2>1. PICK d \in Above(n) : \A e \in Above(n) : d <= e
        BY <1>1, <1>2, LeastOf
    <2>2. \E d1 \in bus[b].handlers : d1 > n /\ \A e \in bus[b].handlers : e > n => d1 <= e
        BY <2>1
    <2> QED
        BY <1>2, <2>2 DEF NextChannel
<1>3. ~(\E d \in bus[b].handlers : d > ch) => NextChannel(b, ch) = NoChannel
    BY DEF NextChannel
<1>4. bus[b].handlers # {} => \E d \in bus[b].handlers : d > NoChannel
    BY <1>1
<1>5. NoChannel \in Nat
    BY DEF NoChannel
<1> QED
    BY <1>2, <1>3, <1>4, <1>5

LEMMA CallSort ==
    ASSUME NEW pc \in {"idle", "timer", "connect", "listen", "returned", "threw"},
           NEW b \in Buses \cup {NoBus}, NEW c \in Clients \cup {NoClient},
           NEW ch \in Channels \cup {NoChannel}
    PROVE  [pc |-> pc, bus |-> b, client |-> c, channel |-> ch] \in Call
BY DEF Call

LEMMA NoCallSort == NoCall \in Call /\ NoCall.pc = "idle" /\ NoCall.bus = NoBus
BY DEF Call, NoCall

LEMMA GoneSort == Gone \in Client /\ Gone.state = "gone"
BY DEF Client, Gone

LEMMA StartIsACall == "start" \in Calls /\ "start" \notin Resubs /\ Resubs \subseteq Calls
BY NotifyBusAssumption DEF Calls

\* What getListener does: the call awaits a LISTEN on the listener, or the
\* connect of a new client.
Fetched(k, b, ch, listener, pc, c) ==
    /\ calls' = [calls EXCEPT ![k] = [pc |-> pc, bus |-> b, client |-> c, channel |-> ch]]
    /\ calls' \in [Calls -> Call]
    /\ client' \in [Clients -> Client]
    /\ pc = "listen" => c = listener /\ client' = client
    /\ pc = "connect" =>
           /\ listener = NoClient
           /\ Unreferenced(c)
           /\ client' = [client EXCEPT ![c] = [state |-> "connecting", bus |-> b, listens |-> {}]]

LEMMA GetListenerEffect ==
    ASSUME BusTypeOK, NEW k \in Calls, NEW b \in Buses, NEW ch \in Channels,
           NEW listener \in Clients \cup {NoClient}, GetListener(k, b, ch, listener)
    PROVE  \E c \in Clients, pc \in {"connect", "listen"} : Fetched(k, b, ch, listener, pc, c)
<1> DEFINE Goes(pc, c) == [pc |-> pc, bus |-> b, client |-> c, channel |-> ch]
           Fresh == [state |-> "connecting", bus |-> b, listens |-> {}]
<1>1. \A pc \in {"connect", "listen"}, c \in Clients : [calls EXCEPT ![k] = Goes(pc, c)] \in [Calls -> Call]
    BY CallSort DEF BusTypeOK
<1>2. Fresh \in Client
    BY DEF Client
<1>3. CASE listener # NoClient
    <2>1. calls' = [calls EXCEPT ![k] = Goes("listen", listener)] /\ client' = client
        BY <1>3 DEF GetListener
    <2> QED
        BY <1>1, <1>3, <2>1 DEF BusTypeOK, Fetched
<1>4. CASE listener = NoClient
    <2>1. PICK c \in Clients :
             /\ Unreferenced(c)
             /\ client' = [client EXCEPT ![c] = Fresh]
             /\ calls' = [calls EXCEPT ![k] = Goes("connect", c)]
        BY <1>4 DEF GetListener
    <2>2. client' \in [Clients -> Client]
        BY <1>2, <2>1 DEF BusTypeOK
    <2> QED
        BY <1>1, <1>4, <2>1, <2>2 DEF Fetched
<1> QED
    BY <1>3, <1>4

\* What is left when a call throws is a call, and none of a bus that is closed.
LEMMA AfterThrowEffect ==
    ASSUME IInv, NEW k \in Calls, calls[k].pc \in {"connect", "listen"}
    PROVE  /\ AfterThrow(k) \in Call
           /\ k = "start" => AfterThrow(k).pc = "threw" /\ AfterThrow(k).bus = calls[k].bus
           /\ k # "start" => \/ AfterThrow(k) = NoCall
                             \/ AfterThrow(k).pc = "timer" /\ AfterThrow(k).bus = calls[k].bus
<1>1. calls[k] \in Call /\ calls[k].bus \in Buses
    BY DEF IInv, TypeOK, BusTypeOK, References
<1>2. CASE k = "start"
    <2>1. AfterThrow(k) = [calls[k] EXCEPT !.pc = "threw", !.client = NoClient]
        BY <1>2 DEF AfterThrow
    <2> QED
        BY <1>1, <1>2, <2>1 DEF Call
<1>3. CASE k # "start" /\ bus[calls[k].bus].state = "open"
    <2>1. AfterThrow(k) = [NoCall EXCEPT !.pc = "timer", !.bus = calls[k].bus]
        BY <1>3 DEF AfterThrow
    <2> QED
        BY <1>1, <1>3, <2>1 DEF Call, NoCall
<1>4. CASE k # "start" /\ bus[calls[k].bus].state # "open"
    <2>1. AfterThrow(k) = NoCall
        BY <1>4 DEF AfterThrow
    <2> QED
        BY <1>4, <2>1, NoCallSort
<1> QED
    BY <1>2, <1>3, <1>4

LEMMA AfterListenEffect ==
    ASSUME IInv, NEW k \in Calls, calls[k].pc = "listen"
    PROVE  /\ AfterListen(k) \in Call
           /\ k = "start" => AfterListen(k) = [calls[k] EXCEPT !.pc = "returned"]
           /\ k # "start" => \/ AfterListen(k) = NoCall
                             \/ \E ch \in Channels : AfterListen(k) = [calls[k] EXCEPT !.channel = ch]
<1>1. calls[k] \in Call /\ calls[k].bus \in Buses /\ calls[k].channel \in Channels
    BY DEF IInv, TypeOK, BusTypeOK, References
<1>2. bus[calls[k].bus].handlers \in SUBSET Channels
    BY <1>1 DEF IInv, TypeOK, BusTypeOK, Bus
<1>3. NextChannel(calls[k].bus, calls[k].channel) \in Channels \cup {NoChannel}
    BY <1>1, <1>2, NextChannelSort DEF Channels
<1>4. CASE k = "start"
    <2>1. AfterListen(k) = [calls[k] EXCEPT !.pc = "returned"]
        BY <1>4 DEF AfterListen
    <2> QED
        BY <1>1, <1>4, <2>1 DEF Call
<1>5. CASE k # "start" /\ NextChannel(calls[k].bus, calls[k].channel) = NoChannel
    <2>1. AfterListen(k) = NoCall
        BY <1>5 DEF AfterListen
    <2> QED
        BY <1>5, <2>1, NoCallSort
<1>6. CASE k # "start" /\ NextChannel(calls[k].bus, calls[k].channel) # NoChannel
    <2>1. AfterListen(k) = [calls[k] EXCEPT !.channel = NextChannel(calls[k].bus, calls[k].channel)]
        BY <1>6 DEF AfterListen
    <2> QED
        BY <1>1, <1>3, <1>6, <2>1 DEF Call
<1> QED
    BY <1>4, <1>5, <1>6

-------------------------------------------------------------------------------
(***************************************************************************)
(* The steps of the bus                                                    *)
(***************************************************************************)
\* The hub's own invariants only see whether something starts, and which buses
\* are open.
LEMMA HubFrame ==
    ASSUME IInv, UNCHANGED hubVars, Starting' = Starting,
           Starting => StartCall'.bus = StartCall.bus,
           \A b \in Buses : bus'[b].state = bus[b].state
    PROVE  OnePhase' /\ Audience'
<1>1. Starting => StartCall.bus \in Buses
    BY StartIsACall DEF IInv, References, Starting, StartCall
<1>2. hubBus \in Buses \cup {NoBus}
    BY DEF IInv, TypeOK
<1>3. OnePhase'
    BY <1>1, <1>2 DEF IInv, OnePhase, hubVars
<1>4. Audience'
    BY DEF IInv, Audience, hubVars, Subscribers
<1> QED
    BY <1>3, <1>4

\* With a fault, ownership is not at issue any more.
LEMMA FaultFrame == ASSUME IInv, Fault PROVE OwnedWithoutFaults' /\ faults' \in 0 .. MaxFaults
BY NotifyBusAssumption DEF IInv, TypeOK, BusTypeOK, Fault, OwnedWithoutFaults

LEMMA HubTypes ==
    ASSUME TypeOK, UNCHANGED hubVars, BusTypeOK' PROVE TypeOK'
BY DEF TypeOK, hubVars

\* Calls go on connecting while others begin or end; the client of one that
\* ends may become a listener.
LEMMA OthersConnect ==
    ASSUME IInv,
           \A j \in Calls : calls'[j].pc = "connect" =>
               calls'[j] = calls[j] /\ client'[calls[j].client] = client[calls[j].client],
           \A b \in Buses, c \in Clients :
               bus'[b].listener = c \/ bus'[b].ending = c =>
                   \/ \E d \in Buses : bus[d].listener = c \/ bus[d].ending = c
                   \/ \E k \in Calls : /\ calls[k].pc = "connect" /\ calls[k].client = c
                                       /\ calls'[k].pc # "connect"
    PROVE  Connecting'
<1>1. SUFFICES ASSUME NEW j \in Calls, calls'[j].pc = "connect"
               PROVE  /\ client'[calls'[j].client].state = "connecting"
                      /\ client'[calls'[j].client].bus = calls'[j].bus
                      /\ \A i \in Calls : calls'[i].pc = "connect" /\ calls'[i].client = calls'[j].client => i = j
                      /\ \A b \in Buses : /\ bus'[b].listener # calls'[j].client
                                          /\ bus'[b].ending # calls'[j].client
    BY DEF Connecting
<1>2. /\ calls'[j] = calls[j] /\ calls[j].client \in Clients
      /\ client'[calls[j].client] = client[calls[j].client]
      /\ \A k \in Calls : calls[k].pc = "connect" /\ calls'[k].pc # "connect" =>
                            calls[j].client # calls[k].client
    BY <1>1 DEF IInv, Connecting, References
<1>3. \A i \in Calls : calls'[i].pc = "connect" => calls[i].pc = "connect" /\ calls'[i] = calls[i]
    BY <1>1
<1> QED
    BY <1>1, <1>2, <1>3 DEF IInv, Connecting

LEMMA ConnectedStep ==
    ASSUME IInv, NEW k \in Calls, Connected(k), UNCHANGED hubVars
    PROVE  IInv'
<1>0. /\ calls[k].pc = "connect" /\ calls[k].bus \in Buses /\ calls[k].client \in Clients
      /\ calls[k] \in Call /\ calls[k].pc # "idle"
    BY DEF IInv, References, TypeOK, BusTypeOK, Connected
<1>1. BusTypeOK'
    <2>1. client' \in [Clients -> Client]
        BY <1>0 DEF Connected, IInv, TypeOK, BusTypeOK, Client
    <2>2. bus' \in [Buses -> Bus]
        BY <1>0 DEF Connected, IInv, TypeOK, BusTypeOK, Bus
    <2>3. calls' \in [Calls -> Call]
        BY <1>0 DEF Connected, IInv, TypeOK, BusTypeOK, Call
    <2> QED
        BY <2>1, <2>2, <2>3 DEF Connected, IInv, TypeOK, BusTypeOK
<1>2. TypeOK'
    BY <1>1, HubTypes DEF IInv
<1>3. /\ \A j \in Calls : /\ j # k => calls'[j] = calls[j]
                          /\ calls'[j].bus = calls[j].bus /\ calls'[j].client = calls[j].client
                          /\ calls'[j].channel = calls[j].channel
      /\ calls'[k].pc = "listen"
      /\ \A b \in Buses : /\ bus'[b].state = bus[b].state /\ bus'[b].handlers = bus[b].handlers
                          /\ bus'[b].ending = bus[b].ending
                          /\ b # calls[k].bus => bus'[b] = bus[b]
      /\ bus'[calls[k].bus].listener = calls[k].client
      /\ \A c \in Clients : client'[c].bus = client[c].bus /\ (c # calls[k].client => client'[c] = client[c])
      /\ client'[calls[k].client].state = "up"
    BY <1>0 DEF Connected, IInv, TypeOK, BusTypeOK, Client, Bus, Call
<1>4. References'
    <2>1. StartCall'.pc # "timer" /\ \A r \in Resubs : calls'[r].pc \notin {"returned", "threw"}
        BY <1>0, <1>3, StartIsACall DEF IInv, References, StartCall
    <2>2. \A c \in Clients : client'[c].state # "gone" => client[c].state # "gone"
        BY <1>0, <1>3 DEF IInv, Connecting
    <2> QED
        BY <1>0, <1>3, <2>1, <2>2 DEF IInv, References, StartCall
<1>5. Connecting'
    <2>1. \A j \in Calls : calls'[j].pc = "connect" =>
             calls'[j] = calls[j] /\ calls[j].client \in Clients /\ calls[j].client # calls[k].client
        BY <1>0, <1>3 DEF IInv, Connecting, References
    <2> QED
        BY <1>0, <1>3, <2>1, OthersConnect
<1>6. OnePhase' /\ Audience'
    BY <1>0, <1>3, HubFrame, StartIsACall DEF Starting, StartCall
<1>7. OwnedWithoutFaults'
    <2>1. SUFFICES ASSUME faults = 0, Ownership PROVE Ownership'
        BY DEF IInv, OwnedWithoutFaults, Connected
    <2>2. k = "start"
        BY <1>0, <2>1 DEF Ownership, Calls
    <2> QED
        BY <1>0, <1>3, <2>1, <2>2, StartIsACall DEF Ownership, StartCall, Starting, IInv, OnePhase, hubVars
<1> QED
    BY <1>2, <1>4, <1>5, <1>6, <1>7 DEF IInv

LEMMA ConnectFailsStep ==
    ASSUME IInv, NEW k \in Calls, ConnectFails(k), UNCHANGED hubVars
    PROVE  IInv'
<1>1. /\ calls[k].pc = "connect" /\ calls[k].bus \in Buses /\ calls[k].client \in Clients
      /\ AfterThrow(k) \in Call
    BY AfterThrowEffect DEF IInv, References, ConnectFails
<1>2. TypeOK'
    BY <1>1, HubTypes, FaultFrame, GoneSort DEF ConnectFails, IInv, TypeOK, BusTypeOK
<1>3. /\ \A j \in Calls : j # k => calls'[j] = calls[j]
      /\ calls'[k] = AfterThrow(k)
      /\ \A c \in Clients : c # calls[k].client => client'[c] = client[c]
      /\ client'[calls[k].client].state = "gone" /\ bus' = bus
    BY <1>1, GoneSort DEF ConnectFails, IInv, TypeOK, BusTypeOK
<1>4. References'
    BY <1>1, <1>3, AfterThrowEffect, NoCallSort, StartIsACall DEF IInv, References, StartCall
<1>5. Connecting'
    BY <1>1, <1>3, AfterThrowEffect, NoCallSort, OthersConnect DEF IInv, Connecting, References
<1>6. OnePhase' /\ Audience'
    BY <1>1, <1>3, AfterThrowEffect, HubFrame, StartIsACall DEF Starting, StartCall
<1> QED
    BY <1>2, <1>4, <1>5, <1>6, FaultFrame DEF IInv, ConnectFails

LEMMA ListenStep ==
    ASSUME IInv, NEW k \in Calls, Listen(k), UNCHANGED hubVars
    PROVE  IInv'
<1>1. /\ calls[k].pc = "listen" /\ calls[k].bus \in Buses /\ calls[k].client \in Clients
      /\ calls[k].channel \in Channels /\ AfterListen(k) \in Call
      /\ client[calls[k].client].state = "up"
    BY AfterListenEffect DEF IInv, References, Listen
<1>2. TypeOK'
    <2>1. client' \in [Clients -> Client]
        BY <1>1 DEF Listen, IInv, TypeOK, BusTypeOK, Client
    <2> QED
        BY <1>1, <2>1, HubTypes DEF Listen, IInv, TypeOK, BusTypeOK
<1>3. /\ \A j \in Calls : j # k => calls'[j] = calls[j]
      /\ calls'[k] = AfterListen(k)
      /\ \A c \in Clients : /\ client'[c].state = client[c].state /\ client'[c].bus = client[c].bus
                            /\ c # calls[k].client => client'[c] = client[c]
      /\ bus' = bus
    BY <1>1 DEF Listen, IInv, TypeOK, BusTypeOK, Client
<1>4. References'
    BY <1>1, <1>3, AfterListenEffect, NoCallSort, StartIsACall
    DEF IInv, References, StartCall, TypeOK, BusTypeOK, Call
<1>5. Connecting'
    <2>1. calls'[k].pc # "connect"
        BY <1>1, <1>3, AfterListenEffect, NoCallSort DEF IInv, TypeOK, BusTypeOK, Call
    <2> QED
        BY <1>1, <1>3, <2>1, OthersConnect DEF IInv, Connecting, References
<1>6. k = "start" => calls'[k] = [calls[k] EXCEPT !.pc = "returned"]
    BY <1>1, <1>3, AfterListenEffect
<1>7. OnePhase' /\ Audience'
    BY <1>1, <1>3, <1>6, HubFrame, StartIsACall DEF Starting, StartCall, IInv, TypeOK, BusTypeOK, Call
<1>8. OwnedWithoutFaults'
    <2>1. SUFFICES ASSUME faults = 0, Ownership PROVE Ownership'
        BY DEF IInv, OwnedWithoutFaults, Listen
    <2>2. k = "start"
        BY <1>1, <2>1 DEF Ownership, Calls
    <2> QED
        BY <1>1, <1>3, <1>6, <2>1, <2>2, StartIsACall
        DEF Ownership, StartCall, Starting, hubVars, IInv, TypeOK, BusTypeOK, Call
<1> QED
    BY <1>2, <1>4, <1>5, <1>7, <1>8 DEF IInv

LEMMA ListenFailsStep ==
    ASSUME IInv, NEW k \in Calls, ListenFails(k), UNCHANGED hubVars
    PROVE  IInv'
<1>1. /\ calls[k].pc = "listen" /\ calls[k].bus \in Buses /\ calls[k].client \in Clients
      /\ AfterThrow(k) \in Call
    BY AfterThrowEffect DEF IInv, References, ListenFails
<1>2. faults' \in 0 .. MaxFaults
    BY FaultFrame DEF ListenFails, IInv, TypeOK, BusTypeOK
<1>3. TypeOK'
    BY <1>1, <1>2, HubTypes DEF ListenFails, IInv, TypeOK, BusTypeOK
<1>4. /\ \A j \in Calls : j # k => calls'[j] = calls[j]
      /\ calls'[k] = AfterThrow(k)
      /\ bus' = bus /\ client' = client
    BY <1>1 DEF ListenFails, IInv, TypeOK, BusTypeOK
<1>5. References'
    BY <1>1, <1>4, AfterThrowEffect, NoCallSort, StartIsACall DEF IInv, References, StartCall
<1>6. Connecting'
    BY <1>1, <1>4, AfterThrowEffect, NoCallSort, OthersConnect DEF IInv, Connecting, References
<1>7. OnePhase' /\ Audience'
    BY <1>1, <1>4, AfterThrowEffect, HubFrame, StartIsACall DEF Starting, StartCall
<1>8. OwnedWithoutFaults'
    <2>1. CASE client[calls[k].client].state = "up"
        BY <2>1, FaultFrame DEF ListenFails
    <2>2. CASE client[calls[k].client].state # "up"
        BY <1>1, <2>2 DEF ListenFails, IInv, OwnedWithoutFaults, Ownership, Calls, StartCall
    <2> QED
        BY <2>1, <2>2
<1> QED
    BY <1>3, <1>5, <1>6, <1>7, <1>8 DEF IInv

\* A call that fetches the listener of a bus with a handler refers to it and to
\* a client, which is nobody else's if it is new.
LEMMA ListenerFetched ==
    ASSUME IInv, NEW k \in Calls, calls[k].pc # "connect", NEW b \in Buses, NEW ch \in Channels,
           NEW listener \in Clients \cup {NoClient}, GetListener(k, b, ch, listener),
           bus' \in [Buses -> Bus],
           \A d \in Buses : d # b => bus'[d] = bus[d],
           bus'[b].state # "none", bus'[b].handlers # {},
           {bus'[b].listener, bus'[b].ending} \subseteq {bus[b].listener, bus[b].ending, NoClient}
    PROVE  References' /\ Connecting'
<1>0. BusTypeOK
    BY DEF IInv, TypeOK
<1>1. PICK c \in Clients, pc \in {"connect", "listen"} : Fetched(k, b, ch, listener, pc, c)
    BY <1>0, GetListenerEffect
<1>2. /\ \A j \in Calls : j # k => calls'[j] = calls[j]
      /\ calls'[k] = [pc |-> pc, bus |-> b, client |-> c, channel |-> ch]
      /\ \A d \in Clients : d # c => client'[d] = client[d]
      /\ pc = "connect" => client'[c].state = "connecting" /\ client'[c].bus = b
      /\ pc = "listen" => client'[c] = client[c]
    BY <1>0, <1>1 DEF BusTypeOK, Fetched
<1>3. References'
    <2>1. StartCall'.pc # "timer" /\ \A r \in Resubs : calls'[r].pc \notin {"returned", "threw"}
        BY <1>2, StartIsACall DEF IInv, References, StartCall
    <2>2. \A d \in Buses : bus[d].state # "none" => bus'[d].state # "none"
        OBVIOUS
    <2>3. \A d \in Buses : bus[d].handlers # {} => bus'[d].handlers # {}
        OBVIOUS
    <2>4. \A j \in Calls :
            /\ calls'[j].pc # "idle" => /\ calls'[j].bus \in Buses
                                        /\ bus'[calls'[j].bus].state # "none"
                                        /\ bus'[calls'[j].bus].handlers # {}
            /\ calls'[j].pc \in {"connect", "listen"} => calls'[j].client \in Clients
            /\ calls'[j].pc \in {"connect", "listen", "returned"} => calls'[j].channel \in Channels
        BY <1>2, <2>2, <2>3 DEF IInv, References
    <2>5. \A d \in Clients : client'[d].state # "gone" =>
            client'[d].bus \in Buses /\ bus'[client'[d].bus].state # "none"
                                     /\ bus'[client'[d].bus].handlers # {}
        BY <1>2, <2>2, <2>3 DEF IInv, References
    <2> QED
        BY <2>1, <2>4, <2>5 DEF References, StartCall
<1>4. Connecting'
    <2>1. \A j \in Calls \ {k} : calls'[j].pc = "connect" =>
            /\ calls'[j] = calls[j] /\ calls[j].client \in Clients
            /\ client'[calls[j].client] = client[calls[j].client]
            /\ pc = "connect" => calls[j].client # c
        BY <1>1, <1>2 DEF IInv, References, Unreferenced, Fetched
    <2>2. \A d \in Buses, e \in Clients : bus'[d].listener = e \/ bus'[d].ending = e =>
                    bus[d].listener = e \/ bus[d].ending = e
        BY NotifyBusAssumption
    <2>3. CASE pc = "listen"
        BY <1>2, <2>1, <2>2, <2>3, OthersConnect
    <2>4. CASE pc = "connect"
        <3>1. SUFFICES ASSUME NEW j \in Calls, calls'[j].pc = "connect"
                       PROVE  /\ client'[calls'[j].client].state = "connecting"
                              /\ client'[calls'[j].client].bus = calls'[j].bus
                              /\ \A i \in Calls : calls'[i].pc = "connect" /\ calls'[i].client = calls'[j].client => i = j
                              /\ \A d \in Buses : /\ bus'[d].listener # calls'[j].client
                                                  /\ bus'[d].ending # calls'[j].client
            BY DEF Connecting
        <3>2. CASE j = k
            BY <1>1, <1>2, <2>1, <2>2, <2>4, <3>2 DEF Unreferenced, Fetched
        <3>3. CASE j # k
            <4>1. /\ calls'[j] = calls[j] /\ calls[j].client # c
                  /\ client'[calls[j].client] = client[calls[j].client]
                  /\ calls[j].client \in Clients
                BY <2>1, <2>4, <3>1, <3>3
            <4>2. \A i \in Calls : calls'[i].pc = "connect" /\ calls'[i].client = calls'[j].client => i = j
                BY <1>2, <3>1, <4>1 DEF IInv, Connecting
            <4> QED
                BY <2>2, <3>1, <4>1, <4>2 DEF IInv, Connecting
        <3> QED
            BY <3>2, <3>3
    <2> QED
        BY <2>3, <2>4
<1> QED
    BY <1>3, <1>4

LEMMA TimerFiresStep ==
    ASSUME IInv, NEW k \in Calls, TimerFires(k), UNCHANGED hubVars
    PROVE  IInv'
<1>1. /\ calls[k].pc = "timer" /\ k # "start" /\ k \in Resubs
      /\ calls[k].bus \in Buses /\ bus[calls[k].bus].handlers # {}
      /\ bus[calls[k].bus].state # "none" /\ bus' = bus /\ faults' = faults
    BY DEF IInv, References, TimerFires, StartCall, Calls
<1>2. OwnedWithoutFaults'
    BY <1>1 DEF IInv, OwnedWithoutFaults, Ownership
<1>3. CASE bus[calls[k].bus].state = "closed"
    <2>1. calls' = [calls EXCEPT ![k] = NoCall] /\ client' = client
        BY <1>3 DEF TimerFires
    <2>2. TypeOK'
        BY <1>1, <2>1, NoCallSort, HubTypes DEF IInv, TypeOK, BusTypeOK
    <2>3. /\ \A j \in Calls : j # k => calls'[j] = calls[j]
          /\ calls'[k] = NoCall
        BY <2>1 DEF IInv, TypeOK, BusTypeOK
    <2>4. References'
        BY <1>1, <2>1, <2>3, NoCallSort, StartIsACall DEF IInv, References, StartCall
    <2>5. Connecting'
        BY <1>1, <2>1, <2>3, NoCallSort, OthersConnect
    <2>6. OnePhase' /\ Audience'
        BY <1>1, <2>3, HubFrame, StartIsACall DEF Starting, StartCall
    <2> QED
        BY <1>2, <2>2, <2>4, <2>5, <2>6 DEF IInv
<1>4. CASE bus[calls[k].bus].state # "closed"
    <2> DEFINE b == calls[k].bus
    <2>1. GetListener(k, b, NextChannel(b, NoChannel), bus[b].listener)
        BY <1>4 DEF TimerFires
    <2>2. NextChannel(b, NoChannel) \in Channels /\ bus[b].listener \in Clients \cup {NoClient}
        BY <1>1, NextChannelSort DEF IInv, TypeOK, BusTypeOK, Bus, NoChannel
    <2>3. References' /\ Connecting'
        BY <1>1, <2>1, <2>2, ListenerFetched DEF IInv, TypeOK, BusTypeOK
    <2>4. /\ calls' \in [Calls -> Call] /\ client' \in [Clients -> Client]
          /\ \A j \in Calls : j # k => calls'[j] = calls[j]
        <3>1. BusTypeOK
            BY DEF IInv, TypeOK
        <3> HIDE DEF b
        <3>2. b \in Buses
            BY <1>1 DEF b
        <3>3. PICK c \in Clients, pc \in {"connect", "listen"} :
                 Fetched(k, b, NextChannel(b, NoChannel), bus[b].listener, pc, c)
            BY <2>1, <2>2, <3>1, <3>2, GetListenerEffect
        <3> QED
            BY <3>1, <3>3 DEF BusTypeOK, Fetched
    <2>5. TypeOK'
        BY <1>1, <2>4, HubTypes DEF IInv, TypeOK, BusTypeOK
    <2>6. OnePhase' /\ Audience'
        BY <1>1, <2>4, HubFrame, StartIsACall DEF Starting, StartCall
    <2> QED
        BY <1>2, <2>3, <2>5, <2>6 DEF IInv
<1> QED
    BY <1>3, <1>4

LEMMA ClientErrorStep ==
    ASSUME IInv, NEW c \in Clients, ClientError(c), UNCHANGED hubVars
    PROVE  IInv'
<1>1. PICK b \in Buses :
        /\ b = client[c].bus /\ bus[b].handlers # {} /\ bus[b].state # "none" /\ client[c].state = "up"
    BY DEF IInv, TypeOK, References, ClientError
<1> DEFINE OnTimer == [NoCall EXCEPT !.pc = "timer", !.bus = b]
<1>2. BusTypeOK /\ OnTimer \in Call /\ OnTimer.pc = "timer" /\ OnTimer.bus = b
    BY DEF IInv, TypeOK, Call, NoCall
<1>3. /\ client' = [client EXCEPT ![c] = Gone] /\ bus' = [bus EXCEPT ![b].listener = NoClient]
      /\ Fault
      /\ \/ calls' = calls
         \/ \E r \in Resubs : calls[r].pc = "idle" /\ calls' = [calls EXCEPT ![r] = OnTimer]
    BY <1>1 DEF ClientError
<1> HIDE DEF OnTimer
<1>4. /\ calls' \in [Calls -> Call]
      /\ \A j \in Calls : calls'[j] = calls[j] \/ (j \in Resubs /\ calls'[j] = OnTimer)
    <2>1. CASE calls' = calls
        BY <1>2, <2>1 DEF BusTypeOK
    <2>2. CASE \E r \in Resubs : calls[r].pc = "idle" /\ calls' = [calls EXCEPT ![r] = OnTimer]
        <3>1. PICK r \in Resubs : calls' = [calls EXCEPT ![r] = OnTimer]
            BY <2>2
        <3>2. r \in Calls /\ calls \in [Calls -> Call]
            BY <1>2, StartIsACall DEF BusTypeOK
        <3> QED
            BY <1>2, <3>1, <3>2
    <2> QED
        BY <1>3, <2>1, <2>2
<1>5. bus' = [bus EXCEPT ![b] = [bus[b] EXCEPT !.listener = NoClient]]
    BY <1>3
<1>6. bus[b] \in Bus /\ [bus[b] EXCEPT !.listener = NoClient] \in Bus
    BY <1>2 DEF BusTypeOK, Bus
<1>7. TypeOK'
    <2>1. client' \in [Clients -> Client] /\ bus' \in [Buses -> Bus]
        BY <1>2, <1>3, <1>5, <1>6, GoneSort DEF BusTypeOK
    <2> QED
        BY <1>3, <1>4, <2>1, FaultFrame, HubTypes DEF BusTypeOK, IInv
<1>8. /\ \A d \in Clients : d # c => client'[d] = client[d]
      /\ client'[c].state = "gone"
      /\ \A d \in Buses : /\ bus'[d].state = bus[d].state /\ bus'[d].handlers = bus[d].handlers
                          /\ bus'[d].ending = bus[d].ending
                          /\ bus'[d].listener \in {bus[d].listener, NoClient}
    BY <1>2, <1>3, <1>5, <1>6, GoneSort DEF BusTypeOK, Bus
<1>9. References'
    <2>1. ASSUME NEW d \in Buses, bus[d].state # "none", bus[d].handlers # {}
          PROVE  bus'[d].state # "none" /\ bus'[d].handlers # {}
        BY <1>8, <2>1
    <2>2. ASSUME NEW k \in Calls
          PROVE  /\ calls'[k].pc # "idle" => /\ calls'[k].bus \in Buses
                                             /\ bus'[calls'[k].bus].state # "none"
                                             /\ bus'[calls'[k].bus].handlers # {}
                 /\ calls'[k].pc \in {"connect", "listen"} => calls'[k].client \in Clients
                 /\ calls'[k].pc \in {"connect", "listen", "returned"} =>
                        calls'[k].channel \in Channels
        <3>1. CASE calls'[k] = calls[k]
            BY <2>1, <3>1 DEF IInv, References
        <3>2. CASE calls'[k] = OnTimer
            BY <1>1, <1>2, <2>1, <3>2
        <3> QED
            BY <1>4, <3>1, <3>2
    <2>3. StartCall'.pc # "timer"
        BY <1>4, StartIsACall DEF IInv, References, StartCall
    <2>4. \A r \in Resubs : calls'[r].pc \notin {"returned", "threw"}
        BY <1>2, <1>4, StartIsACall DEF IInv, References
    <2>5. ASSUME NEW d \in Clients, client'[d].state # "gone"
          PROVE  /\ client'[d].bus \in Buses
                 /\ bus'[client'[d].bus].state # "none" /\ bus'[client'[d].bus].handlers # {}
        <3>1. d # c /\ client'[d] = client[d]
            BY <1>8, <2>5
        <3> QED
            BY <2>1, <2>5, <3>1 DEF IInv, References
    <2> QED
        BY <2>2, <2>3, <2>4, <2>5 DEF References
<1>10. Connecting'
    <2>1. \A j \in Calls : calls'[j].pc = "connect" =>
            calls'[j] = calls[j] /\ calls[j].client # c /\ calls[j].client \in Clients
        BY <1>1, <1>2, <1>4 DEF IInv, Connecting, References
    <2> QED
        BY <1>8, <2>1, OthersConnect, NotifyBusAssumption
<1>11. OnePhase' /\ Audience'
    BY <1>4, <1>8, HubFrame, StartIsACall DEF Starting, StartCall
<1> QED
    BY <1>3, <1>7, <1>9, <1>10, <1>11, FaultFrame DEF IInv

LEMMA BusSteps ==
    ASSUME IInv, BusStep \/ BusFault, UNCHANGED hubVars
    PROVE  IInv'
BY ConnectedStep, ConnectFailsStep, ListenStep, ListenFailsStep, TimerFiresStep, ClientErrorStep
DEF BusStep, BusFault, CallStep

-------------------------------------------------------------------------------
(***************************************************************************)
(* The steps of the hub                                                    *)
(***************************************************************************)
LEMMA BusFrame ==
    ASSUME IInv, UNCHANGED busVars
    PROVE  BusTypeOK' /\ References' /\ Connecting' /\ Starting' = Starting /\ StartCall' = StartCall
<1>1. BusTypeOK'
    BY DEF IInv, TypeOK, BusTypeOK, busVars
<1>2. References'
    BY DEF IInv, References, busVars, StartCall
<1>3. Connecting'
    BY DEF IInv, Connecting, busVars
<1> QED
    BY <1>1, <1>2, <1>3 DEF Starting, StartCall, busVars

\* Steps of browsers only.
LEMMA StreamFrame ==
    ASSUME IInv, UNCHANGED <<busVars, hubBus, timer, stopping>>,
           stream' \in [Browsers -> Stream], linger' \in BOOLEAN, Audience'
    PROVE  IInv'
<1>1. OnePhase'
    BY BusFrame DEF IInv, OnePhase, busVars
<1>2. OwnedWithoutFaults'
    BY DEF IInv, OwnedWithoutFaults, Ownership, busVars, Starting, StartCall
<1> QED
    BY <1>1, <1>2, BusFrame DEF IInv, TypeOK

LEMMA StreamSort ==
    ASSUME NEW req \in Stream
    PROVE  /\ NoStream \in Stream /\ NoStream.pc = "away"
           /\ Settled(req) \in Stream /\ Settled(req).pc \in {"away", "subscribed"}
           /\ ~req.aborted => Settled(req).pc = "subscribed"
           /\ \A pc \in {"away", "stopping", "starting", "subscribed"} :
                 [req EXCEPT !.pc = pc] \in Stream /\ [req EXCEPT !.pc = pc].pc = pc
BY DEF Stream, Settled, NoStream

LEMMA AbortStep ==
    ASSUME IInv, NEW s \in Browsers, Abort(s)
    PROVE  IInv'
<1>1. stream \in [Browsers -> Stream] /\ linger \in BOOLEAN
    BY DEF IInv, TypeOK
<1>2. CASE stream[s].pc = "subscribed" /\ stream' = [stream EXCEPT ![s] = NoStream]
                                       /\ linger' = LingerAfter(linger, stream')
    <2>1. stream' \in [Browsers -> Stream] /\ linger' \in BOOLEAN
        BY <1>1, <1>2, StreamSort DEF LingerAfter
    <2>2. Audience'
        BY <1>1, <1>2, StreamSort DEF IInv, Audience, LingerAfter, Subscribers, Abort, busVars, Starting
    <2> QED
        BY <2>1, <2>2, StreamFrame DEF Abort
<1>3. CASE stream' = [stream EXCEPT ![s].aborted = TRUE] /\ linger' = linger
    <2>1. stream' \in [Browsers -> Stream] /\ linger' \in BOOLEAN
        BY <1>1, <1>3 DEF Stream
    <2>2. \A t \in Browsers : stream'[t].pc = stream[t].pc
        BY <1>1, <1>3 DEF Stream
    <2>3. Audience'
        BY <1>3, <2>2 DEF IInv, Audience, Subscribers, Abort, busVars, Starting
    <2> QED
        BY <2>1, <2>3, StreamFrame DEF Abort
<1> QED
    BY <1>2, <1>3 DEF Abort

LEMMA StoppedStep ==
    ASSUME IInv, Stopped
    PROVE  IInv'
<1>1. PICK b \in Buses : b = stopping
    BY DEF IInv, TypeOK, Stopped
<1>2. /\ hubBus = NoBus /\ ~Starting /\ BusTypeOK /\ bus[b].ending \in Clients \cup {NoClient}
      /\ calls' = calls /\ faults' = faults /\ hubBus' = hubBus /\ stopping' = NoBus
    BY <1>1 DEF IInv, TypeOK, BusTypeOK, Bus, OnePhase, Stopped
<1>3. /\ client' = [c \in Clients |-> IF c = bus[b].ending THEN Gone ELSE client[c]]
      /\ bus' = [bus EXCEPT ![b] = [bus[b] EXCEPT !.listener = NoClient, !.ending = NoClient]]
    BY <1>1 DEF Stopped, Ended
<1>4. bus[b] \in Bus /\ [bus[b] EXCEPT !.listener = NoClient, !.ending = NoClient] \in Bus
    BY <1>2 DEF BusTypeOK, Bus
<1>5. /\ \A c \in Clients : c # bus[b].ending => client'[c] = client[c]
      /\ \A c \in Clients : c = bus[b].ending => client'[c].state = "gone"
      /\ \A d \in Buses : /\ bus'[d].state = bus[d].state /\ bus'[d].handlers = bus[d].handlers
                          /\ bus'[d].ending \in {bus[d].ending, NoClient}
                          /\ bus'[d].listener \in {bus[d].listener, NoClient}
    BY <1>2, <1>3, <1>4, GoneSort DEF BusTypeOK, Bus
<1>6. TypeOK'
    <2>1. client' \in [Clients -> Client] /\ bus' \in [Buses -> Bus]
        BY <1>2, <1>3, <1>4, GoneSort DEF BusTypeOK
    <2> QED
        BY <1>2, <2>1 DEF BusTypeOK, TypeOK, IInv, Stopped
<1>7. References'
    BY <1>2, <1>5 DEF IInv, References, StartCall
<1>8. Connecting'
    <2>1. \A j \in Calls : calls'[j].pc = "connect" =>
            calls'[j] = calls[j] /\ calls[j].client # bus[b].ending /\ calls[j].client \in Clients
        BY <1>2 DEF IInv, Connecting, References
    <2> QED
        BY <1>5, <2>1, OthersConnect, NotifyBusAssumption
<1>9. OnePhase'
    BY <1>2 DEF OnePhase, Starting
<1>10. Audience'
    BY <1>2 DEF IInv, Audience, Stopped, Subscribers, Starting
<1>11. OwnedWithoutFaults'
    BY <1>1, <1>2, <1>5 DEF IInv, OwnedWithoutFaults, Ownership, Starting, StartCall
<1> QED
    BY <1>6, <1>7, <1>8, <1>9, <1>10, <1>11 DEF IInv

LEMMA LingerFiresStep ==
    ASSUME IInv, LingerFires
    PROVE  IInv'
<1>1. /\ Subscribers(stream) = {} /\ hubBus \in Buses /\ ~Starting /\ stopping = NoBus
      /\ bus[hubBus].state = "open" /\ BusTypeOK /\ bus[hubBus] \in Bus
      /\ linger' = FALSE /\ client' = client /\ calls' = calls /\ faults' = faults /\ stream' = stream
    BY DEF IInv, Audience, OnePhase, LingerFires, TypeOK, BusTypeOK
<1>2. /\ hubBus' = NoBus /\ timer' = FALSE /\ stopping' = hubBus
      /\ bus' = [bus EXCEPT ![hubBus] = [bus[hubBus] EXCEPT !.state = "closed",
                                                            !.ending = bus[hubBus].listener]]
    BY <1>1 DEF LingerFires, StopHub, Close, IInv, Audience
<1>3. [bus[hubBus] EXCEPT !.state = "closed", !.ending = bus[hubBus].listener] \in Bus
    BY <1>1 DEF Bus
<1>4. TypeOK'
    <2>1. bus' \in [Buses -> Bus]
        BY <1>1, <1>2, <1>3 DEF BusTypeOK
    <2> QED
        BY <1>1, <1>2, <2>1 DEF BusTypeOK, TypeOK, IInv
<1>5. /\ bus'[hubBus].state = "closed" /\ bus'[hubBus].ending = bus[hubBus].listener
      /\ bus'[hubBus].listener = bus[hubBus].listener /\ bus'[hubBus].handlers = bus[hubBus].handlers
      /\ \A b \in Buses : b # hubBus => bus'[b] = bus[b]
    BY <1>1, <1>2 DEF BusTypeOK, Bus
<1>6. References'
    BY <1>1, <1>5 DEF IInv, References, StartCall
<1>7. Connecting'
    <2>1. \A j \in Calls : calls'[j].pc = "connect" => calls[j].client \in Clients
        BY <1>1 DEF IInv, References
    <2>2. \A b \in Buses, c \in Clients : bus'[b].listener = c \/ bus'[b].ending = c =>
                \E d \in Buses : bus[d].listener = c \/ bus[d].ending = c
        BY <1>1, <1>5
    <2> QED
        BY <1>1, <2>1, <2>2, OthersConnect
<1>8. OnePhase'
    BY <1>1, <1>2, NotifyBusAssumption DEF OnePhase, Starting
<1>9. Audience'
    BY <1>1 DEF IInv, Audience, Subscribers, Starting
<1>10. OwnedWithoutFaults'
    BY <1>1, <1>2, <1>5, NotifyBusAssumption DEF IInv, OwnedWithoutFaults, Ownership, Starting, StartCall
<1> QED
    BY <1>4, <1>6, <1>7, <1>8, <1>9, <1>10 DEF IInv

LEMMA StartFailsStep ==
    ASSUME IInv, StartFails
    PROVE  IInv'
<1>1. /\ Starting /\ StartCall.pc = "threw" /\ BusTypeOK /\ hubBus = NoBus /\ ~linger
      /\ calls' = [calls EXCEPT !["start"] = NoCall]
      /\ UNCHANGED <<bus, client, faults, hubBus, timer, stopping, linger>>
    BY DEF IInv, OnePhase, Audience, TypeOK, StartFails, Starting, StartCall
<1>2. calls'["start"] = NoCall /\ \A j \in Calls : j # "start" => calls'[j] = calls[j]
    BY <1>1, StartIsACall DEF BusTypeOK
<1>3. /\ stream' \in [Browsers -> Stream]
      /\ \A s \in Browsers : stream'[s].pc # "starting"
                             /\ (stream'[s].pc = "subscribed" => stream[s].pc = "subscribed")
    BY StreamSort DEF IInv, TypeOK, StartFails, NoStream
<1>4. TypeOK'
    BY <1>1, <1>3, NoCallSort DEF IInv, TypeOK, BusTypeOK
<1>5. References'
    BY <1>1, <1>2, NoCallSort, StartIsACall DEF IInv, References, StartCall
<1>6. Connecting'
    <2>1. \A j \in Calls : calls'[j].pc = "connect" => calls'[j] = calls[j]
        BY <1>2, NoCallSort
    <2> QED
        BY <1>1, <2>1, OthersConnect
<1>7. OnePhase'
    BY <1>1, <1>2, NoCallSort DEF OnePhase, Starting
<1>8. Audience'
    BY <1>1, <1>3 DEF IInv, Audience
<1>9. OwnedWithoutFaults'
    BY <1>1 DEF IInv, OwnedWithoutFaults, Ownership
<1> QED
    BY <1>4, <1>5, <1>6, <1>7, <1>8, <1>9 DEF IInv

\* The first subscription of a start, on an unused bus, when the hub does nothing.
LEMMA BeginStartEffect ==
    ASSUME IInv, BeginStart, ~Starting, hubBus = NoBus, stopping = NoBus,
           UNCHANGED <<faults, hubBus, timer, stopping>>
    PROVE  BusTypeOK' /\ References' /\ Connecting' /\ OnePhase' /\ OwnedWithoutFaults' /\ Starting'
<1>1. PICK b \in Buses : Abandoned(b) /\ Subscribe(b, NewBus, 1)
    BY DEF BeginStart
<1> DEFINE Begun == [NewBus EXCEPT !.handlers = @ \cup {1}]
<1>2. BusTypeOK /\ 1 \in Channels /\ "start" \in Calls
    BY NotifyBusAssumption, StartIsACall DEF IInv, TypeOK, Channels
<1>3. /\ Begun \in Bus /\ Begun.state = "open" /\ Begun.listener = NoClient /\ Begun.ending = NoClient
      /\ Begun.handlers # {} /\ NewBus.listener = NoClient
    BY <1>2 DEF Bus, NewBus
<1>4. bus' = [bus EXCEPT ![b] = Begun] /\ GetListener("start", b, 1, NoClient)
    BY <1>1, <1>3 DEF Subscribe
<1> HIDE DEF Begun
<1>5. bus' \in [Buses -> Bus] /\ bus'[b] = Begun /\ \A d \in Buses : d # b => bus'[d] = bus[d]
    BY <1>2, <1>3, <1>4 DEF BusTypeOK
<1>6. PICK c \in Clients, pc \in {"connect", "listen"} : Fetched("start", b, 1, NoClient, pc, c)
    BY <1>2, <1>4, GetListenerEffect
<1>7. pc = "connect"
    BY <1>6, NotifyBusAssumption DEF Fetched
<1>8. /\ calls'["start"] = [pc |-> "connect", bus |-> b, client |-> c, channel |-> 1]
      /\ \A j \in Calls : j # "start" => calls'[j] = calls[j]
      /\ \A d \in Clients : d # c => client'[d] = client[d]
    BY <1>2, <1>6, <1>7 DEF Fetched, BusTypeOK
<1>9. BusTypeOK'
    BY <1>2, <1>5, <1>6 DEF Fetched, BusTypeOK
<1>10. References' /\ Connecting'
    BY <1>2, <1>3, <1>4, <1>5, ListenerFetched DEF Starting
<1>11. Starting' /\ OnePhase'
    BY <1>3, <1>5, <1>8, NotifyBusAssumption DEF OnePhase, Starting, StartCall
<1>12. OwnedWithoutFaults'
    <2>1. SUFFICES ASSUME faults = 0, Ownership PROVE Ownership'
        BY DEF IInv, OwnedWithoutFaults
    <2> QED
        BY <1>3, <1>5, <1>8, <1>11, <2>1, StartIsACall DEF Ownership, Starting, StartCall
<1> QED
    BY <1>9, <1>10, <1>11, <1>12

\* A request joins the running hub, a start under way, or begins one.
LEMMA JoinHubStep ==
    ASSUME IInv, NEW s \in Browsers, NEW req \in Stream, JoinHub(s, req, FALSE),
           stopping = NoBus, UNCHANGED <<faults, hubBus, timer, stopping>>
    PROVE  IInv'
<1>1. stream \in [Browsers -> Stream]
    BY DEF IInv, TypeOK
<1>2. CASE hubBus # NoBus
    <2>1. /\ stream' = [stream EXCEPT ![s] = Settled(req)] /\ UNCHANGED busVars
          /\ linger' = IF req.aborted THEN LingerAfter(FALSE, stream') ELSE FALSE
        BY <1>2 DEF JoinHub, busVars
    <2>2. stream' \in [Browsers -> Stream] /\ linger' \in BOOLEAN
        BY <1>1, <2>1, StreamSort DEF LingerAfter
    <2>3. Audience'
        BY <1>1, <1>2, <2>1, StreamSort DEF IInv, Audience, LingerAfter, busVars, Starting
    <2> QED
        BY <2>1, <2>2, <2>3, StreamFrame
<1>3. CASE hubBus = NoBus
    <2>1. /\ stream' = [stream EXCEPT ![s] = [req EXCEPT !.pc = "starting"]] /\ linger' = FALSE
          /\ IF Starting THEN UNCHANGED <<bus, client, calls>> ELSE BeginStart
        BY <1>3 DEF JoinHub
    <2>2. stream' \in [Browsers -> Stream] /\ \A t \in Browsers : stream'[t].pc = "subscribed" =>
                                                                   stream[t].pc = "subscribed"
        BY <1>1, <2>1, StreamSort
    <2>3. Starting' => Audience'
        BY <1>3, <2>1, <2>2 DEF IInv, Audience
    <2>4. CASE Starting
        BY <2>1, <2>2, <2>3, <2>4, BusFrame, StreamFrame DEF busVars
    <2>5. CASE ~Starting
        BY <1>3, <2>1, <2>2, <2>3, <2>5, BeginStartEffect DEF IInv, TypeOK
    <2> QED
        BY <2>4, <2>5
<1> QED
    BY <1>2, <1>3

LEMMA ArriveStep ==
    ASSUME IInv, NEW s \in Browsers, Arrive(s)
    PROVE  IInv'
<1>1. stream \in [Browsers -> Stream] /\ NoStream \in Stream
    BY StreamSort DEF IInv, TypeOK
<1>2. CASE stopping # NoBus
    <2>1. /\ stream' = [stream EXCEPT ![s] = [NoStream EXCEPT !.pc = "stopping"]] /\ linger' = FALSE
          /\ UNCHANGED <<busVars, hubBus, timer, stopping>>
        BY <1>2 DEF Arrive, busVars
    <2>2. stream' \in [Browsers -> Stream]
        BY <1>1, <2>1, StreamSort
    <2>3. stream'[s].pc = "stopping" /\ \A t \in Browsers : t # s => stream'[t] = stream[t]
        BY <1>1, <2>1, StreamSort
    <2>4. Audience'
        BY <2>1, <2>3 DEF IInv, Audience, busVars, Starting
    <2> QED
        BY <2>1, <2>2, <2>4, StreamFrame
<1>3. CASE stopping = NoBus
    BY <1>1, <1>3, JoinHubStep DEF Arrive
<1> QED
    BY <1>2, <1>3

LEMMA ResumeStep ==
    ASSUME IInv, NEW s \in Browsers, Resume(s)
    PROVE  IInv'
<1>1. stream[s] \in Stream
    BY DEF IInv, TypeOK
\* The request itself keeps a stop from being scheduled.
<1>2. linger = FALSE
    BY DEF IInv, Audience, TypeOK, Resume, Subscribers
<1> QED
    BY <1>1, <1>2, JoinHubStep DEF Resume

LEMMA StartNextStep ==
    ASSUME IInv, StartNext
    PROVE  IInv'
<1>1. PICK b \in Buses :
        /\ b = StartCall.bus /\ bus[b].state = "open" /\ bus[b].handlers # {} /\ StartCall.pc = "returned"
        /\ StartCall.channel \in Channels
    BY StartIsACall DEF IInv, References, OnePhase, StartNext, Starting, StartCall
<1>2. /\ Starting /\ hubBus = NoBus /\ stopping = NoBus /\ linger = FALSE /\ BusTypeOK /\ bus[b] \in Bus
      /\ stream \in [Browsers -> Stream] /\ faults' = faults /\ stopping' = stopping /\ "start" \in Calls
    BY <1>1, StartIsACall
    DEF IInv, OnePhase, Audience, TypeOK, BusTypeOK, StartNext, Starting, StartCall
<1>3. CASE /\ StartCall.channel < NumChannels
           /\ Subscribe(b, bus[b], StartCall.channel + 1)
           /\ UNCHANGED <<hubBus, timer, linger, stream>>
    <2> DEFINE ch == StartCall.channel + 1
               More == [bus[b] EXCEPT !.handlers = @ \cup {ch}]
    <2>1. ch \in Channels
        BY <1>1, <1>3, NotifyBusAssumption DEF Channels
    <2>2. bus' = [bus EXCEPT ![b] = More] /\ GetListener("start", b, ch, bus[b].listener)
        BY <1>3 DEF Subscribe
    <2>3. /\ More \in Bus /\ More.state = "open" /\ More.listener = bus[b].listener
          /\ More.ending = bus[b].ending /\ More.handlers # {}
        BY <1>1, <1>2, <2>1 DEF Bus
    <2> HIDE DEF More, ch
    <2>4. bus' \in [Buses -> Bus] /\ bus'[b] = More /\ \A d \in Buses : d # b => bus'[d] = bus[d]
        BY <1>2, <2>2, <2>3 DEF BusTypeOK
    <2>5. bus[b].listener \in Clients \cup {NoClient}
        BY <1>2 DEF Bus
    <2>6. PICK c \in Clients, pc \in {"connect", "listen"} : Fetched("start", b, ch, bus[b].listener, pc, c)
        BY <1>2, <2>1, <2>2, <2>5, GetListenerEffect
    <2>7. /\ calls'["start"] = [pc |-> pc, bus |-> b, client |-> c, channel |-> ch]
          /\ \A j \in Calls : j # "start" => calls'[j] = calls[j]
        BY <1>2, <2>6 DEF Fetched, BusTypeOK
    <2>8. TypeOK'
        BY <1>2, <1>3, <2>4, <2>6 DEF IInv, TypeOK, BusTypeOK, Fetched
    <2>9. References' /\ Connecting'
        BY <1>1, <1>2, <2>1, <2>2, <2>3, <2>4, <2>5, ListenerFetched DEF StartCall
    <2>10. Starting' /\ OnePhase'
        BY <1>2, <1>3, <2>3, <2>4, <2>7 DEF OnePhase, Starting, StartCall
    <2>11. Audience'
        BY <1>3, <2>10 DEF IInv, Audience, Subscribers
    <2>12. OwnedWithoutFaults'
        <3>1. SUFFICES ASSUME faults = 0, Ownership PROVE Ownership'
            BY <1>2 DEF IInv, OwnedWithoutFaults
        <3>2. /\ StartCall.client \in Clients /\ bus[b].listener = StartCall.client
              /\ client[StartCall.client].state = "up"
            BY <1>1, <3>1 DEF Ownership
        <3>3. pc = "listen" /\ c = StartCall.client /\ client' = client
            BY <2>6, <3>2, NotifyBusAssumption DEF Fetched
        <3>4. \A d \in Clients : client[d].state # "gone" => d = StartCall.client
            BY <1>2, <3>1 DEF Ownership
        <3> QED
            BY <2>3, <2>4, <2>7, <2>10, <3>1, <3>2, <3>3, <3>4, StartIsACall
            DEF Ownership, Starting, StartCall
    <2> QED
        BY <2>8, <2>9, <2>10, <2>11, <2>12 DEF IInv
<1>4. CASE /\ hubBus' = b /\ timer' = TRUE
           /\ calls' = [calls EXCEPT !["start"] = NoCall]
           /\ stream' = [s \in Browsers |-> IF stream[s].pc = "starting" THEN Settled(stream[s])
                                                                         ELSE stream[s]]
           /\ linger' = LingerAfter(linger, stream')
           /\ UNCHANGED <<bus, client>>
    <2>1. calls'["start"] = NoCall /\ \A j \in Calls : j # "start" => calls'[j] = calls[j]
        BY <1>2, <1>4 DEF BusTypeOK
    <2>2. /\ stream' \in [Browsers -> Stream]
          /\ \A s \in Browsers : stream'[s].pc # "starting"
        BY <1>2, <1>4, StreamSort
    <2>3. TypeOK'
        BY <1>2, <1>4, <2>2, NoCallSort DEF IInv, TypeOK, BusTypeOK, LingerAfter
    <2>4. References'
        BY <1>4, <2>1, NoCallSort, StartIsACall DEF IInv, References, StartCall
    <2>5. Connecting'
        <3>1. \A j \in Calls : calls'[j].pc = "connect" => calls'[j] = calls[j]
            BY <2>1, NoCallSort
        <3> QED
            BY <1>4, <3>1, OthersConnect
    <2>6. OnePhase'
        BY <1>1, <1>2, <1>4, <2>1, NoCallSort DEF OnePhase, Starting
    <2>7. Audience'
        BY <1>2, <1>4, <2>2, NotifyBusAssumption DEF Audience, LingerAfter
    <2>8. OwnedWithoutFaults'
        <3>1. SUFFICES ASSUME faults = 0, Ownership PROVE Ownership'
            BY <1>2 DEF IInv, OwnedWithoutFaults
        <3>2. \A c \in Clients : client[c].state # "gone" => c = bus[b].listener
            BY <1>1, <1>2, <3>1 DEF Ownership
        <3> QED
            BY <1>4, <2>1, <3>1, <3>2, NoCallSort, StartIsACall, NotifyBusAssumption
            DEF Ownership, Starting, StartCall
    <2> QED
        BY <2>3, <2>4, <2>5, <2>6, <2>7, <2>8 DEF IInv
<1> QED
    BY <1>1, <1>3, <1>4 DEF StartNext, StartCall

-------------------------------------------------------------------------------
(***************************************************************************)
(* The theorems                                                            *)
(***************************************************************************)
LEMMA InitIInv == Init => IInv
<1> SUFFICES ASSUME Init PROVE IInv
    OBVIOUS
<1>1. /\ bus = [b \in Buses |-> [NewBus EXCEPT !.state = "none"]] /\ client = [c \in Clients |-> Gone]
      /\ calls = [k \in Calls |-> NoCall] /\ faults = 0
      /\ hubBus = NoBus /\ timer = FALSE /\ stopping = NoBus /\ linger = FALSE
      /\ stream = [s \in Browsers |-> NoStream]
    BY DEF Init, BusInit
<1>2. [NewBus EXCEPT !.state = "none"] \in Bus
    BY DEF NewBus, Bus
<1>3. TypeOK
    <2>1. bus \in [Buses -> Bus] /\ client \in [Clients -> Client] /\ calls \in [Calls -> Call]
        BY <1>1, <1>2, NoCallSort, GoneSort
    <2>2. NoStream \in Stream
        BY DEF NoStream, Stream
    <2>3. stream \in [Browsers -> Stream]
        BY <1>1, <2>2
    <2>4. faults \in 0 .. MaxFaults
        BY <1>1, NotifyBusAssumption
    <2> QED
        BY <1>1, <2>1, <2>3, <2>4 DEF TypeOK, BusTypeOK
<1>4. References /\ Connecting
    BY <1>1, NoCallSort, GoneSort, StartIsACall DEF References, Connecting, StartCall
<1>5. OnePhase /\ Audience
    BY <1>1, NoCallSort, StartIsACall DEF OnePhase, Audience, Starting, StartCall, NoStream
<1>6. OwnedWithoutFaults
    BY <1>1, NoCallSort, GoneSort, StartIsACall DEF OwnedWithoutFaults, Ownership, StartCall
<1> QED
    BY <1>3, <1>4, <1>5, <1>6 DEF IInv

\* Whatever starts, stops, browsers and broken connections interleave: who
\* refers to what in the hub and its buses is consistent.
THEOREM HubIsConsistent == Spec => []IInv
<1>1. ASSUME IInv, Next PROVE IInv'
    <2>1. CASE StartNext
        BY <1>1, <2>1, StartNextStep
    <2>2. CASE StartFails
        BY <1>1, <2>2, StartFailsStep
    <2>3. CASE \E s \in Browsers : Arrive(s) \/ Resume(s) \/ Abort(s)
        BY <1>1, <2>3, ArriveStep, ResumeStep, AbortStep
    <2>4. CASE LingerFires
        BY <1>1, <2>4, LingerFiresStep
    <2>5. CASE Stopped
        BY <1>1, <2>5, StoppedStep
    <2>6. CASE (BusStep \/ BusFault) /\ UNCHANGED hubVars
        BY <1>1, <2>6, BusSteps
    <2> QED
        BY <1>1, <2>1, <2>2, <2>3, <2>4, <2>5, <2>6 DEF Next
<1>2. ASSUME IInv, UNCHANGED vars PROVE IInv'
    <2>1. UNCHANGED <<busVars, hubBus, timer, stopping>> /\ stream' = stream /\ linger' = linger
        BY <1>2 DEF vars, busVars
    <2>2. Audience'
        BY <1>2, <2>1 DEF IInv, Audience, Subscribers, Starting, busVars
    <2>3. stream' \in [Browsers -> Stream] /\ linger' \in BOOLEAN
        BY <1>2, <2>1 DEF IInv, TypeOK
    <2> QED
        BY <1>2, <2>1, <2>2, <2>3, StreamFrame
<1> QED
    BY <1>1, <1>2, InitIInv, PTL DEF Spec

\* Every variable has its type.
THEOREM HubTypeCorrect == Spec => []TypeOK
<1>1. IInv => TypeOK
    BY DEF IInv
<1> QED
    BY <1>1, HubIsConsistent, PTL

\* A browser whose subscribe() has returned is never left on a hub that has
\* stopped or stops.
THEOREM SubscribersHaveAHub == Spec => []SubscribedBrowsersAreServed
<1>1. IInv => SubscribedBrowsersAreServed
    BY DEF IInv, Audience, OnePhase, SubscribedBrowsersAreServed
<1> QED
    BY <1>1, HubIsConsistent, PTL

\* A stop is only scheduled for a running hub that nobody is in.
THEOREM StopsAreForIdleHubs == Spec => []StopIsScheduledForAnIdleHub
<1>1. IInv => StopIsScheduledForAnIdleHub
    BY DEF IInv, Audience, OnePhase, StopIsScheduledForAnIdleHub
<1> QED
    BY <1>1, HubIsConsistent, PTL

\* Without failures the process never has two LISTEN connections, however many
\* browsers, buses and connections there may be.
THEOREM AtMostOneListener == Spec => []OneListenConnection
<1>1. ASSUME IInv PROVE OneListenConnection
    <2> DEFINE Open == {c \in Clients : client[c].state # "gone"}
    <2>1. SUFFICES ASSUME faults = 0 PROVE Cardinality(Open) <= 1
        BY DEF OneListenConnection
    <2>2. Ownership
        BY <1>1, <2>1 DEF IInv, OwnedWithoutFaults
    <2>3. \A c, d \in Open : c = d
        BY <1>1, <2>2 DEF IInv, OnePhase, Ownership
    <2>4. Open = {} \/ \E c : Open = {c}
        BY <2>3
    <2> HIDE DEF Open
    <2>5. Open = {} => Cardinality(Open) = 0
        BY FS_EmptySet
    <2>6. \A c : Open = {c} => Cardinality(Open) = 1
        BY FS_Singleton
    <2> QED
        BY <2>4, <2>5, <2>6
<1> QED
    BY <1>1, HubIsConsistent, PTL
-------------------------------------------------------------------------------
(***************************************************************************)
(* The hub implements SharedHub                                            *)
(***************************************************************************)
LEMMA StandingIs ==
    ASSUME NEW req \in Stream
    PROVE  /\ Standing(req) = "out" <=> req.pc = "away"
           /\ Standing(req) = "in" <=> req.pc = "subscribed"
           /\ Standing(req) = "waiting" <=> req.pc \in {"stopping", "starting"} /\ ~req.aborted
           /\ Standing(req) = "leaving" <=> req.pc \in {"stopping", "starting"} /\ req.aborted
<1>1. req.pc \in {"away", "stopping", "starting", "subscribed"} /\ req.aborted \in BOOLEAN
    BY DEF Stream
<1>2. CASE req.pc = "away"
    BY <1>2 DEF Standing
<1>3. CASE req.pc = "subscribed"
    BY <1>3 DEF Standing
<1>4. CASE req.pc \in {"stopping", "starting"}
    BY <1>1, <1>4 DEF Standing
<1> QED
    BY <1>1, <1>2, <1>3, <1>4

\* Who has been answered is in, or out if it has left.
LEMMA SettledIs ==
    ASSUME NEW req \in Stream, req.pc \in {"stopping", "starting"}
    PROVE  Standing(Settled(req)) = IF Standing(req) = "waiting" THEN "in" ELSE "out"
<1>1. Settled(req) \in Stream /\ req.aborted \in BOOLEAN
    BY StreamSort DEF Stream
<1>2. CASE req.aborted
    <2>1. Settled(req).pc = "away"
        BY <1>2 DEF Settled, NoStream
    <2> QED
        BY <1>1, <1>2, <2>1, StandingIs
<1>3. CASE ~req.aborted
    <2>1. Settled(req).pc = "subscribed"
        BY <1>3, StreamSort
    <2> QED
        BY <1>1, <1>3, <2>1, StandingIs
<1> QED
    BY <1>2, <1>3

LEMMA PhaseIs ==
    ASSUME IInv
    PROVE  /\ Phase = "running" <=> hubBus # NoBus
           /\ Phase = "starting" <=> Starting
           /\ Phase = "stopping" <=> stopping # NoBus
           /\ Phase = "stopped" <=> hubBus = NoBus /\ ~Starting /\ stopping = NoBus
<1>1. hubBus # NoBus => ~Starting /\ stopping = NoBus
    BY DEF IInv, OnePhase
<1>2. Starting => stopping = NoBus
    BY DEF IInv, OnePhase
<1>3. CASE hubBus # NoBus
    BY <1>1, <1>3 DEF Phase
<1>4. CASE hubBus = NoBus /\ Starting
    BY <1>2, <1>4 DEF Phase
<1>5. CASE hubBus = NoBus /\ ~Starting /\ stopping # NoBus
    BY <1>5 DEF Phase
<1>6. CASE hubBus = NoBus /\ ~Starting /\ stopping = NoBus
    BY <1>6 DEF Phase
<1> QED
    BY <1>3, <1>4, <1>5, <1>6

Placed(st) == [s \in Browsers |-> Standing(st[s])]

LEMMA NobodyIs ==
    ASSUME NEW st \in [Browsers -> Stream]
    PROVE  Hub!Nobody(Placed(st)) <=> Subscribers(st) = {}
<1>1. \A s \in Browsers : Placed(st)[s] = Standing(st[s]) /\ st[s] \in Stream
    BY DEF Placed
<1>2. \A s \in Browsers : Placed(st)[s] = "out" <=> st[s].pc = "away"
    BY <1>1, StandingIs
<1> QED
    BY <1>2 DEF Hub!Nobody, Subscribers

\* What the bus does never shows.
LEMMA BusKeepsStart ==
    ASSUME IInv, BusStep \/ BusFault
    PROVE  Starting' <=> Starting
<1>0. "start" \in Calls /\ calls \in [Calls -> Call] /\ "start" \notin Resubs
    BY StartIsACall DEF IInv, TypeOK, BusTypeOK
<1>1. ASSUME NEW k \in Calls, Connected(k) PROVE Starting' <=> Starting
    <2>1. calls[k].pc = "connect" /\ calls' = [calls EXCEPT ![k] = [calls[k] EXCEPT !.pc = "listen"]]
        BY <1>1 DEF Connected
    <2>2. calls[k] \in Call
        BY <1>0
    <2> DEFINE next == [calls[k] EXCEPT !.pc = "listen"]
    <2>3. next.pc = "listen"
        BY <2>2 DEF Call
    <2> HIDE DEF next
    <2> QED
        BY <1>0, <2>1, <2>3 DEF Starting, next
<1>2. ASSUME NEW k \in Calls, calls[k].pc \in {"connect", "listen"},
             calls' = [calls EXCEPT ![k] = AfterThrow(k)]
      PROVE  Starting' <=> Starting
    BY <1>0, <1>2, AfterThrowEffect DEF Starting
<1>3. ASSUME NEW k \in Calls, Listen(k) PROVE Starting' <=> Starting
    <2>1. calls[k].pc = "listen" /\ calls' = [calls EXCEPT ![k] = AfterListen(k)]
        BY <1>3 DEF Listen
    <2>2. k = "start" => AfterListen(k).pc = "returned"
        BY <1>0, <2>1, AfterListenEffect DEF Call
    <2> QED
        BY <1>0, <2>1, <2>2 DEF Starting
<1>4. ASSUME NEW k \in Calls, TimerFires(k) PROVE Starting' <=> Starting
    <2>1. k # "start"
        BY <1>4 DEF TimerFires, IInv, References, StartCall
    <2>2. calls'["start"] = calls["start"]
        BY <1>0, <1>4, <2>1 DEF TimerFires, GetListener
    <2> QED
        BY <2>2 DEF Starting
<1>5. ASSUME NEW c \in Clients, ClientError(c) PROVE Starting' <=> Starting
    <2>1. calls'["start"] = calls["start"]
        <3>1. CASE calls' = calls
            BY <3>1
        <3>2. CASE calls' # calls
            <4> DEFINE r == CHOOSE q \in Resubs : calls[q].pc = "idle"
            <4>1. /\ \E q \in Resubs : calls[q].pc = "idle"
                  /\ calls' = [calls EXCEPT ![r] = [NoCall EXCEPT !.pc = "timer", !.bus = client[c].bus]]
                BY <1>5, <3>2 DEF ClientError
            <4>2. r \in Resubs
                BY <4>1
            <4> HIDE DEF r
            <4> QED
                BY <1>0, <4>1, <4>2
        <3> QED
            BY <3>1, <3>2
    <2> QED
        BY <2>1 DEF Starting
<1> QED
    BY <1>1, <1>2, <1>3, <1>4, <1>5 DEF BusStep, BusFault, CallStep, ConnectFails, ListenFails
LEMMA InitHub == Init => Hub!Init
<1> SUFFICES ASSUME Init PROVE Hub!Init
    OBVIOUS
<1>1. /\ hubBus = NoBus /\ stopping = NoBus /\ linger = FALSE /\ ~Starting
      /\ \A s \in Browsers : stream[s] = NoStream
    BY NoCallSort, StartIsACall DEF Init, BusInit, Starting
<1>2. Phase = "stopped"
    BY <1>1 DEF Phase
<1>3. Standing(NoStream) = "out"
    BY DEF Standing, NoStream
<1> QED
    BY <1>1, <1>2, <1>3 DEF Hub!Init, Who

LEMMA ArriveHub ==
    ASSUME IInv, IInv', NEW s \in Browsers, Arrive(s)
    PROVE  Hub!Come(s)
<1>1. stream \in [Browsers -> Stream] /\ stream' \in [Browsers -> Stream] /\ NoStream \in Stream /\ ~NoStream.aborted
    BY StreamSort DEF IInv, TypeOK, NoStream
<1>2. stream[s].pc = "away" /\ hubBus' = hubBus /\ stopping' = stopping
    BY DEF Arrive
<1>3. Who[s] = "out"
    BY <1>1, <1>2, StandingIs DEF Who
<1>4. ASSUME NEW pc \in {"stopping", "starting", "subscribed"},
             stream' = [stream EXCEPT ![s] = [NoStream EXCEPT !.pc = pc]]
      PROVE  Who' = [Who EXCEPT ![s] = IF pc = "subscribed" THEN "in" ELSE "waiting"]
    <2>1. [NoStream EXCEPT !.pc = pc] \in Stream /\ [NoStream EXCEPT !.pc = pc].pc = pc
          /\ ~[NoStream EXCEPT !.pc = pc].aborted
        BY <1>1, StreamSort DEF NoStream
    <2>2. Standing([NoStream EXCEPT !.pc = pc]) = IF pc = "subscribed" THEN "in" ELSE "waiting"
        BY <2>1, StandingIs
    <2> QED
        BY <1>1, <1>4, <2>2 DEF Who
<1>5. CASE stopping # NoBus
    <2>1. stream' = [stream EXCEPT ![s] = [NoStream EXCEPT !.pc = "stopping"]] /\ linger' = FALSE
          /\ calls' = calls
        BY <1>5 DEF Arrive
    <2>2. Who' = [Who EXCEPT ![s] = "waiting"]
        BY <1>4, <2>1
    <2>3. Phase = "stopping" /\ Phase' = "stopping"
        BY <1>2, <1>5, PhaseIs DEF Phase, IInv, OnePhase
    <2> QED
        BY <1>3, <2>1, <2>2, <2>3 DEF Hub!Come
<1>6. CASE stopping = NoBus /\ hubBus # NoBus
    <2>1. stream' = [stream EXCEPT ![s] = Settled(NoStream)] /\ linger' = FALSE /\ calls' = calls
        BY <1>1, <1>6 DEF Arrive, JoinHub
    <2>2. Settled(NoStream) = [NoStream EXCEPT !.pc = "subscribed"]
        BY <1>1 DEF Settled
    <2>3. Who' = [Who EXCEPT ![s] = "in"]
        BY <1>4, <2>1, <2>2
    <2>4. Phase = "running" /\ Phase' = "running"
        BY <1>2, <1>6 DEF Phase
    <2> QED
        BY <1>3, <2>1, <2>3, <2>4 DEF Hub!Come
<1>7. CASE stopping = NoBus /\ hubBus = NoBus
    <2>1. /\ stream' = [stream EXCEPT ![s] = [NoStream EXCEPT !.pc = "starting"]] /\ linger' = FALSE
          /\ IF Starting THEN UNCHANGED <<bus, client, calls>> ELSE BeginStart
        BY <1>7 DEF Arrive, JoinHub
    <2>2. Who' = [Who EXCEPT ![s] = "waiting"]
        BY <1>4, <2>1
    <2>3. Starting'
        <3>1. stream'[s].pc = "starting"
            BY <1>1, <2>1, StreamSort
        <3> QED
            BY <3>1 DEF IInv, Audience
    <2>4. Phase' = "starting"
        BY <1>2, <1>7, <2>3 DEF Phase
    <2>5. Phase \in {"starting", "stopped"}
        BY <1>7 DEF Phase
    <2> QED
        BY <1>3, <2>1, <2>2, <2>4, <2>5 DEF Hub!Come
<1> QED
    BY <1>5, <1>6, <1>7

\* Who has waited for the stop joins the hub that runs or starts, or begins a start.
LEMMA ResumeHub ==
    ASSUME IInv, IInv', NEW s \in Browsers, Resume(s)
    PROVE  Hub!Next \/ UNCHANGED <<Phase, linger, Who>>
<1>1. /\ stream \in [Browsers -> Stream] /\ stream' \in [Browsers -> Stream]
      /\ stream[s] \in Stream /\ stream[s].pc = "stopping" /\ stopping = NoBus
      /\ hubBus' = hubBus /\ stopping' = stopping
    BY DEF IInv, TypeOK, Resume
<1>2. linger = FALSE /\ Subscribers(stream) # {}
    BY <1>1 DEF IInv, Audience, TypeOK, Subscribers
<1>3. JoinHub(s, stream[s], FALSE)
    BY <1>2 DEF Resume
<1>4. Who[s] \in {"waiting", "leaving"} /\ DOMAIN Who = Browsers
    BY <1>1, StandingIs DEF Who, Stream
<1>5. CASE hubBus # NoBus
    <2>1. /\ stream' = [stream EXCEPT ![s] = Settled(stream[s])]
          /\ linger' = IF stream[s].aborted THEN LingerAfter(FALSE, stream') ELSE FALSE
        BY <1>3, <1>5 DEF JoinHub
    <2>2. Phase = "running" /\ Phase' = "running"
        BY <1>1, <1>5 DEF Phase
    <2>3. Who' = [t \in Browsers |-> IF t \notin {s} THEN Who[t]
                                     ELSE IF Who[t] = "waiting" THEN "in" ELSE "out"]
        BY <1>1, <2>1, SettledIs DEF Who
    <2>4. linger' = Hub!Nobody(Who')
        <3>1. Hub!Nobody(Who') <=> Subscribers(stream') = {}
            <4>1. Hub!Nobody(Placed(stream')) <=> Subscribers(stream') = {}
                BY <1>1, NobodyIs
            <4>2. Who' = Placed(stream')
                BY DEF Who, Placed
            <4> QED
                BY <4>1, <4>2
        <3>2. ~stream[s].aborted => stream'[s].pc = "subscribed"
            BY <1>1, <2>1, StreamSort
        <3>3. ~stream[s].aborted => Subscribers(stream') # {}
            BY <3>2 DEF Subscribers
        <3>4. linger' \in BOOLEAN /\ (linger' <=> Subscribers(stream') = {})
            BY <2>1, <3>3 DEF LingerAfter, IInv, TypeOK
        <3> QED
            BY <3>1, <3>4 DEF Hub!Nobody
    <2>5. {s} \in SUBSET Hub!Waiting
        BY <1>4 DEF Hub!Waiting
    <2>6. Hub!Admit
        BY <2>2, <2>3, <2>4, <2>5 DEF Hub!Admit
    <2> QED
        BY <2>6 DEF Hub!Next
<1>6. CASE hubBus = NoBus
    <2>1. /\ stream' = [stream EXCEPT ![s] = [stream[s] EXCEPT !.pc = "starting"]] /\ linger' = FALSE
        BY <1>3, <1>6 DEF JoinHub
    <2>2. Who' = Who
        <3>1. Standing([stream[s] EXCEPT !.pc = "starting"]) = Standing(stream[s])
            BY <1>1 DEF Standing, Stream
        <3> QED
            BY <1>1, <2>1, <3>1 DEF Who
    <2>3. Phase' = "starting"
        <3>1. stream'[s].pc = "starting"
            BY <1>1, <2>1, StreamSort
        <3>2. Starting'
            BY <3>1 DEF IInv, Audience
        <3> QED
            BY <1>1, <1>6, <3>2 DEF Phase
    <2>4. CASE Starting
        BY <1>1, <1>2, <1>6, <2>1, <2>2, <2>3, <2>4 DEF Phase
    <2>5. CASE ~Starting
        <3>1. Phase = "stopped"
            BY <1>1, <1>6, <2>5 DEF Phase
        <3>2. ~Hub!Nobody(Who)
            <4>1. Who = Placed(stream)
                BY DEF Who, Placed
            <4> QED
                BY <1>1, <1>2, <4>1, NobodyIs
        <3> QED
            BY <1>2, <2>1, <2>2, <2>3, <3>1, <3>2 DEF Hub!Next, Hub!Begin
    <2> QED
        BY <2>4, <2>5
<1> QED
    BY <1>5, <1>6

LEMMA AbortHub ==
    ASSUME IInv, IInv', NEW s \in Browsers, Abort(s)
    PROVE  Hub!GiveUp(s) \/ Hub!Leave(s)
<1>1. /\ stream \in [Browsers -> Stream] /\ stream' \in [Browsers -> Stream] /\ stream[s] \in Stream
      /\ stream[s].pc # "away" /\ ~stream[s].aborted /\ NoStream \in Stream /\ NoStream.pc = "away"
      /\ linger' \in BOOLEAN
    BY StreamSort DEF IInv, TypeOK, Abort
<1>2. Phase' = Phase
    <2>1. hubBus' = hubBus /\ stopping' = stopping /\ calls' = calls
        BY DEF Abort, busVars
    <2> QED
        BY <2>1 DEF Phase, Starting
<1>3. CASE stream[s].pc = "subscribed"
    <2>1. stream' = [stream EXCEPT ![s] = NoStream] /\ linger' = LingerAfter(linger, stream')
        BY <1>3 DEF Abort
    <2>2. Who[s] = "in" /\ Who' = [Who EXCEPT ![s] = "out"]
        BY <1>1, <1>3, <2>1, StandingIs DEF Who
    <2>3. linger = FALSE
        BY <1>1 DEF IInv, Audience, TypeOK, Subscribers
    <2>4. linger' = Hub!Nobody(Who')
        <3>1. Hub!Nobody(Who') <=> Subscribers(stream') = {}
            <4>1. Hub!Nobody(Placed(stream')) <=> Subscribers(stream') = {}
                BY <1>1, NobodyIs
            <4>2. Who' = Placed(stream')
                BY DEF Who, Placed
            <4> QED
                BY <4>1, <4>2
        <3> QED
            BY <1>1, <2>1, <2>3, <3>1 DEF LingerAfter, Hub!Nobody
    <2> QED
        BY <1>2, <2>2, <2>4 DEF Hub!Leave
<1>4. CASE stream[s].pc # "subscribed"
    <2>1. stream' = [stream EXCEPT ![s] = [stream[s] EXCEPT !.aborted = TRUE]] /\ linger' = linger
        BY <1>1, <1>4 DEF Abort
    <2>2. [stream[s] EXCEPT !.aborted = TRUE] \in Stream /\ stream[s].pc \in {"stopping", "starting"}
          /\ [stream[s] EXCEPT !.aborted = TRUE].pc = stream[s].pc
          /\ [stream[s] EXCEPT !.aborted = TRUE].aborted
        BY <1>1, <1>4 DEF Stream
    <2>3. Who[s] = "waiting" /\ Who' = [Who EXCEPT ![s] = "leaving"]
        BY <1>1, <2>1, <2>2, StandingIs DEF Who
    <2> QED
        BY <1>2, <2>1, <2>3 DEF Hub!GiveUp
<1> QED
    BY <1>3, <1>4

LEMMA StartNextHub ==
    ASSUME IInv, IInv', StartNext
    PROVE  Hub!Admit \/ UNCHANGED <<Phase, linger, Who>>
<1>1. /\ stream \in [Browsers -> Stream] /\ stream' \in [Browsers -> Stream]
      /\ StartCall.pc = "returned" /\ StartCall.bus \in Buses /\ linger' \in BOOLEAN
      /\ calls \in [Calls -> Call] /\ "start" \in Calls
    BY StartIsACall DEF IInv, TypeOK, BusTypeOK, StartNext, StartCall, References
<1>2. /\ Starting /\ hubBus = NoBus /\ stopping = NoBus /\ linger = FALSE /\ stopping' = stopping
    BY <1>1 DEF IInv, OnePhase, Audience, TypeOK, StartNext, Starting, StartCall
<1>3. Phase = "starting"
    BY <1>2 DEF Phase
<1>4. CASE /\ StartCall.channel < NumChannels
           /\ Subscribe(StartCall.bus, bus[StartCall.bus], StartCall.channel + 1)
           /\ UNCHANGED <<hubBus, timer, linger, stream>>
    <2>1. Starting'
        BY <1>1, <1>4 DEF Subscribe, GetListener, Starting
    <2>2. Phase' = "starting"
        BY <1>2, <1>4, <2>1 DEF Phase
    <2> QED
        BY <1>3, <1>4, <2>2 DEF Who
<1>5. CASE /\ hubBus' = StartCall.bus
           /\ stream' = [s \in Browsers |-> IF stream[s].pc = "starting" THEN Settled(stream[s])
                                                                         ELSE stream[s]]
           /\ linger' = LingerAfter(linger, stream')
    <2> DEFINE some == {s \in Browsers : stream[s].pc = "starting"}
    <2>1. Phase' = "running"
        BY <1>1, <1>5, NotifyBusAssumption DEF Phase
    <2>2. \A s \in Browsers : stream[s] \in Stream
        BY <1>1
    <2>3. Who' = [s \in Browsers |-> IF s \notin some THEN Who[s]
                                     ELSE IF Who[s] = "waiting" THEN "in" ELSE "out"]
        <3>1. \A s \in Browsers : Standing(stream'[s]) = IF s \notin some THEN Standing(stream[s])
                                    ELSE IF Standing(stream[s]) = "waiting" THEN "in" ELSE "out"
            BY <1>5, <2>2, SettledIs
        <3> QED
            BY <3>1 DEF Who
    <2>4. some \in SUBSET Hub!Waiting
        BY <2>2, StandingIs DEF Hub!Waiting, Who, Stream
    <2>5. linger' = Hub!Nobody(Who')
        <3>1. Hub!Nobody(Who') <=> Subscribers(stream') = {}
            <4>1. Hub!Nobody(Placed(stream')) <=> Subscribers(stream') = {}
                BY <1>1, NobodyIs
            <4>2. Who' = Placed(stream')
                BY DEF Who, Placed
            <4> QED
                BY <4>1, <4>2
        <3> QED
            BY <1>1, <1>2, <1>5, <3>1 DEF LingerAfter, Hub!Nobody
    <2> HIDE DEF some
    <2> QED
        BY <1>3, <2>1, <2>3, <2>4, <2>5 DEF Hub!Admit
<1> QED
    BY <1>4, <1>5 DEF StartNext, StartCall

LEMMA StartFailsHub ==
    ASSUME IInv, IInv', StartFails
    PROVE  Hub!Refuse
<1>1. /\ stream \in [Browsers -> Stream] /\ StartCall.pc = "threw" /\ calls'["start"] = NoCall
      /\ hubBus' = hubBus /\ stopping' = stopping /\ linger' = linger
      /\ stream' = [s \in Browsers |-> IF stream[s].pc = "starting" THEN NoStream ELSE stream[s]]
    BY StartIsACall DEF IInv, TypeOK, BusTypeOK, StartFails, StartCall
<1>2. Starting /\ hubBus = NoBus /\ stopping = NoBus /\ ~Starting'
    BY <1>1, NoCallSort DEF IInv, OnePhase, Starting, StartCall
<1>3. Phase = "starting" /\ Phase' = "stopped"
    BY <1>1, <1>2 DEF Phase
<1> DEFINE some == {s \in Browsers : stream[s].pc = "starting"}
<1>4. \A s \in Browsers : stream[s] \in Stream
    BY <1>1
<1>5. Standing(NoStream) = "out"
    BY DEF Standing, NoStream
<1>6. Who' = [s \in Browsers |-> IF s \in some THEN "out" ELSE Who[s]]
    BY <1>1, <1>5 DEF Who
<1>7. some \in SUBSET Hub!Waiting
    BY <1>4, StandingIs DEF Hub!Waiting, Who, Stream
<1> HIDE DEF some
<1> QED
    BY <1>1, <1>3, <1>6, <1>7 DEF Hub!Refuse

LEMMA LingerFiresHub ==
    ASSUME IInv, IInv', LingerFires
    PROVE  Hub!Stop
<1>1. /\ Subscribers(stream) = {} /\ hubBus # NoBus /\ ~Starting /\ linger
      /\ linger' = FALSE /\ stream' = stream /\ calls' = calls
    BY DEF IInv, Audience, LingerFires
<1>2. hubBus' = NoBus /\ stopping' = hubBus
    BY <1>1 DEF LingerFires, StopHub
<1>3. Phase = "running" /\ Phase' = "stopping"
    BY <1>1, <1>2 DEF Phase, Starting
<1>4. Hub!Nobody(Who)
    <2>1. stream \in [Browsers -> Stream] /\ Who = Placed(stream)
        BY DEF IInv, TypeOK, Who, Placed
    <2> QED
        BY <1>1, <2>1, NobodyIs
<1> QED
    BY <1>1, <1>3, <1>4 DEF Hub!Stop, Who

LEMMA StoppedHub ==
    ASSUME IInv, IInv', Stopped
    PROVE  Hub!End
<1>1. /\ stopping # NoBus /\ stopping' = NoBus /\ hubBus' = hubBus /\ calls' = calls
      /\ linger' = linger /\ stream' = stream
    BY DEF Stopped
<1>2. hubBus = NoBus /\ ~Starting
    BY <1>1 DEF IInv, OnePhase
<1>3. Phase = "stopping" /\ Phase' = "stopped"
    BY <1>1, <1>2 DEF Phase, Starting
<1> QED
    BY <1>1, <1>3 DEF Hub!End, Who

\* For any number of browsers, channels, connections and faults: the hub, with its
\* promises, timers and buses, is one that its browsers share as SharedHub says.
THEOREM HubImplementsSharedHub == Spec => SharedHubSpec
<1>1. ASSUME IInv, IInv', Next
      PROVE  Hub!Next \/ UNCHANGED <<Phase, linger, Who>>
    <2>1. CASE StartNext
        BY <1>1, <2>1, StartNextHub DEF Hub!Next
    <2>2. CASE StartFails
        BY <1>1, <2>2, StartFailsHub DEF Hub!Next
    <2>3. ASSUME NEW s \in Browsers, Arrive(s) \/ Resume(s) \/ Abort(s)
          PROVE  Hub!Next \/ UNCHANGED <<Phase, linger, Who>>
        BY <1>1, <2>3, ArriveHub, ResumeHub, AbortHub DEF Hub!Next
    <2>4. CASE LingerFires
        BY <1>1, <2>4, LingerFiresHub DEF Hub!Next
    <2>5. CASE Stopped
        BY <1>1, <2>5, StoppedHub DEF Hub!Next
    <2>6. CASE (BusStep \/ BusFault) /\ UNCHANGED hubVars
        <3>1. Starting' <=> Starting
            BY <1>1, <2>6, BusKeepsStart
        <3> QED
            BY <2>6, <3>1 DEF hubVars, Phase, Who
    <2> QED
        BY <1>1, <2>1, <2>2, <2>3, <2>4, <2>5, <2>6 DEF Next
<1>2. IInv /\ IInv' /\ [Next]_vars => [Hub!Next]_<<Phase, linger, Who>>
    <2>1. UNCHANGED vars => UNCHANGED <<Phase, linger, Who>>
        BY DEF vars, Phase, Who, Starting
    <2> QED
        BY <1>1, <2>1
<1> QED
    BY InitHub, <1>2, HubIsConsistent, PTL DEF Spec, SharedHubSpec, Hub!Spec
===============================================================================

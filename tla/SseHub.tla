-------------------------------- MODULE SseHub --------------------------------
(***************************************************************************)
(* The SSE hub of the web process (apps/web/src/server/realtime.ts) with   *)
(* its stream route (app/api/stream/route.ts) and its buses (NotifyBus):   *)
(* browsers come and go, also while the hub starts or stops.               *)
(*                                                                         *)
(* What is sent, and the operating figures pushed every two seconds, are   *)
(* left out: the model is about who is connected to what.                  *)
(***************************************************************************)
EXTENDS NotifyBus

CONSTANT Browsers   \* BOUND: streams open at once

VARIABLES
    hubBus,     \* h.bus
    timer,      \* h.timer is set
    stopping,   \* the bus being closed by h.stopping, or NoBus
    linger,     \* h.lingerTimer is set
    stream      \* per browser, its request

hubVars == <<hubBus, timer, stopping, linger, stream>>
vars == <<bus, client, calls, faults, hubBus, timer, stopping, linger, stream>>

\* "away": no request; "stopping", "starting": subscribe() awaits h.stopping,
\* h.starting; "subscribed": it has returned.  aborted: the browser has left.
Stream == [pc : {"away", "stopping", "starting", "subscribed"}, aborted : BOOLEAN]

NoStream == [pc |-> "away", aborted |-> FALSE]

Init ==
    /\ BusInit
    /\ hubBus = NoBus /\ timer = FALSE
    /\ stopping = NoBus /\ linger = FALSE
    /\ stream = [s \in Browsers |-> NoStream]

NeverStarting == FALSE

\* h.starting
Starting == calls["start"].pc # "idle"

\* h.subscribers: a request is in it from its arrival on.
Subscribers(st) == {s \in Browsers : st[s].pc # "away"}

LingerAlways(pending, st) == TRUE

LingerNever(pending, st) == pending

\* h.lingerTimer after the release of a subscription: the last one to go
\* schedules the stop.
LingerAfter(pending, st) == pending \/ Subscribers(st) = {}

-------------------------------------------------------------------------------
(***************************************************************************)
(* subscribe, start                                                        *)
(***************************************************************************)
\* subscribe() has returned to the route, which releases at once a request
\* that was aborted meanwhile.
Settled(req) == IF req.aborted THEN NoStream ELSE [req EXCEPT !.pc = "subscribed"]

\* The new bus and its first subscription.
BeginStart ==
    LET Unused(b) == Abandoned(b) /\ b # stopping
    IN  /\ \E b \in Buses : Unused(b)
        /\ Subscribe(CHOOSE b \in Buses : Unused(b), NewBus, 1)

\* start() when nothing is being stopped (any more).
JoinHub(s, req, pending) ==
    \/ /\ hubBus # NoBus
       /\ stream' = [stream EXCEPT ![s] = Settled(req)]
       /\ linger' = IF req.aborted THEN LingerAfter(pending, stream') ELSE pending
       /\ UNCHANGED <<bus, client, calls>>
    \/ /\ hubBus = NoBus
       /\ stream' = [stream EXCEPT ![s] = [req EXCEPT !.pc = "starting"]]
       /\ linger' = pending
       /\ IF Starting THEN UNCHANGED <<bus, client, calls>> ELSE BeginStart

\* A request: subscribe() registers it, start() cancels a scheduled stop.
Arrive(s) ==
    /\ stream[s].pc = "away"
    /\ IF stopping # NoBus
       THEN /\ stream' = [stream EXCEPT ![s] = [NoStream EXCEPT !.pc = "stopping"]]
            /\ linger' = FALSE
            /\ UNCHANGED <<bus, client, calls>>
       ELSE JoinHub(s, NoStream, FALSE)
    /\ UNCHANGED <<faults, hubBus, timer, stopping>>

\* start() goes on after its await of h.stopping.
Resume(s) ==
    /\ stream[s].pc = "stopping" /\ stopping = NoBus
    /\ JoinHub(s, stream[s], linger)
    /\ UNCHANGED <<faults, hubBus, timer, stopping>>

\* A subscription of the start is done: the next one, or the hub runs and
\* everyone who waited is subscribed.
StartNext ==
    LET call == calls["start"]
    IN  /\ call.pc = "returned"
        /\ \/ /\ call.channel < NumChannels
              /\ Subscribe(call.bus, bus[call.bus], call.channel + 1)
              /\ UNCHANGED <<hubBus, timer, linger, stream>>
           \/ /\ call.channel = NumChannels
              /\ hubBus' = call.bus /\ timer' = TRUE
              /\ calls' = [calls EXCEPT !["start"] = NoCall]
              /\ stream' = [s \in Browsers |-> IF stream[s].pc = "starting" THEN Settled(stream[s])
                                                                          ELSE stream[s]]
              /\ linger' = LingerAfter(linger, stream')
              /\ UNCHANGED <<bus, client>>
        /\ UNCHANGED <<faults, stopping>>

\* A subscription of the start threw: so do start() and everyone's subscribe().
StartFails ==
    /\ calls["start"].pc = "threw"
    /\ calls' = [calls EXCEPT !["start"] = NoCall]
    /\ stream' = [s \in Browsers |-> IF stream[s].pc = "starting" THEN NoStream ELSE stream[s]]
    /\ UNCHANGED <<bus, client, faults, hubBus, timer, stopping, linger>>

-------------------------------------------------------------------------------
\* The browser leaves: cleanup() releases the subscription if there is one yet.
Abort(s) ==
    /\ stream[s].pc # "away" /\ ~stream[s].aborted
    /\ \/ /\ stream[s].pc = "subscribed"
          /\ stream' = [stream EXCEPT ![s] = NoStream]
          /\ linger' = LingerAfter(linger, stream')
       \/ /\ stream[s].pc # "subscribed"
          /\ stream' = [stream EXCEPT ![s].aborted = TRUE]
          /\ UNCHANGED linger
    /\ UNCHANGED <<busVars, hubBus, timer, stopping>>

StopHubLate == UNCHANGED hubBus /\ timer' = FALSE /\ stopping' = hubBus /\ Close(hubBus)

\* The hub is cleared before close() is waited for.
StopHub == hubBus' = NoBus /\ timer' = FALSE /\ stopping' = hubBus /\ Close(hubBus)

\* The scheduled stop: stopIfIdle, which waits for a start.
LingerFires ==
    /\ linger /\ ~Starting
    /\ linger' = FALSE
    /\ IF Subscribers(stream) # {} \/ hubBus = NoBus
       THEN UNCHANGED <<bus, hubBus, timer, stopping>>
       ELSE StopHub
    /\ UNCHANGED <<client, calls, faults, stream>>

\* close() is done.
Stopped ==
    /\ stopping # NoBus
    /\ Ended(stopping)
    /\ stopping' = NoBus
    /\ UNCHANGED <<calls, faults, hubBus, timer, linger, stream>>

-------------------------------------------------------------------------------
\* Nothing comes between a subscription that is over and what start() does then.
Continuing == calls["start"].pc \in {"returned", "threw"}

Next ==
    \/ StartNext
    \/ StartFails
    \/ /\ ~Continuing
       /\ \/ \E s \in Browsers : Arrive(s) \/ Resume(s) \/ Abort(s)
          \/ LingerFires
          \/ Stopped
          \/ (BusStep \/ BusFault) /\ UNCHANGED hubVars

Spec == Init /\ [][Next]_vars

(***************************************************************************)
(* Timers fire and awaits are answered; an answer is an error at most      *)
(* MaxFaults times, that is, the database accepts connections in the end.  *)
(* What starts the hub, every resubscription, and the stop with those who  *)
(* wait for it, are one sequential activity each.  Browsers are under no   *)
(* obligation.                                                             *)
(***************************************************************************)
Fairness ==
    /\ WF_vars((CallStep("start") /\ UNCHANGED hubVars) \/ StartNext \/ StartFails)
    /\ \A r \in Resubs : WF_vars(CallStep(r) /\ UNCHANGED hubVars)
    /\ WF_vars(LingerFires \/ Stopped \/ \E s \in Browsers : Resume(s))

FairSpec == Spec /\ Fairness
-------------------------------------------------------------------------------
TypeOK ==
    /\ BusTypeOK
    /\ hubBus \in Buses \cup {NoBus}
    /\ stopping \in Buses \cup {NoBus}
    /\ timer \in BOOLEAN /\ linger \in BOOLEAN
    /\ stream \in [Browsers -> Stream]

\* A browser whose subscribe() has returned is never left on a stopped hub: the
\* hub has its timer and a bus that nobody closes, however starts, stops and
\* other browsers interleave.
SubscribedBrowsersAreServed ==
    \A s \in Browsers : stream[s].pc = "subscribed" =>
        hubBus # NoBus /\ timer /\ bus[hubBus].state = "open"

\* The hub seen from outside.
Phase ==
    CASE hubBus # NoBus                                  -> "running"
      [] hubBus = NoBus /\ Starting                      -> "starting"
      [] hubBus = NoBus /\ ~Starting /\ stopping # NoBus -> "stopping"
      [] hubBus = NoBus /\ ~Starting /\ stopping = NoBus -> "stopped"

Standing(req) ==
    CASE req.pc = "away"                 -> "out"
      [] req.pc = "subscribed"           -> "in"
      [] req.pc \in {"stopping", "starting"} -> IF req.aborted THEN "leaving" ELSE "waiting"

Who == [s \in Browsers |-> Standing(stream[s])]

Hub == INSTANCE SharedHub WITH phase <- Phase, stopDue <- linger, who <- Who

\* However requests, starts, stops and broken connections interleave, the hub is
\* one that its browsers share: it starts for the first, admits those who waited,
\* stops only when nobody is in it or waits for it, and a stop is due as soon as
\* the last one has gone, those included who left before they were admitted.
SharedHubSpec == Hub!Spec

\* A stop is only ever scheduled for an idle hub that runs: not for one that
\* starts or stops, or that a browser has come back to.
StopIsScheduledForAnIdleHub ==
    linger => Subscribers(stream) = {} /\ hubBus # NoBus /\ ~Starting /\ stopping = NoBus

\* However many browsers come and go, the process holds one LISTEN connection:
\* without failures never two at once.
OneListenConnection ==
    faults = 0 => Cardinality({c \in Clients : client[c].state # "gone"}) <= 1

Watching(s) == stream[s].pc # "away" /\ ~stream[s].aborted

\* A hub nobody watches stops, also when the browsers left before their
\* subscriptions were done.
UnwatchedHubStops ==
    hubBus # NoBus /\ (\A s \in Browsers : ~Watching(s))
        ~> hubBus = NoBus \/ \E s \in Browsers : Watching(s)

Hears(b, ch) ==
    \E c \in Clients : client[c].bus = b /\ client[c].state = "up" /\ ch \in client[c].listens

\* A running hub hears every channel, again after its connection broke, also
\* when the resubscription fails, or when several overlap.
EveryChannelIsHeard ==
    hubBus # NoBus ~> hubBus = NoBus \/ \A ch \in Channels : Hears(hubBus, ch)
===============================================================================

------------------------------ MODULE RestClient ------------------------------
(***************************************************************************)
(* REST requests and the weight guard they share: packages/shared/src/     *)
(* binance/rest.ts (request) and weight-limiter.ts, with the exchange's    *)
(* own counter.  Several calls run at once (boot backfill, recovery,       *)
(* scanner).                                                               *)
(*                                                                         *)
(* Time is a clock of Minute ticks; delays are counted in ticks left, so   *)
(* that time has no bound.  windowStart is kept as far as it is compared:  *)
(* whether it is the current minute.                                       *)
(***************************************************************************)
EXTENDS BackfillPlan, FiniteSets

CONSTANTS
    Callers,        \* sequential users of the client
    MaxCalls,       \* BOUND: calls of each of them
    MaxRetries,     \* maxRetries
    Minute,         \* ticks of a rate limit window
    Weight,         \* KLINES_WEIGHT
    Ceiling,        \* limitPerMin * softThreshold
    ExchangeLimit,  \* weight per minute above which the exchange refuses
    OthersPerMinute,\* BOUND: weight other processes of the address use per minute
    RetryAfters,    \* values of the Retry-After header, in ticks
    RetryBase, RetryMax     \* the delays between attempts, in ticks

ASSUME RestClientAssumption ==
    /\ MaxCalls \in Nat /\ MaxRetries \in Nat \ {0}
    /\ Minute \in Nat \ {0} /\ Weight \in Nat \ {0}
    /\ Ceiling \in Nat /\ Weight <= Ceiling     \* else acquire never returns
    /\ ExchangeLimit \in Nat /\ OthersPerMinute \in Nat
    /\ RetryAfters \subseteq Nat
    /\ RetryBase \in Nat \ {0} /\ RetryMax \in Nat

VARIABLES
    clock,          \* ticks into the current minute
    windowCurrent,  \* windowStart is the current minute
    used,           \* the limiter's counter
    penaltyLeft,    \* penaltyUntil - Date.now(), or 0
    calls,          \* per caller, its call
    made,           \* per caller, the calls begun
    exUsed,         \* the exchange's counter of this minute
    others,         \* of that, the weight of other processes
    counted,        \* history: what the limiter was told or granted this minute
    banLeft         \* history: ticks until the latest Retry-After received is over

vars == <<clock, windowCurrent, used, penaltyLeft, calls, made, exUsed, others, counted, banLeft>>

\* "acquiring": at the top of acquire's loop; "waiting": its sleep; "sent":
\* fetch, not yet at the exchange; "answered": the answer is on its way;
\* "backoff": the sleep between attempts.
Pc == {"idle", "acquiring", "waiting", "sent", "answered", "backoff", "ok", "failed"}

NoHeader == -1

\* limited: 429 or 418; server: 5xx; client: another 4xx; broken: a body that
\* is no JSON; lost: a timeout or a network error.
Status == {"none", "ok", "limited", "server", "client", "broken", "lost"}

Call == [pc : Pc, attempt : 0 .. MaxRetries, left : Nat, status : Status,
         header : Nat \cup {NoHeader}, retryAfter : RetryAfters \cup {NoHeader}]

NoCall == [pc |-> "idle", attempt |-> 0, left |-> 0, status |-> "none",
           header |-> NoHeader, retryAfter |-> NoHeader]

Init ==
    /\ clock = 0
    /\ windowCurrent = FALSE /\ used = 0 /\ penaltyLeft = 0
    /\ calls = [c \in Callers |-> NoCall]
    /\ made = [c \in Callers |-> 0]
    /\ exUsed = 0 /\ others = 0
    /\ counted = 0 /\ banLeft = 0

GreaterOf(a, b) == IF a < b THEN b ELSE a

-------------------------------------------------------------------------------
(***************************************************************************)
(* WeightLimiter                                                           *)
(***************************************************************************)
UsedKeepingOldWindow == used

\* The counter after rollWindowIfNeeded.
UsedThisWindow == IF windowCurrent THEN used ELSE 0

UsedByServer(header) == IF header = NoHeader THEN used ELSE header

\* observeHeader's counter: the greater of the two, in the window of the answer's arrival.
ObservedUsed(header) ==
    IF header = NoHeader THEN used ELSE GreaterOf(UsedThisWindow, header)

\* applyPenalty: the pause received last replaces the one in force.
ApplyPenalty(retryAfter) ==
    LET wait == IF retryAfter = NoHeader THEN Minute ELSE retryAfter
    IN  penaltyLeft' = wait /\ banLeft' = GreaterOf(banLeft, wait)

\* One round of acquire's loop.
Acquire(c) ==
    /\ calls[c].pc = "acquiring"
    /\ IF penaltyLeft > 0
       THEN /\ calls' = [calls EXCEPT ![c].pc = "waiting", ![c].left = penaltyLeft]
            /\ UNCHANGED <<used, windowCurrent, counted>>
       ELSE /\ windowCurrent' = TRUE
            /\ IF UsedThisWindow + Weight <= Ceiling
               THEN /\ used' = UsedThisWindow + Weight
                    /\ calls' = [calls EXCEPT ![c].pc = "sent"]
                    /\ counted' = counted + Weight
               ELSE /\ used' = UsedThisWindow
                    /\ calls' = [calls EXCEPT ![c].pc = "waiting", ![c].left = Minute - clock]
                    /\ UNCHANGED counted
    /\ UNCHANGED <<clock, penaltyLeft, made, exUsed, others, banLeft>>

Wake(c) ==
    /\ calls[c].pc = "waiting" /\ calls[c].left = 0
    /\ calls' = [calls EXCEPT ![c].pc = "acquiring"]
    /\ UNCHANGED <<clock, windowCurrent, used, penaltyLeft, made, exUsed, others, counted, banLeft>>

-------------------------------------------------------------------------------
(***************************************************************************)
(* request                                                                 *)
(***************************************************************************)
Begin(c) ==
    /\ calls[c].pc \in {"idle", "ok", "failed"}
    /\ made[c] < MaxCalls
    /\ made' = [made EXCEPT ![c] = @ + 1]
    /\ calls' = [calls EXCEPT ![c] = [NoCall EXCEPT !.pc = "acquiring", !.attempt = 1]]
    /\ UNCHANGED <<clock, windowCurrent, used, penaltyLeft, exUsed, others, counted, banLeft>>

NextAttemptOnceMore(call) ==
    IF call.attempt <= MaxRetries
    THEN [NoCall EXCEPT !.pc = "acquiring", !.attempt = call.attempt + 1]
    ELSE [call EXCEPT !.pc = "failed"]

\* The loop's next attempt, or the end of the attempts.
NextAttempt(call) ==
    IF call.attempt < MaxRetries
    THEN [NoCall EXCEPT !.pc = "acquiring", !.attempt = call.attempt + 1]
    ELSE [call EXCEPT !.pc = "failed"]

\* The answer arrives: observeHeader, then by status.  429 and 418 go on to the
\* next attempt at once, 5xx and what fetch or json() throws after a delay;
\* any other 4xx is final.
Receive(c) ==
    LET call == calls[c]
    IN  /\ call.pc = "answered"
        /\ used' = ObservedUsed(call.header)
        /\ windowCurrent' = (windowCurrent \/ call.header # NoHeader)
        /\ counted' = GreaterOf(counted, call.header)
        /\ IF call.status = "limited"
           THEN ApplyPenalty(call.retryAfter)
           ELSE UNCHANGED <<penaltyLeft, banLeft>>
        /\ \/ /\ call.status = "ok"
              /\ calls' = [calls EXCEPT ![c].pc = "ok"]
           \/ /\ call.status = "client"
              /\ calls' = [calls EXCEPT ![c].pc = "failed"]
           \/ /\ call.status = "limited"
              /\ calls' = [calls EXCEPT ![c] = NextAttempt(call)]
           \/ /\ call.status \in {"server", "broken", "lost"}
              /\ \E d \in NextReconnectDelays(call.attempt, RetryBase, RetryMax) :
                    calls' = [calls EXCEPT ![c].pc = "backoff", ![c].left = d]
        /\ UNCHANGED <<clock, made, exUsed, others>>

Retry(c) ==
    /\ calls[c].pc = "backoff" /\ calls[c].left = 0
    /\ calls' = [calls EXCEPT ![c] = NextAttempt(calls[c])]
    /\ UNCHANGED <<clock, windowCurrent, used, penaltyLeft, made, exUsed, others, counted, banLeft>>

-------------------------------------------------------------------------------
(***************************************************************************)
(* The exchange and the network                                            *)
(***************************************************************************)
\* The exchange counts the request and answers it; above its limit it refuses.
Answer(c) ==
    /\ calls[c].pc = "sent"
    /\ exUsed' = exUsed + Weight
    /\ \E header \in {exUsed', NoHeader}, status \in {"ok", "limited", "server", "client", "broken"},
          retryAfter \in RetryAfters \cup {NoHeader} :
          /\ status = "limited" <=> exUsed' > ExchangeLimit
          /\ status # "limited" => retryAfter = NoHeader
          /\ calls' = [calls EXCEPT ![c].pc = "answered", ![c].status = status,
                                    ![c].header = header, ![c].retryAfter = retryAfter]
    /\ UNCHANGED <<clock, windowCurrent, used, penaltyLeft, made, others, counted, banLeft>>

\* The request or its answer is lost: AbortSignal.timeout, or a network error.
Lose(c) ==
    /\ calls[c].pc = "sent"
    /\ exUsed' \in {exUsed, exUsed + Weight}
    /\ calls' = [calls EXCEPT ![c].pc = "answered", ![c].status = "lost"]
    /\ UNCHANGED <<clock, windowCurrent, used, penaltyLeft, made, others, counted, banLeft>>

OthersUse ==
    /\ others < OthersPerMinute
    /\ others' = others + Weight
    /\ exUsed' = exUsed + Weight
    /\ UNCHANGED <<clock, windowCurrent, used, penaltyLeft, calls, made, counted, banLeft>>

Less(t) == IF t = 0 THEN 0 ELSE t - 1

Tick ==
    LET turns == clock + 1 = Minute
    IN  /\ clock' = IF turns THEN 0 ELSE clock + 1
        /\ windowCurrent' = (windowCurrent /\ ~turns)
        /\ exUsed' = IF turns THEN 0 ELSE exUsed
        /\ others' = IF turns THEN 0 ELSE others
        /\ counted' = IF turns THEN 0 ELSE counted
        /\ penaltyLeft' = Less(penaltyLeft)
        /\ banLeft' = Less(banLeft)
        /\ calls' = [c \in Callers |-> [calls[c] EXCEPT !.left = Less(calls[c].left)]]
        /\ UNCHANGED <<used, made>>

-------------------------------------------------------------------------------
Step(c) == Acquire(c) \/ Wake(c) \/ Answer(c) \/ Lose(c) \/ Receive(c) \/ Retry(c)

Next == OthersUse \/ Tick \/ \E c \in Callers : Begin(c) \/ Step(c)

Spec == Init /\ [][Next]_vars

\* Time goes on, and a call goes on: timers fire, and fetch ends by an answer
\* or by its timeout.
Fairness == WF_vars(Tick) /\ \A c \in Callers : WF_vars(Step(c))

FairSpec == Spec /\ Fairness
-------------------------------------------------------------------------------
TypeOK ==
    /\ clock \in 0 .. Minute - 1
    /\ windowCurrent \in BOOLEAN
    /\ {used, penaltyLeft, exUsed, others, counted, banLeft} \subseteq Nat
    /\ others <= OthersPerMinute + Weight
    /\ calls \in [Callers -> Call]
    /\ made \in [Callers -> 0 .. MaxCalls]

\* However the calls, the late answers and the rolling of the minute
\* interleave: no request leaves when, with it, the weight granted this minute
\* or reported by the exchange this minute would pass the soft ceiling.
CeilingHolds ==
    [][\A c \in Callers : calls[c].pc = "acquiring" /\ calls'[c].pc = "sent"
          => counted' <= Ceiling]_vars

\* A full window or a penalty only delays: every call ends, with its data or
\* with an error.
EveryCallEnds ==
    \A c \in Callers : calls[c].pc = "acquiring" ~> calls[c].pc \in {"ok", "failed"}
===============================================================================

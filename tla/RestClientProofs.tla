--------------------------- MODULE RestClientProofs ---------------------------
(***************************************************************************)
(* Theorems about RestClient for every number of callers, attempts and     *)
(* ticks: the limiter's soft ceiling is kept, and nothing leaves its type. *)
(***************************************************************************)
EXTENDS RestClient, BackfillPlanProofs

\* A call that has begun has made an attempt: its delays are those of an attempt.
CallSort == {call \in Call : call.pc = "idle" \/ call.attempt # 0}

Sorts ==
    /\ clock \in 0 .. Minute - 1
    /\ windowCurrent \in BOOLEAN
    /\ used \in Nat /\ exUsed \in Nat /\ counted \in Nat /\ penaltyLeft \in Nat
    /\ others \in Nat /\ banLeft \in Nat
    /\ others <= OthersPerMinute + Weight
    /\ calls \in [Callers -> CallSort]
    /\ made \in [Callers -> 0 .. MaxCalls]

\* The limiter's counter is never behind what it was told or granted this
\* minute: not after a late answer, and not after one of the minute before.
NothingUncounted == counted <= UsedThisWindow

IInv == Sorts /\ NothingUncounted
-------------------------------------------------------------------------------
(***************************************************************************)
(* Lemmas                                                                  *)
(***************************************************************************)
LEMMA ConstantSorts == /\ Weight \in Nat \ {0} /\ Minute \in Nat \ {0} /\ Ceiling \in Nat
                       /\ RetryAfters \subseteq Nat /\ OthersPerMinute \in Nat
                       /\ MaxCalls \in Nat /\ MaxRetries \in Nat \ {0}
BY RestClientAssumption

LEMMA NoCallSort == NoCall \in CallSort /\ NoCall.pc = "idle"
BY ConstantSorts DEF NoCall, CallSort, Call, Pc, Status, NoHeader

\* Every delay between attempts is a number of ticks.
LEMMA DelaysAreNumbers ==
    ASSUME NEW attempt \in Nat \ {0}
    PROVE  NextReconnectDelays(attempt, RetryBase, RetryMax) \subseteq Nat
<1>1. NextReconnectDelays(attempt, RetryBase, RetryMax) \subseteq 0 .. RetryMax
    BY RestClientAssumption, DelaysAreCapped
<1> QED
    BY <1>1, RestClientAssumption

\* A call stays one when it moves on, sleeps, is answered, or makes another attempt.
LEMMA MovedSort ==
    ASSUME NEW call \in CallSort, call.pc # "idle", NEW pc \in Pc
    PROVE  [call EXCEPT !.pc = pc] \in CallSort /\ [call EXCEPT !.pc = pc].pc = pc
BY DEF CallSort, Call

LEMMA SleepingSort ==
    ASSUME NEW call \in CallSort, call.pc # "idle", NEW pc \in Pc, NEW left \in Nat
    PROVE  /\ [call EXCEPT !.pc = pc, !.left = left] \in CallSort
           /\ [call EXCEPT !.pc = pc, !.left = left].pc = pc
BY DEF CallSort, Call

LEMMA LostSort ==
    ASSUME NEW call \in CallSort, call.pc # "idle", NEW pc \in Pc, NEW status \in Status
    PROVE  /\ [call EXCEPT !.pc = pc, !.status = status] \in CallSort
           /\ [call EXCEPT !.pc = pc, !.status = status].pc = pc
BY DEF CallSort, Call

LEMMA StartedSort ==
    ASSUME NEW call \in CallSort, NEW pc \in Pc, NEW attempt \in 1 .. MaxRetries
    PROVE  /\ [call EXCEPT !.pc = pc, !.attempt = attempt] \in CallSort
           /\ [call EXCEPT !.pc = pc, !.attempt = attempt].pc = pc
<1>1. attempt \in 0 .. MaxRetries /\ attempt # 0
    BY ConstantSorts
<1>2. call \in Call
    BY DEF CallSort
<1>3. [call EXCEPT !.pc = pc, !.attempt = attempt] \in Call
    BY <1>1, <1>2 DEF Call
<1>4. /\ [call EXCEPT !.pc = pc, !.attempt = attempt].pc = pc
      /\ [call EXCEPT !.pc = pc, !.attempt = attempt].attempt = attempt
    BY <1>2 DEF Call
<1> QED
    BY <1>1, <1>3, <1>4 DEF CallSort

LEMMA AttemptSort ==
    ASSUME NEW n \in 1 .. MaxRetries
    PROVE  /\ [NoCall EXCEPT !.pc = "acquiring", !.attempt = n] \in CallSort
           /\ [NoCall EXCEPT !.pc = "acquiring", !.attempt = n].pc = "acquiring"
<1>1. "acquiring" \in Pc
    BY DEF Pc
<1> QED
    BY <1>1, NoCallSort, StartedSort

LEMMA NextAttemptSort ==
    ASSUME NEW call \in CallSort, call.pc # "idle"
    PROVE  NextAttempt(call) \in CallSort /\ NextAttempt(call).pc # "sent"
<1>1. call.attempt \in Nat /\ (call.attempt < MaxRetries => call.attempt + 1 \in 1 .. MaxRetries)
    BY ConstantSorts DEF CallSort, Call
<1>2. [call EXCEPT !.pc = "failed"] \in CallSort /\ [call EXCEPT !.pc = "failed"].pc # "sent"
    <2>1. "failed" \in Pc
        BY DEF Pc
    <2> QED
        BY <2>1, MovedSort
<1>3. call.attempt < MaxRetries =>
         /\ [NoCall EXCEPT !.pc = "acquiring", !.attempt = call.attempt + 1] \in CallSort
         /\ [NoCall EXCEPT !.pc = "acquiring", !.attempt = call.attempt + 1].pc # "sent"
    BY <1>1, AttemptSort
<1> QED
    BY <1>2, <1>3 DEF NextAttempt

-------------------------------------------------------------------------------
(***************************************************************************)
(* The invariant                                                           *)
(***************************************************************************)
LEMMA InvInit == Init => IInv
<1> SUFFICES ASSUME Init
             PROVE  IInv
    OBVIOUS
<1>1. calls \in [Callers -> CallSort]
    BY NoCallSort DEF Init
<1>2. Sorts
    <2>1. /\ clock \in 0 .. Minute - 1
          /\ {used, exUsed, counted, penaltyLeft, others, banLeft} \subseteq Nat
          /\ others <= OthersPerMinute + Weight
          /\ made \in [Callers -> 0 .. MaxCalls]
        BY ConstantSorts DEF Init
    <2>2. windowCurrent \in BOOLEAN
        BY DEF Init
    <2> QED
        BY <1>1, <2>1, <2>2 DEF Sorts
<1>3. NothingUncounted
    BY DEF Init, NothingUncounted, UsedThisWindow
<1> QED
    BY <1>2, <1>3 DEF IInv

\* What the steps of a call other than Acquire and Receive do: they leave the
\* limiter alone, and send nothing.
Harmless(c) ==
    /\ calls' \in [Callers -> CallSort]
    /\ exUsed' \in Nat /\ made' \in [Callers -> 0 .. MaxCalls]
    /\ UNCHANGED <<clock, windowCurrent, used, penaltyLeft, others, counted, banLeft>>
    /\ \A b \in Callers : calls[b].pc = "acquiring" => calls'[b].pc # "sent"

LEMMA OtherSteps ==
    ASSUME Sorts, NEW c \in Callers,
           Wake(c) \/ Begin(c) \/ Retry(c) \/ Answer(c) \/ Lose(c)
    PROVE  Harmless(c)
<1> USE ConstantSorts DEF Sorts, Harmless
<1>p. {"acquiring", "answered", "waiting", "sent", "failed"} \subseteq Pc
    BY DEF Pc
<1>c. calls[c] \in CallSort
    OBVIOUS
<1>1. CASE Wake(c)
    BY <1>1, <1>p, MovedSort DEF Wake
<1>2. CASE Begin(c)
    <2>1. calls' = [calls EXCEPT ![c] = [NoCall EXCEPT !.pc = "acquiring", !.attempt = 1]]
        BY <1>2 DEF Begin
    <2>2. /\ UNCHANGED <<exUsed, clock, windowCurrent, used, penaltyLeft, others, counted, banLeft>>
          /\ made' \in [Callers -> 0 .. MaxCalls]
        <3>1. made[c] \in 0 .. MaxCalls /\ made[c] < MaxCalls => made[c] + 1 \in 0 .. MaxCalls
            OBVIOUS
        <3> QED
            BY <1>2, <3>1 DEF Begin
    <2>3. /\ [NoCall EXCEPT !.pc = "acquiring", !.attempt = 1] \in CallSort
          /\ [NoCall EXCEPT !.pc = "acquiring", !.attempt = 1].pc # "sent"
        <3>1. 1 \in 1 .. MaxRetries
            OBVIOUS
        <3>2. /\ [NoCall EXCEPT !.pc = "acquiring", !.attempt = 1] \in CallSort
              /\ [NoCall EXCEPT !.pc = "acquiring", !.attempt = 1].pc = "acquiring"
            BY ONLY <3>1, AttemptSort
        <3> QED
            BY ONLY <3>2
    <2> QED
        BY <2>1, <2>2, <2>3
<1>3. CASE Retry(c)
    BY <1>3, NextAttemptSort DEF Retry
<1>4. CASE Answer(c)
    <2>0. exUsed' = exUsed + Weight
        BY <1>4, Zenon DEF Answer
    <2>1. /\ exUsed' \in Nat
          /\ UNCHANGED <<clock, windowCurrent, used, penaltyLeft, made, others, counted, banLeft>>
        <3>1. UNCHANGED <<clock, windowCurrent, used, penaltyLeft, made, others, counted, banLeft>>
            BY <1>4, Zenon DEF Answer
        <3> QED
            BY <2>0, <3>1
    <2>2. PICK header \in {exUsed', NoHeader}, status \in {"ok", "limited", "server", "client", "broken"},
               retryAfter \in RetryAfters \cup {NoHeader} :
               calls' = [calls EXCEPT ![c].pc = "answered", ![c].status = status,
                                      ![c].header = header, ![c].retryAfter = retryAfter]
        BY <1>4, Zenon DEF Answer
    <2>3. status \in Status /\ header \in Nat \cup {NoHeader}
        BY <2>1 DEF Status
    <2>4. /\ [calls[c] EXCEPT !.pc = "answered", !.status = status,
                               !.header = header, !.retryAfter = retryAfter] \in CallSort
          /\ [calls[c] EXCEPT !.pc = "answered", !.status = status,
                               !.header = header, !.retryAfter = retryAfter].pc = "answered"
        <3>1. "answered" \in Pc /\ retryAfter \in RetryAfters \cup {NoHeader}
            BY <1>p
        <3> QED
            BY <1>4, <2>3, <3>1, <1>c DEF CallSort, Call, Answer
    <2>5. calls' = [calls EXCEPT ![c] = [calls[c] EXCEPT !.pc = "answered", !.status = status,
                                         !.header = header, !.retryAfter = retryAfter]]
        BY <2>2
    <2> QED
        BY <2>1, <2>4, <2>5
<1>5. CASE Lose(c)
    <2>1. /\ exUsed' \in Nat
          /\ UNCHANGED <<clock, windowCurrent, used, penaltyLeft, made, others, counted, banLeft>>
        BY <1>5 DEF Lose
    <2>2. calls' = [calls EXCEPT ![c] = [calls[c] EXCEPT !.pc = "answered", !.status = "lost"]]
        BY <1>5 DEF Lose
    <2>3. /\ [calls[c] EXCEPT !.pc = "answered", !.status = "lost"] \in CallSort
          /\ [calls[c] EXCEPT !.pc = "answered", !.status = "lost"].pc = "answered"
        <3>1. "lost" \in Status
            BY DEF Status
        <3> QED
            BY <1>5, <1>c, <3>1, <1>p, LostSort DEF Lose
    <2> QED
        BY <2>1, <2>2, <2>3
<1> QED
    BY <1>1, <1>2, <1>3, <1>4, <1>5

\* One round of acquire: what it grants is counted, and within the ceiling.
LEMMA AcquireStep ==
    ASSUME IInv, NEW c \in Callers, Acquire(c)
    PROVE  /\ IInv'
           /\ \A b \in Callers : calls[b].pc = "acquiring" /\ calls'[b].pc = "sent"
                                    => counted' <= Ceiling
<1> USE ConstantSorts DEF IInv, Sorts
<1> DEFINE Sleeps(left) == calls' = [calls EXCEPT ![c].pc = "waiting", ![c].left = left]
           Granted == /\ windowCurrent' = TRUE /\ used' = UsedThisWindow + Weight
                      /\ counted' = counted + Weight /\ UsedThisWindow + Weight <= Ceiling
<1>1. \/ Sleeps(penaltyLeft) /\ UNCHANGED <<used, windowCurrent, counted>>
      \/ Granted /\ calls' = [calls EXCEPT ![c].pc = "sent"]
      \/ /\ Sleeps(Minute - clock) /\ windowCurrent' = TRUE
         /\ used' = UsedThisWindow /\ counted' = counted
    BY Zenon DEF Acquire
<1>2. UNCHANGED <<clock, penaltyLeft, made, exUsed, others, banLeft>>
    BY Zenon DEF Acquire
<1>3. UsedThisWindow \in Nat
    BY DEF UsedThisWindow
<1>p. {"sent", "waiting"} \subseteq Pc /\ calls[c] \in CallSort /\ calls[c].pc # "idle"
    BY DEF Pc, Acquire
<1>4. ASSUME NEW left \in Nat, Sleeps(left)
      PROVE  /\ calls' \in [Callers -> CallSort]
             /\ \A b \in Callers : calls[b].pc = "acquiring" => calls'[b].pc # "sent"
    <2>1. calls' = [calls EXCEPT ![c] = [calls[c] EXCEPT !.pc = "waiting", !.left = left]]
        BY <1>4
    <2> DEFINE slept == [calls[c] EXCEPT !.pc = "waiting", !.left = left]
    <2>2. slept \in CallSort /\ slept.pc = "waiting"
        BY <1>p, SleepingSort
    <2> HIDE DEF slept
    <2>3. calls' = [calls EXCEPT ![c] = slept]
        BY <2>1 DEF slept
    <2> QED
        BY <1>p, <2>2, <2>3
<1>5. CASE Granted /\ calls' = [calls EXCEPT ![c].pc = "sent"]
    <2>1. calls' \in [Callers -> CallSort]
        BY <1>5, <1>p, MovedSort
    <2> QED
        BY <1>2, <1>3, <1>5, <2>1 DEF NothingUncounted, UsedThisWindow
<1>6. CASE Sleeps(penaltyLeft) /\ UNCHANGED <<used, windowCurrent, counted>>
    BY <1>2, <1>4, <1>6 DEF NothingUncounted, UsedThisWindow
<1>7. CASE /\ Sleeps(Minute - clock) /\ windowCurrent' = TRUE
           /\ used' = UsedThisWindow /\ counted' = counted
    <2>1. Minute - clock \in Nat
        OBVIOUS
    <2>2. /\ calls' \in [Callers -> CallSort]
          /\ \A b \in Callers : calls[b].pc = "acquiring" => calls'[b].pc # "sent"
        BY <1>4, <1>7, <2>1
    <2> QED
        BY <1>2, <1>3, <1>7, <2>2 DEF NothingUncounted, UsedThisWindow
<1> QED
    BY <1>1, <1>5, <1>6, <1>7

\* observeHeader: the counter only rises to what the exchange reports.
LEMMA ReceiveStep ==
    ASSUME IInv, NEW c \in Callers, Receive(c)
    PROVE  /\ IInv'
           /\ \A b \in Callers : calls[b].pc = "acquiring" => calls'[b].pc # "sent"
<1> USE ConstantSorts DEF IInv, Sorts
<1>p. {"ok", "failed", "backoff"} \subseteq Pc
    BY DEF Pc
<1>1. calls[c] \in CallSort /\ calls[c].pc = "answered"
    BY DEF Receive
<1>2. /\ calls[c].header \in Nat \cup {NoHeader} /\ calls[c].attempt \in Nat \ {0}
      /\ calls[c].retryAfter \in RetryAfters \cup {NoHeader}
    BY <1>1 DEF CallSort, Call
<1>3. calls' \in [Callers -> CallSort] /\ \A b \in Callers :
          calls[b].pc = "acquiring" => calls'[b].pc # "sent"
    <2>1. CASE calls' = [calls EXCEPT ![c].pc = "ok"] \/ calls' = [calls EXCEPT ![c].pc = "failed"]
        BY <1>1, <1>p, <2>1, MovedSort
    <2>2. CASE calls' = [calls EXCEPT ![c] = NextAttempt(calls[c])]
        BY <1>1, <2>2, NextAttemptSort
    <2>3. CASE \E d \in NextReconnectDelays(calls[c].attempt, RetryBase, RetryMax) :
                   calls' = [calls EXCEPT ![c].pc = "backoff", ![c].left = d]
        <3>1. PICK d \in Nat :
                  calls' = [calls EXCEPT ![c] = [calls[c] EXCEPT !.pc = "backoff", !.left = d]]
            BY <1>2, <2>3, DelaysAreNumbers
        <3> DEFINE slept == [calls[c] EXCEPT !.pc = "backoff", !.left = d]
        <3>2. slept \in CallSort /\ slept.pc = "backoff"
            BY <1>1, <1>p, <3>1, SleepingSort
        <3>3. calls' = [calls EXCEPT ![c] = slept]
            BY <3>1
        <3> HIDE DEF slept
        <3> QED
            BY <1>1, <3>2, <3>3
    <2> QED
        BY <2>1, <2>2, <2>3 DEF Receive
<1>4. penaltyLeft' \in Nat /\ banLeft' \in Nat
    <2>1. CASE calls[c].status = "limited"
        BY <1>2, <2>1 DEF Receive, ApplyPenalty, NoHeader, GreaterOf
    <2>2. CASE calls[c].status # "limited"
        BY <2>2 DEF Receive
    <2> QED
        BY <2>1, <2>2
<1>5. Sorts'
    <2>1. used' \in Nat /\ counted' \in Nat
        BY <1>2 DEF Receive, ObservedUsed, UsedThisWindow, GreaterOf, NoHeader
    <2>2. UNCHANGED <<clock, exUsed, made, others>> /\ windowCurrent' \in BOOLEAN
        BY DEF Receive
    <2> QED
        BY <1>3, <1>4, <2>1, <2>2
<1>6. NothingUncounted'
    <2>1. /\ used' = ObservedUsed(calls[c].header)
          /\ windowCurrent' = (windowCurrent \/ calls[c].header # NoHeader)
          /\ counted' = GreaterOf(counted, calls[c].header)
        BY Zenon DEF Receive
    <2>2. CASE calls[c].header = NoHeader
        <3>1. used' = used /\ windowCurrent' = windowCurrent
            BY <2>1, <2>2 DEF ObservedUsed
        <3>2. counted' = counted
            BY <2>1, <2>2 DEF GreaterOf, NoHeader
        <3>3. UsedThisWindow' = UsedThisWindow
            BY <3>1 DEF UsedThisWindow
        <3> QED
            BY <3>2, <3>3 DEF NothingUncounted
    <2>3. CASE calls[c].header # NoHeader
        <3>1. windowCurrent' = TRUE /\ calls[c].header \in Nat
            BY <1>2, <2>1, <2>3
        <3>2. used' = GreaterOf(UsedThisWindow, calls[c].header)
            BY <2>1, <2>3 DEF ObservedUsed
        <3>3. UsedThisWindow' = used'
            BY <3>1 DEF UsedThisWindow
        <3>4. UsedThisWindow \in Nat
            BY DEF UsedThisWindow
        <3> QED
            BY <2>1, <3>1, <3>2, <3>3, <3>4 DEF NothingUncounted, GreaterOf
    <2> QED
        BY <2>2, <2>3
<1> QED
    BY <1>3, <1>5, <1>6

\* A tick moves no call, and a new minute starts with nothing counted.
LEMMA TickStep ==
    ASSUME IInv, Tick
    PROVE  /\ IInv'
           /\ \A b \in Callers : calls[b].pc = "acquiring" => calls'[b].pc # "sent"
<1> USE ConstantSorts DEF IInv, Sorts
<1>1. calls' \in [Callers -> CallSort] /\ \A b \in Callers : calls'[b].pc = calls[b].pc
    <2>1. calls' = [c \in Callers |-> [calls[c] EXCEPT !.left = Less(calls[c].left)]]
        BY DEF Tick
    <2>2. ASSUME NEW c \in Callers
          PROVE  /\ [calls[c] EXCEPT !.left = Less(calls[c].left)] \in CallSort
                 /\ [calls[c] EXCEPT !.left = Less(calls[c].left)].pc = calls[c].pc
        <3>1. calls[c] \in CallSort
            OBVIOUS
        <3>2. Less(calls[c].left) \in Nat
            BY <3>1 DEF Less, CallSort, Call
        <3> QED
            BY <3>1, <3>2 DEF CallSort, Call
    <2> QED
        BY <2>1, <2>2
<1>2. Sorts'
    <2>1. clock' \in 0 .. Minute - 1 /\ windowCurrent' \in BOOLEAN
        BY DEF Tick
    <2>2. exUsed' \in Nat /\ counted' \in Nat /\ used' = used /\ made' = made
        BY DEF Tick
    <2>3. others' \in Nat /\ others' <= OthersPerMinute + Weight
        BY DEF Tick
    <2>4. penaltyLeft' \in Nat /\ banLeft' \in Nat
        <3>1. penaltyLeft' = Less(penaltyLeft) /\ banLeft' = Less(banLeft)
            BY DEF Tick
        <3>2. \A t \in Nat : Less(t) \in Nat
            BY DEF Less
        <3> QED
            BY <3>1, <3>2
    <2> QED
        BY <1>1, <2>1, <2>2, <2>3, <2>4
<1>3. NothingUncounted'
    BY DEF Tick, NothingUncounted, UsedThisWindow
<1> QED
    BY <1>1, <1>2, <1>3

\* Every step keeps the invariant, and grants no more than the ceiling.
LEMMA StepKeepsCeiling ==
    ASSUME IInv, Next
    PROVE  /\ IInv'
           /\ \A b \in Callers : calls[b].pc = "acquiring" /\ calls'[b].pc = "sent"
                                    => counted' <= Ceiling
<1>1. CASE OthersUse
    BY <1>1, ConstantSorts DEF OthersUse, IInv, Sorts, NothingUncounted, UsedThisWindow
<1>2. CASE Tick
    BY <1>2, TickStep
<1>3. ASSUME NEW c \in Callers, Begin(c) \/ Step(c)
      PROVE  /\ IInv'
             /\ \A b \in Callers : calls[b].pc = "acquiring" /\ calls'[b].pc = "sent"
                                      => counted' <= Ceiling
    <2>1. CASE Acquire(c)
        BY <2>1, AcquireStep
    <2>2. CASE Receive(c)
        BY <2>2, ReceiveStep
    <2>3. CASE Wake(c) \/ Begin(c) \/ Retry(c) \/ Answer(c) \/ Lose(c)
        BY <2>3, OtherSteps DEF Harmless, IInv, Sorts, NothingUncounted, UsedThisWindow
    <2> QED
        BY <1>3, <2>1, <2>2, <2>3 DEF Step
<1> QED
    BY <1>1, <1>2, <1>3 DEF Next

LEMMA InvNext == IInv /\ [Next]_vars => IInv'
<1>1. CASE Next
    BY <1>1, StepKeepsCeiling
<1>2. CASE UNCHANGED vars
    BY <1>2 DEF vars, IInv, Sorts, NothingUncounted, UsedThisWindow
<1> QED
    BY <1>1, <1>2
-------------------------------------------------------------------------------
(***************************************************************************)
(* The theorems                                                            *)
(***************************************************************************)
\* The limiter has counted whatever it granted or was told this minute.
THEOREM LimiterIsNeverBehind == Spec => []NothingUncounted
<1>1. IInv => NothingUncounted
    BY DEF IInv
<1> QED
    BY <1>1, InvInit, InvNext, PTL DEF Spec

\* Nothing leaves its type: every counter, delay and attempt stays in its range,
\* whatever the exchange answers.
THEOREM RestClientTypeCorrect == Spec => []TypeOK
<1>1. IInv => TypeOK
    <2> SUFFICES ASSUME IInv
                 PROVE  TypeOK
        OBVIOUS
    <2>1. calls \in [Callers -> Call]
        BY DEF IInv, Sorts, CallSort
    <2> QED
        BY <2>1 DEF IInv, Sorts, TypeOK
<1> QED
    BY <1>1, InvInit, InvNext, PTL DEF Spec

\* acquire() lets no request leave above the soft ceiling of the minute, however
\* many calls there are and however late their answers come.
THEOREM CeilingIsKept == Spec => CeilingHolds
<1>1. IInv /\ [Next]_vars
        => [\A c \in Callers : calls[c].pc = "acquiring" /\ calls'[c].pc = "sent"
                => counted' <= Ceiling]_vars
    BY StepKeepsCeiling
<1> QED
    BY <1>1, InvInit, InvNext, PTL DEF Spec, CeilingHolds
===============================================================================

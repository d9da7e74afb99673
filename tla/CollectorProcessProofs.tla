------------------------- MODULE CollectorProcessProofs -------------------------
(***************************************************************************)
(* Theorems about CollectorProcess for any number of symbols, messages,    *)
(* flushes and open handlers under way and faults: what was received is    *)
(* stored, or known to be lost.                                            *)
(***************************************************************************)
EXTENDS CollectorProcess, TLAPS

Flushes == 0 .. MaxFlushes

Values == [Columns -> Nat]

AllColumns == Columns \cup {"lastOpenTime"}

FlushCall == [at : {"idle", "statement", "refused", "publish"}, symbol : Symbols \cup {None},
              patch : Values, rest : Seq(Symbols)]

OpenCall == [at : {"idle", "statement"}, symbol : 0 .. NumSymbols, stamp : Nat]

\* The sorts of what messages, flushes and open handlers touch.
Sorts ==
    /\ latest \in [Symbols -> Values]
    /\ dirty \in Seq(Symbols)
    /\ flushes \in [Flushes -> FlushCall]
    /\ opens \in [1 .. MaxOpens -> OpenCall]
    /\ rows \in [Symbols -> [AllColumns -> Nat]]
    /\ clock \in Nat
    /\ lost \in [Symbols -> Values] /\ owed \in [Symbols -> Nat]

\* The flush of stop() is the one shutdown waits for, and it finds the pool open.
Phases ==
    /\ pool \in {"open", "ending"}
    /\ pool = "ending" => shutdown = "pool"
    /\ shutdown # "flush" => flushes[0] = NoCall
    /\ process = "exit0" => shutdown = "pool" /\ \A f \in Flushes : flushes[f].at # "statement"
    /\ \A f \in Flushes : flushes[f].at = "refused" => pool = "ending"

Writes(f, s) == flushes[f].at = "statement" /\ flushes[f].symbol = s

Refuses(f, s) == flushes[f].at = "refused" /\ flushes[f].symbol = s

Queued(s) == Contains(dirty, s) \/ \E f \in Flushes : Contains(flushes[f].rest, s)

\* No price is ahead of the memory: neither in a row, nor in a statement, nor
\* what is owed.
Older(s) ==
    /\ \A c \in Columns : latest[s][c] <= clock
    /\ rows[s]["lastPrice"] <= latest[s]["lastPrice"] /\ owed[s] <= latest[s]["lastPrice"]
    /\ \A f \in Flushes : Writes(f, s) => flushes[f].patch["lastPrice"] <= latest[s]["lastPrice"]

\* A value of a column, or a newer one, is in a statement under way, in the row,
\* or lost.
Covered(s, c, v) ==
    \/ \E f \in Flushes : Writes(f, s) /\ flushes[f].patch[c] >= v
    \/ rows[s][c] >= v
    \/ lost[s][c] >= v

\* The newest values of a symbol wait for their turn, or are covered.
Held(s) == Queued(s) \/ \A c \in Columns : Covered(s, c, latest[s][c])

CutOff(s) ==
    s \in taken /\ (s \in refused \/ Waiting(s) \/ \E f \in 1 .. MaxFlushes : Refuses(f, s))

\* What stop() owes waits in its own flush, is covered, or is in the hands of a
\* flush of the timer that comes too late.
Owing(s) == Contains(flushes[0].rest, s) \/ Covered(s, "lastPrice", owed[s]) \/ CutOff(s)

IInv ==
    /\ Sorts /\ Phases
    /\ \A s \in Symbols : Older(s) /\ Owing(s) /\ (pool = "open" => Held(s))

-------------------------------------------------------------------------------
(***************************************************************************)
(* Lemmas                                                                  *)
(***************************************************************************)
LEMMA MaxOfTwo ==
    ASSUME NEW a \in Nat, NEW b \in Nat
    PROVE  Max({a, b}) \in {a, b} /\ Max({a, b}) >= a /\ Max({a, b}) >= b
<1>1. \E x \in {a, b} : \A y \in {a, b} : x >= y
    <2>1. CASE a >= b
        BY <2>1
    <2>2. CASE b >= a
        BY <2>2
    <2> QED
        BY <2>1, <2>2
<1>2. Max({a, b}) \in {a, b} /\ \A y \in {a, b} : Max({a, b}) >= y
    BY <1>1 DEF Max
<1> QED
    BY <1>2

LEMMA ContainsNothing == \A s : ~Contains(<<>>, s)
BY DEF Contains

LEMMA ContainsAppend ==
    ASSUME NEW S, NEW q \in Seq(S), NEW e \in S, NEW s
    PROVE  Contains(Append(q, e), s) <=> Contains(q, s) \/ s = e
<1>1. ASSUME Contains(q, s) PROVE Contains(Append(q, e), s)
    <2>1. PICK i \in 1 .. Len(q) : q[i] = s
        BY <1>1 DEF Contains
    <2>2. i \in 1 .. Len(Append(q, e)) /\ Append(q, e)[i] = s
        BY <2>1
    <2> QED
        BY <2>2 DEF Contains
<1>2. ASSUME s = e PROVE Contains(Append(q, e), s)
    <2>1. Len(q) + 1 \in 1 .. Len(Append(q, e)) /\ Append(q, e)[Len(q) + 1] = e
        OBVIOUS
    <2> QED
        BY <1>2, <2>1 DEF Contains
<1>3. ASSUME Contains(Append(q, e), s) PROVE Contains(q, s) \/ s = e
    <2>1. PICK i \in 1 .. Len(Append(q, e)) : Append(q, e)[i] = s
        BY <1>3 DEF Contains
    <2> QED
        BY <2>1 DEF Contains
<1> QED
    BY <1>1, <1>2, <1>3

LEMMA ContainsHeadTail ==
    ASSUME NEW S, NEW q \in Seq(S), q # <<>>, NEW s
    PROVE  Contains(q, s) <=> s = Head(q) \/ Contains(Tail(q), s)
<1>1. ASSUME Contains(q, s) PROVE s = Head(q) \/ Contains(Tail(q), s)
    <2>1. PICK i \in 1 .. Len(q) : q[i] = s
        BY <1>1 DEF Contains
    <2>2. i # 1 => i - 1 \in 1 .. Len(Tail(q)) /\ Tail(q)[i - 1] = s
        BY <2>1
    <2> QED
        BY <2>1, <2>2 DEF Contains
<1>2. ASSUME s = Head(q) PROVE Contains(q, s)
    <2>1. 1 \in 1 .. Len(q) /\ q[1] = s
        BY <1>2
    <2> QED
        BY <2>1 DEF Contains
<1>3. ASSUME Contains(Tail(q), s) PROVE Contains(q, s)
    <2>1. PICK i \in 1 .. Len(Tail(q)) : Tail(q)[i] = s
        BY <1>3 DEF Contains
    <2>2. i + 1 \in 1 .. Len(q) /\ q[i + 1] = s
        BY <2>1
    <2> QED
        BY <2>2 DEF Contains
<1> QED
    BY <1>1, <1>2, <1>3

LEMMA SymbolsAreSome ==
    /\ None \notin Symbols /\ 0 \in Flushes /\ Flushes \ {0} = 1 .. MaxFlushes
    /\ MaxFlushes \in Nat /\ NumSymbols \in Nat /\ MaxOpens \in Nat
BY ProcessAssumption DEF None, Symbols, Flushes

LEMMA ColumnsAreSome == "lastPrice" \in Columns /\ Columns \subseteq AllColumns
BY DEF Columns, AllColumns

LEMMA NoCallSort == NoCall \in FlushCall /\ NoCall.at = "idle" /\ NoCall.rest = <<>>
<1>1. [c \in Columns |-> None] \in Values
    BY DEF Values, None
<1> QED
    BY <1>1 DEF NoCall, FlushCall

LEMMA OpenTurnSort ==
    ASSUME NEW s \in Nat, NEW t \in Nat
    PROVE  OpenTurn(s, t) \in OpenCall
BY SymbolsAreSome DEF OpenTurn, OpenCall, NoOpen, None

\* A flush takes the symbols it is given: the first one for its statement, with
\* what the memory says now, and the others for later.
LEMMA TurnEffect ==
    ASSUME Sorts, NEW q \in Seq(Symbols)
    PROVE  /\ Turn(q) \in FlushCall
           /\ Turn(q).at \in {"idle", "statement", "refused"}
           /\ Turn(q).at = "statement" =>
                    pool = "open" /\ Turn(q).patch = latest[Turn(q).symbol]
           /\ Turn(q).at = "refused" => pool # "open"
           /\ \A s \in Symbols : Contains(q, s) =>
                    \/ Contains(Turn(q).rest, s)
                    \/ Turn(q).at \in {"statement", "refused"} /\ Turn(q).symbol = s
<1>1. CASE q = <<>>
    BY <1>1, NoCallSort, ContainsNothing DEF Turn
<1>2. CASE q # <<>>
    <2>1. /\ Turn(q).at = IF pool = "open" THEN "statement" ELSE "refused"
          /\ Turn(q).symbol = Head(q) /\ Turn(q).rest = Tail(q)
          /\ Turn(q).patch = latest[Head(q)]
        BY <1>2 DEF Turn
    <2>2. Head(q) \in Symbols /\ Tail(q) \in Seq(Symbols)
        BY <1>2
    <2>3. latest[Head(q)] \in Values
        BY <2>2 DEF Sorts
    <2>4. Turn(q) \in FlushCall
        BY <1>2, <2>2, <2>3 DEF Turn, FlushCall
    <2>5. \A s \in Symbols : Contains(q, s) => s = Head(q) \/ Contains(Tail(q), s)
        BY <1>2, ContainsHeadTail
    <2> QED
        BY <2>1, <2>4, <2>5
<1> QED
    BY <1>1, <1>2

-------------------------------------------------------------------------------
(***************************************************************************)
(* Steps that leave prices and flushes alone                               *)
(***************************************************************************)
LEMMA Frame ==
    ASSUME IInv, UNCHANGED <<latest, dirty, flushes, rows, history>>,
           opens' \in [1 .. MaxOpens -> OpenCall], clock' \in Nat, clock' >= clock,
           Phases', pool' = "open" => pool = "open"
    PROVE  IInv'
<1>1. Sorts'
    BY DEF IInv, Sorts, history
<1>2. ASSUME NEW s \in Symbols PROVE Older(s)' /\ Owing(s)' /\ (pool' = "open" => Held(s)')
    <2>1. /\ Older(s) /\ Owing(s) /\ (pool' = "open" => Held(s)) /\ latest[s] \in [Columns -> Nat]
          /\ clock \in Nat
        BY DEF IInv, Sorts, Values
    <2>2. /\ Queued(s)' = Queued(s) /\ \A f \in Flushes : Writes(f, s)' = Writes(f, s)
          /\ \A c, v : Covered(s, c, v)' = Covered(s, c, v)
        BY DEF Queued, Writes, Covered, history
    <2>3. Older(s)'
        <3>1. \A c \in Columns : latest'[s][c] <= clock'
            BY <2>1 DEF Older
        <3> QED
            BY <2>1, <2>2, <3>1 DEF Older, history
    <2>4. Owing(s)'
        <3>1. CutOff(s)' = CutOff(s)
            BY DEF CutOff, Waiting, Refuses, history
        <3>2. Covered(s, "lastPrice", owed[s])' = Covered(s, "lastPrice", owed[s])
            BY DEF Covered, Writes, history
        <3> QED
            BY <2>1, <3>1, <3>2 DEF Owing
    <2>5. pool' = "open" => Held(s)'
        <3>1. \A c \in Columns : Covered(s, c, latest[s][c])' = Covered(s, c, latest[s][c])
            BY DEF Covered, Writes, history
        <3> QED
            BY <2>1, <2>2, <3>1 DEF Held
    <2> QED
        BY <2>3, <2>4, <2>5
<1> QED
    BY <1>1, <1>2 DEF IInv

LEMMA QuietSteps ==
    ASSUME IInv, \/ Migrate \/ BackfillStores \/ BackfillPublishes \/ BackfillThrows \/ RecordEvent
                 \/ UncaughtException \/ Stopped \/ BusClosed \/ PoolEnded \/ Timeout
    PROVE  IInv'
<1>1. UNCHANGED <<latest, dirty, flushes, opens, clock, rows, history>> /\ flushes' = flushes
    BY DEF Migrate, BackfillStores, BackfillPublishes, BackfillThrows, RecordEvent, Exit,
           UncaughtException, Stopped, BusClosed, PoolEnded, Timeout, memory
<1>2. process = "up" /\ Phases
    BY DEF Migrate, BackfillStores, BackfillPublishes, BackfillThrows, RecordEvent,
           UncaughtException, Stopped, BusClosed, PoolEnded, Timeout, IInv
<1>f. ASSUME Phases', pool' = "open" => pool = "open" PROVE IInv'
    <2>1. opens' \in [1 .. MaxOpens -> OpenCall] /\ clock' \in Nat /\ clock' >= clock
        BY <1>1 DEF IInv, Sorts
    <2> QED
        BY <1>1, <1>f, <2>1, Frame
<1>3. CASE Migrate \/ BackfillStores \/ BackfillPublishes \/ BackfillThrows \/ RecordEvent
             \/ UncaughtException \/ Timeout
    <2>1. pool' = pool /\ shutdown' = shutdown /\ process' # "exit0"
        BY <1>2, <1>3 DEF Migrate, BackfillStores, BackfillPublishes, BackfillThrows, RecordEvent, Exit,
                   UncaughtException, Timeout
    <2>2. Phases'
        BY <1>1, <1>2, <2>1 DEF Phases
    <2> QED
        BY <1>f, <2>1, <2>2
<1>4. CASE Stopped
    <2>1. Phases'
        BY <1>1, <1>2, <1>4 DEF Phases, Stopped
    <2> QED
        BY <1>f, <1>4, <2>1 DEF Stopped
<1>5. CASE BusClosed
    <2>1. Phases'
        BY <1>1, <1>2, <1>5 DEF Phases, BusClosed
    <2> QED
        BY <1>f, <1>5, <2>1 DEF BusClosed
<1>6. CASE PoolEnded
    <2>1. Phases'
        BY <1>1, <1>2, <1>6 DEF Phases, PoolEnded, Exit, Flushes
    <2> QED
        BY <1>f, <1>6, <2>1 DEF PoolEnded, Exit
<1> QED
    BY <1>3, <1>4, <1>5, <1>6

\* A connection opens, or an open handler's statement fails.
LEMMA OnOpenStep ==
    ASSUME IInv, NEW i \in 1 .. MaxOpens, OnOpen(i) \/ FailOpen(i)
    PROVE  IInv'
<1>1. /\ Sorts /\ Phases /\ UNCHANGED <<latest, dirty, flushes, rows, history>>
      /\ UNCHANGED <<process, shutdown, pool>> /\ clock \in Nat
    BY DEF IInv, Sorts, OnOpen, FailOpen
<1>2. Phases'
    BY <1>1 DEF Phases
<1>3. CASE OnOpen(i)
    <2>1. clock' = clock + 1 /\ opens' = [opens EXCEPT ![i] = OpenTurn(None, clock + 1)]
        BY <1>3 DEF OnOpen
    <2>2. OpenTurn(None, clock + 1) \in OpenCall
        BY <1>1, OpenTurnSort DEF None
    <2>3. opens' \in [1 .. MaxOpens -> OpenCall]
        BY <1>1, <2>1, <2>2 DEF Sorts
    <2> QED
        BY <1>1, <1>2, <2>1, <2>3, Frame
<1>4. CASE FailOpen(i)
    <2>1. clock' = clock /\ opens' = [opens EXCEPT ![i] = NoOpen]
        BY <1>4 DEF FailOpen
    <2>2. NoOpen \in OpenCall
        BY SymbolsAreSome DEF NoOpen, OpenCall, None
    <2>3. opens' \in [1 .. MaxOpens -> OpenCall]
        BY <1>1, <2>1, <2>2 DEF Sorts
    <2> QED
        BY <1>1, <1>2, <2>1, <2>3, Frame
<1> QED
    BY <1>3, <1>4

-------------------------------------------------------------------------------
(***************************************************************************)
(* Messages                                                                *)
(***************************************************************************)
LEMMA OnMessageStep ==
    ASSUME IInv, NEW s \in Symbols, NEW kind, OnMessage(s, kind)
    PROVE  IInv'
<1>1. /\ Sorts /\ Phases /\ MarkSeen(s) /\ clock' = clock + 1 /\ clock \in Nat
      /\ UNCHANGED <<process, shutdown, pool, flushes, opens, rows, lost, owed, taken, refused>>
    BY DEF IInv, Sorts, OnMessage, history
<1> DEFINE new == [c \in Columns |->
                    IF c = "lastPrice" /\ kind # "trade" THEN latest[s][c] ELSE clock + 1]
<1>2. latest' = [latest EXCEPT ![s] = new]
    BY DEF OnMessage
<1>3. \A c \in Columns : latest[s][c] \in Nat /\ latest[s][c] <= clock
    BY <1>1 DEF IInv, Sorts, Values, Older
<1>4. new \in Values /\ \A c \in Columns : new[c] <= clock + 1 /\ new[c] >= latest[s][c]
    BY <1>1, <1>3 DEF Values
<1> HIDE DEF new
<1>5. /\ latest' \in [Symbols -> Values] /\ latest'[s] = new
      /\ \A t \in Symbols : t # s => latest'[t] = latest[t]
    BY <1>1, <1>2, <1>4 DEF Sorts
<1>6. dirty' \in Seq(Symbols) /\ \A t \in Symbols : Contains(dirty', t) <=> Contains(dirty, t) \/ t = s
    <2>1. CASE Contains(dirty, s)
        BY <1>1, <2>1 DEF MarkSeen, Sorts
    <2>2. CASE ~Contains(dirty, s)
        BY <1>1, <2>2, ContainsAppend DEF MarkSeen, Sorts
    <2> QED
        BY <2>1, <2>2
<1>7. Sorts'
    BY <1>1, <1>5, <1>6 DEF Sorts
<1>8. Phases'
    BY <1>1 DEF Phases
<1>9. ASSUME NEW t \in Symbols PROVE Older(t)' /\ Owing(t)' /\ (pool' = "open" => Held(t)')
    <2>1. Older(t) /\ Owing(t) /\ (pool = "open" => Held(t))
        BY DEF IInv
    <2>2. /\ Queued(t)' <=> Queued(t) \/ t = s
          /\ \A f \in Flushes : Writes(f, t)' = Writes(f, t)
        BY <1>1, <1>6 DEF Queued, Writes
    <2>3. \A c \in Columns : /\ latest[t][c] \in Nat /\ latest'[t][c] \in Nat
                             /\ latest'[t][c] >= latest[t][c] /\ latest'[t][c] <= clock'
        <3>1. CASE t = s
            BY <1>1, <1>3, <1>4, <1>5, <3>1 DEF Values
        <3>2. CASE t # s
            <4>1. latest'[t] = latest[t] /\ latest[t] \in Values
                BY <1>1, <1>5, <3>2 DEF Sorts
            <4>2. \A c \in Columns : latest[t][c] \in Nat /\ latest[t][c] <= clock
                BY <2>1, <4>1 DEF Values, Older
            <4> QED
                BY <1>1, <4>1, <4>2
        <3> QED
            BY <3>1, <3>2
    <2>4. Older(t)'
        <3>1. /\ rows[t]["lastPrice"] \in Nat /\ owed[t] \in Nat
              /\ \A f \in Flushes : flushes[f].patch["lastPrice"] \in Nat
            BY <1>1, ColumnsAreSome DEF Sorts, FlushCall, Values
        <3> QED
            BY <1>1, <2>1, <2>2, <2>3, <3>1, ColumnsAreSome DEF Older
    <2>5. Owing(t)'
        BY <1>1, <2>1 DEF Owing, Covered, Writes, CutOff, Waiting, Refuses
    <2>6. pool' = "open" => Held(t)'
        <3>1. CASE t = s
            BY <2>2, <3>1 DEF Held
        <3>2. CASE t # s
            <4>1. latest'[t] = latest[t]
                BY <1>5, <3>2
            <4>2. \A c \in Columns : Covered(t, c, latest[t][c])' = Covered(t, c, latest[t][c])
                BY <1>1, <4>1 DEF Covered, Writes
            <4> QED
                BY <1>1, <2>1, <2>2, <4>2 DEF Held
        <3> QED
            BY <3>1, <3>2
    <2> QED
        BY <2>4, <2>5, <2>6
<1> QED
    BY <1>7, <1>8, <1>9 DEF IInv

-------------------------------------------------------------------------------
(***************************************************************************)
(* Turns of flushes                                                        *)
(***************************************************************************)
\* A flush takes its next symbol, or the first one of those in dirty.
TurnTaken(f) ==
    /\ dirty' \in Seq(Symbols) /\ flushes' \in [Flushes -> FlushCall]
    /\ \A g \in Flushes : g # f => flushes'[g] = flushes[g]
    /\ flushes'[f].at = "refused" => pool = "ending"
    /\ flushes'[f].at = "statement" => pool = "open"
    /\ \A s \in Symbols :
          /\ Writes(f, s)' => flushes'[f].patch = latest[s]
          /\ Queued(s) => Queued(s)' \/ Writes(f, s)' \/ Refuses(f, s)'
          /\ Contains(flushes[f].rest, s) =>
                Contains(flushes'[f].rest, s) \/ Writes(f, s)' \/ Refuses(f, s)'

LEMMA TurnIsTaken ==
    ASSUME IInv, NEW f \in Flushes, NEW q \in Seq(Symbols),
           flushes' = [flushes EXCEPT ![f] = Turn(q)],
           \/ q = dirty /\ dirty' = <<>> /\ flushes[f] = NoCall
           \/ q = flushes[f].rest /\ dirty' = dirty
    PROVE  /\ TurnTaken(f)
           /\ \A s \in Symbols : Contains(q, s) =>
                    Contains(flushes'[f].rest, s) \/ Writes(f, s)' \/ Refuses(f, s)'
<1>1. Sorts /\ Phases /\ dirty \in Seq(Symbols)
    BY DEF IInv, Sorts
<1>2. Turn(q) \in FlushCall
    BY <1>1, TurnEffect
<1>3. /\ flushes' \in [Flushes -> FlushCall] /\ flushes'[f] = Turn(q)
      /\ \A g \in Flushes : g # f => flushes'[g] = flushes[g]
    BY <1>1, <1>2 DEF Sorts
<1>4. flushes'[f].at = "refused" => pool = "ending"
    BY <1>1, <1>3, TurnEffect DEF Phases
<1>5. flushes'[f].at = "statement" => pool = "open"
    BY <1>1, <1>3, TurnEffect
<1>6. ASSUME NEW s \in Symbols, Writes(f, s)'
      PROVE  flushes'[f].patch = latest[s]
    <2>1. Turn(q).at = "statement" /\ Turn(q).symbol = s
        BY <1>3, <1>6 DEF Writes
    <2> QED
        BY <1>1, <1>3, <2>1, TurnEffect
<1>7. ASSUME NEW s \in Symbols, Contains(q, s)
      PROVE  Contains(flushes'[f].rest, s) \/ Writes(f, s)' \/ Refuses(f, s)'
    <2>1. \/ Contains(Turn(q).rest, s)
          \/ Turn(q).at \in {"statement", "refused"} /\ Turn(q).symbol = s
        BY <1>1, <1>7, TurnEffect
    <2> QED
        BY <1>3, <2>1 DEF Writes, Refuses
<1>8. ASSUME NEW s \in Symbols, Queued(s)
      PROVE  Queued(s)' \/ Writes(f, s)' \/ Refuses(f, s)'
    <2>1. CASE Contains(q, s)
        BY <1>7, <2>1 DEF Queued
    <2>2. CASE ~Contains(q, s)
        <3>1. CASE Contains(dirty, s)
            BY <2>2, <3>1 DEF Queued
        <3>2. CASE \E g \in Flushes : Contains(flushes[g].rest, s)
            <4>1. PICK g \in Flushes : Contains(flushes[g].rest, s)
                BY <3>2
            <4>2. g # f
                BY <2>2, <4>1, NoCallSort, ContainsNothing
            <4> QED
                BY <1>3, <4>1, <4>2 DEF Queued
        <3> QED
            BY <1>8, <3>1, <3>2 DEF Queued
    <2> QED
        BY <2>1, <2>2
<1>9. ASSUME NEW s \in Symbols, Contains(flushes[f].rest, s)
      PROVE  Contains(flushes'[f].rest, s) \/ Writes(f, s)' \/ Refuses(f, s)'
    <2>1. Contains(q, s)
        BY <1>9, NoCallSort, ContainsNothing
    <2> QED
        BY <1>7, <2>1
<1>10. dirty' \in Seq(Symbols)
    <2>1. <<>> \in Seq(Symbols)
        OBVIOUS
    <2> QED
        BY <1>1, <2>1
<1> QED
    BY <1>3, <1>4, <1>5, <1>6, <1>7, <1>8, <1>9, <1>10 DEF TurnTaken

\* What is in the row or lost stays so, unless something newer takes its place.
Kept(s) ==
    /\ rows'[s]["lastPrice"] <= latest[s]["lastPrice"]
    /\ \A c \in Columns, v \in Nat :
            rows[s][c] >= v \/ lost[s][c] >= v => rows'[s][c] >= v \/ lost'[s][c] >= v

\* The statement of f for the symbol, if it was one, is over: what it had is in
\* the row or lost.
Settles(f, s) ==
    Writes(f, s) => \A c \in Columns, v \in Nat :
            flushes[f].patch[c] >= v => rows'[s][c] >= v \/ lost'[s][c] >= v

LEMMA NothingForgotten ==
    ASSUME NEW s \in Symbols, Older(s), rows'[s] = rows[s], lost'[s] = lost[s]
    PROVE  Kept(s)
BY DEF Older, Kept

LEMMA CoveredKept ==
    ASSUME NEW f \in Flushes, NEW s \in Symbols, Kept(s), Settles(f, s),
           \A g \in Flushes : g # f => flushes'[g] = flushes[g],
           NEW c \in Columns, NEW v \in Nat, Covered(s, c, v)
    PROVE  \/ \E g \in Flushes : Writes(g, s)' /\ flushes'[g].patch[c] >= v
           \/ rows'[s][c] >= v
           \/ lost'[s][c] >= v
<1>1. CASE rows[s][c] >= v \/ lost[s][c] >= v
    BY <1>1 DEF Kept
<1>2. CASE \E g \in Flushes : Writes(g, s) /\ flushes[g].patch[c] >= v
    <2>1. PICK g \in Flushes : Writes(g, s) /\ flushes[g].patch[c] >= v
        BY <1>2
    <2>2. CASE g = f
        BY <2>1, <2>2 DEF Settles
    <2>3. CASE g # f
        <3>1. flushes'[g] = flushes[g]
            BY <2>3
        <3>2. Writes(g, s)' /\ flushes'[g].patch[c] >= v
            BY <2>1, <3>1 DEF Writes
        <3> QED
            BY <3>2
    <2> QED
        BY <2>2, <2>3
<1> QED
    BY <1>1, <1>2 DEF Covered

\* A flush that takes its next symbol, or its first ones, keeps the invariant,
\* if what it did with its last one is not forgotten.
LEMMA TurnKeepsIInv ==
    ASSUME IInv, NEW f \in Flushes, TurnTaken(f), Phases', Sorts',
           UNCHANGED <<latest, clock, owed, taken, pool>>, refused \subseteq refused',
           f = 0 => pool = "open",
           \A s \in Symbols : Kept(s) /\ Settles(f, s) /\ (Refuses(f, s) => s \in refused')
    PROVE  IInv'
<1>1. ASSUME NEW s \in Symbols PROVE Older(s)' /\ Owing(s)' /\ (pool' = "open" => Held(s)')
    <2>1. /\ Older(s) /\ Owing(s) /\ (pool = "open" => Held(s)) /\ latest[s] \in Values
          /\ owed[s] \in Nat /\ \A c \in Columns : latest[s][c] \in Nat
        BY DEF IInv, Sorts, Values
    <2>2. /\ Kept(s) /\ Settles(f, s) /\ (Refuses(f, s) => s \in refused')
          /\ \A g \in Flushes : g # f => flushes'[g] = flushes[g]
          /\ flushes'[f].at = "refused" => pool = "ending"
          /\ Writes(f, s)' => flushes'[f].patch = latest[s]
          /\ Queued(s) => Queued(s)' \/ Writes(f, s)' \/ Refuses(f, s)'
          /\ Contains(flushes[f].rest, s) =>
                Contains(flushes'[f].rest, s) \/ Writes(f, s)' \/ Refuses(f, s)'
        BY DEF TurnTaken
    <2>3. Older(s)'
        <3>1. ASSUME NEW g \in Flushes, Writes(g, s)'
              PROVE  flushes'[g].patch["lastPrice"] <= latest[s]["lastPrice"]
            <4>1. CASE g = f
                BY <2>1, <2>2, <3>1, <4>1, ColumnsAreSome
            <4>2. CASE g # f
                <5>1. flushes'[g] = flushes[g] /\ Writes(g, s)
                    BY <2>2, <3>1, <4>2 DEF Writes
                <5> QED
                    BY <2>1, <5>1 DEF Older
            <4> QED
                BY <4>1, <4>2
        <3> QED
            BY <2>1, <2>2, <3>1 DEF Older, Kept
    <2>4. ASSUME Writes(f, s)', NEW c \in Columns, NEW v \in Nat, v <= latest[s][c]
          PROVE  \E g \in Flushes : Writes(g, s)' /\ flushes'[g].patch[c] >= v
        <3>1. flushes'[f].patch[c] >= v
            BY <2>1, <2>2, <2>4
        <3> QED
            BY <2>4, <3>1
    <2>5. ASSUME pool' = "open" PROVE Held(s)'
        <3>1. CASE Queued(s)
            <4>1. Queued(s)' \/ Writes(f, s)'
                BY <2>2, <2>5, <3>1 DEF Refuses
            <4>2. Writes(f, s)' => \A c \in Columns : Covered(s, c, latest[s][c])'
                BY <2>1, <2>4 DEF Covered
            <4> QED
                BY <4>1, <4>2 DEF Held
        <3>2. CASE \A c \in Columns : Covered(s, c, latest[s][c])
            <4>1. \A c \in Columns : Covered(s, c, latest[s][c])'
                BY <2>1, <2>2, <3>2, CoveredKept DEF Covered
            <4> QED
                BY <4>1 DEF Held
        <3> QED
            BY <2>1, <2>5, <3>1, <3>2 DEF Held
    <2>6. Writes(f, s)' => Covered(s, "lastPrice", owed[s])'
        BY <2>1, <2>4, ColumnsAreSome DEF Covered, Older
    <2>7. Owing(s)'
        <3>1. CASE Contains(flushes[0].rest, s)
            <4>1. CASE f = 0
                BY <2>2, <2>6, <3>1, <4>1 DEF Owing, Refuses
            <4>2. CASE f # 0
                BY <2>2, <3>1, <4>2, SymbolsAreSome DEF Owing
            <4> QED
                BY <4>1, <4>2
        <3>2. CASE Covered(s, "lastPrice", owed[s])
            BY <2>1, <2>2, <3>2, CoveredKept, ColumnsAreSome DEF Covered, Owing
        <3>3. CASE CutOff(s)
            <4>1. s \in taken' /\ 1 .. MaxFlushes \subseteq Flushes
                BY <3>3, SymbolsAreSome DEF CutOff
            <4>2. CASE s \in refused
                BY <4>1, <4>2 DEF Owing, CutOff
            <4>3. CASE \E g \in 1 .. MaxFlushes : Contains(flushes[g].rest, s)
                <5>1. PICK g \in 1 .. MaxFlushes : Contains(flushes[g].rest, s)
                    BY <4>3
                <5>2. CASE g # f
                    BY <2>2, <4>1, <5>1, <5>2 DEF Owing, CutOff, Waiting
                <5>3. CASE g = f
                    <6>1. Contains(flushes'[g].rest, s) \/ Writes(f, s)' \/ Refuses(g, s)'
                        BY <2>2, <5>1, <5>3
                    <6> QED
                        BY <2>6, <4>1, <6>1 DEF Owing, CutOff, Waiting
                <5> QED
                    BY <5>2, <5>3
            <4>4. CASE \E g \in 1 .. MaxFlushes : Refuses(g, s)
                <5>1. PICK g \in 1 .. MaxFlushes : Refuses(g, s)
                    BY <4>4
                <5>2. CASE g # f
                    <6>1. Refuses(g, s)'
                        BY <2>2, <4>1, <5>1, <5>2 DEF Refuses
                    <6> QED
                        BY <4>1, <6>1 DEF Owing, CutOff
                <5>3. CASE g = f
                    BY <2>2, <4>1, <5>1, <5>3 DEF Owing, CutOff
                <5> QED
                    BY <5>2, <5>3
            <4> QED
                BY <3>3, <4>2, <4>3, <4>4 DEF CutOff, Waiting
        <3> QED
            BY <2>1, <3>1, <3>2, <3>3 DEF Owing
    <2> QED
        BY <2>3, <2>5, <2>7
<1> QED
    BY <1>1 DEF IInv

LEMMA FlusherFiresStep ==
    ASSUME IInv, NEW f \in 1 .. MaxFlushes, FlusherFires(f)
    PROVE  IInv'
<1>1. /\ f \in Flushes /\ f # 0 /\ flushes[f] = NoCall /\ Sorts /\ Phases /\ dirty \in Seq(Symbols)
      /\ flushes' = [flushes EXCEPT ![f] = Turn(dirty)] /\ dirty' = <<>>
      /\ process = "up"
      /\ UNCHANGED <<process, shutdown, pool, latest, opens, rows, clock, lost, owed, taken, refused>>
    BY SymbolsAreSome DEF IInv, Sorts, FlusherFires, FlushState, history
<1>2. TurnTaken(f)
    BY <1>1, TurnIsTaken
<1>3. Sorts'
    BY <1>1, <1>2 DEF Sorts, TurnTaken
<1>4. Phases'
    BY <1>1, <1>2 DEF Phases, TurnTaken
<1>5. ASSUME NEW s \in Symbols PROVE Kept(s) /\ Settles(f, s) /\ ~Refuses(f, s)
    BY <1>1, NothingForgotten, NoCallSort DEF IInv, Settles, Writes, Refuses
<1> QED
    BY <1>1, <1>2, <1>3, <1>4, <1>5, TurnKeepsIInv

-------------------------------------------------------------------------------
(***************************************************************************)
(* Statements                                                              *)
(***************************************************************************)
\* A call that is not over belongs to a shutdown only if it is the one of stop().
LEMMA BusyFlush ==
    ASSUME IInv, NEW f \in Flushes, flushes[f].at # "idle"
    PROVE  f = 0 => shutdown = "flush" /\ pool = "open"
BY NoCallSort DEF IInv, Phases

LEMMA NextTurnIsTaken ==
    ASSUME IInv, NEW f \in Flushes, NextTurn(f), dirty' = dirty
    PROVE  TurnTaken(f)
<1>1. flushes[f].rest \in Seq(Symbols) /\ flushes' = [flushes EXCEPT ![f] = Turn(flushes[f].rest)]
    BY DEF IInv, Sorts, FlushCall, NextTurn
<1> QED
    BY <1>1, TurnIsTaken

\* The phases of the process when only a flush moves on.
LEMMA TurnKeepsPhases ==
    ASSUME IInv, NEW f \in Flushes, TurnTaken(f), flushes[f].at # "idle",
           process = "up", UNCHANGED <<process, shutdown, pool>>
    PROVE  Phases'
<1>1. f = 0 => shutdown = "flush"
    BY BusyFlush
<1> QED
    BY <1>1, SymbolsAreSome DEF IInv, Phases, TurnTaken

LEMMA PublishTickerStep ==
    ASSUME IInv, NEW f \in Flushes, PublishTicker(f)
    PROVE  IInv'
<1>1. /\ flushes[f].at = "publish" /\ Sorts /\ process = "up" /\ dirty' = dirty /\ NextTurn(f)
      /\ UNCHANGED <<process, shutdown, pool, latest, opens, rows, clock, lost, owed, taken, refused>>
    BY DEF IInv, PublishTicker, history
<1>2. TurnTaken(f) /\ Phases' /\ (f = 0 => pool = "open")
    BY <1>1, NextTurnIsTaken, TurnKeepsPhases, BusyFlush
<1>3. Sorts'
    BY <1>1, <1>2 DEF Sorts, TurnTaken
<1>4. ASSUME NEW s \in Symbols PROVE Kept(s) /\ Settles(f, s) /\ ~Refuses(f, s)
    BY <1>1, NothingForgotten DEF IInv, Settles, Writes, Refuses
<1> QED
    BY <1>1, <1>2, <1>3, <1>4, TurnKeepsIInv

LEMMA FailFlushStep ==
    ASSUME IInv, NEW f \in Flushes, FailFlush(f)
    PROVE  IInv'
<1> DEFINE call == flushes[f]
<1>1. /\ call.at \in {"statement", "refused"} /\ Sorts /\ process = "up" /\ dirty' = dirty /\ NextTurn(f)
      /\ UNCHANGED <<process, shutdown, pool, latest, opens, rows, clock, owed, taken>>
      /\ call \in FlushCall
    BY DEF IInv, FailFlush, Sorts
<1>2. TurnTaken(f) /\ Phases' /\ (f = 0 => pool = "open")
    BY <1>1, NextTurnIsTaken, TurnKeepsPhases, BusyFlush
<1>3. CASE call.at = "statement"
    <2> DEFINE new == [c \in Columns |-> Max({lost[call.symbol][c], call.patch[c]})]
    <2>1. lost' = [lost EXCEPT ![call.symbol] = new] /\ refused' = refused
        BY <1>3 DEF FailFlush
    <2>2. ASSUME call.symbol \in Symbols
          PROVE  /\ new \in Values
                 /\ \A c \in Columns : /\ lost[call.symbol][c] \in Nat /\ call.patch[c] \in Nat
                                      /\ new[c] >= lost[call.symbol][c] /\ new[c] >= call.patch[c]
        <3>1. \A c \in Columns : lost[call.symbol][c] \in Nat /\ call.patch[c] \in Nat
            BY <1>1, <2>2 DEF Sorts, FlushCall, Values
        <3>2. \A c \in Columns : /\ new[c] \in Nat
                                 /\ new[c] >= lost[call.symbol][c] /\ new[c] >= call.patch[c]
            BY <3>1, MaxOfTwo
        <3> QED
            BY <3>1, <3>2 DEF Values
    <2> HIDE DEF new
    <2>3. lost' \in [Symbols -> Values]
        BY <1>1, <2>1, <2>2 DEF Sorts
    <2>4. Sorts'
        BY <1>1, <1>2, <2>3 DEF Sorts, TurnTaken
    <2>5. ASSUME NEW s \in Symbols PROVE Kept(s) /\ Settles(f, s) /\ ~Refuses(f, s)
        <3>1. Older(s) /\ rows' = rows
            BY <1>1 DEF IInv
        <3>2. CASE s = call.symbol
            <4>1. /\ lost'[s] = new /\ new \in Values
                  /\ \A c \in Columns : /\ lost[s][c] \in Nat /\ call.patch[c] \in Nat
                                       /\ new[c] >= lost[s][c] /\ new[c] >= call.patch[c]
                BY <1>1, <2>1, <2>2, <3>2 DEF Sorts
            <4>2. \A c \in Columns : lost'[s][c] \in Nat
                BY <4>1 DEF Values
            <4>3. Kept(s)
                BY <3>1, <4>1, <4>2 DEF Kept, Older
            <4>4. Settles(f, s)
                BY <4>1, <4>2 DEF Settles
            <4> QED
                BY <1>3, <4>3, <4>4 DEF Refuses
        <3>3. CASE s # call.symbol
            <4>1. lost'[s] = lost[s]
                BY <1>1, <2>1, <3>3 DEF Sorts
            <4> QED
                BY <1>3, <3>1, <3>3, <4>1, NothingForgotten DEF Settles, Writes, Refuses
        <3> QED
            BY <3>2, <3>3
    <2> QED
        BY <1>1, <1>2, <2>1, <2>4, <2>5, TurnKeepsIInv
<1>4. CASE call.at = "refused"
    <2>1. lost' = lost /\ refused' = refused \cup {call.symbol}
        BY <1>4 DEF FailFlush
    <2>2. Sorts'
        BY <1>1, <1>2, <2>1 DEF Sorts, TurnTaken
    <2>3. ASSUME NEW s \in Symbols
          PROVE  Kept(s) /\ Settles(f, s) /\ (Refuses(f, s) => s \in refused')
        BY <1>1, <1>4, <2>1, NothingForgotten DEF IInv, Settles, Writes, Refuses
    <2> QED
        BY <1>1, <1>2, <2>1, <2>2, <2>3, TurnKeepsIInv
<1> QED
    BY <1>1, <1>3, <1>4

\* A statement of updateState writes what it brings, and forgets nothing newer.
LEMMA WriteEffect ==
    ASSUME Sorts, NEW s \in Symbols, NEW patch, \A c \in DOMAIN patch : patch[c] \in Nat,
           Write(s, patch)
    PROVE  /\ rows' \in [Symbols -> [AllColumns -> Nat]] /\ lost' \in [Symbols -> Values]
           /\ \A t \in Symbols : t # s => rows'[t] = rows[t] /\ lost'[t] = lost[t]
           /\ \A c \in Columns, v \in Nat :
                /\ rows[s][c] >= v \/ lost[s][c] >= v => rows'[s][c] >= v \/ lost'[s][c] >= v
                /\ c \in DOMAIN patch /\ patch[c] >= v => rows'[s][c] >= v \/ lost'[s][c] >= v
           /\ \/ rows'[s]["lastPrice"] = rows[s]["lastPrice"]
              \/ "lastPrice" \in DOMAIN patch /\ rows'[s]["lastPrice"] = patch["lastPrice"]
<1> DEFINE brings(c) == c \in DOMAIN patch /\ patch[c] # None
           row == [c \in AllColumns |-> IF brings(c) THEN patch[c] ELSE rows[s][c]]
           gone == [c \in Columns |-> IF brings(c) /\ patch[c] < rows[s][c]
                                      THEN Max({lost[s][c], rows[s][c]}) ELSE lost[s][c]]
<1>1. rows[s] \in [AllColumns -> Nat] /\ lost[s] \in Values
    BY DEF Sorts
<1>2. UpdateState(rows[s], patch) = row
    BY <1>1 DEF UpdateState
<1>3. /\ rows' = [rows EXCEPT ![s] = UpdateState(rows[s], patch)]
      /\ lost' = [lost EXCEPT ![s] = [c \in Columns |->
                        IF c \in DOMAIN patch /\ patch[c] # None /\ patch[c] < rows[s][c]
                        THEN Max({lost[s][c], rows[s][c]}) ELSE lost[s][c]]]
    BY DEF Write
<1>4. rows' = [rows EXCEPT ![s] = row]
    BY <1>2, <1>3
<1>5. lost' = [lost EXCEPT ![s] = gone]
    BY <1>3
<1>6. ASSUME NEW c \in Columns
      PROVE  /\ rows[s][c] \in Nat /\ lost[s][c] \in Nat /\ row[c] \in Nat /\ gone[c] \in Nat
             /\ gone[c] >= lost[s][c]
             /\ row[c] < rows[s][c] => gone[c] >= rows[s][c]
             /\ c \in DOMAIN patch => row[c] >= patch[c]
    <2>1. c \in AllColumns /\ rows[s][c] \in Nat /\ lost[s][c] \in Nat
        BY <1>1, ColumnsAreSome DEF Values
    <2>2. CASE brings(c)
        <3>1. row[c] = patch[c] /\ patch[c] \in Nat
            BY <2>1, <2>2
        <3>2. gone[c] = IF patch[c] < rows[s][c] THEN Max({lost[s][c], rows[s][c]}) ELSE lost[s][c]
            BY <2>2
        <3>3. /\ Max({lost[s][c], rows[s][c]}) \in {lost[s][c], rows[s][c]}
              /\ Max({lost[s][c], rows[s][c]}) >= lost[s][c]
              /\ Max({lost[s][c], rows[s][c]}) >= rows[s][c]
            BY <2>1, MaxOfTwo
        <3> HIDE DEF row, gone, brings
        <3> QED
            BY <2>1, <3>1, <3>2, <3>3
    <2>3. CASE ~brings(c)
        <3>1. row[c] = rows[s][c] /\ gone[c] = lost[s][c]
            BY <2>1, <2>3
        <3>2. c \in DOMAIN patch => patch[c] = 0
            BY <2>3 DEF None
        <3> HIDE DEF row, gone, brings
        <3> QED
            BY <2>1, <3>1, <3>2
    <2> HIDE DEF row, gone, brings
    <2> QED
        BY <2>2, <2>3
<1>7. row \in [AllColumns -> Nat]
    <2>1. ASSUME NEW c \in AllColumns PROVE (IF brings(c) THEN patch[c] ELSE rows[s][c]) \in Nat
        BY <1>1
    <2> QED
        BY <2>1
<1>8. gone \in Values
    <2>1. gone = [c \in Columns |-> gone[c]]
        OBVIOUS
    <2> HIDE DEF gone
    <2> QED
        BY <1>6, <2>1 DEF Values
<1>9. \/ row["lastPrice"] = rows[s]["lastPrice"]
      \/ "lastPrice" \in DOMAIN patch /\ row["lastPrice"] = patch["lastPrice"]
    BY ColumnsAreSome
<1> HIDE DEF row, gone
<1>10. rows'[s] = row /\ lost'[s] = gone
    BY <1>4, <1>5 DEF Sorts
<1>11. rows' \in [Symbols -> [AllColumns -> Nat]] /\ lost' \in [Symbols -> Values]
    BY <1>4, <1>5, <1>7, <1>8 DEF Sorts
<1>12. \A t \in Symbols : t # s => rows'[t] = rows[t] /\ lost'[t] = lost[t]
    BY <1>4, <1>5 DEF Sorts
<1>13. ASSUME NEW c \in Columns, NEW v \in Nat
       PROVE  /\ rows[s][c] >= v \/ lost[s][c] >= v => row[c] >= v \/ gone[c] >= v
              /\ c \in DOMAIN patch /\ patch[c] >= v => row[c] >= v \/ gone[c] >= v
    BY <1>6, <1>13
<1> QED
    BY <1>9, <1>10, <1>11, <1>12, <1>13

LEMMA ExecuteFlushStep ==
    ASSUME IInv, NEW f \in Flushes, ExecuteFlush(f)
    PROVE  IInv'
<1> DEFINE call == flushes[f]
<1>1. /\ call.at = "statement" /\ Sorts /\ process = "up" /\ dirty' = dirty /\ call \in FlushCall
      /\ UNCHANGED <<process, shutdown, pool, latest, opens, clock, owed, taken, refused>>
      /\ Write(call.symbol, call.patch)
    BY DEF IInv, ExecuteFlush, Sorts
<1>2. TurnTaken(f)
    <2>1. CASE call.patch["lastPrice"] = None
        BY <1>1, <2>1, NextTurnIsTaken DEF ExecuteFlush
    <2>2. CASE call.patch["lastPrice"] # None
        <3>1. flushes' = [flushes EXCEPT ![f].at = "publish"]
            BY <2>2 DEF ExecuteFlush
        <3>2. flushes' = [flushes EXCEPT ![f] = [call EXCEPT !.at = "publish"]]
            BY <3>1
        <3>3. [call EXCEPT !.at = "publish"] \in FlushCall
            BY <1>1 DEF FlushCall
        <3>4. /\ flushes' \in [Flushes -> FlushCall]
              /\ \A g \in Flushes : g # f => flushes'[g] = flushes[g]
              /\ flushes'[f].at = "publish" /\ flushes'[f].rest = flushes[f].rest
            BY <1>1, <3>2, <3>3 DEF Sorts, FlushCall
        <3>5. \A s \in Symbols : (Queued(s) => Queued(s)') /\ ~Writes(f, s)'
            BY <1>1, <3>4 DEF Queued, Writes
        <3> QED
            BY <1>1, <3>4, <3>5 DEF TurnTaken, Sorts
    <2> QED
        BY <2>1, <2>2
<1>3. Phases' /\ (f = 0 => pool = "open")
    BY <1>1, <1>2, TurnKeepsPhases, BusyFlush
<1>p. DOMAIN call.patch = Columns /\ \A c \in Columns : call.patch[c] \in Nat
    BY <1>1 DEF FlushCall, Values
<1>4. CASE call.symbol \in Symbols
    <2> DEFINE t == call.symbol
    <2>1. /\ rows' \in [Symbols -> [AllColumns -> Nat]] /\ lost' \in [Symbols -> Values]
          /\ \A s \in Symbols : s # t => rows'[s] = rows[s] /\ lost'[s] = lost[s]
          /\ \A c \in Columns, v \in Nat :
                /\ rows[t][c] >= v \/ lost[t][c] >= v => rows'[t][c] >= v \/ lost'[t][c] >= v
                /\ call.patch[c] >= v => rows'[t][c] >= v \/ lost'[t][c] >= v
          /\ \/ rows'[t]["lastPrice"] = rows[t]["lastPrice"]
             \/ rows'[t]["lastPrice"] = call.patch["lastPrice"]
        BY <1>1, <1>4, <1>p, WriteEffect
    <2>2. Sorts'
        BY <1>1, <1>2, <2>1 DEF Sorts, TurnTaken
    <2>3. ASSUME NEW s \in Symbols PROVE Kept(s) /\ Settles(f, s) /\ ~Refuses(f, s)
        <3>1. Older(s)
            BY DEF IInv
        <3>2. CASE s = t
            <4>1. Writes(f, s)
                BY <1>1, <3>2 DEF Writes
            <4>2. rows'[s]["lastPrice"] <= latest[s]["lastPrice"]
                BY <2>1, <3>1, <3>2, <4>1 DEF Older
            <4> QED
                BY <1>1, <2>1, <3>2, <4>2 DEF Kept, Settles, Refuses
        <3>3. CASE s # t
            BY <1>1, <2>1, <3>1, <3>3, NothingForgotten DEF Settles, Writes, Refuses
        <3> QED
            BY <3>2, <3>3
    <2> QED
        BY <1>1, <1>2, <1>3, <2>2, <2>3, TurnKeepsIInv
<1>5. CASE call.symbol \notin Symbols
    <2>1. rows' = rows /\ lost' = lost
        BY <1>1, <1>5 DEF Write, Sorts
    <2>2. Sorts'
        BY <1>1, <1>2, <2>1 DEF Sorts, TurnTaken
    <2>3. ASSUME NEW s \in Symbols PROVE Kept(s) /\ Settles(f, s) /\ ~Refuses(f, s)
        BY <1>1, <1>5, <2>1, NothingForgotten DEF IInv, Settles, Writes, Refuses
    <2> QED
        BY <1>1, <1>2, <1>3, <2>2, <2>3, TurnKeepsIInv
<1> QED
    BY <1>4, <1>5

\* A statement of another writer, of a bar that closed or of an open handler,
\* forgets nothing either.
LEMMA WriteKeepsIInv ==
    ASSUME IInv, NEW t \in Symbols, NEW patch, \A c \in DOMAIN patch : patch[c] \in Nat,
           "lastPrice" \notin DOMAIN patch, Write(t, patch),
           opens' \in [1 .. MaxOpens -> OpenCall],
           UNCHANGED <<process, shutdown, pool, latest, dirty, flushes, clock, owed, taken, refused>>
    PROVE  IInv'
<1>1. /\ Sorts /\ Phases
      /\ rows' \in [Symbols -> [AllColumns -> Nat]] /\ lost' \in [Symbols -> Values]
      /\ \A s \in Symbols : s # t => rows'[s] = rows[s] /\ lost'[s] = lost[s]
      /\ \A c \in Columns, v \in Nat :
            rows[t][c] >= v \/ lost[t][c] >= v => rows'[t][c] >= v \/ lost'[t][c] >= v
      /\ rows'[t]["lastPrice"] = rows[t]["lastPrice"]
    BY WriteEffect DEF IInv
<1>2. Sorts' /\ Phases'
    BY <1>1 DEF Sorts, Phases
<1>3. ASSUME NEW s \in Symbols PROVE Older(s)' /\ Owing(s)' /\ (pool' = "open" => Held(s)')
    <2>1. /\ Older(s) /\ Owing(s) /\ (pool = "open" => Held(s)) /\ owed[s] \in Nat
          /\ \A c \in Columns : latest[s][c] \in Nat
        BY <1>1 DEF IInv, Sorts, Values
    <2>2. Queued(s)' = Queued(s) /\ CutOff(s)' = CutOff(s)
        BY DEF Queued, CutOff, Waiting, Refuses
    <2>3. rows'[s]["lastPrice"] = rows[s]["lastPrice"]
        BY <1>1
    <2>4. Older(s)'
        BY <2>1, <2>3 DEF Older, Writes
    <2>5. \A c \in Columns, v \in Nat :
            rows[s][c] >= v \/ lost[s][c] >= v => rows'[s][c] >= v \/ lost'[s][c] >= v
        BY <1>1
    <2>6. Covered(s, "lastPrice", owed[s]) => Covered(s, "lastPrice", owed[s])'
        BY <2>1, <2>5, ColumnsAreSome DEF Covered, Writes
    <2>7. Owing(s)'
        BY <2>1, <2>2, <2>6 DEF Owing
    <2>8. \A c \in Columns : Covered(s, c, latest[s][c]) => Covered(s, c, latest[s][c])'
        BY <2>1, <2>5 DEF Covered, Writes
    <2>9. pool' = "open" => Held(s)'
        BY <2>1, <2>2, <2>8 DEF Held
    <2> QED
        BY <2>4, <2>7, <2>9
<1> QED
    BY <1>2, <1>3 DEF IInv

LEMMA MarkClosedStep ==
    ASSUME IInv, NEW t \in Symbols, MarkClosed(t)
    PROVE  IInv'
<1> DEFINE patch == [lastOpenTime |-> rows[t]["lastOpenTime"] + 1]
<1>1. /\ Sorts /\ Write(t, patch)
      /\ UNCHANGED <<process, shutdown, pool, latest, dirty, flushes, opens, clock, owed, taken, refused>>
    BY DEF IInv, MarkClosed, memory
<1>2. rows[t]["lastOpenTime"] \in Nat
    BY <1>1 DEF Sorts, AllColumns
<1>3. "lastPrice" \notin DOMAIN patch /\ \A c \in DOMAIN patch : patch[c] \in Nat
    BY <1>2
<1>4. opens' \in [1 .. MaxOpens -> OpenCall]
    BY <1>1 DEF Sorts
<1> HIDE DEF patch
<1> QED
    BY <1>1, <1>3, <1>4, WriteKeepsIInv

LEMMA ExecuteOpenStep ==
    ASSUME IInv, NEW i \in 1 .. MaxOpens, ExecuteOpen(i)
    PROVE  IInv'
<1> DEFINE call == opens[i]
           patch == [lastMessageAt |-> call.stamp]
<1>1. /\ Sorts /\ Phases /\ call \in OpenCall
      /\ UNCHANGED <<process, shutdown, pool, latest, dirty, flushes, clock, owed, taken, refused>>
      /\ opens' = [opens EXCEPT ![i] = OpenTurn(call.symbol + 1, call.stamp)]
      /\ IF call.symbol = None THEN UNCHANGED <<rows, lost>> ELSE Write(call.symbol, patch)
    BY DEF IInv, ExecuteOpen, Sorts
<1>2. call.symbol \in 0 .. NumSymbols /\ call.stamp \in Nat
    BY <1>1 DEF OpenCall
<1>3. opens' \in [1 .. MaxOpens -> OpenCall]
    <2>1. OpenTurn(call.symbol + 1, call.stamp) \in OpenCall
        BY <1>2, OpenTurnSort, SymbolsAreSome
    <2> QED
        BY <1>1, <2>1 DEF Sorts
<1>4. CASE call.symbol = None
    <2>1. UNCHANGED <<latest, dirty, flushes, rows, history>> /\ clock' \in Nat /\ clock' >= clock
        BY <1>1, <1>4 DEF history, Sorts
    <2>2. Phases'
        BY <1>1 DEF Phases
    <2> QED
        BY <1>1, <1>3, <2>1, <2>2, Frame
<1>5. CASE call.symbol # None
    <2>1. call.symbol \in Symbols /\ Write(call.symbol, patch)
        BY <1>1, <1>2, <1>5, SymbolsAreSome DEF Symbols, None
    <2>2. "lastPrice" \notin DOMAIN patch /\ \A c \in DOMAIN patch : patch[c] \in Nat
        BY <1>2
    <2> HIDE DEF patch
    <2> QED
        BY <1>1, <1>3, <2>1, <2>2, WriteKeepsIInv
<1> QED
    BY <1>4, <1>5

-------------------------------------------------------------------------------
(***************************************************************************)
(* The signal                                                              *)
(***************************************************************************)
LEMMA SignalStep ==
    ASSUME IInv, Signal
    PROVE  IInv'
<1>1. /\ Sorts /\ Phases /\ process = "up" /\ shutdown = "none" /\ pool = "open"
      /\ flushes[0] = NoCall /\ 0 \in Flushes /\ 1 .. MaxFlushes = Flushes \ {0}
    BY ProcessAssumption DEF IInv, Signal, Phases, Flushes
<1>2. CASE Exit("killed")
    <2>1. /\ UNCHANGED <<latest, dirty, flushes, rows, history>> /\ pool' = pool /\ shutdown' = shutdown
          /\ process' = "killed" /\ flushes' = flushes
          /\ opens' \in [1 .. MaxOpens -> OpenCall] /\ clock' \in Nat /\ clock' >= clock
        BY <1>1, <1>2 DEF Exit, memory, Sorts
    <2>2. Phases'
        BY <1>1, <2>1 DEF Phases
    <2> QED
        BY <2>1, <2>2, Frame
<1>3. CASE /\ AwaitedFirst /\ FlushState(0)
           /\ owed' = [s \in Symbols |-> latest[s]["lastPrice"]]
           /\ taken' = {s \in Symbols : Waiting(s)}
           /\ UNCHANGED <<main, process, pool, latest, opens, rows, clock, faults, lost, refused>>
    <2>1. /\ flushes' = [flushes EXCEPT ![0] = Turn(dirty)] /\ dirty' = <<>> /\ dirty \in Seq(Symbols)
          /\ shutdown' = "flush" /\ UNCHANGED <<process, pool, latest, opens, rows, clock, lost, refused>>
        BY <1>1, <1>3 DEF FlushState, AwaitedFirst, Sorts
    <2>2. /\ TurnTaken(0)
          /\ \A s \in Symbols : Contains(dirty, s) =>
                Contains(flushes'[0].rest, s) \/ Writes(0, s)' \/ Refuses(0, s)'
        BY <1>1, <2>1, TurnIsTaken
    <2>3. ASSUME NEW s \in Symbols
          PROVE  /\ \A c \in Columns : latest[s][c] \in Nat
                 /\ owed'[s] = latest[s]["lastPrice"] /\ owed'[s] \in Nat
                 /\ Waiting(s) => s \in taken'
        BY <1>1, <1>3, ColumnsAreSome DEF Sorts, Values
    <2>4. Sorts'
        <3>1. owed' \in [Symbols -> Nat]
            BY <1>3, <2>3
        <3> QED
            BY <1>1, <2>1, <2>2, <3>1 DEF Sorts, TurnTaken
    <2>5. Phases'
        BY <1>1, <2>1, <2>2 DEF Phases, TurnTaken
    <2>6. ASSUME NEW s \in Symbols PROVE Older(s)' /\ Owing(s)' /\ Held(s)'
        <3>1. /\ Older(s) /\ Held(s) /\ latest[s] \in Values
              /\ \A g \in Flushes : g # 0 => flushes'[g] = flushes[g]
              /\ Writes(0, s)' => flushes'[0].patch = latest[s]
              /\ ~Refuses(0, s)'
            BY <1>1, <2>2 DEF IInv, Sorts, TurnTaken, Refuses
        <3>2. ASSUME Writes(0, s)', NEW c \in Columns PROVE Covered(s, c, latest[s][c])'
            <4>1. flushes'[0].patch[c] >= latest[s][c]
                BY <2>3, <3>1, <3>2
            <4> QED
                BY <1>1, <2>1, <3>2, <4>1 DEF Covered
        <3>3. ASSUME NEW c \in Columns, Covered(s, c, latest[s][c])
              PROVE  Covered(s, c, latest[s][c])'
            <4>1. CASE \E g \in Flushes : Writes(g, s) /\ flushes[g].patch[c] >= latest[s][c]
                <5>1. PICK g \in Flushes : Writes(g, s) /\ flushes[g].patch[c] >= latest[s][c]
                    BY <4>1
                <5>2. g # 0
                    BY <1>1, <5>1, NoCallSort DEF Writes
                <5>3. flushes'[g] = flushes[g]
                    BY <3>1, <5>2
                <5>4. Writes(g, s)' /\ flushes'[g].patch[c] >= latest'[s][c]
                    BY <2>1, <5>1, <5>3 DEF Writes
                <5> QED
                    BY <5>4 DEF Covered
            <4>2. CASE rows[s][c] >= latest[s][c] \/ lost[s][c] >= latest[s][c]
                BY <2>1, <4>2 DEF Covered
            <4> QED
                BY <3>3, <4>1, <4>2 DEF Covered
        <3>4. Older(s)'
            <4>1. ASSUME NEW g \in Flushes, Writes(g, s)'
                  PROVE  flushes'[g].patch["lastPrice"] <= latest[s]["lastPrice"]
                <5>1. CASE g = 0
                    BY <2>3, <3>1, <4>1, <5>1, ColumnsAreSome
                <5>2. CASE g # 0
                    BY <3>1, <4>1, <5>2 DEF Older, Writes
                <5> QED
                    BY <5>1, <5>2
            <4> QED
                BY <2>1, <2>3, <3>1, <4>1 DEF Older
        <3>5. Queued(s) => Queued(s)' \/ Writes(0, s)'
            BY <2>2, <3>1 DEF TurnTaken
        <3>6. Held(s)'
            BY <3>1, <3>2, <3>3, <3>5 DEF Held
        <3>7. Covered(s, "lastPrice", latest[s]["lastPrice"])' => Covered(s, "lastPrice", owed[s])'
            BY <2>1, <2>3 DEF Covered
        <3>8. Owing(s)'
            <4>1. CASE Contains(dirty, s)
                BY <2>2, <3>1, <3>2, <3>7, <4>1, ColumnsAreSome DEF Owing
            <4>2. CASE \E g \in Flushes : Contains(flushes[g].rest, s)
                <5>1. PICK g \in Flushes : Contains(flushes[g].rest, s)
                    BY <4>2
                <5>2. g # 0
                    BY <1>1, <5>1, NoCallSort, ContainsNothing
                <5>3. g \in 1 .. MaxFlushes /\ Contains(flushes'[g].rest, s)
                    BY <1>1, <3>1, <5>1, <5>2
                <5>4. Waiting(s) /\ Waiting(s)'
                    BY <5>1, <5>3 DEF Waiting
                <5> QED
                    BY <2>3, <5>4 DEF Owing, CutOff
            <4>3. CASE \A c \in Columns : Covered(s, c, latest[s][c])
                BY <3>3, <3>7, <4>3, ColumnsAreSome DEF Owing
            <4> QED
                BY <3>1, <4>1, <4>2, <4>3 DEF Held, Queued
        <3> QED
            BY <3>4, <3>6, <3>8
    <2> QED
        BY <2>4, <2>5, <2>6 DEF IInv
<1> QED
    BY <1>2, <1>3 DEF Signal

-------------------------------------------------------------------------------
(***************************************************************************)
(* The theorems                                                            *)
(***************************************************************************)
LEMMA InitIInv == Init => IInv
<1> SUFFICES ASSUME Init PROVE IInv
    OBVIOUS
<1>1. Sorts
    <2>1. [c \in Columns |-> None] \in Values /\ [c \in AllColumns |-> None] \in [AllColumns -> Nat]
        BY DEF Values, None
    <2>2. latest \in [Symbols -> Values] /\ lost \in [Symbols -> Values]
        BY <2>1 DEF Init
    <2>3. rows \in [Symbols -> [AllColumns -> Nat]]
        BY <2>1 DEF Init, AllColumns
    <2>4. flushes \in [Flushes -> FlushCall]
        BY NoCallSort DEF Init, Flushes
    <2>5. dirty \in Seq(Symbols)
        <3>1. <<>> \in Seq(Symbols)
            OBVIOUS
        <3> QED
            BY <3>1 DEF Init
    <2>6. opens \in [1 .. MaxOpens -> OpenCall]
        <3>1. NoOpen \in OpenCall
            BY SymbolsAreSome DEF NoOpen, OpenCall, None
        <3> QED
            BY <3>1 DEF Init
    <2> QED
        BY <2>2, <2>3, <2>4, <2>5, <2>6 DEF Init, Sorts, None
<1>2. \A f \in Flushes : flushes[f] = NoCall
    BY DEF Init, Flushes
<1>3. Phases
    BY <1>2, NoCallSort, SymbolsAreSome DEF Init, Phases
<1>4. ASSUME NEW s \in Symbols PROVE Older(s) /\ Owing(s) /\ Held(s)
    <2>1. \A f \in Flushes : ~Writes(f, s)
        BY <1>2, NoCallSort DEF Writes
    <2>2. /\ \A c \in Columns : latest[s][c] = 0 /\ rows[s][c] = 0
          /\ owed[s] = 0 /\ clock = 0
        BY DEF Init, None
    <2> QED
        BY <2>1, <2>2, ColumnsAreSome DEF Older, Owing, Held, Covered
<1> QED
    BY <1>1, <1>3, <1>4 DEF IInv

\* However messages, flushes, open handlers, failures and the shutdown
\* interleave: the newest message of a symbol is stored, waits to be, or is
\* known to be lost.
THEOREM NothingIsForgotten == Spec => []IInv
<1>1. ASSUME IInv, Next PROVE IInv'
    <2>1. CASE \/ Migrate \/ BackfillStores \/ BackfillPublishes \/ BackfillThrows \/ RecordEvent
               \/ UncaughtException \/ Stopped \/ BusClosed \/ PoolEnded \/ Timeout
        BY <1>1, <2>1, QuietSteps
    <2>2. CASE \E s \in Symbols : OnMessage(s, "trade") \/ OnMessage(s, "kline") \/ MarkClosed(s)
        BY <1>1, <2>2, OnMessageStep, MarkClosedStep
    <2>3. CASE \E f \in 1 .. MaxFlushes : FlusherFires(f)
        BY <1>1, <2>3, FlusherFiresStep
    <2>4. CASE \E f \in 0 .. MaxFlushes : FlushStep(f)
        BY <1>1, <2>4, ExecuteFlushStep, FailFlushStep, PublishTickerStep DEF Flushes, FlushStep
    <2>5. CASE \E i \in 1 .. MaxOpens : OnOpen(i) \/ ExecuteOpen(i) \/ FailOpen(i)
        BY <1>1, <2>5, OnOpenStep, ExecuteOpenStep
    <2>6. CASE Signal
        BY <1>1, <2>6, SignalStep
    <2> QED
        BY <1>1, <2>1, <2>2, <2>3, <2>4, <2>5, <2>6 DEF Next
<1>2. ASSUME IInv, UNCHANGED vars PROVE IInv'
    <2>1. UNCHANGED <<latest, dirty, flushes, rows, history, pool, shutdown, process, opens, clock>>
        BY <1>2 DEF vars, history
    <2>2. Phases'
        BY <1>2, <2>1 DEF IInv, Phases
    <2>3. opens' \in [1 .. MaxOpens -> OpenCall] /\ clock' \in Nat /\ clock' >= clock
        BY <1>2, <2>1 DEF IInv, Sorts
    <2> QED
        BY <1>2, <2>1, <2>2, <2>3, Frame
<1> QED
    BY <1>1, <1>2, InitIInv, PTL DEF Spec

\* While the database takes statements, a symbol that no flush has to do with
\* has its newest price in its row and a sign of life no older than its newest
\* message, or that was in a statement that failed or was overtaken.
THEOREM ReceivedMessagesAreStored == Spec => []ReceivedIsStored
<1>1. ASSUME IInv PROVE ReceivedIsStored
    <2>1. ASSUME pool = "open", NEW s \in Symbols, ~InHand(s), NEW c \in Columns
          PROVE  rows[s][c] >= latest[s][c] \/ lost[s][c] >= latest[s][c]
        <3>1. ~Queued(s) /\ \A f \in Flushes : ~Writes(f, s)
            BY <2>1 DEF InHand, Queued, Writes, Flushes
        <3> QED
            BY <1>1, <2>1, <3>1 DEF IInv, Held, Covered
    <2>2. \A s \in Symbols : /\ rows[s]["lastPrice"] \in Nat /\ latest[s]["lastPrice"] \in Nat
                             /\ rows[s]["lastPrice"] <= latest[s]["lastPrice"]
        BY <1>1, ColumnsAreSome DEF IInv, Sorts, Values, Older
    <2>3. "lastPrice" \in Columns /\ "lastMessageAt" \in Columns
        BY DEF Columns
    <2>4. ASSUME pool = "open", NEW s \in Symbols, ~InHand(s)
          PROVE  /\ \/ rows[s]["lastPrice"] = latest[s]["lastPrice"]
                    \/ lost[s]["lastPrice"] >= latest[s]["lastPrice"]
                 /\ \/ rows[s]["lastMessageAt"] >= latest[s]["lastMessageAt"]
                    \/ lost[s]["lastMessageAt"] >= latest[s]["lastMessageAt"]
        BY <2>1, <2>2, <2>3, <2>4
    <2> QED
        BY <2>4 DEF ReceivedIsStored
<1> QED
    BY <1>1, NothingIsForgotten, PTL

\* A process that ends in order has stored every price it had received when it
\* was told to stop, lost it to a failed or an overtaken statement, or left it to
\* a flush of the timer that came too late.
THEOREM OrderlyExitStoresPrices == Spec => []OrderlyExitKeepsPrices
<1>1. ASSUME IInv PROVE OrderlyExitKeepsPrices
    <2>1. SUFFICES ASSUME process = "exit0", NEW s \in Symbols
                   PROVE  rows[s]["lastPrice"] >= owed[s] \/ lost[s]["lastPrice"] >= owed[s] \/ CutOff(s)
        BY DEF OrderlyExitKeepsPrices, CutOff, Refuses
    <2>2. flushes[0] = NoCall /\ \A f \in Flushes : flushes[f].at # "statement"
        BY <1>1, <2>1 DEF IInv, Phases
    <2>3. Owing(s)
        BY <1>1 DEF IInv
    <2> QED
        BY <2>2, <2>3, NoCallSort, ContainsNothing DEF Owing, Covered, Writes
<1> QED
    BY <1>1, NothingIsForgotten, PTL
===============================================================================

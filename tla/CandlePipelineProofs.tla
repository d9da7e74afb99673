------------------------- MODULE CandlePipelineProofs -------------------------
(***************************************************************************)
(* Theorems about CandlePipeline for every value of its constants.         *)
(***************************************************************************)
EXTENDS CandlePipeline, BackfillPlanProofs

-------------------------------------------------------------------------------
(***************************************************************************)
(* Operators                                                               *)
(***************************************************************************)
\* The rows of a reply are a function from some bars to stored cells.
LEMMA RowsElim ==
    ASSUME NEW r \in Rows
    PROVE  DOMAIN r \subseteq Bar /\ \A b \in DOMAIN r : r[b] \in Stored
BY DEF Rows

LEMMA RowsIntro ==
    ASSUME NEW S \in SUBSET Bar, NEW r \in [S -> Stored]
    PROVE  r \in Rows
BY DEF Rows

LEMMA NoRowsIsRows == NoRows \in Rows
<1>1. NoRows \in [{} -> Stored]
    BY DEF NoRows
<1> QED
    BY <1>1, RowsIntro

LEMMA IdleJobIsJob == IdleJob \in Job
BY NoRowsIsRows DEF IdleJob, Job, Pc, NoBar

\* Whatever the age of a row, its status is one the table can hold.
LEMMA RestStatusType == \A b, s, p : RestStatus(b, s, p) \in Stored
BY DEF RestStatus, Stored

\* The rows of a page are rows, of listed bars.
LEMMA PageRowsType ==
    ASSUME NEW j, NEW s
    PROVE  PageRows(j, s) \in Rows
<1> DEFINE S == DOMAIN PageRows(j, s)
<1>1. S \in SUBSET Bar /\ PageRows(j, s) \in [S -> Stored]
    BY RestStatusType, PipelineAssumption DEF PageRows
<1> QED
    BY <1>1, RowsIntro

LEMMA AfterPageType ==
    ASSUME NEW j \in Job, now \in Bar
    PROVE  AfterPage(j) \in Job
<1>1. [j EXCEPT !.pc = "fetching", !.page = j.page + 1, !.sent = now, !.reply = NoRows] \in Job
    <2>1. j.page + 1 \in Nat
        BY DEF Job
    <2> QED
        BY <2>1, NoRowsIsRows DEF Job, Pc
<1>2. [j EXCEPT !.pc = "closing", !.reply = NoRows] \in Job
    BY NoRowsIsRows DEF Job, Pc
<1> QED
    BY <1>1, <1>2 DEF AfterPage

\* An upsert of rows leaves a table.
LEMMA UpsertType ==
    ASSUME NEW t \in [Bar -> Cell], NEW r, \A b \in DOMAIN r : r[b] \in Stored
    PROVE  UpsertKlines(t, r) \in [Bar -> Cell]
BY DEF UpsertKlines, Cell

\* The start of a backfill is an integer.
LEMMA ResolveType ==
    ASSUME NEW last \in Bar \cup {NoBar}, NEW to \in Int
    PROVE  ResolveBackfillStart(last, to, BackfillDays, 1) \in Int
BY PipelineAssumption, PlanAssumption DEF ResolveBackfillStart, AlignToInterval, Bar, NoBar

LEMMA BarIsInt == \A b \in Bar : b \in Int /\ b - 1 \in Int
BY PipelineAssumption DEF Bar

\* A gap between two stored bars is a gap of the model.
LEMMA FindGapsType ==
    ASSUME NEW S \in SUBSET Bar
    PROVE  FindGaps(S, 1) \subseteq Gap
<1> SUFFICES ASSUME NEW g \in FindGaps(S, 1)
             PROVE  g \in Gap
    OBVIOUS
<1>1. PICK p \in S \X S : p[2] - p[1] > 1 /\ g = GapBetween(p[1], p[2], 1)
    BY DEF FindGaps, Neighbours
<1>2. p[1] \in Bar /\ p[2] \in Bar
    OBVIOUS
<1>3. p[1] + 1 \in Bar /\ p[2] - 1 \in Bar /\ (p[2] - p[1]) \div 1 - 1 \in Int
    BY <1>1, <1>2, PipelineAssumption DEF Bar
<1> QED
    BY <1>1, <1>3 DEF GapBetween, Gap

LEMMA ReturnJobType ==
    ASSUME jobs \in [Actors -> Job], phase \in {"down", "boot", "running"},
           NEW a \in Actors, ReturnJob(a)
    PROVE  jobs' \in [Actors -> Job] /\ phase' \in {"down", "boot", "running"}
<1>1. [IdleJob EXCEPT !.pc = "scanning"] \in Job
    BY IdleJobIsJob DEF Job, Pc
<1> QED
    BY <1>1, IdleJobIsJob DEF ReturnJob

LEMMA BeginRangeType ==
    ASSUME jobs \in [Actors -> Job], now \in Bar, phase \in {"down", "boot", "running"},
           NEW a \in Actors, NEW from \in Int, NEW to \in Int, BeginRange(a, from, to)
    PROVE  jobs' \in [Actors -> Job] /\ phase' \in {"down", "boot", "running"}
<1> DEFINE j == [jobs[a] EXCEPT !.pc = "fetching", !.from = from, !.to = to,
                                !.page = 1, !.sent = now]
<1>1. j \in Job
    BY DEF Job, Pc
<1>2. \/ ReturnJob(a)
      \/ jobs' = [jobs EXCEPT ![a] = j] /\ phase' = phase
    BY DEF BeginRange
<1> QED
    BY <1>1, <1>2, ReturnJobType

\* Every step is one of the actions, of some actor or message.
Step ==
    \/ Start \/ PlanBoot \/ Crash \/ Tick
    \/ WsOpen \/ WsClose \/ GoSilent \/ Watchdog \/ ReceiveUpdate
    \/ BeginScan \/ DetectGaps \/ NextGap
    \/ \E r \in Reconnects : BeginRecovery(r)
    \/ \E r \in Reconnects : PlanRecovery(r)
    \/ \E a \in Actors : FetchPage(a)
    \/ \E a \in Actors : WriteChunk(a)
    \/ \E a \in Actors : ReadBackLast(a)
    \/ \E a \in Actors : Report(a)
    \/ \E a \in Actors : Throw(a)
    \/ \E m \in inflight : UpsertMessage(m)
    \/ \E m \in inflight : MarkClosed(m)
    \/ \E m \in inflight : DropMessage(m)

LEMMA NextIsStep == Next => Step
BY DEF Next, Step, Boot, Connection, Scanner, Recovery, Backfill, HandleKline, Actors

-------------------------------------------------------------------------------
(***************************************************************************)
(* Type correctness                                                        *)
(***************************************************************************)
LEMMA InitType == Init => TypeOK
BY PipelineAssumption, IdleJobIsJob
   DEF Init, TypeOK, Cell, Stored, Message, Gap, NoBar

LEMMA StepType == TypeOK /\ Step => TypeOK'
<1> SUFFICES ASSUME TypeOK, Step
             PROVE  TypeOK'
    OBVIOUS
<1> USE DEF TypeOK
<1>0. "boot" \in Actors /\ "scanner" \in Actors /\ Reconnects \subseteq Actors
    BY DEF Actors
<1>1. CASE Start
    <2>1. [IdleJob EXCEPT !.pc = "asking", !.to = now] \in Job
        BY IdleJobIsJob, BarIsInt DEF Job, Pc
    <2> QED
        BY <1>0, <1>1, <2>1 DEF Start
<1>2. CASE PlanBoot
    <2>1. PICK last \in Bar \cup {NoBar} :
             BeginRange("boot", ResolveBackfillStart(last, jobs["boot"].to, BackfillDays, 1),
                        jobs["boot"].to)
        BY <1>2 DEF PlanBoot
    <2>2. jobs["boot"].to \in Int
        BY <1>0 DEF Job
    <2>3. jobs' \in [Actors -> Job] /\ phase' \in {"down", "boot", "running"}
        BY <1>0, <2>1, <2>2, ResolveType, BeginRangeType
    <2> QED
        BY <1>2, <2>3 DEF PlanBoot
<1>3. CASE Crash
    BY <1>3, IdleJobIsJob, PipelineAssumption DEF Crash, Fault
<1>4. CASE Tick
    <2>1. now' \in Bar
        BY <1>4, PipelineAssumption DEF Tick, Bar
    <2>2. inflight' \subseteq Message
        BY <1>4 DEF Tick, Received, Message
    <2> QED
        BY <1>4, <2>1, <2>2 DEF Tick
<1>5. CASE WsOpen
    <2>1. jobs' \in [Actors -> Job]
        <3>1. [IdleJob EXCEPT !.pc = "opening"] \in Job
            BY IdleJobIsJob DEF Job, Pc
        <3> QED
            BY <1>0, <1>5, <3>1 DEF WsOpen
    <2> QED
        BY <1>5, <2>1 DEF WsOpen
<1>6. CASE WsClose
    BY <1>6, PipelineAssumption DEF WsClose, Fault
<1>7. CASE GoSilent
    BY <1>7, PipelineAssumption DEF GoSilent, Fault
<1>8. CASE Watchdog
    BY <1>8 DEF Watchdog
<1>9. CASE ReceiveUpdate
    <2>1. inflight' \subseteq Message
        BY <1>9 DEF ReceiveUpdate, Received, Message
    <2> QED
        BY <1>9, <2>1 DEF ReceiveUpdate
<1>10. CASE BeginScan
    <2>1. [IdleJob EXCEPT !.pc = "asking", !.to = ScanEnd(now)] \in Job
        BY IdleJobIsJob, BarIsInt DEF Job, Pc, ScanEnd
    <2> QED
        BY <1>0, <1>10, <2>1 DEF BeginScan
<1>11. CASE DetectGaps
    <2>1. [IdleJob EXCEPT !.pc = "scanning"] \in Job
        BY IdleJobIsJob DEF Job, Pc
    <2>2. jobs' \in [Actors -> Job]
        BY <1>0, <1>11, <2>1, IdleJobIsJob DEF DetectGaps
    <2>3. GetOpenTimes(bars, jobs["scanner"].to - ScanWindow, jobs["scanner"].to) \subseteq Bar
        BY DEF GetOpenTimes, StoredBars
    <2>4. gaps' \subseteq Gap
        BY <1>11, <2>3, FindGapsType DEF DetectGaps, FirstGaps
    <2> QED
        BY <1>11, <2>2, <2>4 DEF DetectGaps
<1>12. CASE NextGap
    <2>1. CASE gaps = {}
        BY <1>0, <1>12, <2>1, IdleJobIsJob DEF NextGap
    <2>2. CASE gaps # {}
        <3>1. PICK g \in gaps : gaps' = gaps \ {g} /\ BeginRange("scanner", g.startTime, g.endTime)
            BY <1>12, <2>2 DEF NextGap
        <3>2. g.startTime \in Int /\ g.endTime \in Int
            BY PipelineAssumption DEF Gap, Bar
        <3>3. jobs' \in [Actors -> Job] /\ phase' \in {"down", "boot", "running"}
            BY <1>0, <3>1, <3>2, BeginRangeType
        <3> QED
            BY <1>12, <3>1, <3>3 DEF NextGap
    <2> QED
        BY <2>1, <2>2
<1>13. ASSUME NEW r \in Reconnects, BeginRecovery(r)
       PROVE  TypeOK'
    <2>1. [jobs[r] EXCEPT !.pc = "asking", !.to = now] \in Job
        BY <1>0, BarIsInt DEF Job, Pc
    <2>2. jobs' = [jobs EXCEPT ![r] = [jobs[r] EXCEPT !.pc = "asking", !.to = now]]
        BY <1>0, <1>13 DEF BeginRecovery
    <2> QED
        BY <1>0, <1>13, <2>1, <2>2 DEF BeginRecovery
<1>14. ASSUME NEW r \in Reconnects, PlanRecovery(r)
       PROVE  TypeOK'
    <2>1. PICK last \in Bar \cup {NoBar} :
             BeginRange(r, IF last = NoBar THEN jobs[r].to - ReconnectBars ELSE last, jobs[r].to)
        BY <1>14 DEF PlanRecovery
    <2>2. jobs[r].to \in Int
        BY <1>0 DEF Job
    <2>3. (IF last = NoBar THEN jobs[r].to - ReconnectBars ELSE last) \in Int
        BY <2>2, PipelineAssumption DEF Bar
    <2>4. jobs' \in [Actors -> Job] /\ phase' \in {"down", "boot", "running"}
        BY <1>0, <2>1, <2>2, <2>3, BeginRangeType
    <2> QED
        BY <1>14, <2>4 DEF PlanRecovery
<1>15. ASSUME NEW a \in Actors, FetchPage(a)
       PROVE  TypeOK'
    <2>1. PICK snapshot : jobs' = [jobs EXCEPT ![a] =
                             IF DOMAIN PageRows(jobs[a], snapshot) = {}
                             THEN AfterPage(jobs[a])
                             ELSE [jobs[a] EXCEPT !.pc = "writing",
                                                  !.reply = PageRows(jobs[a], snapshot)]]
        BY <1>15 DEF FetchPage
    <2>2. [jobs[a] EXCEPT !.pc = "writing", !.reply = PageRows(jobs[a], snapshot)] \in Job
        BY PageRowsType DEF Job, Pc
    <2>3. AfterPage(jobs[a]) \in Job
        BY AfterPageType
    <2> QED
        BY <1>15, <2>1, <2>2, <2>3 DEF FetchPage
<1>16. ASSUME NEW a \in Actors, WriteChunk(a)
       PROVE  TypeOK'
    <2> DEFINE reply == jobs[a].reply
               chunk == FirstChunk(reply)
               left  == DOMAIN reply \ chunk
    <2>1. reply \in Rows
        BY DEF Job
    <2>2. DOMAIN reply \subseteq Bar /\ \A b \in DOMAIN reply : reply[b] \in Stored
        BY <2>1, RowsElim
    <2>3. chunk \subseteq DOMAIN reply
        BY DEF FirstChunk
    <2>4. bars' \in [Bar -> Cell]
        <3>1. bars' = UpsertKlines(bars, [b \in chunk |-> reply[b]])
            BY <1>16 DEF WriteChunk
        <3> HIDE DEF chunk, reply
        <3> QED
            BY <3>1, <2>2, <2>3, UpsertType
    <2>5. [b \in left |-> reply[b]] \in Rows
        <3>1. left \in SUBSET Bar /\ [b \in left |-> reply[b]] \in [left -> Stored]
            BY <2>2
        <3> QED
            BY <3>1, RowsIntro
    <2>6. [jobs[a] EXCEPT !.reply = [b \in left |-> reply[b]]] \in Job
        BY <2>5 DEF Job
    <2>7. jobs' = [jobs EXCEPT ![a] =
                      IF left = {} THEN AfterPage(jobs[a])
                                   ELSE [jobs[a] EXCEPT !.reply = [b \in left |-> reply[b]]]]
        BY <1>16 DEF WriteChunk
    <2>8. jobs' \in [Actors -> Job]
        BY <2>6, <2>7, AfterPageType
    <2> QED
        BY <1>16, <2>4, <2>8 DEF WriteChunk
<1>17. ASSUME NEW a \in Actors, ReadBackLast(a)
       PROVE  TypeOK'
    <2>1. PICK last \in Bar \cup {NoBar} :
             jobs' = [jobs EXCEPT ![a] = [jobs[a] EXCEPT !.pc = "reporting", !.last = last]]
        BY <1>17 DEF ReadBackLast
    <2>2. [jobs[a] EXCEPT !.pc = "reporting", !.last = last] \in Job
        BY DEF Job, Pc
    <2> QED
        BY <1>17, <2>1, <2>2 DEF ReadBackLast
<1>18. ASSUME NEW a \in Actors, Report(a)
       PROVE  TypeOK'
    <2>1. jobs' \in [Actors -> Job] /\ phase' \in {"down", "boot", "running"}
        BY <1>18, ReturnJobType DEF Report
    <2>2. lastOpenTime' \in Bar \cup {NoBar}
        BY <1>18 DEF Report, Job
    <2> QED
        BY <1>18, <2>1, <2>2 DEF Report
<1>19. ASSUME NEW a \in Actors, Throw(a)
       PROVE  TypeOK'
    BY <1>19, IdleJobIsJob, PipelineAssumption DEF Throw, Fault
<1>20. ASSUME NEW m \in inflight, UpsertMessage(m)
       PROVE  TypeOK'
    <2>1. m \in Message /\ [m EXCEPT !.step = "state"] \in Message
        BY DEF Message
    <2>2. inflight' \subseteq Message
        BY <1>20, <2>1 DEF UpsertMessage
    <2>3. \A c \in DOMAIN [b \in {m.bar} |-> m.status] : [b \in {m.bar} |-> m.status][c] \in Stored
        BY <2>1 DEF Message, Stored
    <2>4. bars' \in [Bar -> Cell]
        BY <1>20, <2>3, UpsertType DEF UpsertMessage
    <2> QED
        BY <1>20, <2>2, <2>4 DEF UpsertMessage
<1>21. ASSUME NEW m \in inflight, MarkClosed(m)
       PROVE  TypeOK'
    BY <1>21 DEF MarkClosed, Message
<1>22. ASSUME NEW m \in inflight, DropMessage(m)
       PROVE  TypeOK'
    BY <1>22, PipelineAssumption DEF DropMessage, Fault
<1> QED
    BY <1>1, <1>2, <1>3, <1>4, <1>5, <1>6, <1>7, <1>8, <1>9, <1>10, <1>11, <1>12, <1>13, <1>14,
       <1>15, <1>16, <1>17, <1>18, <1>19, <1>20, <1>21, <1>22 DEF Step

LEMMA StutterType == TypeOK /\ UNCHANGED vars => TypeOK'
BY DEF TypeOK, vars

\* Every variable keeps its type, whatever the sizes and limits.
THEOREM TypeCorrect == Spec => []TypeOK
<1>1. TypeOK /\ [Next]_vars => TypeOK'
    BY NextIsStep, StepType, StutterType
<1> QED
    BY InitType, <1>1, PTL DEF Spec

-------------------------------------------------------------------------------
(***************************************************************************)
(* What a crash and a restart leave alone.  The inductive invariant says   *)
(* that nothing the running process has in hand, neither the rows of an    *)
(* answer nor a message under way, is older than the process and           *)
(* unfinished, and that a stopped process has nothing in hand.             *)
(***************************************************************************)
InHand(b, status, t, e) == b \in Listed /\ b <= t /\ (status = "final" \/ e <= b)

JobInHand(j, t, e) ==
    /\ j.pc = "fetching" => e <= j.sent /\ j.sent <= t
    /\ \A b \in DOMAIN j.reply : InHand(b, j.reply[b], t, e)

InHandInv ==
    /\ bootedAt <= now
    /\ phase = "down" => /\ ws = "closed" /\ inflight = {}
                         /\ \A a \in Actors : jobs[a] = IdleJob
    /\ \A a \in Actors : JobInHand(jobs[a], now, bootedAt)
    /\ \A m \in inflight : InHand(m.bar, m.status, now, bootedAt)

\* A job without rows and without a fetch in progress has nothing in hand.
LEMMA EmptyHanded ==
    ASSUME NEW j, j.pc # "fetching", j.reply = NoRows, NEW t, NEW e
    PROVE  JobInHand(j, t, e)
BY DEF JobInHand, NoRows

LEMMA IdleInHand == \A t, e : JobInHand(IdleJob, t, e)
BY EmptyHanded DEF IdleJob

LEMMA ScanningInHand == \A t, e : JobInHand([IdleJob EXCEPT !.pc = "scanning"], t, e)
<1> DEFINE j == [IdleJob EXCEPT !.pc = "scanning"]
<1>1. j.pc # "fetching" /\ j.reply = NoRows
    BY DEF IdleJob
<1> QED
    BY <1>1, EmptyHanded

\* The answer to a fetch sent by this process has only rows it may have.
LEMMA PageRowsInHand ==
    ASSUME NEW j \in Job, NEW s \in Bar, now \in Bar, bootedAt \in Bar,
           bootedAt <= s, s <= now
    PROVE  \A b \in DOMAIN PageRows(j, s) : InHand(b, PageRows(j, s)[b], now, bootedAt)
<1> SUFFICES ASSUME NEW b \in DOMAIN PageRows(j, s)
             PROVE  InHand(b, PageRows(j, s)[b], now, bootedAt)
    OBVIOUS
<1>1. b \in Listed /\ b <= s /\ PageRows(j, s)[b] = RestStatus(b, s, now)
    BY DEF PageRows
<1>2. b \in Int /\ s \in Int /\ now \in Int /\ bootedAt \in Int
    BY <1>1, PipelineAssumption DEF Bar
<1>3. b < s => RestStatus(b, s, now) = "final"
    BY <1>2 DEF RestStatus
<1> QED
    BY <1>1, <1>2, <1>3 DEF InHand

LEMMA AfterPageInHand ==
    ASSUME NEW j \in Job, now \in Bar, NEW e \in Bar, e <= now
    PROVE  JobInHand(AfterPage(j), now, e)
<1>1. AfterPage(j).reply = NoRows
    BY DEF AfterPage, Job
<1>2. AfterPage(j).pc = "fetching" => AfterPage(j).sent = now
    BY DEF AfterPage, Job
<1> QED
    BY <1>1, <1>2, BarIsInt DEF JobInHand, NoRows

LEMMA ReturnJobInHand ==
    ASSUME jobs \in [Actors -> Job], NEW a \in Actors, ReturnJob(a), NEW e,
           \A c \in Actors : JobInHand(jobs[c], now, e)
    PROVE  \A c \in Actors : JobInHand(jobs'[c], now, e)
BY IdleInHand, ScanningInHand DEF ReturnJob

LEMMA BeginRangeInHand ==
    ASSUME jobs \in [Actors -> Job], now \in Bar, NEW a \in Actors, NEW from, NEW to,
           BeginRange(a, from, to), NEW e \in Bar, e <= now,
           \A c \in Actors : JobInHand(jobs[c], now, e)
    PROVE  \A c \in Actors : JobInHand(jobs'[c], now, e)
<1> DEFINE j == [jobs[a] EXCEPT !.pc = "fetching", !.from = from, !.to = to,
                                !.page = 1, !.sent = now]
<1>1. j.sent = now /\ j.reply = jobs[a].reply
    BY DEF Job
<1>2. JobInHand(j, now, e)
    BY <1>1, BarIsInt DEF JobInHand
<1>3. ReturnJob(a) \/ jobs' = [jobs EXCEPT ![a] = j]
    BY DEF BeginRange
<1> QED
    BY <1>2, <1>3, ReturnJobInHand

\* Time going on takes nothing out of reach.
LEMMA InHandLater ==
    ASSUME NEW t \in Int, NEW u \in Int, t <= u, NEW e
    PROVE  /\ \A b \in Listed : \A status : InHand(b, status, t, e) => InHand(b, status, u, e)
           /\ \A j \in Job : JobInHand(j, t, e) => JobInHand(j, u, e)
<1>1. \A b \in Listed : \A status : InHand(b, status, t, e) => InHand(b, status, u, e)
    BY PipelineAssumption DEF InHand, Bar
<1>2. ASSUME NEW j \in Job, JobInHand(j, t, e)
      PROVE  JobInHand(j, u, e)
    <2>1. j.sent \in Int
        BY BarIsInt DEF Job, NoBar
    <2>2. \A b \in DOMAIN j.reply : InHand(b, j.reply[b], u, e)
        BY <1>1, <1>2 DEF JobInHand, InHand
    <2> QED
        BY <1>2, <2>1, <2>2 DEF JobInHand
<1> QED
    BY <1>1, <1>2

LEMMA InitInHand == Init => InHandInv
BY PipelineAssumption, BarIsInt, IdleInHand DEF Init, InHandInv

LEMMA StepInHand == TypeOK /\ InHandInv /\ Step => InHandInv'
<1> SUFFICES ASSUME TypeOK, InHandInv, Step
             PROVE  InHandInv'
    OBVIOUS
<1>0. "boot" \in Actors /\ "scanner" \in Actors /\ Reconnects \subseteq Actors
    BY DEF Actors
<1>t. /\ now \in Bar /\ bootedAt \in Bar /\ bootedAt <= now /\ jobs \in [Actors -> Job]
      /\ inflight \subseteq Message
      /\ now \in Int /\ bootedAt \in Int
    BY BarIsInt DEF TypeOK, InHandInv
<1>j. \A a \in Actors : JobInHand(jobs[a], now, bootedAt)
    BY DEF InHandInv
<1>m. \A m \in inflight : InHand(m.bar, m.status, now, bootedAt)
    BY DEF InHandInv
<1>d. phase = "down" => ws = "closed" /\ inflight = {} /\ \A a \in Actors : jobs[a] = IdleJob
    BY DEF InHandInv
\* A step of one job, of a live process, that leaves the clock and messages.
<1>a. ASSUME NEW a \in Actors, jobs[a].pc # "idle", phase' \in {phase, "running"},
             \A c \in Actors : JobInHand(jobs'[c], now, bootedAt),
             UNCHANGED <<now, bootedAt, ws, inflight>>
      PROVE  InHandInv'
    <2>1. phase # "down" /\ phase' # "down"
        BY <1>a, <1>d DEF IdleJob
    <2> QED
        BY <1>a, <1>t, <1>m, <2>1 DEF InHandInv
\* A step of the connection or of a message, of a live process.
<1>b. ASSUME phase # "down", UNCHANGED <<now, bootedAt, phase, jobs>>,
             \A m \in inflight' : InHand(m.bar, m.status, now, bootedAt)
      PROVE  InHandInv'
    BY <1>b, <1>t, <1>j DEF InHandInv
<1>1. CASE Start
    <2>1. \A a \in Actors : JobInHand(jobs'[a], now, now)
        <3> DEFINE j == [IdleJob EXCEPT !.pc = "asking", !.to = now]
        <3>1. j.pc # "fetching" /\ j.reply = NoRows
            BY DEF IdleJob
        <3>2. JobInHand(j, now, now)
            BY <3>1, EmptyHanded
        <3> HIDE DEF j
        <3>3. jobs' = [jobs EXCEPT !["boot"] = j] /\ \A a \in Actors : jobs[a] = IdleJob
            BY <1>1, <1>d DEF Start, j
        <3> QED
            BY <1>t, <3>2, <3>3, IdleInHand
    <2>2. bootedAt' = now /\ now' = now /\ inflight' = {} /\ phase' # "down"
        BY <1>1, <1>d DEF Start
    <2> QED
        BY <1>t, <2>1, <2>2 DEF InHandInv
<1>2. CASE PlanBoot
    <2>1. jobs["boot"].pc # "idle"
        BY <1>2 DEF PlanBoot
    <2>2. PICK last : BeginRange("boot",
                        ResolveBackfillStart(last, jobs["boot"].to, BackfillDays, 1),
                        jobs["boot"].to)
        BY <1>2 DEF PlanBoot
    <2>3. \A c \in Actors : JobInHand(jobs'[c], now, bootedAt)
        BY <1>0, <1>t, <1>j, <2>2, BeginRangeInHand
    <2>4. phase' \in {phase, "running"}
        BY <2>2 DEF BeginRange, ReturnJob
    <2> QED
        BY <1>0, <1>2, <1>a, <2>1, <2>3, <2>4 DEF PlanBoot
<1>3. CASE Crash
    BY <1>3, <1>t, IdleInHand DEF Crash, InHandInv
<1>4. CASE Tick
    <2>1. now' = now + 1 /\ UNCHANGED <<bootedAt, phase, ws, jobs>>
        BY <1>4 DEF Tick
    <2>2. \A a \in Actors : JobInHand(jobs'[a], now', bootedAt')
        BY <1>t, <1>j, <2>1, InHandLater
    <2>3. \A m \in inflight' : InHand(m.bar, m.status, now', bootedAt')
        <3>1. \A m \in inflight : InHand(m.bar, m.status, now', bootedAt')
            BY <1>t, <1>m, <2>1, InHandLater DEF InHand
        <3>2. now \in Listed => InHand(now, "final", now', bootedAt')
            BY <1>t, <2>1 DEF InHand
        <3> QED
            BY <1>4, <3>1, <3>2 DEF Tick, Received
    <2>4. phase' = "down" => inflight' = {}
        BY <1>4, <1>d DEF Tick
    <2> QED
        BY <1>t, <1>d, <2>1, <2>2, <2>3, <2>4 DEF InHandInv
<1>5. CASE WsOpen
    <2>1. ASSUME NEW c \in Actors
          PROVE  JobInHand(jobs'[c], now, bootedAt)
        <3> DEFINE j == [IdleJob EXCEPT !.pc = "opening"]
        <3>1. j.pc # "fetching" /\ j.reply = NoRows
            BY DEF IdleJob
        <3>2. JobInHand(j, now, bootedAt)
            BY <3>1, EmptyHanded
        <3> HIDE DEF j
        <3>3. jobs' = jobs \/ \E r \in Reconnects : jobs' = [jobs EXCEPT ![r] = j]
            BY <1>5 DEF WsOpen, j
        <3> QED
            BY <1>0, <1>t, <1>j, <3>2, <3>3
    <2> QED
        BY <1>5, <1>t, <1>m, <2>1 DEF WsOpen, InHandInv
<1>6. CASE WsClose
    BY <1>6, <1>b, <1>m DEF WsClose
<1>7. CASE GoSilent
    BY <1>7, <1>b, <1>d, <1>m DEF GoSilent
<1>8. CASE Watchdog
    BY <1>8, <1>b, <1>d, <1>m DEF Watchdog
<1>9. CASE ReceiveUpdate
    <2>1. InHand(now, "unfinished", now, bootedAt)
        BY <1>9, <1>t DEF ReceiveUpdate, InHand
    <2> QED
        BY <1>9, <1>b, <1>d, <1>m, <2>1 DEF ReceiveUpdate, Received
<1>10. CASE BeginScan
    <2> DEFINE j == [IdleJob EXCEPT !.pc = "asking", !.to = ScanEnd(now)]
    <2>1. j.pc # "fetching" /\ j.reply = NoRows
        BY DEF IdleJob
    <2>2. JobInHand(j, now, bootedAt)
        BY <2>1, EmptyHanded
    <2> HIDE DEF j
    <2>3. jobs' = [jobs EXCEPT !["scanner"] = j]
        BY <1>10 DEF BeginScan, j
    <2> QED
        BY <1>10, <1>t, <1>j, <1>m, <2>2, <2>3 DEF BeginScan, InHandInv
<1>11. CASE DetectGaps
    <2>1. \A c \in Actors : JobInHand(jobs'[c], now, bootedAt)
        BY <1>11, <1>t, <1>j, IdleInHand, ScanningInHand DEF DetectGaps
    <2> QED
        BY <1>0, <1>11, <1>a, <2>1 DEF DetectGaps
<1>12. CASE NextGap
    <2>1. \A c \in Actors : JobInHand(jobs'[c], now, bootedAt)
        <3>1. CASE gaps = {}
            BY <1>12, <1>t, <1>j, <3>1, IdleInHand DEF NextGap
        <3>2. CASE gaps # {}
            <4>1. PICK g : BeginRange("scanner", g.startTime, g.endTime)
                BY <1>12, <3>2 DEF NextGap
            <4> QED
                BY <1>0, <1>t, <1>j, <4>1, BeginRangeInHand
        <3> QED
            BY <3>1, <3>2
    <2>2. phase' \in {phase, "running"}
        BY <1>12 DEF NextGap, BeginRange, ReturnJob
    <2> QED
        BY <1>0, <1>12, <1>a, <2>1, <2>2 DEF NextGap
<1>13. ASSUME NEW r \in Reconnects, BeginRecovery(r)
       PROVE  InHandInv'
    <2> DEFINE j == [jobs[r] EXCEPT !.pc = "asking", !.to = now]
    <2>1. j.pc # "fetching" /\ j.reply = jobs[r].reply
        BY <1>0, <1>t DEF Job
    <2>2. JobInHand(j, now, bootedAt)
        BY <1>0, <1>j, <2>1 DEF JobInHand
    <2>3. jobs' = [jobs EXCEPT ![r] = j]
        BY <1>0, <1>t, <1>13 DEF BeginRecovery
    <2>4. \A c \in Actors : JobInHand(jobs'[c], now, bootedAt)
        BY <1>t, <1>j, <2>2, <2>3
    <2> QED
        BY <1>0, <1>13, <1>a, <2>4 DEF BeginRecovery
<1>14. ASSUME NEW r \in Reconnects, PlanRecovery(r)
       PROVE  InHandInv'
    <2>1. PICK last :
             BeginRange(r, IF last = NoBar THEN jobs[r].to - ReconnectBars ELSE last, jobs[r].to)
        BY <1>14 DEF PlanRecovery
    <2>2. \A c \in Actors : JobInHand(jobs'[c], now, bootedAt)
        BY <1>0, <1>t, <1>j, <2>1, BeginRangeInHand
    <2>3. phase' \in {phase, "running"}
        BY <2>1 DEF BeginRange, ReturnJob
    <2> QED
        BY <1>0, <1>14, <1>a, <2>2, <2>3 DEF PlanRecovery
<1>15. ASSUME NEW a \in Actors, FetchPage(a)
       PROVE  InHandInv'
    <2>1. PICK s \in jobs[a].sent .. now : jobs' = [jobs EXCEPT ![a] =
                             IF DOMAIN PageRows(jobs[a], s) = {}
                             THEN AfterPage(jobs[a])
                             ELSE [jobs[a] EXCEPT !.pc = "writing",
                                                  !.reply = PageRows(jobs[a], s)]]
        BY <1>15 DEF FetchPage
    <2>2. jobs[a].pc = "fetching" /\ jobs[a] \in Job
        BY <1>15, <1>t DEF FetchPage
    <2>3. bootedAt <= s /\ s <= now /\ s \in Bar
        BY <1>t, <1>j, <2>2, PipelineAssumption DEF JobInHand, Job, Bar, NoBar
    <2> DEFINE j == [jobs[a] EXCEPT !.pc = "writing", !.reply = PageRows(jobs[a], s)]
    <2>4. j.pc = "writing" /\ j.reply = PageRows(jobs[a], s)
        BY <2>2 DEF Job
    <2>5. JobInHand(j, now, bootedAt)
        BY <1>t, <2>2, <2>3, <2>4, PageRowsInHand DEF JobInHand
    <2>6. JobInHand(AfterPage(jobs[a]), now, bootedAt)
        BY <1>t, <2>2, AfterPageInHand
    <2>7. \A c \in Actors : JobInHand(jobs'[c], now, bootedAt)
        BY <1>t, <1>j, <2>1, <2>5, <2>6
    <2> QED
        BY <1>15, <1>a, <2>2, <2>7 DEF FetchPage
<1>16. ASSUME NEW a \in Actors, WriteChunk(a)
       PROVE  InHandInv'
    <2> DEFINE left == DOMAIN jobs[a].reply \ FirstChunk(jobs[a].reply)
               j    == [jobs[a] EXCEPT !.reply = [b \in left |-> jobs[a].reply[b]]]
    <2>1. jobs[a].pc = "writing" /\ jobs[a] \in Job
        BY <1>16, <1>t DEF WriteChunk
    <2>2. jobs' = [jobs EXCEPT ![a] = IF left = {} THEN AfterPage(jobs[a]) ELSE j]
        BY <1>16 DEF WriteChunk
    <2>3. j.pc = "writing" /\ j.reply = [b \in left |-> jobs[a].reply[b]]
        BY <2>1 DEF Job
    <2>4. JobInHand(j, now, bootedAt)
        BY <1>j, <2>3 DEF JobInHand
    <2>5. JobInHand(AfterPage(jobs[a]), now, bootedAt)
        BY <1>t, <2>1, AfterPageInHand
    <2>6. \A c \in Actors : JobInHand(jobs'[c], now, bootedAt)
        BY <1>t, <1>j, <2>2, <2>4, <2>5
    <2> QED
        BY <1>16, <1>a, <2>1, <2>6 DEF WriteChunk
<1>17. ASSUME NEW a \in Actors, ReadBackLast(a)
       PROVE  InHandInv'
    <2>1. PICK last :
             jobs' = [jobs EXCEPT ![a] = [jobs[a] EXCEPT !.pc = "reporting", !.last = last]]
        BY <1>17 DEF ReadBackLast
    <2> DEFINE j == [jobs[a] EXCEPT !.pc = "reporting", !.last = last]
    <2>2. j.pc # "fetching" /\ j.reply = jobs[a].reply
        BY <1>t DEF Job
    <2>3. JobInHand(j, now, bootedAt)
        BY <1>j, <2>2 DEF JobInHand
    <2>4. \A c \in Actors : JobInHand(jobs'[c], now, bootedAt)
        BY <1>t, <1>j, <2>1, <2>3
    <2> QED
        BY <1>17, <1>a, <2>4 DEF ReadBackLast
<1>18. ASSUME NEW a \in Actors, Report(a)
       PROVE  InHandInv'
    <2>1. \A c \in Actors : JobInHand(jobs'[c], now, bootedAt)
        BY <1>18, <1>t, <1>j, ReturnJobInHand DEF Report
    <2> QED
        BY <1>18, <1>a, <2>1 DEF Report, ReturnJob
<1>19. ASSUME NEW a \in Actors, Throw(a)
       PROVE  InHandInv'
    <2>1. \A c \in Actors : JobInHand(jobs'[c], now, bootedAt)
        BY <1>19, <1>t, <1>j, IdleInHand DEF Throw
    <2> QED
        BY <1>19, <1>a, <2>1 DEF Throw
<1>20. ASSUME NEW m \in inflight, UpsertMessage(m)
       PROVE  InHandInv'
    <2>1. m \in Message /\ m.bar = [m EXCEPT !.step = "state"].bar
                        /\ m.status = [m EXCEPT !.step = "state"].status
        BY <1>t DEF Message
    <2>2. \A n \in inflight' : InHand(n.bar, n.status, now, bootedAt)
        BY <1>20, <1>m, <2>1 DEF UpsertMessage
    <2> QED
        BY <1>20, <1>b, <1>d, <2>2 DEF UpsertMessage
<1>21. ASSUME NEW m \in inflight, MarkClosed(m)
       PROVE  InHandInv'
    BY <1>21, <1>b, <1>d, <1>m DEF MarkClosed
<1>22. ASSUME NEW m \in inflight, DropMessage(m)
       PROVE  InHandInv'
    BY <1>22, <1>b, <1>d, <1>m DEF DropMessage
<1> QED
    BY <1>1, <1>2, <1>3, <1>4, <1>5, <1>6, <1>7, <1>8, <1>9, <1>10, <1>11, <1>12, <1>13, <1>14,
       <1>15, <1>16, <1>17, <1>18, <1>19, <1>20, <1>21, <1>22 DEF Step

LEMMA StutterInHand == InHandInv /\ UNCHANGED vars => InHandInv'
BY DEF InHandInv, vars

THEOREM NothingOldInHand == Spec => []InHandInv
<1>1. TypeOK /\ InHandInv /\ [Next]_vars => InHandInv'
    BY NextIsStep, StepInHand, StutterInHand
<1> QED
    BY InitInHand, <1>1, TypeCorrect, PTL DEF Spec

-------------------------------------------------------------------------------
(***************************************************************************)
(* The pipeline implements the archive.                                    *)
(***************************************************************************)
LEMMA InitArchive == Init => Archive!Init
BY DEF Init, Archive!Init, Bar

\* Writing rows that are in hand is a write the archive allows.
LEMMA UpsertIsArchiveWrite ==
    ASSUME TypeOK, TypeOK', UNCHANGED <<now, bootedAt>>,
           NEW rows, bars' = UpsertKlines(bars, rows),
           \A b \in DOMAIN rows : rows[b] \in Stored /\ InHand(b, rows[b], now, bootedAt)
    PROVE  Archive!Write
<1>1. bars \in [Bar -> Cell] /\ bars' \in [Bar -> Cell] /\ now \in Int /\ bootedAt \in Int
    BY BarIsInt DEF TypeOK
<1>2. ASSUME NEW b \in Bar, bars'[b] # bars[b]
      PROVE  b \in DOMAIN rows /\ bars'[b] = rows[b]
    BY <1>1, <1>2 DEF UpsertKlines
<1>3. ASSUME NEW b \in Bar, bars'[b] # bars[b]
      PROVE  b \in Listed /\ b <= now /\ bars'[b] # "absent" /\ (b < bootedAt => bars'[b] = "final")
    <2>1. bars'[b] \in Stored /\ InHand(b, bars'[b], now, bootedAt)
        BY <1>2, <1>3
    <2>2. b \in Int
        BY BarIsInt
    <2> QED
        BY <1>1, <2>1, <2>2 DEF InHand, Stored
<1> QED
    BY <1>1, <1>3 DEF Archive!Write, Bar, Cell, Stored

LEMMA StepArchive ==
    ASSUME TypeOK, TypeOK', InHandInv, Step
    PROVE  Archive!Next \/ UNCHANGED <<now, bars, bootedAt>>
<1>1. CASE Start
    BY <1>1 DEF Start, Archive!Next, Archive!Restart
<1>2. CASE Tick
    BY <1>2 DEF Tick, Archive!Next, Archive!Tick
<1>3. ASSUME NEW a \in Actors, WriteChunk(a)
      PROVE  Archive!Next
    <2> DEFINE reply == jobs[a].reply
               rows  == [b \in FirstChunk(reply) |-> reply[b]]
    <2>1. reply \in Rows
        BY DEF TypeOK, Job
    <2>2. \A b \in DOMAIN reply : reply[b] \in Stored
        BY <2>1, RowsElim
    <2>3. \A b \in DOMAIN reply : InHand(b, reply[b], now, bootedAt)
        BY DEF InHandInv, JobInHand
    <2>4. DOMAIN rows \subseteq DOMAIN reply /\ \A b \in DOMAIN rows : rows[b] = reply[b]
        BY DEF FirstChunk
    <2>5. bars' = UpsertKlines(bars, rows) /\ UNCHANGED <<now, bootedAt>>
        BY <1>3 DEF WriteChunk
    <2> HIDE DEF rows, reply
    <2> QED
        BY <2>2, <2>3, <2>4, <2>5, UpsertIsArchiveWrite DEF Archive!Next
<1>4. ASSUME NEW m \in inflight, UpsertMessage(m)
      PROVE  Archive!Next
    <2> DEFINE rows == [b \in {m.bar} |-> m.status]
    <2>1. m.status \in Stored /\ InHand(m.bar, m.status, now, bootedAt)
        BY DEF TypeOK, Message, Stored, InHandInv
    <2>2. \A b \in DOMAIN rows : rows[b] \in Stored /\ InHand(b, rows[b], now, bootedAt)
        BY <2>1
    <2>3. bars' = UpsertKlines(bars, rows) /\ UNCHANGED <<now, bootedAt>>
        BY <1>4 DEF UpsertMessage
    <2> HIDE DEF rows
    <2> QED
        BY <2>2, <2>3, UpsertIsArchiveWrite DEF Archive!Next
<1>5. CASE PlanBoot \/ Crash \/ WsOpen \/ WsClose \/ GoSilent \/ Watchdog \/ ReceiveUpdate
           \/ BeginScan \/ DetectGaps \/ NextGap
    BY <1>5 DEF PlanBoot, Crash, WsOpen, WsClose, GoSilent, Watchdog, ReceiveUpdate,
                BeginScan, DetectGaps, NextGap
<1>6. CASE \E r \in Reconnects : BeginRecovery(r) \/ PlanRecovery(r)
    BY <1>6 DEF BeginRecovery, PlanRecovery
<1>7. CASE \E a \in Actors : FetchPage(a) \/ ReadBackLast(a) \/ Report(a) \/ Throw(a)
    BY <1>7 DEF FetchPage, ReadBackLast, Report, Throw
<1>8. CASE \E m \in inflight : MarkClosed(m) \/ DropMessage(m)
    BY <1>8 DEF MarkClosed, DropMessage
<1> QED
    BY <1>1, <1>2, <1>3, <1>4, <1>5, <1>6, <1>7, <1>8 DEF Step

\* The table keeps the archive's promise to its readers.
THEOREM PipelineImplementsArchive == Spec => ArchiveSpec
<1>1. TypeOK /\ TypeOK' /\ InHandInv /\ [Next]_vars
          => Archive!Next \/ UNCHANGED <<now, bars, bootedAt>>
    BY NextIsStep, StepArchive DEF vars
<1>2. TypeOK /\ TypeOK' /\ InHandInv /\ [Next]_vars => [Archive!Next]_<<now, bars, bootedAt>>
    BY <1>1
<1> QED
    BY InitArchive, <1>2, TypeCorrect, NothingOldInHand, PTL DEF Spec, ArchiveSpec, Archive!Spec

\* A finished candle from before the process started stays as it is.
THEOREM HistoryStaysFinished == Spec => HistoryIsStable
<1> DEFINE Stable == \A b \in Bar : b < bootedAt /\ bars[b] = "final" => bars'[b] = "final"
<1>1. Archive!Next => Stable
    <2>1. Archive!Write => Stable
        BY DEF Archive!Write, Bar
    <2> QED
        BY <2>1 DEF Archive!Next, Archive!Tick, Archive!Restart
<1>2. UNCHANGED <<now, bars, bootedAt>> => Stable
    OBVIOUS
<1>3. TypeOK /\ TypeOK' /\ InHandInv /\ [Next]_vars => [Stable]_vars
    BY NextIsStep, StepArchive, <1>1, <1>2
<1> QED
    BY <1>3, TypeCorrect, NothingOldInHand, PTL DEF Spec, HistoryIsStable

-------------------------------------------------------------------------------
(***************************************************************************)
(* What a backfill leaves behind it: the pages done so far are stored,     *)
(* whatever the other writers did meanwhile, and the pages make up the     *)
(* range (PlanCoversRange).  The invariant:                                *)
(***************************************************************************)
\* What a backfill owes: a stored candle, and for the boot backfill a finished
\* one if the candle closed before the process started.
Good(a, b, cells, e) ==
    cells[b] # "absent" /\ (a = "boot" /\ b < e => cells[b] = "final")

PageBars(j, k) == {b \in Listed : Pages(j)[k].startTime <= b /\ b <= Pages(j)[k].endTime}

\* The pages before page n are stored.
Before(a, j, n, cells, e) ==
    \A k \in DOMAIN Pages(j) : k < n => \A b \in PageBars(j, k) : Good(a, b, cells, e)

\* A call asks for no candle of the future; the pages it has left behind are
\* stored, of the page in progress the candles that are not in hand, and when
\* it closes all of the range.
RangeOf(a, j, t, cells, e) ==
    /\ j.pc \in {"asking", "fetching", "writing"} => j.to <= t
    /\ j.pc = "fetching" => j.to <= j.sent /\ Before(a, j, j.page, cells, e)
    /\ j.pc = "writing" =>
          /\ Before(a, j, j.page, cells, e)
          /\ j.page \in DOMAIN Pages(j) =>
                \A b \in PageBars(j, j.page) : b \in DOMAIN j.reply \/ Good(a, b, cells, e)
    /\ j.pc \in {"closing", "reporting"} =>
          \A b \in Listed : j.from <= b /\ b <= j.to => Good(a, b, cells, e)
    /\ j.pc = "reporting" /\ j.last # NoBar => cells[j.last] # "absent"
    /\ a = "boot" /\ j.pc # "idle" => j.to = e

RangeInv ==
    /\ \A a \in Actors : RangeOf(a, jobs[a], now, bars, bootedAt)
    /\ \A g \in gaps : g.endTime <= now
    /\ \A m \in inflight : m.step = "state" => bars[m.bar] # "absent"
    /\ LastOpenTimeIsStored
-------------------------------------------------------------------------------
(***************************************************************************)
(* The pages of a call                                                     *)
(***************************************************************************)
LEMMA ListedIsInt == Listed \subseteq Bar /\ \A b \in Bar : b \in Int
BY PipelineAssumption DEF Bar

LEMMA OneBarAligned == \A t \in Int : AlignToInterval(t, 1) = t
<1> SUFFICES ASSUME NEW t \in Int
             PROVE  AlignToInterval(t, 1) = t
    OBVIOUS
<1>1. AlignToInterval(t, 1) \in Int
    BY DEF AlignToInterval
<1>2. AlignToInterval(t, 1) <= t /\ t < AlignToInterval(t, 1) + 1
    BY AlignBounds
<1> QED
    BY <1>1, <1>2

\* The pages are numbered from one, and make up the range asked for.
LEMMA PagesOfRange ==
    ASSUME NEW j \in Job
    PROVE  /\ Len(Pages(j)) \in Nat /\ DOMAIN Pages(j) = 1 .. Len(Pages(j))
           /\ \A k \in DOMAIN Pages(j) : \A b \in PageBars(j, k) : b <= j.to
           /\ \A b \in Listed : j.from <= b /\ b <= j.to =>
                 \E k \in DOMAIN Pages(j) : b \in PageBars(j, k)
<1>1. j.from \in Int /\ j.to \in Int /\ PageSize \in Nat \ {0}
    BY PipelineAssumption DEF Job
<1> DEFINE from == j.from
           to   == j.to
           n    == BarAt(to, 1) - BarAt(from, 1) + 1
<1>2. BarAt(to, 1) \in Int /\ BarAt(from, 1) \in Int
    BY <1>1 DEF BarAt
<1>3. Len(Pages(j)) \in Nat /\ DOMAIN Pages(j) = 1 .. Len(Pages(j))
    <2>1. CASE BarAt(to, 1) < BarAt(from, 1)
        <3>1. Pages(j) = <<>>
            BY <1>1, <2>1, PlanByBars DEF Pages
        <3> QED
            BY <3>1
    <2>2. CASE BarAt(from, 1) <= BarAt(to, 1)
        <3> DEFINE K == (n + PageSize - 1) \div PageSize
        <3>1. Pages(j) = PagesFromCount(AlignToInterval(from, 1), n, 1, PageSize)
            BY <1>1, <2>2, PlanByBars DEF Pages
        <3>2. n \in Nat \ {0}
            BY <1>2, <2>2
        <3> HIDE DEF n
        <3>3. K \in Nat
            BY <1>1, <3>2, PageCount
        <3>4. \E f : Pages(j) = [k \in 1 .. K |-> f[k]]
            <4>1. DOMAIN Pages(j) = 1 .. K /\ Pages(j) = [k \in DOMAIN Pages(j) |-> Pages(j)[k]]
                BY <3>1 DEF PagesFromCount
            <4> QED
                BY <4>1
        <3> HIDE DEF K
        <3> QED
            BY <3>3, <3>4
    <2> QED
        BY <1>2, <2>1, <2>2
<1>4. ASSUME NEW b \in Int
      PROVE  (from <= b /\ b <= to) <=>
                \E k \in DOMAIN Pages(j) : Pages(j)[k].startTime <= b /\ b <= Pages(j)[k].endTime
    <2>1. b * 1 = b /\ AlignToInterval(from, 1) = from
        BY <1>1, OneBarAligned
    <2>2. 1 \in Nat \ {0}
        OBVIOUS
    <2>3. (AlignToInterval(from, 1) <= b * 1 /\ b * 1 <= to) <=>
             \E k \in DOMAIN PlanBackfillPages(from, to, 1, PageSize) :
                 /\ PlanBackfillPages(from, to, 1, PageSize)[k].startTime <= b * 1
                 /\ b * 1 <= PlanBackfillPages(from, to, 1, PageSize)[k].endTime
        BY <1>1, <2>2, PlanCoversRange, Zenon
    <2> QED
        BY <2>1, <2>3 DEF Pages
<1>5. ASSUME NEW k \in DOMAIN Pages(j), NEW b \in PageBars(j, k)
      PROVE  b <= j.to
    BY <1>4, ListedIsInt DEF PageBars
<1>6. ASSUME NEW b \in Listed, j.from <= b, b <= j.to
      PROVE  \E k \in DOMAIN Pages(j) : b \in PageBars(j, k)
    BY <1>4, <1>6, ListedIsInt DEF PageBars
<1> QED
    BY <1>3, <1>5, <1>6
-------------------------------------------------------------------------------
(***************************************************************************)
(* How a call goes on                                                      *)
(***************************************************************************)
\* What a call has behind it stays behind it while the table only gains.
LEMMA RangeStays ==
    ASSUME NEW a, NEW j \in Job, NEW t \in Int, NEW u \in Int, t <= u,
           NEW cells, NEW later, NEW e,
           \A b \in Bar : cells[b] # "absent" => later[b] # "absent",
           \A b \in Bar : b < e /\ cells[b] = "final" => later[b] = "final",
           RangeOf(a, j, t, cells, e)
    PROVE  RangeOf(a, j, u, later, e)
<1>1. \A b \in Bar : Good(a, b, cells, e) => Good(a, b, later, e)
    BY DEF Good
<1>2. \A k : PageBars(j, k) \subseteq Bar
    BY ListedIsInt DEF PageBars
<1>3. \A n : Before(a, j, n, cells, e) => Before(a, j, n, later, e)
    BY <1>1, <1>2 DEF Before
<1>4. j.to \in Int /\ j.last \in Bar \cup {NoBar}
    BY DEF Job
<1> QED
    BY <1>1, <1>2, <1>3, <1>4, ListedIsInt DEF RangeOf

LEMMA IdleRange == \A a, t, cells, e : RangeOf(a, IdleJob, t, cells, e)
BY DEF RangeOf, IdleJob

LEMMA WaitingRange ==
    ASSUME NEW a, a # "boot", NEW pc \in {"opening", "scanning"}, NEW t, NEW cells, NEW e
    PROVE  RangeOf(a, [IdleJob EXCEPT !.pc = pc], t, cells, e)
BY DEF RangeOf, IdleJob

LEMMA ReturnJobRange ==
    ASSUME jobs \in [Actors -> Job], NEW t, NEW cells, NEW e, NEW a \in Actors, ReturnJob(a),
           NEW c \in Actors
    PROVE  jobs'[c] = jobs[c] \/ RangeOf(c, jobs'[c], t, cells, e)
<1>1. a # "boot" => RangeOf(a, [IdleJob EXCEPT !.pc = "scanning"], t, cells, e)
    BY WaitingRange
<1> QED
    BY <1>1, IdleRange DEF ReturnJob

LEMMA BeginRangeRange ==
    ASSUME jobs \in [Actors -> Job], now \in Bar, NEW cells, NEW e, NEW a \in Actors,
           NEW from \in Int, NEW to \in Int, to <= now, a = "boot" => to = e,
           BeginRange(a, from, to), NEW c \in Actors
    PROVE  jobs'[c] = jobs[c] \/ RangeOf(c, jobs'[c], now, cells, e)
<1> DEFINE j == [jobs[a] EXCEPT !.pc = "fetching", !.from = from, !.to = to,
                                !.page = 1, !.sent = now]
<1>1. j \in Job /\ j.pc = "fetching" /\ j.to = to /\ j.page = 1 /\ j.sent = now
    BY DEF Job, Pc
<1>2. ReturnJob(a) \/ jobs' = [jobs EXCEPT ![a] = j]
    BY DEF BeginRange
<1> HIDE DEF j
<1>3. Before(a, j, 1, cells, e)
    BY <1>1, PagesOfRange DEF Before
<1>4. RangeOf(a, j, now, cells, e)
    BY <1>1, <1>3 DEF RangeOf
<1> QED
    BY <1>2, <1>4, ReturnJobRange

\* With the page in progress stored too, the loop goes on or has stored the range.
LEMMA AfterPageRange ==
    ASSUME NEW a, NEW j \in Job, now \in Bar, j.to <= now, NEW cells, NEW e,
           a = "boot" => j.to = e,
           \A k \in DOMAIN Pages(j) : k <= j.page => \A b \in PageBars(j, k) : Good(a, b, cells, e)
    PROVE  RangeOf(a, AfterPage(j), now, cells, e)
<1> DEFINE more == [j EXCEPT !.pc = "fetching", !.page = j.page + 1, !.sent = now, !.reply = NoRows]
           over == [j EXCEPT !.pc = "closing", !.reply = NoRows]
<1>0. j.page \in Nat
    BY DEF Job
<1>1. CASE j.page < Len(Pages(j))
    <2>1. /\ more.pc = "fetching" /\ more.from = j.from /\ more.to = j.to
          /\ more.page = j.page + 1 /\ more.sent = now
        BY DEF Job
    <2>2. AfterPage(j) = more
        BY <1>1 DEF AfterPage
    <2> HIDE DEF more
    <2>3. Pages(more) = Pages(j) /\ \A k : PageBars(more, k) = PageBars(j, k)
        BY <2>1 DEF Pages, PageBars
    <2>4. Before(a, more, more.page, cells, e)
        BY <1>0, <2>1, <2>3, PagesOfRange DEF Before
    <2> QED
        BY <2>1, <2>2, <2>4 DEF RangeOf
<1>2. CASE ~(j.page < Len(Pages(j)))
    <2>1. over.pc = "closing" /\ over.from = j.from /\ over.to = j.to
        BY DEF Job
    <2>2. AfterPage(j) = over
        BY <1>2 DEF AfterPage
    <2> HIDE DEF over
    <2>3. \A b \in Listed : j.from <= b /\ b <= j.to => Good(a, b, cells, e)
        BY <1>0, <1>2, PagesOfRange
    <2> QED
        BY <2>1, <2>2, <2>3 DEF RangeOf
<1> QED
    BY <1>1, <1>2
-------------------------------------------------------------------------------
(***************************************************************************)
(* The steps                                                               *)
(***************************************************************************)
\* No step takes a candle away, or spoils one from before the start.
LEMMA TableGrows ==
    ASSUME TypeOK, TypeOK', InHandInv, Step, NEW b \in Bar
    PROVE  /\ bars[b] # "absent" => bars'[b] # "absent"
           /\ b < bootedAt /\ bars[b] = "final" => bars'[b] = "final"
<1>1. Archive!Next \/ UNCHANGED <<now, bars, bootedAt>>
    BY StepArchive
<1> QED
    BY <1>1 DEF Archive!Next, Archive!Write, Archive!Tick, Archive!Restart, Bar

LEMMA InitRange == Init => RangeInv
BY IdleRange DEF Init, RangeInv, LastOpenTimeIsStored

\* A gap found between two stored candles ends before the scan does.
LEMMA GapsEnd ==
    ASSUME bars \in [Bar -> Cell], NEW from \in Int, NEW to \in Int,
           NEW g \in FindGaps(GetOpenTimes(bars, from, to), 1)
    PROVE  g.endTime <= to
<1> DEFINE S == GetOpenTimes(bars, from, to)
<1>1. S \subseteq Bar /\ \A b \in S : b <= to
    BY DEF GetOpenTimes, StoredBars
<1> HIDE DEF S
<1>2. PICK p \in S \X S : g = GapBetween(p[1], p[2], 1)
    BY DEF FindGaps, Neighbours, S
<1>3. p[2] \in Int /\ p[2] <= to
    BY <1>1, ListedIsInt
<1> QED
    BY <1>2, <1>3 DEF GapBetween

LEMMA StepRange ==
    ASSUME TypeOK, TypeOK', InHandInv, RangeInv, Step
    PROVE  RangeInv'
<1>t. /\ now \in Bar /\ now \in Int /\ now' \in Int /\ bootedAt \in Int
      /\ bars \in [Bar -> Cell] /\ jobs \in [Actors -> Job] /\ jobs' \in [Actors -> Job]
      /\ lastOpenTime \in Bar \cup {NoBar} /\ inflight \subseteq Message /\ gaps \subseteq Gap
    BY ListedIsInt DEF TypeOK
<1>0. "boot" \in Actors /\ "scanner" \in Actors /\ Reconnects \subseteq Actors
      /\ "boot" # "scanner" /\ "boot" \notin Reconnects
    BY PipelineAssumption DEF Actors
<1>g. \A b \in Bar : /\ bars[b] # "absent" => bars'[b] # "absent"
                     /\ b < bootedAt /\ bars[b] = "final" => bars'[b] = "final"
    BY TableGrows
<1>i. /\ \A a \in Actors : RangeOf(a, jobs[a], now, bars, bootedAt)
      /\ \A g \in gaps : g.endTime <= now
      /\ \A m \in inflight : m.step = "state" => bars[m.bar] # "absent"
    BY DEF RangeInv
<1>n. \A g \in Gap : g.endTime \in Int
    BY ListedIsInt DEF Gap
\* A call that a step leaves alone keeps what it has.
<1>j. ASSUME bootedAt' = bootedAt, now <= now',
             \A c \in Actors : jobs'[c] = jobs[c] \/ RangeOf(c, jobs'[c], now', bars', bootedAt')
      PROVE  \A c \in Actors : RangeOf(c, jobs'[c], now', bars', bootedAt')
    <2> SUFFICES ASSUME NEW c \in Actors, jobs'[c] = jobs[c]
                 PROVE  RangeOf(c, jobs'[c], now', bars', bootedAt')
        BY <1>j
    <2>1. jobs[c] \in Job /\ RangeOf(c, jobs[c], now, bars, bootedAt)
        BY <1>i, <1>t
    <2>2. RangeOf(c, jobs[c], now', bars', bootedAt)
        BY <1>g, <1>j, <1>t, <2>1, RangeStays
    <2> QED
        BY <1>j, <2>2
\* So do the gaps, the messages and last_open_time.
<1>e. ASSUME now <= now', gaps' \subseteq gaps
      PROVE  \A g \in gaps' : g.endTime <= now'
    BY <1>e, <1>i, <1>n, <1>t
<1>m. ASSUME inflight' \subseteq inflight
      PROVE  \A m \in inflight' : m.step = "state" => bars'[m.bar] # "absent"
    BY <1>m, <1>g, <1>i, <1>t DEF Message
<1>l. ASSUME lastOpenTime' = lastOpenTime
      PROVE  LastOpenTimeIsStored'
    BY <1>l, <1>g, <1>t DEF RangeInv, LastOpenTimeIsStored
\* A step of a call that writes no state of its own.
<1>a. ASSUME UNCHANGED <<now, bootedAt, inflight, lastOpenTime>>, gaps' \subseteq gaps,
             \A c \in Actors : jobs'[c] = jobs[c] \/ RangeOf(c, jobs'[c], now, bars', bootedAt)
      PROVE  RangeInv'
    <2>1. \A c \in Actors : RangeOf(c, jobs'[c], now', bars', bootedAt')
        BY <1>a, <1>j, <1>t
    <2> QED
        BY <1>a, <1>e, <1>l, <1>m, <1>t, <2>1 DEF RangeInv
<1>1. CASE Start
    <2> DEFINE j == [IdleJob EXCEPT !.pc = "asking", !.to = now]
    <2>1. RangeOf("boot", j, now, bars, now)
        <3>1. j.pc = "asking" /\ j.to = now
            BY DEF IdleJob
        <3> HIDE DEF j
        <3> QED
            BY <1>t, <3>1 DEF RangeOf
    <2> HIDE DEF j
    <2>2. jobs' = [jobs EXCEPT !["boot"] = j] /\ \A a \in Actors : jobs[a] = IdleJob
        BY <1>1 DEF Start, InHandInv, j
    <2>3. UNCHANGED <<now, bars, inflight, gaps, lastOpenTime>> /\ bootedAt' = now
        BY <1>1 DEF Start
    <2>4. \A c \in Actors : RangeOf(c, jobs'[c], now, bars, now)
        BY <1>t, <2>1, <2>2, IdleRange
    <2> QED
        BY <1>e, <1>l, <1>m, <1>t, <2>3, <2>4 DEF RangeInv
<1>2. CASE PlanBoot
    <2>1. PICK last \in Bar \cup {NoBar} :
             BeginRange("boot", ResolveBackfillStart(last, jobs["boot"].to, BackfillDays, 1),
                        jobs["boot"].to)
        BY <1>2 DEF PlanBoot
    <2>2. jobs["boot"].to \in Int /\ jobs["boot"].to <= now /\ jobs["boot"].to = bootedAt
        BY <1>0, <1>2, <1>i, <1>t DEF PlanBoot, RangeOf, Job
    <2>3. ResolveBackfillStart(last, jobs["boot"].to, BackfillDays, 1) \in Int
        BY <2>2, ResolveType
    <2>4. \A c \in Actors : jobs'[c] = jobs[c] \/ RangeOf(c, jobs'[c], now, bars', bootedAt)
        BY <1>0, <1>t, <2>1, <2>2, <2>3, BeginRangeRange
    <2> QED
        BY <1>2, <1>a, <2>4 DEF PlanBoot
<1>3. CASE Crash
    <2>1. \A c \in Actors : RangeOf(c, jobs'[c], now', bars', bootedAt')
        BY <1>3, IdleRange DEF Crash
    <2> QED
        BY <1>3, <1>l, <2>1 DEF Crash, RangeInv
<1>4. CASE Tick
    <2>1. now' = now + 1 /\ UNCHANGED <<bars, bootedAt, jobs, gaps, lastOpenTime>>
        BY <1>4 DEF Tick
    <2>2. \A c \in Actors : RangeOf(c, jobs'[c], now', bars', bootedAt')
        BY <1>j, <1>t, <2>1
    <2>3. \A m \in inflight' : m.step = "state" => bars'[m.bar] # "absent"
        BY <1>4, <1>i, <2>1 DEF Tick, Received
    <2> QED
        BY <1>e, <1>l, <1>t, <2>1, <2>2, <2>3 DEF RangeInv
<1>5. CASE WsOpen
    <2>1. \A r \in Reconnects : RangeOf(r, [IdleJob EXCEPT !.pc = "opening"], now, bars', bootedAt)
        BY <1>0, WaitingRange
    <2>2. \A c \in Actors : jobs'[c] = jobs[c] \/ RangeOf(c, jobs'[c], now, bars', bootedAt)
        BY <1>0, <1>5, <1>t, <2>1 DEF WsOpen
    <2> QED
        BY <1>5, <1>a, <2>2 DEF WsOpen
<1>6. CASE WsClose \/ GoSilent \/ Watchdog
    BY <1>6, <1>a DEF WsClose, GoSilent, Watchdog
<1>7. CASE ReceiveUpdate
    <2>1. UNCHANGED <<now, bars, bootedAt, jobs, gaps, lastOpenTime>>
        BY <1>7 DEF ReceiveUpdate
    <2>2. \A m \in inflight' : m.step = "state" => bars'[m.bar] # "absent"
        BY <1>7, <1>i, <2>1 DEF ReceiveUpdate, Received
    <2> QED
        BY <1>e, <1>j, <1>l, <1>t, <2>1, <2>2 DEF RangeInv
<1>8. CASE BeginScan
    <2> DEFINE j == [IdleJob EXCEPT !.pc = "asking", !.to = ScanEnd(now)]
    <2>1. RangeOf("scanner", j, now, bars', bootedAt)
        <3>1. j.pc = "asking" /\ j.to = now - 1
            BY DEF IdleJob, ScanEnd
        <3> HIDE DEF j
        <3> QED
            BY <1>0, <1>t, <3>1 DEF RangeOf
    <2> HIDE DEF j
    <2>2. jobs' = [jobs EXCEPT !["scanner"] = j]
        BY <1>8 DEF BeginScan, j
    <2> QED
        BY <1>8, <1>a, <1>t, <2>1, <2>2 DEF BeginScan
<1>9. CASE DetectGaps
    <2> DEFINE to == jobs["scanner"].to
    <2>1. to \in Int /\ to <= now
        BY <1>0, <1>9, <1>i, <1>t DEF DetectGaps, RangeOf, Job
    <2>2. gaps' \subseteq FindGaps(GetOpenTimes(bars, to - ScanWindow, to), 1)
        BY <1>9 DEF DetectGaps, FirstGaps
    <2>3. gaps' \subseteq Gap
        BY DEF TypeOK
    <2> HIDE DEF to
    <2>4. \A g \in gaps' : g.endTime <= now
        <3>1. to - ScanWindow \in Int
            BY <2>1, PipelineAssumption
        <3>2. \A g \in gaps' : g.endTime <= to
            BY <1>t, <2>1, <2>2, <3>1, GapsEnd
        <3> QED
            BY <1>n, <1>t, <2>1, <2>3, <3>2
    <2>5. RangeOf("scanner", [IdleJob EXCEPT !.pc = "scanning"], now, bars', bootedAt)
        BY <1>0, WaitingRange
    <2>6. \A c \in Actors : jobs'[c] = jobs[c] \/ RangeOf(c, jobs'[c], now, bars', bootedAt)
        BY <1>9, <1>t, <2>5, IdleRange DEF DetectGaps
    <2>7. UNCHANGED <<now, bars, bootedAt, inflight, lastOpenTime>>
        BY <1>9 DEF DetectGaps
    <2>8. \A c \in Actors : RangeOf(c, jobs'[c], now', bars', bootedAt')
        BY <1>j, <1>t, <2>6, <2>7
    <2> QED
        BY <1>l, <1>m, <2>4, <2>7, <2>8 DEF RangeInv
<1>10. CASE NextGap
    <2>1. CASE gaps = {}
        BY <1>10, <1>a, <1>t, <2>1, IdleRange DEF NextGap
    <2>2. CASE gaps # {}
        <3>1. PICK g \in gaps : gaps' = gaps \ {g} /\ BeginRange("scanner", g.startTime, g.endTime)
            BY <1>10, <2>2 DEF NextGap
        <3>2. g.startTime \in Int /\ g.endTime \in Int /\ g.endTime <= now
            BY <1>i, <1>t, ListedIsInt DEF Gap
        <3>3. \A c \in Actors : jobs'[c] = jobs[c] \/ RangeOf(c, jobs'[c], now, bars', bootedAt)
            BY <1>0, <1>t, <3>1, <3>2, BeginRangeRange
        <3> QED
            BY <1>10, <1>a, <3>1, <3>3 DEF NextGap
    <2> QED
        BY <2>1, <2>2
<1>11. ASSUME NEW r \in Reconnects, BeginRecovery(r)
       PROVE  RangeInv'
    <2> DEFINE j == [jobs[r] EXCEPT !.pc = "asking", !.to = now]
    <2>1. j.pc = "asking" /\ j.to = now
        BY <1>0, <1>t DEF Job
    <2>2. jobs' = [jobs EXCEPT ![r] = j]
        BY <1>0, <1>t, <1>11 DEF BeginRecovery
    <2> HIDE DEF j
    <2>3. RangeOf(r, j, now, bars', bootedAt)
        BY <1>0, <1>t, <2>1 DEF RangeOf
    <2> QED
        BY <1>11, <1>a, <1>t, <2>2, <2>3 DEF BeginRecovery
<1>12. ASSUME NEW r \in Reconnects, PlanRecovery(r)
       PROVE  RangeInv'
    <2> DEFINE start(last) == IF last = NoBar THEN jobs[r].to - ReconnectBars ELSE last
    <2>1. PICK last \in Bar \cup {NoBar} : BeginRange(r, start(last), jobs[r].to)
        BY <1>12 DEF PlanRecovery
    <2>2. jobs[r].to \in Int /\ jobs[r].to <= now
        BY <1>0, <1>12, <1>i, <1>t DEF PlanRecovery, RangeOf, Job
    <2>3. start(last) \in Int
        BY <2>2, ListedIsInt, PipelineAssumption
    <2> HIDE DEF start
    <2>4. \A c \in Actors : jobs'[c] = jobs[c] \/ RangeOf(c, jobs'[c], now, bars', bootedAt)
        BY <1>0, <1>t, <2>1, <2>2, <2>3, BeginRangeRange
    <2> QED
        BY <1>12, <1>a, <2>4 DEF PlanRecovery
<1>13. ASSUME NEW a \in Actors, FetchPage(a)
       PROVE  RangeInv'
    <2> DEFINE j == jobs[a]
    <2>1. PICK s \in j.sent .. now : jobs' = [jobs EXCEPT ![a] =
                             IF DOMAIN PageRows(j, s) = {}
                             THEN AfterPage(j)
                             ELSE [j EXCEPT !.pc = "writing", !.reply = PageRows(j, s)]]
        BY <1>13 DEF FetchPage
    <2>2. j \in Job /\ j.pc = "fetching" /\ RangeOf(a, j, now, bars, bootedAt)
        BY <1>13, <1>i, <1>t DEF FetchPage
    <2>3. j.to \in Int /\ j.sent \in Int /\ j.page \in Nat /\ s \in Int /\ j.to <= s /\ j.to <= now
        <3>1. j.to \in Int /\ j.sent \in Int /\ j.page \in Nat
            BY <2>2, ListedIsInt DEF Job, NoBar
        <3>2. j.to <= now /\ j.to <= j.sent
            BY <2>2 DEF RangeOf
        <3>3. s \in Int /\ j.sent <= s
            BY <1>t, <3>1
        <3> QED
            BY <3>1, <3>2, <3>3
    <2>4. Before(a, j, j.page, bars, bootedAt) /\ (a = "boot" => j.to = bootedAt)
        BY <2>2 DEF RangeOf
    <2>5. UNCHANGED <<now, bars, bootedAt, inflight, lastOpenTime, gaps>>
        BY <1>13 DEF FetchPage
    <2> HIDE DEF j
    <2>6. j.page \in DOMAIN Pages(j) => PageBars(j, j.page) \subseteq DOMAIN PageRows(j, s)
        <3>1. ASSUME j.page \in DOMAIN Pages(j), NEW b \in PageBars(j, j.page)
              PROVE  b \in Listed /\ b <= s
            <4>1. b \in Listed /\ b \in Int /\ b <= j.to
                BY <2>2, <3>1, PagesOfRange, ListedIsInt DEF PageBars
            <4> QED
                BY <2>3, <4>1
        <3> QED
            BY <3>1 DEF PageRows, PageBars
    <2>7. DOMAIN PageRows(j, s) = {} => RangeOf(a, AfterPage(j), now, bars, bootedAt)
        <3>1. ASSUME DOMAIN PageRows(j, s) = {}, NEW k \in DOMAIN Pages(j), k <= j.page,
                     NEW b \in PageBars(j, k)
              PROVE  Good(a, b, bars, bootedAt)
            <4>1. k \in Int /\ (k < j.page \/ k = j.page)
                BY <2>2, <2>3, <3>1, PagesOfRange
            <4> QED
                BY <2>4, <2>6, <3>1, <4>1 DEF Before
        <3> QED
            BY <1>t, <2>2, <2>3, <2>4, <3>1, AfterPageRange
    <2> DEFINE k == [j EXCEPT !.pc = "writing", !.reply = PageRows(j, s)]
    <2>8. RangeOf(a, k, now, bars, bootedAt)
        <3>1. /\ k.pc = "writing" /\ k.reply = PageRows(j, s) /\ k.page = j.page
              /\ k.from = j.from /\ k.to = j.to
            BY <2>2 DEF Job
        <3> HIDE DEF k
        <3>2. Pages(k) = Pages(j) /\ \A n : PageBars(k, n) = PageBars(j, n)
            BY <3>1 DEF Pages, PageBars
        <3>3. Before(a, k, k.page, bars, bootedAt)
            BY <2>4, <3>1, <3>2 DEF Before
        <3>4. k.page \in DOMAIN Pages(k) => \A b \in PageBars(k, k.page) : b \in DOMAIN k.reply
            BY <2>6, <3>1, <3>2
        <3> QED
            BY <2>3, <2>4, <3>1, <3>3, <3>4 DEF RangeOf
    <2> HIDE DEF k
    <2>9. \A c \in Actors : jobs'[c] = jobs[c] \/ RangeOf(c, jobs'[c], now, bars', bootedAt)
        BY <1>t, <2>1, <2>5, <2>7, <2>8 DEF k
    <2> QED
        BY <1>a, <2>5, <2>9
<1>14. ASSUME NEW a \in Actors, WriteChunk(a)
       PROVE  RangeInv'
    <2> DEFINE j     == jobs[a]
               chunk == FirstChunk(j.reply)
               rows  == [b \in chunk |-> j.reply[b]]
               left  == DOMAIN j.reply \ chunk
               k     == [j EXCEPT !.reply = [b \in left |-> j.reply[b]]]
    <2>1. /\ bars' = UpsertKlines(bars, rows)
          /\ jobs' = [jobs EXCEPT ![a] = IF left = {} THEN AfterPage(j) ELSE k]
          /\ UNCHANGED <<now, bootedAt, inflight, lastOpenTime, gaps>>
        BY <1>14 DEF WriteChunk
    <2>2. /\ j \in Job /\ j.pc = "writing" /\ j.reply \in Rows /\ j.page \in Nat
          /\ RangeOf(a, j, now, bars, bootedAt)
          /\ \A b \in DOMAIN j.reply : InHand(b, j.reply[b], now, bootedAt)
        BY <1>14, <1>i, <1>t DEF WriteChunk, Job, InHandInv, JobInHand
    <2>3. /\ DOMAIN rows = chunk /\ chunk \subseteq DOMAIN j.reply
          /\ \A b \in chunk : rows[b] = j.reply[b]
        BY DEF FirstChunk
    <2>4. /\ k.pc = "writing" /\ k.page = j.page /\ k.from = j.from /\ k.to = j.to
          /\ DOMAIN k.reply = left
        BY <2>2 DEF Job
    <2> HIDE DEF j, rows, k
    <2>5. ASSUME NEW b \in chunk
          PROVE  Good(a, b, bars', bootedAt)
        <3>1. b \in Bar /\ j.reply[b] \in Stored
            BY <2>2, <2>3, RowsElim
        <3>2. bars'[b] = j.reply[b]
            BY <1>t, <2>1, <2>3, <3>1 DEF UpsertKlines
        <3>3. b < bootedAt => j.reply[b] = "final"
            <4>1. InHand(b, j.reply[b], now, bootedAt)
                BY <2>2, <2>3
            <4>2. b \in Int /\ bootedAt \in Int
                BY <1>t, <3>1, BarIsInt
            <4> QED
                BY <4>1, <4>2 DEF InHand
        <3> QED
            BY <3>1, <3>2, <3>3 DEF Good, Stored
    <2> HIDE DEF chunk
    <2>6. \A b \in Bar : Good(a, b, bars, bootedAt) => Good(a, b, bars', bootedAt)
        BY <1>g DEF Good
    <2>7. \A n : PageBars(j, n) \subseteq Bar
        BY ListedIsInt DEF PageBars
    <2>8. Before(a, j, j.page, bars', bootedAt)
        BY <2>2, <2>6, <2>7 DEF RangeOf, Before
    <2>9. j.page \in DOMAIN Pages(j) =>
             \A b \in PageBars(j, j.page) : b \in left \/ Good(a, b, bars', bootedAt)
        BY <2>2, <2>5, <2>6, <2>7 DEF RangeOf
    <2>10. j.to <= now /\ (a = "boot" => j.to = bootedAt)
        BY <2>2 DEF RangeOf
    <2> HIDE DEF left
    <2>11. left = {} => RangeOf(a, AfterPage(j), now, bars', bootedAt)
        <3>1. ASSUME left = {}, NEW n \in DOMAIN Pages(j), n <= j.page, NEW b \in PageBars(j, n)
              PROVE  Good(a, b, bars', bootedAt)
            <4>1. n < j.page \/ n = j.page
                BY <2>2, <3>1, PagesOfRange
            <4> QED
                BY <2>8, <2>9, <3>1, <4>1 DEF Before
        <3> QED
            BY <1>t, <2>2, <2>10, <3>1, AfterPageRange
    <2>12. RangeOf(a, k, now, bars', bootedAt)
        <3>1. Pages(k) = Pages(j) /\ \A n : PageBars(k, n) = PageBars(j, n)
            BY <2>4 DEF Pages, PageBars
        <3>2. Before(a, k, k.page, bars', bootedAt)
            BY <2>4, <2>8, <3>1 DEF Before
        <3>3. k.page \in DOMAIN Pages(k) =>
                 \A b \in PageBars(k, k.page) : b \in DOMAIN k.reply \/ Good(a, b, bars', bootedAt)
            BY <2>4, <2>9, <3>1
        <3> QED
            BY <2>4, <2>10, <3>2, <3>3 DEF RangeOf
    <2>13. \A c \in Actors : jobs'[c] = jobs[c] \/ RangeOf(c, jobs'[c], now, bars', bootedAt)
        BY <1>t, <2>1, <2>11, <2>12
    <2> QED
        BY <1>a, <2>1, <2>13
<1>15. ASSUME NEW a \in Actors, ReadBackLast(a)
       PROVE  RangeInv'
    <2>1. PICK last \in Bar \cup {NoBar} :
             /\ IsLastOpenTime(bars, last, NoBar)
             /\ jobs' = [jobs EXCEPT ![a] = [jobs[a] EXCEPT !.pc = "reporting", !.last = last]]
        BY <1>15 DEF ReadBackLast
    <2> DEFINE j == [jobs[a] EXCEPT !.pc = "reporting", !.last = last]
    <2>2. /\ j.pc = "reporting" /\ j.last = last /\ j.from = jobs[a].from /\ j.to = jobs[a].to
        BY <1>t DEF Job
    <2>3. last # NoBar => bars[last] # "absent"
        BY <2>1 DEF IsLastOpenTime, StoredBars
    <2>4. UNCHANGED <<now, bars, bootedAt, inflight, lastOpenTime, gaps>>
        BY <1>15 DEF ReadBackLast
    <2>5. jobs[a].pc = "closing" /\ RangeOf(a, jobs[a], now, bars, bootedAt)
        BY <1>15, <1>i DEF ReadBackLast
    <2> HIDE DEF j
    <2>6. RangeOf(a, j, now, bars, bootedAt)
        BY <2>2, <2>3, <2>5 DEF RangeOf
    <2>7. \A c \in Actors : jobs'[c] = jobs[c] \/ RangeOf(c, jobs'[c], now, bars', bootedAt)
        BY <1>t, <2>1, <2>4, <2>6 DEF j
    <2> QED
        BY <1>a, <2>4, <2>7
<1>16. ASSUME NEW a \in Actors, Report(a)
       PROVE  RangeInv'
    <2>1. \A c \in Actors : jobs'[c] = jobs[c] \/ RangeOf(c, jobs'[c], now, bars', bootedAt)
        BY <1>16, <1>t, ReturnJobRange DEF Report
    <2>2. UNCHANGED <<now, bars, bootedAt, inflight, gaps>>
        BY <1>16 DEF Report
    <2>3. \A c \in Actors : RangeOf(c, jobs'[c], now', bars', bootedAt')
        BY <1>j, <1>t, <2>1, <2>2
    <2>4. LastOpenTimeIsStored'
        BY <1>16, <1>i, <2>2 DEF Report, RangeOf, RangeInv, LastOpenTimeIsStored
    <2> QED
        BY <1>e, <1>m, <1>t, <2>2, <2>3, <2>4 DEF RangeInv
<1>17. ASSUME NEW a \in Actors, Throw(a)
       PROVE  RangeInv'
    <2>1. \A c \in Actors : jobs'[c] = jobs[c] \/ RangeOf(c, jobs'[c], now, bars', bootedAt)
        BY <1>17, <1>t, IdleRange DEF Throw
    <2> QED
        BY <1>17, <1>a, <2>1 DEF Throw
<1>18. ASSUME NEW m \in inflight, UpsertMessage(m)
       PROVE  RangeInv'
    <2>1. UNCHANGED <<now, bootedAt, jobs, gaps, lastOpenTime>>
        BY <1>18 DEF UpsertMessage
    <2>2. \A c \in Actors : RangeOf(c, jobs'[c], now', bars', bootedAt')
        BY <1>j, <1>t, <2>1
    <2>3. \A n \in inflight' : n.step = "state" => bars'[n.bar] # "absent"
        <3>1. m \in Message /\ [m EXCEPT !.step = "state"].bar = m.bar
            BY <1>t DEF Message
        <3>2. bars'[m.bar] # "absent"
            BY <1>18, <1>t, <3>1 DEF UpsertMessage, UpsertKlines, Message
        <3>3. \A n \in inflight : n.step = "state" => bars'[n.bar] # "absent"
            BY <1>g, <1>i, <1>t DEF Message
        <3> QED
            BY <1>18, <3>1, <3>2, <3>3 DEF UpsertMessage
    <2> QED
        BY <1>e, <1>l, <1>t, <2>1, <2>2, <2>3 DEF RangeInv
<1>19. ASSUME NEW m \in inflight, MarkClosed(m)
       PROVE  RangeInv'
    <2>1. UNCHANGED <<now, bars, bootedAt, jobs, gaps>> /\ inflight' \subseteq inflight
        BY <1>19 DEF MarkClosed
    <2>2. LastOpenTimeIsStored'
        BY <1>19, <1>i, <2>1 DEF MarkClosed, LastOpenTimeIsStored
    <2>3. \A c \in Actors : RangeOf(c, jobs'[c], now', bars', bootedAt')
        BY <1>j, <1>t, <2>1
    <2> QED
        BY <1>e, <1>m, <1>t, <2>1, <2>2, <2>3 DEF RangeInv
<1>20. ASSUME NEW m \in inflight, DropMessage(m)
       PROVE  RangeInv'
    <2>1. UNCHANGED <<now, bars, bootedAt, jobs, gaps, lastOpenTime>> /\ inflight' \subseteq inflight
        BY <1>20 DEF DropMessage
    <2>2. \A c \in Actors : RangeOf(c, jobs'[c], now', bars', bootedAt')
        BY <1>j, <1>t, <2>1
    <2> QED
        BY <1>e, <1>l, <1>m, <1>t, <2>1, <2>2 DEF RangeInv
<1> QED
    BY <1>1, <1>2, <1>3, <1>4, <1>5, <1>6, <1>7, <1>8, <1>9, <1>10, <1>11, <1>12, <1>13, <1>14,
       <1>15, <1>16, <1>17, <1>18, <1>19, <1>20 DEF Step

LEMMA StutterRange == RangeInv /\ UNCHANGED vars => RangeInv'
BY DEF RangeInv, LastOpenTimeIsStored, vars
-------------------------------------------------------------------------------
(***************************************************************************)
(* The theorems                                                            *)
(***************************************************************************)
\* Whatever the stream, the other backfills, the scanner and the clock do, the
\* pages a backfill has behind it are stored.
THEOREM WhatIsBehindIsStored == Spec => []RangeInv
<1>1. TypeOK /\ TypeOK' /\ InHandInv /\ RangeInv /\ [Next]_vars => RangeInv'
    BY NextIsStep, StepRange, StutterRange
<1> QED
    BY InitRange, <1>1, TypeCorrect, NothingOldInHand, PTL DEF Spec

\* ensureRange is over only when every candle the exchange has in its range is
\* stored (the page loop of backfill-service.ts).
THEOREM RangeIsEnsured == Spec => []EnsureRangeStores
<1>1. RangeInv => EnsureRangeStores
    BY DEF RangeInv, RangeOf, Good, EnsureRangeStores
<1> QED
    BY <1>1, WhatIsBehindIsStored, PTL

\* When the boot backfill is over, the candles from its start up to the one in
\* progress at boot are stored finished (index.ts, backfillFromLastKnown).
THEOREM BootLeavesHistoryFinished == Spec => []BootFinishesHistory
<1>1. TypeOK /\ RangeInv => BootFinishesHistory
    <2> SUFFICES ASSUME TypeOK, RangeInv, jobs["boot"].pc \in {"closing", "reporting"},
                        NEW b \in Listed, jobs["boot"].from <= b, b < jobs["boot"].to
                 PROVE  bars[b] = "final"
        BY DEF BootFinishesHistory
    <2>1. "boot" \in Actors /\ RangeOf("boot", jobs["boot"], now, bars, bootedAt)
        BY DEF Actors, RangeInv
    <2>2. b \in Int /\ bootedAt \in Int /\ jobs["boot"].to = bootedAt
        BY <2>1, ListedIsInt DEF RangeOf, TypeOK
    <2> QED
        BY <2>1, <2>2 DEF RangeOf, Good
<1> QED
    BY <1>1, TypeCorrect, WhatIsBehindIsStored, PTL

\* collector_state points at a stored candle, in whatever order the calls of
\* handleKline and the backfills report theirs.
THEOREM ReportedCandleIsStored == Spec => []LastOpenTimeIsStored
<1>1. RangeInv => LastOpenTimeIsStored
    BY DEF RangeInv
<1> QED
    BY <1>1, WhatIsBehindIsStored, PTL
===============================================================================

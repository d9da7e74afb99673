----------------------------- MODULE CandleArchive -----------------------------
(***************************************************************************)
(* What the klines table promises to its readers (the web process), said   *)
(* without the writers: the abstract specification CandlePipeline          *)
(* implements.                                                             *)
(***************************************************************************)
EXTENDS Integers

CONSTANTS
    StartTime,  \* the candle in progress at the beginning
    MaxTime,    \* BOUND: the last candle
    Listed      \* the candles the exchange has

VARIABLES
    time,       \* the candle in progress
    cells,      \* per candle, what is stored of it
    epoch       \* the candle in progress when the writer last started

Init ==
    /\ time = StartTime
    /\ epoch = StartTime
    /\ cells = [b \in 0 .. MaxTime |-> "absent"]

Tick == time' = time + 1 /\ UNCHANGED <<cells, epoch>>

Restart == epoch' = time /\ UNCHANGED <<time, cells>>

\* Rows are added or replaced, none removed: of listed candles that have
\* begun, and finished if they are older than the last start.
Write ==
    /\ cells' \in [0 .. MaxTime -> {"absent", "unfinished", "final", "mislabelled"}]
    /\ \A b \in 0 .. MaxTime : cells'[b] # cells[b] =>
          /\ b \in Listed /\ b <= time
          /\ cells'[b] # "absent"
          /\ b < epoch => cells'[b] = "final"
    /\ UNCHANGED <<time, epoch>>

Next == Tick \/ Restart \/ Write

Spec == Init /\ [][Next]_<<time, cells, epoch>>
===============================================================================

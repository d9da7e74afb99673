-------------------------------- MODULE Config --------------------------------
(***************************************************************************)
(* packages/shared/src/config.ts: which settings a process starts with.  A *)
(* source is what the environment says, words and numbers already told     *)
(* apart; the limits are those of the code.                                *)
(***************************************************************************)
EXTENDS Naturals, Sequences, SequencesExt

Refused == [accepted |-> FALSE]

\* csv: the names between commas, upper-cased, empty ones dropped.
Csv(words, upper) ==
    LET Names[k \in 0 .. Len(words)] ==
            IF k = 0 THEN <<>>
            ELSE IF words[k] = "" THEN Names[k - 1] ELSE Append(Names[k - 1], upper[words[k]])
    IN  Names[Len(words)]

\* envSchema: what is checked of each setting by itself.
EnvSchema(source, intervals) ==
    /\ source.interval \in intervals
    /\ source.backfillDays \in 1 .. 90
    /\ source.reconnectBase > 0 /\ source.reconnectMax > 0

\* Settings that contradict each other are refused as well.
LoadConfig(source, intervals, upper) ==
    LET symbols == Csv(source.symbols, upper)
    IN  IF ~EnvSchema(source, intervals) \/ symbols = <<>> \/ source.reconnectBase > source.reconnectMax
        THEN Refused
        ELSE [accepted      |-> TRUE,
              symbols       |-> symbols,
              interval      |-> source.interval,
              backfillDays  |-> source.backfillDays,
              reconnectBase |-> source.reconnectBase,
              reconnectMax  |-> source.reconnectMax]
===============================================================================

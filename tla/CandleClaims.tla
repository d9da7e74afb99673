----------------------------- MODULE CandleClaims -----------------------------
(***************************************************************************)
(* What a comment and the documentation of the repository say of the       *)
(* candles, as a property of CandlePipeline.  It is refuted by a run:      *)
(* README.md tells the story of the counterexample.                        *)
(***************************************************************************)
EXTENDS CandlePipeline

\* backfill-plan.ts:40-42 and docs/ARCHITECTURE.md:62: refetching the last
\* candle and the overwriting upsert make sure that no candle stays unfinished
\* after it has closed.
UnfinishedCandlesGetFinished ==
    \A b \in Bar : (bars[b] = "unfinished" /\ b < now) ~> bars[b] = "final"
===============================================================================

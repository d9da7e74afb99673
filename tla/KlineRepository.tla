---------------------------- MODULE KlineRepository ----------------------------
(***************************************************************************)
(* The klines table of one symbol as its SQL statements see it             *)
(* (packages/db/src/kline-repository.ts).  The table is a function from    *)
(* bars to what is stored of them.  A bar is named by its open time        *)
(* counted in intervals; of its row only is_closed and the state of the    *)
(* data are kept:                                                          *)
(*   "absent"      no row                                                  *)
(*   "unfinished"  is_closed = false, data of a candle still in progress   *)
(*   "final"       is_closed = true, the data of the finished candle       *)
(*   "mislabelled" is_closed = true, but data of a candle in progress      *)
(***************************************************************************)
EXTENDS Integers, FiniteSets

Stored == {"unfinished", "final", "mislabelled"}
Cell   == Stored \cup {"absent"}

StoredBars(table) == {b \in DOMAIN table : table[b] # "absent"}

UpsertSkippingExisting(table, rows) ==
    [b \in DOMAIN table |-> IF b \in DOMAIN rows /\ table[b] = "absent" THEN rows[b] ELSE table[b]]

\* INSERT ... ON CONFLICT DO UPDATE of one chunk: every row given replaces
\* what was stored, whatever that was.
UpsertKlines(table, rows) ==
    [b \in DOMAIN table |-> IF b \in DOMAIN rows THEN rows[b] ELSE table[b]]

\* SELECT max(open_time): last is the greatest stored bar, or none.
IsLastOpenTime(table, last, none) ==
    IF StoredBars(table) = {}
    THEN last = none
    ELSE last \in StoredBars(table) /\ \A b \in StoredBars(table) : b <= last

\* SELECT open_time WHERE open_time BETWEEN from AND to.
GetOpenTimes(table, from, to) == {b \in StoredBars(table) : from <= b /\ b <= to}
===============================================================================

------------------------------- MODULE MC_Rollups -------------------------------
(***************************************************************************)
(* An instance of Rollups for TLC: days of two hours, months of two days,  *)
(* a debug level that is kept for a day and an error level that is kept    *)
(* for two months.                                                         *)
(***************************************************************************)
EXTENDS Rollups

MonthStarts == [m \in 0..4 |-> 4 * m]

ThreeMonths == 0..2
LevelWindows == [l \in {"debug", "error"} |-> IF l = "debug" THEN 2 ELSE 8]

\* Events and readings share nothing but the clock and the process: the rows of days are
\* computed anew on request in the behaviours without events, and once; a second
\* event, an outage and a job that failed are taken two at a time.
WholeDays    == {d \in Days : daily[d] = HoursOf(d)}
FewWholeDays == Cardinality(WholeDays) <= IF logged = {} THEN 1 ELSE 0
FewOutages   == Cardinality(outages) + Cardinality(logged) <= MaxEvents
Bounded      == FewWholeDays /\ FewOutages
=============================================================================

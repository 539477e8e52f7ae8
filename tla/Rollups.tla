--------------------------------- MODULE Rollups ---------------------------------
(***************************************************************************)
(* What is kept of events and readings, and for how long: the hourly,      *)
(* daily and monthly rollups and the purges of internal/jobs and           *)
(* scanner/discovery, driven by tickers that start with the process and by *)
(* requests to the job registry.  Time passes in hours; months are as long *)
(* as the calendar (First) makes them.                                     *)
(***************************************************************************)
EXTENDS Integers, FiniteSets

CONSTANTS
    Levels,         \* severities of events
    Window,         \* retentionWindows, in hours
    Months,         \* the months 0..n the instance covers
    First,          \* the first hour of each month, and of the two after the last
    HoursPerDay,
    RetentionHour,  \* 02:00
    ReadingsKept,   \* 7 days, in hours
    HourlyKept,     \* 90 days, in hours
    MaxHour,        \* bound on the clock
    MaxEvents,      \* bound on the events logged
    MaxOutage       \* bound on the hours with an outage

ASSUME RollupConstants ==
    /\ Window \in [Levels -> Nat \ {0}]
    /\ Months \subseteq Nat
    /\ \A m \in Months : {First[m], First[m + 1], First[m + 2]} \subseteq Nat
    /\ \A m \in Months : First[m] < First[m + 1] /\ First[m + 1] < First[m + 2]
    /\ MaxHour \in Nat
    /\ \A h \in 0..MaxHour : \E m \in Months : First[m] <= h /\ h < First[m + 1]
    /\ {HoursPerDay, ReadingsKept, HourlyKept} \subseteq Nat \ {0}

VARIABLES
    now,        \* the hour
    up,         \* the process runs
    due,        \* the scheduled jobs that have yet to run in this hour
    logged,     \* every event ever logged
    db,         \* the events table
    counts,     \* the rollups table: month and level to count, 0 without a row
    readings,   \* the hours of which resource_readings has rows
    hourly,     \* the hours of which resource_rollups has a row
    daily,      \* the hours each daily row was computed from
    outages     \* hours in which the process was down or a rollup failed

rollVars == <<now, up, due, logged, db, counts, readings, hourly, daily, outages>>

-----------------------------------------------------------------------------
Hours == 0..MaxHour
Days  == 0..(MaxHour \div HoursPerDay)
Jobs  == {"hourly", "daily", "monthly", "retention"}

InMonth(m, h) == First[m] <= h /\ h < First[m + 1]
HoursOf(d)    == {h \in Hours : h \div HoursPerDay = d}
Of(S, m, l)   == {e \in S : e.level = l /\ InMonth(m, e.at)}

\* GroupByTypeAndLevel
Count(m, l) == Cardinality(Of(db, m, l))

\* Mutated Due: the monthly job runs on the last day of the month.
DueEarly(h) ==
    {"hourly"}
    \cup (IF h % HoursPerDay = 0 THEN {"daily"} ELSE {})
    \cup (IF \E m \in Months : h + HoursPerDay = First[m + 1] THEN {"monthly"} ELSE {})
    \cup (IF h % HoursPerDay = RetentionHour THEN {"retention"} ELSE {})

\* What the tickers of a running process fire in hour h: the discovery pass once an
\* hour, the others at midnight, at midnight of the first, and at two.
Due(h) ==
    {"hourly"}
    \cup (IF h % HoursPerDay = 0 THEN {"daily"} ELSE {})
    \cup (IF \E m \in Months : h = First[m + 1] THEN {"monthly"} ELSE {})
    \cup (IF h % HoursPerDay = RetentionHour THEN {"retention"} ELSE {})

-----------------------------------------------------------------------------
(* The jobs, as they leave the tables. *)

\* Mutated RollHour: a row is written whether or not there were readings.
RollHourAlways == hourly' = hourly \cup {now - 1}

\* RunHourlyRollup aggregates the hour before this one; no rows, no rollup.
RollHour == hourly' = hourly \cup ({now - 1} \cap readings)

\* Mutated RollDay: the day that is going on.
RollToday ==
    LET d   == now \div HoursPerDay
        agg == hourly \cap HoursOf(d)
    IN  daily' = IF agg # {} THEN [daily EXCEPT ![d] = agg] ELSE daily

\* RunDailyRollup aggregates the hourly rows of the day before this one.
RollDay ==
    LET d   == now \div HoursPerDay - 1
        agg == hourly \cap HoursOf(d)
    IN  daily' = IF agg # {} THEN [daily EXCEPT ![d] = agg] ELSE daily

\* RunRetentionPurge, as far as it comes: the readings first, then the hourly rows.
Purge ==
    \/ UNCHANGED <<readings, hourly>>
    \/ /\ readings' = {h \in readings : h >= now - ReadingsKept}
       /\ hourly' \in {hourly, {h \in hourly : h >= now - HourlyKept}}

\* Mutated RollMonth: the month that is going on.
RollThisMonth(done) ==
    counts' = [p \in Months \X Levels |->
                 IF InMonth(p[1], now) /\ p[2] \in done /\ Count(p[1], p[2]) > 0
                 THEN Count(p[1], p[2]) ELSE counts[p]]

\* RunMonthlyRollup of the month before this one, for the groups that were written before
\* it failed; a group without events is left as it is.
RollMonth(done) ==
    counts' = [p \in Months \X Levels |->
                 IF InMonth(p[1] + 1, now) /\ p[2] \in done /\ Count(p[1], p[2]) > 0
                 THEN Count(p[1], p[2]) ELSE counts[p]]

\* RunEventRetention, of the levels it came to before it failed.
Retain(done) == db' = {e \in db : e.level \notin done \/ e.at >= now - Window[e.level]}

-----------------------------------------------------------------------------
Init ==
    /\ now = 0 /\ up = TRUE /\ due = {}
    /\ logged = {} /\ db = {}
    /\ counts = [p \in Months \X Levels |-> 0]
    /\ readings = {} /\ hourly = {} /\ daily = [d \in Days |-> {}]
    /\ outages = {}

Log(l) ==
    LET e == [level |-> l, at |-> now] IN
    /\ up /\ e \notin logged /\ Cardinality(logged) < MaxEvents
    /\ logged' = logged \cup {e}
    /\ db' = db \cup {e}
    /\ UNCHANGED <<now, up, due, counts, readings, hourly, daily, outages>>

\* A scheduled rollup ends with an error.
Fails == Cardinality(outages) < MaxOutage /\ outages' = outages \cup {now}

\* The scheduled jobs.
HourlyTick ==
    /\ "hourly" \in due /\ due' = due \ {"hourly"}
    /\ \/ RollHour /\ UNCHANGED outages
       \/ Fails /\ UNCHANGED hourly
    /\ UNCHANGED <<now, up, logged, db, counts, readings, daily>>

DailyTick ==
    /\ "daily" \in due /\ due' = due \ {"daily"}
    /\ \/ RollDay /\ UNCHANGED outages
       \/ Fails /\ UNCHANGED daily
    /\ Purge
    /\ UNCHANGED <<now, up, logged, db, counts>>

MonthlyTick ==
    /\ "monthly" \in due /\ due' = due \ {"monthly"}
    /\ \/ RollMonth(Levels) /\ UNCHANGED outages
       \/ Fails /\ \E done \in SUBSET Levels : RollMonth(done)
    /\ UNCHANGED <<now, up, logged, db, readings, hourly, daily>>

RetentionTick ==
    /\ "retention" \in due /\ due' = due \ {"retention"}
    /\ \E done \in SUBSET Levels : Retain(done)
    /\ UNCHANGED <<now, up, logged, counts, readings, hourly, daily, outages>>

\* The same jobs on request; the daily one does not purge then.
OnRequest ==
    /\ up
    /\ \/ RollHour /\ UNCHANGED <<db, counts, daily>>
       \/ RollDay /\ UNCHANGED <<db, counts, hourly>>
       \/ \E done \in SUBSET Levels : RollMonth(done) /\ UNCHANGED <<db, hourly, daily>>
       \/ \E done \in SUBSET Levels : Retain(done) /\ UNCHANGED <<counts, hourly, daily>>
    /\ UNCHANGED <<now, up, due, logged, readings, outages>>

\* The hour passes when its jobs have run; readings are taken every minute.
Tick ==
    /\ due = {} /\ now < MaxHour
    /\ ~up => Cardinality(outages) < MaxOutage
    /\ now' = now + 1
    /\ due' = IF up THEN Due(now + 1) ELSE {}
    /\ readings' = IF up THEN readings \cup {now} ELSE readings
    /\ outages' = IF up THEN outages ELSE outages \cup {now + 1}
    /\ UNCHANGED <<up, logged, db, counts, hourly, daily>>

\* The process ends, with whatever was due, and starts again: every ticker begins anew.
Stop ==
    /\ up /\ Cardinality(outages) < MaxOutage
    /\ up' = FALSE /\ due' = {}
    /\ readings' = readings \cup {now}
    /\ outages' = outages \cup {now}
    /\ UNCHANGED <<now, logged, db, counts, hourly, daily>>

Start ==
    /\ ~up
    /\ up' = TRUE
    /\ UNCHANGED <<now, due, logged, db, counts, readings, hourly, daily, outages>>

Next ==
    \/ \E l \in Levels : Log(l)
    \/ HourlyTick \/ DailyTick \/ MonthlyTick \/ RetentionTick
    \/ OnRequest
    \/ Tick \/ Stop \/ Start

Spec == Init /\ [][Next]_rollVars

-----------------------------------------------------------------------------
Event == [level: Levels, at: Hours]

\* Every variable keeps its type, and no table has rows of hours that have not been.
TypeOK ==
    /\ now \in Hours /\ up \in BOOLEAN /\ due \subseteq Jobs
    /\ logged \subseteq Event /\ db \subseteq logged
    /\ counts \in [Months \X Levels -> Nat]
    /\ readings \subseteq Hours /\ hourly \subseteq Hours
    /\ daily \in [Days -> SUBSET Hours]
    /\ outages \subseteq Hours

\* A level whose events outlive the month after their own: errors and criticals.
LongKept(l) == \A m \in Months : Window[l] >= First[m + 2] - First[m]

\* A row of the monthly rollups is the number of events that were logged, for the levels
\* that are kept long enough: whatever the hour of the job, however often it is asked to
\* run again, and with failing purges and rollups in between (jobs/rollup.go:14 "Safe to
\* call multiple times").
RowsAreExact ==
    \A m \in Months, l \in Levels :
        LongKept(l) /\ counts[<<m, l>>] # 0 => counts[<<m, l>>] = Cardinality(Of(logged, m, l))

\* And there is a row for every such level that had events, when the process was up at
\* the midnight that ended the month and the job succeeded.
MonthsAreCounted ==
    \A m \in Months, l \in Levels :
        (/\ LongKept(l)
         /\ First[m + 1] <= now /\ First[m + 1] \notin outages
         /\ First[m + 1] = now => "monthly" \notin due) =>
            counts[<<m, l>>] = Cardinality(Of(logged, m, l))

DayIsOver(d) ==
    /\ (d + 1) * HoursPerDay <= now
    /\ (d + 1) * HoursPerDay = now => "daily" \notin due

\* A daily row misses at most the last hour of its day, when the process was up from the
\* first hour to the midnight after it.
DailyNearlyWhole ==
    \A d \in Days :
        (/\ DayIsOver(d)
         /\ outages \cap (HoursOf(d) \cup {(d + 1) * HoursPerDay}) = {}) =>
            HoursOf(d) \ {(d + 1) * HoursPerDay - 1} \subseteq daily[d]
=============================================================================

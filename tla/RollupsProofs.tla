------------------------------ MODULE RollupsProofs ------------------------------
(***************************************************************************)
(* What the monthly rows count, proved for any calendar, windows, number   *)
(* of events and outages.  The inductive invariant says that the events    *)
(* young enough are still in the table and that no row is of a month that  *)
(* goes on; both hold because the job looks only at the month before.  The *)
(* daily rows follow from what readings and hourly rows are still there.   *)
(***************************************************************************)
EXTENDS Rollups, FiniteSetTheorems, TLAPS

\* Events are stamped with the hour they come in.
NotAhead == \A e \in logged : e.at <= now

\* No purge takes an event that is within its window.
YoungKept == \A e \in logged : e.at >= now - Window[e.level] => e \in db

\* A month has a row only when it is over.
RowsClosed == \A m \in Months, l \in Levels : counts[<<m, l>>] # 0 => First[m + 1] <= now

Counted ==
    /\ TypeOK /\ IsFiniteSet(logged)
    /\ NotAhead /\ YoungKept /\ RowsClosed
    /\ RowsAreExact /\ MonthsAreCounted

-----------------------------------------------------------------------------
\* The calendar, in the form the steps below use.
LEMMA Calendar ==
    ASSUME NEW m \in Months
    PROVE  /\ m \in Nat
           /\ First[m] \in Nat /\ First[m + 1] \in Nat /\ First[m + 2] \in Nat
           /\ First[m] < First[m + 1] /\ First[m + 1] < First[m + 2]
BY RollupConstants

\* The counts are numbers, whatever was purged.
LEMMA CountIsNat ==
    ASSUME TypeOK, IsFiniteSet(logged), NEW m, NEW l
    PROVE  /\ Count(m, l) \in Nat
           /\ Count(m, l) = 0 <=> Of(db, m, l) = {}
<1>1. Of(db, m, l) \subseteq logged
  BY DEF TypeOK, Of
<1>2. IsFiniteSet(Of(db, m, l))
  BY <1>1, FS_Subset
<1> QED
  BY <1>2, FS_CardinalityType, FS_EmptySet DEF Count

\* A job of the next month still finds every event of a level that is kept long enough.
LEMMA NothingMissing ==
    ASSUME Counted, NEW m \in Months, NEW l \in Levels, LongKept(l), InMonth(m + 1, now)
    PROVE  Of(db, m, l) = Of(logged, m, l)
<1>1. First[m] \in Nat /\ First[m + 1] \in Nat /\ First[m + 2] \in Nat
  BY Calendar
<1>0. (m + 1) + 1 = m + 2
  BY Calendar
<1>2. now \in Nat /\ now < First[m + 2]
  <2>1. now < First[m + 2]
    BY <1>0 DEF InMonth
  <2> QED
    BY <2>1, RollupConstants DEF Counted, TypeOK, Hours
<1>3. Window[l] \in Nat /\ Window[l] >= First[m + 2] - First[m]
  BY RollupConstants DEF LongKept
<1>4. ASSUME NEW e \in Of(logged, m, l)
      PROVE  e \in db
  <2>1. e \in logged /\ e.level = l /\ First[m] <= e.at
    BY DEF Of, InMonth
  <2>2. e.at \in Nat
    BY <2>1, RollupConstants DEF Counted, TypeOK, Event, Hours
  <2>3. e.at >= now - Window[e.level]
    BY <1>1, <1>2, <1>3, <2>1, <2>2
  <2> QED
    BY <2>1, <2>3 DEF Counted, YoungKept
<1>5. db \subseteq logged
  BY DEF Counted, TypeOK
<1> QED
  BY <1>4, <1>5 DEF Of

-----------------------------------------------------------------------------
\* What RollMonth leaves in a row of a level that is kept long enough.
LEMMA RowAfterRoll ==
    ASSUME Counted, NEW done \in SUBSET Levels, RollMonth(done),
           NEW m \in Months, NEW l \in Levels
    PROVE  /\ counts'[<<m, l>>] \in Nat
           /\ ~InMonth(m + 1, now) \/ l \notin done => counts'[<<m, l>>] = counts[<<m, l>>]
           /\ counts'[<<m, l>>] # 0 => First[m + 1] <= now
           /\ LongKept(l) /\ counts'[<<m, l>>] # 0 =>
                counts'[<<m, l>>] = Cardinality(Of(logged, m, l))
           /\ LongKept(l) /\ InMonth(m + 1, now) /\ l \in done =>
                counts'[<<m, l>>] = Cardinality(Of(logged, m, l))
<1> DEFINE p == <<m, l>>
           rolls == InMonth(m + 1, now) /\ l \in done /\ Count(m, l) > 0
<1>1. p \in Months \X Levels /\ p[1] = m /\ p[2] = l
  OBVIOUS
<1>2. counts'[p] = IF rolls THEN Count(m, l) ELSE counts[p]
  BY <1>1 DEF RollMonth
<1>3. counts[p] \in Nat
  BY <1>1 DEF Counted, TypeOK
<1>4. /\ Count(m, l) \in Nat
      /\ Count(m, l) = 0 <=> Of(db, m, l) = {}
  BY CountIsNat DEF Counted
<1>5. counts[p] # 0 => First[m + 1] <= now
  BY DEF Counted, RowsClosed
<1>6. LongKept(l) /\ counts[p] # 0 => counts[p] = Cardinality(Of(logged, m, l))
  BY DEF Counted, RowsAreExact
<1>7. LongKept(l) /\ InMonth(m + 1, now) => Count(m, l) = Cardinality(Of(logged, m, l))
  BY NothingMissing DEF Count
<1>8. InMonth(m + 1, now) => First[m + 1] <= now
  BY DEF InMonth
<1> HIDE DEF p
<1>9. CASE rolls
  BY <1>2, <1>4, <1>7, <1>8, <1>9 DEF p
<1>10. CASE ~rolls
  <2>1. counts'[p] = counts[p]
    BY <1>2, <1>10
  <2>2. ASSUME LongKept(l), InMonth(m + 1, now), l \in done
        PROVE  counts'[p] = Cardinality(Of(logged, m, l))
    <3>1. Count(m, l) = 0
      BY <1>4, <1>10, <2>2
    <3>2. Cardinality(Of(logged, m, l)) = 0
      BY <1>7, <2>2, <3>1
    <3> QED
      BY <1>3, <1>6, <2>1, <2>2, <3>2
  <2> QED
    BY <1>3, <1>5, <1>6, <2>1, <2>2 DEF p
<1> QED
  BY <1>9, <1>10

\* Any step that may rewrite rows but leaves the events and the clock.
LEMMA RowsStay ==
    ASSUME Counted, NEW done \in SUBSET Levels, RollMonth(done), TypeOK',
           UNCHANGED <<now, logged, db>>,
           \/ due' = due /\ outages' = outages
           \/ due' = due \ {"monthly"} /\ outages' = outages /\ done = Levels
           \/ due' = due \ {"monthly"} /\ outages' = outages \cup {now}
    PROVE  Counted'
<1>1. IsFiniteSet(logged)' /\ NotAhead' /\ YoungKept'
  BY DEF Counted, NotAhead, YoungKept
<1>2. RowsClosed'
  BY RowAfterRoll DEF RowsClosed
<1>3. RowsAreExact'
  <2> SUFFICES ASSUME NEW m \in Months, NEW l \in Levels, LongKept(l), counts'[<<m, l>>] # 0
               PROVE  counts'[<<m, l>>] = Cardinality(Of(logged, m, l))
    BY DEF RowsAreExact, LongKept, Of
  <2> QED
    BY RowAfterRoll
<1>4. MonthsAreCounted'
  <2> SUFFICES ASSUME NEW m \in Months, NEW l \in Levels, LongKept(l),
                      First[m + 1] <= now, First[m + 1] \notin outages',
                      First[m + 1] = now => "monthly" \notin due'
               PROVE  counts'[<<m, l>>] = Cardinality(Of(logged, m, l))
    BY DEF MonthsAreCounted, LongKept, Of
  <2>1. now \in Nat
    BY RollupConstants DEF Counted, TypeOK, Hours
  <2>2. First[m + 1] \in Nat /\ First[m + 2] \in Nat /\ First[m + 1] < First[m + 2] /\ m \in Nat
    BY Calendar
  <2>3. First[m + 1] \notin outages
    OBVIOUS
  <2>4. CASE First[m + 1] = now /\ "monthly" \in due
    <3>1. done = Levels
      BY <2>4
    <3>2. InMonth(m + 1, now)
      BY <2>1, <2>2, <2>4 DEF InMonth
    <3> QED
      BY <3>1, <3>2, RowAfterRoll
  <2>5. CASE ~(First[m + 1] = now /\ "monthly" \in due)
    <3>1. counts[<<m, l>>] = Cardinality(Of(logged, m, l))
      BY <2>3, <2>5 DEF Counted, MonthsAreCounted
    <3> QED
      BY <3>1, RowAfterRoll
  <2> QED
    BY <2>4, <2>5
<1> QED
  BY <1>1, <1>2, <1>3, <1>4 DEF Counted

-----------------------------------------------------------------------------
\* Every action keeps the types.
LEMMA TypeStep ==
    ASSUME Counted, [Next]_rollVars
    PROVE  TypeOK'
<1> USE DEF Counted, TypeOK
<1>1. ASSUME NEW l \in Levels, Log(l) PROVE TypeOK'
  BY <1>1 DEF Log, Event
<1>2. CASE HourlyTick
  BY <1>2 DEF HourlyTick, RollHour, Fails
<1>3. CASE DailyTick
  <2>1. due' \subseteq Jobs /\ outages' \subseteq Hours
    BY <1>3 DEF DailyTick, Fails
  <2>2. daily' \in [Days -> SUBSET Hours]
    BY <1>3 DEF DailyTick, RollDay
  <2>3. readings' \subseteq Hours /\ hourly' \subseteq Hours
    BY <1>3 DEF DailyTick, Purge
  <2> QED
    BY <1>3, <2>1, <2>2, <2>3 DEF DailyTick
<1>4. ASSUME NEW done \in SUBSET Levels, RollMonth(done)
      PROVE  counts' \in [Months \X Levels -> Nat]
  <2>1. \A m \in Months, l \in Levels : Count(m, l) \in Nat
    BY CountIsNat
  <2> QED
    BY <1>4, <2>1 DEF RollMonth
<1>5. CASE MonthlyTick
  <2>1. \E done \in SUBSET Levels : RollMonth(done)
    BY <1>5 DEF MonthlyTick
  <2>2. counts' \in [Months \X Levels -> Nat]
    BY <1>4, <2>1
  <2> QED
    BY <1>5, <2>2 DEF MonthlyTick, Fails
<1>6. CASE RetentionTick
  BY <1>6 DEF RetentionTick, Retain
<1>7. CASE OnRequest
  <2>1. UNCHANGED <<now, up, due, logged, readings, outages>>
    BY <1>7 DEF OnRequest
  <2>2. CASE RollHour /\ UNCHANGED <<db, counts, daily>>
    BY <2>1, <2>2 DEF RollHour
  <2>3. CASE RollDay /\ UNCHANGED <<db, counts, hourly>>
    BY <2>1, <2>3 DEF RollDay
  <2>4. CASE \E done \in SUBSET Levels : RollMonth(done) /\ UNCHANGED <<db, hourly, daily>>
    BY <1>4, <2>1, <2>4
  <2>5. CASE \E done \in SUBSET Levels : Retain(done) /\ UNCHANGED <<counts, hourly, daily>>
    BY <2>1, <2>5 DEF Retain
  <2> QED
    BY <1>7, <2>2, <2>3, <2>4, <2>5 DEF OnRequest
<1>8. CASE Tick
  <2>1. now + 1 \in Hours
    BY <1>8, RollupConstants DEF Tick, Hours
  <2>2. Due(now + 1) \subseteq Jobs
    BY DEF Due, Jobs
  <2> QED
    BY <1>8, <2>1, <2>2 DEF Tick
<1>9. CASE Stop \/ Start
  BY <1>9 DEF Stop, Start
<1>10. CASE UNCHANGED rollVars
  BY <1>10 DEF rollVars
<1> QED
  BY <1>1, <1>2, <1>3, <1>5, <1>6, <1>7, <1>8, <1>9, <1>10 DEF Next

\* A step that leaves the events, the rows and the clock alone, and takes no monthly job
\* off the list without an outage.
LEMMA ElsewhereStep ==
    ASSUME Counted, TypeOK', UNCHANGED <<now, logged, counts>>,
           \A e \in db : e.at >= now - Window[e.level] => e \in db',
           \/ "monthly" \in due => "monthly" \in due'
           \/ now \in outages',
           outages \subseteq outages'
    PROVE  Counted'
<1>1. IsFiniteSet(logged)' /\ NotAhead' /\ YoungKept'
  BY DEF Counted, NotAhead, YoungKept
<1>2. RowsClosed'
  BY DEF Counted, RowsClosed
<1>3. RowsAreExact'
  BY DEF Counted, RowsAreExact, LongKept, Of
<1>4. MonthsAreCounted'
  <2> SUFFICES ASSUME NEW m \in Months, NEW l \in Levels, LongKept(l),
                      First[m + 1] <= now, First[m + 1] \notin outages',
                      First[m + 1] = now => "monthly" \notin due'
               PROVE  counts[<<m, l>>] = Cardinality(Of(logged, m, l))
    BY DEF MonthsAreCounted, LongKept, Of
  <2> QED
    BY DEF Counted, MonthsAreCounted
<1> QED
  BY <1>1, <1>2, <1>3, <1>4 DEF Counted

\* An event that comes in now is of no month that is over.
LEMMA LogStep ==
    ASSUME Counted, TypeOK', NEW k \in Levels, Log(k)
    PROVE  Counted'
<1> DEFINE new == [level |-> k, at |-> now]
<1>1. /\ logged' = logged \cup {new} /\ db' = db \cup {new}
      /\ UNCHANGED <<now, due, counts, outages>>
  BY DEF Log
<1>2. now \in Nat
  BY RollupConstants DEF Counted, TypeOK, Hours
<1>3. IsFiniteSet(logged)'
  BY <1>1, FS_AddElement DEF Counted
<1>4. NotAhead' /\ YoungKept'
  BY <1>1, <1>2 DEF Counted, NotAhead, YoungKept
<1>5. RowsClosed'
  BY <1>1 DEF Counted, RowsClosed
<1>6. ASSUME NEW m \in Months, NEW l \in Levels, First[m + 1] <= now
      PROVE  Of(logged, m, l)' = Of(logged, m, l)
  <2>1. First[m + 1] \in Nat
    BY Calendar
  <2>2. ~InMonth(m, new.at)
    BY <1>2, <1>6, <2>1 DEF InMonth
  <2> QED
    BY <1>1, <2>2 DEF Of
<1>7. RowsAreExact'
  BY <1>1, <1>6 DEF Counted, RowsAreExact, RowsClosed, LongKept
<1>8. MonthsAreCounted'
  BY <1>1, <1>6 DEF Counted, MonthsAreCounted, LongKept
<1> QED
  BY <1>3, <1>4, <1>5, <1>7, <1>8 DEF Counted

\* When the hour passes and a month begins, its job is due or the process is down.
LEMMA TickStep ==
    ASSUME Counted, TypeOK', Tick
    PROVE  Counted'
<1>1. now \in Nat /\ now' = now + 1 /\ UNCHANGED <<logged, db, counts>>
  BY RollupConstants DEF Counted, TypeOK, Hours, Tick
<1>2. \A e \in logged : e.at \in Nat /\ Window[e.level] \in Nat
  BY RollupConstants DEF Counted, TypeOK, Event, Hours
<1>3. IsFiniteSet(logged)' /\ NotAhead' /\ YoungKept'
  BY <1>1, <1>2 DEF Counted, NotAhead, YoungKept
<1>4. \A m \in Months : First[m + 1] \in Nat
  BY Calendar
<1>5. RowsClosed'
  BY <1>1, <1>4 DEF Counted, RowsClosed
<1>6. RowsAreExact'
  BY <1>1 DEF Counted, RowsAreExact, LongKept, Of
<1>7. MonthsAreCounted'
  <2> SUFFICES ASSUME NEW m \in Months, NEW l \in Levels, LongKept(l),
                      First[m + 1] <= now', First[m + 1] \notin outages',
                      First[m + 1] = now' => "monthly" \notin due'
               PROVE  counts[<<m, l>>] = Cardinality(Of(logged, m, l))
    BY <1>1 DEF MonthsAreCounted, LongKept, Of
  <2>1. First[m + 1] # now'
    <3> SUFFICES ASSUME First[m + 1] = now' PROVE FALSE
      OBVIOUS
    <3>1. CASE up
      <4>1. due' = Due(now + 1)
        BY <3>1 DEF Tick
      <4>2. "monthly" \in Due(now + 1)
        BY <1>1 DEF Due
      <4> QED
        BY <4>1, <4>2
    <3>2. CASE ~up
      BY <1>1, <3>2 DEF Tick
    <3> QED
      BY <3>1, <3>2
  <2>2. First[m + 1] <= now
    BY <1>1, <1>4, <2>1
  <2>3. due = {} /\ First[m + 1] \notin outages
    BY DEF Tick
  <2> QED
    BY <2>2, <2>3 DEF Counted, MonthsAreCounted
<1> QED
  BY <1>3, <1>5, <1>6, <1>7 DEF Counted

-----------------------------------------------------------------------------
\* Nothing has been logged, counted or gone by at the start.
LEMMA CountedInit == Init => Counted
<1> SUFFICES ASSUME Init PROVE Counted
  OBVIOUS
<1>1. TypeOK
  BY RollupConstants DEF Init, TypeOK, Hours
<1>2. IsFiniteSet(logged) /\ NotAhead /\ YoungKept
  BY FS_EmptySet DEF Init, NotAhead, YoungKept
<1>3. \A m \in Months, l \in Levels : counts[<<m, l>>] = 0
  BY DEF Init
<1>4. RowsClosed /\ RowsAreExact
  BY <1>3 DEF RowsClosed, RowsAreExact
<1>5. MonthsAreCounted
  <2>1. \A m \in Months : ~(First[m + 1] <= now)
    BY Calendar DEF Init
  <2> QED
    BY <2>1 DEF MonthsAreCounted
<1> QED
  BY <1>1, <1>2, <1>4, <1>5 DEF Counted

LEMMA CountedStep == Counted /\ [Next]_rollVars => Counted'
<1> SUFFICES ASSUME Counted, [Next]_rollVars PROVE Counted'
  OBVIOUS
<1>1. TypeOK'
  BY TypeStep
<1>2. ASSUME NEW l \in Levels, Log(l) PROVE Counted'
  BY <1>1, <1>2, LogStep
<1>3. CASE HourlyTick
  BY <1>1, <1>3, ElsewhereStep DEF HourlyTick, Fails
<1>4. CASE DailyTick
  BY <1>1, <1>4, ElsewhereStep DEF DailyTick, Fails
<1>5. CASE MonthlyTick
  <2>1. UNCHANGED <<now, logged, db>> /\ due' = due \ {"monthly"}
    BY <1>5 DEF MonthlyTick
  <2>2. CASE RollMonth(Levels) /\ UNCHANGED outages
    BY <1>1, <2>1, <2>2, RowsStay
  <2>3. CASE Fails /\ \E done \in SUBSET Levels : RollMonth(done)
    <3>1. PICK done \in SUBSET Levels : RollMonth(done)
      BY <2>3
    <3>2. outages' = outages \cup {now}
      BY <2>3 DEF Fails
    <3> QED
      BY <1>1, <2>1, <3>1, <3>2, RowsStay
  <2> QED
    BY <1>5, <2>2, <2>3 DEF MonthlyTick
<1>6. ASSUME NEW done \in SUBSET Levels, Retain(done)
      PROVE  \A e \in db : e.at >= now - Window[e.level] => e \in db'
  BY <1>6 DEF Retain
<1>7. CASE RetentionTick
  BY <1>1, <1>6, <1>7, ElsewhereStep DEF RetentionTick
<1>8. CASE OnRequest
  <2>1. UNCHANGED <<now, up, due, logged, readings, outages>>
    BY <1>8 DEF OnRequest
  <2>2. CASE UNCHANGED <<db, counts>>
    BY <1>1, <2>1, <2>2, ElsewhereStep
  <2>3. ASSUME NEW done \in SUBSET Levels, RollMonth(done), UNCHANGED db
        PROVE  Counted'
    BY <1>1, <2>1, <2>3, RowsStay
  <2>4. ASSUME NEW done \in SUBSET Levels, Retain(done), UNCHANGED counts
        PROVE  Counted'
    BY <1>1, <1>6, <2>1, <2>4, ElsewhereStep
  <2> QED
    BY <1>8, <2>2, <2>3, <2>4 DEF OnRequest
<1>9. CASE Tick
  BY <1>1, <1>9, TickStep
<1>10. CASE Stop
  BY <1>1, <1>10, ElsewhereStep DEF Stop
<1>11. CASE Start
  BY <1>1, <1>11, ElsewhereStep DEF Start
<1>12. CASE UNCHANGED rollVars
  BY <1>1, <1>12, ElsewhereStep DEF rollVars
<1> QED
  BY <1>2, <1>3, <1>4, <1>5, <1>7, <1>8, <1>9, <1>10, <1>11, <1>12 DEF Next

\* The invariant holds in every behaviour.
LEMMA AlwaysCounted == Spec => []Counted
BY CountedInit, CountedStep, PTL DEF Spec

\* The tables, the clock and the counts keep their types.
THEOREM TypeCorrect == Spec => []TypeOK
<1>1. Counted => TypeOK
  BY DEF Counted
<1> QED
  BY <1>1, AlwaysCounted, PTL

\* Of levels kept for two months, RunMonthlyRollup writes the number of events that were
\* logged, whenever and however often it runs.
THEOREM RowsExact == Spec => []RowsAreExact
<1>1. Counted => RowsAreExact
  BY DEF Counted
<1> QED
  BY <1>1, AlwaysCounted, PTL

\* StartMonthlyRollup leaves the exact row of every month that ends while it runs.
THEOREM EveryMonthCounted == Spec => []MonthsAreCounted
<1>1. Counted => MonthsAreCounted
  BY DEF Counted
<1> QED
  BY <1>1, AlwaysCounted, PTL

-----------------------------------------------------------------------------
(* The rows of days *)

\* What the code keeps of hourly rows reaches beyond a day (90 days).
KeptADay == HourlyKept >= HoursPerDay

\* Division with remainder, for whole days.
LEMMA DayOfHour ==
    ASSUME NEW n \in Nat \ {0}, NEW h \in Nat
    PROVE  /\ h \div n \in Nat
           /\ (h \div n) * n <= h /\ h < (h \div n) * n + n
           /\ h % n = h - (h \div n) * n
  BY SMTT(30)

LEMMA HourInDay ==
    ASSUME NEW n \in Nat \ {0}, NEW h \in Nat, NEW d \in Nat, d * n <= h, h < d * n + n
    PROVE  h \div n = d
  BY SMTT(30)

LEMMA LaterDay ==
    ASSUME NEW n \in Nat \ {0}, NEW d \in Nat, NEW e \in Nat, d < e
    PROVE  d * n + n <= e * n
  BY SMTT(30)

LEMMA NextDay == ASSUME NEW n \in Nat, NEW d \in Nat PROVE (d + 1) * n = d * n + n
  BY SMTT(30)

LEMMA WholeDay ==
    ASSUME NEW n \in Nat \ {0}, NEW h \in Nat, NEW d \in Nat, d * n = h
    PROVE  h % n = 0
<1>1. h \div n = d
  BY HourInDay
<1>2. h % n = h - (h \div n) * n
  BY DayOfHour
<1> QED BY <1>1, <1>2

\* The midnight that began this day.
Midnight == (now \div HoursPerDay) * HoursPerDay

LEMMA Clock ==
    ASSUME TypeOK
    PROVE  /\ now \in Nat /\ MaxHour \in Nat /\ now <= MaxHour /\ HoursPerDay \in Nat \ {0}
           /\ now \div HoursPerDay \in Nat
           /\ Midnight \in Nat /\ Midnight <= now /\ now < Midnight + HoursPerDay
           /\ now % HoursPerDay = 0 => now = Midnight
<1>1. now \in Nat /\ MaxHour \in Nat /\ now <= MaxHour /\ HoursPerDay \in Nat \ {0}
  BY RollupConstants DEF TypeOK, Hours
<1>2. /\ now \div HoursPerDay \in Nat
      /\ (now \div HoursPerDay) * HoursPerDay <= now
      /\ now < (now \div HoursPerDay) * HoursPerDay + HoursPerDay
      /\ now % HoursPerDay = now - (now \div HoursPerDay) * HoursPerDay
  BY <1>1, DayOfHour
<1>3. (now \div HoursPerDay) * HoursPerDay \in Nat
  BY <1>1, <1>2
<1> QED BY <1>1, <1>2, <1>3 DEF Midnight

\* A process that does not run is in an outage, and the daily job is only due at
\* midnight.
DownIsOutage == ~up => now \in outages
DueAtMidnight == "daily" \in due => now % HoursPerDay = 0

\* The readings of the hour before this one are there when the hour's job comes.
LastHourRead == now > 0 /\ now - 1 \notin outages => now - 1 \in readings

\* The hourly rows of yesterday and today are there, as far as their jobs have run.
HoursRolled ==
    \A h \in Hours :
        (/\ h + 1 < now \/ (h + 1 = now /\ "hourly" \notin due)
         /\ h \notin outages /\ h + 1 \notin outages
         /\ h >= Midnight - HoursPerDay) => h \in hourly

DailyInv == DownIsOutage /\ DueAtMidnight /\ LastHourRead /\ HoursRolled /\ DailyNearlyWhole

Undisturbed(d) == outages \cap (HoursOf(d) \cup {(d + 1) * HoursPerDay}) = {}
NearlyAll(d)   == HoursOf(d) \ {(d + 1) * HoursPerDay - 1}

\* The job of a day that saw no outage finds all but the last of its hours.
LEMMA RollDayNearly ==
    ASSUME TypeOK, HoursRolled, RollDay, NEW d \in Days
    PROVE  /\ d + 1 # now \div HoursPerDay => daily'[d] = daily[d]
           /\ d + 1 = now \div HoursPerDay /\ Undisturbed(d) => NearlyAll(d) \subseteq daily'[d]
<1>0. /\ now \in Nat /\ MaxHour \in Nat /\ now <= MaxHour /\ HoursPerDay \in Nat \ {0}
      /\ now \div HoursPerDay \in Nat
      /\ Midnight \in Nat /\ Midnight <= now /\ now < Midnight + HoursPerDay
  BY Clock
<1>d. d \in Nat
  <2>1. MaxHour \div HoursPerDay \in Nat
    BY <1>0, DayOfHour
  <2> QED BY <2>1 DEF Days
<1> DEFINE e == now \div HoursPerDay - 1
<1>1. daily' = IF hourly \cap HoursOf(e) # {}
               THEN [daily EXCEPT ![e] = hourly \cap HoursOf(e)] ELSE daily
  BY DEF RollDay
<1>2. daily \in [Days -> SUBSET Hours]
  BY DEF TypeOK
<1>3. CASE d # e
  BY <1>0, <1>1, <1>2, <1>3, <1>d
<1>4. CASE d = e
  <2>0. d + 1 = now \div HoursPerDay
    BY <1>0, <1>4
  <2>1. daily'[d] = IF hourly \cap HoursOf(d) # {} THEN hourly \cap HoursOf(d) ELSE daily[d]
    BY <1>1, <1>2, <1>4
  <2>2. ASSUME Undisturbed(d), NEW h \in NearlyAll(d) PROVE h \in hourly \cap HoursOf(d)
    <3>1. h \in HoursOf(d) /\ h \in Nat /\ h # (d + 1) * HoursPerDay - 1
          /\ h \div HoursPerDay = d
      BY <1>0, <2>2 DEF NearlyAll, HoursOf, Hours
    <3>2. Midnight = d * HoursPerDay + HoursPerDay /\ d * HoursPerDay \in Nat
          /\ (d + 1) * HoursPerDay = d * HoursPerDay + HoursPerDay
      BY <1>0, <1>d, <2>0, NextDay DEF Midnight
    <3>3. d * HoursPerDay <= h /\ h + 1 < d * HoursPerDay + HoursPerDay
      <4>1. d * HoursPerDay <= h /\ h < d * HoursPerDay + HoursPerDay
        BY <1>0, <3>1, DayOfHour
      <4>2. h # d * HoursPerDay + HoursPerDay - 1
        <5>1. PICK last : last = (d + 1) * HoursPerDay
          OBVIOUS
        <5>2. last = d * HoursPerDay + HoursPerDay
          BY <3>2, <5>1
        <5>3. h # last - 1
          BY <3>1, <5>1
        <5>4. PICK first : first = d * HoursPerDay
          OBVIOUS
        <5>5. first \in Int /\ HoursPerDay \in Int /\ h \in Int
          BY <1>0, <3>1, <3>2, <5>4
        <5>6. h # first + HoursPerDay - 1
          BY ONLY <5>2, <5>3, <5>4, <5>5
        <5> QED BY ONLY <5>4, <5>6
      <4> QED BY <1>0, <3>1, <3>2, <4>1, <4>2
    <3>4. (h + 1) \div HoursPerDay = d
      <4>1. h + 1 \in Nat /\ d * HoursPerDay <= h + 1
        BY <3>1, <3>2, <3>3
      <4> QED BY <1>0, <1>d, <3>3, <4>1, HourInDay
    <3>5. h \in Hours /\ h + 1 \in Hours /\ h + 1 < now /\ h >= Midnight - HoursPerDay
      BY <1>0, <3>1, <3>2, <3>3 DEF Hours
    <3>6. h + 1 \in HoursOf(d)
      BY <3>4, <3>5 DEF HoursOf
    <3>7. h \notin outages /\ h + 1 \notin outages
      BY <2>2, <3>1, <3>6 DEF Undisturbed
    <3> QED BY <3>1, <3>5, <3>7 DEF HoursRolled
  <2> QED BY <2>0, <2>1, <2>2
<1> QED BY <1>3, <1>4

\* What keeps the invariant while the clock stands.
LEMMA DaysKept ==
    ASSUME DailyNearlyWhole, now' = now, outages \subseteq outages',
           \A d \in Days :
               \/ d + 1 = now \div HoursPerDay /\ (Undisturbed(d) => NearlyAll(d) \subseteq daily'[d])
               \/ /\ daily'[d] = daily[d]
                  /\ \/ (d + 1) * HoursPerDay # now
                     \/ "daily" \in due => "daily" \in due'
                     \/ now \in outages'
    PROVE  DailyNearlyWhole'
<1> SUFFICES ASSUME NEW d \in Days, DayIsOver(d)',
                    outages' \cap (HoursOf(d) \cup {(d + 1) * HoursPerDay}) = {}
             PROVE  NearlyAll(d) \subseteq daily'[d]
  BY DEF DailyNearlyWhole, NearlyAll, HoursOf
<1>1. Undisturbed(d)
  BY DEF Undisturbed
<1>2. CASE daily'[d] = daily[d] /\ \/ (d + 1) * HoursPerDay # now
                                   \/ "daily" \in due => "daily" \in due'
                                   \/ now \in outages'
  <2>1. DayIsOver(d)
    BY <1>2 DEF DayIsOver
  <2> QED BY <1>1, <1>2, <2>1 DEF DailyNearlyWhole, NearlyAll, Undisturbed
<1> QED BY <1>1, <1>2

LEMMA HoursKept ==
    ASSUME TypeOK, HoursRolled, now' = now, outages \subseteq outages',
           \/ "hourly" \in due => "hourly" \in due'
           \/ now \in outages'
           \/ now > 0 /\ now - 1 \notin outages => now - 1 \in hourly',
           \A h \in hourly : h >= Midnight - HoursPerDay => h \in hourly'
    PROVE  HoursRolled'
<1> SUFFICES ASSUME NEW h \in Hours, h + 1 < now \/ (h + 1 = now /\ "hourly" \notin due'),
                    h \notin outages', h + 1 \notin outages', h >= Midnight - HoursPerDay
             PROVE  h \in hourly'
  BY DEF HoursRolled, Midnight
<1>1. h \in Nat /\ now \in Nat
  BY RollupConstants DEF TypeOK, Hours
<1>2. CASE h + 1 < now \/ "hourly" \notin due
  <2>1. h \in hourly
    BY <1>2 DEF HoursRolled
  <2> QED BY <2>1
<1>3. CASE h + 1 = now /\ "hourly" \in due
  <2>1. now > 0 /\ now - 1 = h
    BY <1>1, <1>3
  <2>2. "hourly" \notin due' /\ now \notin outages'
    BY <1>1, <1>3
  <2>3. now - 1 \notin outages
    BY <2>1
  <2> QED BY <1>3, <2>1, <2>2, <2>3
<1> QED BY <1>2, <1>3

\* Steps of the process that are about events, and its start.
LEMMA ElsewhereDaily ==
    ASSUME TypeOK, DailyInv, UNCHANGED <<now, readings, hourly, daily>>,
           outages \subseteq outages', due' \subseteq due,
           due \cap {"hourly", "daily"} \subseteq due',
           up => up' \/ now \in outages', up' = up \/ up'
    PROVE  DailyInv'
<1>1. DownIsOutage' /\ DueAtMidnight' /\ LastHourRead'
  BY DEF DailyInv, DownIsOutage, DueAtMidnight, LastHourRead
<1>2. HoursRolled'
  BY HoursKept DEF DailyInv
<1>3. DailyNearlyWhole'
  BY DaysKept DEF DailyInv
<1> QED BY <1>1, <1>2, <1>3 DEF DailyInv

LEMMA RollHourDaily ==
    ASSUME TypeOK, DailyInv, RollHour, UNCHANGED <<now, up, readings, daily, outages>>,
           due' = due \/ due' = due \ {"hourly"}
    PROVE  DailyInv'
<1>1. DownIsOutage' /\ DueAtMidnight' /\ LastHourRead'
  BY DEF DailyInv, DownIsOutage, DueAtMidnight, LastHourRead
<1>2. HoursRolled'
  <2>1. now > 0 /\ now - 1 \notin outages => now - 1 \in hourly'
    BY DEF RollHour, DailyInv, LastHourRead
  <2>2. hourly \subseteq hourly'
    BY DEF RollHour
  <2> QED BY <2>1, <2>2, HoursKept DEF DailyInv
<1>3. DailyNearlyWhole'
  BY DaysKept DEF DailyInv
<1> QED BY <1>1, <1>2, <1>3 DEF DailyInv

\* A day that ended in this hour is the one the job looks at.
LEMMA EndsNow ==
    ASSUME TypeOK, NEW d \in Days, (d + 1) * HoursPerDay = now
    PROVE  d + 1 = now \div HoursPerDay
<1>1. now \in Nat /\ MaxHour \in Nat /\ HoursPerDay \in Nat \ {0}
  BY Clock
<1>2. d + 1 \in Nat
  <2>1. MaxHour \div HoursPerDay \in Nat
    BY <1>1, DayOfHour
  <2> QED BY <2>1 DEF Days
<1>3. (d + 1) * HoursPerDay <= now /\ now < (d + 1) * HoursPerDay + HoursPerDay
  BY <1>1
<1> QED BY <1>1, <1>2, <1>3, HourInDay

LEMMA DailyTickDaily ==
    ASSUME KeptADay, TypeOK, DailyInv, DailyTick PROVE DailyInv'
<1>0. /\ now \in Nat /\ HoursPerDay \in Nat \ {0} /\ now = Midnight
      /\ {ReadingsKept, HourlyKept} \subseteq Nat \ {0}
  BY Clock, RollupConstants DEF DailyTick, DailyInv, DueAtMidnight
<1>1. /\ now' = now /\ up' = up /\ due' = due \ {"daily"}
      /\ outages \subseteq outages'
      /\ \/ RollDay
         \/ daily' = daily /\ now \in outages'
  BY DEF DailyTick, Fails
<1>2. /\ \A h \in readings : h >= now - ReadingsKept => h \in readings'
      /\ \A h \in hourly : h >= now - HourlyKept => h \in hourly'
  BY DEF DailyTick, Purge
<1>3. DownIsOutage' /\ DueAtMidnight'
  BY <1>1 DEF DailyInv, DownIsOutage, DueAtMidnight
<1>4. LastHourRead'
  <2>1. now - 1 >= now - ReadingsKept
    BY <1>0
  <2> QED BY <1>1, <1>2, <2>1 DEF DailyInv, LastHourRead
<1>5. HoursRolled'
  <2>1. ASSUME NEW h \in hourly, h >= Midnight - HoursPerDay PROVE h \in hourly'
    <3>1. h \in Nat
      BY RollupConstants DEF TypeOK, Hours
    <3>2. h >= now - HourlyKept
      BY <1>0, <2>1, <3>1 DEF KeptADay
    <3> QED BY <1>2, <3>2
  <2> QED BY <1>1, <2>1, HoursKept DEF DailyInv
<1>6. DailyNearlyWhole'
  <2>1. CASE RollDay
    <3>1. ASSUME NEW d \in Days
          PROVE  \/ /\ d + 1 = now \div HoursPerDay
                    /\ Undisturbed(d) => NearlyAll(d) \subseteq daily'[d]
                 \/ daily'[d] = daily[d] /\ (d + 1) * HoursPerDay # now
      BY <2>1, RollDayNearly, EndsNow DEF DailyInv
    <3> QED BY <1>1, <3>1, DaysKept DEF DailyInv
  <2>2. CASE daily' = daily /\ now \in outages'
    BY <1>1, <2>2, DaysKept DEF DailyInv
  <2> QED BY <1>1, <2>1, <2>2
<1> QED BY <1>3, <1>4, <1>5, <1>6 DEF DailyInv

\* When the hour passes the jobs of the next one are due, or the process is down.
LEMMA TickDaily == ASSUME TypeOK, DailyInv, Tick PROVE DailyInv'
<1>0. /\ now \in Nat /\ HoursPerDay \in Nat \ {0} /\ MaxHour \in Nat
      /\ Midnight \in Nat /\ now \div HoursPerDay \in Nat
      /\ Midnight <= now /\ now < Midnight + HoursPerDay
  BY Clock
<1>1. /\ now' = now + 1 /\ due = {} /\ up' = up
      /\ UNCHANGED <<hourly, daily>> /\ outages \subseteq outages'
  BY DEF Tick
<1>u. up => /\ "hourly" \in due' /\ now \in readings'
            /\ "daily" \in due' <=> (now + 1) % HoursPerDay = 0
  BY DEF Tick, Due
<1>d. ~up => due' = {} /\ now + 1 \in outages' /\ now \in outages
  BY DEF Tick, DailyInv, DownIsOutage
<1>2. DownIsOutage' /\ DueAtMidnight'
  BY <1>1, <1>u, <1>d DEF DownIsOutage, DueAtMidnight
<1>3. LastHourRead'
  <2>1. now' - 1 = now
    BY <1>0, <1>1
  <2> QED BY <1>1, <1>u, <1>d, <2>1 DEF LastHourRead
<1>4. Midnight <= Midnight'
  <2>1. now + 1 \in Nat
    BY <1>0
  <2> DEFINE a == now \div HoursPerDay
             b == (now + 1) \div HoursPerDay
  <2>2. b \in Nat /\ a * HoursPerDay <= now
        /\ now + 1 < b * HoursPerDay + HoursPerDay
    BY <1>0, <2>1, DayOfHour
  <2>3. Midnight = a * HoursPerDay /\ Midnight' = b * HoursPerDay
    BY <1>1 DEF Midnight
  <2>4. a \in Nat
    BY <1>0
  <2> HIDE DEF a, b
  <2>5. a <= b
    <3> SUFFICES ASSUME b < a PROVE FALSE
      BY <2>2, <2>4
    <3>1. b * HoursPerDay + HoursPerDay <= a * HoursPerDay
      BY <1>0, <2>2, <2>4, LaterDay
    <3>2. b * HoursPerDay \in Nat /\ a * HoursPerDay \in Nat
      BY <1>0, <2>2, <2>4
    <3> QED BY <1>0, <2>2, <3>1, <3>2
  <2>6. CASE a = b
    BY <1>0, <2>3, <2>6
  <2>7. CASE a < b
    <3>1. a * HoursPerDay + HoursPerDay <= b * HoursPerDay
      BY <1>0, <2>2, <2>4, <2>7, LaterDay
    <3>2. b * HoursPerDay \in Nat /\ a * HoursPerDay \in Nat
      BY <1>0, <2>2, <2>4
    <3> QED BY <1>0, <2>3, <3>1, <3>2
  <2> QED BY <2>2, <2>4, <2>5, <2>6, <2>7
<1>5. HoursRolled'
  <2> SUFFICES ASSUME NEW h \in Hours,
                      h + 1 < now + 1 \/ (h + 1 = now + 1 /\ "hourly" \notin due'),
                      h \notin outages', h + 1 \notin outages',
                      h >= Midnight' - HoursPerDay
               PROVE  h \in hourly
    BY <1>1 DEF HoursRolled
  <2>0. h \in Nat /\ Midnight' \in Nat
    <3>1. now + 1 \in Nat
      BY <1>0
    <3>2. (now + 1) \div HoursPerDay \in Nat
      BY <1>0, <3>1, DayOfHour
    <3>3. Midnight' = ((now + 1) \div HoursPerDay) * HoursPerDay
      BY <1>1 DEF Midnight
    <3> QED BY <1>0, <3>2, <3>3 DEF Hours
  <2>1. h >= Midnight - HoursPerDay
    <3>1. PICK a, b : a = Midnight /\ b = Midnight'
      OBVIOUS
    <3>2. /\ a \in Nat /\ b \in Nat /\ h \in Nat /\ HoursPerDay \in Nat
          /\ a <= b /\ h >= b - HoursPerDay
      BY <1>0, <1>4, <2>0, <3>1
    <3>3. h >= a - HoursPerDay
      BY ONLY <3>2
    <3> QED BY <3>1, <3>3
  <2>2. CASE h + 1 < now + 1
    <3>1. h + 1 < now \/ h + 1 = now
      BY <1>0, <2>0, <2>2
    <3> QED BY <1>1, <2>1, <3>1 DEF DailyInv, HoursRolled
  <2>3. CASE h + 1 = now + 1 /\ "hourly" \notin due'
    BY <1>u, <1>d, <2>3
  <2> QED BY <2>2, <2>3
<1>6. DailyNearlyWhole'
  <2> SUFFICES ASSUME NEW d \in Days, DayIsOver(d)',
                      outages' \cap (HoursOf(d) \cup {(d + 1) * HoursPerDay}) = {}
               PROVE  NearlyAll(d) \subseteq daily[d]
    BY <1>1 DEF DailyNearlyWhole, NearlyAll, HoursOf
  <2>0. d \in Nat /\ (d + 1) * HoursPerDay \in Nat
    <3>1. MaxHour \div HoursPerDay \in Nat
      BY <1>0, DayOfHour
    <3> QED BY <1>0, <3>1 DEF Days
  <2>1. /\ (d + 1) * HoursPerDay <= now + 1
        /\ (d + 1) * HoursPerDay = now + 1 => "daily" \notin due'
    BY <1>1 DEF DayIsOver
  <2>2. (d + 1) * HoursPerDay # now + 1
    <3> SUFFICES ASSUME (d + 1) * HoursPerDay = now + 1 PROVE FALSE
      OBVIOUS
    <3>1. up
      BY <1>d
    <3>2. (now + 1) % HoursPerDay = 0
      <4>1. now + 1 \in Nat /\ d + 1 \in Nat
        BY <1>0, <2>0
      <4> QED BY <1>0, <4>1, WholeDay
    <3> QED BY <1>u, <2>1, <3>1, <3>2
  <2>3. (d + 1) * HoursPerDay <= now
    BY <1>0, <2>0, <2>1, <2>2
  <2>4. DayIsOver(d)
    BY <1>1, <2>3 DEF DayIsOver
  <2>5. Undisturbed(d)
    BY <1>1 DEF Undisturbed
  <2> QED BY <2>4, <2>5 DEF DailyInv, DailyNearlyWhole, NearlyAll, Undisturbed
<1> QED BY <1>2, <1>3, <1>5, <1>6 DEF DailyInv

\* A daily rollup on request only looks at a day that is over.
LEMMA RollDayDaily ==
    ASSUME TypeOK, DailyInv, RollDay,
           UNCHANGED <<now, up, due, readings, hourly, outages>>
    PROVE  DailyInv'
<1>1. DownIsOutage' /\ DueAtMidnight' /\ LastHourRead'
  BY DEF DailyInv, DownIsOutage, DueAtMidnight, LastHourRead
<1>2. HoursRolled'
  BY HoursKept DEF DailyInv
<1>3. ASSUME NEW d \in Days
      PROVE  \/ /\ d + 1 = now \div HoursPerDay
                /\ Undisturbed(d) => NearlyAll(d) \subseteq daily'[d]
             \/ daily'[d] = daily[d]
  BY RollDayNearly DEF DailyInv
<1>4. DailyNearlyWhole'
  BY <1>3, DaysKept DEF DailyInv
<1> QED BY <1>1, <1>2, <1>4 DEF DailyInv

LEMMA StopDaily == ASSUME TypeOK, DailyInv, Stop PROVE DailyInv'
<1>1. /\ now' = now /\ due' = {} /\ now \in outages' /\ outages \subseteq outages'
      /\ readings \subseteq readings' /\ UNCHANGED <<hourly, daily>>
  BY DEF Stop
<1>2. DownIsOutage' /\ DueAtMidnight' /\ LastHourRead'
  BY <1>1 DEF DailyInv, DownIsOutage, DueAtMidnight, LastHourRead
<1>3. HoursRolled'
  BY <1>1, HoursKept DEF DailyInv
<1>4. DailyNearlyWhole'
  BY <1>1, DaysKept DEF DailyInv
<1> QED BY <1>2, <1>3, <1>4 DEF DailyInv

LEMMA DailyStep == ASSUME KeptADay, TypeOK, DailyInv, [Next]_rollVars PROVE DailyInv'
<1>1. ASSUME NEW l \in Levels, Log(l) PROVE DailyInv'
  BY <1>1, ElsewhereDaily DEF Log
<1>2. CASE HourlyTick
  <2>1. CASE RollHour /\ UNCHANGED outages
    BY <1>2, <2>1, RollHourDaily DEF HourlyTick
  <2>2. CASE Fails /\ UNCHANGED hourly
    <3>1. /\ UNCHANGED <<now, up, readings, hourly, daily>> /\ due' = due \ {"hourly"}
          /\ outages \subseteq outages' /\ now \in outages'
      BY <1>2, <2>2 DEF HourlyTick, Fails
    <3>2. DownIsOutage' /\ DueAtMidnight' /\ LastHourRead'
      BY <3>1 DEF DailyInv, DownIsOutage, DueAtMidnight, LastHourRead
    <3>3. HoursRolled' /\ DailyNearlyWhole'
      BY <3>1, HoursKept, DaysKept DEF DailyInv
    <3> QED BY <3>2, <3>3 DEF DailyInv
  <2> QED BY <1>2, <2>1, <2>2 DEF HourlyTick
<1>3. CASE DailyTick
  BY <1>3, DailyTickDaily
<1>4. CASE MonthlyTick \/ RetentionTick
  BY <1>4, ElsewhereDaily DEF MonthlyTick, RetentionTick, Fails
<1>5. CASE OnRequest
  <2>1. UNCHANGED <<now, up, due, readings, outages>>
    BY <1>5 DEF OnRequest
  <2>2. \/ RollHour /\ UNCHANGED daily
        \/ RollDay /\ UNCHANGED hourly
        \/ UNCHANGED <<hourly, daily>>
    BY <1>5 DEF OnRequest
  <2> QED BY <2>1, <2>2, RollHourDaily, RollDayDaily, ElsewhereDaily
<1>6. CASE Tick
  BY <1>6, TickDaily
<1>7. CASE Stop
  BY <1>7, StopDaily
<1>8. CASE Start \/ UNCHANGED rollVars
  BY <1>8, ElsewhereDaily DEF Start, rollVars
<1> QED BY <1>1, <1>2, <1>3, <1>4, <1>5, <1>6, <1>7, <1>8 DEF Next

\* The daily row of a day without an outage misses at most the day's last hour, whose own
\* job is due in the same hour and may come later: whatever was asked for in between, the
\* purge of the same job included.
THEOREM DaysNearlyWhole == ASSUME KeptADay PROVE Spec => []DailyNearlyWhole
<1>1. Init => DailyInv
  <2> SUFFICES ASSUME Init PROVE DailyInv
    OBVIOUS
  <2>1. DownIsOutage /\ DueAtMidnight /\ LastHourRead
    BY DEF Init, DownIsOutage, DueAtMidnight, LastHourRead
  <2>2. HoursRolled
    BY RollupConstants DEF Init, HoursRolled, Hours
  <2>3. DailyNearlyWhole
    <3> SUFFICES ASSUME NEW d \in Days, DayIsOver(d) PROVE FALSE
      BY DEF DailyNearlyWhole
    <3>1. now = 0 /\ HoursPerDay \in Nat \ {0} /\ MaxHour \in Nat
      BY RollupConstants DEF Init
    <3>2. d \in Nat
      <4>1. MaxHour \div HoursPerDay \in Nat
        BY <3>1, DayOfHour
      <4> QED BY <4>1 DEF Days
    <3>3. (d + 1) * HoursPerDay = d * HoursPerDay + HoursPerDay /\ d * HoursPerDay \in Nat
      BY <3>1, <3>2, NextDay
    <3> QED BY <3>1, <3>3 DEF DayIsOver
  <2> QED BY <2>1, <2>2, <2>3 DEF DailyInv
<1>2. Counted => TypeOK
  BY DEF Counted
<1>3. TypeOK /\ DailyInv /\ [Next]_rollVars => DailyInv'
  BY DailyStep
<1>4. DailyInv => DailyNearlyWhole
  BY DEF DailyInv
<1> QED BY <1>1, <1>2, <1>3, <1>4, AlwaysCounted, PTL DEF Spec
=============================================================================

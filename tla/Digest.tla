--------------------------------- MODULE Digest ---------------------------------
(***************************************************************************)
(* The schedule of the digest mail: a job that runs at every full hour,    *)
(* the settings it reads, the label of the period it writes about, by the  *)
(* clock of the zone, and the window of time it makes of that label, which *)
(* is one of UTC, as are the times of the events.  Mail servers hang, the  *)
(* process restarts, the zone changes its hour, and users ask for a mail.  *)
(* A clock hour is one of HoursPerDay; days are those of the calendar.     *)
(***************************************************************************)
EXTENDS Integers

CONSTANTS
    HoursPerDay,
    Offsets,        \* bound: the hours the zone is ahead of UTC when a behaviour starts
    Starts,         \* bound: the days on which a behaviour starts, counted from 1 January 2018
    Span,           \* bound: the days it lasts
    Schedules,      \* bound: the schedules users store
    MaxTurns        \* bound: changes of settings, zone or server, restarts and requests

Frequencies == {"daily", "weekly", "monthly"}
Hours       == 0 .. HoursPerDay - 1
Zones       == -(HoursPerDay - 1) .. HoursPerDay - 1    \* less than a day from UTC
Schedule    == [freq : Frequencies, dow : 0 .. 6, dom : 1 .. 28, hour : Hours]

ASSUME DigestConstants ==
    /\ HoursPerDay \in Nat \ {0} /\ Span \in Nat /\ MaxTurns \in Nat
    /\ Offsets \subseteq Zones
    /\ Starts \subseteq Nat \ {0}
    /\ Schedules \subseteq Schedule

-----------------------------------------------------------------------------
(* The calendar, as Go's time package has it: days from Monday 1 January 2018 *)

Leap(y)      == y % 4 = 0 /\ (y % 100 # 0 \/ y % 400 = 0)
LeapsUpTo(y) == (y \div 4) - (y \div 100) + (y \div 400)
NewYear(y)   == 365 * (y - 2018) + LeapsUpTo(y - 1) - LeapsUpTo(2017)
Elapsed      == <<0, 31, 59, 90, 120, 151, 181, 212, 243, 273, 304, 334>>
FirstOf(y, m) == NewYear(y) + Elapsed[m] + (IF m > 2 /\ Leap(y) THEN 1 ELSE 0)

Year(d)  == CHOOSE y \in 2018 .. 2018 + (d \div 365) : NewYear(y) <= d /\ d < NewYear(y + 1)
Month(d) == CHOOSE m \in 1 .. 12 :
                FirstOf(Year(d), m) <= d /\ (m = 12 \/ d < FirstOf(Year(d), m + 1))
Weekday(d) == (d + 1) % 7       \* 0 is Sunday
\* The year and week that hold the Thursday of the day's week.
ISOYear(d) == Year(d - (d % 7) + 3)
ISOWeek(d) == ((d - (d % 7) + 3 - NewYear(ISOYear(d))) \div 7) + 1

-----------------------------------------------------------------------------
(* Labels of periods, and windows *)

PeriodLabel(freq, d) ==
    CASE freq = "daily"   -> [of |-> "day", year |-> Year(d), n |-> d]
      [] freq = "weekly"  -> [of |-> "week", year |-> Year(d), n |-> ISOWeek(d)]
      [] freq = "monthly" -> [of |-> "month", year |-> Year(d), n |-> Month(d)]

\* Mutated PeriodTimeRange: a week starts on the weekday of 4 January.
PeriodTimeRangeAnyDay(l) ==
    LET jan4 == NewYear(l.year) + 3 monday == jan4 + (l.n - ISOWeek(jan4)) * 7 IN
    CASE l.of = "day"   -> [since |-> l.n, until |-> l.n + 1]
      [] l.of = "week"  -> [since |-> monday, until |-> monday + 7]
      [] l.of = "month" -> [since |-> FirstOf(l.year, l.n), until |-> FirstOf(l.year + (l.n \div 12), (l.n % 12) + 1)]

\* From the midnight of since to before that of until, in UTC.
PeriodTimeRange(l) ==
    LET jan4 == NewYear(l.year) + 3
        monday == jan4 + (l.n - ISOWeek(jan4)) * 7 - Weekday(jan4) + 1 IN
    CASE l.of = "day"   -> [since |-> l.n, until |-> l.n + 1]
      [] l.of = "week"  -> [since |-> monday, until |-> monday + 7]
      [] l.of = "month" -> [since |-> FirstOf(l.year, l.n), until |-> FirstOf(l.year + (l.n \div 12), (l.n % 12) + 1)]

SamePeriod(freq, d, e) ==
    CASE freq = "daily"   -> d = e
      [] freq = "weekly"  -> d \div 7 = e \div 7
      [] freq = "monthly" -> Year(d) = Year(e) /\ Month(d) = Month(e)

-----------------------------------------------------------------------------
VARIABLES
    clock,      \* hours, by the clock of the zone
    offset,     \* the hours by which that clock is ahead of UTC
    start,      \* the day the behaviour started
    schedule,   \* the setting digest_schedule
    smtp,       \* the setting smtp, and what its server does
    job,        \* the goroutine of StartDigestJob
    ticks,      \* its ticker's channel
    mail,       \* the last digest made: its frequency, the day in the zone and in UTC, for whom
    last,       \* history: the day of the job's last digest under this schedule and zone
    turns

digestVars == <<clock, offset, start, schedule, smtp, job, ticks, mail, last, turns>>

Today    == clock \div HoursPerDay
UTCDay   == (clock - offset) \div HoursPerDay
ThisHour == clock % HoursPerDay
NoDay   == -1
\* Weekly, on Friday, at five in the afternoon.
Default == [freq |-> "weekly", dow |-> 5, dom |-> 1, hour |-> HoursPerDay - 1]
NoMail  == [freq |-> "daily", day |-> NoDay, utc |-> NoDay, by |-> "nobody"]

DigestInit ==
    /\ \E d \in Starts : start = d /\ clock = d * HoursPerDay
    /\ offset \in Offsets
    /\ schedule = Default
    /\ smtp = "unset"
    /\ job = "waits"
    /\ ticks = 0
    /\ mail = NoMail
    /\ last = NoDay
    /\ turns = 0

Turn == turns < MaxTurns /\ turns' = turns + 1

-----------------------------------------------------------------------------
(* The clock and the ticker *)

\* Mutated Buffered: ticks that find the job at work wait in line.
BufferedAll(n) == IF n < 2 THEN n + 1 ELSE 2

\* The ticker's channel holds one tick, another is dropped.
Buffered(n) == 1

\* A run starts in the hour of its tick, unless the run before is still at work; the
\* ticker is made after the first run.
Passes(h) ==
    /\ clock < (start + Span) * HoursPerDay
    /\ ~(job = "idle" /\ ticks > 0) /\ job # "due"
    /\ clock' = h
    /\ job' = IF job = "waits" THEN "due" ELSE job
    /\ ticks' = IF job \in {"idle", "sends"} THEN Buffered(ticks) ELSE 0
    /\ UNCHANGED <<start, schedule, smtp, mail>>

HourPasses == Passes(clock + 1) /\ UNCHANGED <<offset, last, turns>>

\* Summer time begins or ends: an hour is left out, or comes twice.
ZoneTurns ==
    /\ Turn
    /\ \/ Passes(clock) /\ offset' = offset - 1
       \/ Passes(clock + 2) /\ offset' = offset + 1
    /\ offset' \in Zones
    /\ last' = NoDay

-----------------------------------------------------------------------------
(* DigestJob *)

ShouldSendToday(s, d) ==
    CASE s.freq = "daily"   -> TRUE
      [] s.freq = "weekly"  -> Weekday(d) = s.dow
      [] s.freq = "monthly" -> d - FirstOf(Year(d), Month(d)) + 1 = s.dom

\* Mutated Scheduled: the hour is not compared.
ScheduledAnyHour(s) == ShouldSendToday(s, Today)

Scheduled(s) == ThisHour = s.hour /\ ShouldSendToday(s, Today)

\* Run: the schedule is read and the digest built; mail goes out if a server is configured.
Run(first) ==
    /\ IF first THEN job = "due" /\ UNCHANGED ticks ELSE job = "idle" /\ ticks > 0 /\ ticks' = ticks - 1
    /\ IF Scheduled(schedule)
       THEN /\ mail' = [freq |-> schedule.freq, day |-> Today, utc |-> UTCDay, by |-> "job"]
            /\ last' = Today
            /\ job' = IF smtp = "unset" THEN "idle" ELSE IF first THEN "sendsFirst" ELSE "sends"
       ELSE job' = "idle" /\ UNCHANGED <<mail, last>>
    /\ UNCHANGED <<clock, offset, start, schedule, smtp, turns>>

\* SendMail has no deadline: it ends when the server says something, and an error is only logged.
SendMail ==
    /\ job \in {"sends", "sendsFirst"} /\ smtp # "hangs"
    /\ job' = "idle"
    /\ UNCHANGED <<clock, offset, start, schedule, smtp, ticks, mail, last, turns>>

-----------------------------------------------------------------------------
(* Settings, requests, the world *)

\* Refused as long as no mail server is configured.
PutSchedule(s) ==
    /\ Turn
    /\ smtp # "unset"
    /\ schedule' = s /\ last' = NoDay
    /\ UNCHANGED <<clock, offset, start, smtp, job, ticks, mail>>

PutSMTP ==
    /\ Turn
    /\ smtp' = IF smtp = "unset" THEN "answers" ELSE "unset"
    /\ UNCHANGED <<clock, offset, start, schedule, job, ticks, mail, last>>

ServerTurns ==
    /\ Turn
    /\ smtp \in {"answers", "hangs"}
    /\ smtp' = IF smtp = "hangs" THEN "answers" ELSE "hangs"
    /\ UNCHANGED <<clock, offset, start, schedule, job, ticks, mail, last>>

\* SendNow and GetReport: of the current period of any frequency, in a goroutine of
\* its own or in the answer.
SendNow(freq) ==
    /\ Turn
    /\ smtp # "unset"
    /\ mail' = [freq |-> freq, day |-> Today, utc |-> UTCDay, by |-> "user"]
    /\ UNCHANGED <<clock, offset, start, schedule, smtp, job, ticks, last>>

\* The process ends and starts again, and waits for the next full hour.
RestartDigest ==
    /\ Turn
    /\ job' = "waits" /\ ticks' = 0
    /\ UNCHANGED <<clock, offset, start, schedule, smtp, mail, last>>

DigestNext ==
    \/ HourPasses
    \/ \E first \in BOOLEAN : Run(first)
    \/ SendMail
    \/ \E s \in Schedules : PutSchedule(s)
    \/ PutSMTP \/ ServerTurns \/ ZoneTurns \/ RestartDigest
    \/ \E freq \in Frequencies : SendNow(freq)

DigestSpec == DigestInit /\ [][DigestNext]_digestVars

-----------------------------------------------------------------------------
(* Properties *)

DigestTypeOK ==
    /\ clock \in Nat /\ clock >= HoursPerDay /\ offset \in Zones /\ start \in Starts
    /\ schedule \in Schedules \cup {Default}
    /\ smtp \in {"unset", "answers", "hangs"}
    /\ job \in {"waits", "due", "idle", "sends", "sendsFirst"}
    /\ ticks \in 0 .. 1
    /\ mail \in {NoMail} \cup [freq : Frequencies, day : Nat, utc : Nat, by : {"job", "user"}]
    /\ last \in Nat \cup {NoDay}
    /\ turns \in 0 .. MaxTurns

\* Under one schedule, and as long as the clock is not turned, the job makes one digest
\* of a period, through restarts in the hour of the mail and sends that last for days.
OncePerPeriod == [][
    (\E first \in BOOLEAN : Run(first)) /\ Scheduled(schedule) /\ last # NoDay
        => ~SamePeriod(schedule.freq, last, Today)]_digestVars

Window(m)    == PeriodTimeRange(PeriodLabel(m.freq, m.day))
Covers(w, d) == w.since <= d /\ d < w.until

\* A digest is of the period that holds the day of the zone, and a week begins on Monday;
\* its window holds the moment, in UTC, unless that is in another period there: that of a
\* zone ahead has not begun then, that of a zone behind is over.  Wrong besides are weeks
\* labelled with another year than theirs, and of years whose 4 January is a Sunday.
WindowHoldsToday ==
    LET w == Window(mail) IN
    mail.day # NoDay =>
        /\ mail.freq = "weekly" => w.since % 7 = 0 /\ w.until = w.since + 7
        /\ \/ /\ Covers(w, mail.day)
              /\ Covers(w, mail.utc) \/ ~SamePeriod(mail.freq, mail.day, mail.utc)
           \/ mail.freq = "weekly" /\ (Year(mail.day) # ISOYear(mail.day) \/ Weekday(NewYear(Year(mail.day)) + 3) = 0)

\* SendNow "triggers an immediate digest for the current period" (api/digest.go).
CurrentPeriod == mail.day # NoDay => Covers(Window(mail), mail.day)
=============================================================================

------------------------------ MODULE DigestReport ------------------------------
(***************************************************************************)
(* What a digest says of the period: buildDigestData reads one table after *)
(* the other, passing over a read that fails, and buildNarrative judges    *)
(* what was read.  The tables change meanwhile; each read is any answer.   *)
(***************************************************************************)
EXTENDS Naturals, Sequences

CONSTANTS
    Types,          \* types of checks
    Groups,         \* bound: how many checks of a type are up, warn and otherwise
    ReadsMayFail

Group == [up : Nat, warn : Nat, other : Nat]
ASSUME ReportConstants == Groups \subseteq Group /\ ReadsMayFail \in BOOLEAN

VARIABLES
    sheet,      \* DigestData, as it has been read so far
    section,    \* the section that is read next
    lost        \* history: whether a read failed

reportVars == <<sheet, section, lost>>

Severities == {"info", "warn", "error", "critical"}
\* Names under which resource_rollups has its rows.
Metrics    == {"cpu_percent", "mem_percent", "disk_percent"}
Order      == <<"events", "checks", "apps", "infra", "updates", "resources">>
NoChecks   == [up |-> 0, warn |-> 0, other |-> 0]

Blank == [events |-> {}, checks |-> [t \in Types |-> NoChecks], apps |-> FALSE, infra |-> "none",
          updates |-> FALSE, resources |-> {}]

\* What each section may find: the levels of the period's events; how many checks of each type
\* are in which state; whether an app has a category of errors that counts one; whether
\* a component is not online, and whether an image has an update; the metrics that ran high.
Findings(s) ==
    CASE s = "events"    -> SUBSET Severities
      [] s = "checks"    -> [Types -> Groups]
      [] s = "apps"      -> BOOLEAN
      [] s = "infra"     -> {"none", "online", "offline"}
      [] s = "updates"   -> BOOLEAN
      [] s = "resources" -> SUBSET Metrics

\* A failed read is only logged: events are counted level by level, and those of a
\* level missing; another section stays blank.
Partial(s, v) == IF s = "events" THEN SUBSET v ELSE {Blank[s]}

ReportInit == sheet = Blank /\ section = 1 /\ lost = FALSE

ReadSection ==
    /\ section <= Len(Order)
    /\ LET s == Order[section] IN \E v \in Findings(s) :
        \/ sheet' = [sheet EXCEPT ![s] = v] /\ lost' = lost
        \/ ReadsMayFail /\ lost' = TRUE /\ \E w \in Partial(s, v) : sheet' = [sheet EXCEPT ![s] = w]
    /\ section' = section + 1

\* The report is done; another is asked for.
NextReport == section > Len(Order) /\ sheet' = Blank /\ section' = 1 /\ lost' = FALSE

ReportNext == ReadSection \/ NextReport
ReportSpec == ReportInit /\ [][ReportNext]_reportVars

-----------------------------------------------------------------------------
(* The judgement *)

Total(g) == g.up + g.warn + g.other

\* Mutated GroupStatus: healthy from 75 per cent on.
GroupStatusLow(g) ==
    LET sum == 100 * g.up + 75 * g.warn n == Total(g) IN
    CASE n = 0 -> "none" [] n > 0 /\ sum >= 75 * n -> "healthy" [] OTHER -> "down"

\* A warning counts 75 per cent of a check that is up; the average of the type decides.
GroupStatus(g) ==
    LET sum == 100 * g.up + 75 * g.warn n == Total(g) IN
    CASE n = 0 -> "none"
      [] n > 0 /\ sum >= 95 * n -> "healthy"
      [] n > 0 /\ sum < 95 * n /\ sum >= 75 * n -> "warning"
      [] OTHER -> "down"

\* Section 6 looks for other names than the table has.
Warned(metrics) == metrics \cap {"cpu", "mem", "disk"}

Statuses(r) == {GroupStatus(r.checks[t]) : t \in Types}
Urgent(r)   == "down" \in Statuses(r) \/ "critical" \in r.events
Review(r)   == \/ "warning" \in Statuses(r) \/ "error" \in r.events
               \/ r.apps \/ r.infra = "offline" \/ r.updates \/ Warned(r.resources) # {}

HealthStatus(r) ==
    IF Urgent(r) THEN "critical" ELSE IF Review(r) THEN "warning" ELSE "healthy"

-----------------------------------------------------------------------------
(* Properties *)

ReportTypeOK ==
    /\ section \in 1 .. Len(Order) + 1 /\ lost \in BOOLEAN
    /\ DOMAIN sheet = DOMAIN Blank
    /\ \A s \in DOMAIN sheet : sheet[s] \in Findings(s) \cup {Blank[s]}

\* A digest headed "All systems look healthy", none of whose reads failed, was made when
\* there was nothing to look at: no error, no component offline, no update, no
\* check down among fewer than twenty of its type and none degraded among fewer than
\* five; in a larger group the average passes over one.
HealthyIsHealthy ==
    section > Len(Order) /\ ~lost /\ HealthStatus(sheet) = "healthy" =>
        /\ sheet.events \subseteq {"info", "warn"}
        /\ sheet.infra # "offline" /\ ~sheet.apps /\ ~sheet.updates
        /\ \A t \in Types : LET g == sheet.checks[t] IN
              /\ Total(g) < 20 => g.other = 0
              /\ Total(g) < 5 => g.warn = 0
=============================================================================
